-------------------------- MODULE MCSessionRegistry --------------------------
(* TLC instances of SessionRegistry. *)
EXTENDS SessionRegistry, TLC

PidSymmetry == Permutations(Pids)
=============================================================================
