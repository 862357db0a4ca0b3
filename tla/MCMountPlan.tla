----------------------------- MODULE MCMountPlan -----------------------------
(* Instances of MountPlan for TLC. *)
EXTENDS MountPlan, TLC

MCContents == {{"missing"}, {"malformed"}, {"theme"}, {"theme", "AWS_PROFILE"},
               {"CLAUDE_CODE_USE_BEDROCK", "awsAuthRefresh"}}

NoVolume == {}
RootAgain == {[at |-> <<"srv">>, root |-> <<>>]}
HomeAgain == {[at |-> <<"srv", "data">>, root |-> <<"home">>]}
OtherData == {[at |-> <<"srv", "data">>, root |-> <<"data">>]}

Setup(expose, only, volumes) ==
  [expose |-> expose, only |-> only, volumes |-> volumes]

MCSetups ==
  {Setup(<<>>, <<>>, v) : v \in {NoVolume, RootAgain, HomeAgain, OtherData}} \cup
  {Setup(<<p>>, <<>>, NoVolume) :
     p \in {<<"home">>, Home, Claude, Projects, Cache, Settings["user"]}} \cup
  {Setup(<<>>, <<p>>, v) : p \in {Source, Cwd \o <<".claude">>},
                           v \in {NoVolume, RootAgain}}

\* The theorem about HiddenStaysHidden speaks of all setups of the runs.
ASSUME SetupsOrdinary == \A st \in Setups : Ordinary(st)

Symmetry == Permutations(Sessions)
=============================================================================
