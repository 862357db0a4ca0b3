-------------------------------- MODULE Mounts --------------------------------
(***************************************************************************)
(* Binds as childMain deduplicates and mounts them (main.go), what they    *)
(* show in the container, and checkContainment over the resulting mount    *)
(* table (containment.go, mountinfo.go).  A path is a sequence of names.   *)
(***************************************************************************)
EXTENDS Naturals, Sequences, SequencesExt

Bind(path, dest) == [path |-> path, dest |-> dest, tmpfs |-> FALSE]
Tmpfs(dest) == [path |-> <<>>, dest |-> dest, tmpfs |-> TRUE]

pathContains(parent, child) == IsPrefix(parent, child)

-----------------------------------------------------------------------------
(* Faulty variants, for the mutants of PROJECT.json. *)

\* The first bind of a destination wins.
KeepFirst(binds) ==
  LET add(kept, b) == IF \E i \in DOMAIN kept : kept[i].dest = b.dest
                      THEN kept ELSE Append(kept, b)
  IN FoldLeft(add, <<>>, binds)

-----------------------------------------------------------------------------

\* The last bind of a destination takes the place of the first.
Place(kept, b) ==
  IF \E k \in DOMAIN kept : kept[k].dest = b.dest
  THEN [k \in DOMAIN kept |-> IF kept[k].dest = b.dest THEN b ELSE kept[k]]
  ELSE Append(kept, b)
Dedup(binds) ==
  LET kept[n \in 0 .. Len(binds)] ==
        IF n = 0 THEN <<>> ELSE Place(kept[n - 1], binds[n])
  IN kept[Len(binds)]

\* The host path that a path of the container leads to: the mount made last of
\* those at or above it decides.
Nothing == <<"nothing">>
Scratch == <<"tmpfs">>
Through(m, p) ==
  IF m.tmpfs THEN Scratch ELSE m.path \o SubSeq(p, Len(m.dest) + 1, Len(p))
Covering(mounts, p) == {i \in DOMAIN mounts : pathContains(mounts[i].dest, p)}
Shown(mounts, p) ==
  IF Covering(mounts, p) = {} THEN Nothing
  ELSE LET top == CHOOSE i \in Covering(mounts, p) :
                    \A j \in Covering(mounts, p) : j <= i
       IN Through(mounts[top], p)

-----------------------------------------------------------------------------
(* A volume is a host mount: root is its place in the one filesystem of the *)
(* host that all volumes show.                                              *)

RootInFS(volumes, p) ==
  LET over == {v \in volumes : pathContains(v.at, p)}
  IN IF over = {} THEN p
     ELSE LET v == CHOOSE w \in over : \A o \in over : Len(o.at) <= Len(w.at)
          IN v.root \o SubSeq(p, Len(v.at) + 1, Len(p))

\* The roots of the volumes that a recursive bind brings along.
RootsBelow(volumes, m) ==
  {v.root : v \in {w \in volumes : ~m.tmpfs /\ m.path # w.at
                                   /\ pathContains(m.path, w.at)}}

\* containmentLeak: some mount of the container other than the live ones at the
\* protected points has one of those below its root.  A point that no mount is
\* on is an error too.
ContainmentLeak(volumes, mounts, points) ==
  LET at(p) == {i \in DOMAIN mounts : mounts[i].dest = p}
      live(p) == CHOOSE i \in at(p) : \A j \in at(p) : j <= i
      own(i) == IF mounts[i].tmpfs \/ \E p \in points : i = live(p) THEN {}
                ELSE {RootInFS(volumes, mounts[i].path)}
  IN \/ \E p \in points : at(p) = {}
     \/ \E i \in DOMAIN mounts, p \in points :
          /\ ~mounts[live(p)].tmpfs
          /\ \E root \in own(i) \cup RootsBelow(volumes, mounts[i]) :
               pathContains(root, RootInFS(volumes, mounts[live(p)].path))
=============================================================================
