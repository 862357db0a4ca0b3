------------------------------ MODULE MountPlan ------------------------------
(***************************************************************************)
(* From claude's files on the host to what claude sees of them in the      *)
(* container (mainErr and childMain in main.go, with the files' contents   *)
(* of SettingsFiles and the mounts of Mounts): sessions with --claude in   *)
(* one working directory, which share its cache directory, and a user who  *)
(* edits the settings while they start and run.                            *)
(*                                                                         *)
(* claude's entries in ~/.claude are one of each kind: "projects" is live  *)
(* state, "cache" scratch, ".credentials.json" a credential.               *)
(***************************************************************************)
EXTENDS SettingsFiles, Mounts

CONSTANTS
  Sessions,
  Contents,   \* what a settings file may hold
  HostEnv,    \* the variables set on the host
  Setups,     \* --expose, --only (absolute) and the host's volumes
  MaxEdits    \* bound: edits of the settings while sessions are about

Files == {"user", "project"}

Home == <<"home", "u">>
Cwd == <<"home", "u", "src">>
InCache(name) == <<"home", "u", ".cache", "src", name>>
Claude == <<"home", "u", ".claude">>
ClaudeJson == <<"home", "u", ".claude.json">>
Credentials == <<"home", "u", ".claude", ".credentials.json">>
Projects == <<"home", "u", ".claude", "projects">>
Cache == <<"home", "u", ".claude", "cache">>
Source == <<"home", "u", "src", "main.go">>
Settings == [user |-> <<"home", "u", ".claude", "settings.json">>,
             project |-> <<"home", "u", "src", ".claude", "settings.json">>]
SanitizedCopy ==
  [user |-> <<"home", "u", ".cache", "src", "claude", "settings-0.json">>,
   project |-> <<"home", "u", ".cache", "src", "claude", "settings-1.json">>]

VARIABLES
  setup,    \* [expose, only, volumes] of all sessions
  file,     \* the two settings files
  edits,    \* how often they were edited
  copy,     \* settings-0.json and settings-1.json of the cache directory
  tree,     \* per directory of a session: claude-merged in it
  session   \* per session: where it is and what it has read and decided

planVars == <<setup, file, edits, copy, tree, session>>

Path == Seq(STRING)

ASSUME SetupsAssumption == \A st \in Setups :
  /\ st.expose \in Seq(Path) /\ st.only \in Seq(Path)
  /\ st.volumes \subseteq [at: Path, root: Path]
ASSUME MaxEditsAssumption == MaxEdits \in Nat

SessionAt == {"start", "loaded", "listed", "merge", "merging", "stub",
              "user", "user write", "project", "project write",
              "planned", "running", "failed", "ended"}
NoTree == [settings |-> Missing, present |-> FALSE, stub |-> FALSE]
Content == (SUBSET UNION Contents) \cup {Missing, Malformed}

PlanTypeOK ==
  /\ setup \in Setups
  /\ file \in [Files -> Content]
  /\ edits \in 0 .. MaxEdits
  /\ copy \in [Files -> Content]
  /\ tree \in [Sessions -> [settings: Content, present: BOOLEAN, stub: BOOLEAN]]
  /\ session \in [Sessions ->
       [at: SessionAt, env: SUBSET (HostEnv \cup EnvKeys), listed: BOOLEAN,
        merge: BOOLEAN, read: [Files -> Content], overlay: SUBSET Files]]

PlanInit ==
  /\ setup \in Setups
  /\ file \in [Files -> Contents]
  /\ edits = 0
  /\ copy = [f \in Files |-> Missing]
  /\ tree = [s \in Sessions |-> NoTree]
  /\ session = [s \in Sessions |->
       [at |-> "start", env |-> {}, listed |-> FALSE, merge |-> FALSE,
        read |-> [f \in Files |-> Missing], overlay |-> {}]]

At(s, place) == session[s].at = place
Goto(s, place) == session' = [session EXCEPT ![s].at = place]

-----------------------------------------------------------------------------
(* The binds of a session, in the order of cfg.Binds *)

\* Faulty variant, for a mutant of PROJECT.json: a merged tree per working
\* directory.
TreeOfCwd(s) == CHOOSE t \in Sessions : TRUE

MergedDir(s) == <<"tmp", s, "claude-merged">>
TreeOf(s) == s   \* the directory of mainErr that its merged tree is in

\* claudeBinds: the entries of ~/.claude, live state among them, and ~/.claude.json.
Listed(s) ==
  IF session[s].listed THEN <<Bind(Settings["user"], Settings["user"])>> ELSE <<>>
LiveState == <<Bind(Projects, Projects)>>
BesideClaude == <<Bind(ClaudeJson, ClaudeJson)>>

\* With a merged tree, what is in ~/.claude gives way to it and to the live state.
ClaudeExtra(s) ==
  IF session[s].merge
  THEN BesideClaude \o <<Bind(MergedDir(s), Claude)>> \o LiveState
  ELSE Listed(s) \o LiveState \o BesideClaude

SettingsOverlays(s) ==
  LET overlay(f) == IF f \in session[s].overlay
                    THEN <<Bind(SanitizedCopy[f], Settings[f])>> ELSE <<>>
  IN overlay("user") \o overlay("project")

OnlyMode == setup.only # <<>>
CwdBind == Bind(IF OnlyMode THEN InCache("cwd") ELSE Cwd, Cwd)
AskedFor(st) == st.expose \o st.only
Asked == [i \in DOMAIN AskedFor(setup) |-> Bind(AskedFor(setup)[i], AskedFor(setup)[i])]

Binds(s) ==
  <<CwdBind>> \o Asked \o ClaudeExtra(s) \o <<Tmpfs(Cache)>> \o SettingsOverlays(s)

\* What childMain mounts before the binds: the directories of the root that it
\* does not exclude, and the cache's home, tmp and run.
RootMounts ==
  <<Bind(<<"usr">>, <<"usr">>), Bind(<<"srv">>, <<"srv">>), Tmpfs(<<"dev">>),
    Bind(InCache("home"), Home), Bind(InCache("tmp"), <<"tmp">>),
    Bind(InCache("run"), <<"run">>)>>

Mounted(s) == RootMounts \o Dedup(Binds(s))
View(s, p) == Shown(Mounted(s), p)

-----------------------------------------------------------------------------
(* mainErr *)

LoadSettings(s) ==
  /\ At(s, "start")
  /\ session' = [session EXCEPT ![s].at = "loaded",
                   ![s].env = Environment(HostEnv, file["user"], file["project"])]
  /\ UNCHANGED <<setup, file, edits, copy, tree>>

\* claudeBinds lists ~/.claude.
ListClaude(s) ==
  /\ At(s, "loaded")
  /\ session' = [session EXCEPT ![s].at = "listed",
                                ![s].listed = file["user"] # Missing]
  /\ UNCHANGED <<setup, file, edits, copy, tree>>

DecideMerge(s) ==
  /\ At(s, "listed")
  /\ session' = [session EXCEPT
       ![s].at = IF HasAWS(file["project"]) THEN "merge" ELSE "stub",
       ![s].merge = HasAWS(file["project"])]
  /\ UNCHANGED <<setup, file, edits, copy, tree>>

\* buildMergedClaudeDir: RemoveAll, then the copies and the merged settings.
RemoveTree(s) ==
  /\ At(s, "merge")
  /\ Goto(s, "merging")
  /\ tree' = [tree EXCEPT ![TreeOf(s)] = NoTree]
  /\ UNCHANGED <<setup, file, edits, copy>>

MergeTree(s) ==
  /\ At(s, "merging")
  /\ IF MergeFails(file["user"], file["project"])
     THEN /\ session' = [session EXCEPT ![s].at = "failed"]
          /\ tree' = [tree EXCEPT ![s] = NoTree]
     ELSE /\ session' = [session EXCEPT ![s].at = "stub", ![s].read = file]
          /\ tree' = [tree EXCEPT ![TreeOf(s)] =
               [settings |-> Merged(file["user"], file["project"]),
                present |-> TRUE, stub |-> FALSE]]
  /\ UNCHANGED <<setup, file, edits, copy>>

\* writeStubCredentials, into the merged tree or the cache's home, unless Bedrock
\* is used.  (The host is taken to have a credential for Anthropic otherwise.)
WriteStub(s) ==
  /\ At(s, "stub")
  /\ Goto(s, IF session[s].merge THEN "planned" ELSE "user")
  /\ tree' = IF session[s].merge /\ ~UsesBedrock(session[s].env)
             THEN [tree EXCEPT ![TreeOf(s)].stub = TRUE] ELSE tree
  /\ UNCHANGED <<setup, file, edits, copy>>

Writing(f) == IF f = "user" THEN "user write" ELSE "project write"
After(f) == IF f = "user" THEN "project" ELSE "planned"

\* sanitizeSettingsFile reads, and truncates the copy if there is to be one.
Sanitize(s, f) ==
  /\ At(s, f)
  /\ session' = [session EXCEPT ![s].read[f] = file[f],
       ![s].at = IF NeedsCopy(file[f]) THEN Writing(f) ELSE After(f)]
  /\ copy' = IF NeedsCopy(file[f]) THEN [copy EXCEPT ![f] = Malformed] ELSE copy
  /\ UNCHANGED <<setup, file, edits, tree>>

WriteCopy(s, f) ==
  /\ At(s, Writing(f))
  /\ session' = [session EXCEPT ![s].at = After(f), ![s].overlay = @ \cup {f}]
  /\ copy' = [copy EXCEPT ![f] = Sanitized(session[s].read[f])]
  /\ UNCHANGED <<setup, file, edits, tree>>

-----------------------------------------------------------------------------
(* childMain *)

Vanished(s) ==
  \E i \in DOMAIN Dedup(Binds(s)) : \E f \in Files :
    Dedup(Binds(s))[i].path = Settings[f] /\ file[f] = Missing

Leaks(s) == ContainmentLeak(setup.volumes, Mounted(s), {Home, <<"tmp">>, <<"run">>})

\* The mount point of an overlay is created if it is not there: where the
\* directory is the host's, so is the empty file.
Placed(s) ==
  {f \in session[s].overlay :
     /\ file[f] = Missing
     /\ Shown(RootMounts \o SelectSeq(Binds(s), LAMBDA b : b.dest # Settings[f]),
              Settings[f]) = Settings[f]}

Mount(s) ==
  /\ At(s, "planned")
  /\ file' = [f \in Files |-> IF f \in Placed(s) THEN Malformed ELSE file[f]]
  /\ IF Vanished(s) \/ Leaks(s)
     THEN /\ Goto(s, "failed") /\ tree' = [tree EXCEPT ![s] = NoTree]
     ELSE /\ Goto(s, "running") /\ UNCHANGED tree
  /\ UNCHANGED <<setup, edits, copy>>

\* The container exits: mainErr returns and removes the session's directory.
Exit(s) ==
  /\ At(s, "running")
  /\ Goto(s, "ended")
  /\ tree' = [tree EXCEPT ![s] = NoTree]
  /\ UNCHANGED <<setup, file, edits, copy>>

-----------------------------------------------------------------------------

\* The user (or a claude on the host) writes a settings file, or removes it.
Edit(f) ==
  /\ edits < MaxEdits
  /\ edits' = edits + 1
  /\ \E content \in Contents \ {file[f]} : file' = [file EXCEPT ![f] = content]
  /\ UNCHANGED <<setup, copy, tree, session>>

Step(s) ==
  \/ LoadSettings(s) \/ ListClaude(s) \/ DecideMerge(s)
  \/ RemoveTree(s) \/ MergeTree(s) \/ WriteStub(s)
  \/ \E f \in Files : Sanitize(s, f) \/ WriteCopy(s, f)
  \/ Mount(s) \/ Exit(s)

PlanNext ==
  \/ \E s \in Sessions : Step(s)
  \/ \E f \in Files : Edit(f)

PlanSpec == PlanInit /\ [][PlanNext]_planVars

-----------------------------------------------------------------------------
(* Properties *)

Running(s) == At(s, "running")
Exposes(p) == \E i \in DOMAIN AskedFor(setup) : pathContains(AskedFor(setup)[i], p)

\* The settings claude reads: --setting-sources user goes with a merged tree.
Sources(s) == IF session[s].merge THEN {"user"} ELSE Files

\* The settings that claude finds where it looks for those of a source.
SettingsSeen(s, f) ==
  LET from == View(s, Settings[f]) IN
  CASE from = Settings[f] -> file[f]
    [] from = SanitizedCopy[f] -> copy[f]
    [] from = MergedDir(s) \o <<"settings.json">> -> tree[TreeOf(s)].settings
    [] OTHER -> Missing

\* What runclaude keeps from claude stays kept, in every session, whatever its
\* host and its neighbours do to the files meanwhile: no AWS setting that was
\* there when the session looked (unless the file was malformed and so left
\* alone), no AWS variable but the stubs', and neither the real credentials nor,
\* with --only, a file of the working directory that is not listed, under any
\* name, aliases through other volumes included, unless the user exposes them.
Aliases(p) == {p} \cup {v.at \o SubSeq(p, Len(v.root) + 1, Len(p)) :
                          v \in {w \in setup.volumes : pathContains(w.root, p)}}
Reaches(s, p) == \E alias \in Aliases(p) :
  LET from == View(s, alias)
  IN from # Nothing /\ RootInFS(setup.volumes, from) = p
HiddenStaysHidden ==
  \A s \in Sessions : Running(s) =>
    /\ \A f \in Sources(s) : HasAWS(session[s].read[f]) => ~HasAWS(SettingsSeen(s, f))
    /\ ContainerEnv(session[s].env) \cap AwsEnv \subseteq {"CLAUDE_CODE_USE_BEDROCK"}
    /\ ~Exposes(Credentials) => ~Reaches(s, Credentials)
    /\ OnlyMode /\ ~Exposes(Source) => ~Reaches(s, Source)

\* The state claude keeps in ~/.claude is the host's, its scratch is the
\* session's own, and a merged tree is whole for as long as its session runs.
\* (A path that the user exposes himself is mounted where he put it.)
ClaudeHomeKept ==
  \A s \in Sessions : Running(s) =>
    /\ ~Exposes(Projects) => View(s, Projects) = Projects
    /\ ~Exposes(Cache) => View(s, Cache) = Scratch
    /\ session[s].merge =>
         /\ tree[TreeOf(s)].present
         /\ tree[TreeOf(s)].stub \/ UsesBedrock(session[s].env)

\* A setup in which that can be said: what is asked for does not name a directory
\* above a place that a later bind of the session takes (deduplication would mount
\* it over that bind), and a volume that shows a hidden file a second time shows
\* all of the home, away from the home and from what is asked for.
Replaced == {Settings["user"], Settings["project"], Claude}
Ordinary(st) ==
  /\ \A i, j \in DOMAIN AskedFor(st) :
       /\ AskedFor(st)[i] \in Replaced
       /\ pathContains(AskedFor(st)[j], AskedFor(st)[i])
       => AskedFor(st)[j] = AskedFor(st)[i]
  /\ \A v \in st.volumes :
       /\ ~pathContains(v.at, InCache("home"))
       /\ \A w \in st.volumes : w.at = v.at => w = v
       /\ (\E p \in {Credentials, Source} : pathContains(v.root, p)) =>
            /\ pathContains(v.root, Home)
            /\ \A q \in {Home, <<"tmp">>} :
                 ~pathContains(q, v.at) /\ ~pathContains(v.at, q)
            /\ \A i \in DOMAIN AskedFor(st) : ~pathContains(v.at, AskedFor(st)[i])

-----------------------------------------------------------------------------
(* What a comment says and the code does not do *)

\* "later entries override earlier ones, so overlays appended after a directory
\* bind take effect": deduplication shows no destination other than mounting all
\* binds in their order would.
OverlaysTakeEffect ==
  \A s \in Sessions : Running(s) =>
    \A i \in DOMAIN Binds(s) :
      LET p == Binds(s)[i].dest
      IN View(s, p) = Shown(RootMounts \o Binds(s), p)
=============================================================================
