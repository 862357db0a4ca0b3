---------------------------- MODULE SettingsFiles ----------------------------
(***************************************************************************)
(* What runclaude reads from and makes of claude's settings.json           *)
(* (claudesettings.go, claudemerge.go), and of the environment (main.go).  *)
(* A settings file is the set of its keys, those of its "env" object and   *)
(* those at top level together.                                            *)
(***************************************************************************)

AwsEnv == {"AWS_PROFILE", "CLAUDE_CODE_USE_BEDROCK"}
EnvKeys == AwsEnv \cup {"EDITOR"}
Scrub == AwsEnv \cup {"awsAuthRefresh"}

Missing == {"missing"}
Malformed == {"malformed"}
IsObject(file) == file # Missing /\ file # Malformed
Object(file) == IF IsObject(file) THEN file ELSE {}

\* loadClaudeSettings over both files, then applyClaudeSettingsEnv over the
\* host's environment: the variables that are set.
Environment(host, user, project) ==
  host \cup ((Object(user) \cup Object(project)) \cap EnvKeys)

\* What the container's environment keeps: scrubAWSCreds, then the stubs that
\* send claude to Bedrock through the proxy.
UsesBedrock(env) == "CLAUDE_CODE_USE_BEDROCK" \in env
ContainerEnv(env) ==
  (env \ AwsEnv) \cup
  (IF UsesBedrock(env) THEN {"CLAUDE_CODE_USE_BEDROCK", "stub keys"} ELSE {})

\* projectSettingsHasAWS
HasAWS(file) == Object(file) \cap Scrub # {}

\* sanitizeSettingsFile: whether a copy is made, and what it holds.
NeedsCopy(file) == HasAWS(file)
Sanitized(file) == file \ Scrub

\* Faulty variant, for a mutant of PROJECT.json: a merger of two missing files.
MergedNull(user, project) ==
  IF user = Missing /\ project = Missing THEN {"null"}
  ELSE (Object(user) \cup Object(project)) \ Scrub

\* mergeSettingsFiles: a malformed file is an error, of two missing files there
\* is no merger.
MergeFails(user, project) == Malformed \in {user, project}
Merged(user, project) ==
  IF user = Missing /\ project = Missing THEN Missing
  ELSE (Object(user) \cup Object(project)) \ Scrub
=============================================================================
