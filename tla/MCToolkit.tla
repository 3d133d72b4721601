----------------------------- MODULE MCToolkit -----------------------------
(* CacheSetup with four inputs: two complete ones for two endpoints, one      *)
(* that fails at storage after its cache part, and one without a memory level *)
(* whose auth part is invalid.  BatchRuns and PasswordRules with small        *)
(* configurations and the policies of the source.                             *)
(* The three share no state and no step, so that their steps commute: one of  *)
(* them moves while the others stay at their beginning, which shows all that  *)
(* their interleavings could.                                                 *)
EXTENDS CacheSetup, BatchRuns, PasswordRules, TLC

CONSTANTS full, other, late, lean, p1, h1, u1, u2, s1, s2, s3

Everything == ModuleNames \cup Settings
MCInputs == {full, other, late, lean}
MCPartOf ==
  full :> Everything @@ other :> Everything \ {"cookieHostPrefix", "cookieSecure"}
  @@ late :> Everything \ {"bucketName", "redis"}
  @@ lean :> Everything \ {"cookieSecure", "cors"}
Cached(url, memoryOn) == [on |-> TRUE, off |-> {}, redis |-> url, redisOn |-> TRUE, memoryOn |-> memoryOn]
MCCacheOf ==
  full :> Cached(u1, TRUE) @@ other :> [Cached(u2, TRUE) EXCEPT !.redisOn = FALSE]
  @@ late :> Cached(NoRedis, TRUE) @@ lean :> Cached(u1, FALSE)
MCPrefixes == {p1}
MCHolders == {h1}
MCPrefixOf == [h \in MCHolders |-> p1]
MCUrls == {u1, u2}

------------------------------------------------------------------------------
FirstConfig == [size |-> 2, tries |-> 2, group |-> 2]
MCBatchConfigs ==
  { FirstConfig, [size |-> 3, tries |-> 1, group |-> 1],
    [size |-> 2, tries |-> 0, group |-> 2] }

MCPolicies ==
  { DefaultPolicy, StrongPolicy, [min |-> 1, max |-> 20, needs |-> {}],
    [min |-> 10, max |-> 128, needs |-> {"upper", "lower"}], [min |-> 6, max |-> 6, needs |-> {"special"}] }

MCServers == {s1, s2, s3}
Bcrypt(rounds, legacy) ==
  [scheme |-> "bcrypt", params |-> [memory |-> 0, time |-> rounds, lanes |-> 0], legacy |-> legacy]
MCHasherOf ==
  [s \in MCServers |->
     IF s = s1 THEN Bcrypt(10, {"scrypt"})
     ELSE IF s = s2 THEN Bcrypt(12, {"argon2"})
     ELSE [scheme |-> "argon2", params |-> [memory |-> 2, time |-> 2, lanes |-> 1], legacy |-> {"bcrypt"}]]

-----------------------------------------------------------------------------
ToolkitInit == CacheSetupInit /\ BatchInit /\ PasswordInit

BatchIdle == BatchInit /\ config = FirstConfig

CacheMoves == BatchIdle /\ PasswordInit /\ CacheSetupNext /\ UNCHANGED << batchVars, passwordVars >>
BatchMoves == CacheSetupInit /\ PasswordInit /\ BatchNext /\ UNCHANGED << vars, passwordVars >>
PasswordMoves == CacheSetupInit /\ BatchIdle /\ PasswordNext /\ UNCHANGED << vars, batchVars >>
ToolkitNext == CacheMoves \/ BatchMoves \/ PasswordMoves

ToolkitSpec == ToolkitInit /\ [][ToolkitNext]_<< vars, batchVars, passwordVars >>
=============================================================================
