------------------------------ MODULE MCNames ------------------------------
(***************************************************************************)
(* What becomes of a branch's name: destroys and reaps (Destroy, on S3 and, *)
(* as Local, on a local store), the safety forks of rollbacks and promotes  *)
(* (SafetyFork), creations and forks (NewBranch, on two hosts, and with two *)
(* creations on one), and the agents' tools (AgentTools).  The models share *)
(* no state, so a behaviour runs one of them, and one run checks them all.  *)
(***************************************************************************)
EXTENDS Destroy

CONSTANTS Nil

VARIABLES
  part,     \* the part that runs
  localRef, localLapsed, localDue, localLives, localInflight, localFaults, localPc,
  localEtag, localClaimed, localTries, localAge, localSent, localReapedAt,
  safetyRef, lineages, forks, safetyPc, read, target, backup, src,
  layout, memo, refs, stored, base, made, late, call, branchFaults,
  toolsRefs, heads, sessions, undo, toolsCall

localVars ==
  <<localRef, localLapsed, localDue, localLives, localInflight, localFaults, localPc,
    localEtag, localClaimed, localTries, localAge, localSent, localReapedAt>>

localRests ==
  /\ localRef = Nil /\ localLapsed = Nil /\ localDue = Nil /\ localLives = Nil
  /\ localInflight = Nil /\ localFaults = Nil /\ localPc = Nil /\ localEtag = Nil
  /\ localClaimed = Nil /\ localTries = Nil /\ localAge = Nil /\ localSent = Nil
  /\ localReapedAt = Nil

safetyVars == <<safetyRef, lineages, forks, safetyPc, read, target, backup, src>>

safetyRests ==
  /\ safetyRef = Nil /\ lineages = Nil /\ forks = Nil /\ safetyPc = Nil /\ read = Nil
  /\ target = Nil /\ backup = Nil /\ src = Nil

branchVars == <<layout, memo, refs, stored, base, made, late, call, branchFaults>>

branchRests ==
  /\ layout = Nil /\ memo = Nil /\ refs = Nil /\ stored = Nil /\ base = Nil /\ made = Nil
  /\ late = Nil /\ call = Nil /\ branchFaults = Nil

toolsVars == <<toolsRefs, heads, sessions, undo, toolsCall>>

toolsRests == toolsRefs = Nil /\ heads = Nil /\ sessions = Nil /\ undo = Nil /\ toolsCall = Nil

Local == INSTANCE Destroy WITH
  Calls <- {"d1"}, Forced <- {"d1"}, Reapers <- {"r1"}, Holders <- {"h"}, NoHolder <- Nil,
  NoClaim <- Nil, Gone <- Nil, Conditional <- TRUE, StaleAfter <- 2, Margin <- 1,
  Ahead <- 0, Resends <- FALSE, DeleteDelay <- 0, SettleReads <- 1, DeleteAttempts <- 2,
  MaxFaults <- 1, MaxEpoch <- 2, MaxRenewals <- 1, MaxTouches <- 1, MaxWrites <- 0,
  MaxLives <- 2, ref <- localRef, lapsed <- localLapsed, due <- localDue,
  lives <- localLives, inflight <- localInflight, faults <- localFaults, pc <- localPc,
  etag <- localEtag, claimed <- localClaimed, tries <- localTries, age <- localAge,
  sent <- localSent, reapedAt <- localReapedAt

Sf == INSTANCE SafetyFork WITH
  Rollbacks <- {"r1"}, Promotes <- {"p1"}, NoFork <- Nil, Destroys <- FALSE, MaxHead <- 2,
  MaxLineages <- 3, ref <- safetyRef, pc <- safetyPc

Nb == INSTANCE NewBranch WITH
  Hosts <- {"h1", "h2"}, Creates <- {"c1"}, Forks <- {"f1"}, Main <- "main",
  Names <- {"main", "b"}, NoRef <- Nil, MaxFaults <- 2, faults <- branchFaults

Nc == INSTANCE NewBranch WITH
  Hosts <- {"h1"}, Creates <- {"c1", "c2"}, Forks <- {"f1"}, Main <- "main",
  Names <- {"main", "b"}, NoRef <- Nil, MaxFaults <- 1, faults <- branchFaults

At == INSTANCE AgentTools WITH
  Servers <- {"s1"}, Main <- "main", Fork <- "main-pre-rollback", NoRef <- Nil,
  Tools <- {"rollback", "promote", "destroy", "touch"},
  Blips <- {"fork", "target", "gate", "backup"}, MaxHead <- 3, refs <- toolsRefs,
  call <- toolsCall

allVars == <<part, vars, localVars, safetyVars, branchVars, toolsVars>>

\* One part is chosen; the others rest.
MCInit ==
  /\ part \in {"s3", "local", "safety", "branch", "creates", "tools"}
  /\ Init
  /\ IF part = "local" THEN Local!Init ELSE localRests
  /\ IF part = "safety" THEN Sf!Init ELSE safetyRests
  /\ IF part = "branch" THEN Nb!Init ELSE IF part = "creates" THEN Nc!Init ELSE branchRests
  /\ IF part = "tools" THEN At!Init ELSE toolsRests

MCNext ==
  /\ UNCHANGED part
  /\ \/ part = "s3" /\ Next /\ UNCHANGED <<localVars, safetyVars, branchVars, toolsVars>>
     \/ part = "local" /\ Local!Next /\ UNCHANGED <<vars, safetyVars, branchVars, toolsVars>>
     \/ part = "safety" /\ Sf!Next /\ UNCHANGED <<vars, localVars, branchVars, toolsVars>>
     \/ part = "branch" /\ Nb!Next /\ UNCHANGED <<vars, localVars, safetyVars, toolsVars>>
     \/ part = "creates" /\ Nc!Next /\ UNCHANGED <<vars, localVars, safetyVars, toolsVars>>
     \/ part = "tools" /\ At!Next /\ UNCHANGED <<vars, localVars, safetyVars, branchVars>>

MCSpec == MCInit /\ [][MCNext]_allVars

ASSUME Sf!CallAssumption /\ Nb!NewBranchAssumption /\ Nc!NewBranchAssumption /\ At!ToolAssumption

-----------------------------------------------------------------------------
(* Properties *)

\* On a local store, a destroy without --force, the reaper's included, never
\* deletes a branch whose lease is live, even one renewed under the claim
\* (deleteClaimedRef); and "a concurrent touch and reap have exactly one
\* winner" (Reap): a reaper deletes no branch touched since its reaping claim.
LocalDestroys == [][part = "local" => Local!SparesLive /\ Local!ReapsUntouched]_allVars



=============================================================================
