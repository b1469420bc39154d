----------------------------- MODULE AgentTools -----------------------------
(***************************************************************************)
(* What an agent may do to a protected branch and to its safety fork       *)
(* through MCP servers started without -allow-force (mcp/tools.go:         *)
(* rollback, promote, destroy, touch and their guards), next to a daemon   *)
(* with sessions and a human with the command line.                        *)
(*                                                                         *)
(* A guard reads refs, or asks the daemon for its sessions, before ops is  *)
(* called, and ops reads the refs again.  Each read is a step, and may     *)
(* fail once in passing.  A server runs one call at a time; several        *)
(* servers, one for each agent, share the store.  A ref is what the guards *)
(* look at.  A destroy's claim and delete are one step (Destroy), commits  *)
(* and the answers of ref writes are in Branch.                            *)
(***************************************************************************)
EXTENDS Naturals

CONSTANTS
  Servers,      \* MCP servers
  Main, Fork,   \* a branch, and its -pre-rollback name
  NoRef,        \* no branch of that name
  Tools,        \* bound: the tools the agents call
  Blips,        \* the reads that may fail
  MaxHead       \* bound: lineages minted

Branches == {Main, Fork}

\* What the constants must satisfy.
ToolAssumption ==
  Main # Fork /\ MaxHead \in Nat /\ Tools \subseteq {"rollback", "promote", "destroy", "touch"}

VARIABLES
  refs,      \* head: its lineage; marker: made as the safety fork of Main; lease: live
  heads,     \* lineages minted
  sessions,  \* what the daemon lists for a branch: "none", "open" or "fenced"
  undo,      \* history: the head of the safety fork the last rollback's answer named
  call       \* the call each server is running

vars == <<refs, heads, sessions, undo, call>>

Idle == [at |-> "idle", op |-> "none", branch |-> Main, force |-> FALSE, read |-> NoRef,
         steady |-> FALSE, listed |-> {}]

Init ==
  /\ \E p \in BOOLEAN :
       refs = [b \in Branches |->
                 IF b = Main
                 THEN [head |-> 1, protected |-> p, marker |-> FALSE, lease |-> FALSE, ttl |-> "none"]
                 ELSE NoRef]
  /\ heads = 1 /\ undo = 0
  /\ sessions = [b \in Branches |-> "none"]
  /\ call = [s \in Servers |-> Idle]

Exists(b) == refs[b] # NoRef

Goto(s, at) == call' = [call EXCEPT ![s].at = at]

Return(s) == call' = [call EXCEPT ![s] = Idle]

Blip(read) == read \in Blips

-----------------------------------------------------------------------------
(* The tools.  steady: Main has been protected since the call began;        *)
(* listed: branches with a session listed since then, unless the daemon did *)
(* not answer.                                                              *)

Begin(s, op, b, force) ==
  /\ call[s].at = "idle"
  /\ op = "rollback" => b = Main
  /\ op \in {"rollback", "touch"} => ~force
  /\ call' = [call EXCEPT ![s] =
       [Idle EXCEPT !.at = IF op = "rollback" THEN "probe" ELSE "guard", !.op = op,
                    !.branch = b, !.force = force,
                    !.steady = Exists(Main) /\ refs[Main].protected,
                    !.listed = {c \in Branches : sessions[c] # "none"}]]
  /\ UNCHANGED <<refs, heads, sessions, undo>>

\* After guardProtectedSafetyFork.
Guarded(s) == Goto(s, IF call[s].op = "touch" THEN "write" ELSE "probe")

\* guardProtectedSafetyFork: is the branch some other's safety fork?
GuardFork(s) ==
  /\ call[s].at = "guard"
  /\ LET b == call[s].branch IN
     \/ Exists(b) /\ refs[b].marker /\ Goto(s, "target")
     \/ (Exists(b) => ~refs[b].marker) /\ Guarded(s)
     \/ Blip("fork") /\ Return(s)
  /\ UNCHANGED <<refs, heads, sessions, undo>>

\* Mutant: a target that cannot be read is taken for unprotected.
UnreadTargetGoesOn(s) == Guarded(s)

UnreadTarget(s) == Return(s)

\* ... and is that one protected?
GuardTarget(s) ==
  /\ call[s].at = "target"
  /\ \/ Exists(Main) /\ ~refs[Main].protected /\ Guarded(s)
     \/ (Exists(Main) => refs[Main].protected) /\ Return(s)
     \/ Blip("target") /\ UnreadTarget(s)
  /\ UNCHANGED <<refs, heads, sessions, undo>>


\* findSession: any session refuses, a fenced one included.
Claims(b) == sessions[b] # "none"

\* refuseIfSessionOpen; without an answer the call goes on at rest.
Probe(s, b, next) ==
  \/ Claims(b) /\ Return(s)
  \/ ~Claims(b) /\ Goto(s, next)
  \/ call' = [call EXCEPT ![s].at = next, ![s].listed = {}]

ProbeBranch(s) ==
  /\ call[s].at = "probe"
  /\ Probe(s, call[s].branch, IF call[s].op = "rollback" THEN "own" ELSE "gate")
  /\ UNCHANGED <<refs, heads, sessions, undo>>

\* Mutant: force is passed on when the branch cannot be read.
UnreadForceKept(s) == Goto(s, "read")

UnreadForce(s) == call' = [call EXCEPT ![s].at = "read", ![s].force = FALSE]

\* refuseForceOnProtected.
Gate(s) ==
  /\ call[s].at = "gate"
  /\ LET b == call[s].branch IN
     \/ ~call[s].force /\ Goto(s, "read")
     \/ call[s].force /\ Exists(b) /\ refs[b].protected /\ Return(s)
     \/ /\ call[s].force /\ (Exists(b) => ~refs[b].protected)
        /\ call' = [call EXCEPT ![s].at = "read", ![s].force = FALSE]
     \/ call[s].force /\ Blip("gate") /\ UnreadForce(s)
  /\ UNCHANGED <<refs, heads, sessions, undo>>

\* rollback reads the branch's own ref; one it cannot read counts as unprotected.
Own(s) ==
  /\ call[s].at = "own"
  /\ \/ Exists(Main) /\ refs[Main].protected /\ Goto(s, "backup")
     \/ (Exists(Main) => ~refs[Main].protected) /\ Goto(s, "probeFork")
     \/ Blip("own") /\ Goto(s, "probeFork")
  /\ UNCHANGED <<refs, heads, sessions, undo>>

\* A protected branch's earlier safety fork is not replaced.
Backup(s) ==
  /\ call[s].at = "backup"
  /\ \/ Exists(Fork) /\ refs[Fork].marker /\ Return(s)
     \/ (Exists(Fork) => ~refs[Fork].marker) /\ Goto(s, "probeFork")
     \/ Blip("backup") /\ Return(s)
  /\ UNCHANGED <<refs, heads, sessions, undo>>

ProbeFork(s) ==
  /\ call[s].at = "probeFork"
  /\ Probe(s, Fork, "read")
  /\ UNCHANGED <<refs, heads, sessions, undo>>

-----------------------------------------------------------------------------
(* ops.                                                                     *)

\* The unforced refusals of Destroy and PromoteWith, and of RollbackWith.
Refuses(s, b) ==
  ~call[s].force /\ (refs[b].lease \/ (call[s].op # "rollback" /\ refs[b].protected))

OpRead(s) ==
  /\ call[s].at = "read"
  /\ LET b == call[s].branch IN
     \/ (Exists(b) => Refuses(s, b)) /\ Return(s)
     \/ /\ Exists(b) /\ ~Refuses(s, b)
        /\ call' = [call EXCEPT ![s].read = refs[b],
                                ![s].at = IF call[s].op = "rollback" THEN "look" ELSE "write"]
  /\ UNCHANGED <<refs, heads, sessions, undo>>

\* safetyFork: an earlier one is destroyed, unforced, and Main's head kept.
Look(s) ==
  /\ call[s].at = "look"
  /\ \/ ~Exists(Fork) /\ Goto(s, "fork") /\ UNCHANGED refs
     \/ /\ Exists(Fork) /\ refs[Fork].marker /\ ~refs[Fork].lease /\ ~refs[Fork].protected
        /\ refs' = [refs EXCEPT ![Fork] = NoRef]
        /\ Goto(s, "fork")
     \/ /\ Exists(Fork) /\ (~refs[Fork].marker \/ refs[Fork].lease \/ refs[Fork].protected)
        /\ Return(s) /\ UNCHANGED refs
  /\ UNCHANGED <<heads, sessions, undo>>

Keep(s) ==
  /\ call[s].at = "fork"
  /\ \/ /\ ~Exists(Fork) /\ Exists(Main) /\ heads < MaxHead
        /\ heads' = heads + 1
        /\ refs' = [refs EXCEPT ![Fork] = [head |-> heads + 1, protected |-> FALSE, marker |-> TRUE,
                                           lease |-> FALSE, ttl |-> "backup"]]
        /\ Goto(s, "write")
     \/ Return(s) /\ UNCHANGED <<refs, heads>>
  /\ UNCHANGED <<sessions, undo>>

UnchangedRef(s) == refs[call[s].branch] = call[s].read

\* The conditional write: the ref is repointed, its lease cleared, or deleted.
OpWrite(s) ==
  /\ call[s].at = "write" /\ call[s].op # "touch"
  /\ LET b == call[s].branch IN
     \/ /\ UnchangedRef(s) /\ call[s].op = "destroy"
        /\ refs' = [refs EXCEPT ![b] = NoRef]
        /\ UNCHANGED <<heads, undo>>
     \/ /\ UnchangedRef(s) /\ call[s].op # "destroy" /\ heads < MaxHead
        /\ heads' = heads + 1
        /\ refs' = [refs EXCEPT ![b].head = heads + 1, ![b].lease = FALSE]
        /\ undo' = IF call[s].op = "rollback" /\ Exists(Fork) THEN refs[Fork].head ELSE undo
     \/ ~UnchangedRef(s) /\ UNCHANGED <<refs, heads, undo>>
  /\ Return(s)
  /\ UNCHANGED sessions

\* Touch with a TTL, tried until it is written.
Touch(s) ==
  /\ call[s].at = "write" /\ call[s].op = "touch"
  /\ \/ Exists(call[s].branch) /\ refs' = [refs EXCEPT ![call[s].branch].ttl = "agent"]
     \/ ~Exists(call[s].branch) /\ UNCHANGED refs
  /\ Return(s)
  /\ UNCHANGED <<heads, sessions, undo>>

-----------------------------------------------------------------------------
(* The human, and the daemon.                                               *)

SetProtected(b, p) ==
  /\ Exists(b) /\ refs[b].protected # p
  /\ refs' = [refs EXCEPT ![b].protected = p]
  /\ call' = [s \in Servers |-> IF b = Main THEN [call[s] EXCEPT !.steady = FALSE] ELSE call[s]]
  /\ UNCHANGED <<heads, sessions, undo>>

\* Anyone's fork to the name; the human destroys what is there.
UserFork ==
  /\ ~Exists(Fork) /\ heads < MaxHead
  /\ heads' = heads + 1
  /\ refs' = [refs EXCEPT ![Fork] = [head |-> heads + 1, protected |-> FALSE, marker |-> FALSE,
                                     lease |-> FALSE, ttl |-> "none"]]
  /\ UNCHANGED <<sessions, undo, call>>

UserDestroy ==
  /\ Exists(Fork)
  /\ refs' = [refs EXCEPT ![Fork] = NoRef]
  /\ UNCHANGED <<heads, sessions, undo, call>>

OpenSession(b) ==
  /\ sessions[b] = "none" /\ Exists(b) /\ ~refs[b].lease
  /\ sessions' = [sessions EXCEPT ![b] = "open"]
  /\ refs' = [refs EXCEPT ![b].lease = TRUE]
  /\ UNCHANGED <<heads, undo, call>>

\* The session's lease lapses, or is taken; it stays listed.
Fenced(b) ==
  /\ sessions[b] = "open"
  /\ sessions' = [sessions EXCEPT ![b] = "fenced"]
  /\ refs' = [refs EXCEPT ![b] = IF Exists(b) THEN [@ EXCEPT !.lease = FALSE] ELSE @]
  /\ UNCHANGED <<heads, undo, call>>

CloseSession(b) ==
  /\ sessions[b] # "none"
  /\ sessions' = [sessions EXCEPT ![b] = "none"]
  /\ refs' = [refs EXCEPT ![b] = IF Exists(b) /\ sessions[b] = "open" THEN [@ EXCEPT !.lease = FALSE] ELSE @]
  /\ call' = [s \in Servers |-> [call[s] EXCEPT !.listed = @ \ {b}]]
  /\ UNCHANGED <<heads, undo>>

-----------------------------------------------------------------------------
Step(s) ==
  \/ \E op \in Tools, b \in Branches, f \in BOOLEAN : Begin(s, op, b, f)
  \/ GuardFork(s) \/ GuardTarget(s) \/ ProbeBranch(s) \/ Gate(s) \/ Own(s) \/ Backup(s) \/ ProbeFork(s)
  \/ OpRead(s) \/ Look(s) \/ Keep(s) \/ OpWrite(s) \/ Touch(s)

Next ==
  \/ \E s \in Servers : Step(s)
  \/ \E b \in Branches, p \in BOOLEAN : SetProtected(b, p)
  \/ UserFork \/ UserDestroy
  \/ \E b \in Branches : OpenSession(b) \/ Fenced(b) \/ CloseSession(b)

Spec == Init /\ [][Next]_vars

-----------------------------------------------------------------------------
\* Steps of a call of s that repoint or delete b, or write its ref at all.
Moves(s, b) ==
  call'[s].at # call[s].at /\ Exists(b) /\ (refs'[b] = NoRef \/ refs'[b].head # refs[b].head)

Alters(s, b) == call'[s].at # call[s].at /\ Exists(b) /\ refs'[b] # refs[b]

(* However the reads of the guards and of ops interleave with the human's   *)
(* and the daemon's writes, and whichever of them fail, an agent's force    *)
(* reaches neither a protected branch nor a live lease                      *)
(* (refuseForceOnProtected; "without -allow-force it no longer can").       *)
ForcesNothing ==
  \A s \in Servers, b \in Branches : Moves(s, b) =>
    /\ ~refs[b].lease
    /\ call[s].op # "rollback" => ~refs[b].protected

(* No call repoints or deletes a branch that the daemon has listed a        *)
(* session for since the call began, if the daemon answered, though the     *)
(* session's lease may be gone (refuseIfSessionOpen).                       *)
SparesSessions == \A s \in Servers, b \in Branches : Moves(s, b) => b \notin call[s].listed

\* The safety fork that an agent was told of.
Undo == Exists(Fork) /\ refs[Fork].marker /\ refs[Fork].head = undo

(* The safety fork an agent was told of, of a branch that has been          *)
(* protected since the call began, is not destroyed, replaced, repointed or *)
(* given another TTL by the call (guardProtectedSafetyFork, rollback).      *)
KeepsUndo == \A s \in Servers : Undo /\ Alters(s, Fork) => ~call[s].steady

(* "A second `offshoot_rollback` of the protected branch is refused         *)
(* outright while its safety fork from an earlier rollback still exists,    *)
(* rather than silently replacing it" (rollback).                           *)
ReplacesNone == \A s \in Servers : Undo /\ Look(s) /\ ~Exists(Fork)' => ~call[s].steady
=============================================================================
