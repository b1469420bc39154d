----------------------------- MODULE LeaseClient -----------------------------
(***************************************************************************)
(* The processes that write a branch, and what checkpoint calls and        *)
(* sessions share: taking the lease with one conditional write, the        *)
(* renewal loop that runs beside the work, and stopping dead.  The holder  *)
(* string is drawn per call (newCheckpointHolder, NewSessionHolder), so a  *)
(* process IS its holder.                                                  *)
(***************************************************************************)
EXTENDS RefStore

CONSTANTS
  Checkpointers,   \* CheckpointWith calls
  Sessions,        \* daemon sessions
  Repointers,      \* rollback, promote and compact calls
  MaxRenewals      \* bound: renewals under one epoch

ASSUME ProcessAssumption ==
  /\ Holders = Checkpointers \cup Sessions
  /\ Checkpointers \cap Sessions = {}
  /\ Repointers \cap Holders = {}
  /\ MaxRenewals \in Nat

Procs == Holders \cup Repointers

VARIABLES
  pc,      \* where each process is
  write,   \* the conditional ref write it prepared from its read, {} for none
  lease,   \* the epoch of the lease it holds, 0 for none
  plan,    \* the object it writes, {} for none
  names,   \* the checkpoint name it records, {} for none
  tries,   \* conditional writes made in the current loop
  lost,    \* its renewal loop found the lease gone
  acked,   \* history: objects reported to a caller as committed
  denied   \* history: objects reported to a caller as not committed

procVars == <<pc, write, lease, plan, names, tries, lost, acked, denied>>

ProcTypeOK(labels) ==
  /\ pc \in [Procs -> labels]
  /\ write \in [Procs -> SUBSET RefWrite]
  /\ lease \in [Procs -> Nat]
  /\ plan \in [Procs -> SUBSET Object]
  /\ names \in [Procs -> SUBSET Names]
  /\ tries \in [Procs -> Nat]
  /\ lost \in [Procs -> BOOLEAN]
  /\ acked \subseteq Object
  /\ denied \subseteq Object

ProcInit ==
  /\ pc = [p \in Procs |-> "start"]
  /\ write = [p \in Procs |-> {}]
  /\ lease = [p \in Procs |-> 0]
  /\ plan = [p \in Procs |-> {}]
  /\ names = [p \in Procs |-> {}]
  /\ tries = [p \in Procs |-> 0]
  /\ lost = [p \in Procs |-> FALSE]
  /\ acked = {}
  /\ denied = {}

Goto(p, label) == pc' = [pc EXCEPT ![p] = label]

Prepare(p, ws) == write' = [write EXCEPT ![p] = ws]

-----------------------------------------------------------------------------
(* RenewLease, from the ticker of startCheckpointRenewer or renewLoop: a    *)
(* holder that is no longer on the ref, or a ref that is gone, ends the     *)
(* lease for good.                                                          *)

RenewOk(h) ==
  /\ Exists
  /\ Holds(ref, h, lease[h])
  /\ ref.renewals < MaxRenewals
  /\ ref' = RenewLease(ref)
  /\ lapsed' = FALSE
  /\ UNCHANGED <<lost>>

RenewLost(h) ==
  /\ ~(Exists /\ Holds(ref, h, lease[h]))
  /\ lost' = [lost EXCEPT ![h] = TRUE]
  /\ UNCHANGED <<ref, lapsed>>

Renew(h, renewing) ==
  /\ lease[h] # 0
  /\ pc[h] \in renewing
  /\ ~lost[h]
  /\ RenewOk(h) \/ RenewLost(h)
  /\ UNCHANGED <<objs, inflight, lineages, born, pins, faults, committed>>
  /\ UNCHANGED <<pc, write, lease, plan, names, tries, acked, denied>>

\* ReleaseLease: the lease is cleared if it is still this one.  A release
\* that fails for good leaves it to lapse.
ReleaseLease(h) ==
  \/ /\ Exists
     /\ Holds(ref, h, lease[h])
     /\ ref' = ClearLease(ref)
     /\ lapsed' = FALSE
  \/ UNCHANGED <<ref, lapsed>>

\* The process stops dead: its lease stays on the ref until it lapses.
Crash(p) ==
  /\ pc[p] \notin {"start", "done"}
  /\ Goto(p, "done")
  /\ Prepare(p, {})
  /\ UNCHANGED <<lease, plan, names, tries, lost, acked, denied>>
  /\ UNCHANGED storeVars
=============================================================================
