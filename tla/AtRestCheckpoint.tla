-------------------------- MODULE AtRestCheckpoint --------------------------
(***************************************************************************)
(* Workspace.CheckpointWith: an at-rest checkpoint takes a lease of its    *)
(* own, uploads one object under the epoch that lease minted, and commits  *)
(* it with one write of the ref that also releases the lease.              *)
(***************************************************************************)
EXTENDS LeaseClient

CONSTANTS
  AcquireAttempts,   \* checkpointAcquireAttempts
  CommitAttempts     \* checkpointCommitAttempts

ASSUME CheckpointAssumption ==
  /\ AcquireAttempts \in Nat \ {0}
  /\ CommitAttempts \in Nat \ {0}

CheckpointLabels ==
  {"start", "ckAcquire", "ckTake", "ckSettleCas", "ckSettleErr", "ckUpload",
   "ckJoin", "ckCommit", "ckAdvance", "ckDelete", "ckRelease", "ckClear", "done"}

\* Where the renewal loop of startCheckpointRenewer runs: until rn.stop.
CheckpointRenewing == {"ckUpload", "ckJoin"}

\* The check closure: the caller's own lease on the ref does not refuse it.
CheckRefused(r, c) ==
  \/ RefusedIfHeld(IF r.holder = c THEN ClearLease(r) ELSE r, lapsed, FALSE)
  \/ \E n \in names[c] : HasCheckpoint(r, n)

\* The object a checkpoint holding the lease on r uploads; planSegment picks
\* the kind.
CheckpointObject(r, c, kind) ==
  [lineage |-> r.lineage, epoch |-> r.epoch, txid |-> r.head + 1,
   kind |-> kind, by |-> c, gen |-> 0]

-----------------------------------------------------------------------------
(* acquireCheckpointLease                                                   *)

\* The call owns the lease on r: it encodes.
Leased(c, r) ==
  /\ lease' = [lease EXCEPT ![c] = r.epoch]
  /\ \E kind \in Kinds :
       plan' = [plan EXCEPT ![c] = {CheckpointObject(r, c, kind)}]
  /\ Goto(c, "ckUpload")

\* The call fails before it uploaded anything.
Refuse(c) == Goto(c, "done") /\ UNCHANGED <<lease, plan>>

\* The call fails and gives back the lease it has under epoch e.
RefuseLeased(c, e) ==
  /\ lease' = [lease EXCEPT ![c] = e]
  /\ Goto(c, "ckRelease")
  /\ UNCHANGED plan

CkStart(c, n) ==
  /\ pc[c] = "start"
  /\ names' = [names EXCEPT ![c] = {n}]
  /\ Goto(c, "ckAcquire")
  /\ UNCHANGED <<write, lease, plan, tries, lost, acked, denied>>
  /\ UNCHANGED storeVars

\* AcquireLeaseRefIf: the read and the checks.
CkAcquire(c) ==
  /\ pc[c] = "ckAcquire"
  /\ \/ /\ Exists => CheckRefused(ref, c) /\ ref.holder # c
        /\ Refuse(c)
        /\ Prepare(c, {})
        /\ UNCHANGED <<ref, lapsed, inflight, committed, faults>>
     \/ /\ ReadFails
        /\ Refuse(c)
        /\ Prepare(c, {})
     \/ /\ Exists
        /\ CheckRefused(ref, c)
        /\ ref.holder = c
        /\ RefuseLeased(c, ref.epoch)
        /\ Prepare(c, {})
        /\ UNCHANGED <<ref, lapsed, inflight, committed, faults>>
     \/ /\ Exists
        /\ ~CheckRefused(ref, c)
        /\ ~AcquireRefused(ref, c, lapsed)
        /\ Prepare(c, {[expect |-> ref, new |-> AcquireLease(ref, c, lapsed),
                        commits |-> {}]})
        /\ Goto(c, "ckTake")
        /\ UNCHANGED <<ref, lapsed, inflight, committed, faults, lease, plan>>
  /\ UNCHANGED <<objs, lineages, born, pins>>
  /\ UNCHANGED <<names, tries, lost, acked, denied>>

\* AcquireLeaseRefIf: the write.
CkTake(c) ==
  /\ pc[c] = "ckTake"
  /\ tries' = [tries EXCEPT ![c] = @ + 1]
  /\ \E w \in write[c], verdict \in Verdicts :
       /\ PutRef(w, verdict)
       /\ \/ verdict = "ok" /\ Leased(c, w.new) /\ Prepare(c, {})
          \/ /\ verdict # "ok"
             /\ Goto(c, IF verdict = "cas" THEN "ckSettleCas" ELSE "ckSettleErr")
             /\ UNCHANGED <<lease, plan, write>>
  /\ UNCHANGED <<objs, lineages, born, pins>>
  /\ UNCHANGED <<names, lost, acked, denied>>

\* SettleAcquire, after a write that reported failure: a ref naming this
\* call's holder is that write, landed.  Otherwise the call fails, or after a
\* lost compare-and-swap on a branch still free at the same epoch, tries once
\* more.
Retries(c, r) ==
  /\ pc[c] = "ckSettleCas"
  /\ ~RefusedIfHeld(r, lapsed, FALSE)
  /\ \A w \in write[c] : r.epoch = w.expect.epoch /\ r.lineage = w.expect.lineage
  /\ tries[c] < AcquireAttempts

CkSettle(c) ==
  /\ pc[c] \in {"ckSettleCas", "ckSettleErr"}
  /\ Prepare(c, {})
  /\ \/ ReadFails /\ Refuse(c)
     \/ /\ \/ ~Exists /\ Refuse(c)
           \/ /\ Exists
              /\ ref.holder = c
              /\ IF CheckRefused(ref, c) THEN RefuseLeased(c, ref.epoch)
                                         ELSE Leased(c, ref)
           \/ /\ Exists
              /\ ref.holder # c
              /\ \/ ~Retries(c, ref) /\ Refuse(c)
                 \/ Retries(c, ref) /\ Goto(c, "ckAcquire") /\ UNCHANGED <<lease, plan>>
        /\ UNCHANGED <<ref, lapsed, inflight, committed, faults>>
  /\ UNCHANGED <<objs, lineages, born, pins>>
  /\ UNCHANGED <<names, tries, lost, acked, denied>>

-----------------------------------------------------------------------------
(* checkpointLeased                                                         *)

\* The call reports that it did not commit.
Deny(c) == denied' = denied \cup plan[c]

\* rn.lost, then putCheckpointObject: create-only, and a key taken by other
\* bytes refuses.  One that reports an error may have landed, or land yet; it is
\* cleaned up after.  A failure to quiesce or encode ends the call alike.
CkUpload(c) ==
  LET taken == \E o \in plan[c] : At(o) \ {o} # {} IN
  /\ pc[c] = "ckUpload"
  /\ \/ /\ lost[c]
        /\ Goto(c, "ckRelease")
        /\ Deny(c)
        /\ UNCHANGED <<objs, faults>>
     \/ /\ ~lost[c]
        /\ objs' = IF taken THEN objs ELSE objs \cup plan[c]
        /\ Goto(c, IF taken THEN "ckRelease" ELSE "ckJoin")
        /\ denied' = IF taken THEN denied \cup plan[c] ELSE denied
        /\ UNCHANGED faults
     \/ /\ ~lost[c]
        /\ Fault("unsent")
        /\ \E left \in {objs, {p \in objs : \A o \in plan[c] : Key(p) # Key(o)}} :
             objs' \in {left, left \cup plan[c]}
        /\ Goto(c, "ckRelease")
        /\ Deny(c)
  /\ UNCHANGED <<ref, lapsed, inflight, committed, lineages, born, pins>>
  /\ UNCHANGED <<write, lease, plan, names, tries, lost, acked>>

\* rn.stop joins the renewal loop; a lease it found gone deletes the object.
CkJoin(c) ==
  /\ pc[c] = "ckJoin"
  /\ tries' = [tries EXCEPT ![c] = 0]
  /\ Goto(c, IF lost[c] THEN "ckDelete" ELSE "ckCommit")
  /\ UNCHANGED storeVars
  /\ UNCHANGED <<write, lease, plan, names, lost, acked, denied>>

\* Mutant of Deletable: a claimed ref counts as one that moved for good.
DeletableUnderClaim(c, r, o) ==
  /\ ~Premise(r, c, o)
  /\ \/ tries[c] = 0 /\ ~HeadUnderOurEpoch(r, o)
     \/ tries[c] > 0 /\ Unreferenced(r, o)

\* commitCheckpoint's verdict that nothing can name the object, from the ref
\* read: before any head write, unless the head is under this epoch; after
\* one, only on a ref of the same lineage that can never again be the one the
\* write expects, and whose head is below the object.
Deletable(c, r, o) ==
  /\ ~Premise(r, c, o)
  /\ \/ tries[c] = 0 /\ ~HeadUnderOurEpoch(r, o)
     \/ tries[c] > 0 /\ ~Ours(r, c, o) /\ Unreferenced(r, o)

\* commitCheckpoint: read the ref and decide.
CkCommit(c) ==
  /\ pc[c] = "ckCommit"
  /\ \E o \in plan[c] :
       LET landed == Exists /\ tries[c] > 0 /\ Landed(ref, names[c], o)
           advances == Exists /\ Premise(ref, c, o) /\ tries[c] < CommitAttempts
           deletable == IF Exists THEN Deletable(c, ref, o) ELSE tries[c] = 0
       IN
       \/ /\ ReadFails
          /\ Goto(c, IF tries[c] = 0 THEN "ckDelete" ELSE "ckRelease")
          /\ UNCHANGED <<write, acked>>
       \/ /\ landed
          /\ Goto(c, "done")
          /\ acked' = acked \cup {o}
          /\ UNCHANGED <<ref, lapsed, inflight, committed, faults, write>>
       \/ /\ ~landed
          /\ advances
          /\ Prepare(c, {[expect |-> ref, new |-> Advance(ref, names[c], o),
                          commits |-> {o}]})
          /\ Goto(c, "ckAdvance")
          /\ UNCHANGED <<ref, lapsed, inflight, committed, faults, acked>>
       \/ /\ ~landed
          /\ ~advances
          /\ Goto(c, IF deletable THEN "ckDelete" ELSE "ckRelease")
          /\ UNCHANGED <<ref, lapsed, inflight, committed, faults, write, acked>>
  /\ UNCHANGED <<objs, lineages, born, pins>>
  /\ UNCHANGED <<lease, plan, names, tries, lost, denied>>

\* commitCheckpoint: the head write.
CkAdvance(c) ==
  /\ pc[c] = "ckAdvance"
  /\ tries' = [tries EXCEPT ![c] = @ + 1]
  /\ Prepare(c, {})
  /\ \E w \in write[c], verdict \in Verdicts :
       /\ PutRef(w, verdict)
       /\ Goto(c, IF verdict = "ok" THEN "done" ELSE "ckCommit")
       /\ acked' = acked \cup (IF verdict = "ok" THEN w.commits ELSE {})
  /\ UNCHANGED <<objs, lineages, born, pins>>
  /\ UNCHANGED <<lease, plan, names, lost, denied>>

\* bestEffortDelete of the object; the call reports that it did not commit.
CkDelete(c) ==
  /\ pc[c] = "ckDelete"
  /\ BestEffortDelete(plan[c])
  /\ Deny(c)
  /\ Goto(c, "ckRelease")
  /\ UNCHANGED <<ref, lapsed, inflight, committed, faults, lineages, born, pins>>
  /\ UNCHANGED <<write, lease, plan, names, tries, lost, acked>>

\* releaseCheckpointLease leaves a claimed ref alone ...
CkRelease(c) ==
  /\ pc[c] = "ckRelease"
  /\ \/ /\ Goto(c, IF Exists /\ ref.claims # {} THEN "done" ELSE "ckClear")
        /\ UNCHANGED <<ref, lapsed, inflight, committed, faults>>
     \/ ReadFails /\ Goto(c, "ckClear")
  /\ UNCHANGED <<objs, lineages, born, pins>>
  /\ UNCHANGED <<write, lease, plan, names, tries, lost, acked, denied>>

\* ... and otherwise clears the lease, if it is still this call's.
CkClear(c) ==
  /\ pc[c] = "ckClear"
  /\ ReleaseLease(c)
  /\ Goto(c, "done")
  /\ UNCHANGED <<objs, inflight, committed, faults, lineages, born, pins>>
  /\ UNCHANGED <<write, lease, plan, names, tries, lost, acked, denied>>

CheckpointNext(c) ==
  \/ \E n \in UserNames : CkStart(c, n)
  \/ CkAcquire(c) \/ CkTake(c) \/ CkSettle(c)
  \/ CkUpload(c) \/ CkJoin(c) \/ CkCommit(c) \/ CkAdvance(c) \/ CkDelete(c)
  \/ CkRelease(c) \/ CkClear(c)
  \/ Renew(c, CheckpointRenewing) \/ Crash(c)
=============================================================================
