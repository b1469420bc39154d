----------------------------- MODULE Repointing -----------------------------
(***************************************************************************)
(* Rollback, promote and compact: the branch is moved to a lineage minted  *)
(* for the purpose.  Its starting point (a base pointer into an existing   *)
(* lineage, or a copied snapshot) is stored first; then one conditional    *)
(* write of the ref names the lineage, under epoch 1 and without a lease,  *)
(* which fences whoever wrote the old one.                                 *)
(***************************************************************************)
EXTENDS LeaseClient

CONSTANTS
  OtherHeads,    \* bound: head txids of branches with a history of their own
  MaxLineages    \* bound: lineage IDs minted

ASSUME RepointAssumption == OtherHeads \subseteq Nat /\ MaxLineages \in Nat

RepointLabels ==
  {"start", "rpBackup", "rpBase", "rpWrite", "rpSettle", "rpCleanup", "done"}

\* The read passes refuseIfHeld, forced or not, and the call prepares the write
\* that moves the branch to txid t of a fresh lineage.
RpRead(p, t, cps, base, label) ==
  /\ pc[p] = "start"
  /\ \E forced \in BOOLEAN : ~RefusedIfHeld(ref, lapsed, forced)
  /\ lineages < MaxLineages
  /\ lineages' = lineages + 1
  /\ Prepare(p, {[expect |-> ref, commits |-> {},
                  new |-> Repoint(ref, lineages + 1, t, cps, base)]})
  /\ Goto(p, label)
  /\ UNCHANGED <<ref, lapsed, objs, inflight, born, pins, faults, committed>>
  /\ UNCHANGED <<lease, plan, names, tries, lost, acked, denied>>

\* RollbackWith, to a checkpoint; the later ones are dropped.
RpRollback(p) ==
  /\ Exists
  /\ \E cp \in ref.cps, l \in 0 .. ref.lineage :
       /\ l = CollapseBase(ref.lineage, cp.txid)
       /\ RpRead(p, cp.txid, {k \in ref.cps : k.txid <= cp.txid},
                 {[lineage |-> l, txid |-> cp.txid]}, "rpBackup")

\* Where promote's source branch has its head: still on the fork point of a
\* fork of this branch, or on a history of its own.
PromoteSources ==
  {[lineage |-> q.lineage, txid |-> q.txid] : q \in {q \in pins : q.child = 0}}
    \cup {[lineage |-> 0, txid |-> t] : t \in OtherHeads}

\* PromoteWith, as the target branch sees it.
RpPromote(p) ==
  /\ Exists
  /\ \E b \in PromoteSources :
       RpRead(p, b.txid, {[name |-> "promote", txid |-> b.txid, epoch |-> 1]},
              {b}, "rpBackup")

\* CompactWith: a lineage with a base is replaced by copies, without a backup.
RpCompact(p) ==
  /\ Exists
  /\ \E q \in pins : q.child = ref.lineage
  /\ RpRead(p, ref.head,
            ref.cps \cup {cp \in {[name |-> "compact", txid |-> ref.head, epoch |-> 1]} :
                           ~HasCheckpoint(ref, "compact")},
            {}, "rpBase")

\* safetyFork: a fork of the head as it is NOW, unless --no-backup.
RpBackup(p) ==
  /\ pc[p] = "rpBackup"
  /\ (Exists /\ ForkAt(ref.head)) \/ UNCHANGED pins
  /\ Goto(p, "rpBase")
  /\ UNCHANGED <<ref, lapsed, objs, inflight, lineages, born, faults, committed>>
  /\ UNCHANGED <<write, lease, plan, names, tries, lost, acked, denied>>

\* newLineageAt shares the source's chain behind a base pointer ...
RpShare(p) ==
  /\ pc[p] = "rpBase"
  /\ \E w \in write[p] : \E b \in w.new.base :
       /\ born' = born \cup {w.new.lineage}
       /\ pins' = pins \cup {[child |-> w.new.lineage,
                              lineage |-> b.lineage, txid |-> b.txid]}
  /\ Goto(p, "rpWrite")
  /\ UNCHANGED <<ref, lapsed, objs, inflight, lineages, faults, committed>>
  /\ UNCHANGED <<write, lease, plan, names, tries, lost, acked, denied>>

\* ... or the target, and every kept checkpoint, is copied.
RpCopy(p) ==
  /\ pc[p] = "rpBase"
  /\ \E w \in write[p] :
       /\ born' = born \cup {w.new.lineage}
       /\ Prepare(p, {[w EXCEPT !.new = Copied(@)]})
  /\ Goto(p, "rpWrite")
  /\ UNCHANGED <<ref, lapsed, objs, inflight, lineages, pins, faults, committed>>
  /\ UNCHANGED <<lease, plan, names, tries, lost, acked, denied>>

RpWrite(p) ==
  /\ pc[p] = "rpWrite"
  /\ \E w \in write[p], verdict \in Verdicts :
       /\ PutRef(w, verdict)
       /\ IF verdict = "ok" THEN Goto(p, "done") /\ Prepare(p, {})
                            ELSE Goto(p, "rpSettle") /\ UNCHANGED write
  /\ UNCHANGED <<objs, lineages, born, pins>>
  /\ UNCHANGED <<lease, plan, names, tries, lost, acked, denied>>

\* Mutant of NotLanded: any failure of the ref write cleans up.
NotLandedBlind(p) == TRUE

\* settleRepoint: a ref still naming the lineage it left is taken to mean the
\* write did not land, and what was stored for the new lineage is removed.
NotLanded(p) ==
  Exists /\ \E w \in write[p] : ref.lineage = w.expect.lineage

RpSettle(p) ==
  /\ pc[p] = "rpSettle"
  /\ \/ /\ NotLanded(p)
        /\ Goto(p, "rpCleanup")
        /\ UNCHANGED <<ref, lapsed, inflight, committed, faults, write>>
     \/ /\ ~NotLanded(p)
        /\ Goto(p, "done")
        /\ Prepare(p, {})
        /\ UNCHANGED <<ref, lapsed, inflight, committed, faults>>
     \/ /\ ReadFails
        /\ Goto(p, "done")
        /\ Prepare(p, {})
  /\ UNCHANGED <<objs, lineages, born, pins>>
  /\ UNCHANGED <<lease, plan, names, tries, lost, acked, denied>>

\* bestEffortDelete of what was stored, which may fail.
RpCleanup(p) ==
  /\ pc[p] = "rpCleanup"
  /\ \/ \E w \in write[p] :
          /\ born' = born \ {w.new.lineage}
          /\ pins' = {q \in pins : q.child # w.new.lineage}
     \/ UNCHANGED <<born, pins>>
  /\ Goto(p, "done")
  /\ Prepare(p, {})
  /\ UNCHANGED <<ref, lapsed, objs, inflight, lineages, faults, committed>>
  /\ UNCHANGED <<lease, plan, names, tries, lost, acked, denied>>

RepointNext(p) ==
  \/ RpRollback(p) \/ RpPromote(p) \/ RpCompact(p) \/ RpBackup(p) \/ RpShare(p) \/ RpCopy(p)
  \/ RpWrite(p) \/ RpSettle(p) \/ RpCleanup(p)
  \/ Crash(p)
=============================================================================
