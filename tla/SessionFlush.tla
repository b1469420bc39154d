---------------------------- MODULE SessionFlush ----------------------------
(***************************************************************************)
(* A daemon session's life on the store: Open takes the lease, flushes     *)
(* publish what capture collected, Close gives the lease back.  Flushes    *)
(* are serialised by flushMu.  A flush encodes at the moment it drains the *)
(* captured pages, so two flushes never encode the same bytes: encodes is  *)
(* the session's count of encodes.                                         *)
(***************************************************************************)
EXTENDS LeaseClient

CONSTANTS
  FlushAttempts,   \* flushCASMinAttempts
  MaxFlushes       \* bound: flushes per session

ASSUME FlushAssumption ==
  /\ FlushAttempts \in Nat
  /\ MaxFlushes \in Nat

VARIABLES
  encodes,   \* encodes made by each session
  force      \* Session.forceSnapshot

flushVars == <<encodes, force>>

SessionLabels ==
  {"start", "ssTake", "ssSettle", "ssOpen", "flPut", "flOverwrite", "flAdvance",
   "flReread", "flClean", "flDelete", "ssClose", "done"}

\* Where renewLoop runs: from Open until Close stops it.
SessionRenewing == SessionLabels \ {"start", "ssTake", "ssSettle", "ssClose", "done"}

FlushInit ==
  /\ encodes = [s \in Sessions |-> 0]
  /\ force = [s \in Sessions |-> FALSE]

FlushTypeOK ==
  /\ encodes \in [Sessions -> Nat]
  /\ force \in [Sessions -> BOOLEAN]

-----------------------------------------------------------------------------
(* Open                                                                     *)

\* AcquireLease: the read.
SsAcquire(s) ==
  /\ pc[s] = "start"
  /\ Exists
  /\ ~AcquireRefused(ref, s, lapsed)
  /\ Prepare(s, {[expect |-> ref, new |-> AcquireLease(ref, s, lapsed),
                  commits |-> {}]})
  /\ Goto(s, "ssTake")
  /\ UNCHANGED <<lease, plan, names, tries, lost, acked, denied>>
  /\ UNCHANGED storeVars /\ UNCHANGED flushVars

\* AcquireLease: the write.
SsTake(s) ==
  /\ pc[s] = "ssTake"
  /\ Prepare(s, {})
  /\ \E w \in write[s], verdict \in Verdicts :
       /\ PutRef(w, verdict)
       /\ lease' = [lease EXCEPT ![s] = IF verdict = "ok" THEN w.new.epoch ELSE 0]
       /\ Goto(s, IF verdict = "ok" THEN "ssOpen" ELSE "ssSettle")
  /\ UNCHANGED <<objs, lineages, born, pins>>
  /\ UNCHANGED <<plan, names, tries, lost, acked, denied>> /\ UNCHANGED flushVars

\* settleAcquire: a ref naming this open's holder is its write, landed.
SsSettle(s) ==
  /\ pc[s] = "ssSettle"
  /\ \/ /\ Exists
        /\ ref.holder = s
        /\ lease' = [lease EXCEPT ![s] = ref.epoch]
        /\ Goto(s, "ssOpen")
        /\ UNCHANGED <<ref, lapsed, inflight, committed, faults>>
     \/ /\ ~(Exists /\ ref.holder = s)
        /\ Goto(s, "done")
        /\ UNCHANGED <<ref, lapsed, inflight, committed, faults, lease>>
     \/ /\ ReadFails
        /\ Goto(s, "done")
        /\ UNCHANGED lease
  /\ UNCHANGED <<objs, lineages, born, pins>>
  /\ UNCHANGED <<write, plan, names, tries, lost, acked, denied>>
  /\ UNCHANGED flushVars

-----------------------------------------------------------------------------
(* flush                                                                    *)

FlushObject(r, s, kind) ==
  [lineage |-> r.lineage, epoch |-> lease[s], txid |-> r.head + 1,
   kind |-> kind, by |-> s, gen |-> encodes[s] + 1]

\* The read, the fence and the name check, the drain and the encode.  The
\* drain sets forceSnapshot until the flush is known to have landed.
FlRead(s) ==
  /\ pc[s] = "ssOpen"
  /\ ~lost[s]
  /\ encodes[s] < MaxFlushes
  /\ Exists
  /\ \/ /\ ~Holds(ref, s, lease[s])
        /\ lost' = [lost EXCEPT ![s] = TRUE]
        /\ UNCHANGED <<pc, write, plan, names, tries>> /\ UNCHANGED flushVars
     \/ /\ Holds(ref, s, lease[s])
        /\ \E ns \in {{}} \cup {{n} : n \in UserNames}, kind \in Kinds :
             /\ \A n \in ns : ~HasCheckpoint(ref, n)
             /\ force[s] => kind = "snapshot"
             /\ LET o == FlushObject(ref, s, kind) IN
                /\ names' = [names EXCEPT ![s] = ns]
                /\ plan' = [plan EXCEPT ![s] = {o}]
                /\ Prepare(s, {[expect |-> ref, new |-> FlushAdvance(ref, ns, o),
                                commits |-> {o}]})
        /\ encodes' = [encodes EXCEPT ![s] = @ + 1]
        /\ force' = [force EXCEPT ![s] = TRUE]
        /\ tries' = [tries EXCEPT ![s] = 0]
        /\ Goto(s, "flPut")
        /\ UNCHANGED lost
  /\ UNCHANGED <<lease, acked, denied>>
  /\ UNCHANGED storeVars

\* The flush fails and leaves the session open.
FlushFails(s) == Goto(s, "ssOpen") /\ Prepare(s, {})

\* The create-only upload.  One that reports an error may leave the object.
FlPut(s) ==
  /\ pc[s] = "flPut"
  /\ \/ /\ \A o \in plan[s] : At(o) = {}
        /\ objs' = objs \cup plan[s]
        /\ Goto(s, "flAdvance")
        /\ UNCHANGED <<write, faults>>
     \/ /\ \E o \in plan[s] : At(o) # {}
        /\ Goto(s, "flOverwrite")
        /\ UNCHANGED <<objs, write, faults>>
     \/ /\ Fault("unsent")
        /\ objs' \in {objs, objs \cup {o \in plan[s] : At(o) = {}}}
        /\ FlushFails(s)
  /\ UNCHANGED <<ref, lapsed, inflight, committed, lineages, born, pins>>
  /\ UNCHANGED <<lease, plan, names, tries, lost, acked, denied>>
  /\ UNCHANGED flushVars

\* A taken key is overwritten.
FlOverwrite(s) ==
  /\ pc[s] = "flOverwrite"
  /\ \E o \in plan[s] :
       \/ /\ objs' = (objs \ At(o)) \cup {o}
          /\ Goto(s, "flAdvance")
          /\ UNCHANGED <<write, faults>>
       \/ /\ Fault("unsent")
          /\ objs' \in {objs, (objs \ At(o)) \cup {o}}
          /\ FlushFails(s)
  /\ UNCHANGED <<ref, lapsed, inflight, committed, lineages, born, pins>>
  /\ UNCHANGED <<lease, plan, names, tries, lost, acked, denied>>
  /\ UNCHANGED flushVars

\* The head write, and what a flush that landed records.
FlAdvance(s) ==
  /\ pc[s] = "flAdvance"
  /\ \E w \in write[s], verdict \in Verdicts :
       /\ PutRef(w, verdict)
       /\ \/ /\ verdict = "ok"
             /\ acked' = acked \cup w.commits
             /\ force' = [force EXCEPT ![s] = FALSE]
             /\ Goto(s, "ssOpen")
             /\ Prepare(s, {})
             /\ UNCHANGED tries
          \/ /\ verdict = "cas"
             /\ Goto(s, IF tries[s] < FlushAttempts THEN "flReread" ELSE "flClean")
             /\ tries' = [tries EXCEPT ![s] = @ + 1]
             /\ UNCHANGED <<write, acked, force>>
          \/ /\ verdict = "err"
             /\ FlushFails(s)
             /\ UNCHANGED <<acked, force, tries>>
  /\ UNCHANGED <<objs, lineages, born, pins>>
  /\ UNCHANGED <<lease, plan, names, lost, denied, encodes>>

\* After a lost compare-and-swap: still this lease, lineage and head?  Then
\* write again from the fresh read.
FlReread(s) ==
  /\ pc[s] = "flReread"
  /\ \E o \in plan[s] :
       \/ /\ Exists /\ Ours(ref, s, o)
          /\ Prepare(s, {[expect |-> ref, new |-> FlushAdvance(ref, names[s], o),
                          commits |-> {o}]})
          /\ Goto(s, "flAdvance")
          /\ UNCHANGED <<ref, lapsed, inflight, committed, faults>>
       \/ /\ ~(Exists /\ Ours(ref, s, o))
          /\ Goto(s, "flClean")
          /\ UNCHANGED <<ref, lapsed, inflight, committed, faults, write>>
       \/ ReadFails /\ Goto(s, "flClean") /\ UNCHANGED write
  /\ UNCHANGED <<objs, lineages, born, pins>>
  /\ UNCHANGED <<lease, plan, names, tries, lost, acked, denied>>
  /\ UNCHANGED flushVars

\* The second read, which decides whether the object is unreferenced ...
FlClean(s) ==
  /\ pc[s] = "flClean"
  /\ \E o \in plan[s] :
       LET deletable == Exists /\ (ref.lineage # o.lineage \/ ref.head < o.txid) IN
       \/ /\ deletable
          /\ Goto(s, "flDelete")
          /\ UNCHANGED <<ref, lapsed, inflight, committed, faults, write>>
       \/ /\ ~deletable
          /\ FlushFails(s)
          /\ UNCHANGED <<ref, lapsed, inflight, committed, faults>>
       \/ ReadFails /\ FlushFails(s)
  /\ UNCHANGED <<objs, lineages, born, pins>>
  /\ UNCHANGED <<lease, plan, names, tries, lost, acked, denied>>
  /\ UNCHANGED flushVars

\* ... and its delete.
FlDelete(s) ==
  /\ pc[s] = "flDelete"
  /\ BestEffortDelete(plan[s])
  /\ FlushFails(s)
  /\ UNCHANGED <<ref, lapsed, inflight, committed, faults, lineages, born, pins>>
  /\ UNCHANGED <<lease, plan, names, tries, lost, acked, denied>>
  /\ UNCHANGED flushVars

-----------------------------------------------------------------------------
(* Close: waits for a flush in progress, stops the renewals, releases.      *)

SsClose(s) ==
  /\ pc[s] = "ssOpen"
  /\ Goto(s, "ssClose")
  /\ UNCHANGED <<write, lease, plan, names, tries, lost, acked, denied>>
  /\ UNCHANGED storeVars /\ UNCHANGED flushVars

SsRelease(s) ==
  /\ pc[s] = "ssClose"
  /\ ReleaseLease(s)
  /\ Goto(s, "done")
  /\ UNCHANGED <<objs, inflight, committed, faults, lineages, born, pins>>
  /\ UNCHANGED <<write, lease, plan, names, tries, lost, acked, denied>>
  /\ UNCHANGED flushVars

SessionNext(s) ==
  \/ SsAcquire(s) \/ SsTake(s) \/ SsSettle(s)
  \/ FlRead(s) \/ FlPut(s) \/ FlOverwrite(s) \/ FlAdvance(s)
  \/ FlReread(s) \/ FlClean(s) \/ FlDelete(s)
  \/ SsClose(s) \/ SsRelease(s)
  \/ (Renew(s, SessionRenewing) \/ Crash(s)) /\ UNCHANGED flushVars
=============================================================================
