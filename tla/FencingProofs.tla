--------------------------- MODULE FencingProofs ----------------------------
(***************************************************************************)
(* For any number of checkpoint calls, sessions and repoints, any faults   *)
(* and any bounds: Branch is type correct and Fencing is an inductive      *)
(* invariant of it, so the objects of a lineage stored under one epoch     *)
(* come from one writer, and the ref only moves forward.                   *)
(*                                                                         *)
(* A step disturbs Fencing in four ways only: it moves the ref, it prepares*)
(* writes (a set W), it plans objects (a set P), it mints a lineage.       *)
(* StepFencing says what it has to keep to; each action is then one        *)
(* instance of it.  NextStep says what else VerdictProofs needs to know of *)
(* a step: how it moves the ref (RefMoves) and which writes it prepares    *)
(* (Made).  RootInv, last, is the invariant that keeps the ref's lineage   *)
(* readable: every repoint works on a lineage that nobody else names.      *)
(***************************************************************************)
EXTENDS Branch, TLAPS

(* Zenon proves what no step says otherwise of.                             *)
USE Zenon

-----------------------------------------------------------------------------
(* What the functions of a ref return.                                      *)

(* Taking, renewing and clearing the lease of a ref gives a ref.            *)
LEMMA AcquireLeaseType ==
  ASSUME NEW r \in Ref, NEW h \in Holders, NEW b \in BOOLEAN
  PROVE  AcquireLease(r, h, b) \in Ref
<1>1. r.renewals + 1 \in Nat /\ r.epoch + 1 \in Nat
  BY SMT DEF Ref
<1>2. CASE LeaseLive(r, b)
  BY <1>1, <1>2 DEF AcquireLease, Ref
<1>3. CASE ~LeaseLive(r, b)
  BY <1>1, <1>3 DEF AcquireLease, Ref
<1>4. QED
  BY <1>2, <1>3

(* So do renewing it (RenewLease) and dropping it (clearLease).             *)
LEMMA LeaseOpsType ==
  ASSUME NEW r \in Ref
  PROVE  RenewLease(r) \in Ref /\ ClearLease(r) \in Ref
<1>1. r.renewals + 1 \in Nat
  BY SMT DEF Ref
<1>2. RenewLease(r) \in Ref
  BY <1>1 DEF Ref, RenewLease
<1>3. ClearLease(r) \in Ref
  BY DEF Ref, ClearLease
<1>4. QED
  BY <1>2, <1>3

(* So does advancing its head to an uploaded object.                        *)
LEMMA AdvanceType ==
  ASSUME NEW r \in Ref, NEW o \in Object, NEW ns \in SUBSET Names
  PROVE  FlushAdvance(r, ns, o) \in Ref /\ Advance(r, ns, o) \in Ref
<1>1. SetCheckpoint(r.cps, ns, o) \in SUBSET Checkpoint
  BY SMT DEF Ref, SetCheckpoint, Checkpoint, Object
<1>2. FlushAdvance(r, ns, o) \in Ref
  BY <1>1 DEF FlushAdvance, Ref, Object
<1>3. QED
  BY <1>2, LeaseOpsType DEF Advance

(* What PutRef leaves in the store is of its type.                          *)
LEMMA PutRefType ==
  ASSUME StoreTypeOK, NEW w \in RefWrite, NEW verdict \in Verdicts,
         PutRef(w, verdict)
  PROVE  /\ ref' \in Ref \cup {Gone}
         /\ lapsed' \in BOOLEAN
         /\ inflight' \subseteq RefWrite
         /\ faults' \in Nat
         /\ committed' \subseteq Object
<1>1. w.new \in Ref /\ w.commits \subseteq Object
  BY DEF RefWrite
<1>2. Apply(w) => /\ ref' \in Ref \cup {Gone}
                  /\ lapsed' \in BOOLEAN
                  /\ committed' \subseteq Object
  BY <1>1 DEF Apply, StoreTypeOK
<1>3. QED
  BY SMT, <1>2 DEF PutRef, Fault, StoreTypeOK

-----------------------------------------------------------------------------
(* Type correctness.                                                        *)

(* Counting one process's tries keeps a function of counts one.             *)
LEMMA CountUpType ==
  ASSUME NEW S, NEW f \in [S -> Nat], NEW x \in S
  PROVE  [f EXCEPT ![x] = @ + 1] \in [S -> Nat]
<1>1. f[x] + 1 \in Nat
  BY SMT
<1>2. QED
  BY <1>1

Labels == CheckpointLabels \cup SessionLabels \cup RepointLabels

\* The step reads the store, or fails to.
ReadsOnly ==
  /\ UNCHANGED <<ref, lapsed, inflight, committed>>
  /\ UNCHANGED <<objs, lineages, born, pins>>
  /\ faults' \in {faults, faults + 1}

(* Preparing a ref write keeps the prepared writes typed.                   *)
LEMMA PreparedType ==
  ASSUME TypeOK, NEW p, NEW w \in RefWrite, write' = write \/ Prepare(p, {w})
  PROVE  write' \in [Procs -> SUBSET RefWrite]
<1>1. write \in [Procs -> SUBSET RefWrite] /\ {w} \in SUBSET RefWrite
  BY DEF TypeOK, ProcTypeOK
<1>2. QED
  BY <1>1 DEF Prepare

(* A prepared write is a ref write.                                         *)
LEMMA WriteType ==
  ASSUME TypeOK, NEW p \in Procs, NEW w \in write[p]
  PROVE  w \in RefWrite
<1>1. write \in [Procs -> SUBSET RefWrite]
  BY DEF TypeOK, ProcTypeOK
<1>2. QED
  BY <1>1

(* An upload, or one that fails, stores objects.                            *)
LEMMA StoresType ==
  ASSUME TypeOK, NEW O, O \subseteq Object, objs' \subseteq objs \cup O,
         faults' \in {faults, faults + 1}
  PROVE  objs' \subseteq Object /\ faults' \in Nat
<1>1. faults' \in Nat
  BY SMT DEF TypeOK, StoreTypeOK
<1>2. objs' \subseteq Object
  BY DEF TypeOK, StoreTypeOK
<1>3. QED
  BY <1>1, <1>2

(* A step that only reads the store keeps its types.                        *)
LEMMA ReadsOnlyType ==
  ASSUME TypeOK, ReadsOnly
  PROVE  StoreTypeOK'
<1>1. faults' \in Nat
  BY SMT DEF ReadsOnly, TypeOK, StoreTypeOK
<1>2. QED
  BY <1>1 DEF ReadsOnly, TypeOK, StoreTypeOK

(* A fork of the branch writes a base pointer.                              *)
LEMMA ForkAtType ==
  ASSUME TypeOK, Exists, NEW t \in Nat, ForkAt(t)
  PROVE  pins' \subseteq Pin
<1>1. PICK l \in 0 .. ref.lineage :
        pins' = pins \cup {[child |-> 0, lineage |-> l, txid |-> t]}
  BY DEF ForkAt
<1>2. l \in Nat
  BY SMT DEF Exists, TypeOK, StoreTypeOK, Ref
<1>3. [child |-> 0, lineage |-> l, txid |-> t] \in Pin
  BY <1>2 DEF Pin
<1>4. QED
  BY <1>1, <1>3 DEF TypeOK, StoreTypeOK

(* The edits of other parties, expiry and late landings keep the types.     *)
LEMMA EnvironmentType ==
  ASSUME TypeOK, Environment, UNCHANGED procVars, UNCHANGED flushVars
  PROVE  TypeOK'
<1>1. ProcTypeOK(Labels)' /\ FlushTypeOK'
  BY DEF TypeOK, ProcTypeOK, FlushTypeOK, procVars, flushVars, Labels
<1>2. ASSUME NEW new \in Ref \cup {Gone}, Edit(new)
      PROVE  StoreTypeOK'
  BY <1>2 DEF Edit, TypeOK, StoreTypeOK
<1>3. CASE Land
  BY <1>1, <1>3 DEF Land, Apply, TypeOK, StoreTypeOK, RefWrite, Labels
<1>4. CASE Expire
  BY <1>1, <1>4 DEF Expire, TypeOK, StoreTypeOK, Labels
<1>5. CASE Touch
  <2>1. [ref EXCEPT !.touched = @ + 1] \in Ref
    BY SMT, <1>5 DEF Touch, Exists, TypeOK, StoreTypeOK, Ref
  <2>2. QED
    BY <1>1, <1>2, <1>5, <2>1 DEF Touch, TypeOK, Labels
<1>6. CASE ReleaseByHolder
  BY <1>1, <1>2, <1>6, LeaseOpsType DEF ReleaseByHolder, Exists, TypeOK, StoreTypeOK, Labels
<1>7. CASE DeleteRef
  BY <1>1, <1>2, <1>7 DEF DeleteRef, TypeOK, Labels
<1>8. CASE Fork
  <2>1. PICK t \in {ref.head} \cup {cp.txid : cp \in ref.cps} : ForkAt(t)
    BY <1>8 DEF Fork
  <2>2. t \in Nat
    BY <1>8 DEF Fork, Exists, TypeOK, StoreTypeOK, Ref, Checkpoint
  <2>3. pins' \subseteq Pin
    BY <1>8, <2>1, <2>2, ForkAtType DEF Fork
  <2>4. QED
    BY <1>1, <1>8, <2>3 DEF Fork, TypeOK, StoreTypeOK, Labels
<1>9. ASSUME NEW n \in Names, Prune(n)
      PROVE  TypeOK'
  <2>1. [ref EXCEPT !.cps = {cp \in @ : cp.name # n}] \in Ref
    BY <1>9 DEF Prune, Exists, TypeOK, StoreTypeOK, Ref
  <2>2. QED
    BY <1>1, <1>2, <1>9, <2>1 DEF Prune, TypeOK, Labels
<1>10. ASSUME NEW k \in Claims, Claim(k) \/ Unclaim(k)
       PROVE  TypeOK'
  <2>1. Exists => /\ [ref EXCEPT !.claims = @ \cup {k}] \in Ref
                  /\ [ref EXCEPT !.claims = @ \ {k}] \in Ref
    BY DEF Exists, TypeOK, StoreTypeOK, Ref
  <2>2. QED
    BY <1>1, <1>2, <1>10, <2>1 DEF Claim, Unclaim, TypeOK, Labels
<1>11. QED
  BY <1>3, <1>4, <1>5, <1>6, <1>7, <1>8, <1>9, <1>10 DEF Environment

(* A renewal, landed or lost, keeps the types.                              *)
LEMMA RenewType ==
  ASSUME TypeOK, NEW h \in Holders, NEW S, Renew(h, S), UNCHANGED flushVars
  PROVE  TypeOK'
<1>1. ref' \in Ref \cup {Gone} /\ lapsed' \in BOOLEAN /\ lost' \in [Procs -> BOOLEAN]
  BY LeaseOpsType DEF Renew, RenewOk, RenewLost, Exists, TypeOK, StoreTypeOK, ProcTypeOK, Procs
<1>2. QED
  BY <1>1 DEF Renew, TypeOK, StoreTypeOK, ProcTypeOK, FlushTypeOK, flushVars

(* A process that stops dead leaves everything typed.                       *)
LEMMA CrashType ==
  ASSUME TypeOK, NEW p \in Procs, Crash(p), UNCHANGED flushVars
  PROVE  TypeOK'
BY DEF Crash, Goto, Prepare, storeVars, flushVars, TypeOK, StoreTypeOK, ProcTypeOK,
       FlushTypeOK, CheckpointLabels

(* ReleaseLease leaves a ref behind, whether it clears the lease or not.    *)
LEMMA ReleaseType ==
  ASSUME StoreTypeOK, NEW h \in Holders, ReleaseLease(h)
  PROVE  ref' \in Ref \cup {Gone} /\ lapsed' \in BOOLEAN
BY LeaseOpsType DEF ReleaseLease, Exists, StoreTypeOK

(* CheckpointWith being called keeps the types.                             *)
LEMMA CkStartType ==
  ASSUME TypeOK, NEW c \in Checkpointers, NEW n \in UserNames, CkStart(c, n), UNCHANGED flushVars
  PROVE  TypeOK'
BY DEF CkStart, Names, Goto, storeVars, flushVars, TypeOK, StoreTypeOK, ProcTypeOK,
       FlushTypeOK, CheckpointLabels

(* An at-rest checkpoint's prepared acquire is a ref write.                 *)
LEMMA AcquireWriteType ==
  ASSUME TypeOK, Exists, NEW h \in Holders
  PROVE  [expect |-> ref, new |-> AcquireLease(ref, h, lapsed), commits |-> {}] \in RefWrite
<1>1. ref \in Ref /\ lapsed \in BOOLEAN
  BY DEF Exists, TypeOK, StoreTypeOK
<1>2. AcquireLease(ref, h, lapsed) \in Ref
  BY <1>1, AcquireLeaseType
<1>3. QED
  BY <1>1, <1>2 DEF RefWrite

(* The read of AcquireLeaseRefIf prepares a well-formed acquire.            *)
LEMMA CkAcquireType ==
  ASSUME TypeOK, NEW c \in Checkpointers, CkAcquire(c), UNCHANGED flushVars
  PROVE  TypeOK'
<1>1. c \in Holders /\ c \in Procs
  BY ProcessAssumption DEF Procs
<1>2. StoreTypeOK'
  <2>1. ReadsOnly
    BY DEF CkAcquire, ReadFails, Fault, ReadsOnly
  <2>2. QED
    BY <2>1, ReadsOnlyType
<1>3. pc' \in [Procs -> Labels]
  BY DEF CkAcquire, Refuse, RefuseLeased, Goto, TypeOK, ProcTypeOK, Labels, CheckpointLabels
<1>4. write' \in [Procs -> SUBSET RefWrite]
  <2>1. \/ Prepare(c, {})
        \/ /\ Exists
           /\ Prepare(c, {[expect |-> ref, new |-> AcquireLease(ref, c, lapsed),
                           commits |-> {}]})
    BY DEF CkAcquire
  <2>2. CASE Prepare(c, {})
    BY <2>2 DEF Prepare, TypeOK, ProcTypeOK
  <2>3. QED
    BY <1>1, <2>1, <2>2, AcquireWriteType, PreparedType
<1>5. lease' \in [Procs -> Nat] /\ plan' = plan
  BY DEF CkAcquire, Refuse, RefuseLeased, Exists, TypeOK, StoreTypeOK, ProcTypeOK, Ref
<1>6. QED
  BY <1>2, <1>3, <1>4, <1>5 DEF CkAcquire, TypeOK, ProcTypeOK, FlushTypeOK, flushVars, Labels

(* The lease it now holds and the object it plans are of their type.        *)
LEMMA LeasedType ==
  ASSUME TypeOK, NEW c \in Checkpointers, NEW r \in Ref, Leased(c, r)
  PROVE  /\ pc' \in [Procs -> Labels]
         /\ lease' \in [Procs -> Nat]
         /\ plan' \in [Procs -> SUBSET Object]
<1>1. c \in Holders /\ c \in Procs
  BY ProcessAssumption DEF Procs
<1>2. ASSUME NEW kind \in Kinds
      PROVE  CheckpointObject(r, c, kind) \in Object
  BY SMT, <1>1 DEF CheckpointObject, Ref, Object
<1>3. plan' \in [Procs -> SUBSET Object]
  <2>1. PICK kind \in Kinds : plan' = [plan EXCEPT ![c] = {CheckpointObject(r, c, kind)}]
    BY DEF Leased
  <2>2. QED
    BY <1>2, <2>1 DEF TypeOK, ProcTypeOK
<1>4. QED
  BY <1>3 DEF Leased, Goto, TypeOK, ProcTypeOK, Labels, CheckpointLabels, Ref

(* The acquire's write, whatever its verdict, keeps the types.              *)
LEMMA CkTakeType ==
  ASSUME TypeOK, NEW c \in Checkpointers, CkTake(c), UNCHANGED flushVars
  PROVE  TypeOK'
<1>1. PICK w \in write[c], verdict \in Verdicts :
        /\ PutRef(w, verdict)
        /\ \/ verdict = "ok" /\ Leased(c, w.new) /\ Prepare(c, {})
           \/ /\ verdict # "ok"
              /\ Goto(c, IF verdict = "cas" THEN "ckSettleCas" ELSE "ckSettleErr")
              /\ UNCHANGED <<lease, plan, write>>
  BY DEF CkTake
<1>2. c \in Procs /\ w \in RefWrite
  BY ProcessAssumption DEF Procs, TypeOK, ProcTypeOK
<1>3. StoreTypeOK'
  BY <1>1, <1>2, PutRefType DEF CkTake, TypeOK, StoreTypeOK
<1>4. /\ pc' \in [Procs -> Labels]
      /\ lease' \in [Procs -> Nat]
      /\ plan' \in [Procs -> SUBSET Object]
  <2>1. CASE Leased(c, w.new)
    BY <1>2, <2>1, LeasedType DEF RefWrite
  <2>2. CASE ~Leased(c, w.new)
    BY <1>1, <2>2 DEF Goto, TypeOK, ProcTypeOK, Labels, CheckpointLabels
  <2>3. QED
    BY <2>1, <2>2
<1>5. write' \in [Procs -> SUBSET RefWrite]
  BY <1>1 DEF Prepare, TypeOK, ProcTypeOK
<1>6. tries' \in [Procs -> Nat]
  BY <1>2, CountUpType DEF CkTake, TypeOK, ProcTypeOK
<1>7. QED
  BY <1>3, <1>4, <1>5, <1>6 DEF CkTake, TypeOK, ProcTypeOK, FlushTypeOK, flushVars, Labels

(* SettleAcquire, adopting a lease or giving up, keeps the types.           *)
LEMMA CkSettleType ==
  ASSUME TypeOK, NEW c \in Checkpointers, CkSettle(c), UNCHANGED flushVars
  PROVE  TypeOK'
<1>1. StoreTypeOK'
  <2>1. ReadsOnly
    BY DEF CkSettle, ReadFails, Fault, ReadsOnly
  <2>2. QED
    BY <2>1, ReadsOnlyType
<1>2. /\ pc' \in [Procs -> Labels]
      /\ lease' \in [Procs -> Nat]
      /\ plan' \in [Procs -> SUBSET Object]
  <2>1. CASE Exists /\ Leased(c, ref)
    BY <2>1, LeasedType DEF Exists, TypeOK, StoreTypeOK
  <2>2. CASE Refuse(c)
    BY <2>2 DEF Refuse, Goto, TypeOK, ProcTypeOK, Labels, CheckpointLabels
  <2>3. CASE Exists /\ RefuseLeased(c, ref.epoch)
    BY <2>3 DEF Exists, RefuseLeased, Goto, TypeOK, StoreTypeOK, ProcTypeOK, Labels,
                CheckpointLabels, Ref
  <2>4. CASE Goto(c, "ckAcquire") /\ UNCHANGED <<lease, plan>>
    BY <2>4 DEF Goto, TypeOK, ProcTypeOK, Labels, CheckpointLabels
  <2>5. QED
    BY <2>1, <2>2, <2>3, <2>4 DEF CkSettle
<1>3. write' \in [Procs -> SUBSET RefWrite]
  BY DEF CkSettle, Prepare, TypeOK, ProcTypeOK
<1>4. QED
  BY <1>1, <1>2, <1>3 DEF CkSettle, TypeOK, ProcTypeOK, FlushTypeOK, flushVars, Labels

(* putCheckpointObject keeps the types, also when it fails half-way.        *)
LEMMA CkUploadType ==
  ASSUME TypeOK, NEW c \in Checkpointers, CkUpload(c), UNCHANGED flushVars
  PROVE  TypeOK'
<1>1. plan[c] \subseteq Object
  BY ProcessAssumption DEF Procs, TypeOK, ProcTypeOK
<1>2. objs' \subseteq Object /\ faults' \in Nat
  <2>1. objs' \subseteq objs \cup plan[c]
    <3>1. PICK left \in {objs, {p \in objs : \A o \in plan[c] : Key(p) # Key(o)}} :
            objs' \in {left, left \cup plan[c]}
      BY DEF CkUpload
    <3>2. QED
      BY <3>1
  <2>2. faults' \in {faults, faults + 1}
    BY DEF CkUpload, Fault
  <2>3. QED
    BY <1>1, <2>1, <2>2, StoresType
<1>3. pc' \in [Procs -> Labels] /\ denied' \subseteq Object
  BY <1>1 DEF CkUpload, Deny, Goto, TypeOK, ProcTypeOK, Labels, CheckpointLabels
<1>4. QED
  BY <1>2, <1>3 DEF CkUpload, TypeOK, StoreTypeOK, ProcTypeOK, FlushTypeOK, flushVars, Labels

(* Joining the renewal loop keeps the types.                                *)
LEMMA CkJoinType ==
  ASSUME TypeOK, NEW c \in Checkpointers, CkJoin(c), UNCHANGED flushVars
  PROVE  TypeOK'
BY DEF CkJoin, Goto, storeVars, flushVars, TypeOK, StoreTypeOK, ProcTypeOK,
       FlushTypeOK, CheckpointLabels

(* The decision of commitCheckpoint prepares a well-formed head write.      *)
LEMMA CkCommitType ==
  ASSUME TypeOK, NEW c \in Checkpointers, CkCommit(c), UNCHANGED flushVars
  PROVE  TypeOK'
<1>1. /\ plan[c] \subseteq Object
      /\ names[c] \in SUBSET Names
  BY ProcessAssumption DEF Procs, TypeOK, ProcTypeOK
<1>2. StoreTypeOK'
  <2>1. ReadsOnly
    BY DEF CkCommit, ReadFails, Fault, ReadsOnly
  <2>2. QED
    BY <2>1, ReadsOnlyType
<1>3. pc' \in [Procs -> Labels] /\ acked' \subseteq Object
  BY <1>1 DEF CkCommit, Goto, TypeOK, ProcTypeOK, Labels, CheckpointLabels
<1>4. ASSUME NEW o \in plan[c], Exists
      PROVE  [expect |-> ref, new |-> Advance(ref, names[c], o), commits |-> {o}] \in RefWrite
  BY <1>1, <1>4, AdvanceType DEF Exists, TypeOK, StoreTypeOK, RefWrite
<1>5. write' \in [Procs -> SUBSET RefWrite]
  <2>1. PICK o \in plan[c] :
          \/ write' = write
          \/ /\ Exists
             /\ Prepare(c, {[expect |-> ref, new |-> Advance(ref, names[c], o),
                             commits |-> {o}]})
    BY DEF CkCommit
  <2>2. CASE write' = write
    BY <2>2 DEF TypeOK, ProcTypeOK
  <2>3. QED
    BY <1>4, <2>1, <2>2, PreparedType
<1>6. QED
  BY <1>2, <1>3, <1>5 DEF CkCommit, TypeOK, ProcTypeOK, FlushTypeOK, flushVars, Labels

(* The head write, whatever its verdict, keeps the types.                   *)
LEMMA CkAdvanceType ==
  ASSUME TypeOK, NEW c \in Checkpointers, CkAdvance(c), UNCHANGED flushVars
  PROVE  TypeOK'
<1>1. PICK w \in write[c], verdict \in Verdicts :
        /\ PutRef(w, verdict)
        /\ Goto(c, IF verdict = "ok" THEN "done" ELSE "ckCommit")
        /\ acked' = acked \cup (IF verdict = "ok" THEN w.commits ELSE {})
  BY DEF CkAdvance
<1>2. w \in RefWrite /\ w.commits \subseteq Object
  BY SMT, ProcessAssumption DEF Procs, TypeOK, ProcTypeOK, RefWrite
<1>3. StoreTypeOK'
  BY <1>1, <1>2, PutRefType DEF CkAdvance, TypeOK, StoreTypeOK
<1>4. pc' \in [Procs -> Labels] /\ acked' \subseteq Object
  BY <1>1, <1>2 DEF Goto, TypeOK, ProcTypeOK, Labels, CheckpointLabels
<1>5. write' \in [Procs -> SUBSET RefWrite]
  BY DEF CkAdvance, Prepare, TypeOK, ProcTypeOK
<1>6. tries' \in [Procs -> Nat]
  BY CountUpType, ProcessAssumption DEF CkAdvance, Procs, TypeOK, ProcTypeOK
<1>7. QED
  BY <1>3, <1>4, <1>5, <1>6 DEF CkAdvance, TypeOK, ProcTypeOK, FlushTypeOK, flushVars, Labels

(* Deleting an unreferenced object keeps the types.                         *)
LEMMA CkDeleteType ==
  ASSUME TypeOK, NEW c \in Checkpointers, CkDelete(c), UNCHANGED flushVars
  PROVE  TypeOK'
<1>1. plan[c] \subseteq Object
  BY ProcessAssumption DEF Procs, TypeOK, ProcTypeOK
<1>2. QED
  BY <1>1 DEF CkDelete, BestEffortDelete, Deny, Goto, flushVars, TypeOK, StoreTypeOK, ProcTypeOK,
              FlushTypeOK, CheckpointLabels

(* releaseCheckpointLease keeps the types.                                  *)
LEMMA CkReleaseType ==
  ASSUME TypeOK, NEW c \in Checkpointers, CkRelease(c) \/ CkClear(c), UNCHANGED flushVars
  PROVE  TypeOK'
<1>1. CASE CkRelease(c)
  <2>1. ReadsOnly
    BY <1>1 DEF CkRelease, ReadFails, Fault, ReadsOnly
  <2>2. StoreTypeOK'
    BY <2>1, ReadsOnlyType
  <2>3. pc' \in [Procs -> Labels]
    BY <1>1 DEF CkRelease, Goto, TypeOK, ProcTypeOK, Labels, CheckpointLabels
  <2>4. QED
    BY <1>1, <2>2, <2>3 DEF CkRelease, flushVars, TypeOK, ProcTypeOK, FlushTypeOK, Labels
<1>2. CASE CkClear(c)
  BY <1>2, ReleaseType, ProcessAssumption
  DEF CkClear, Goto, flushVars, TypeOK, StoreTypeOK, ProcTypeOK, FlushTypeOK, CheckpointLabels
<1>3. QED
  BY <1>1, <1>2

(* Every step of a checkpoint call keeps the types.                         *)
LEMMA CheckpointType ==
  ASSUME TypeOK, NEW c \in Checkpointers, CheckpointNext(c), UNCHANGED flushVars
  PROVE  TypeOK'
<1>1. c \in Holders /\ c \in Procs
  BY ProcessAssumption DEF Procs
<1>2. QED
  BY <1>1, CkStartType, CkAcquireType, CkTakeType, CkSettleType, CkUploadType, CkJoinType,
     CkCommitType, CkAdvanceType, CkDeleteType, CkReleaseType, RenewType, CrashType
  DEF CheckpointNext

(* Every step of a session's Open keeps the types.                          *)
LEMMA SsOpenType ==
  ASSUME TypeOK, NEW s \in Sessions, SsAcquire(s) \/ SsTake(s) \/ SsSettle(s)
  PROVE  TypeOK'
<1>1. s \in Holders /\ s \in Procs
  BY ProcessAssumption DEF Procs
<1>2. CASE SsAcquire(s)
  <2>1. write' \in [Procs -> SUBSET RefWrite]
    BY <1>1, <1>2, AcquireWriteType DEF SsAcquire, Prepare, TypeOK, ProcTypeOK
  <2>2. QED
    BY <1>2, <2>1 DEF SsAcquire, Goto, storeVars, flushVars, TypeOK, StoreTypeOK,
                      ProcTypeOK, FlushTypeOK, SessionLabels
<1>3. CASE SsTake(s)
  <2>1. PICK w \in write[s], verdict \in Verdicts :
          /\ PutRef(w, verdict)
          /\ lease' = [lease EXCEPT ![s] = IF verdict = "ok" THEN w.new.epoch ELSE 0]
          /\ Goto(s, IF verdict = "ok" THEN "ssOpen" ELSE "ssSettle")
    BY <1>3 DEF SsTake
  <2>2. w \in RefWrite /\ w.new.epoch \in Nat
    BY SMT, <1>1 DEF TypeOK, ProcTypeOK, RefWrite, Ref
  <2>3. StoreTypeOK'
    BY <1>3, <2>1, <2>2, PutRefType DEF SsTake, TypeOK, StoreTypeOK
  <2>4. pc' \in [Procs -> Labels] /\ lease' \in [Procs -> Nat]
    BY <2>1, <2>2 DEF Goto, TypeOK, ProcTypeOK, Labels, SessionLabels
  <2>5. QED
    BY <1>3, <2>3, <2>4 DEF SsTake, Prepare, flushVars, TypeOK, ProcTypeOK, FlushTypeOK, Labels
<1>4. CASE SsSettle(s)
  <2>1. StoreTypeOK'
    <3>1. ReadsOnly
      BY <1>4 DEF SsSettle, ReadFails, Fault, ReadsOnly
    <3>2. QED
      BY <3>1, ReadsOnlyType
  <2>2. pc' \in [Procs -> Labels] /\ lease' \in [Procs -> Nat]
    BY <1>4 DEF SsSettle, Exists, Goto, TypeOK, StoreTypeOK, ProcTypeOK, Labels, SessionLabels, Ref
  <2>3. QED
    BY <1>4, <2>1, <2>2 DEF SsSettle, flushVars, TypeOK, ProcTypeOK, FlushTypeOK, Labels
<1>5. QED
  BY <1>2, <1>3, <1>4

(* A flush's planned object and prepared head write are of their type.      *)
LEMMA FlushWriteType ==
  ASSUME TypeOK, Exists, NEW s \in Sessions, NEW kind \in Kinds, NEW ns \in SUBSET Names
  PROVE  LET o == FlushObject(ref, s, kind) IN
         /\ o \in Object
         /\ [expect |-> ref, new |-> FlushAdvance(ref, ns, o), commits |-> {o}] \in RefWrite
<1> DEFINE o == FlushObject(ref, s, kind)
<1>1. /\ ref \in Ref
      /\ s \in Holders
      /\ lease[s] \in Nat
      /\ encodes[s] + 1 \in Nat
  BY SMT, ProcessAssumption DEF Exists, TypeOK, StoreTypeOK, ProcTypeOK, FlushTypeOK, Procs
<1>2. o \in Object
  <2>1. ref.lineage \in Nat /\ ref.head + 1 \in Nat
    BY SMT, <1>1 DEF Ref
  <2>2. QED
    BY <1>1, <2>1 DEF FlushObject, Object
<1>3. FlushAdvance(ref, ns, o) \in Ref
  BY <1>1, <1>2, AdvanceType
<1> HIDE DEF o
<1>4. [expect |-> ref, new |-> FlushAdvance(ref, ns, o), commits |-> {o}] \in RefWrite
  BY <1>1, <1>2, <1>3 DEF RefWrite
<1>5. QED
  BY <1>2, <1>4 DEF o

(* The read, fence and encode of a flush prepare a typed head write.        *)
LEMMA FlReadType ==
  ASSUME TypeOK, NEW s \in Sessions, FlRead(s)
  PROVE  TypeOK'
<1>1. s \in Procs
  BY ProcessAssumption DEF Procs
<1>2. CASE ~Holds(ref, s, lease[s])
  BY <1>2 DEF FlRead, storeVars, flushVars, TypeOK, StoreTypeOK, ProcTypeOK, FlushTypeOK
<1>3. CASE Holds(ref, s, lease[s])
  <2>1. PICK ns \in {{}} \cup {{n} : n \in UserNames}, kind \in Kinds :
          LET o == FlushObject(ref, s, kind) IN
          /\ names' = [names EXCEPT ![s] = ns]
          /\ plan' = [plan EXCEPT ![s] = {o}]
          /\ Prepare(s, {[expect |-> ref, new |-> FlushAdvance(ref, ns, o),
                          commits |-> {o}]})
    BY <1>3 DEF FlRead
  <2>2. ns \in SUBSET Names
    BY DEF Names
  <2>a. Exists
    BY DEF FlRead
  <2>b. /\ FlushObject(ref, s, kind) \in Object
        /\ [expect |-> ref, new |-> FlushAdvance(ref, ns, FlushObject(ref, s, kind)),
            commits |-> {FlushObject(ref, s, kind)}] \in RefWrite
    BY <2>2, <2>a, FlushWriteType
  <2>3. plan' \in [Procs -> SUBSET Object] /\ write' \in [Procs -> SUBSET RefWrite]
    BY <2>1, <2>b DEF Prepare, TypeOK, ProcTypeOK
  <2>4. encodes' \in [Sessions -> Nat]
    <3>1. encodes \in [Sessions -> Nat]
      BY DEF TypeOK, FlushTypeOK
    <3>2. encodes' = [encodes EXCEPT ![s] = @ + 1]
      BY <1>3 DEF FlRead
    <3>3. QED
      BY <3>1, <3>2, CountUpType
  <2>5. names' \in [Procs -> SUBSET Names]
    BY <2>1, <2>2 DEF TypeOK, ProcTypeOK
  <2>c. /\ pc' \in [Procs -> Labels]
        /\ tries' \in [Procs -> Nat]
        /\ force' \in [Sessions -> BOOLEAN]
    <3>1. /\ pc' = [pc EXCEPT ![s] = "flPut"]
          /\ tries' = [tries EXCEPT ![s] = 0]
          /\ force' = [force EXCEPT ![s] = TRUE]
      BY <1>3 DEF FlRead, Goto
    <3>2. QED
      BY <3>1 DEF TypeOK, ProcTypeOK, FlushTypeOK, Labels, SessionLabels
  <2>6. QED
    BY <1>3, <2>3, <2>4, <2>5, <2>c DEF FlRead, storeVars, TypeOK, StoreTypeOK, ProcTypeOK,
                                  FlushTypeOK, Labels
<1>4. QED
  BY <1>2, <1>3

(* A flush's upload or overwrite keeps the types.                           *)
LEMMA FlUploadType ==
  ASSUME TypeOK, NEW s \in Sessions, FlPut(s) \/ FlOverwrite(s) \/ FlDelete(s)
  PROVE  TypeOK'
<1>1. plan[s] \subseteq Object
  BY ProcessAssumption DEF Procs, TypeOK, ProcTypeOK
<1>2. objs' \subseteq Object /\ faults' \in Nat
  <2>1. CASE FlPut(s)
    <3>1. objs' \subseteq objs \cup plan[s]
      BY <2>1 DEF FlPut
    <3>2. faults' \in {faults, faults + 1}
      BY <2>1 DEF FlPut, Fault
    <3>3. QED
      BY <1>1, <3>1, <3>2, StoresType
  <2>2. CASE FlOverwrite(s)
    <3>1. objs' \subseteq objs \cup plan[s]
      BY <2>2 DEF FlOverwrite
    <3>2. faults' \in {faults, faults + 1}
      BY <2>2 DEF FlOverwrite, Fault
    <3>3. QED
      BY <1>1, <3>1, <3>2, StoresType
  <2>3. CASE FlDelete(s)
    <3>1. objs' \subseteq objs /\ faults' = faults
      BY <2>3 DEF FlDelete, BestEffortDelete
    <3>2. QED
      BY <3>1 DEF TypeOK, StoreTypeOK
  <2>4. QED
    BY <2>1, <2>2, <2>3
<1>3. pc' \in [Procs -> Labels]
  BY DEF FlPut, FlOverwrite, FlDelete, FlushFails, Goto, TypeOK, ProcTypeOK, Labels,
         SessionLabels
<1>4. write' \in [Procs -> SUBSET RefWrite]
  BY DEF FlPut, FlOverwrite, FlDelete, FlushFails, Prepare, TypeOK, ProcTypeOK
<1>5. QED
  BY <1>2, <1>3, <1>4 DEF FlPut, FlOverwrite, FlDelete, flushVars, TypeOK, StoreTypeOK,
                          ProcTypeOK, FlushTypeOK, Labels

(* A flush's head write, whatever its verdict, keeps the types.             *)
LEMMA FlAdvanceType ==
  ASSUME TypeOK, NEW s \in Sessions, FlAdvance(s)
  PROVE  TypeOK'
<1>1. s \in Procs
  BY ProcessAssumption DEF Procs
<1>2. PICK w \in write[s], verdict \in Verdicts :
        /\ PutRef(w, verdict)
        /\ \/ /\ acked' = acked \cup w.commits
              /\ force' = [force EXCEPT ![s] = FALSE]
              /\ Goto(s, "ssOpen")
              /\ Prepare(s, {})
              /\ UNCHANGED tries
           \/ /\ Goto(s, IF tries[s] < FlushAttempts THEN "flReread" ELSE "flClean")
              /\ tries' = [tries EXCEPT ![s] = @ + 1]
              /\ UNCHANGED <<write, acked, force>>
           \/ /\ FlushFails(s)
              /\ UNCHANGED <<acked, force, tries>>
  BY DEF FlAdvance
<1>3. w \in RefWrite /\ w.commits \subseteq Object
  BY SMT, <1>1 DEF TypeOK, ProcTypeOK, RefWrite
<1>4. StoreTypeOK'
  BY <1>2, <1>3, PutRefType DEF FlAdvance, TypeOK, StoreTypeOK
<1>5. /\ pc' \in [Procs -> Labels]
      /\ write' \in [Procs -> SUBSET RefWrite]
      /\ acked' \subseteq Object
      /\ force' \in [Sessions -> BOOLEAN]
  BY <1>2, <1>3 DEF FlushFails, Goto, Prepare, TypeOK, ProcTypeOK, FlushTypeOK, Labels,
                    SessionLabels
<1>6. tries' \in [Procs -> Nat]
  <2>1. tries \in [Procs -> Nat]
    BY DEF TypeOK, ProcTypeOK
  <2>2. tries' = tries \/ tries' = [tries EXCEPT ![s] = @ + 1]
    BY <1>2
  <2>3. QED
    BY SMT, <1>1, <2>1, <2>2, CountUpType
<1>7. QED
  BY <1>4, <1>5, <1>6 DEF FlAdvance, TypeOK, ProcTypeOK, FlushTypeOK, Labels

(* A flush's retry prepares a typed head write from its fresh read.         *)
LEMMA FlRereadType ==
  ASSUME TypeOK, NEW s \in Sessions, FlReread(s)
  PROVE  TypeOK'
<1>1. plan[s] \subseteq Object /\ names[s] \in SUBSET Names
  BY ProcessAssumption DEF Procs, TypeOK, ProcTypeOK
<1>2. StoreTypeOK'
  <2>1. ReadsOnly
    BY DEF FlReread, ReadFails, Fault, ReadsOnly
  <2>2. QED
    BY <2>1, ReadsOnlyType
<1>3. ASSUME NEW o \in plan[s], Exists
      PROVE  [expect |-> ref, new |-> FlushAdvance(ref, names[s], o), commits |-> {o}]
               \in RefWrite
  BY <1>1, <1>3, AdvanceType DEF Exists, TypeOK, StoreTypeOK, RefWrite
<1>4. write' \in [Procs -> SUBSET RefWrite]
  <2>1. PICK o \in plan[s] :
          \/ write' = write
          \/ /\ Exists
             /\ Prepare(s, {[expect |-> ref, new |-> FlushAdvance(ref, names[s], o),
                             commits |-> {o}]})
    BY DEF FlReread
  <2>2. CASE write' = write
    BY <2>2 DEF TypeOK, ProcTypeOK
  <2>3. QED
    BY <1>3, <2>1, <2>2, PreparedType
<1>5. pc' \in [Procs -> Labels]
  BY DEF FlReread, Goto, TypeOK, ProcTypeOK, Labels, SessionLabels
<1>6. QED
  BY <1>2, <1>4, <1>5 DEF FlReread, flushVars, TypeOK, ProcTypeOK, FlushTypeOK, Labels

(* A flush's clean-up keeps the types.                                      *)
LEMMA FlCleanType ==
  ASSUME TypeOK, NEW s \in Sessions, FlClean(s)
  PROVE  TypeOK'
<1>1. StoreTypeOK'
  <2>1. ReadsOnly
    BY DEF FlClean, ReadFails, Fault, ReadsOnly
  <2>2. QED
    BY <2>1, ReadsOnlyType
<1>2. pc' \in [Procs -> Labels] /\ write' \in [Procs -> SUBSET RefWrite]
  BY DEF FlClean, FlushFails, Goto, Prepare, TypeOK, ProcTypeOK, Labels, SessionLabels
<1>3. QED
  BY <1>1, <1>2 DEF FlClean, flushVars, TypeOK, ProcTypeOK, FlushTypeOK, Labels

(* A session's Close keeps the types.                                       *)
LEMMA SsCloseType ==
  ASSUME TypeOK, NEW s \in Sessions, SsClose(s) \/ SsRelease(s)
  PROVE  TypeOK'
<1>1. CASE SsClose(s)
  BY <1>1 DEF SsClose, Goto, storeVars, flushVars, TypeOK, StoreTypeOK, ProcTypeOK,
              FlushTypeOK, SessionLabels
<1>2. CASE SsRelease(s)
  BY <1>2, ReleaseType, ProcessAssumption
  DEF SsRelease, Goto, flushVars, TypeOK, StoreTypeOK, ProcTypeOK, FlushTypeOK, SessionLabels
<1>3. QED
  BY <1>1, <1>2

(* Every step of a session keeps the types.                                 *)
LEMMA SessionType ==
  ASSUME TypeOK, NEW s \in Sessions, SessionNext(s)
  PROVE  TypeOK'
<1>1. s \in Holders /\ s \in Procs
  BY ProcessAssumption DEF Procs
<1>2. QED
  BY <1>1, SsOpenType, FlReadType, FlUploadType, FlAdvanceType, FlRereadType, FlCleanType,
     SsCloseType, RenewType, CrashType
  DEF SessionNext

(* A repoint's write is a ref write.                                        *)
LEMMA RepointWriteType ==
  ASSUME NEW r \in Ref, NEW l \in Nat, NEW t \in Nat, NEW cps \in SUBSET Checkpoint,
         NEW base \in SUBSET BasePointer
  PROVE  Repoint(r, l, t, cps, base) \in Ref
<1>1. ClearLease(r) \in Ref
  BY LeaseOpsType
<1>2. QED
  BY <1>1 DEF Repoint, Ref

(* The read of a repoint, whichever it is, keeps the types.                 *)
LEMMA RpReadType ==
  ASSUME TypeOK, Exists, NEW p \in Repointers, NEW t \in Nat, NEW cps \in SUBSET Checkpoint,
         NEW base \in SUBSET BasePointer, NEW label \in {"rpBackup", "rpBase"},
         RpRead(p, t, cps, base, label), UNCHANGED flushVars
  PROVE  TypeOK'
<1>1. ref \in Ref /\ lineages + 1 \in Nat
  BY SMT DEF Exists, TypeOK, StoreTypeOK
<1> DEFINE new == Repoint(ref, lineages + 1, t, cps, base)
<1>2. new \in Ref
  BY <1>1, RepointWriteType
<1>3. write' = [write EXCEPT ![p] = {[expect |-> ref, commits |-> {}, new |-> new]}]
  BY DEF RpRead, Prepare
<1> HIDE DEF new
<1>4. [expect |-> ref, commits |-> {}, new |-> new] \in RefWrite
  BY <1>1, <1>2 DEF RefWrite
<1>5. write' \in [Procs -> SUBSET RefWrite]
  BY <1>3, <1>4 DEF TypeOK, ProcTypeOK
<1>6. StoreTypeOK' /\ pc' \in [Procs -> Labels]
  BY <1>1 DEF RpRead, Goto, TypeOK, StoreTypeOK, ProcTypeOK, Labels, RepointLabels
<1>7. QED
  BY <1>5, <1>6 DEF RpRead, flushVars, TypeOK, ProcTypeOK, FlushTypeOK, Labels

(* Each repoint reads with a target, checkpoints and a base of their types. *)
LEMMA RpTargetType ==
  ASSUME TypeOK, NEW p \in Repointers, RpRollback(p) \/ RpPromote(p) \/ RpCompact(p)
  PROVE  Exists /\ \E t \in Nat, cps \in SUBSET Checkpoint, base \in SUBSET BasePointer,
                     label \in {"rpBackup", "rpBase"} : RpRead(p, t, cps, base, label)
<1>1. Exists /\ ref \in Ref
  BY DEF RpRollback, RpPromote, RpCompact, Exists, TypeOK, StoreTypeOK
<1>2. ref.lineage \in Nat /\ ref.head \in Nat /\ ref.cps \in SUBSET Checkpoint
  BY <1>1 DEF Ref
<1>3. CASE RpRollback(p)
  <2>1. PICK cp \in ref.cps, l \in 0 .. ref.lineage :
          RpRead(p, cp.txid, {k \in ref.cps : k.txid <= cp.txid},
                 {[lineage |-> l, txid |-> cp.txid]}, "rpBackup")
    BY <1>3 DEF RpRollback
  <2>2. cp.txid \in Nat /\ l \in Nat
    BY SMT, <1>2 DEF Checkpoint
  <2>3. {[lineage |-> l, txid |-> cp.txid]} \in SUBSET BasePointer
    <3>1. [lineage |-> l, txid |-> cp.txid] \in BasePointer
      BY <2>2 DEF BasePointer
    <3>2. QED
      BY <3>1
  <2>4. {k \in ref.cps : k.txid <= cp.txid} \in SUBSET Checkpoint
    BY <1>2
  <2>5. QED
    BY <1>1, <2>1, <2>2, <2>3, <2>4
<1>4. CASE RpPromote(p)
  <2>1. PICK b \in PromoteSources :
          RpRead(p, b.txid, {[name |-> "promote", txid |-> b.txid, epoch |-> 1]},
                 {b}, "rpBackup")
    BY <1>4 DEF RpPromote
  <2>2. PromoteSources \subseteq BasePointer
    <3>1. \A q \in pins : [lineage |-> q.lineage, txid |-> q.txid] \in BasePointer
      BY DEF BasePointer, Pin, TypeOK, StoreTypeOK
    <3>2. \A t \in OtherHeads : [lineage |-> 0, txid |-> t] \in BasePointer
      BY RepointAssumption DEF BasePointer
    <3>3. QED
      BY <3>1, <3>2 DEF PromoteSources
  <2>3. b.txid \in Nat /\ {b} \in SUBSET BasePointer
    BY <2>2 DEF BasePointer
  <2>4. {[name |-> "promote", txid |-> b.txid, epoch |-> 1]} \in SUBSET Checkpoint
    <3>1. "promote" \in Names
      BY DEF Names
    <3>2. [name |-> "promote", txid |-> b.txid, epoch |-> 1] \in Checkpoint
      BY <2>3, <3>1 DEF Checkpoint
    <3>3. QED
      BY <3>2
  <2>5. QED
    BY <1>1, <2>1, <2>3, <2>4
<1>5. CASE RpCompact(p)
  <2> DEFINE cps == ref.cps \cup
                    {cp \in {[name |-> "compact", txid |-> ref.head, epoch |-> 1]} :
                       ~HasCheckpoint(ref, "compact")}
  <2>1. RpRead(p, ref.head, cps, {}, "rpBase")
    BY <1>5 DEF RpCompact
  <2>2. [name |-> "compact", txid |-> ref.head, epoch |-> 1] \in Checkpoint
    BY <1>2 DEF Checkpoint, Names
  <2>3. cps \in SUBSET Checkpoint
    BY <1>2, <2>2
  <2> HIDE DEF cps
  <2>4. QED
    BY <1>1, <1>2, <2>1, <2>3
<1>6. QED
  BY <1>3, <1>4, <1>5

(* The safety fork adds a well-formed base pointer, or nothing.             *)
LEMMA RpBackupType ==
  ASSUME TypeOK, NEW p \in Repointers, RpBackup(p), UNCHANGED flushVars
  PROVE  TypeOK'
<1>1. pins' \subseteq Pin
  <2>1. CASE Exists /\ ForkAt(ref.head)
    <3>1. ref.head \in Nat
      BY <2>1 DEF Exists, TypeOK, StoreTypeOK, Ref
    <3>2. QED
      BY <2>1, <3>1, ForkAtType
  <2>2. CASE UNCHANGED pins
    BY <2>2 DEF TypeOK, StoreTypeOK
  <2>3. QED
    BY <2>1, <2>2 DEF RpBackup
<1>2. StoreTypeOK' /\ pc' \in [Procs -> Labels]
  BY <1>1 DEF RpBackup, Goto, TypeOK, StoreTypeOK, ProcTypeOK, Labels, RepointLabels
<1>3. QED
  BY <1>2 DEF RpBackup, flushVars, TypeOK, ProcTypeOK, FlushTypeOK, Labels

(* Starting a lineage behind a base pointer keeps the types.                *)
LEMMA RpShareType ==
  ASSUME TypeOK, NEW p \in Repointers, RpShare(p), UNCHANGED flushVars
  PROVE  TypeOK'
<1>1. \A w \in write[p] : \A b \in w.new.base :
        /\ w.new.lineage \in Nat
        /\ [child |-> w.new.lineage, lineage |-> b.lineage, txid |-> b.txid] \in Pin
  <2> SUFFICES ASSUME NEW w \in write[p], NEW b \in w.new.base
               PROVE  /\ w.new.lineage \in Nat
                      /\ [child |-> w.new.lineage, lineage |-> b.lineage, txid |-> b.txid] \in Pin
    OBVIOUS
  <2>1. w.new \in Ref
    <3>1. w \in RefWrite
      BY WriteType DEF Procs
    <3>2. QED
      BY <3>1 DEF RefWrite
  <2>2. w.new.lineage \in Nat /\ b \in BasePointer
    BY <2>1 DEF Ref
  <2>3. QED
    BY <2>2 DEF BasePointer, Pin
<1>2. StoreTypeOK' /\ pc' \in [Procs -> Labels]
  BY <1>1 DEF RpShare, Goto, TypeOK, StoreTypeOK, ProcTypeOK, Labels, RepointLabels
<1>3. QED
  BY <1>2 DEF RpShare, flushVars, TypeOK, ProcTypeOK, FlushTypeOK, Labels

(* The write of a copying repoint differs from w in its checkpoints and its *)
(* base only.                                                               *)
LEMMA CopyWriteType ==
  ASSUME NEW w \in RefWrite
  PROVE  [w EXCEPT !.new = Copied(@)] \in RefWrite
<1>1. w.new \in Ref /\ w.new.cps \in SUBSET Checkpoint
  BY DEF RefWrite, Ref
<1>2. {[cp EXCEPT !.epoch = 1] : cp \in w.new.cps} \in SUBSET Checkpoint
  BY SMT, <1>1 DEF Checkpoint
<1>3. Copied(w.new) \in Ref
  BY <1>1, <1>2 DEF Copied, Ref
<1>4. QED
  BY <1>3 DEF RefWrite

(* Starting a lineage from copies prepares a typed ref write.               *)
LEMMA RpCopyType ==
  ASSUME TypeOK, NEW p \in Repointers, RpCopy(p), UNCHANGED flushVars
  PROVE  TypeOK'
<1>1. PICK w \in write[p] :
        /\ born' = born \cup {w.new.lineage}
        /\ Prepare(p, {[w EXCEPT !.new = Copied(@)]})
  BY DEF RpCopy
<1>2. w \in RefWrite /\ w.new.lineage \in Nat
  <2>1. w \in RefWrite
    BY WriteType DEF Procs
  <2>2. w.new \in Ref
    BY <2>1 DEF RefWrite
  <2>3. QED
    BY <2>1, <2>2 DEF Ref
<1>3. write' \in [Procs -> SUBSET RefWrite]
  BY <1>1, <1>2, CopyWriteType, PreparedType
<1>4. StoreTypeOK'
  BY <1>1, <1>2 DEF RpCopy, TypeOK, StoreTypeOK
<1>5. pc' \in [Procs -> Labels]
  BY DEF RpCopy, Goto, TypeOK, ProcTypeOK, Labels, RepointLabels
<1>6. QED
  BY <1>3, <1>4, <1>5 DEF RpCopy, flushVars, TypeOK, ProcTypeOK, FlushTypeOK, Labels

(* A repoint's ref write, whatever its verdict, keeps the types.            *)
LEMMA RpWriteType ==
  ASSUME TypeOK, NEW p \in Repointers, RpWrite(p), UNCHANGED flushVars
  PROVE  TypeOK'
<1>1. PICK w \in write[p], verdict \in Verdicts :
        /\ PutRef(w, verdict)
        /\ IF verdict = "ok" THEN Goto(p, "done") /\ Prepare(p, {})
                             ELSE Goto(p, "rpSettle") /\ UNCHANGED write
  BY DEF RpWrite
<1>2. w \in RefWrite
  BY DEF TypeOK, ProcTypeOK, Procs
<1>3. StoreTypeOK'
  BY <1>1, <1>2, PutRefType DEF RpWrite, TypeOK, StoreTypeOK
<1>4. pc' \in [Procs -> Labels] /\ write' \in [Procs -> SUBSET RefWrite]
  BY <1>1 DEF Goto, Prepare, TypeOK, ProcTypeOK, Labels, RepointLabels
<1>5. QED
  BY <1>3, <1>4 DEF RpWrite, flushVars, TypeOK, ProcTypeOK, FlushTypeOK, Labels

(* settleRepoint and its clean-up keep the types.                           *)
LEMMA RpSettleType ==
  ASSUME TypeOK, NEW p \in Repointers, RpSettle(p) \/ RpCleanup(p), UNCHANGED flushVars
  PROVE  TypeOK'
<1>1. pc' \in [Procs -> Labels] /\ write' \in [Procs -> SUBSET RefWrite]
  BY DEF RpSettle, RpCleanup, Goto, Prepare, TypeOK, ProcTypeOK, Labels, RepointLabels
<1>2. StoreTypeOK'
  <2>1. CASE RpSettle(p)
    <3>1. ReadsOnly
      BY <2>1 DEF RpSettle, ReadFails, Fault, ReadsOnly
    <3>2. QED
      BY <3>1, ReadsOnlyType
  <2>2. CASE RpCleanup(p)
    <3>1. born' \subseteq Nat /\ pins' \subseteq Pin
      BY <2>2 DEF RpCleanup, TypeOK, StoreTypeOK
    <3>2. QED
      BY <2>2, <3>1 DEF RpCleanup, TypeOK, StoreTypeOK
  <2>3. QED
    BY <2>1, <2>2
<1>3. QED
  BY <1>1, <1>2 DEF RpSettle, RpCleanup, flushVars, TypeOK, ProcTypeOK, FlushTypeOK, Labels

(* Every step of a repoint keeps the types.                                 *)
LEMMA RepointType ==
  ASSUME TypeOK, NEW p \in Repointers, RepointNext(p), UNCHANGED flushVars
  PROVE  TypeOK'
<1>1. p \in Procs
  BY DEF Procs
<1>2. QED
  BY <1>1, RpTargetType, RpReadType, RpBackupType, RpShareType, RpCopyType, RpWriteType, RpSettleType,
     CrashType
  DEF RepointNext

(* A created and a forked branch start with a ref.                          *)
LEMMA FirstRefType ==
  /\ FirstRef("init", {}) \in Ref
  /\ FirstRef("fork", {[lineage |-> 0, txid |-> 1]}) \in Ref
<1>1. ASSUME NEW n \in Names, NEW b \in SUBSET BasePointer
      PROVE  FirstRef(n, b) \in Ref
  <2>1. {[name |-> n, txid |-> 1, epoch |-> 1]} \in SUBSET Checkpoint
    BY SMT DEF Checkpoint
  <2>2. QED
    BY <2>1 DEF FirstRef, Ref
<1>2. "init" \in Names /\ "fork" \in Names
  BY DEF Names
<1>3. {[lineage |-> 0, txid |-> 1]} \in SUBSET BasePointer
  BY SMT DEF BasePointer
<1>4. QED
  BY <1>1, <1>2, <1>3

(* A created or forked branch starts well typed.                            *)
LEMMA InitType == Init => TypeOK
<1> SUFFICES ASSUME Init PROVE TypeOK
  OBVIOUS
<1>1. FirstObject \in Object
  BY KindAssumption DEF FirstObject, Object
<1>2. /\ FirstRef("init", {}) \in Ref
      /\ FirstRef("fork", {[lineage |-> 0, txid |-> 1]}) \in Ref
  BY FirstRefType
<1>3. StoreTypeOK
  <2>1. /\ committed = objs /\ inflight = {}
        /\ lapsed = FALSE /\ lineages = 1 /\ born = {1} /\ faults = 0
    BY DEF Init, StoreInit
  <2>2. ref \in Ref /\ objs \subseteq Object /\ committed \subseteq Object /\ pins \subseteq Pin
    <3>1. CASE Created
      BY <1>1, <1>2, <2>1, <3>1 DEF Created
    <3>2. CASE Forked
      BY SMT, <1>2, <2>1, <3>2 DEF Forked, Pin
    <3>3. QED
      BY <3>1, <3>2 DEF Init, StoreInit
  <2>3. inflight \subseteq RefWrite /\ lapsed \in BOOLEAN
    BY <2>1
  <2>4. lineages \in Nat /\ born \subseteq Nat /\ faults \in Nat
    BY SMT, <2>1
  <2>5. QED
    BY <2>2, <2>3, <2>4 DEF StoreTypeOK
<1>4. ProcTypeOK(Labels) /\ FlushTypeOK
  BY DEF Init, ProcInit, FlushInit, ProcTypeOK, FlushTypeOK, Labels, CheckpointLabels
<1>5. QED
  BY <1>3, <1>4 DEF TypeOK, Labels

(* TypeOK is inductive: every step of Branch keeps it.                      *)
LEMMA NextType == TypeOK /\ [Next]_vars => TypeOK'
<1> SUFFICES ASSUME TypeOK, [Next]_vars PROVE TypeOK'
  OBVIOUS
<1>1. CASE Next
  BY <1>1, CheckpointType, SessionType, RepointType, EnvironmentType DEF Next
<1>2. CASE UNCHANGED vars
  BY <1>2 DEF vars, storeVars, procVars, flushVars, TypeOK, StoreTypeOK, ProcTypeOK, FlushTypeOK
<1>3. QED
  BY <1>1, <1>2

(* Every state of the branch, its store, its writers and the writes still   *)
(* in flight is of its type: no operation builds an ill-formed ref record,  *)
(* object or conditional write, whatever faults it meets.                   *)
THEOREM TypeCorrect == Spec => []TypeOK
BY InitType, NextType, PTL DEF Spec

-----------------------------------------------------------------------------
(* Fencing, in parts.                                                       *)

\* The holder of r writes o, under r's epoch.
WrittenUnder(o, r) ==
  /\ o.lineage = r.lineage
  /\ o.epoch = r.epoch
  /\ o.by = r.holder
  /\ r.holder # NoHolder

\* The step leaves the ref where it is, moves it forward or deletes it.
RefForward ==
  \/ ref' = ref
  \/ ref' = Gone
  \/ Exists /\ ref' \in Ref /\ Forward(ref, ref') /\ ref'.lineage <= lineages'

\* All but the last conjunct of Fencing.
OneWriter ==
  \A o, p \in Uploads : o.lineage = p.lineage /\ o.epoch = p.epoch => o.by = p.by

AheadOfAll ==
  Exists => ref.lineage <= lineages /\ \A o \in Uploads : Behind(o, ref)

WritesForward ==
  \A w \in Pending : Forward(w.expect, w.new) /\ w.new.lineage <= lineages

TakesOwn ==
  \A c \in Checkpointers :
    pc[c] = "ckTake" => \A w \in write[c] : w.new.holder = c

(* Fencing, in the four parts the steps below treat one by one.             *)
LEMMA FencingParts == Fencing <=> OneWriter /\ AheadOfAll /\ WritesForward /\ TakesOwn
BY DEF Fencing, OneWriter, AheadOfAll, WritesForward, TakesOwn

-----------------------------------------------------------------------------
(* The branch's lineage has been minted.                                    *)
LEMMA LineageMinted ==
  ASSUME TypeOK, Fencing, Exists
  PROVE  ref.lineage \in Nat /\ ref.lineage <= lineages
<1>1. ref \in Ref
  BY DEF Exists, TypeOK, StoreTypeOK
<1>2. ref.lineage <= lineages
  BY FencingParts DEF AheadOfAll
<1>3. QED
  BY <1>1, <1>2 DEF Ref

(* A step that leaves the ref alone moves it nowhere.                       *)
LEMMA SameRefForward == ref' = ref => RefForward
BY DEF RefForward

(* Objects and writes on their way are of their type.                       *)
LEMMA UploadsType == TypeOK => Uploads \subseteq Object /\ Pending \subseteq RefWrite
<1> SUFFICES ASSUME TypeOK PROVE Uploads \subseteq Object /\ Pending \subseteq RefWrite
  OBVIOUS
<1>1. Pending \subseteq RefWrite
  BY DEF Pending, TypeOK, StoreTypeOK, ProcTypeOK
<1>2. UNION {w.commits : w \in Pending} \subseteq Object
  BY <1>1 DEF RefWrite
<1>3. UNION {plan[p] : p \in Procs} \subseteq Object
  BY DEF TypeOK, ProcTypeOK
<1>4. QED
  BY <1>1, <1>2, <1>3 DEF Uploads, TypeOK, StoreTypeOK

(* An object behind a ref is behind every ref it moves forward to.          *)
LEMMA BehindForward ==
  ASSUME NEW o \in Object, NEW r \in Ref, NEW n \in Ref, Behind(o, r), Forward(r, n)
  PROVE  Behind(o, n)
BY SMT DEF Behind, Forward, Object, Ref

(* What a step may do to keep Fencing: move the ref forward, prepare writes *)
(* W that move it forward, plan objects P under the ref it leaves.          *)
LEMMA StepFencing ==
  ASSUME TypeOK, TypeOK', Fencing, NEW W, NEW P,
         lineages <= lineages', RefForward,
         inflight' \subseteq Pending \cup W,
         \A q \in Procs : write'[q] \subseteq Pending \cup W,
         \A w \in W : /\ Forward(w.expect, w.new)
                      /\ w.new.lineage <= lineages'
                      /\ w.commits \subseteq Uploads \cup P,
         objs' \subseteq Uploads \cup P,
         committed' \subseteq Uploads \cup P,
         \A q \in Procs : plan'[q] \subseteq Uploads \cup P,
         \A o \in P : ref' # Gone /\ WrittenUnder(o, ref')
  PROVE  (OneWriter /\ AheadOfAll /\ WritesForward)'
<1>1. Pending' \subseteq Pending \cup W
  BY DEF Pending
<1>2. Uploads' \subseteq Uploads \cup P
  <2>1. UNION {w.commits : w \in Pending'} \subseteq Uploads \cup P
    BY <1>1 DEF Uploads
  <2>2. QED
    BY SMT, <2>1 DEF Uploads
<1>3. Uploads' \subseteq Object /\ Uploads \subseteq Object
  <2>1. (TypeOK => Uploads \subseteq Object /\ Pending \subseteq RefWrite)'
    BY UploadsType, PTL
  <2>2. QED
    BY <2>1, UploadsType
<1>4. ref \in Ref \cup {Gone} /\ lineages \in Nat /\ lineages' \in Nat /\ Gone \notin Ref
  BY StoreAssumption DEF TypeOK, StoreTypeOK
<1>5. OneWriter /\ AheadOfAll /\ WritesForward
  BY FencingParts
<1>6. ASSUME ref' # Gone
      PROVE  ref' \in Ref /\ ref \in Ref /\ ref'.lineage <= lineages' /\ Forward(ref, ref')
  <2>1. CASE ref' = ref
    BY SMT, <1>4, <1>5, <1>6, <2>1 DEF AheadOfAll, Exists, Forward, Ref
  <2>2. CASE ref' # ref
    BY <1>4, <1>6, <2>2 DEF RefForward, Exists
  <2>3. QED
    BY <2>1, <2>2
<1>7. ASSUME ref' # Gone, NEW o \in Uploads
      PROVE  Behind(o, ref')
  BY <1>3, <1>5, <1>6, <1>7, BehindForward, <1>4 DEF AheadOfAll, Exists
<1>8. AheadOfAll'
  <2>1. ASSUME ref' # Gone, NEW o \in P
        PROVE  Behind(o, ref')
    BY <2>1 DEF WrittenUnder, Behind
  <2>2. QED
    BY <1>2, <1>6, <1>7, <2>1 DEF AheadOfAll, Exists
<1>9. OneWriter'
  <2>1. ASSUME NEW o \in Uploads, NEW p \in P, o.lineage = p.lineage, o.epoch = p.epoch
        PROVE  o.by = p.by
    BY SMT, <1>3, <1>6, <1>7, <2>1 DEF WrittenUnder, Behind, Object, Ref
  <2>2. ASSUME NEW o \in P, NEW p \in P
        PROVE  o.by = p.by
    BY <2>2 DEF WrittenUnder
  <2>3. QED
    BY <1>2, <1>5, <2>1, <2>2 DEF OneWriter
<1>10. WritesForward'
  <2>1. ASSUME NEW w \in Pending
        PROVE  Forward(w.expect, w.new) /\ w.new.lineage <= lineages'
    <3>1. w.new.lineage \in Nat
      BY UploadsType DEF RefWrite, Ref
    <3>2. QED
      BY SMT, <1>4, <1>5, <3>1 DEF WritesForward
  <2>2. QED
    BY <1>1, <2>1 DEF WritesForward
<1>11. QED
  BY <1>8, <1>9, <1>10

(* What is stored, planned, prepared or in flight is counted.               *)
LEMMA Counted ==
  ASSUME NEW p \in Procs
  PROVE  /\ objs \subseteq Uploads /\ committed \subseteq Uploads
         /\ plan[p] \subseteq Uploads
         /\ inflight \subseteq Pending /\ write[p] \subseteq Pending
         /\ \A w \in Pending : w.commits \subseteq Uploads
BY DEF Uploads, Pending

(* The outcome of a conditional write, whatever its verdict.                *)
LEMMA PutFencing ==
  ASSUME TypeOK, Fencing, NEW w \in Pending, NEW verdict \in Verdicts,
         PutRef(w, verdict), lineages' = lineages
  PROVE  RefForward /\ inflight' \subseteq Pending /\ committed' \subseteq Uploads
<1>1. w \in RefWrite /\ w.expect \in Ref /\ w.new \in Ref
  BY UploadsType DEF RefWrite
<1>2. Forward(w.expect, w.new) /\ w.new.lineage <= lineages
  BY DEF Fencing
<1>3. ref = w.expect /\ Apply(w) => RefForward /\ committed' \subseteq Uploads
  <2>1. committed \cup w.commits \subseteq Uploads
    BY DEF Uploads
  <2>2. QED
    BY <1>1, <1>2, <2>1, StoreAssumption DEF Apply, RefForward, Exists
<1>4. inflight \subseteq Pending /\ committed \subseteq Uploads
  BY DEF Pending, Uploads
<1>5. QED
  BY <1>3, <1>4 DEF PutRef, RefForward

\* A step of p (a process, or the environment) that plans nothing and prepares no write.
Quiet(p) ==
  /\ lineages' = lineages
  /\ RefForward
  /\ inflight' \subseteq Pending
  /\ objs' \subseteq Uploads
  /\ committed' \subseteq Uploads
  /\ plan' = plan
  /\ \/ /\ \E label : label # "ckTake" /\ pc' = [pc EXCEPT ![p] = label]
        /\ write' = write \/ write' = [write EXCEPT ![p] = {}]
     \/ UNCHANGED <<pc, write>>

(* Nobody else's acquire is disturbed by a step of p.                       *)
LEMMA TakesOwnElsewhere ==
  ASSUME TypeOK, Fencing, NEW p, NEW label, NEW ws,
         pc' = [pc EXCEPT ![p] = label], write' = [write EXCEPT ![p] = ws],
         label = "ckTake" => \A w \in ws : w.new.holder = p
  PROVE  TakesOwn'
<1>1. ASSUME NEW c \in Checkpointers, pc'[c] = "ckTake", NEW w \in write'[c]
      PROVE  w.new.holder = c
  <2>1. c \in Procs /\ pc \in [Procs -> Labels] /\ write \in [Procs -> SUBSET RefWrite]
    BY ProcessAssumption DEF Procs, TypeOK, ProcTypeOK, Labels
  <2>2. CASE c = p
    BY <1>1, <2>1, <2>2
  <2>3. CASE c # p
    BY <1>1, <2>1, <2>3 DEF Fencing
  <2>4. QED
    BY <2>2, <2>3
<1>2. QED
  BY <1>1 DEF TakesOwn

(* A quiet step keeps Fencing.                                              *)
LEMMA QuietFencing ==
  ASSUME TypeOK, TypeOK', Fencing, NEW p, Quiet(p)
  PROVE  Fencing' /\ RefForward
<1>1. write \in [Procs -> SUBSET RefWrite] /\ lineages \in Nat
  BY DEF TypeOK, StoreTypeOK, ProcTypeOK
<1>2. \A q \in Procs : write[q] \subseteq Pending /\ plan[q] \subseteq Uploads
  BY Counted
<1>3. \A q \in Procs : write'[q] \subseteq Pending /\ plan'[q] \subseteq Uploads
  BY <1>1, <1>2 DEF Quiet
<1>4. (OneWriter /\ AheadOfAll /\ WritesForward)'
  <2> DEFINE W == {}
             P == {}
  <2>1. lineages <= lineages' /\ RefForward
    BY SMT, <1>1 DEF Quiet
  <2>2. /\ inflight' \subseteq Pending \cup W
        /\ objs' \subseteq Uploads \cup P
        /\ committed' \subseteq Uploads \cup P
    BY DEF Quiet
  <2>3. /\ \A w \in W : /\ Forward(w.expect, w.new)
                        /\ w.new.lineage <= lineages'
                        /\ w.commits \subseteq Uploads \cup P
        /\ \A o \in P : ref' # Gone /\ WrittenUnder(o, ref')
        /\ \A q \in Procs : /\ write'[q] \subseteq Pending \cup W
                            /\ plan'[q] \subseteq Uploads \cup P
    BY <1>3
  <2> HIDE DEF W, P
  <2>4. QED
    BY <2>1, <2>2, <2>3, StepFencing
<1>5. TakesOwn'
  <2>1. CASE UNCHANGED <<pc, write>>
    BY <2>1 DEF Fencing, TakesOwn
  <2>2. ASSUME NEW label, label # "ckTake", pc' = [pc EXCEPT ![p] = label], write' = write
        PROVE  TakesOwn'
    <3>1. write' = [write EXCEPT ![p] = write[p]]
      BY <1>1, <2>2
    <3>2. QED
      BY <2>2, <3>1, TakesOwnElsewhere
  <2>3. ASSUME NEW label, label # "ckTake", pc' = [pc EXCEPT ![p] = label],
               write' = [write EXCEPT ![p] = {}]
        PROVE  TakesOwn'
    BY <2>3, TakesOwnElsewhere
  <2>4. QED
    BY <2>1, <2>2, <2>3 DEF Quiet
<1>6. (OneWriter /\ AheadOfAll /\ WritesForward /\ TakesOwn)'
  BY <1>4, <1>5
<1>7. (Fencing <=> OneWriter /\ AheadOfAll /\ WritesForward /\ TakesOwn)'
  BY FencingParts, PTL
<1>8. QED
  BY <1>6, <1>7 DEF Quiet

(* A step that prepares writes keeps Fencing if they move the ref forward   *)
(* and publish only what is counted or planned under the ref.               *)
LEMMA PrepareFencing ==
  ASSUME TypeOK, TypeOK', Fencing, NEW p \in Procs, NEW label, NEW W, NEW P,
         pc' = [pc EXCEPT ![p] = label], write' = [write EXCEPT ![p] = W],
         label = "ckTake" => \A w \in W : w.new.holder = p,
         lineages <= lineages', RefForward,
         inflight' \subseteq Pending, objs' \subseteq Uploads, committed' \subseteq Uploads,
         plan' = plan \/ plan' = [plan EXCEPT ![p] = P],
         \A w \in W : /\ Forward(w.expect, w.new)
                      /\ w.new.lineage <= lineages'
                      /\ w.commits \subseteq Uploads \cup P,
         \A o \in P : ref' # Gone /\ WrittenUnder(o, ref')
  PROVE  Fencing' /\ RefForward
<1>1. /\ write \in [Procs -> SUBSET RefWrite]
      /\ plan \in [Procs -> SUBSET Object]
  BY DEF TypeOK, ProcTypeOK
<1>2. \A q \in Procs : write[q] \subseteq Pending /\ plan[q] \subseteq Uploads
  BY Counted
<1>3. \A q \in Procs : write'[q] \subseteq Pending \cup W
  BY <1>1, <1>2
<1>4. \A q \in Procs : plan'[q] \subseteq Uploads \cup P
  BY <1>1, <1>2
<1>5. (OneWriter /\ AheadOfAll /\ WritesForward)'
  <2>1. /\ inflight' \subseteq Pending \cup W
        /\ objs' \subseteq Uploads \cup P
        /\ committed' \subseteq Uploads \cup P
    OBVIOUS
  <2>2. QED
    BY <1>3, <1>4, <2>1, StepFencing
<1>6. TakesOwn'
  BY TakesOwnElsewhere
<1>7. (Fencing <=> OneWriter /\ AheadOfAll /\ WritesForward /\ TakesOwn)'
  BY FencingParts, PTL
<1>8. QED
  BY <1>5, <1>6, <1>7

-----------------------------------------------------------------------------
(* The functions of a ref move it forward.                                  *)

(* An acquire not refused moves the ref forward (AcquireLeaseRefIf).        *)
LEMMA AcquireForward ==
  ASSUME NEW r \in Ref, NEW h \in Holders, NEW b \in BOOLEAN, ~AcquireRefused(r, h, b)
  PROVE  /\ Forward(r, AcquireLease(r, h, b))
         /\ AcquireLease(r, h, b).holder = h
         /\ AcquireLease(r, h, b).lineage = r.lineage
BY SMT DEF Forward, AcquireLease, AcquireRefused, LeaseLive, Ref

(* Renewing or dropping a lease moves the ref forward.                      *)
LEMMA LeaseOpsForward ==
  ASSUME NEW r \in Ref
  PROVE  /\ Forward(r, RenewLease(r)) /\ RenewLease(r).lineage = r.lineage
         /\ Forward(r, ClearLease(r)) /\ ClearLease(r).lineage = r.lineage
BY DEF Forward, RenewLease, ClearLease, Ref

(* A head write, of a flush or a checkpoint, moves the ref forward.         *)
LEMMA AdvanceForward ==
  ASSUME NEW r \in Ref, NEW ns, NEW o
  PROVE  /\ Forward(r, FlushAdvance(r, ns, o)) /\ FlushAdvance(r, ns, o).lineage = r.lineage
         /\ Forward(r, Advance(r, ns, o)) /\ Advance(r, ns, o).lineage = r.lineage
BY DEF Forward, FlushAdvance, Advance, ClearLease, Ref

(* A repoint to a fresh lineage moves the ref forward.                      *)
LEMMA RepointForward ==
  ASSUME NEW r \in Ref, NEW l \in Nat, NEW t, NEW cps, NEW base, r.lineage < l
  PROVE  Forward(r, Repoint(r, l, t, cps, base)) /\ Repoint(r, l, t, cps, base).lineage = l
BY DEF Forward, Repoint, ClearLease, Ref

(* A ref left on its lineage and moved forward satisfies RefForward.        *)
LEMMA SameLineageForward ==
  ASSUME TypeOK, TypeOK', Fencing, Exists, lineages' = lineages,
         ref' # Gone, Forward(ref, ref'), ref'.lineage = ref.lineage
  PROVE  RefForward
BY DEF RefForward, Fencing, TypeOK, StoreTypeOK

-----------------------------------------------------------------------------
(* Steps that checkpoint calls, sessions and repoints share.                *)

(* A renewal keeps the fence.                                               *)
LEMMA RenewFencing ==
  ASSUME TypeOK, TypeOK', Fencing, NEW h \in Holders, NEW S, Renew(h, S)
  PROVE  Fencing' /\ RefForward
<1>1. h \in Procs
  BY DEF Procs
<1>2. RefForward
  <2>1. CASE RenewOk(h)
    <3>1. ref \in Ref /\ ref' = RenewLease(ref) /\ Exists
      BY <2>1 DEF RenewOk, Exists, TypeOK, StoreTypeOK
    <3>2. ref' # Gone
      BY <3>1, LeaseOpsType, StoreAssumption
    <3>3. QED
      BY <3>1, <3>2, LeaseOpsForward, SameLineageForward DEF Renew
  <2>2. CASE RenewLost(h)
    BY <2>2 DEF RenewLost, RefForward
  <2>3. QED
    BY <2>1, <2>2 DEF Renew
<1>3. Quiet(h)
  BY <1>1, <1>2, Counted DEF Renew, Quiet
<1>4. QED
  BY <1>1, <1>3, QuietFencing

(* A process that stops dead keeps the fence.                               *)
LEMMA CrashFencing ==
  ASSUME TypeOK, TypeOK', Fencing, NEW p \in Procs, Crash(p)
  PROVE  Fencing' /\ RefForward
<1>1. Quiet(p)
  BY Counted DEF Crash, Goto, Prepare, storeVars, Quiet, RefForward
<1>2. QED
  BY <1>1, QuietFencing

(* ReleaseLease moves the ref forward.                                      *)
LEMMA ReleaseForward ==
  ASSUME TypeOK, TypeOK', Fencing, NEW h \in Holders, ReleaseLease(h), lineages' = lineages
  PROVE  RefForward
<1>1. CASE Exists /\ ref' = ClearLease(ref)
  <2>1. ref \in Ref
    BY <1>1 DEF Exists, TypeOK, StoreTypeOK
  <2>2. ref' # Gone
    BY <1>1, <2>1, LeaseOpsType, StoreAssumption
  <2>3. QED
    BY <1>1, <2>1, <2>2, LeaseOpsForward, SameLineageForward
<1>2. CASE ref' = ref
  BY <1>2 DEF RefForward
<1>3. QED
  BY <1>1, <1>2 DEF ReleaseLease

(* Other parties' edits, and writes landing late, keep the fence.           *)
LEMMA EnvironmentFencing ==
  ASSUME TypeOK, TypeOK', Fencing, Environment, UNCHANGED procVars
  PROVE  Fencing' /\ RefForward
<1>1. lineages' = lineages /\ objs' = objs
  BY DEF Environment, Land, Expire, Touch, Prune, ReleaseByHolder, Claim, Unclaim, DeleteRef,
         Fork, Edit
<1>2. RefForward /\ inflight' \subseteq Pending /\ committed' \subseteq Uploads
  <2>1. CASE Land
    <3>1. PICK w \in inflight : ref = w.expect /\ Apply(w) /\ inflight' = inflight \ {w}
      BY <2>1 DEF Land
    <3>2. w \in Pending
      BY DEF Pending
    <3>3. w.expect \in Ref /\ w.new \in Ref
      BY <3>2, UploadsType DEF RefWrite
    <3>4. Forward(w.expect, w.new) /\ w.new.lineage <= lineages'
      BY <1>1, <3>2 DEF Fencing
    <3>5. committed' \subseteq Uploads
      BY <3>1, <3>2 DEF Apply, Uploads
    <3>6. QED
      BY <3>1, <3>3, <3>4, <3>5, StoreAssumption DEF Apply, RefForward, Exists, Pending
  <2>2. CASE Expire \/ Fork
    BY <2>2 DEF Expire, Fork, RefForward, Pending, Uploads
  <2>3. CASE DeleteRef
    BY <2>3 DEF DeleteRef, Edit, RefForward, Pending, Uploads
  <2>4. ASSUME NEW new \in Ref, Edit(new), Exists, Forward(ref, new),
               new.lineage = ref.lineage
        PROVE  RefForward /\ inflight' \subseteq Pending /\ committed' \subseteq Uploads
    <3>1. RefForward
      BY <1>1, <2>4, SameLineageForward, StoreAssumption DEF Edit
    <3>2. QED
      BY <2>4, <3>1 DEF Edit, Pending, Uploads
  <2>5. CASE Touch
    <3>1. ref \in Ref /\ [ref EXCEPT !.touched = @ + 1] \in Ref
      BY SMT, <2>5 DEF Touch, Exists, TypeOK, StoreTypeOK, Ref
    <3>2. Forward(ref, [ref EXCEPT !.touched = @ + 1])
      BY <3>1 DEF Forward, Ref
    <3>3. QED
      BY <2>4, <2>5, <3>1, <3>2 DEF Touch, Ref
  <2>6. CASE ReleaseByHolder
    <3>1. ref \in Ref
      BY <2>6 DEF ReleaseByHolder, Exists, TypeOK, StoreTypeOK
    <3>2. QED
      BY <2>4, <2>6, <3>1, LeaseOpsType, LeaseOpsForward DEF ReleaseByHolder
  <2>7. ASSUME NEW n \in Names, Prune(n)
        PROVE  RefForward /\ inflight' \subseteq Pending /\ committed' \subseteq Uploads
    <3> DEFINE new == [ref EXCEPT !.cps = {cp \in @ : cp.name # n}]
    <3>1. ref \in Ref /\ new \in Ref
      BY <2>7 DEF Prune, Exists, TypeOK, StoreTypeOK, Ref
    <3>2. Forward(ref, new) /\ new.lineage = ref.lineage
      BY <3>1 DEF Forward, Ref
    <3>3. Exists /\ Edit(new)
      BY <2>7 DEF Prune
    <3> HIDE DEF new
    <3>4. QED
      BY <2>4, <3>1, <3>2, <3>3
  <2>8. ASSUME NEW k \in Claims, NEW new, Edit(new), Exists,
               new \in {[ref EXCEPT !.claims = @ \cup {k}], [ref EXCEPT !.claims = @ \ {k}]}
        PROVE  RefForward /\ inflight' \subseteq Pending /\ committed' \subseteq Uploads
    <3>1. ref \in Ref /\ new \in Ref
      BY SMT, <2>8 DEF Exists, TypeOK, StoreTypeOK, Ref
    <3>2. Forward(ref, new) /\ new.lineage = ref.lineage
      BY <2>8, <3>1 DEF Forward, Ref
    <3>3. QED
      BY <2>4, <2>8, <3>1, <3>2
  <2>9. ASSUME NEW k \in Claims, Claim(k) \/ Unclaim(k)
        PROVE  RefForward /\ inflight' \subseteq Pending /\ committed' \subseteq Uploads
    BY <2>8, <2>9 DEF Claim, Unclaim
  <2>10. QED
    BY <2>1, <2>2, <2>3, <2>5, <2>6, <2>7, <2>9 DEF Environment
<1>3. QED
  <2>1. Quiet("environment")
    BY <1>1, <1>2 DEF Quiet, procVars, Uploads
  <2>2. QED
    BY <2>1, QuietFencing

-----------------------------------------------------------------------------
(* The steps of a checkpoint call.                                          *)

(* The steps of a checkpoint that only touch its object keep the fence.     *)
LEMMA CkQuietFencing ==
  ASSUME TypeOK, TypeOK', Fencing, NEW c \in Checkpointers,
         \/ \E n \in UserNames : CkStart(c, n)
         \/ CkUpload(c) \/ CkJoin(c) \/ CkAdvance(c) \/ CkDelete(c) \/ CkRelease(c) \/ CkClear(c)
  PROVE  Fencing' /\ RefForward
<1>1. c \in Procs /\ c \in Holders
  BY ProcessAssumption DEF Procs
<1>2. /\ objs \subseteq Uploads /\ committed \subseteq Uploads /\ plan[c] \subseteq Uploads
      /\ inflight \subseteq Pending /\ write[c] \subseteq Pending
  BY <1>1, Counted
<1>3. CASE (\E n \in UserNames : CkStart(c, n)) \/ CkJoin(c) \/ CkRelease(c)
  BY <1>2, <1>3, QuietFencing
  DEF CkStart, CkJoin, CkRelease, ReadFails, Goto, storeVars, Quiet, RefForward
<1>4. CASE CkUpload(c)
  <2>1. objs' \subseteq Uploads
    BY SMT, <1>2, <1>4 DEF CkUpload
  <2>2. Quiet(c)
    BY <1>2, <1>4, <2>1 DEF CkUpload, Goto, Quiet, RefForward
  <2>3. QED
    BY <2>2, QuietFencing
<1>5. CASE CkAdvance(c)
  <2>1. PICK w \in write[c], verdict \in Verdicts :
          PutRef(w, verdict) /\ Goto(c, IF verdict = "ok" THEN "done" ELSE "ckCommit")
    BY <1>5 DEF CkAdvance
  <2>2. RefForward /\ inflight' \subseteq Pending /\ committed' \subseteq Uploads
    BY <1>2, <1>5, <2>1, PutFencing DEF CkAdvance
  <2>3. Quiet(c)
    BY <1>2, <1>5, <2>1, <2>2 DEF CkAdvance, Goto, Prepare, Quiet
  <2>4. QED
    BY <2>3, QuietFencing
<1>6. CASE CkDelete(c)
  <2>1. Quiet(c)
    BY <1>2, <1>6 DEF CkDelete, BestEffortDelete, Goto, Quiet, RefForward
  <2>2. QED
    BY <2>1, QuietFencing
<1>7. CASE CkClear(c)
  <2>1. RefForward
    BY <1>1, <1>7, ReleaseForward DEF CkClear
  <2>2. Quiet(c)
    BY <1>2, <1>7, <2>1 DEF CkClear, Goto, Quiet
  <2>3. QED
    BY <2>2, QuietFencing
<1>8. QED
  BY <1>3, <1>4, <1>5, <1>6, <1>7

(* An acquire is prepared from the ref it read, and only for its caller.    *)
LEMMA AcquireFencing ==
  ASSUME TypeOK, TypeOK', Fencing, NEW h \in Holders, NEW label, Exists,
         ~AcquireRefused(ref, h, lapsed),
         Goto(h, label),
         Prepare(h, {[expect |-> ref, new |-> AcquireLease(ref, h, lapsed), commits |-> {}]}),
         UNCHANGED <<ref, lineages, objs, inflight, committed, plan>>
  PROVE  Fencing' /\ RefForward
<1> DEFINE w == [expect |-> ref, new |-> AcquireLease(ref, h, lapsed), commits |-> {}]
           W == {w}
           P == {}
<1>1. h \in Procs /\ ref \in Ref /\ lapsed \in BOOLEAN /\ lineages \in Nat
  BY DEF Procs, Exists, TypeOK, StoreTypeOK
<1>2. Forward(ref, w.new) /\ w.new.holder = h /\ w.new.lineage = ref.lineage
  BY <1>1, AcquireForward
<1>3. w.new.lineage <= lineages' /\ lineages <= lineages' /\ RefForward
  <2>1. w.new.lineage <= lineages
    BY <1>2, LineageMinted
  <2>2. QED
    BY SMT, <1>1, <2>1, SameRefForward
<1>4. w.expect = ref /\ w.commits \subseteq Uploads \cup P
  OBVIOUS
<1>5. pc' = [pc EXCEPT ![h] = label] /\ write' = [write EXCEPT ![h] = W]
  BY DEF Goto, Prepare
<1>6. inflight' \subseteq Pending /\ objs' \subseteq Uploads /\ committed' \subseteq Uploads
  BY <1>1, Counted
<1> HIDE DEF w
<1>7. /\ \A v \in W : /\ Forward(v.expect, v.new)
                     /\ v.new.lineage <= lineages'
                     /\ v.commits \subseteq Uploads \cup P
                     /\ v.new.holder = h
      /\ \A o \in P : ref' # Gone /\ WrittenUnder(o, ref')
  BY <1>2, <1>3, <1>4
<1> HIDE DEF W, P
<1>8. QED
  BY <1>1, <1>3, <1>5, <1>6, <1>7, PrepareFencing

(* The read of a checkpoint's acquire prepares a forward write.             *)
LEMMA CkAcquireFencing ==
  ASSUME TypeOK, TypeOK', Fencing, NEW c \in Checkpointers, CkAcquire(c)
  PROVE  Fencing' /\ RefForward
<1>1. c \in Procs /\ c \in Holders
  BY ProcessAssumption DEF Procs
<1>2. CASE pc'[c] = "ckTake"
  <2>1. /\ Exists
        /\ ~AcquireRefused(ref, c, lapsed)
        /\ Prepare(c, {[expect |-> ref, new |-> AcquireLease(ref, c, lapsed),
                         commits |-> {}]})
        /\ Goto(c, "ckTake")
        /\ UNCHANGED <<ref, lapsed, inflight, committed, faults, lease, plan>>
    BY <1>1, <1>2 DEF CkAcquire, Refuse, RefuseLeased, Goto, TypeOK, ProcTypeOK
  <2>2. QED
    BY <1>1, <2>1, AcquireFencing DEF CkAcquire
<1>3. CASE pc'[c] # "ckTake"
  <2>1. /\ \E label : label # "ckTake" /\ pc' = [pc EXCEPT ![c] = label]
        /\ write' = [write EXCEPT ![c] = {}]
        /\ plan' = plan
        /\ UNCHANGED <<ref, inflight, committed>>
    BY <1>1, <1>3
    DEF CkAcquire, Refuse, RefuseLeased, ReadFails, Goto, Prepare, TypeOK, ProcTypeOK
  <2>2. Quiet(c)
    BY <1>1, <2>1, Counted DEF CkAcquire, Quiet, RefForward
  <2>3. QED
    BY <2>2, QuietFencing
<1>4. QED
  BY <1>2, <1>3

(* A call plans its object only under the lease it has on the ref.          *)
LEMMA LeasedFencing ==
  ASSUME TypeOK, TypeOK', Fencing, NEW c \in Checkpointers, NEW r \in Ref, Leased(c, r),
         ref' = r, r.holder = c, Prepare(c, {}), RefForward,
         lineages' = lineages, objs' = objs,
         inflight' \subseteq Pending, committed' \subseteq Uploads
  PROVE  Fencing' /\ RefForward
<1>1. c \in Procs /\ c \in Holders /\ c # NoHolder /\ r # Gone /\ lineages \in Nat
  BY ProcessAssumption, HolderAssumption, StoreAssumption DEF Procs, TypeOK, StoreTypeOK
<1>2. PICK kind \in Kinds : plan' = [plan EXCEPT ![c] = {CheckpointObject(r, c, kind)}]
  BY DEF Leased
<1> DEFINE W == {}
           P == {CheckpointObject(r, c, kind)}
<1>3. \A o \in P : ref' # Gone /\ WrittenUnder(o, ref')
  BY SMT, <1>1 DEF WrittenUnder, CheckpointObject
<1>4. /\ pc' = [pc EXCEPT ![c] = "ckUpload"] /\ write' = [write EXCEPT ![c] = W]
      /\ lineages <= lineages' /\ objs' \subseteq Uploads
      /\ plan' = [plan EXCEPT ![c] = P]
      /\ \A v \in W : /\ Forward(v.expect, v.new)
                     /\ v.new.lineage <= lineages'
                     /\ v.commits \subseteq Uploads \cup P
  <2>1. lineages <= lineages' /\ objs' \subseteq Uploads
    BY SMT, <1>1, Counted
  <2>2. pc' = [pc EXCEPT ![c] = "ckUpload"] /\ write' = [write EXCEPT ![c] = W]
    BY DEF Leased, Goto, Prepare
  <2>3. QED
    BY <1>2, <2>1, <2>2
<1> HIDE DEF W, P
<1>5. QED
  BY <1>1, <1>3, <1>4, PrepareFencing

(* A lease taken is under an epoch nobody has uploaded under.               *)
LEMMA CkTakeFencing ==
  ASSUME TypeOK, TypeOK', Fencing, NEW c \in Checkpointers, CkTake(c)
  PROVE  Fencing' /\ RefForward
<1>1. PICK w \in write[c], verdict \in Verdicts :
        /\ PutRef(w, verdict)
        /\ \/ verdict = "ok" /\ Leased(c, w.new) /\ Prepare(c, {})
           \/ /\ verdict # "ok"
              /\ Goto(c, IF verdict = "cas" THEN "ckSettleCas" ELSE "ckSettleErr")
              /\ UNCHANGED <<lease, plan, write>>
  BY DEF CkTake
<1>2. c \in Procs /\ w \in Pending /\ w.new \in Ref /\ w.new.holder = c
  <2>1. c \in Procs
    BY ProcessAssumption DEF Procs
  <2>2. w \in Pending
    BY <2>1, Counted
  <2>3. QED
    BY <2>1, <2>2, UploadsType DEF CkTake, Fencing, RefWrite
<1>3. RefForward /\ inflight' \subseteq Pending /\ committed' \subseteq Uploads
  BY <1>1, <1>2, PutFencing DEF CkTake
<1>4. CASE verdict = "ok"
  <2>1. ref' = w.new /\ Leased(c, w.new) /\ Prepare(c, {})
    BY <1>1, <1>4 DEF PutRef, Apply
  <2>2. QED
    BY <1>2, <1>3, <2>1, LeasedFencing DEF CkTake
<1>5. CASE verdict # "ok"
  <2>1. Quiet(c)
    BY <1>1, <1>2, <1>3, <1>5, Counted DEF CkTake, Goto, Quiet
  <2>2. QED
    BY <2>1, QuietFencing
<1>6. QED
  BY <1>4, <1>5

(* A lease adopted by SettleAcquire is one this call itself took.           *)
LEMMA CkSettleFencing ==
  ASSUME TypeOK, TypeOK', Fencing, NEW c \in Checkpointers, CkSettle(c)
  PROVE  Fencing' /\ RefForward
<1>1. c \in Procs
  BY ProcessAssumption DEF Procs
<1>2. UNCHANGED <<ref, objs, lineages, inflight, committed>> /\ RefForward
  BY DEF CkSettle, ReadFails, RefForward
<1>3. inflight' \subseteq Pending /\ committed' \subseteq Uploads /\ objs' \subseteq Uploads
  BY <1>1, <1>2, Counted
<1>4. CASE Exists /\ ref.holder = c /\ Leased(c, ref)
  <2>1. ref \in Ref /\ ref' = ref /\ Prepare(c, {})
    BY <1>2, <1>4 DEF CkSettle, Exists, TypeOK, StoreTypeOK
  <2>2. QED
    BY <1>2, <1>3, <1>4, <2>1, LeasedFencing
<1>5. CASE ~(Exists /\ ref.holder = c /\ Leased(c, ref))
  <2>1. plan' = plan /\ \E label : label # "ckTake" /\ pc' = [pc EXCEPT ![c] = label]
    BY <1>5 DEF CkSettle, Refuse, RefuseLeased, Goto
  <2>2. Quiet(c)
    BY <1>2, <1>3, <2>1 DEF CkSettle, Prepare, Quiet
  <2>3. QED
    BY <2>2, QuietFencing
<1>6. QED
  BY <1>4, <1>5

(* The head write of a checkpoint or flush publishes its planned object.    *)
LEMMA AdvanceFencing ==
  ASSUME TypeOK, TypeOK', Fencing, NEW h \in Holders, NEW label, label # "ckTake", Exists,
         NEW o \in plan[h], NEW new,
         new \in {Advance(ref, names[h], o), FlushAdvance(ref, names[h], o)},
         Goto(h, label), Prepare(h, {[expect |-> ref, new |-> new, commits |-> {o}]}),
         UNCHANGED <<ref, lineages, objs, inflight, committed, plan>>
  PROVE  Fencing' /\ RefForward
<1> DEFINE w == [expect |-> ref, new |-> new, commits |-> {o}]
           W == {w}
           P == {}
<1>1. h \in Procs /\ ref \in Ref /\ lineages \in Nat
  BY DEF Procs, Exists, TypeOK, StoreTypeOK
<1>2. Forward(ref, new) /\ new.lineage = ref.lineage
  <2>1. CASE new = Advance(ref, names[h], o)
    BY <1>1, <2>1, AdvanceForward
  <2>2. CASE new = FlushAdvance(ref, names[h], o)
    BY <1>1, <2>2, AdvanceForward
  <2>3. QED
    BY <2>1, <2>2
<1>3. new.lineage <= lineages' /\ lineages <= lineages' /\ RefForward
  <2>1. new.lineage <= lineages
    BY <1>2, LineageMinted
  <2>2. RefForward
    BY SameRefForward
  <2>3. QED
    BY SMT, <1>1, <2>1, <2>2
<1>4. {o} \subseteq Uploads
  BY <1>1, Counted
<1>5. pc' = [pc EXCEPT ![h] = label] /\ write' = [write EXCEPT ![h] = W]
  BY DEF Goto, Prepare
<1>6. inflight' \subseteq Pending /\ objs' \subseteq Uploads /\ committed' \subseteq Uploads
  BY <1>1, Counted
<1>7. w.expect = ref /\ w.new = new /\ w.commits = {o}
  OBVIOUS
<1> HIDE DEF w
<1>8. /\ \A v \in W : /\ Forward(v.expect, v.new)
                     /\ v.new.lineage <= lineages'
                     /\ v.commits \subseteq Uploads \cup P
      /\ \A p \in P : ref' # Gone /\ WrittenUnder(p, ref')
  <2>1. Forward(w.expect, w.new) /\ w.new.lineage <= lineages' /\ w.commits \subseteq Uploads
    BY <1>2, <1>3, <1>4, <1>7
  <2>2. QED
    BY <2>1
<1> HIDE DEF W, P
<1>9. QED
  BY <1>1, <1>3, <1>5, <1>6, <1>8, PrepareFencing

(* The head write commitCheckpoint prepares is forward.                     *)
LEMMA CkCommitFencing ==
  ASSUME TypeOK, TypeOK', Fencing, NEW c \in Checkpointers, CkCommit(c)
  PROVE  Fencing' /\ RefForward
<1>1. c \in Procs /\ c \in Holders
  BY ProcessAssumption DEF Procs
<1>2. UNCHANGED <<ref, objs, lineages, inflight, committed, plan>> /\ RefForward
  BY DEF CkCommit, ReadFails, RefForward
<1>3. PICK o \in plan[c] :
        \/ /\ Exists
           /\ Prepare(c, {[expect |-> ref, new |-> Advance(ref, names[c], o),
                           commits |-> {o}]})
           /\ Goto(c, "ckAdvance")
        \/ /\ write' = write
           /\ \E label \in {"ckDelete", "ckRelease", "done"} : Goto(c, label)
  BY DEF CkCommit
<1>4. CASE /\ Exists
           /\ Prepare(c, {[expect |-> ref, new |-> Advance(ref, names[c], o),
                           commits |-> {o}]})
           /\ Goto(c, "ckAdvance")
  <2>1. UNCHANGED <<ref, lineages, objs, inflight, committed, plan>>
    BY <1>2
  <2>2. QED
    BY <1>1, <1>4, <2>1, AdvanceFencing
<1>5. CASE /\ write' = write
           /\ \E label \in {"ckDelete", "ckRelease", "done"} : Goto(c, label)
  <2>1. Quiet(c)
    BY <1>1, <1>2, <1>5, Counted DEF Quiet, Goto
  <2>2. QED
    BY <2>1, QuietFencing
<1>6. QED
  BY <1>3, <1>4, <1>5

(* Every step of a checkpoint call keeps the fence.                         *)
LEMMA CheckpointFencing ==
  ASSUME TypeOK, TypeOK', Fencing, NEW c \in Checkpointers, CheckpointNext(c)
  PROVE  Fencing' /\ RefForward
<1>1. c \in Procs /\ c \in Holders
  BY ProcessAssumption DEF Procs
<1>2. QED
  BY <1>1, CkQuietFencing, CkAcquireFencing, CkTakeFencing, CkSettleFencing, CkCommitFencing,
     RenewFencing, CrashFencing
  DEF CheckpointNext

-----------------------------------------------------------------------------
(* The steps of a session.                                                  *)

(* The steps of a session that only touch its object keep the fence.        *)
LEMMA SsQuietFencing ==
  ASSUME TypeOK, TypeOK', Fencing, NEW s \in Sessions,
         \/ SsTake(s) \/ SsSettle(s) \/ FlPut(s) \/ FlOverwrite(s) \/ FlAdvance(s)
         \/ FlClean(s) \/ FlDelete(s) \/ SsClose(s) \/ SsRelease(s)
  PROVE  Fencing' /\ RefForward
<1>1. s \in Procs /\ s \in Holders
  BY ProcessAssumption DEF Procs
<1>2. /\ objs \subseteq Uploads /\ committed \subseteq Uploads /\ plan[s] \subseteq Uploads
      /\ inflight \subseteq Pending /\ write[s] \subseteq Pending
  BY <1>1, Counted
<1>3. CASE SsTake(s) \/ FlAdvance(s)
  <2>1. PICK w \in write[s], verdict \in Verdicts : PutRef(w, verdict)
    BY <1>3 DEF SsTake, FlAdvance
  <2>2. lineages' = lineages /\ objs' = objs /\ plan' = plan
    BY <1>3 DEF SsTake, FlAdvance
  <2>3. RefForward /\ inflight' \subseteq Pending /\ committed' \subseteq Uploads
    BY <1>2, <2>1, <2>2, PutFencing
  <2>4. /\ \E label : label # "ckTake" /\ pc' = [pc EXCEPT ![s] = label]
        /\ write' = write \/ write' = [write EXCEPT ![s] = {}]
    BY <1>3 DEF SsTake, FlAdvance, FlushFails, Goto, Prepare
  <2>5. QED
    BY <1>2, <2>2, <2>3, <2>4, QuietFencing DEF Quiet
<1>4. CASE SsSettle(s) \/ FlClean(s)
  <2>1. UNCHANGED <<ref, objs, lineages, inflight, committed, plan>>
    BY <1>4 DEF SsSettle, FlClean, ReadFails
  <2>2. /\ \E label : label # "ckTake" /\ pc' = [pc EXCEPT ![s] = label]
        /\ write' = write \/ write' = [write EXCEPT ![s] = {}]
    BY <1>4 DEF SsSettle, FlClean, FlushFails, Goto, Prepare
  <2>3. QED
    BY <1>2, <2>1, <2>2, QuietFencing DEF Quiet, RefForward
<1>5. CASE FlPut(s) \/ FlOverwrite(s) \/ FlDelete(s)
  <2>1. objs' \subseteq Uploads
    BY <1>2, <1>5 DEF FlPut, FlOverwrite, FlDelete, BestEffortDelete
  <2>2. UNCHANGED <<ref, lineages, inflight, committed, plan>>
    BY <1>5 DEF FlPut, FlOverwrite, FlDelete
  <2>3. /\ \E label : label # "ckTake" /\ pc' = [pc EXCEPT ![s] = label]
        /\ write' = write \/ write' = [write EXCEPT ![s] = {}]
    BY <1>5 DEF FlPut, FlOverwrite, FlDelete, FlushFails, Goto, Prepare
  <2>4. QED
    BY <1>2, <2>1, <2>2, <2>3, QuietFencing DEF Quiet, RefForward
<1>6. CASE SsClose(s)
  BY <1>2, <1>6, QuietFencing DEF SsClose, storeVars, Goto, Quiet, RefForward
<1>7. CASE SsRelease(s)
  <2>1. RefForward
    BY <1>1, <1>7, ReleaseForward DEF SsRelease
  <2>2. Quiet(s)
    BY <1>2, <1>7, <2>1 DEF SsRelease, Goto, Quiet
  <2>3. QED
    BY <2>2, QuietFencing
<1>8. QED
  BY <1>3, <1>4, <1>5, <1>6, <1>7

(* A flush plans its object under the lease the ref it read carries.        *)
LEMMA FlReadFencing ==
  ASSUME TypeOK, TypeOK', Fencing, NEW s \in Sessions, FlRead(s)
  PROVE  Fencing' /\ RefForward
<1>1. /\ s \in Procs /\ s # NoHolder
      /\ ref \in Ref /\ ref # Gone /\ lineages \in Nat /\ Exists
  BY ProcessAssumption, HolderAssumption DEF Procs, FlRead, Exists, TypeOK, StoreTypeOK
<1>2. UNCHANGED <<ref, lineages, objs, inflight, committed>>
  BY DEF FlRead, storeVars
<1>3. /\ inflight' \subseteq Pending /\ objs' \subseteq Uploads /\ committed' \subseteq Uploads
      /\ RefForward /\ lineages <= lineages' /\ ref.lineage <= lineages'
  <2>1. inflight' \subseteq Pending /\ objs' \subseteq Uploads /\ committed' \subseteq Uploads
    BY <1>1, <1>2, Counted
  <2>2. RefForward
    BY <1>2, SameRefForward
  <2>3. lineages <= lineages' /\ ref.lineage <= lineages'
    BY SMT, <1>1, <1>2, LineageMinted
  <2>4. QED
    BY <2>1, <2>2, <2>3
<1>4. CASE ~Holds(ref, s, lease[s])
  <2>1. UNCHANGED <<pc, write, plan>>
    BY <1>4 DEF FlRead
  <2>2. QED
    BY <1>2, <1>3, <2>1, QuietFencing DEF Quiet
<1>5. CASE Holds(ref, s, lease[s])
  <2>1. PICK ns \in {{}} \cup {{n} : n \in UserNames}, kind \in Kinds :
          LET o == FlushObject(ref, s, kind) IN
          /\ plan' = [plan EXCEPT ![s] = {o}]
          /\ Prepare(s, {[expect |-> ref, new |-> FlushAdvance(ref, ns, o),
                          commits |-> {o}]})
    BY <1>5 DEF FlRead
  <2> DEFINE o == FlushObject(ref, s, kind)
             new == FlushAdvance(ref, ns, o)
             w == [expect |-> ref, new |-> new, commits |-> {o}]
             W == {w}
             P == {o}
  <2>2. WrittenUnder(o, ref)
    BY <1>1, <1>5 DEF FlushObject, WrittenUnder, Holds
  <2>3. plan' = [plan EXCEPT ![s] = P] /\ write' = [write EXCEPT ![s] = W]
    BY <2>1 DEF Prepare
  <2>4. pc' = [pc EXCEPT ![s] = "flPut"]
    BY <1>5 DEF FlRead, Goto
  <2> HIDE DEF o
  <2>5. Forward(ref, new) /\ new.lineage = ref.lineage
    BY <1>1, AdvanceForward
  <2> HIDE DEF new
  <2>6. w.expect = ref /\ w.new = new /\ w.commits = {o}
    OBVIOUS
  <2> HIDE DEF w
  <2>7. /\ \A v \in W : /\ Forward(v.expect, v.new)
                       /\ v.new.lineage <= lineages'
                       /\ v.commits \subseteq Uploads \cup P
        /\ \A p \in P : ref' # Gone /\ WrittenUnder(p, ref')
    BY <1>1, <1>2, <1>3, <2>2, <2>5, <2>6
  <2> HIDE DEF W, P
  <2>8. QED
    BY <1>1, <1>3, <2>3, <2>4, <2>7, PrepareFencing
<1>6. QED
  BY <1>4, <1>5

(* The head write a flush retries with is forward.                          *)
LEMMA FlRereadFencing ==
  ASSUME TypeOK, TypeOK', Fencing, NEW s \in Sessions, FlReread(s)
  PROVE  Fencing' /\ RefForward
<1>1. s \in Procs /\ s \in Holders
  BY ProcessAssumption DEF Procs
<1>2. UNCHANGED <<ref, objs, lineages, inflight, committed, plan>>
  BY DEF FlReread, ReadFails
<1>3. PICK o \in plan[s] :
        \/ /\ Exists
           /\ Prepare(s, {[expect |-> ref, new |-> FlushAdvance(ref, names[s], o),
                           commits |-> {o}]})
           /\ Goto(s, "flAdvance")
        \/ write' = write /\ Goto(s, "flClean")
  BY DEF FlReread
<1>4. CASE /\ Exists
           /\ Prepare(s, {[expect |-> ref, new |-> FlushAdvance(ref, names[s], o),
                           commits |-> {o}]})
           /\ Goto(s, "flAdvance")
  BY <1>1, <1>2, <1>4, AdvanceFencing
<1>5. CASE write' = write /\ Goto(s, "flClean")
  BY <1>1, <1>2, <1>5, Counted, QuietFencing DEF Quiet, Goto, RefForward
<1>6. QED
  BY <1>3, <1>4, <1>5

(* Every step of a session keeps the fence.                                 *)
LEMMA SessionFencing ==
  ASSUME TypeOK, TypeOK', Fencing, NEW s \in Sessions, SessionNext(s)
  PROVE  Fencing' /\ RefForward
<1>1. s \in Procs /\ s \in Holders
  BY ProcessAssumption DEF Procs
<1>2. CASE SsAcquire(s)
  BY <1>1, <1>2, AcquireFencing DEF SsAcquire, storeVars
<1>3. QED
  BY <1>1, <1>2, SsQuietFencing, FlReadFencing, FlRereadFencing, RenewFencing, CrashFencing
  DEF SessionNext

-----------------------------------------------------------------------------
(* The steps of a repoint.                                                  *)

(* A repoint mints the lineage it moves the branch to.                      *)
LEMMA RpReadFencing ==
  ASSUME TypeOK, TypeOK', Fencing, Exists, NEW p \in Repointers, NEW t, NEW cps, NEW base,
         NEW label \in {"rpBackup", "rpBase"}, RpRead(p, t, cps, base, label)
  PROVE  Fencing' /\ RefForward
<1>1. p \in Procs /\ ref \in Ref /\ Exists /\ lineages \in Nat /\ lineages + 1 \in Nat
  BY SMT DEF Procs, Exists, TypeOK, StoreTypeOK
<1>2. UNCHANGED <<ref, objs, inflight, committed, plan>> /\ lineages' = lineages + 1
  BY DEF RpRead
<1>3. /\ inflight' \subseteq Pending /\ objs' \subseteq Uploads /\ committed' \subseteq Uploads
      /\ RefForward /\ lineages <= lineages'
  <2>1. inflight' \subseteq Pending /\ objs' \subseteq Uploads /\ committed' \subseteq Uploads
    BY <1>1, <1>2, Counted
  <2>2. RefForward
    BY <1>2, SameRefForward
  <2>3. lineages <= lineages'
    BY SMT, <1>1, <1>2
  <2>4. QED
    BY <2>1, <2>2, <2>3
<1> DEFINE new == Repoint(ref, lineages + 1, t, cps, base)
           w == [expect |-> ref, commits |-> {}, new |-> new]
           W == {w}
           P == {}
<1>5. Forward(ref, new) /\ new.lineage <= lineages'
  <2>1. ref.lineage < lineages + 1
    BY SMT, <1>1, LineageMinted
  <2>2. QED
    BY SMT, <1>1, <1>2, <2>1, RepointForward
<1>6. pc' = [pc EXCEPT ![p] = label] /\ write' = [write EXCEPT ![p] = W]
  BY DEF RpRead, Goto, Prepare
<1> HIDE DEF new
<1>7. w.expect = ref /\ w.new = new /\ w.commits = {}
  OBVIOUS
<1> HIDE DEF w
<1>8. /\ \A v \in W : /\ Forward(v.expect, v.new)
                     /\ v.new.lineage <= lineages'
                     /\ v.commits \subseteq Uploads \cup P
      /\ \A o \in P : ref' # Gone /\ WrittenUnder(o, ref')
  BY <1>5, <1>7
<1> HIDE DEF W, P
<1>9. QED
  BY <1>1, <1>2, <1>3, <1>6, <1>8, PrepareFencing

(* A copying repoint moves the ref to the same lineage, epoch and holder.   *)
LEMMA RpCopyFencing ==
  ASSUME TypeOK, TypeOK', Fencing, NEW p \in Repointers, RpCopy(p)
  PROVE  Fencing' /\ RefForward
<1>1. p \in Procs /\ lineages \in Nat
  BY DEF Procs, TypeOK, StoreTypeOK
<1>2. UNCHANGED <<ref, objs, inflight, committed, plan, lineages>>
  BY DEF RpCopy
<1>3. /\ inflight' \subseteq Pending /\ objs' \subseteq Uploads /\ committed' \subseteq Uploads
      /\ RefForward /\ lineages <= lineages'
  <2>1. inflight' \subseteq Pending /\ objs' \subseteq Uploads /\ committed' \subseteq Uploads
    BY <1>1, <1>2, Counted
  <2>2. RefForward
    BY <1>2, SameRefForward
  <2>3. lineages <= lineages'
    BY SMT, <1>1, <1>2
  <2>4. QED
    BY <2>1, <2>2, <2>3
<1>4. PICK v \in write[p] :
        Prepare(p, {[v EXCEPT !.new = Copied(@)]})
  BY DEF RpCopy
<1>5. v \in Pending /\ v \in RefWrite /\ v.commits \subseteq Uploads
  BY <1>1, Counted, UploadsType
<1> DEFINE w == [v EXCEPT !.new = Copied(@)]
           W == {w}
           P == {}
<1>6. /\ w.expect = v.expect /\ w.commits = v.commits
      /\ w.new.lineage = v.new.lineage
      /\ w.new.epoch = v.new.epoch
      /\ w.new.holder = v.new.holder
  <2>1. v.new \in Ref
    BY <1>5 DEF RefWrite
  <2>2. w.expect = v.expect /\ w.commits = v.commits
    BY <1>5 DEF RefWrite
  <2>3. w.new = Copied(v.new)
    BY <1>5 DEF RefWrite
  <2>4. /\ Copied(v.new).lineage = v.new.lineage
        /\ Copied(v.new).epoch = v.new.epoch
        /\ Copied(v.new).holder = v.new.holder
    BY <2>1 DEF Copied, Ref
  <2>5. QED
    BY <2>2, <2>3, <2>4
<1>7. pc' = [pc EXCEPT ![p] = "rpWrite"] /\ write' = [write EXCEPT ![p] = W]
  BY <1>4 DEF RpCopy, Goto, Prepare
<1> HIDE DEF w
<1>8. Forward(w.expect, w.new) /\ w.new.lineage <= lineages'
  BY <1>2, <1>5, <1>6 DEF Fencing, Forward
<1>9. /\ \A x \in W : /\ Forward(x.expect, x.new)
                     /\ x.new.lineage <= lineages'
                     /\ x.commits \subseteq Uploads \cup P
      /\ \A o \in P : ref' # Gone /\ WrittenUnder(o, ref')
  BY <1>5, <1>6, <1>8
<1> HIDE DEF W, P
<1>10. QED
  BY <1>1, <1>2, <1>3, <1>7, <1>9, PrepareFencing

(* A repoint's steps around its ref write keep the fence.                   *)
LEMMA RpQuietFencing ==
  ASSUME TypeOK, TypeOK', Fencing, NEW p \in Repointers,
         RpBackup(p) \/ RpShare(p) \/ RpWrite(p) \/ RpSettle(p) \/ RpCleanup(p)
  PROVE  Fencing' /\ RefForward
<1>1. /\ p \in Procs
      /\ objs \subseteq Uploads /\ committed \subseteq Uploads
      /\ inflight \subseteq Pending /\ write[p] \subseteq Pending
  BY Counted DEF Procs
<1>2. UNCHANGED <<objs, lineages, plan>>
  BY DEF RpBackup, RpShare, RpWrite, RpSettle, RpCleanup
<1>3. /\ \E label : label # "ckTake" /\ pc' = [pc EXCEPT ![p] = label]
      /\ write' = write \/ write' = [write EXCEPT ![p] = {}]
  BY DEF RpBackup, RpShare, RpWrite, RpSettle, RpCleanup, Goto, Prepare
<1>4. RefForward /\ inflight' \subseteq Pending /\ committed' \subseteq Uploads
  <2>1. CASE RpWrite(p)
    BY <1>1, <1>2, <2>1, PutFencing DEF RpWrite
  <2>2. CASE ~RpWrite(p)
    BY <1>1, <2>2 DEF RpBackup, RpShare, RpSettle, RpCleanup, ReadFails, RefForward
  <2>3. QED
    BY <2>1, <2>2
<1>5. QED
  BY <1>1, <1>2, <1>3, <1>4, QuietFencing DEF Quiet

(* Every step of a repoint keeps the fence.                                 *)
LEMMA RepointFencing ==
  ASSUME TypeOK, TypeOK', Fencing, NEW p \in Repointers, RepointNext(p)
  PROVE  Fencing' /\ RefForward
<1>1. p \in Procs
  BY DEF Procs
<1>2. QED
  BY <1>1, RpTargetType, RpReadFencing, RpCopyFencing, RpQuietFencing, CrashFencing
  DEF RepointNext

-----------------------------------------------------------------------------

(* A created or forked branch starts fenced.                                *)
LEMMA InitFencing == Init => Fencing
<1> SUFFICES ASSUME Init PROVE Fencing
  OBVIOUS
<1>1. Pending = {} /\ Uploads \subseteq {FirstObject}
  BY DEF Init, StoreInit, Created, Forked, ProcInit, Pending, Uploads
<1>2. Behind(FirstObject, ref) /\ ref.lineage = 1 /\ lineages = 1
  <2>1. ref = FirstRef("init", {}) \/ ref = FirstRef("fork", {[lineage |-> 0, txid |-> 1]})
    BY DEF Init, StoreInit, Created, Forked
  <2>2. ref.lineage = 1 /\ ref.epoch = 1 /\ ref.holder = NoHolder
    <3>1. \A n, b : LET r == FirstRef(n, b) IN
                    r.lineage = 1 /\ r.epoch = 1 /\ r.holder = NoHolder
      BY DEF FirstRef
    <3>2. QED
      BY <2>1, <3>1
  <2>3. FirstObject.lineage = 1 /\ FirstObject.epoch = 1
    BY DEF FirstObject
  <2>4. lineages = 1
    BY DEF Init, StoreInit
  <2>5. QED
    BY <2>2, <2>3, <2>4 DEF Behind
<1>3. \A c \in Checkpointers : pc[c] # "ckTake"
  BY ProcessAssumption DEF Init, ProcInit, Procs
<1>4. QED
  <2>1. OneWriter
    BY <1>1 DEF OneWriter
  <2>2. AheadOfAll
    BY SMT, <1>1, <1>2 DEF AheadOfAll
  <2>3. WritesForward /\ TakesOwn
    BY <1>1, <1>3 DEF WritesForward, TakesOwn
  <2>4. QED
    BY <2>1, <2>2, <2>3, FencingParts

(* Fencing is inductive, and every step moves the ref forward.              *)
LEMMA NextFencing == TypeOK /\ TypeOK' /\ Fencing /\ [Next]_vars => Fencing' /\ RefForward
<1> SUFFICES ASSUME TypeOK, TypeOK', Fencing, [Next]_vars PROVE Fencing' /\ RefForward
  OBVIOUS
<1>1. CASE Next
  BY <1>1, CheckpointFencing, SessionFencing, RepointFencing, EnvironmentFencing DEF Next
<1>2. CASE UNCHANGED vars
  <2>1. UNCHANGED <<ref, objs, committed, inflight, lineages, pc, write, plan>>
    BY <1>2 DEF vars, storeVars, procVars
  <2>2. Pending' = Pending /\ Exists' = Exists
    BY <2>1 DEF Pending, Exists
  <2>3. Uploads' = Uploads
    BY SMT, <2>1, <2>2 DEF Uploads
  <2>4. (OneWriter /\ AheadOfAll /\ WritesForward /\ TakesOwn)'
    BY <2>1, <2>2, <2>3, FencingParts DEF OneWriter, AheadOfAll, WritesForward, TakesOwn, Behind
  <2>5. Fencing'
    BY <2>4 DEF Fencing, OneWriter, AheadOfAll, WritesForward, TakesOwn
  <2>6. QED
    BY <2>1, <2>5, SameRefForward
<1>3. QED
  BY <1>1, <1>2

(* The fencing discipline holds in every state: of the objects stored,      *)
(* published or on their way, those of one lineage and epoch have one       *)
(* writer, none is ahead of the ref, and every conditional write on its way *)
(* moves the ref forward.                                                   *)
THEOREM FencingHolds == Spec => []Fencing
BY TypeCorrect, InitFencing, NextFencing, PTL DEF Spec

(* One writer per epoch: whatever checkpoint calls, sessions and repoints   *)
(* interleave, crash, lose their leases or have writes land late, the       *)
(* objects of a lineage under one epoch come from one lease holder.         *)
THEOREM OneWriter_PerEpoch == Spec => []OneWriterPerEpoch
<1>1. Fencing => OneWriterPerEpoch
  BY DEF Fencing, OneWriterPerEpoch, Uploads
<1>2. QED
  BY <1>1, FencingHolds, PTL

(* No step takes the ref back: not to an earlier lineage or epoch, and not  *)
(* from one holder to another within an epoch.                              *)
THEOREM RefMovesForward == Spec => FenceForward
<1>1. TypeOK /\ TypeOK' /\ Fencing /\ [Next]_vars
        => [Exists /\ ref' # Gone => Forward(ref, ref')]_vars
  <2> SUFFICES ASSUME TypeOK, TypeOK', Fencing, [Next]_vars, Exists, ref' # Gone
               PROVE  Forward(ref, ref')
    OBVIOUS
  <2>1. ref \in Ref
    BY DEF Exists, TypeOK, StoreTypeOK
  <2>2. RefForward
    BY NextFencing
  <2>3. Forward(ref, ref)
    BY <2>1 DEF Forward
  <2>4. QED
    BY <2>2, <2>3 DEF RefForward
<1>2. QED
  BY <1>1, TypeCorrect, FencingHolds, PTL DEF Spec, FenceForward

-----------------------------------------------------------------------------
(***************************************************************************)
(* For any number of writers, faults and bounds: a head write lands only   *)
(* under the lease its object was uploaded with (CommitsUnderLease).  The  *)
(* inductive invariant is PublishesOwn; since a write only applies to the  *)
(* ref it expects, what holds of the expected ref holds when it lands.     *)
(***************************************************************************)
\* The second conjunct of PublishesOwn, of one write.
Fenced(w) ==
  \A o \in w.commits :
    /\ Holds(w.expect, o.by, o.epoch)
    /\ o.lineage = w.expect.lineage
    /\ o.txid = w.expect.head + 1
    /\ o.by \in Checkpointers => w.expect.claims = {}

\* The step publishes nothing, or what a pending write on the current ref does.
Publishes ==
  \/ committed' = committed
  \/ \E w \in Pending : ref = w.expect /\ committed' = committed \cup w.commits

\* What every step of Branch is shown to do.
OwnStep == PublishesOwn' /\ Publishes

(* What a step may do to keep PublishesOwn.                                 *)
LEMMA OwnKept ==
  ASSUME TypeOK, PublishesOwn, NEW p, NEW W, NEW P,
         inflight' \subseteq Pending,
         write' = write \/ write' = [write EXCEPT ![p] = W],
         plan' = plan \/ plan' = [plan EXCEPT ![p] = P],
         \A o \in P : o.by = p,
         \A w \in W : Fenced(w)
  PROVE  PublishesOwn'
<1>1. write \in [Procs -> SUBSET RefWrite] /\ plan \in [Procs -> SUBSET Object]
  BY DEF TypeOK, ProcTypeOK
<1>2. \A w \in Pending : Fenced(w)
  BY DEF PublishesOwn, Fenced
<1>3. \A q \in Procs : \A w \in write'[q] : Fenced(w)
  <2>1. \A q \in Procs : \A w \in write[q] : Fenced(w)
    BY <1>2 DEF Pending
  <2>2. QED
    BY <1>1, <2>1
<1>4. \A w \in Pending' : Fenced(w)
  BY <1>2, <1>3 DEF Pending
<1>5. \A q \in Procs : \A o \in plan'[q] : o.by = q
  BY <1>1 DEF PublishesOwn
<1>6. QED
  BY <1>4, <1>5 DEF PublishesOwn, Fenced

(* A conditional write publishes only when it applies.                      *)
LEMMA PutPublishes ==
  ASSUME NEW w \in Pending, NEW verdict \in Verdicts, PutRef(w, verdict)
  PROVE  Publishes /\ inflight' \subseteq Pending
BY DEF PutRef, Apply, Publishes, Pending

(* A step that plans nothing and prepares nothing.                          *)
LEMMA OwnQuiet ==
  ASSUME TypeOK, PublishesOwn, NEW p, inflight' \subseteq Pending, Publishes,
         plan' = plan, write' = write \/ write' = [write EXCEPT ![p] = {}]
  PROVE  OwnStep
<1> DEFINE W == {}
           P == {}
<1>1. /\ \A o \in P : o.by = p
      /\ \A w \in W : Fenced(w)
      /\ write' = write \/ write' = [write EXCEPT ![p] = W]
      /\ plan' = plan \/ plan' = [plan EXCEPT ![p] = P]
  OBVIOUS
<1> HIDE DEF W, P
<1>2. QED
  BY <1>1, OwnKept DEF OwnStep

(* A step that prepares one write which publishes nothing, or is fenced.    *)
LEMMA OwnPrepared ==
  ASSUME TypeOK, PublishesOwn, NEW p, NEW w, Fenced(w), Prepare(p, {w}),
         UNCHANGED <<inflight, committed, plan>>
  PROVE  OwnStep
<1> DEFINE W == {w}
           P == {}
<1>1. /\ \A o \in P : o.by = p
      /\ \A v \in W : Fenced(v)
      /\ write' = [write EXCEPT ![p] = W]
      /\ plan' = plan \/ plan' = [plan EXCEPT ![p] = P]
  BY DEF Prepare
<1>2. inflight' \subseteq Pending /\ Publishes
  BY DEF Pending, Publishes
<1> HIDE DEF W, P
<1>3. QED
  BY <1>1, <1>2, OwnKept DEF OwnStep

(* A process given a plan of its own, and no write, publishes only its own. *)
LEMMA OwnLeased ==
  ASSUME TypeOK, PublishesOwn, NEW c \in Checkpointers, NEW r, Leased(c, r), Prepare(c, {}),
         inflight' \subseteq Pending, Publishes
  PROVE  OwnStep
<1>1. PICK kind \in Kinds : plan' = [plan EXCEPT ![c] = {CheckpointObject(r, c, kind)}]
  BY DEF Leased
<1> DEFINE W == {}
           P == {CheckpointObject(r, c, kind)}
<1>2. \A o \in P : o.by = c
  BY SMT DEF CheckpointObject
<1>3. /\ \A w \in W : Fenced(w)
      /\ write' = write \/ write' = [write EXCEPT ![c] = W]
      /\ plan' = plan \/ plan' = [plan EXCEPT ![c] = P]
  BY <1>1 DEF Prepare
<1> HIDE DEF W, P
<1>4. QED
  BY <1>2, <1>3, OwnKept DEF OwnStep

-----------------------------------------------------------------------------
(* The steps of a checkpoint call.                                          *)

(* The steps of a checkpoint that prepare no write publish nothing new.     *)
LEMMA CkQuietOwn ==
  ASSUME TypeOK, PublishesOwn, NEW c \in Checkpointers,
         \/ \E n \in UserNames : CkStart(c, n)
         \/ CkUpload(c) \/ CkJoin(c) \/ CkAdvance(c) \/ CkDelete(c) \/ CkRelease(c) \/ CkClear(c)
         \/ Renew(c, CheckpointRenewing) \/ Crash(c)
  PROVE  OwnStep
<1>1. c \in Procs /\ write[c] \subseteq Pending /\ inflight \subseteq Pending
  BY ProcessAssumption DEF Procs, Pending
<1>2. CASE CkAdvance(c)
  <2>1. Publishes /\ inflight' \subseteq Pending
    BY <1>1, <1>2, PutPublishes DEF CkAdvance
  <2>2. QED
    BY <1>2, <2>1, OwnQuiet DEF CkAdvance, Prepare
<1>3. CASE ~CkAdvance(c)
  <2>1. /\ UNCHANGED <<inflight, committed, plan>>
        /\ write' = write \/ write' = [write EXCEPT ![c] = {}]
    BY <1>3 DEF CkStart, CkUpload, CkJoin, CkDelete, CkRelease, CkClear, Renew, Crash,
                ReadFails, storeVars, Prepare
  <2>2. QED
    BY <1>1, <2>1, OwnQuiet DEF Publishes
<1>4. QED
  BY <1>2, <1>3

(* An acquire, prepared or sent, publishes no object.                       *)
LEMMA CkAcquireOwn ==
  ASSUME TypeOK, PublishesOwn, NEW c \in Checkpointers, CkAcquire(c)
  PROVE  OwnStep
<1>1. UNCHANGED <<inflight, committed, plan>>
  BY DEF CkAcquire, ReadFails, Refuse, RefuseLeased
<1>2. CASE Prepare(c, {})
  BY <1>1, <1>2, OwnQuiet DEF Prepare, Publishes, Pending
<1>3. CASE ~Prepare(c, {})
  <2> DEFINE w == [expect |-> ref, new |-> AcquireLease(ref, c, lapsed), commits |-> {}]
  <2>1. Prepare(c, {w})
    BY <1>3 DEF CkAcquire
  <2>2. Fenced(w)
    BY DEF Fenced
  <2> HIDE DEF w
  <2>3. QED
    BY <1>1, <2>1, <2>2, OwnPrepared
<1>4. QED
  BY <1>2, <1>3

(* Taking or adopting a lease, a checkpoint plans an object of its own.     *)
LEMMA CkLeasedOwn ==
  ASSUME TypeOK, PublishesOwn, NEW c \in Checkpointers, CkTake(c) \/ CkSettle(c)
  PROVE  OwnStep
<1>1. c \in Procs /\ write[c] \subseteq Pending /\ inflight \subseteq Pending
  BY ProcessAssumption DEF Procs, Pending
<1>2. Publishes /\ inflight' \subseteq Pending
  <2>1. CASE CkTake(c)
    BY <1>1, <2>1, PutPublishes DEF CkTake
  <2>2. CASE CkSettle(c)
    BY <1>1, <2>2 DEF CkSettle, ReadFails, Publishes
  <2>3. QED
    BY <2>1, <2>2
<1>3. CASE \E r : Leased(c, r) /\ Prepare(c, {})
  BY <1>2, <1>3, OwnLeased
<1>4. CASE ~\E r : Leased(c, r) /\ Prepare(c, {})
  <2>1. plan' = plan /\ (write' = write \/ write' = [write EXCEPT ![c] = {}])
    BY <1>4 DEF CkTake, CkSettle, Prepare, Refuse, RefuseLeased
  <2>2. QED
    BY <1>2, <2>1, OwnQuiet
<1>5. QED
  BY <1>3, <1>4

(* The premise of commitCheckpoint is what fences the write it prepares.    *)
LEMMA CkCommitOwn ==
  ASSUME TypeOK, PublishesOwn, NEW c \in Checkpointers, CkCommit(c)
  PROVE  OwnStep
<1>1. UNCHANGED <<inflight, committed, plan>> /\ c \in Procs
  BY ProcessAssumption DEF CkCommit, ReadFails, Procs
<1>2. PICK o \in plan[c] :
        \/ /\ Premise(ref, c, o)
           /\ Exists
           /\ Prepare(c, {[expect |-> ref, new |-> Advance(ref, names[c], o),
                           commits |-> {o}]})
        \/ write' = write
  BY DEF CkCommit
<1>3. CASE write' = write
  BY <1>1, <1>3, OwnQuiet DEF Publishes, Pending
<1>4. CASE write' # write
  <2> DEFINE w == [expect |-> ref, new |-> Advance(ref, names[c], o), commits |-> {o}]
  <2>1. Prepare(c, {w})
    BY <1>2, <1>4
  <2>2. Fenced(w)
    <3>1. o.by = c /\ o \in Object /\ ref \in Ref
      BY <1>1, <1>2, <1>4 DEF PublishesOwn, TypeOK, StoreTypeOK, ProcTypeOK, Exists
    <3>2. Holds(ref, c, o.epoch) /\ ref.lineage = o.lineage /\ ref.head + 1 = o.txid /\ ref.claims = {}
      BY <1>2, <1>4 DEF Premise, Ours
    <3>3. QED
      BY <3>1, <3>2 DEF Fenced
  <2> HIDE DEF w
  <2>3. QED
    BY <1>1, <2>1, <2>2, OwnPrepared
<1>5. QED
  BY <1>3, <1>4

-----------------------------------------------------------------------------
(* The steps of a session.                                                  *)

(* The steps of a session that prepare no write publish nothing new.        *)
LEMMA SsQuietOwn ==
  ASSUME TypeOK, PublishesOwn, NEW s \in Sessions,
         \/ SsTake(s) \/ SsSettle(s) \/ FlPut(s) \/ FlOverwrite(s) \/ FlAdvance(s)
         \/ FlClean(s) \/ FlDelete(s) \/ SsClose(s) \/ SsRelease(s)
         \/ Renew(s, SessionRenewing) \/ Crash(s)
  PROVE  OwnStep
<1>1. s \in Procs /\ write[s] \subseteq Pending /\ inflight \subseteq Pending
  BY ProcessAssumption DEF Procs, Pending
<1>2. plan' = plan /\ (write' = write \/ write' = [write EXCEPT ![s] = {}])
  BY DEF SsTake, SsSettle, FlPut, FlOverwrite, FlAdvance, FlClean, FlDelete, SsClose,
         SsRelease, Renew, Crash, FlushFails, Prepare
<1>3. CASE SsTake(s) \/ FlAdvance(s)
  BY <1>1, <1>2, <1>3, PutPublishes, OwnQuiet DEF SsTake, FlAdvance
<1>4. CASE ~(SsTake(s) \/ FlAdvance(s))
  <2>1. UNCHANGED <<inflight, committed>>
    BY <1>4 DEF SsSettle, FlPut, FlOverwrite, FlClean, FlDelete, SsClose, SsRelease, Renew,
                Crash, ReadFails, storeVars
  <2>2. QED
    BY <1>1, <1>2, <2>1, OwnQuiet DEF Publishes
<1>5. QED
  BY <1>3, <1>4

(* A session's acquire publishes no object.                                 *)
LEMMA SsAcquireOwn ==
  ASSUME TypeOK, PublishesOwn, NEW s \in Sessions, SsAcquire(s)
  PROVE  OwnStep
<1> DEFINE w == [expect |-> ref, new |-> AcquireLease(ref, s, lapsed), commits |-> {}]
<1>1. Prepare(s, {w}) /\ UNCHANGED <<inflight, committed, plan>>
  BY DEF SsAcquire, storeVars
<1>2. Fenced(w)
  BY DEF Fenced
<1> HIDE DEF w
<1>3. QED
  BY <1>1, <1>2, OwnPrepared

(* The fence at the start of a flush covers the write it prepares.          *)
LEMMA FlReadOwn ==
  ASSUME TypeOK, PublishesOwn, NEW s \in Sessions, FlRead(s)
  PROVE  OwnStep
<1>1. UNCHANGED <<inflight, committed>> /\ s \notin Checkpointers
  BY ProcessAssumption DEF FlRead, storeVars
<1>2. CASE ~Holds(ref, s, lease[s])
  BY <1>1, <1>2, OwnQuiet DEF FlRead, Publishes, Pending
<1>3. CASE Holds(ref, s, lease[s])
  <2>1. PICK ns \in {{}} \cup {{n} : n \in UserNames}, kind \in Kinds :
          LET o == FlushObject(ref, s, kind) IN
          /\ plan' = [plan EXCEPT ![s] = {o}]
          /\ Prepare(s, {[expect |-> ref, new |-> FlushAdvance(ref, ns, o),
                          commits |-> {o}]})
    BY <1>3 DEF FlRead
  <2> DEFINE o == FlushObject(ref, s, kind)
             w == [expect |-> ref, new |-> FlushAdvance(ref, ns, o), commits |-> {o}]
             W == {w}
             P == {o}
  <2>2. write' = [write EXCEPT ![s] = W] /\ plan' = [plan EXCEPT ![s] = P]
    BY <2>1 DEF Prepare
  <2>3. o.by = s /\ o.lineage = ref.lineage /\ o.epoch = lease[s] /\ o.txid = ref.head + 1
    BY DEF FlushObject
  <2> HIDE DEF o
  <2>4. Fenced(w)
    BY <1>1, <1>3, <2>3 DEF Fenced
  <2>5. (\A v \in W : Fenced(v)) /\ \A q \in P : q.by = s
    BY <2>3, <2>4
  <2>6. inflight' \subseteq Pending /\ Publishes
    BY <1>1 DEF Pending, Publishes
  <2> HIDE DEF W, P
  <2>7. QED
    BY <2>2, <2>5, <2>6, OwnKept DEF OwnStep
<1>4. QED
  BY <1>2, <1>3

(* A flush retries only on the lease its object names.                      *)
LEMMA FlRereadOwn ==
  ASSUME TypeOK, PublishesOwn, NEW s \in Sessions, FlReread(s)
  PROVE  OwnStep
<1>1. UNCHANGED <<inflight, committed, plan>> /\ s \in Procs /\ s \notin Checkpointers
  BY ProcessAssumption DEF FlReread, ReadFails, Procs
<1>2. PICK o \in plan[s] :
        \/ /\ Ours(ref, s, o)
           /\ Prepare(s, {[expect |-> ref, new |-> FlushAdvance(ref, names[s], o),
                           commits |-> {o}]})
        \/ write' = write
  BY DEF FlReread
<1>3. CASE write' = write
  BY <1>1, <1>3, OwnQuiet DEF Publishes, Pending
<1>4. CASE write' # write
  <2> DEFINE w == [expect |-> ref, new |-> FlushAdvance(ref, names[s], o), commits |-> {o}]
  <2>1. Prepare(s, {w})
    BY <1>2, <1>4
  <2>2. Fenced(w)
    <3>1. o.by = s
      BY <1>1, <1>2 DEF PublishesOwn
    <3>2. QED
      BY <1>1, <1>2, <1>4, <3>1 DEF Fenced, Ours
  <2> HIDE DEF w
  <2>3. QED
    BY <1>1, <2>1, <2>2, OwnPrepared
<1>5. QED
  BY <1>3, <1>4

-----------------------------------------------------------------------------
(* The steps of a repoint, which publish nothing, and of everyone else.     *)

(* A repoint publishes no object.                                           *)
LEMMA RepointOwn ==
  ASSUME TypeOK, PublishesOwn, NEW p \in Repointers, RepointNext(p)
  PROVE  OwnStep
<1>1. p \in Procs /\ write[p] \subseteq Pending /\ inflight \subseteq Pending
  BY DEF Procs, Pending
<1>2. CASE RpRollback(p) \/ RpPromote(p) \/ RpCompact(p)
  <2>0. PICK t, cps, base, label : RpRead(p, t, cps, base, label)
    BY <1>2 DEF RpRollback, RpPromote, RpCompact
  <2>1. PICK new : Prepare(p, {[expect |-> ref, commits |-> {}, new |-> new]})
    BY <2>0 DEF RpRead
  <2> DEFINE w == [expect |-> ref, commits |-> {}, new |-> new]
  <2>2. Fenced(w)
    BY DEF Fenced
  <2>3. Prepare(p, {w}) /\ UNCHANGED <<inflight, committed, plan>>
    BY <2>0, <2>1 DEF RpRead
  <2> HIDE DEF w
  <2>4. QED
    BY <2>2, <2>3, OwnPrepared
<1>3. CASE RpCopy(p)
  <2>1. PICK v \in write[p] :
          Prepare(p, {[v EXCEPT !.new = Copied(@)]})
    BY <1>3 DEF RpCopy
  <2>2. v \in Pending /\ v \in RefWrite
    BY <1>1, UploadsType
  <2> DEFINE w == [v EXCEPT !.new = Copied(@)]
  <2>3. w.expect = v.expect /\ w.commits = v.commits
    BY <2>2 DEF RefWrite
  <2>4. Prepare(p, {w}) /\ UNCHANGED <<inflight, committed, plan>>
    BY <1>3, <2>1 DEF RpCopy
  <2> HIDE DEF w
  <2>5. Fenced(w)
    BY SMT, <2>2, <2>3 DEF PublishesOwn, Fenced
  <2>6. QED
    BY <2>4, <2>5, OwnPrepared
<1>4. CASE RpWrite(p)
  <2>1. Publishes /\ inflight' \subseteq Pending
    BY <1>1, <1>4, PutPublishes DEF RpWrite
  <2>2. plan' = plan /\ (write' = write \/ write' = [write EXCEPT ![p] = {}])
    BY <1>4 DEF RpWrite, Prepare
  <2>3. QED
    BY <2>1, <2>2, OwnQuiet
<1>5. CASE RpBackup(p) \/ RpShare(p) \/ RpSettle(p) \/ RpCleanup(p) \/ Crash(p)
  <2>1. /\ UNCHANGED <<inflight, committed, plan>>
        /\ write' = write \/ write' = [write EXCEPT ![p] = {}]
    BY <1>5 DEF RpBackup, RpShare, RpSettle, RpCleanup, Crash, ReadFails, storeVars, Prepare
  <2>2. QED
    BY <1>1, <2>1, OwnQuiet DEF Publishes
<1>6. QED
  BY <1>2, <1>3, <1>4, <1>5 DEF RepointNext

(* A write landing late publishes only what it was sent with.               *)
LEMMA EnvironmentOwn ==
  ASSUME TypeOK, PublishesOwn, Environment, UNCHANGED procVars
  PROVE  OwnStep
<1>1. CASE Land
  BY <1>1, OwnQuiet DEF Land, Apply, procVars, Publishes, Pending
<1>2. CASE ~Land
  <2>1. UNCHANGED <<inflight, committed>>
    BY <1>2 DEF Environment, Expire, Touch, Prune, ReleaseByHolder, Claim, Unclaim,
                DeleteRef, Fork, Edit
  <2>2. QED
    BY <2>1, OwnQuiet DEF procVars, Publishes, Pending
<1>3. QED
  BY <1>1, <1>2

-----------------------------------------------------------------------------

(* No write is pending at first.                                            *)
LEMMA InitOwn == Init => PublishesOwn
<1> SUFFICES ASSUME Init PROVE PublishesOwn
  OBVIOUS
<1>1. Pending = {} /\ \A p \in Procs : plan[p] = {}
  BY DEF Init, StoreInit, ProcInit, Pending
<1>2. QED
  BY <1>1 DEF PublishesOwn

(* PublishesOwn is inductive, and each head write lands under its lease.    *)
LEMMA NextOwn == TypeOK /\ PublishesOwn /\ [Next]_vars => PublishesOwn' /\ Publishes
<1> SUFFICES ASSUME TypeOK, PublishesOwn, [Next]_vars PROVE OwnStep
  BY DEF OwnStep
<1>1. ASSUME NEW c \in Checkpointers, CheckpointNext(c) PROVE OwnStep
  BY <1>1, CkQuietOwn, CkAcquireOwn, CkLeasedOwn, CkCommitOwn DEF CheckpointNext
<1>2. ASSUME NEW s \in Sessions, SessionNext(s) PROVE OwnStep
  BY <1>2, SsQuietOwn, SsAcquireOwn, FlReadOwn, FlRereadOwn DEF SessionNext
<1>3. CASE UNCHANGED vars
  BY SMT, <1>3 DEF vars, storeVars, procVars, OwnStep, PublishesOwn, Publishes, Pending
<1>4. QED
  BY <1>1, <1>2, <1>3, RepointOwn, EnvironmentOwn DEF Next

(* Every writer plans only objects of its own, and every head write on its  *)
(* way expects the lease, lineage and head its object was made under.       *)
THEOREM PublishesOwnHolds == Spec => []PublishesOwn
BY TypeCorrect, InitOwn, NextOwn, PTL DEF Spec

(* A head write lands only while the ref carries the lease and epoch the    *)
(* object was uploaded under, one txid above the head, and for a checkpoint *)
(* only on a ref without a claim, even if it lands long after its caller    *)
(* gave up.                                                                 *)
THEOREM CommitsOnlyUnderLease == Spec => CommitsUnderLease
<1>1. TypeOK /\ PublishesOwn /\ [Next]_vars
        => [\A o \in committed' \ committed :
              /\ Holds(ref, o.by, o.epoch)
              /\ o.lineage = ref.lineage
              /\ o.txid = ref.head + 1
              /\ o.by \in Checkpointers => ref.claims = {}]_vars
  <2> SUFFICES ASSUME TypeOK, PublishesOwn, [Next]_vars, NEW o \in committed' \ committed
               PROVE  /\ Holds(ref, o.by, o.epoch)
                      /\ o.lineage = ref.lineage
                      /\ o.txid = ref.head + 1
                      /\ o.by \in Checkpointers => ref.claims = {}
    OBVIOUS
  <2>1. PICK w \in Pending : ref = w.expect /\ o \in w.commits
    BY NextOwn DEF Publishes
  <2>2. QED
    BY <2>1 DEF PublishesOwn
<1>2. QED
  BY <1>1, TypeCorrect, PublishesOwnHolds, PTL DEF Spec, CommitsUnderLease
-----------------------------------------------------------------------------
(* What a step does.                                                        *)

\* The checkpoints cps are at or below txid t.
Below(cps, t) == \A cp \in cps : cp.txid <= t

Within(r) == Below(r.cps, r.head)

\* The head is at or above every committed txid of the branch's lineage, and at
\* most one below any planned; the checkpoints are at or below the head.
HeadInv ==
  Exists =>
    /\ Within(ref)
    /\ \A o \in Uploads : o.lineage = ref.lineage => o.txid <= ref.head + 1
    /\ \A o \in committed : o.lineage = ref.lineage => o.txid <= ref.head

\* The ref is renewed, released or edited; the lease stays, or goes.
Edited ==
  /\ Exists
  /\ ref' \in Ref
  /\ ref'.lineage = ref.lineage /\ ref'.epoch = ref.epoch /\ ref'.head = ref.head
  /\ ref'.cps \subseteq ref.cps
  /\ \/ ref'.holder = NoHolder
     \/ ref'.holder = ref.holder /\ ref'.renewals = ref.renewals /\ lapsed' = lapsed
     \/ ref'.holder = ref.holder /\ ref'.renewals = ref.renewals + 1

\* Nothing is published and the ref is left alone, deleted or edited; or a
\* pending write lands.
RefMoves ==
  \/ /\ committed' = committed
     /\ \/ ref' = ref /\ (lapsed => lapsed')
        \/ ref' = Gone
        \/ Edited
  \/ \E w \in Pending : ref = w.expect /\ Apply(w)

Acquires(w) ==
  \E h \in Holders :
    /\ ~AcquireRefused(ref, h, lapsed)
    /\ w = [expect |-> ref, new |-> AcquireLease(ref, h, lapsed), commits |-> {}]

Publishing(p, w) ==
  p \in Holders /\ \E o \in plan'[p], ns \in SUBSET Names :
    /\ Ours(ref, p, o)
    /\ w.expect = ref /\ w.commits = {o}
    /\ w.new = FlushAdvance(ref, ns, o) \/ w.new = Advance(ref, ns, o)

Repointed(w) ==
  \E t, cps, base :
    /\ t \in Nat /\ Below(cps, t)
    /\ w = [expect |-> ref, commits |-> {}, new |-> Repoint(ref, lineages + 1, t, cps, base)]

Recopied(p, w) ==
  p \in Repointers /\ \E v \in write[p] : w = [v EXCEPT !.new = Copied(@)]

\* p prepares w, from the ref it reads or from the write it prepared before.
Made(p, w) ==
  \/ Exists /\ p \notin Repointers /\ (Acquires(w) \/ Publishing(p, w))
  \/ Exists /\ p \in Repointers /\ Repointed(w)
  \/ Recopied(p, w)

\* o is p's, made to follow the head.
Follows(p, o) ==
  o.by = p /\ ref' # Gone /\ o.lineage = ref'.lineage /\ o.txid = ref'.head + 1

\* A step of p that prepares the writes W and plans the objects P.
StepOf(p, W, P) ==
  /\ RefMoves
  /\ inflight' \subseteq Pending
  /\ write' = write \/ write' = [write EXCEPT ![p] = W]
  /\ W # {} => UNCHANGED <<ref, lapsed, committed>>
  /\ \A w \in W : Made(p, w)
  /\ plan' = plan \/ plan' = [plan EXCEPT ![p] = P]
  /\ \A o \in P : Follows(p, o)
  /\ objs' \subseteq Uploads

(* A step that prepares no write and plans nothing.                         *)
LEMMA QuietStep ==
  ASSUME NEW p, RefMoves, inflight' \subseteq Pending, objs' \subseteq Uploads,
         plan' = plan, write' = write \/ write' = [write EXCEPT ![p] = {}]
  PROVE  StepOf(p, {}, {})
BY DEF StepOf

(* A step that leaves the ref alone.                                        *)
LEMMA RestingMoves ==
  ASSUME UNCHANGED <<ref, lapsed, committed>>
  PROVE  RefMoves
BY DEF RefMoves

(* A step that prepares one write from what it read.                        *)
LEMMA PreparedStep ==
  ASSUME NEW p, NEW w, Prepare(p, {w}), Made(p, w),
         UNCHANGED <<ref, lapsed, committed, inflight, objs, plan>>
  PROVE  StepOf(p, {w}, {})
<1>1. RefMoves /\ inflight' \subseteq Pending /\ objs' \subseteq Uploads
  BY RestingMoves DEF Pending, Uploads
<1>2. \A v \in {w} : Made(p, v)
  OBVIOUS
<1>3. write' = [write EXCEPT ![p] = {w}]
  BY DEF Prepare
<1>4. QED
  BY <1>1, <1>2, <1>3 DEF StepOf

(* A conditional write moves the ref only by landing.                       *)
LEMMA PutMoves ==
  ASSUME NEW w \in Pending, NEW verdict \in Verdicts, PutRef(w, verdict)
  PROVE  RefMoves /\ inflight' \subseteq Pending
<1>1. inflight' \subseteq Pending
  BY PutPublishes
<1>2. CASE ref = w.expect /\ Apply(w)
  BY <1>1, <1>2 DEF RefMoves
<1>3. CASE UNCHANGED <<ref, lapsed, committed>>
  BY <1>1, <1>3, RestingMoves
<1>4. QED
  BY <1>2, <1>3 DEF PutRef

(* A renewal or a release edits the ref.                                    *)
LEMMA LeaseMoves ==
  ASSUME TypeOK, NEW h \in Holders, committed' = committed,
         RenewOk(h) \/ RenewLost(h) \/ ReleaseLease(h)
  PROVE  RefMoves
<1>1. CASE UNCHANGED <<ref, lapsed>>
  BY <1>1, RestingMoves
<1>2. CASE ~UNCHANGED <<ref, lapsed>>
  <2>1. Exists /\ (ref' = RenewLease(ref) \/ ref' = ClearLease(ref))
    BY <1>2 DEF RenewOk, RenewLost, ReleaseLease
  <2>2. ref \in Ref
    BY <2>1 DEF Exists, TypeOK, StoreTypeOK
  <2>3. ref' \in Ref
    BY <2>1, <2>2, LeaseOpsType
  <2>4. CASE ref' = RenewLease(ref)
    <3>1. Edited
      BY <2>1, <2>2, <2>3, <2>4 DEF Edited, RenewLease, Ref
    <3>2. QED
      BY <3>1 DEF RefMoves
  <2>5. CASE ref' = ClearLease(ref)
    <3>1. Edited
      BY <2>1, <2>2, <2>3, <2>5 DEF Edited, ClearLease, Ref
    <3>2. QED
      BY <3>1 DEF RefMoves
  <2>6. QED
    BY <2>1, <2>4, <2>5
<1>3. QED
  BY <1>1, <1>2

-----------------------------------------------------------------------------
(* The steps of a checkpoint call.                                          *)

(* The steps that neither prepare nor plan.                                 *)
LEMMA CkQuietStep ==
  ASSUME TypeOK, NEW c \in Checkpointers,
         \/ \E n \in UserNames : CkStart(c, n)
         \/ CkUpload(c) \/ CkJoin(c) \/ CkAdvance(c) \/ CkDelete(c) \/ CkRelease(c) \/ CkClear(c)
         \/ Renew(c, CheckpointRenewing) \/ Crash(c)
  PROVE  StepOf(c, {}, {})
<1>1. c \in Procs /\ c \in Holders /\ write[c] \subseteq Pending /\ inflight \subseteq Pending
  BY ProcessAssumption DEF Procs, Pending
<1>2. plan' = plan /\ (write' = write \/ write' = [write EXCEPT ![c] = {}])
  BY DEF CkStart, CkUpload, CkJoin, CkAdvance, CkDelete, CkRelease, CkClear, Renew, Crash, Prepare
<1>3. objs' \subseteq objs \cup plan[c]
  BY SMT DEF CkStart, CkUpload, CkJoin, CkAdvance, CkDelete, CkRelease, CkClear, Renew, Crash,
         BestEffortDelete, storeVars
<1>4. objs' \subseteq Uploads
  BY <1>1, <1>3 DEF Uploads
<1>5. CASE CkAdvance(c)
  BY <1>1, <1>2, <1>4, <1>5, PutMoves, QuietStep DEF CkAdvance
<1>6. CASE CkClear(c) \/ Renew(c, CheckpointRenewing)
  <2>1. RefMoves
    BY <1>1, <1>6, LeaseMoves DEF CkClear, Renew
  <2>2. inflight' \subseteq Pending
    BY <1>1, <1>6 DEF CkClear, Renew
  <2>3. QED
    BY <1>2, <1>4, <2>1, <2>2, QuietStep
<1>7. CASE ~(CkAdvance(c) \/ CkClear(c) \/ Renew(c, CheckpointRenewing))
  <2>1. UNCHANGED <<ref, lapsed, committed, inflight>>
    BY <1>7 DEF CkStart, CkUpload, CkJoin, CkDelete, CkRelease, Crash, ReadFails, storeVars
  <2>2. QED
    BY <1>1, <1>2, <1>4, <2>1, RestingMoves, QuietStep
<1>8. QED
  BY <1>5, <1>6, <1>7

(* A call is given the lease on the ref: it plans the object to follow the  *)
(* head.                                                                    *)
LEMMA LeasedStep ==
  ASSUME TypeOK, TypeOK', NEW c \in Checkpointers, ref' \in Ref, Leased(c, ref'), Prepare(c, {}),
         RefMoves, inflight' \subseteq Pending, objs' = objs
  PROVE  \E o : /\ StepOf(c, {}, {o}) /\ plan' = [plan EXCEPT ![c] = {o}]
                /\ Follows(c, o) /\ pc' = [pc EXCEPT ![c] = "ckUpload"]
<1>1. PICK kind \in Kinds : plan' = [plan EXCEPT ![c] = {CheckpointObject(ref', c, kind)}]
  BY DEF Leased
<1> DEFINE o == CheckpointObject(ref', c, kind)
<1>2. Follows(c, o)
  BY StoreAssumption DEF Follows, CheckpointObject
<1> HIDE DEF o
<1>3. plan' = [plan EXCEPT ![c] = {o}]
  BY <1>1 DEF o
<1>4. StepOf(c, {}, {o})
  BY <1>2, <1>3 DEF StepOf, Prepare, Uploads
<1>5. QED
  BY <1>2, <1>3, <1>4 DEF Leased, Goto

(* Acquiring: the read prepares an acquire, or nothing.                     *)
LEMMA CkAcquireStep ==
  ASSUME TypeOK, NEW c \in Checkpointers, CkAcquire(c)
  PROVE  (\E W : StepOf(c, W, {})) /\ plan' = plan
<1>1. UNCHANGED <<ref, lapsed, committed, inflight, objs, plan>> /\ c \in Holders /\ c \notin Repointers
  BY ProcessAssumption DEF CkAcquire, ReadFails, Refuse, RefuseLeased
<1>2. CASE Prepare(c, {})
  BY <1>1, <1>2, RestingMoves, QuietStep DEF Prepare, Pending, Uploads
<1>3. CASE ~Prepare(c, {})
  <2> DEFINE w == [expect |-> ref, new |-> AcquireLease(ref, c, lapsed), commits |-> {}]
  <2>1. Prepare(c, {w}) /\ Exists /\ ~AcquireRefused(ref, c, lapsed)
    BY <1>3 DEF CkAcquire
  <2>2. Made(c, w)
    BY <1>1, <2>1 DEF Made, Acquires
  <2> HIDE DEF w
  <2>3. QED
    BY <1>1, <2>1, <2>2, PreparedStep
<1>4. QED
  BY <1>2, <1>3

(* Taking or adopting the lease: the call plans its object, or nothing.     *)
LEMMA CkLeasedStep ==
  ASSUME TypeOK, TypeOK', NEW c \in Checkpointers, CkTake(c) \/ CkSettle(c)
  PROVE  \/ StepOf(c, {}, {}) /\ plan' = plan
         \/ \E o : /\ StepOf(c, {}, {o}) /\ plan' = [plan EXCEPT ![c] = {o}]
                   /\ Follows(c, o) /\ pc' = [pc EXCEPT ![c] = "ckUpload"]
<1>1. c \in Procs /\ write[c] \subseteq Pending /\ inflight \subseteq Pending
  BY ProcessAssumption DEF Procs, Pending
<1>2. objs' = objs /\ objs' \subseteq Uploads
  BY DEF CkTake, CkSettle, Uploads
<1>3. RefMoves /\ inflight' \subseteq Pending
  <2>1. CASE CkTake(c)
    BY <1>1, <2>1, PutMoves DEF CkTake
  <2>2. CASE CkSettle(c)
    BY <1>1, <2>2, RestingMoves DEF CkSettle, ReadFails
  <2>3. QED
    BY <2>1, <2>2
<1>4. CASE Leased(c, ref') /\ Prepare(c, {}) /\ ref' \in Ref
  BY <1>2, <1>3, <1>4, LeasedStep
<1>5. CASE plan' = plan /\ (write' = write \/ write' = [write EXCEPT ![c] = {}])
  BY <1>2, <1>3, <1>5, QuietStep
<1>6. CASE CkTake(c)
  <2>1. PICK w \in write[c], verdict \in Verdicts :
          /\ PutRef(w, verdict)
          /\ \/ verdict = "ok" /\ Leased(c, w.new) /\ Prepare(c, {})
             \/ UNCHANGED <<plan, write>>
    BY <1>6 DEF CkTake
  <2>2. verdict = "ok" => ref' = w.new
    BY <2>1 DEF PutRef, Apply
  <2>3. w.new \in Ref
    BY <1>1, WriteType DEF RefWrite
  <2>4. QED
    BY <1>4, <1>5, <2>1, <2>2, <2>3
<1>7. CASE CkSettle(c)
  <2>1. \/ Exists /\ ref' = ref /\ Leased(c, ref) /\ Prepare(c, {})
        \/ UNCHANGED plan /\ Prepare(c, {})
    BY <1>7 DEF CkSettle, Refuse, RefuseLeased
  <2>2. ref \in Ref \cup {Gone}
    BY DEF TypeOK, StoreTypeOK
  <2>3. QED
    BY <1>4, <1>5, <2>1, <2>2 DEF Exists, Prepare
<1>8. QED
  BY <1>6, <1>7

(* The commit's read prepares a head write on its premise, or nothing.      *)
LEMMA CkCommitStep ==
  ASSUME TypeOK, NEW c \in Checkpointers, CkCommit(c)
  PROVE  (\E W : StepOf(c, W, {})) /\ plan' = plan
<1>1. /\ UNCHANGED <<ref, lapsed, committed, inflight, objs, plan>>
      /\ c \in Procs /\ c \in Holders /\ c \notin Repointers
  BY ProcessAssumption DEF CkCommit, ReadFails, Procs
<1>2. PICK o \in plan[c] :
        \/ /\ Premise(ref, c, o) /\ Exists
           /\ Prepare(c, {[expect |-> ref, new |-> Advance(ref, names[c], o),
                           commits |-> {o}]})
        \/ write' = write
  BY DEF CkCommit
<1>3. CASE write' = write
  BY <1>1, <1>3, RestingMoves, QuietStep DEF Pending, Uploads
<1>4. CASE write' # write
  <2> DEFINE w == [expect |-> ref, new |-> Advance(ref, names[c], o), commits |-> {o}]
  <2>1. Prepare(c, {w})
    BY <1>2, <1>4
  <2>2. names[c] \in SUBSET Names
    BY <1>1 DEF TypeOK, ProcTypeOK
  <2>3. w.expect = ref /\ w.commits = {o} /\ w.new = Advance(ref, names[c], o)
    OBVIOUS
  <2> HIDE DEF w
  <2>4. Publishing(c, w)
    BY <1>1, <1>2, <1>4, <2>2, <2>3 DEF Publishing, Premise
  <2>5. Made(c, w)
    BY <1>1, <1>2, <1>4, <2>4 DEF Made
  <2>6. QED
    BY <1>1, <2>1, <2>5, PreparedStep
<1>5. QED
  BY <1>3, <1>4

-----------------------------------------------------------------------------
(* The steps of a session.                                                  *)

(* The steps of a session that neither prepare nor plan.                    *)
LEMMA SsQuietStep ==
  ASSUME TypeOK, NEW s \in Sessions,
         \/ SsTake(s) \/ SsSettle(s) \/ FlPut(s) \/ FlOverwrite(s) \/ FlAdvance(s)
         \/ FlClean(s) \/ FlDelete(s) \/ SsClose(s) \/ SsRelease(s)
         \/ Renew(s, SessionRenewing) \/ Crash(s)
  PROVE  StepOf(s, {}, {})
<1>1. s \in Procs /\ s \in Holders /\ write[s] \subseteq Pending /\ inflight \subseteq Pending
  BY ProcessAssumption DEF Procs, Pending
<1>2. plan' = plan /\ (write' = write \/ write' = [write EXCEPT ![s] = {}])
  BY DEF SsTake, SsSettle, FlPut, FlOverwrite, FlAdvance, FlClean, FlDelete, SsClose,
         SsRelease, Renew, Crash, FlushFails, Prepare
<1>3. objs' \subseteq objs \cup plan[s]
  BY DEF SsTake, SsSettle, FlPut, FlOverwrite, FlAdvance, FlClean, FlDelete, SsClose,
         SsRelease, Renew, Crash, BestEffortDelete, storeVars
<1>4. objs' \subseteq Uploads
  BY <1>1, <1>3 DEF Uploads
<1>5. CASE SsTake(s) \/ FlAdvance(s)
  BY <1>1, <1>2, <1>4, <1>5, PutMoves, QuietStep DEF SsTake, FlAdvance
<1>6. CASE SsRelease(s) \/ Renew(s, SessionRenewing)
  <2>1. RefMoves
    BY <1>1, <1>6, LeaseMoves DEF SsRelease, Renew
  <2>2. inflight' \subseteq Pending
    BY <1>1, <1>6 DEF SsRelease, Renew
  <2>3. QED
    BY <1>2, <1>4, <2>1, <2>2, QuietStep
<1>7. CASE ~(SsTake(s) \/ FlAdvance(s) \/ SsRelease(s) \/ Renew(s, SessionRenewing))
  <2>1. UNCHANGED <<ref, lapsed, committed, inflight>>
    BY <1>7 DEF SsSettle, FlPut, FlOverwrite, FlClean, FlDelete, SsClose, Crash, ReadFails,
                storeVars
  <2>2. QED
    BY <1>1, <1>2, <1>4, <2>1, RestingMoves, QuietStep
<1>8. QED
  BY <1>5, <1>6, <1>7

(* A session's acquire, a flush's read and its re-read prepare one write.   *)
LEMMA SsPrepareStep ==
  ASSUME TypeOK, NEW s \in Sessions, SsAcquire(s) \/ FlRead(s) \/ FlReread(s)
  PROVE  \E W, P : StepOf(s, W, P)
<1>1. /\ s \in Procs /\ s \in Holders /\ s \notin Repointers
      /\ UNCHANGED <<ref, lapsed, committed, inflight, objs>>
  BY ProcessAssumption DEF Procs, SsAcquire, FlRead, FlReread, ReadFails, storeVars
<1>2. RefMoves /\ inflight' \subseteq Pending /\ objs' \subseteq Uploads
  BY <1>1, RestingMoves DEF Pending, Uploads
<1>3. CASE SsAcquire(s)
  <2> DEFINE w == [expect |-> ref, new |-> AcquireLease(ref, s, lapsed), commits |-> {}]
  <2>1. Prepare(s, {w}) /\ Exists /\ ~AcquireRefused(ref, s, lapsed) /\ plan' = plan
    BY <1>3 DEF SsAcquire
  <2>2. Made(s, w)
    BY <1>1, <2>1 DEF Made, Acquires
  <2> HIDE DEF w
  <2>3. StepOf(s, {w}, {})
    BY <1>1, <2>1, <2>2, PreparedStep
  <2>4. QED
    BY <2>3
<1>4. CASE FlRead(s) /\ ~Holds(ref, s, lease[s])
  <2>1. UNCHANGED <<write, plan>>
    BY <1>4 DEF FlRead
  <2>2. QED
    BY <1>2, <2>1, QuietStep
<1>5. CASE FlRead(s) /\ Holds(ref, s, lease[s])
  <2>1. PICK ns \in {{}} \cup {{n} : n \in UserNames}, kind \in Kinds :
          LET o == FlushObject(ref, s, kind) IN
          /\ plan' = [plan EXCEPT ![s] = {o}]
          /\ Prepare(s, {[expect |-> ref, new |-> FlushAdvance(ref, ns, o),
                          commits |-> {o}]})
    BY <1>5 DEF FlRead
  <2> DEFINE o == FlushObject(ref, s, kind)
             w == [expect |-> ref, new |-> FlushAdvance(ref, ns, o), commits |-> {o}]
  <2>2. write' = [write EXCEPT ![s] = {w}] /\ plan' = [plan EXCEPT ![s] = {o}]
    BY <2>1 DEF Prepare
  <2>3. o.by = s /\ o.lineage = ref.lineage /\ o.epoch = lease[s] /\ o.txid = ref.head + 1
    BY DEF FlushObject
  <2> HIDE DEF o
  <2>4. w.expect = ref /\ w.commits = {o} /\ w.new = FlushAdvance(ref, ns, o)
    OBVIOUS
  <2> HIDE DEF w
  <2>5. Exists /\ ns \in SUBSET Names
    BY SMT, <1>5 DEF FlRead, Names
  <2>6. plan \in [Procs -> SUBSET Object]
    BY DEF TypeOK, ProcTypeOK
  <2>7. o \in plan'[s]
    BY <1>1, <2>2, <2>6
  <2>8. Ours(ref, s, o)
    BY <1>5, <2>3 DEF Ours
  <2>9. Publishing(s, w)
    BY <1>1, <2>4, <2>5, <2>7, <2>8 DEF Publishing
  <2>10. Made(s, w)
    BY <1>1, <2>5, <2>9 DEF Made
  <2>11. Follows(s, o)
    BY <1>1, <2>3, <2>5 DEF Follows, Exists
  <2>12. StepOf(s, {w}, {o})
    BY <1>1, <1>2, <2>2, <2>10, <2>11 DEF StepOf
  <2>13. QED
    BY <2>12
<1>6. CASE FlReread(s) /\ write' = write
  <2>1. plan' = plan
    BY <1>6 DEF FlReread
  <2>2. QED
    BY <1>2, <1>6, <2>1, QuietStep
<1>7. CASE FlReread(s) /\ write' # write
  <2>1. PICK o \in plan[s] :
          /\ Exists /\ Ours(ref, s, o)
          /\ Prepare(s, {[expect |-> ref, new |-> FlushAdvance(ref, names[s], o),
                          commits |-> {o}]})
    BY <1>7 DEF FlReread
  <2> DEFINE w == [expect |-> ref, new |-> FlushAdvance(ref, names[s], o), commits |-> {o}]
  <2>2. Prepare(s, {w}) /\ plan' = plan
    BY <1>7, <2>1 DEF FlReread
  <2>3. w.expect = ref /\ w.commits = {o} /\ w.new = FlushAdvance(ref, names[s], o)
    OBVIOUS
  <2> HIDE DEF w
  <2>4. names[s] \in SUBSET Names
    BY <1>1 DEF TypeOK, ProcTypeOK
  <2>5. Publishing(s, w)
    BY <1>1, <2>1, <2>2, <2>3, <2>4 DEF Publishing
  <2>6. Made(s, w)
    BY <1>1, <2>1, <2>5 DEF Made
  <2>7. StepOf(s, {w}, {})
    BY <1>1, <2>2, <2>6, PreparedStep
  <2>8. QED
    BY <2>7
<1>8. QED
  BY <1>3, <1>4, <1>5, <1>6, <1>7

(* What a session reports as committed has just landed.                     *)
LEMMA SsAcks ==
  ASSUME NEW s \in Sessions, SessionNext(s), acked \subseteq committed
  PROVE  acked' \subseteq committed'
<1>1. CASE FlAdvance(s)
  <2>1. PICK w \in write[s], verdict \in Verdicts :
          /\ PutRef(w, verdict)
          /\ acked' = acked \/ (verdict = "ok" /\ acked' = acked \cup w.commits)
    BY <1>1 DEF FlAdvance
  <2>2. committed \subseteq committed'
    BY <2>1 DEF PutRef, Apply
  <2>3. verdict = "ok" => committed' = committed \cup w.commits
    BY <2>1 DEF PutRef, Apply
  <2>4. QED
    BY <2>1, <2>2, <2>3
<1>2. CASE ~FlAdvance(s)
  <2>1. acked' = acked
    BY <1>2 DEF SessionNext, SsAcquire, SsTake, SsSettle, FlRead, FlPut, FlOverwrite, FlReread,
                FlClean, FlDelete, SsClose, SsRelease, Renew, Crash
  <2>2. committed \subseteq committed'
    BY <1>2 DEF SessionNext, SsAcquire, SsTake, SsSettle, FlRead, FlPut, FlOverwrite, FlReread,
                FlClean, FlDelete, SsClose, SsRelease, Renew, Crash, PutRef, Apply, ReadFails,
                storeVars
  <2>3. QED
    BY <2>1, <2>2
<1>3. QED
  BY <1>1, <1>2

-----------------------------------------------------------------------------
(* The steps of a repoint, and of everyone else.                            *)

(* A repoint's read prepares the write to a fresh lineage.                  *)
LEMMA RpReadStep ==
  ASSUME NEW p \in Repointers, NEW t, NEW cps, NEW base, NEW label, Exists,
         t \in Nat, Below(cps, t), RpRead(p, t, cps, base, label)
  PROVE  \E w : StepOf(p, {w}, {})
<1> DEFINE w == [expect |-> ref, commits |-> {},
                 new |-> Repoint(ref, lineages + 1, t, cps, base)]
<1>1. Prepare(p, {w}) /\ UNCHANGED <<ref, lapsed, committed, inflight, objs, plan>>
  BY DEF RpRead
<1>2. Repointed(w)
  BY DEF Repointed
<1> HIDE DEF w
<1>3. Made(p, w)
  BY <1>2 DEF Made
<1>4. StepOf(p, {w}, {})
  BY <1>1, <1>3, PreparedStep
<1>5. QED
  BY <1>4

(* A repoint keeps the checkpoints at or below the txid it moves to.        *)
LEMMA RpReadBelow ==
  ASSUME TypeOK, HeadInv, NEW p \in Repointers, RpRollback(p) \/ RpPromote(p) \/ RpCompact(p)
  PROVE  Exists /\ \E t, cps, base, label :
                     t \in Nat /\ Below(cps, t) /\ RpRead(p, t, cps, base, label)
<1>1. Exists /\ ref \in Ref
  BY DEF RpRollback, RpPromote, RpCompact, Exists, TypeOK, StoreTypeOK
<1>2. CASE RpRollback(p)
  <2>1. PICK cp \in ref.cps, l \in 0 .. ref.lineage :
          RpRead(p, cp.txid, {k \in ref.cps : k.txid <= cp.txid},
                 {[lineage |-> l, txid |-> cp.txid]}, "rpBackup")
    BY <1>2 DEF RpRollback
  <2>2. cp.txid \in Nat /\ Below({k \in ref.cps : k.txid <= cp.txid}, cp.txid)
    BY <1>1, <2>1 DEF Ref, Checkpoint, Below
  <2>3. QED
    BY <1>1, <2>1, <2>2
<1>3. CASE RpPromote(p)
  <2>1. PICK b \in PromoteSources :
          RpRead(p, b.txid, {[name |-> "promote", txid |-> b.txid, epoch |-> 1]}, {b}, "rpBackup")
    BY <1>3 DEF RpPromote
  <2>2. b.txid \in Nat
    <3>1. pins \subseteq Pin
      BY DEF TypeOK, StoreTypeOK
    <3>2. CASE \E q \in pins : b = [lineage |-> q.lineage, txid |-> q.txid]
      BY SMT, <3>1, <3>2 DEF Pin
    <3>3. CASE \E t \in OtherHeads : b = [lineage |-> 0, txid |-> t]
      BY SMT, <3>3, RepointAssumption
    <3>4. QED
      BY <2>1, <3>2, <3>3 DEF PromoteSources
  <2>3. Below({[name |-> "promote", txid |-> b.txid, epoch |-> 1]}, b.txid)
    BY SMT, <2>2 DEF Below
  <2>4. QED
    BY <1>1, <2>1, <2>2, <2>3
<1>4. CASE RpCompact(p)
  <2> DEFINE cps == ref.cps \cup {cp \in {[name |-> "compact", txid |-> ref.head, epoch |-> 1]} :
                                    ~HasCheckpoint(ref, "compact")}
  <2>1. RpRead(p, ref.head, cps, {}, "rpBase")
    BY <1>4 DEF RpCompact
  <2>2. ref.head \in Nat /\ Below(cps, ref.head)
    BY SMT, <1>1 DEF HeadInv, Within, Below, Ref
  <2> HIDE DEF cps
  <2>3. QED
    BY <1>1, <2>1, <2>2
<1>5. QED
  BY <1>2, <1>3, <1>4

(* A repoint prepares one write to a fresh lineage.                         *)
LEMMA RepointStep ==
  ASSUME TypeOK, HeadInv, NEW p \in Repointers, RepointNext(p)
  PROVE  (\E W : StepOf(p, W, {})) /\ UNCHANGED <<plan, acked, denied>>
<1>1. p \in Procs /\ write[p] \subseteq Pending /\ inflight \subseteq Pending
  BY DEF Procs, Pending
<1>2. UNCHANGED <<objs, plan, acked, denied>> /\ objs' \subseteq Uploads
  BY DEF RepointNext, RpRollback, RpPromote, RpCompact, RpRead, RpBackup, RpShare, RpCopy,
         RpWrite, RpSettle, RpCleanup, Crash, storeVars, Uploads
<1>3. CASE RpRollback(p) \/ RpPromote(p) \/ RpCompact(p)
  <2>1. Exists /\ \E t, cps, base, label :
                    t \in Nat /\ Below(cps, t) /\ RpRead(p, t, cps, base, label)
    BY <1>3, RpReadBelow
  <2>2. PICK t, cps, base, label : t \in Nat /\ Below(cps, t) /\ RpRead(p, t, cps, base, label)
    BY <2>1
  <2>3. \E w : StepOf(p, {w}, {})
    BY <2>1, <2>2, RpReadStep
  <2>4. QED
    BY <1>2, <2>3
<1>4. CASE RpCopy(p)
  <2>1. PICK v \in write[p] : Prepare(p, {[v EXCEPT !.new = Copied(@)]})
    BY <1>4 DEF RpCopy
  <2> DEFINE w == [v EXCEPT !.new = Copied(@)]
  <2>2. Made(p, w)
    BY <2>1 DEF Made, Recopied
  <2>3. Prepare(p, {w}) /\ UNCHANGED <<ref, lapsed, committed, inflight>>
    BY <1>4, <2>1 DEF RpCopy
  <2> HIDE DEF w
  <2>4. QED
    BY <1>2, <2>2, <2>3, PreparedStep
<1>5. CASE RpWrite(p)
  <2>1. RefMoves /\ inflight' \subseteq Pending
    BY <1>1, <1>5, PutMoves DEF RpWrite
  <2>2. write' = write \/ write' = [write EXCEPT ![p] = {}]
    BY <1>5 DEF RpWrite, Prepare
  <2>3. QED
    BY <1>2, <2>1, <2>2, QuietStep
<1>6. CASE RpBackup(p) \/ RpShare(p) \/ RpSettle(p) \/ RpCleanup(p) \/ Crash(p)
  <2>1. /\ UNCHANGED <<ref, lapsed, committed, inflight>>
        /\ write' = write \/ write' = [write EXCEPT ![p] = {}]
    BY <1>6 DEF RpBackup, RpShare, RpSettle, RpCleanup, Crash, ReadFails, storeVars, Prepare
  <2>2. QED
    BY <1>1, <1>2, <2>1, RestingMoves, QuietStep
<1>7. QED
  BY <1>2, <1>3, <1>4, <1>5, <1>6 DEF RepointNext

(* Other parties edit or delete the ref, or a write lands late.             *)
LEMMA EnvironmentStep ==
  ASSUME TypeOK, Environment, UNCHANGED procVars
  PROVE  StepOf("environment", {}, {})
<1>1. UNCHANGED <<objs, plan, write>> /\ objs' \subseteq Uploads
  BY DEF Environment, Land, Expire, Touch, Prune, ReleaseByHolder, Claim, Unclaim,
         DeleteRef, Fork, Edit, procVars, Uploads
<1>2. RefMoves /\ inflight' \subseteq Pending
  <2>1. CASE Land
    BY <2>1 DEF Land, RefMoves, Pending
  <2>2. CASE Expire \/ Fork
    BY SMT, <2>2 DEF Expire, Fork, RefMoves, Pending
  <2>3. CASE DeleteRef
    BY <2>3 DEF DeleteRef, Edit, RefMoves, Pending
  <2>4. ASSUME NEW new, Edit(new), Exists, new \in Ref,
               new.lineage = ref.lineage, new.epoch = ref.epoch, new.head = ref.head,
               new.cps \subseteq ref.cps,
               new.holder = NoHolder \/ (new.holder = ref.holder /\ new.renewals = ref.renewals)
        PROVE  RefMoves /\ inflight' \subseteq Pending
    <3>1. lapsed \in BOOLEAN /\ new # Gone
      BY <2>4, StoreAssumption DEF TypeOK, StoreTypeOK
    <3>2. Edited
      BY <2>4, <3>1 DEF Edit, Edited
    <3>3. QED
      BY <2>4, <3>2 DEF Edit, RefMoves, Pending
  <2>5. CASE ~(Land \/ Expire \/ Fork \/ DeleteRef)
    <3>1. Exists /\ ref \in Ref
      BY <2>5 DEF Environment, Touch, Prune, ReleaseByHolder, Claim, Unclaim, Exists,
                  TypeOK, StoreTypeOK
    <3>2. CASE Touch
      BY SMT, <2>4, <3>1, <3>2 DEF Touch, Ref
    <3>3. CASE ReleaseByHolder
      <4>1. ClearLease(ref) \in Ref
        BY <3>1, LeaseOpsType
      <4> DEFINE new == ClearLease(ref)
      <4>2. /\ Edit(new) /\ new \in Ref /\ new.cps \subseteq ref.cps
            /\ new.lineage = ref.lineage /\ new.epoch = ref.epoch /\ new.head = ref.head
            /\ new.holder = NoHolder
        BY <3>1, <3>3, <4>1 DEF ReleaseByHolder, ClearLease, Ref
      <4> HIDE DEF new
      <4>3. QED
        BY <2>4, <3>1, <4>2
    <3>4. ASSUME NEW n \in Names, Prune(n) PROVE RefMoves /\ inflight' \subseteq Pending
      <4> DEFINE new == [ref EXCEPT !.cps = {cp \in @ : cp.name # n}]
      <4>1. Edit(new)
        BY <3>4 DEF Prune
      <4>2. /\ new \in Ref /\ new.cps \subseteq ref.cps
            /\ new.lineage = ref.lineage /\ new.epoch = ref.epoch /\ new.head = ref.head
            /\ new.holder = ref.holder /\ new.renewals = ref.renewals
        BY <3>1 DEF Ref
      <4> HIDE DEF new
      <4>3. QED
        BY <2>4, <3>1, <4>1, <4>2
    <3>5. ASSUME NEW k \in Claims, Claim(k) \/ Unclaim(k)
          PROVE  RefMoves /\ inflight' \subseteq Pending
      <4>1. PICK cs \in SUBSET Claims : Edit([ref EXCEPT !.claims = cs])
        <5>1. ref.claims \cup {k} \in SUBSET Claims /\ ref.claims \ {k} \in SUBSET Claims
          BY <3>1, <3>5 DEF Ref
        <5>2. QED
          BY <3>5, <5>1 DEF Claim, Unclaim
      <4> DEFINE new == [ref EXCEPT !.claims = cs]
      <4>2. /\ new \in Ref /\ new.cps \subseteq ref.cps
            /\ new.lineage = ref.lineage /\ new.epoch = ref.epoch /\ new.head = ref.head
            /\ new.holder = ref.holder /\ new.renewals = ref.renewals
        BY <3>1 DEF Ref
      <4>3. Edit(new)
        BY <4>1
      <4> HIDE DEF new
      <4>4. QED
        BY <2>4, <3>1, <4>2, <4>3
    <3>6. QED
      BY <2>5, <3>2, <3>3, <3>4, <3>5 DEF Environment
  <2>6. QED
    BY <2>1, <2>2, <2>3, <2>5
<1>3. QED
  BY <1>1, <1>2, QuietStep

(* Every step of the branch is of this description.                         *)
LEMMA NextStep ==
  ASSUME TypeOK, TypeOK', HeadInv, [Next]_vars
  PROVE  \E p, W, P : StepOf(p, W, P)
<1>1. ASSUME NEW c \in Checkpointers, CheckpointNext(c) PROVE \E W, P : StepOf(c, W, P)
  <2>1. CASE CkAcquire(c)
    BY <2>1, CkAcquireStep
  <2>2. CASE CkTake(c) \/ CkSettle(c)
    BY <2>2, CkLeasedStep
  <2>3. CASE CkCommit(c)
    BY <2>3, CkCommitStep
  <2>4. CASE ~(CkAcquire(c) \/ CkTake(c) \/ CkSettle(c) \/ CkCommit(c))
    <3>1. StepOf(c, {}, {})
      BY <1>1, <2>4, CkQuietStep DEF CheckpointNext
    <3>2. QED
      BY <3>1
  <2>5. QED
    BY <2>1, <2>2, <2>3, <2>4
<1>2. ASSUME NEW s \in Sessions, SessionNext(s) PROVE \E W, P : StepOf(s, W, P)
  <2>1. CASE SsAcquire(s) \/ FlRead(s) \/ FlReread(s)
    BY <2>1, SsPrepareStep
  <2>2. CASE ~(SsAcquire(s) \/ FlRead(s) \/ FlReread(s))
    <3>1. StepOf(s, {}, {})
      BY <1>2, <2>2, SsQuietStep DEF SessionNext
    <3>2. QED
      BY <3>1
  <2>3. QED
    BY <2>1, <2>2
<1>3. CASE UNCHANGED vars
  <2>1. StepOf("stutter", {}, {})
    <3>1. UNCHANGED <<ref, lapsed, committed, inflight, objs, plan, write>>
      BY <1>3 DEF vars, storeVars, procVars
    <3>2. QED
      BY <3>1, RestingMoves, QuietStep DEF Pending, Uploads
  <2>2. QED
    BY <2>1
<1>4. ASSUME NEW p \in Repointers, RepointNext(p) PROVE \E W, P : StepOf(p, W, P)
  BY <1>4, RepointStep
<1>5. CASE Environment /\ UNCHANGED procVars
  <2>1. StepOf("environment", {}, {})
    BY <1>5, EnvironmentStep
  <2>2. QED
    BY <2>1
<1>6. QED
  BY <1>1, <1>2, <1>3, <1>4, <1>5 DEF Next

(* The writes on their way after a step.                                    *)
LEMMA PendingStep ==
  ASSUME TypeOK, NEW p, NEW W, NEW P, StepOf(p, W, P)
  PROVE  /\ Pending' \subseteq Pending \cup W
         /\ W # {} => UNCHANGED <<ref, lapsed, committed>>
         /\ \A q \in Procs : write'[q] \subseteq write[q] \cup W
<1>1. write \in [Procs -> SUBSET RefWrite]
  BY DEF TypeOK, ProcTypeOK
<1>2. \A q \in Procs : write'[q] \subseteq write[q] \cup W
  BY <1>1 DEF StepOf
<1>3. Pending' \subseteq Pending \cup W
  BY SMT, <1>2 DEF StepOf, Pending
<1>4. QED
  BY <1>2, <1>3 DEF StepOf

-----------------------------------------------------------------------------
(* The branch's lineage has its start, if no write lands late.              *)

\* Where lineage l starts, as its base pointer says.
Bases(l) == {[lineage |-> q.lineage, txid |-> q.txid] : q \in {q \in pins : q.child = l}}

Rooted(r) == r.lineage \in born /\ r.base = Bases(r.lineage)

SameRoot(r, n) == n.lineage = r.lineage /\ n.base = r.base

\* The lineage p repoints to is p's own: the ref is not on it before p's write
\* is made nor when it is cleaned up, and its start is stored when the write is
\* made.
MoveOf(p) ==
  /\ \A v, w \in write[p] : v = w
  /\ \A w \in write[p] :
       /\ w.new.lineage # 0 /\ w.new.lineage <= lineages /\ w.new.lineage > w.expect.lineage
       /\ \A b, c \in w.new.base : b = c
       /\ pc[p] # "rpSettle" /\ Exists => ref.lineage # w.new.lineage
       /\ pc[p] \in {"rpBackup", "rpBase"} => \A q \in pins : q.child # w.new.lineage
       /\ pc[p] = "rpWrite" => Rooted(w.new)

OwnLineages ==
  \A p, q \in Repointers : \A v \in write[p], w \in write[q] :
    v.new.lineage = w.new.lineage => p = q

RootInv ==
  /\ inflight = {}
  /\ Exists => Rooted(ref) /\ ref.lineage # 0
  /\ \A q \in pins : q.child <= lineages
  /\ \A h \in Holders : \A w \in write[h] : SameRoot(w.expect, w.new)
  /\ \A p \in Repointers : MoveOf(p)
  /\ OwnLineages

(* A base pointer of another lineage leaves where l starts.                 *)
LEMMA BasesKept ==
  ASSUME NEW l, \A q \in pins : q.child = l => q \in pins', \A q \in pins' : q.child = l => q \in pins
  PROVE  Bases(l)' = Bases(l)
<1>1. {q \in pins' : q.child = l} = {q \in pins : q.child = l}
  OBVIOUS
<1>2. QED
  BY <1>1 DEF Bases

\* A step that is no repoint's: the ref keeps its start, and the base pointers
\* it stores are those of forks.
Aside ==
  /\ inflight' = {}
  /\ UNCHANGED <<lineages, born>>
  /\ pins \subseteq pins' /\ \A q \in pins' : q \in pins \/ q.child = 0
  /\ \A p \in Repointers : pc'[p] = pc[p] /\ write'[p] = write[p]
  /\ ref' = Gone \/ ref' = ref \/ (Exists /\ SameRoot(ref, ref'))
  /\ \A h \in Holders : \A w \in write'[h] : w \in write[h] \/ SameRoot(w.expect, w.new)

LEMMA AsideKeeps ==
  ASSUME TypeOK, RootInv, Aside
  PROVE  RootInv'
<1>1. ASSUME NEW l, l # 0 PROVE Bases(l)' = Bases(l)
  BY <1>1, BasesKept DEF Aside
<1>2. Exists' => Rooted(ref)' /\ ref'.lineage # 0
  <2>1. CASE ref' = ref
    BY <1>1, <2>1 DEF Aside, RootInv, Rooted, Exists
  <2>2. CASE Exists /\ SameRoot(ref, ref')
    <3>1. PICK l : l = ref.lineage /\ l # 0 /\ l \in born /\ ref.base = Bases(l)
      BY <2>2 DEF RootInv, Rooted
    <3>2. ref'.lineage = l /\ l \in born' /\ ref'.base = Bases(l) /\ Bases(l)' = Bases(l)
      BY <1>1, <2>2, <3>1 DEF SameRoot, Aside
    <3>3. QED
      BY <3>1, <3>2 DEF Rooted
  <2>3. QED
    BY <2>1, <2>2 DEF Aside, Exists
<1>3. \A q \in pins' : q.child <= lineages'
  <2>1. lineages \in Nat
    BY DEF TypeOK, StoreTypeOK
  <2>2. 0 <= lineages
    BY SMT, <2>1
  <2>3. QED
    BY <2>2 DEF Aside, RootInv
<1>4. ASSUME NEW p \in Repointers PROVE MoveOf(p)'
  <2>1. MoveOf(p) /\ pc'[p] = pc[p] /\ write'[p] = write[p] /\ lineages' = lineages
    BY DEF RootInv, Aside
  <2>2. ASSUME NEW w \in write[p], pc[p] # "rpSettle", Exists' PROVE ref'.lineage # w.new.lineage
    BY <2>1, <2>2 DEF MoveOf, Aside, SameRoot, Exists
  <2>3. ASSUME NEW w \in write[p], pc[p] = "rpWrite" PROVE Rooted(w.new)'
    <3>1. Rooted(w.new) /\ w.new.lineage # 0
      BY <2>1, <2>3 DEF MoveOf
    <3>2. Bases(w.new.lineage)' = Bases(w.new.lineage)
      BY <1>1, <3>1
    <3>3. QED
      BY <3>1, <3>2 DEF Rooted, Aside
  <2>4. ASSUME NEW w \in write[p], pc[p] \in {"rpBackup", "rpBase"}, NEW q \in pins'
        PROVE  q.child # w.new.lineage
    BY <2>1, <2>4 DEF MoveOf, Aside
  <2>5. QED
    BY <2>1, <2>2, <2>3, <2>4 DEF MoveOf
<1>5. OwnLineages'
  BY DEF RootInv, OwnLineages, Aside
<1>6. QED
  BY <1>2, <1>3, <1>4, <1>5 DEF RootInv, Aside

(* What the functions of a ref leave.                                       *)
LEMMA RootKept ==
  ASSUME NEW r \in Ref, NEW h, NEW b, NEW ns, NEW o
  PROVE  /\ SameRoot(r, AcquireLease(r, h, b)) /\ SameRoot(r, RenewLease(r))
         /\ SameRoot(r, ClearLease(r)) /\ SameRoot(r, FlushAdvance(r, ns, o))
         /\ SameRoot(r, Advance(r, ns, o))
<1>1. SameRoot(r, AcquireLease(r, h, b))
  BY DEF SameRoot, AcquireLease, Ref
<1>2. SameRoot(r, RenewLease(r)) /\ SameRoot(r, ClearLease(r))
  BY DEF SameRoot, RenewLease, ClearLease, Ref
<1>3. SameRoot(r, FlushAdvance(r, ns, o))
  BY DEF SameRoot, FlushAdvance, Ref
<1>4. SameRoot(r, Advance(r, ns, o))
  BY DEF SameRoot, Advance, FlushAdvance, ClearLease, Ref
<1>5. QED
  BY <1>1, <1>2, <1>3, <1>4

(* A holder's writes keep the start: it makes them from the ref it read.    *)
LEMMA MadeRoot ==
  ASSUME TypeOK, NEW h \in Holders, NEW w, Made(h, w)
  PROVE  SameRoot(w.expect, w.new)
<1>1. h \notin Repointers /\ Exists /\ (Acquires(w) \/ Publishing(h, w))
  BY ProcessAssumption DEF Made, Recopied
<1>2. ref \in Ref
  BY <1>1 DEF Exists, TypeOK, StoreTypeOK
<1>3. CASE Acquires(w)
  <2>1. PICK k : w = [expect |-> ref, new |-> AcquireLease(ref, k, lapsed), commits |-> {}]
    BY <1>3 DEF Acquires
  <2>2. w.expect = ref /\ w.new = AcquireLease(ref, k, lapsed)
    BY <2>1
  <2>3. QED
    BY <1>2, <2>2, RootKept
<1>4. CASE Publishing(h, w)
  <2>1. PICK ns, o : w.expect = ref /\ (w.new = FlushAdvance(ref, ns, o) \/ w.new = Advance(ref, ns, o))
    BY <1>4 DEF Publishing
  <2>2. SameRoot(ref, FlushAdvance(ref, ns, o)) /\ SameRoot(ref, Advance(ref, ns, o))
    BY <1>2, RootKept
  <2>3. QED
    BY <2>1, <2>2
<1>5. QED
  BY <1>1, <1>3, <1>4

(* A holder's conditional write leaves the ref on its start.                *)
LEMMA PutRoot ==
  ASSUME "late" \notin FaultModes, RootInv, NEW h \in Holders, NEW w \in write[h],
         NEW verdict, PutRef(w, verdict), ref \in Ref \cup {Gone}, w.expect \in Ref
  PROVE  inflight' = {} /\ (ref' = ref \/ (Exists /\ SameRoot(ref, ref')))
<1>1. inflight' = {} /\ (ref' = ref \/ (ref = w.expect /\ ref' = w.new))
  BY DEF PutRef, Apply, Fault, RootInv
<1>2. SameRoot(w.expect, w.new) /\ w.expect # Gone
  BY StoreAssumption DEF RootInv
<1>3. QED
  BY <1>1, <1>2 DEF Exists

(* A step of a holder prepares its own writes only.                         *)
LEMMA HolderAside ==
  ASSUME TypeOK, NEW h \in Holders, NEW W, NEW P, StepOf(h, W, P),
         UNCHANGED <<lineages, born, pins>>, inflight' = {},
         ref' = ref \/ (Exists /\ SameRoot(ref, ref')),
         pc' = pc \/ \E l : pc' = [pc EXCEPT ![h] = l]
  PROVE  Aside
<1>1. h \notin Repointers /\ h \in Procs /\ \A p \in Repointers : p \in Procs
  BY ProcessAssumption DEF Procs
<1>2. /\ write \in [Procs -> SUBSET RefWrite]
      /\ pc \in [Procs -> CheckpointLabels \cup SessionLabels \cup RepointLabels]
  BY DEF TypeOK, ProcTypeOK
<1>3. \A p \in Repointers : pc'[p] = pc[p] /\ write'[p] = write[p]
  BY <1>1, <1>2 DEF StepOf
<1>4. \A k \in Holders : \A w \in write'[k] : w \in write[k] \/ SameRoot(w.expect, w.new)
  <2>1. \A k \in Holders : k \in Procs
    BY DEF Procs
  <2>2. \A w \in W : SameRoot(w.expect, w.new)
    BY MadeRoot DEF StepOf
  <2>3. \A k \in Holders : write'[k] = write[k] \/ write'[k] = W
    BY <1>1, <1>2, <2>1 DEF StepOf
  <2>4. QED
    BY <2>2, <2>3
<1>5. QED
  BY <1>3, <1>4 DEF Aside

(* The steps of checkpoint calls.                                           *)
LEMMA CheckpointAside ==
  ASSUME "late" \notin FaultModes, TypeOK, TypeOK', RootInv, NEW c \in Checkpointers,
         CheckpointNext(c)
  PROVE  Aside
<1>1. c \in Holders /\ c \in Procs /\ inflight = {} /\ ref \in Ref \cup {Gone}
  BY ProcessAssumption DEF Procs, TypeOK, StoreTypeOK, RootInv
<1>2. UNCHANGED <<lineages, born, pins>>
  BY DEF CheckpointNext, CkStart, CkAcquire, CkTake, CkSettle, CkUpload, CkJoin, CkCommit, CkAdvance,
         CkDelete, CkRelease, CkClear, Renew, Crash, storeVars
<1>3. (pc' = pc \/ \E l : pc' = [pc EXCEPT ![c] = l])
  BY DEF CheckpointNext, CkStart, CkAcquire, CkTake, CkSettle, CkUpload, CkJoin, CkCommit, CkAdvance,
         CkDelete, CkRelease, CkClear, Renew, Crash, Goto, Refuse, RefuseLeased, Leased
<1>4. inflight' = {} /\ (ref' = ref \/ (Exists /\ SameRoot(ref, ref')))
  <2>1. CASE CkTake(c) \/ CkAdvance(c)
    <3>1. PICK w \in write[c], verdict \in Verdicts : PutRef(w, verdict)
      BY <2>1 DEF CkTake, CkAdvance
    <3>2. w.expect \in Ref
      BY <1>1, WriteType DEF RefWrite
    <3>3. QED
      BY <1>1, <3>1, <3>2, PutRoot
  <2>2. CASE CkClear(c) \/ Renew(c, CheckpointRenewing)
    <3>1. inflight' = inflight /\ (ref' = ref \/ (Exists /\ (ref' = RenewLease(ref) \/ ref' = ClearLease(ref))))
      BY <2>2 DEF CkClear, Renew, RenewOk, RenewLost, ReleaseLease
    <3>2. QED
      BY <1>1, <3>1, RootKept DEF Exists
  <2>3. CASE ~(CkTake(c) \/ CkAdvance(c) \/ CkClear(c) \/ Renew(c, CheckpointRenewing))
    BY <1>1, <2>3 DEF CheckpointNext, CkStart, CkAcquire, CkSettle, CkUpload, CkJoin, CkCommit, CkDelete,
         CkRelease, Crash, ReadFails, storeVars
  <2>4. QED
    BY <2>1, <2>2, <2>3
<1>5. \E W, P : StepOf(c, W, P)
  <2>1. CASE CkAcquire(c)
    BY <2>1, CkAcquireStep
  <2>2. CASE CkTake(c) \/ CkSettle(c)
    BY <2>2, CkLeasedStep
  <2>3. CASE CkCommit(c)
    BY <2>3, CkCommitStep
  <2>4. CASE ~(CkAcquire(c) \/ CkTake(c) \/ CkSettle(c) \/ CkCommit(c))
    <3>1. StepOf(c, {}, {})
      BY <2>4, CkQuietStep DEF CheckpointNext
    <3>2. QED
      BY <3>1
  <2>5. QED
    BY <2>1, <2>2, <2>3, <2>4
<1>6. QED
  BY <1>1, <1>2, <1>3, <1>4, <1>5, HolderAside

(* The steps of sessions.                                                   *)
LEMMA SessionAside ==
  ASSUME "late" \notin FaultModes, TypeOK, RootInv, NEW s \in Sessions, SessionNext(s)
  PROVE  Aside
<1>1. s \in Holders /\ s \in Procs /\ inflight = {} /\ ref \in Ref \cup {Gone}
  BY ProcessAssumption DEF Procs, TypeOK, StoreTypeOK, RootInv
<1>2. UNCHANGED <<lineages, born, pins>>
  BY DEF SessionNext, SsAcquire, SsTake, SsSettle, FlRead, FlPut, FlOverwrite, FlAdvance, FlReread,
         FlClean, FlDelete, SsClose, SsRelease, Renew, Crash, storeVars
<1>3. pc' = pc \/ \E l : pc' = [pc EXCEPT ![s] = l]
  BY DEF SessionNext, SsAcquire, SsTake, SsSettle, FlRead, FlPut, FlOverwrite, FlAdvance, FlReread,
         FlClean, FlDelete, SsClose, SsRelease, Renew, Crash, Goto, FlushFails
<1>4. inflight' = {} /\ (ref' = ref \/ (Exists /\ SameRoot(ref, ref')))
  <2>1. CASE SsTake(s) \/ FlAdvance(s)
    <3>1. PICK w \in write[s], verdict \in Verdicts : PutRef(w, verdict)
      BY <2>1 DEF SsTake, FlAdvance
    <3>2. w.expect \in Ref
      BY <1>1, WriteType DEF RefWrite
    <3>3. QED
      BY <1>1, <3>1, <3>2, PutRoot
  <2>2. CASE SsRelease(s) \/ Renew(s, SessionRenewing)
    <3>1. /\ inflight' = inflight
          /\ ref' = ref \/ (Exists /\ (ref' = RenewLease(ref) \/ ref' = ClearLease(ref)))
      BY <2>2 DEF SsRelease, Renew, RenewOk, RenewLost, ReleaseLease
    <3>2. QED
      BY <1>1, <3>1, RootKept DEF Exists
  <2>3. CASE ~(SsTake(s) \/ FlAdvance(s) \/ SsRelease(s) \/ Renew(s, SessionRenewing))
    BY <1>1, <2>3 DEF SessionNext, SsAcquire, SsSettle, FlRead, FlPut, FlOverwrite, FlReread, FlClean,
                      FlDelete, SsClose, Crash, ReadFails, storeVars
  <2>4. QED
    BY <2>1, <2>2, <2>3
<1>5. \E W, P : StepOf(s, W, P)
  <2>1. CASE SsAcquire(s) \/ FlRead(s) \/ FlReread(s)
    BY <2>1, SsPrepareStep
  <2>2. CASE ~(SsAcquire(s) \/ FlRead(s) \/ FlReread(s))
    <3>1. StepOf(s, {}, {})
      BY <2>2, SsQuietStep DEF SessionNext
    <3>2. QED
      BY <3>1
  <2>3. QED
    BY <2>1, <2>2
<1>6. QED
  BY <1>1, <1>2, <1>3, <1>4, <1>5, HolderAside

(* Other parties' edits; with nothing in flight, nothing lands.             *)
LEMMA EnvironmentAside ==
  ASSUME TypeOK, RootInv, Environment, UNCHANGED procVars
  PROVE  Aside
<1>1. UNCHANGED <<lineages, born, pc, write>> /\ inflight = {} /\ ~Land
  BY DEF Environment, Land, Expire, Touch, Prune, ReleaseByHolder, Claim, Unclaim, DeleteRef, Fork, Edit,
         procVars, RootInv
<1>2. inflight' = {}
  BY <1>1 DEF Environment, Expire, Touch, Prune, ReleaseByHolder, Claim, Unclaim, DeleteRef, Fork, Edit
<1>3. pins \subseteq pins' /\ \A q \in pins' : q \in pins \/ q.child = 0
  <2>1. CASE Fork
    <3>1. PICK l, t : pins' = pins \cup {[child |-> 0, lineage |-> l, txid |-> t]}
      BY <2>1 DEF Fork, ForkAt
    <3>2. [child |-> 0, lineage |-> l, txid |-> t].child = 0
      OBVIOUS
    <3>3. QED
      BY <3>1, <3>2
  <2>2. CASE ~Fork
    BY <1>1, <2>2 DEF Environment, Expire, Touch, Prune, ReleaseByHolder, Claim, Unclaim, DeleteRef, Edit
  <2>3. QED
    BY <2>1, <2>2
<1>4. Exists => ref \in Ref
  BY DEF Exists, TypeOK, StoreTypeOK
<1>5. ref' = Gone \/ ref' = ref \/ (Exists /\ SameRoot(ref, ref'))
  <2>1. CASE Expire \/ Fork \/ DeleteRef
    BY <2>1 DEF Expire, Fork, DeleteRef, Edit
  <2>2. CASE Touch
    BY <1>4, <2>2 DEF Touch, Edit, SameRoot, Ref
  <2>3. CASE ReleaseByHolder
    BY <1>4, <2>3, RootKept DEF ReleaseByHolder, Edit
  <2>4. ASSUME NEW n \in Names, Prune(n) PROVE Exists /\ SameRoot(ref, ref')
    BY <1>4, <2>4 DEF Prune, Edit, SameRoot, Ref
  <2>5. ASSUME NEW k \in Claims, Claim(k) \/ Unclaim(k) PROVE Exists /\ SameRoot(ref, ref')
    BY <1>4, <2>5 DEF Claim, Unclaim, Edit, SameRoot, Ref
  <2>6. QED
    BY <1>1, <2>1, <2>2, <2>3, <2>4, <2>5 DEF Environment
<1>6. QED
  BY <1>1, <1>2, <1>3, <1>5 DEF Aside
-----------------------------------------------------------------------------
(* A repoint touches its own lineage only.                                  *)

StepsAlone(p) == \A q \in Procs : q # p => pc'[q] = pc[q] /\ write'[q] = write[q]

StoresOwn(p) ==
  /\ \A q \in pins : q \in pins' \/ \E w \in write[p] : q.child = w.new.lineage
  /\ \A q \in pins' : q \in pins \/ q.child = 0 \/ \E w \in write[p] : q.child = w.new.lineage
  /\ \A l \in born : l \in born' \/ \E w \in write[p] : l = w.new.lineage

AimsOwn(p) ==
  \A q \in Repointers : q # p =>
    \A v \in write'[p], w \in write[q] : v.new.lineage # w.new.lineage

RefRooted == Exists => Rooted(ref) /\ ref.lineage # 0

(* What a step of p may do: store or remove what its own lineage starts at, *)
(* and move the ref to it.                                                  *)
LEMMA MoveKeeps ==
  ASSUME TypeOK, TypeOK', RootInv, NEW p \in Repointers,
         inflight' = {}, lineages <= lineages', StepsAlone(p),
         ref' = ref \/ \E w \in write[p] : ref' = w.new,
         \A q \in pins' : q.child <= lineages',
         StoresOwn(p), AimsOwn(p), RefRooted', MoveOf(p)'
  PROVE  RootInv'
<1>1. /\ p \notin Holders /\ (\A h \in Holders : h \in Procs) /\ (\A q \in Repointers : q \in Procs)
      /\ lineages \in Nat /\ lineages' \in Nat
  BY ProcessAssumption DEF Procs, TypeOK, StoreTypeOK
<1>2. ASSUME NEW q \in Repointers, q # p PROVE MoveOf(q)'
  <2>1. MoveOf(q) /\ pc'[q] = pc[q] /\ write'[q] = write[q]
    BY <1>1, <1>2 DEF RootInv, StepsAlone
  <2>2. ASSUME NEW w \in write[q], NEW v \in write[p] PROVE v.new.lineage # w.new.lineage
    BY <1>2 DEF RootInv, OwnLineages
  <2>3. ASSUME NEW w \in write[q], pc[q] # "rpSettle", Exists' PROVE ref'.lineage # w.new.lineage
    <3>1. Exists => ref.lineage # w.new.lineage
      BY <2>1, <2>3 DEF MoveOf
    <3>2. CASE ref' = ref
      BY <2>3, <3>1, <3>2 DEF Exists
    <3>3. CASE \E v \in write[p] : ref' = v.new
      BY <2>2, <3>3
    <3>4. QED
      BY <3>2, <3>3
  <2>4. ASSUME NEW w \in write[q], pc[q] = "rpWrite" PROVE Rooted(w.new)'
    <3>1. PICK l : l = w.new.lineage /\ l # 0 /\ l \in born /\ w.new.base = Bases(l)
      BY <2>1, <2>4 DEF MoveOf, Rooted
    <3>2. \A v \in write[p] : v.new.lineage # l
      BY <2>2, <3>1
    <3>3. l \in born'
      BY <3>1, <3>2 DEF StoresOwn
    <3>4. \A x \in pins : x.child = l => x \in pins'
      <4>1. ASSUME NEW x \in pins, x.child = l PROVE x \in pins'
        BY <3>2, <4>1 DEF StoresOwn
      <4>2. QED
        BY <4>1
    <3>5. \A x \in pins' : x.child = l => x \in pins
      BY <3>1, <3>2 DEF StoresOwn
    <3>6. Bases(l)' = Bases(l)
      BY <3>4, <3>5, BasesKept
    <3>7. QED
      BY <3>1, <3>3, <3>6 DEF Rooted
  <2>5. ASSUME NEW w \in write[q], pc[q] \in {"rpBackup", "rpBase"}, NEW x \in pins'
        PROVE  x.child # w.new.lineage
    <3>1. w.new.lineage # 0 /\ \A y \in pins : y.child # w.new.lineage
      BY <2>1, <2>5 DEF MoveOf
    <3>2. \A v \in write[p] : v.new.lineage # w.new.lineage
      BY <2>2
    <3>3. QED
      BY <2>5, <3>1, <3>2 DEF StoresOwn
  <2>6. ASSUME NEW w \in write[q]
        PROVE  /\ w.new.lineage # 0 /\ w.new.lineage <= lineages' /\ w.new.lineage > w.expect.lineage
               /\ \A b, c \in w.new.base : b = c
    <3>1. /\ w.new.lineage # 0 /\ w.new.lineage <= lineages /\ w.new.lineage > w.expect.lineage
          /\ \A b, c \in w.new.base : b = c
      BY <2>1 DEF MoveOf
    <3>2. w \in RefWrite
      BY <1>1, WriteType
    <3>3. w.new.lineage \in Nat
      BY SMT, <3>2 DEF RefWrite, Ref
    <3>4. w.new.lineage <= lineages'
      BY SMT, <1>1, <3>1, <3>3
    <3>5. QED
      BY <3>1, <3>4
  <2>7. \A v, w \in write[q] : v = w
    BY <2>1 DEF MoveOf
  <2>8. QED
    BY <2>1, <2>3, <2>4, <2>5, <2>6, <2>7 DEF MoveOf
<1>3. OwnLineages'
  <2> SUFFICES ASSUME NEW r \in Repointers, NEW q \in Repointers, NEW v \in write'[r], NEW w \in write'[q],
                      v.new.lineage = w.new.lineage
               PROVE  r = q
    BY DEF OwnLineages
  <2>1. CASE r = p
    BY <1>1, <2>1 DEF StepsAlone, AimsOwn
  <2>2. CASE q = p
    BY <1>1, <2>2 DEF StepsAlone, AimsOwn
  <2>3. CASE r # p /\ q # p
    BY <1>1, <2>3 DEF RootInv, OwnLineages, StepsAlone
  <2>4. QED
    BY <2>1, <2>2, <2>3
<1>4. \A h \in Holders : \A w \in write'[h] : SameRoot(w.expect, w.new)
  BY <1>1 DEF RootInv, StepsAlone
<1>5. QED
  BY <1>2, <1>3, <1>4 DEF RootInv, RefRooted

(* What is left of a step of p that stores and removes nothing and leaves   *)
(* the ref.                                                                 *)
LEMMA StillRooted ==
  ASSUME RootInv, UNCHANGED <<ref, pins, born>>
  PROVE  RefRooted'
<1>1. ASSUME Exists PROVE Rooted(ref)' /\ ref'.lineage # 0
  <2>1. PICK l : l = ref.lineage /\ l # 0 /\ l \in born /\ ref.base = Bases(l)
    BY <1>1 DEF RootInv, Rooted
  <2>2. Bases(l)' = Bases(l)
    BY BasesKept
  <2>3. QED
    BY <2>1, <2>2 DEF Rooted
<1>2. QED
  BY <1>1 DEF Exists, RefRooted

(* The read of a repoint: the lineage it mints is nobody's.                 *)
LEMMA RpReadRoots ==
  ASSUME TypeOK, TypeOK', Fencing, RootInv, NEW p \in Repointers, NEW t, NEW cps, NEW base, NEW label,
         Exists, RpRead(p, t, cps, base, label), \A b, c \in base : b = c,
         label \in {"rpBackup", "rpBase"}
  PROVE  RootInv'
<1> DEFINE w == [expect |-> ref, commits |-> {}, new |-> Repoint(ref, lineages + 1, t, cps, base)]
<1>1. /\ p \in Procs /\ write \in [Procs -> SUBSET RefWrite]
      /\ pc \in [Procs -> CheckpointLabels \cup SessionLabels \cup RepointLabels]
      /\ inflight = {} /\ lineages \in Nat /\ ref \in Ref /\ pins \subseteq Pin
  BY DEF Procs, TypeOK, StoreTypeOK, ProcTypeOK, RootInv, Exists
<1>2. /\ UNCHANGED <<ref, pins, born, inflight>> /\ lineages' = lineages + 1
      /\ pc' = [pc EXCEPT ![p] = label] /\ write' = [write EXCEPT ![p] = {w}]
  BY DEF RpRead, Goto, Prepare
<1>3. w.expect = ref /\ w.new.lineage = lineages + 1 /\ w.new.base = base
  BY <1>1 DEF Repoint, ClearLease, Ref
<1> HIDE DEF w
<1>4. ref.lineage \in Nat /\ ref.lineage <= lineages
  BY LineageMinted
<1>5. ASSUME NEW q \in pins PROVE q.child <= lineages' /\ q.child # lineages + 1
  <2>1. q.child <= lineages /\ q \in Pin
    BY <1>1 DEF RootInv
  <2>2. QED
    BY SMT, <1>1, <1>2, <2>1 DEF Pin
<1>6. MoveOf(p)'
  <2>1. write'[p] = {w} /\ pc'[p] = label
    BY <1>1, <1>2
  <2>2. /\ lineages + 1 # 0 /\ lineages + 1 <= lineages' /\ lineages + 1 > ref.lineage
        /\ ref.lineage # lineages + 1
    BY SMT, <1>1, <1>2, <1>4
  <2>3. label # "rpWrite" /\ Exists'
    BY <1>2 DEF Exists
  <2>4. QED
    BY <1>2, <1>3, <1>5, <2>1, <2>2, <2>3 DEF MoveOf
<1>7. ASSUME NEW q \in Repointers, q # p, NEW v \in write'[p], NEW u \in write[q]
      PROVE  v.new.lineage # u.new.lineage
  <2>1. u.new.lineage <= lineages /\ v = w
    BY <1>1, <1>2 DEF RootInv, MoveOf
  <2>2. u.new.lineage \in Nat
    <3>1. u \in RefWrite
      BY WriteType DEF Procs
    <3>2. QED
      BY SMT, <3>1 DEF RefWrite, Ref
  <2>3. u.new.lineage # lineages + 1
    BY SMT, <1>1, <2>1, <2>2
  <2>4. QED
    BY <1>3, <2>1, <2>3
<1>8. lineages <= lineages'
  BY SMT, <1>1, <1>2
<1>9. StepsAlone(p) /\ StoresOwn(p) /\ AimsOwn(p)
  BY <1>1, <1>2, <1>7 DEF StepsAlone, StoresOwn, AimsOwn
<1>10. RefRooted'
  BY <1>2, StillRooted
<1>11. \A q \in pins' : q.child <= lineages'
  BY <1>2, <1>5
<1>12. QED
  BY <1>1, <1>2, <1>6, <1>8, <1>9, <1>10, <1>11, MoveKeeps
(* A step of p that mints nothing.                                          *)
LEMMA OwnMoveKeeps ==
  ASSUME TypeOK, TypeOK', RootInv, NEW p \in Repointers,
         inflight' = {}, UNCHANGED lineages,
         \E l : pc' = [pc EXCEPT ![p] = l],
         write' = write \/ \E ws : write' = [write EXCEPT ![p] = ws],
         \A v \in write'[p] : \E w \in write[p] : v.new.lineage = w.new.lineage,
         ref' = ref \/ \E w \in write[p] : ref' = w.new,
         StoresOwn(p), RefRooted', MoveOf(p)'
  PROVE  RootInv'
<1>1. /\ p \in Procs /\ write \in [Procs -> SUBSET RefWrite] /\ lineages \in Nat
      /\ pc \in [Procs -> CheckpointLabels \cup SessionLabels \cup RepointLabels]
  BY DEF Procs, TypeOK, StoreTypeOK, ProcTypeOK
<1>2. StepsAlone(p)
  BY <1>1 DEF StepsAlone
<1>3. 0 <= lineages /\ lineages <= lineages'
  BY SMT, <1>1
<1>4. \A w \in write[p] : w.new.lineage <= lineages'
  BY DEF RootInv, MoveOf
<1>5. \A q \in pins' : q.child <= lineages'
  BY <1>3, <1>4 DEF RootInv, StoresOwn
<1>6. ASSUME NEW q \in Repointers, q # p, NEW v \in write'[p], NEW w \in write[q]
      PROVE  v.new.lineage # w.new.lineage
  <2>1. PICK u \in write[p] : v.new.lineage = u.new.lineage
    OBVIOUS
  <2>2. OwnLineages
    BY DEF RootInv
  <2>3. u.new.lineage # w.new.lineage
    BY <1>6, <2>2 DEF OwnLineages
  <2>4. QED
    BY <2>1, <2>3
<1>7. AimsOwn(p)
  BY <1>6 DEF AimsOwn
<1>8. QED
  BY <1>2, <1>3, <1>5, <1>7, MoveKeeps

(* The start of the lineage the ref is on stays where a step stores and     *)
(* removes base pointers of others only.                                    *)
LEMMA RootStays ==
  ASSUME RootInv, UNCHANGED ref,
         Exists => /\ ref.lineage \in born'
                   /\ \A q \in pins : q.child = ref.lineage => q \in pins'
                   /\ \A q \in pins' : q.child = ref.lineage => q \in pins
  PROVE  RefRooted'
<1>1. ASSUME Exists PROVE Rooted(ref)' /\ ref'.lineage # 0
  <2>1. PICK l : l = ref.lineage /\ l # 0 /\ l \in born /\ ref.base = Bases(l)
    BY <1>1 DEF RootInv, Rooted
  <2>2. Bases(l)' = Bases(l)
    BY <1>1, <2>1, BasesKept
  <2>3. QED
    BY <1>1, <2>1, <2>2 DEF Rooted
<1>2. QED
  BY <1>1 DEF Exists, RefRooted

(* The safety fork stores a fork's base pointer.                            *)
LEMMA RpBackupRoots ==
  ASSUME TypeOK, TypeOK', RootInv, NEW p \in Repointers, RpBackup(p)
  PROVE  RootInv'
<1>1. /\ p \in Procs /\ MoveOf(p) /\ inflight = {}
      /\ pc \in [Procs -> CheckpointLabels \cup SessionLabels \cup RepointLabels]
  BY DEF Procs, TypeOK, ProcTypeOK, RootInv
<1>2. /\ UNCHANGED <<ref, lineages, born, inflight, write>> /\ pc[p] = "rpBackup"
      /\ pc' = [pc EXCEPT ![p] = "rpBase"] /\ pc'[p] = "rpBase"
  BY <1>1 DEF RpBackup, Goto
<1>3. pins \subseteq pins' /\ \A q \in pins' : q \in pins \/ q.child = 0
  <2>1. CASE Exists /\ ForkAt(ref.head)
    <3>1. PICK l, t : pins' = pins \cup {[child |-> 0, lineage |-> l, txid |-> t]}
      BY <2>1 DEF ForkAt
    <3>2. [child |-> 0, lineage |-> l, txid |-> t].child = 0
      OBVIOUS
    <3>3. QED
      BY <3>1, <3>2
  <2>2. QED
    BY <2>1 DEF RpBackup
<1>4. MoveOf(p)'
  BY <1>1, <1>2, <1>3 DEF MoveOf, Exists
<1>5. RefRooted'
  <2>1. Exists => ref.lineage \in born /\ ref.lineage # 0
    BY DEF RootInv, Rooted
  <2>2. QED
    BY <1>2, <1>3, <2>1, RootStays
<1>6. StoresOwn(p)
  BY <1>2, <1>3 DEF StoresOwn
<1>7. QED
  BY <1>1, <1>2, <1>4, <1>5, <1>6, OwnMoveKeeps

(* newLineageAt stores where the lineage starts, as the write says.         *)
LEMMA RpShareRoots ==
  ASSUME TypeOK, TypeOK', RootInv, NEW p \in Repointers, RpShare(p)
  PROVE  RootInv'
<1>1. /\ p \in Procs /\ MoveOf(p) /\ inflight = {}
      /\ pc \in [Procs -> CheckpointLabels \cup SessionLabels \cup RepointLabels]
  BY DEF Procs, TypeOK, ProcTypeOK, RootInv
<1>2. /\ UNCHANGED <<ref, lineages, inflight, write>> /\ pc[p] = "rpBase"
      /\ pc' = [pc EXCEPT ![p] = "rpWrite"] /\ pc'[p] = "rpWrite"
  BY <1>1 DEF RpShare, Goto
<1>3. PICK w \in write[p] : \E b \in w.new.base :
        /\ born' = born \cup {w.new.lineage}
        /\ pins' = pins \cup {[child |-> w.new.lineage, lineage |-> b.lineage, txid |-> b.txid]}
  BY DEF RpShare
<1>4. PICK b \in w.new.base :
        /\ born' = born \cup {w.new.lineage}
        /\ pins' = pins \cup {[child |-> w.new.lineage, lineage |-> b.lineage, txid |-> b.txid]}
  BY <1>3
<1> DEFINE l == w.new.lineage
           x == [child |-> l, lineage |-> b.lineage, txid |-> b.txid]
<1>5. x.child = l /\ x.lineage = b.lineage /\ x.txid = b.txid
  OBVIOUS
<1>6. /\ l # 0 /\ (Exists => ref.lineage # l) /\ (\A q \in pins : q.child # l)
      /\ (\A u, v \in w.new.base : u = v) /\ (\A v \in write[p] : v = w)
  BY <1>1, <1>2 DEF MoveOf
<1>7. w.new.base = {[lineage |-> b.lineage, txid |-> b.txid]}
  <2>1. w \in RefWrite
    BY <1>1, WriteType
  <2>2. b \in BasePointer
    BY SMT, <2>1 DEF RefWrite, Ref
  <2>3. b = [lineage |-> b.lineage, txid |-> b.txid]
    BY <2>2 DEF BasePointer
  <2>4. QED
    BY <1>6, <2>3
<1>8. {q \in pins' : q.child = l} = {x}
  BY <1>4, <1>5, <1>6
<1>9. {[lineage |-> q.lineage, txid |-> q.txid] : q \in {x}} = {[lineage |-> b.lineage, txid |-> b.txid]}
  BY <1>5
<1>10. Rooted(w.new)'
  <2>1. l \in born' /\ w.new.base = Bases(l)'
    BY <1>4, <1>7, <1>8, <1>9 DEF Bases
  <2>2. QED
    BY <2>1 DEF Rooted
<1>11. MoveOf(p)'
  BY <1>1, <1>2, <1>6, <1>10 DEF MoveOf, Exists
<1>12. RefRooted'
  <2>1. Exists => ref.lineage \in born'
    BY <1>4 DEF RootInv, Rooted
  <2>2. ASSUME Exists, NEW q \in pins', q.child = ref.lineage PROVE q \in pins
    BY <1>4, <1>5, <1>6, <2>2
  <2>3. QED
    BY <1>2, <1>4, <2>1, <2>2, RootStays
<1>13. StoresOwn(p)
  BY <1>4, <1>5 DEF StoresOwn
<1>14. QED
  BY <1>1, <1>2, <1>11, <1>12, <1>13, OwnMoveKeeps
(* A copied lineage starts at nothing, as the write then says.              *)
LEMMA RpCopyRoots ==
  ASSUME TypeOK, TypeOK', RootInv, NEW p \in Repointers, RpCopy(p)
  PROVE  RootInv'
<1>1. /\ p \in Procs /\ MoveOf(p) /\ inflight = {} /\ write \in [Procs -> SUBSET RefWrite]
      /\ pc \in [Procs -> CheckpointLabels \cup SessionLabels \cup RepointLabels]
  BY DEF Procs, TypeOK, ProcTypeOK, RootInv
<1>2. /\ UNCHANGED <<ref, lineages, inflight, pins>> /\ pc[p] = "rpBase"
      /\ pc' = [pc EXCEPT ![p] = "rpWrite"] /\ pc'[p] = "rpWrite"
  BY <1>1 DEF RpCopy, Goto
<1>3. PICK w \in write[p] : /\ born' = born \cup {w.new.lineage}
                            /\ write' = [write EXCEPT ![p] = {[w EXCEPT !.new = Copied(@)]}]
  BY DEF RpCopy, Prepare
<1> DEFINE v == [w EXCEPT !.new = Copied(@)]
           l == w.new.lineage
<1>4. write'[p] = {v}
  BY <1>1, <1>3
<1>5. v.expect = w.expect /\ v.new.lineage = l /\ v.new.base = {}
  <2>1. w \in RefWrite
    BY <1>1, WriteType
  <2>2. v.expect = w.expect /\ v.new = Copied(w.new) /\ w.new \in Ref
    BY <2>1 DEF RefWrite
  <2>3. Copied(w.new).lineage = l /\ Copied(w.new).base = {}
    BY <2>2 DEF Copied, Ref
  <2>4. QED
    BY <2>2, <2>3
<1>6. /\ l # 0 /\ l <= lineages /\ l > w.expect.lineage
      /\ (Exists => ref.lineage # l) /\ \A q \in pins : q.child # l
  BY <1>1, <1>2 DEF MoveOf
<1> HIDE DEF v
<1>7. Rooted(v.new)'
  <2>1. {q \in pins' : q.child = l} = {}
    BY <1>2, <1>6
  <2>2. Bases(l)' = {}
    BY <2>1 DEF Bases
  <2>3. QED
    BY <1>3, <1>5, <2>2 DEF Rooted
<1>8. MoveOf(p)'
  BY <1>2, <1>4, <1>5, <1>6, <1>7 DEF MoveOf, Exists
<1>9. RefRooted'
  <2>1. Exists => ref.lineage \in born'
    BY <1>3 DEF RootInv, Rooted
  <2>2. QED
    BY <1>2, <2>1, RootStays
<1>10. StoresOwn(p)
  BY <1>2, <1>3 DEF StoresOwn
<1>11. QED
  BY <1>1, <1>2, <1>3, <1>4, <1>5, <1>8, <1>9, <1>10, OwnMoveKeeps

(* A write that lands, with or without its answer, moves the ref to a       *)
(* lineage that has its start.                                              *)
LEMMA RpWriteRoots ==
  ASSUME "late" \notin FaultModes, TypeOK, TypeOK', RootInv, NEW p \in Repointers, RpWrite(p)
  PROVE  RootInv'
<1>1. /\ p \in Procs /\ MoveOf(p) /\ inflight = {} /\ write \in [Procs -> SUBSET RefWrite]
      /\ pc \in [Procs -> CheckpointLabels \cup SessionLabels \cup RepointLabels]
  BY DEF Procs, TypeOK, ProcTypeOK, RootInv
<1>2. PICK w \in write[p], verdict \in Verdicts :
        /\ PutRef(w, verdict)
        /\ IF verdict = "ok" THEN Goto(p, "done") /\ Prepare(p, {})
                             ELSE Goto(p, "rpSettle") /\ UNCHANGED write
  BY DEF RpWrite
<1>3. UNCHANGED <<lineages, pins, born>> /\ pc[p] = "rpWrite"
  BY DEF RpWrite
<1>4. inflight' = {} /\ (ref' = ref \/ ref' = w.new)
  BY <1>1, <1>2 DEF PutRef, Apply, Fault
<1>5. Rooted(w.new) /\ w.new.lineage # 0
  BY <1>1, <1>3 DEF MoveOf
<1>6. RefRooted'
  <2>1. CASE ref' = ref
    BY <1>3, <2>1, StillRooted
  <2>2. CASE ref' = w.new
    <3>1. PICK l : l = w.new.lineage /\ l # 0 /\ l \in born /\ w.new.base = Bases(l)
      BY <1>5 DEF Rooted
    <3>2. Bases(l)' = Bases(l)
      BY <1>3, BasesKept
    <3>3. QED
      BY <1>3, <2>2, <3>1, <3>2 DEF Rooted, RefRooted
  <2>3. QED
    BY <1>4, <2>1, <2>2
<1>7. MoveOf(p)'
  <2>1. CASE verdict = "ok"
    <3>1. write'[p] = {}
      BY <1>1, <1>2, <2>1 DEF Prepare
    <3>2. QED
      BY <3>1 DEF MoveOf
  <2>2. CASE verdict # "ok"
    <3>1. write' = write /\ pc'[p] = "rpSettle"
      BY <1>1, <1>2, <2>2 DEF Goto
    <3>2. QED
      BY <1>1, <1>3, <3>1 DEF MoveOf
  <2>3. QED
    BY <2>1, <2>2
<1>8. /\ \E l : pc' = [pc EXCEPT ![p] = l]
      /\ write' = write \/ \E ws : write' = [write EXCEPT ![p] = ws]
      /\ write'[p] = {} \/ write'[p] = write[p]
  BY <1>1, <1>2 DEF Goto, Prepare
<1>9. StoresOwn(p)
  BY <1>3 DEF StoresOwn
<1>10. QED
  BY <1>3, <1>4, <1>6, <1>7, <1>8, <1>9, OwnMoveKeeps
(* A step that stores nothing and leaves the ref, after which p either has  *)
(* no write or knows the ref is not on its lineage.                         *)
LEMMA RpRests ==
  ASSUME TypeOK, TypeOK', RootInv, NEW p \in Repointers, UNCHANGED <<ref, inflight, lineages, pins, born>>,
         \/ write' = [write EXCEPT ![p] = {}] /\ \E l : pc' = [pc EXCEPT ![p] = l]
         \/ /\ write' = write /\ pc' = [pc EXCEPT ![p] = "rpCleanup"]
            /\ \A w \in write[p] : ref.lineage # w.new.lineage
  PROVE  RootInv'
<1>1. /\ p \in Procs /\ MoveOf(p) /\ inflight = {} /\ write \in [Procs -> SUBSET RefWrite]
      /\ pc \in [Procs -> CheckpointLabels \cup SessionLabels \cup RepointLabels]
  BY DEF Procs, TypeOK, ProcTypeOK, RootInv
<1>2. write'[p] = {} \/ write'[p] = write[p]
  BY <1>1
<1>3. MoveOf(p)'
  <2>1. CASE write' = [write EXCEPT ![p] = {}]
    <3>1. write'[p] = {}
      BY <1>1, <2>1
    <3>2. QED
      BY <3>1 DEF MoveOf
  <2>2. CASE /\ write' = write /\ pc' = [pc EXCEPT ![p] = "rpCleanup"]
             /\ \A w \in write[p] : ref.lineage # w.new.lineage
    <3>1. pc'[p] = "rpCleanup"
      BY <1>1, <2>2
    <3>2. QED
      BY <1>1, <2>2, <3>1 DEF MoveOf
  <2>3. QED
    BY <2>1, <2>2
<1>4. RefRooted'
  BY StillRooted
<1>5. StoresOwn(p)
  BY DEF StoresOwn
<1>6. QED
  BY <1>1, <1>2, <1>3, <1>4, <1>5, OwnMoveKeeps

(* settleRepoint: the ref that still names the lineage it left is not on    *)
(* the new one, and no write is under way that could move it there.         *)
LEMMA RpSettleRoots ==
  ASSUME TypeOK, TypeOK', RootInv, NEW p \in Repointers, RpSettle(p) \/ Crash(p)
  PROVE  RootInv'
<1>1. UNCHANGED <<ref, inflight, lineages, pins, born>>
  BY DEF RpSettle, ReadFails, Crash, storeVars
<1>2. CASE write' = write
  <2>1. (NotLanded(p) /\ pc' = [pc EXCEPT ![p] = "rpCleanup"]) \/ write' = [write EXCEPT ![p] = {}]
    BY DEF RpSettle, Goto, Prepare, Crash
  <2>2. CASE NotLanded(p) /\ pc' = [pc EXCEPT ![p] = "rpCleanup"]
    <3>1. ASSUME NEW w \in write[p] PROVE ref.lineage # w.new.lineage
      <4>1. PICK v \in write[p] : ref.lineage = v.expect.lineage
        BY <2>2 DEF NotLanded
      <4>2. v = w /\ w.new.lineage > w.expect.lineage
        BY DEF RootInv, MoveOf
      <4>3. w \in RefWrite
        BY WriteType DEF Procs
      <4>4. w.new.lineage # w.expect.lineage
        BY SMT, <4>2, <4>3 DEF RefWrite, Ref
      <4>5. QED
        BY <4>1, <4>2, <4>4
    <3>2. QED
      BY <1>1, <1>2, <2>2, <3>1, RpRests
  <2>3. CASE write' = [write EXCEPT ![p] = {}]
    <3>1. \E l : pc' = [pc EXCEPT ![p] = l]
      BY DEF RpSettle, Goto, Crash
    <3>2. QED
      BY <1>1, <2>3, <3>1, RpRests
  <2>4. QED
    BY <2>1, <2>2, <2>3
<1>3. CASE write' # write
  <2>1. write' = [write EXCEPT ![p] = {}] /\ \E l : pc' = [pc EXCEPT ![p] = l]
    BY <1>3 DEF RpSettle, Goto, Prepare, Crash
  <2>2. QED
    BY <1>1, <2>1, RpRests
<1>4. QED
  BY <1>2, <1>3

(* bestEffortDelete takes p's lineage, which the ref is not on.             *)
LEMMA RpCleanupRoots ==
  ASSUME TypeOK, TypeOK', RootInv, NEW p \in Repointers, RpCleanup(p)
  PROVE  RootInv'
<1>1. /\ p \in Procs /\ MoveOf(p) /\ inflight = {} /\ write \in [Procs -> SUBSET RefWrite]
      /\ pc \in [Procs -> CheckpointLabels \cup SessionLabels \cup RepointLabels]
  BY DEF Procs, TypeOK, ProcTypeOK, RootInv
<1>2. /\ UNCHANGED <<ref, inflight, lineages>> /\ pc[p] = "rpCleanup"
      /\ write' = [write EXCEPT ![p] = {}] /\ pc' = [pc EXCEPT ![p] = "done"] /\ write'[p] = {}
  BY <1>1 DEF RpCleanup, Goto, Prepare
<1>3. CASE UNCHANGED <<born, pins>>
  BY <1>2, <1>3, RpRests
<1>4. CASE \E w \in write[p] : /\ born' = born \ {w.new.lineage}
                               /\ pins' = {q \in pins : q.child # w.new.lineage}
  <2>1. PICK w \in write[p] : /\ born' = born \ {w.new.lineage}
                              /\ pins' = {q \in pins : q.child # w.new.lineage}
    BY <1>4
  <2>2. Exists => ref.lineage # w.new.lineage
    BY <1>1, <1>2 DEF MoveOf
  <2>3. Exists => ref.lineage \in born
    BY DEF RootInv, Rooted
  <2>4. RefRooted'
    <3>1. ASSUME Exists, NEW q \in pins, q.child = ref.lineage PROVE q \in pins'
      BY <2>1, <2>2, <3>1
    <3>2. Exists => ref.lineage \in born'
      BY <2>1, <2>2, <2>3
    <3>3. pins' \subseteq pins
      BY <2>1
    <3>4. QED
      BY <1>2, <3>1, <3>2, <3>3, RootStays
  <2>5. MoveOf(p)'
    BY <1>2 DEF MoveOf
  <2>6. StoresOwn(p)
    BY <2>1 DEF StoresOwn
  <2>7. QED
    BY <1>1, <1>2, <2>4, <2>5, <2>6, OwnMoveKeeps
<1>5. QED
  BY <1>3, <1>4 DEF RpCleanup

LEMMA RepointRoots ==
  ASSUME "late" \notin FaultModes, TypeOK, TypeOK', Fencing, RootInv, NEW p \in Repointers, RepointNext(p)
  PROVE  RootInv'
<1>1. CASE RpRollback(p) \/ RpPromote(p) \/ RpCompact(p)
  <2>1. PICK t, cps, base, label : /\ Exists /\ RpRead(p, t, cps, base, label)
                                   /\ base = {} \/ \E b : base = {b}
                                   /\ label = "rpBackup" \/ label = "rpBase"
    BY <1>1 DEF RpRollback, RpPromote, RpCompact
  <2>2. (\A u, v \in base : u = v) /\ label \in {"rpBackup", "rpBase"}
    BY <2>1
  <2>3. QED
    BY <2>1, <2>2, RpReadRoots
<1>2. CASE ~(RpRollback(p) \/ RpPromote(p) \/ RpCompact(p))
  BY <1>2, RpBackupRoots, RpShareRoots, RpCopyRoots, RpWriteRoots, RpSettleRoots, RpCleanupRoots
     DEF RepointNext
<1>3. QED
  BY <1>1, <1>2

LEMMA InitRoot == Init => RootInv
<1> SUFFICES ASSUME Init PROVE RootInv
  OBVIOUS
<1>1. /\ inflight = {} /\ lineages = 1 /\ born = {1} /\ write = [p \in Procs |-> {}] /\ 1 # 0 /\ 1 <= 1
      /\ Created \/ Forked
  <2>1. 1 # 0 /\ 1 <= 1
    BY SMT
  <2>2. QED
    BY <2>1 DEF Init, StoreInit, ProcInit
<1>2. (\A h \in Holders : write[h] = {}) /\ \A p \in Repointers : write[p] = {}
  BY <1>1 DEF Procs
<1>3. \A n, b : FirstRef(n, b).lineage = 1 /\ FirstRef(n, b).base = b
  BY DEF FirstRef
<1>4. CASE Created
  <2>1. {[lineage |-> q.lineage, txid |-> q.txid] : q \in {q \in pins : q.child = 1}} = {} /\ pins = {}
    BY <1>4 DEF Created
  <2>2. Rooted(ref) /\ ref.lineage = 1
    BY <1>1, <1>3, <1>4, <2>1 DEF Created, Rooted, Bases
  <2>3. QED
    BY <1>1, <1>2, <2>1, <2>2 DEF RootInv, MoveOf, OwnLineages
<1>5. CASE Forked
  <2> DEFINE x == [child |-> 1, lineage |-> 0, txid |-> 1]
  <2>1. x.child = 1 /\ x.lineage = 0 /\ x.txid = 1 /\ pins = {x}
    BY <1>5 DEF Forked
  <2>2. {q \in pins : q.child = 1} = {x}
    BY <2>1
  <2>3. {[lineage |-> q.lineage, txid |-> q.txid] : q \in {x}} = {[lineage |-> 0, txid |-> 1]}
    BY <2>1
  <2>4. Rooted(ref) /\ ref.lineage = 1
    <3>1. ref.lineage = 1 /\ ref.base = {[lineage |-> 0, txid |-> 1]}
      BY <1>3, <1>5 DEF Forked
    <3>2. Bases(1) = {[lineage |-> 0, txid |-> 1]}
      BY <2>2, <2>3 DEF Bases
    <3>3. QED
      BY <1>1, <3>1, <3>2 DEF Rooted
  <2>5. QED
    BY <1>1, <1>2, <2>1, <2>4 DEF RootInv, MoveOf, OwnLineages
<1>6. QED
  BY <1>1, <1>4, <1>5

LEMMA NextRoot ==
  ASSUME "late" \notin FaultModes, TypeOK, TypeOK', Fencing, RootInv, [Next]_vars
  PROVE  RootInv'
<1>1. CASE \E c \in Checkpointers : CheckpointNext(c)
  BY <1>1, CheckpointAside, AsideKeeps
<1>2. CASE \E s \in Sessions : SessionNext(s)
  BY <1>2, SessionAside, AsideKeeps
<1>3. CASE \E p \in Repointers : RepointNext(p)
  BY <1>3, RepointRoots
<1>4. CASE Environment /\ UNCHANGED procVars
  BY <1>4, EnvironmentAside, AsideKeeps
<1>5. CASE UNCHANGED vars
  <2>1. UNCHANGED <<ref, inflight, lineages, born, pins, pc, write>>
    BY <1>5 DEF vars, storeVars, procVars
  <2>2. Aside
    BY <2>1 DEF Aside, RootInv
  <2>3. QED
    BY <2>2, AsideKeeps
<1>6. QED
  BY <1>1, <1>2, <1>3, <1>4, <1>5 DEF Next

(* The branch's lineage has its start in the store, and the ref reports it  *)
(* truly, whatever rollbacks, promotes and compacts run at once, fail and   *)
(* crash, if a ref write the store applies is applied before its answer:    *)
(* settleRepoint's clean-up never takes the lineage the ref is on.          *)
THEOREM RefStaysReadable ==
  ASSUME "late" \notin FaultModes
  PROVE  Spec => []RefReadable
<1>1. RootInv => RefReadable
  BY DEF RootInv, Rooted, Bases, RefReadable
<1>2. QED
  BY <1>1, InitRoot, NextRoot, TypeCorrect, FencingHolds, PTL DEF Spec
=============================================================================
