---------------------------- MODULE VerdictProofs ----------------------------
(***************************************************************************)
(* For any number of writers, faults and bounds: a live lease is never     *)
(* taken over, and what a call reports of its object is true.  For         *)
(* checkpoint calls and repoints, without sessions: what was committed     *)
(* stays what resolution serves, and the branch implements BranchHistory.  *)
(*                                                                         *)
(* A step is described once (StepOf, in FencingProofs), by what it does to *)
(* the ref and by the writes it prepares; the invariants are then shown to *)
(* survive whatever is of that description.                                *)
(***************************************************************************)
EXTENDS FencingProofs

(* Zenon proves what no step says otherwise of.                             *)
USE Zenon

-----------------------------------------------------------------------------
(* Leases.                                                                  *)

\* Two refs carry the same lease, with the same expiry.
SameTerm(r, n) ==
  /\ n.lineage = r.lineage
  /\ n.epoch = r.epoch
  /\ n.holder = r.holder
  /\ n.renewals = r.renewals

\* The lease on n is that on r or came after it.
Later(r, n) ==
  \/ n.lineage > r.lineage
  \/ n.lineage = r.lineage /\ n.epoch > r.epoch
  \/ /\ n.lineage = r.lineage /\ n.epoch = r.epoch
     /\ \/ n.holder = NoHolder
        \/ n.holder = r.holder /\ r.renewals <= n.renewals

\* The write w takes the lease from another holder.
Takes(w) ==
  w.expect.holder # NoHolder /\ w.new.holder \notin {w.expect.holder, NoHolder}

\* The lease w takes has lapsed, or is no longer on the ref.
TakesLapsed(w) ==
  Takes(w) /\ Exists =>
    Later(w.expect, ref) /\ (SameTerm(w.expect, ref) => lapsed)

LeaseInv == \A w \in Pending : Later(w.expect, w.new) /\ TakesLapsed(w)

-----------------------------------------------------------------------------
(* Verdicts.                                                                *)

\* A call that holds no lease yet.
Early == {"start", "ckAcquire", "ckTake", "ckSettleCas", "ckSettleErr"}

\* A call plans one object, once it has the lease, and all of its objects are
\* that one.
PlansOnce ==
  /\ \A c \in Checkpointers :
       /\ \A o, p \in plan[c] : o = p
       /\ pc[c] \in Early => plan[c] = {}
  /\ \A o \in Uploads :
       /\ o.by \in Checkpointers => o \in plan[o.by]
       /\ o.by = NoHolder => o = FirstObject

\* w moves to another lineage, or moves the head on, recording at most the
\* object it publishes.
Grows(w) ==
  /\ Within(w.new)
  /\ \/ w.new.lineage > w.expect.lineage /\ w.commits = {}
     \/ /\ w.new.lineage = w.expect.lineage
        /\ \/ w.commits = {} /\ w.new.head = w.expect.head
           \/ \E o \in w.commits : w.commits = {o} /\ w.new.head = o.txid
        /\ \A cp \in w.new.cps :
             \/ cp \in w.expect.cps
             \/ \E o \in w.commits : cp.txid = o.txid /\ cp.epoch = o.epoch

GrowInv ==
  /\ \A w \in Pending : Grows(w)
  /\ \A p \in Repointers : \A w \in write[p] : w.new.lineage > w.expect.lineage

\* A checkpoint on the ref under o's lineage, txid and epoch is o's.
RecordsOwn ==
  Exists =>
    \A c \in Checkpointers : \A o \in plan[c] :
      /\ o.lineage = ref.lineage
      /\ \E cp \in ref.cps : cp.txid = o.txid /\ cp.epoch = o.epoch
      => o \in committed

Unsent(o) == o \notin committed /\ \A w \in Pending : o \notin w.commits

\* No head write of o has landed or can: none is pending, or the lease o was
\* made under is off the ref.
Dead(o) ==
  /\ o \notin committed
  /\ (Exists /\ WrittenUnder(o, ref)) => \A w \in Pending : o \notin w.commits

\* No head write was made.
Fresh(c) == pc[c] \in {"ckUpload", "ckJoin"} \/ (pc[c] = "ckCommit" /\ tries[c] = 0)

DenyOf(c) ==
  \A o \in plan[c] :
    /\ Fresh(c) => Unsent(o)
    /\ pc[c] = "ckDelete" => Dead(o)

\* o's call has reported that it did not commit, and is over or about to be.
DeniedBy(o) ==
  /\ Dead(o)
  /\ o.by \in Checkpointers /\ o \in plan[o.by]
  /\ pc[o.by] \in {"ckRelease", "ckClear", "done"}

DenyInv == (\A c \in Checkpointers : DenyOf(c)) /\ \A o \in denied : DeniedBy(o)

AckInv == acked \subseteq committed

VerdictInv == PlansOnce /\ GrowInv /\ HeadInv /\ RecordsOwn /\ DenyInv /\ AckInv

-----------------------------------------------------------------------------
(* What is stored, when no session overwrites.                              *)

\* An object is stored before its head write is made and stays stored while one
\* can land.
Stored ==
  /\ committed \subseteq objs
  /\ \A c \in Checkpointers :
       pc[c] \in {"ckJoin", "ckCommit", "ckAdvance"} => plan[c] \subseteq objs
  /\ \A w \in Pending : \A o \in w.commits :
       o.by # NoHolder /\ (Exists /\ WrittenUnder(o, ref) => o \in objs)

\* What else was ever planned at a committed txid is of an earlier epoch.
Outlives ==
  \A o \in committed, p \in Uploads : SameState(o, p) /\ p # o => p.epoch < o.epoch

IntactInv == Stored /\ Outlives

-----------------------------------------------------------------------------
(* Leases are only ever taken when they have lapsed.                        *)

(* Later orders refs, and what lies between two refs of one lease has it.   *)
LEMMA LaterOrder ==
  ASSUME NEW r \in Ref, NEW n \in Ref, NEW m \in Ref, Later(r, n), Later(n, m)
  PROVE  /\ Later(r, m)
         /\ SameTerm(r, m) /\ r.holder # NoHolder => SameTerm(r, n)
BY SMT DEF Later, SameTerm, Ref

(* An edit keeps the lease, renews it or drops it.                          *)
LEMMA EditedLater ==
  ASSUME TypeOK, Edited
  PROVE  ref \in Ref /\ ref' \in Ref /\ Later(ref, ref')
<1>1. ref \in Ref /\ ref' \in Ref
  BY DEF Edited, Exists, TypeOK, StoreTypeOK
<1>2. QED
  BY SMT, <1>1 DEF Edited, Later, Ref

(* What is prepared comes after the lease it expects, and takes only a      *)
(* lapsed one.                                                              *)
LEMMA MadeLater ==
  ASSUME TypeOK, Fencing, LeaseInv, NEW p, NEW w, Made(p, w)
  PROVE  Later(w.expect, w.new) /\ TakesLapsed(w)
<1>1. CASE Exists /\ Acquires(w)
  <2>1. PICK h \in Holders : /\ ~AcquireRefused(ref, h, lapsed)
                             /\ w = [expect |-> ref, new |-> AcquireLease(ref, h, lapsed),
                                     commits |-> {}]
    BY <1>1 DEF Acquires
  <2>2. ref \in Ref /\ lapsed \in BOOLEAN /\ h # NoHolder
    BY <1>1, HolderAssumption DEF Exists, TypeOK, StoreTypeOK
  <2>3. Later(ref, AcquireLease(ref, h, lapsed)) /\ Later(ref, ref)
    BY SMT, <2>1, <2>2 DEF Later, AcquireLease, AcquireRefused, LeaseLive, Ref
  <2>4. ref.holder # NoHolder /\ h # ref.holder => lapsed
    BY <2>1, <2>2 DEF AcquireRefused, LeaseLive
  <2>5. AcquireLease(ref, h, lapsed).holder = h
    BY <2>2 DEF AcquireLease, Ref
  <2>6. w.expect = ref /\ w.new = AcquireLease(ref, h, lapsed)
    BY <2>1
  <2>7. QED
    BY <2>3, <2>4, <2>5, <2>6 DEF Takes, TakesLapsed
<1>2. CASE Exists /\ Publishing(p, w)
  <2>1. PICK o, ns : /\ w.expect = ref
                     /\ w.new = FlushAdvance(ref, ns, o) \/ w.new = Advance(ref, ns, o)
    BY <1>2 DEF Publishing
  <2>2. ref \in Ref
    BY <1>2 DEF Exists, TypeOK, StoreTypeOK
  <2>3. /\ w.new.lineage = ref.lineage /\ w.new.epoch = ref.epoch
        /\ \/ w.new.holder = NoHolder
           \/ w.new.holder = ref.holder /\ w.new.renewals = ref.renewals
    BY <2>1, <2>2 DEF FlushAdvance, Advance, ClearLease, Ref
  <2>4. QED
    BY SMT, <2>1, <2>2, <2>3 DEF Later, Takes, TakesLapsed, Ref
<1>3. CASE Exists /\ Repointed(w)
  <2>1. PICK t, cps, base : w = [expect |-> ref, commits |-> {},
                                 new |-> Repoint(ref, lineages + 1, t, cps, base)]
    BY <1>3 DEF Repointed
  <2>2. ref \in Ref /\ lineages \in Nat /\ ref.lineage <= lineages /\ ref.lineage \in Nat
    BY <1>3, LineageMinted DEF Exists, TypeOK, StoreTypeOK
  <2>3. /\ Repoint(ref, lineages + 1, t, cps, base).lineage = lineages + 1
        /\ Repoint(ref, lineages + 1, t, cps, base).holder = NoHolder
    BY <2>2 DEF Repoint, ClearLease, Ref
  <2>4. w.expect = ref /\ w.new = Repoint(ref, lineages + 1, t, cps, base)
    BY <2>1
  <2>5. QED
    BY SMT, <2>2, <2>3, <2>4 DEF Later, Takes, TakesLapsed
<1>4. CASE Recopied(p, w)
  <2>1. PICK v \in write[p] : w = [v EXCEPT !.new = Copied(@)]
    BY <1>4 DEF Recopied
  <2>2. v \in Pending
    BY <1>4, <2>1 DEF Recopied, Pending, Procs
  <2>3. v \in RefWrite /\ Later(v.expect, v.new) /\ TakesLapsed(v)
    BY <2>2, UploadsType DEF LeaseInv
  <2>4. w.expect = v.expect /\ w.new = Copied(v.new)
    BY <2>1, <2>3 DEF RefWrite
  <2>5. /\ w.new.lineage = v.new.lineage /\ w.new.epoch = v.new.epoch
        /\ w.new.holder = v.new.holder /\ w.new.renewals = v.new.renewals
    BY <2>3, <2>4 DEF Copied, RefWrite, Ref
  <2>6. QED
    BY <2>3, <2>4, <2>5 DEF Later, Takes, TakesLapsed
<1>5. QED
  BY <1>1, <1>2, <1>3, <1>4 DEF Made

(* A lease that a pending write may take stays lapsed, or goes.             *)
LEMMA TakesKept ==
  ASSUME TypeOK, LeaseInv, RefMoves, NEW w \in Pending
  PROVE  TakesLapsed(w)'
<1> SUFFICES ASSUME Takes(w), ref' # Gone
             PROVE  Later(w.expect, ref') /\ (SameTerm(w.expect, ref') => lapsed')
  BY DEF TakesLapsed, Takes, Exists, Later, SameTerm
<1>1. w \in RefWrite /\ w.expect \in Ref /\ w.expect.holder # NoHolder /\ lapsed \in BOOLEAN
  BY UploadsType DEF RefWrite, Takes, TypeOK, StoreTypeOK
<1>2. Exists => Later(w.expect, ref) /\ (SameTerm(w.expect, ref) => lapsed)
  BY DEF LeaseInv, TakesLapsed
<1>3. CASE ref' = ref /\ (lapsed => lapsed')
  BY <1>2, <1>3 DEF Exists
<1>4. CASE Edited
  <2>1. ref \in Ref /\ ref' \in Ref /\ Later(ref, ref') /\ Exists
    BY <1>4, EditedLater DEF Edited
  <2>2. Later(w.expect, ref') /\ (SameTerm(w.expect, ref') => SameTerm(w.expect, ref))
    BY <1>1, <1>2, <2>1, LaterOrder
  <2>3. SameTerm(w.expect, ref') => lapsed' = lapsed
    BY SMT, <1>1, <1>4, <2>1, <2>2 DEF Edited, SameTerm, Ref
  <2>4. QED
    BY <1>2, <2>1, <2>2, <2>3
<1>5. ASSUME NEW v \in Pending, ref = v.expect, Apply(v)
      PROVE  Later(w.expect, ref') /\ (SameTerm(w.expect, ref') => lapsed')
  <2>1. v.expect \in Ref /\ v.new \in Ref /\ Later(v.expect, v.new) /\ Exists
    BY <1>5, UploadsType, StoreAssumption DEF RefWrite, LeaseInv, Exists
  <2>2. ref' = v.new
    BY <1>5 DEF Apply
  <2>3. Later(w.expect, ref') /\ (SameTerm(w.expect, ref') => SameTerm(w.expect, ref))
    BY <1>1, <1>2, <1>5, <2>1, <2>2, LaterOrder
  <2>4. lapsed' = (lapsed /\ v.new.holder # NoHolder /\ v.new.epoch = ref.epoch
                          /\ v.new.renewals = ref.renewals)
    BY <1>5 DEF Apply
  <2>5. SameTerm(w.expect, ref') => lapsed'
    BY <1>1, <1>2, <2>1, <2>2, <2>3, <2>4 DEF SameTerm
  <2>6. QED
    BY <2>3, <2>5
<1>6. QED
  BY <1>3, <1>4, <1>5 DEF RefMoves

(* A step keeps the discipline of leases.                                   *)
LEMMA LeaseStep ==
  ASSUME TypeOK, Fencing, LeaseInv, NEW p, NEW W, NEW P, StepOf(p, W, P)
  PROVE  LeaseInv'
<1> SUFFICES ASSUME NEW w \in Pending' PROVE Later(w.expect, w.new) /\ TakesLapsed(w)'
  BY DEF LeaseInv, Later
<1>1. CASE w \in Pending
  BY <1>1, TakesKept DEF LeaseInv, StepOf
<1>2. CASE w \in W
  <2>1. UNCHANGED <<ref, lapsed>> /\ Made(p, w)
    BY <1>2 DEF StepOf
  <2>2. Later(w.expect, w.new) /\ TakesLapsed(w)
    BY <2>1, MadeLater
  <2>3. QED
    BY <2>1, <2>2 DEF TakesLapsed, Takes, Exists, Later, SameTerm
<1>3. QED
  BY <1>1, <1>2, PendingStep

-----------------------------------------------------------------------------
(* Heads.                                                                   *)

(* What is prepared grows the branch.                                       *)
LEMMA MadeGrows ==
  ASSUME TypeOK, TypeOK', Fencing, HeadInv, GrowInv, NEW p, NEW w, Made(p, w)
  PROVE  Grows(w) /\ (p \in Repointers => w.new.lineage > w.expect.lineage)
<1>1. CASE Exists /\ p \notin Repointers /\ Acquires(w)
  <2>1. PICK h : w = [expect |-> ref, new |-> AcquireLease(ref, h, lapsed), commits |-> {}]
    BY <1>1 DEF Acquires
  <2>2. ref \in Ref /\ Within(ref)
    BY <1>1 DEF Exists, TypeOK, StoreTypeOK, HeadInv
  <2>3. /\ AcquireLease(ref, h, lapsed).lineage = ref.lineage
        /\ AcquireLease(ref, h, lapsed).head = ref.head
        /\ AcquireLease(ref, h, lapsed).cps = ref.cps
    BY <2>2 DEF AcquireLease, Ref
  <2>4. w.expect = ref /\ w.new = AcquireLease(ref, h, lapsed) /\ w.commits = {}
    BY <2>1
  <2>5. QED
    BY <1>1, <2>2, <2>3, <2>4 DEF Grows, Within
<1>2. CASE Exists /\ p \notin Repointers /\ Publishing(p, w)
  <2>1. PICK o \in plan'[p], ns \in SUBSET Names :
          /\ p \in Holders /\ Ours(ref, p, o) /\ w.expect = ref /\ w.commits = {o}
          /\ w.new = FlushAdvance(ref, ns, o) \/ w.new = Advance(ref, ns, o)
    BY <1>2 DEF Publishing
  <2>2. ref \in Ref /\ Within(ref) /\ ref.head \in Nat
    BY <1>2 DEF Exists, TypeOK, StoreTypeOK, HeadInv, Ref
  <2>3. o.txid = ref.head + 1
    BY <2>1 DEF Ours
  <2>4. /\ w.new.lineage = ref.lineage /\ w.new.head = o.txid
        /\ w.new.cps = SetCheckpoint(ref.cps, ns, o)
    BY <2>1, <2>2 DEF FlushAdvance, Advance, ClearLease, Ref
  <2>5. \A cp \in w.new.cps : cp \in ref.cps \/ (cp.txid = o.txid /\ cp.epoch = o.epoch)
    BY SMT, <2>4 DEF SetCheckpoint
  <2>6. \A cp \in ref.cps : cp.txid \in Nat /\ cp.txid <= ref.head
    BY <2>2 DEF Within, Below, Ref, Checkpoint
  <2>7. Within(w.new)
    BY SMT, <2>2, <2>3, <2>4, <2>5, <2>6 DEF Within, Below
  <2>8. QED
    BY <1>2, <2>1, <2>4, <2>5, <2>7 DEF Grows
<1>3. CASE Exists /\ Repointed(w)
  <2>1. PICK t, cps, base :
          /\ Below(cps, t)
          /\ w = [expect |-> ref, commits |-> {},
                  new |-> Repoint(ref, lineages + 1, t, cps, base)]
    BY <1>3 DEF Repointed
  <2>2. ref \in Ref /\ lineages \in Nat /\ ref.lineage <= lineages /\ ref.lineage \in Nat
    BY <1>3, LineageMinted DEF Exists, TypeOK, StoreTypeOK
  <2>3. /\ Repoint(ref, lineages + 1, t, cps, base).lineage = lineages + 1
        /\ Repoint(ref, lineages + 1, t, cps, base).head = t
        /\ Repoint(ref, lineages + 1, t, cps, base).cps = cps
    BY <2>2 DEF Repoint, ClearLease, Ref
  <2>4. w.expect = ref /\ w.new = Repoint(ref, lineages + 1, t, cps, base) /\ w.commits = {}
    BY <2>1
  <2>5. QED
    BY SMT, <2>1, <2>2, <2>3, <2>4 DEF Grows, Within
<1>4. CASE Recopied(p, w)
  <2>1. PICK v \in write[p] : w = [v EXCEPT !.new = Copied(@)]
    BY <1>4 DEF Recopied
  <2>2. v \in Pending /\ v.new.lineage > v.expect.lineage
    BY <1>4, <2>1 DEF Recopied, Pending, Procs, GrowInv
  <2>3. v \in RefWrite /\ Grows(v)
    BY <2>2, UploadsType DEF GrowInv
  <2>4. w.expect = v.expect /\ w.new = Copied(v.new) /\ w.commits = v.commits
    BY <2>1, <2>3 DEF RefWrite
  <2>5. /\ w.new.lineage = v.new.lineage /\ w.new.head = v.new.head
        /\ w.new.cps = {[cp EXCEPT !.epoch = 1] : cp \in v.new.cps}
    BY <2>3, <2>4 DEF Copied, RefWrite, Ref
  <2>6. Within(w.new)
    <3>1. \A cp \in v.new.cps : cp \in Checkpoint /\ cp.txid <= v.new.head
      BY <2>3 DEF Grows, Within, Below, RefWrite, Ref
    <3>2. \A cp \in v.new.cps : [cp EXCEPT !.epoch = 1].txid = cp.txid
      BY <3>1 DEF Checkpoint
    <3>3. QED
      BY <2>5, <3>1, <3>2 DEF Within, Below
  <2>7. v.commits = {}
    <3>1. v.new.lineage \in Nat /\ v.expect.lineage \in Nat
      BY <2>3 DEF RefWrite, Ref
    <3>2. QED
      BY SMT, <2>2, <2>3, <3>1 DEF Grows
  <2>8. QED
    BY <2>2, <2>4, <2>5, <2>6, <2>7 DEF Grows
<1>5. QED
  BY <1>1, <1>2, <1>3, <1>4 DEF Made

(* A step keeps the writes on their way growing the branch.                 *)
LEMMA GrowStep ==
  ASSUME TypeOK, TypeOK', Fencing, HeadInv, GrowInv, NEW p, NEW W, NEW P, StepOf(p, W, P)
  PROVE  GrowInv'
<1>1. \A w \in W : Grows(w) /\ (p \in Repointers => w.new.lineage > w.expect.lineage)
  BY MadeGrows DEF StepOf
<1>2. \A w \in Pending' : Grows(w)
  BY <1>1, PendingStep DEF GrowInv
<1>3. ASSUME NEW q \in Repointers, NEW w \in write'[q] PROVE w.new.lineage > w.expect.lineage
  <2>1. CASE w \in write[q]
    BY <2>1 DEF GrowInv
  <2>2. CASE w \notin write[q]
    <3>1. write \in [Procs -> SUBSET RefWrite] /\ q \in Procs
      BY DEF TypeOK, ProcTypeOK, Procs
    <3>2. q = p /\ w \in W
      BY <1>3, <2>2, <3>1 DEF StepOf
    <3>3. QED
      BY <1>1, <3>2
  <2>3. QED
    BY <2>1, <2>2
<1>4. QED
  BY <1>2, <1>3 DEF GrowInv, Grows, Within, Below

(* The ref moves to a later lineage, publishing nothing, or keeps its own   *)
(* and its head grows to what it publishes.                                 *)
HeadGrows ==
  /\ Exists /\ Within(ref)'
  /\ \/ ref'.lineage > ref.lineage /\ committed' = committed
     \/ /\ ref'.lineage = ref.lineage /\ ref'.head >= ref.head
        /\ \A o \in committed' \ committed : o.txid = ref'.head

(* A step that leaves a ref grows its head.                                 *)
LEMMA RefGrows ==
  ASSUME TypeOK, TypeOK', PublishesOwn, HeadInv, GrowInv, RefMoves, ref' # Gone
  PROVE  HeadGrows
<1>1. ref' \in Ref
  BY DEF TypeOK, StoreTypeOK
<1>2. CASE ref' = ref /\ committed' = committed
  <2>1. ref \in Ref /\ Exists /\ Within(ref)
    BY <1>1, <1>2, StoreAssumption DEF Exists, HeadInv
  <2>2. Within(ref)'
    BY <1>2, <2>1 DEF Within, Below
  <2>3. QED
    BY SMT, <1>2, <2>1, <2>2 DEF HeadGrows, Ref
<1>3. CASE Edited /\ committed' = committed
  <2>1. ref \in Ref /\ Exists /\ Within(ref)
    BY <1>3 DEF Edited, Exists, HeadInv, TypeOK, StoreTypeOK
  <2>2. Within(ref)'
    BY <1>3, <2>1 DEF Within, Below, Edited
  <2>3. QED
    BY SMT, <1>3, <2>1, <2>2 DEF HeadGrows, Ref, Edited
<1>4. ASSUME NEW v \in Pending, ref = v.expect, Apply(v) PROVE HeadGrows
  <2>1. v \in RefWrite /\ Grows(v) /\ ref \in Ref /\ Exists
    BY <1>4, UploadsType, StoreAssumption DEF RefWrite, GrowInv, Exists
  <2>2. ref' = v.new /\ committed' = committed \cup v.commits
    BY <1>4 DEF Apply
  <2>3. Within(ref)'
    BY <2>1, <2>2 DEF Grows, Within, Below
  <2>4. \A o \in v.commits : o.txid = ref.head + 1
    BY <1>4 DEF PublishesOwn
  <2>5. CASE v.new.lineage > v.expect.lineage /\ v.commits = {}
    BY <1>4, <2>1, <2>2, <2>3, <2>5 DEF HeadGrows
  <2>6. CASE v.new.lineage = v.expect.lineage /\ v.commits = {} /\ v.new.head = v.expect.head
    BY SMT, <1>4, <2>1, <2>2, <2>3, <2>6 DEF HeadGrows, Ref
  <2>7. ASSUME v.new.lineage = v.expect.lineage,
               NEW o \in v.commits, v.commits = {o}, v.new.head = o.txid
        PROVE  HeadGrows
    BY SMT, <1>4, <2>1, <2>2, <2>3, <2>4, <2>7 DEF HeadGrows, Ref
  <2>8. QED
    BY <2>1, <2>5, <2>6, <2>7 DEF Grows
<1>5. QED
  BY <1>2, <1>3, <1>4 DEF RefMoves

(* What is prepared publishes an object its writer plans, or nothing.       *)
LEMMA MadeCommits ==
  ASSUME TypeOK, GrowInv, NEW p, NEW w, Made(p, w)
  PROVE  w.commits = {} \/ (p \in Holders /\ w.commits \subseteq plan'[p])
<1>1. CASE Acquires(w) \/ Repointed(w)
  BY SMT, <1>1 DEF Acquires, Repointed
<1>2. CASE Publishing(p, w)
  BY <1>2 DEF Publishing
<1>3. CASE Recopied(p, w)
  <2>1. PICK v \in write[p] : w = [v EXCEPT !.new = Copied(@)]
    BY <1>3 DEF Recopied
  <2>2. v \in Pending /\ v.new.lineage > v.expect.lineage
    BY <1>3, <2>1 DEF Recopied, Pending, Procs, GrowInv
  <2>3. v \in RefWrite /\ Grows(v)
    BY <2>2, UploadsType DEF GrowInv
  <2>4. w.commits = v.commits /\ v.new.lineage \in Nat /\ v.expect.lineage \in Nat
    BY <2>1, <2>3 DEF RefWrite, Ref
  <2>5. QED
    BY SMT, <2>2, <2>3, <2>4 DEF Grows
<1>4. QED
  BY <1>1, <1>2, <1>3 DEF Made

(* The objects there are after a step.                                      *)
LEMMA UploadsStep ==
  ASSUME TypeOK, GrowInv, NEW p, NEW W, NEW P, StepOf(p, W, P)
  PROVE  /\ Uploads' \subseteq Uploads \cup P
         /\ \A q \in Procs : plan'[q] \subseteq plan[q] \cup P
         /\ \A w \in W : w.commits = {} \/ (p \in Holders /\ w.commits \subseteq plan'[p])
<1>1. plan \in [Procs -> SUBSET Object]
  BY DEF TypeOK, ProcTypeOK
<1>2. \A q \in Procs : plan'[q] \subseteq plan[q] \cup P
  BY <1>1 DEF StepOf
<1>3. \A w \in W : w.commits = {} \/ (p \in Holders /\ w.commits \subseteq plan'[p])
  BY MadeCommits DEF StepOf
<1>4. committed' \subseteq Uploads
  BY DEF StepOf, RefMoves, Apply, Uploads
<1>5. objs' \subseteq Uploads
  BY DEF StepOf
<1>6. \A q \in Procs : plan'[q] \subseteq Uploads \cup P
  BY <1>2 DEF Uploads
<1>7. \A w \in Pending' : w.commits \subseteq Uploads \cup P
  <2>1. \A w \in Pending : w.commits \subseteq Uploads
    BY DEF Uploads
  <2>2. \A w \in W : w.commits \subseteq Uploads \cup P
    BY <1>3, <1>6 DEF Procs
  <2>3. QED
    BY <2>1, <2>2, PendingStep
<1>8. Uploads' \subseteq Uploads \cup P
  BY SMT, <1>4, <1>5, <1>6, <1>7 DEF Uploads
<1>9. QED
  BY <1>2, <1>3, <1>8

(* A step keeps the head above what was committed, and next to what is      *)
(* planned.                                                                 *)
LEMMA HeadStep ==
  ASSUME TypeOK, TypeOK', Fencing, PublishesOwn, HeadInv, GrowInv, NEW p, NEW W, NEW P,
         StepOf(p, W, P)
  PROVE  HeadInv'
<1> SUFFICES ASSUME ref' # Gone
             PROVE  /\ Within(ref)'
                    /\ \A o \in Uploads' : o.lineage = ref'.lineage => o.txid <= ref'.head + 1
                    /\ \A o \in committed' : o.lineage = ref'.lineage => o.txid <= ref'.head
  BY DEF HeadInv, Exists
<1>1. HeadGrows
  BY RefGrows DEF StepOf
<1>2. ref \in Ref /\ ref' \in Ref /\ Exists
  BY <1>1 DEF HeadGrows, Exists, TypeOK, StoreTypeOK
<1>3. \A o \in Uploads : o \in Object /\ o.lineage <= ref.lineage
  BY SMT, <1>2, UploadsType, FencingParts DEF AheadOfAll, Behind, Object, Ref
<1>4. committed \subseteq Uploads
  BY DEF Uploads
<1>5. ASSUME NEW o \in Uploads, o.lineage = ref'.lineage PROVE o.txid <= ref'.head + 1
  <2>1. ref'.lineage = ref.lineage /\ ref'.head >= ref.head
    BY SMT, <1>1, <1>2, <1>3, <1>5 DEF HeadGrows, Object, Ref
  <2>2. o.txid <= ref.head + 1
    BY <1>2, <1>5, <2>1 DEF HeadInv
  <2>3. QED
    BY SMT, <1>2, <1>3, <2>1, <2>2 DEF Object, Ref
<1>6. ASSUME NEW o \in committed', o.lineage = ref'.lineage PROVE o.txid <= ref'.head
  <2>1. CASE o \in committed
    <3>1. ref'.lineage = ref.lineage /\ ref'.head >= ref.head
      BY SMT, <1>1, <1>2, <1>3, <1>4, <1>6, <2>1 DEF HeadGrows, Object, Ref
    <3>2. o.txid <= ref.head
      BY <1>2, <1>6, <2>1, <3>1 DEF HeadInv
    <3>3. QED
      BY SMT, <1>2, <1>3, <1>4, <2>1, <3>1, <3>2 DEF Object, Ref
  <2>2. CASE o \notin committed
    BY SMT, <1>1, <1>2, <1>6, <2>2 DEF HeadGrows, Ref
  <2>3. QED
    BY <2>1, <2>2
<1>7. ASSUME NEW o \in P, o.lineage = ref'.lineage PROVE o.txid <= ref'.head + 1
  BY SMT, <1>2, <1>7 DEF StepOf, Follows, Ref
<1>8. QED
  BY <1>1, <1>5, <1>6, <1>7, UploadsStep DEF HeadGrows

(* A step keeps the checkpoints on the ref to what was committed.           *)
LEMMA RecordsStep ==
  ASSUME TypeOK, TypeOK', Fencing, PublishesOwn, HeadInv, HeadInv', GrowInv, PlansOnce,
         RecordsOwn, NEW p, NEW W, NEW P, StepOf(p, W, P)
  PROVE  RecordsOwn'
<1> SUFFICES ASSUME ref' # Gone, NEW c \in Checkpointers, NEW o \in plan'[c],
                    o.lineage = ref'.lineage,
                    NEW cp \in ref'.cps, cp.txid = o.txid, cp.epoch = o.epoch
             PROVE  o \in committed'
  BY DEF RecordsOwn, Exists
<1>1. c \in Procs /\ ref' \in Ref /\ cp.txid \in Nat /\ cp.txid <= ref'.head /\ ref'.head \in Nat
  BY ProcessAssumption DEF Procs, TypeOK, StoreTypeOK, HeadInv, Exists, Within, Below, Ref, Checkpoint
<1>2. o \in plan[c] /\ o \in Uploads
  <2>1. o \notin P
    BY SMT, <1>1 DEF StepOf, Follows
  <2>2. o \in plan[c]
    BY <1>1, <2>1, UploadsStep
  <2>3. QED
    BY <1>1, <2>2 DEF Uploads
<1>3. committed \subseteq committed'
  BY DEF StepOf, RefMoves, Apply
<1>4. CASE (ref' = ref \/ Edited) /\ committed' = committed
  <2>1. Exists /\ ref'.lineage = ref.lineage /\ ref'.cps \subseteq ref.cps
    BY <1>4 DEF Edited, Exists
  <2>2. QED
    BY <1>2, <1>3, <2>1 DEF RecordsOwn
<1>5. ASSUME NEW v \in Pending, ref = v.expect, Apply(v) PROVE o \in committed'
  <2>1. v \in RefWrite /\ Grows(v) /\ ref \in Ref /\ Exists
    BY <1>5, UploadsType, StoreAssumption DEF RefWrite, GrowInv, Exists
  <2>2. ref' = v.new /\ committed' = committed \cup v.commits
    BY <1>5 DEF Apply
  <2>3. o \in Object /\ o.lineage <= ref.lineage
    BY SMT, <1>2, <2>1, UploadsType, FencingParts DEF AheadOfAll, Behind, Object, Ref
  <2>4. v.new.lineage = v.expect.lineage
    BY SMT, <1>1, <1>5, <2>1, <2>2, <2>3 DEF Grows, Object, Ref
  <2>5. cp \in ref.cps \/ \E u \in v.commits : cp.txid = u.txid /\ cp.epoch = u.epoch
    BY SMT, <1>5, <2>1, <2>2, <2>4 DEF Grows, Ref
  <2>6. CASE cp \in ref.cps
    BY <1>2, <1>3, <1>5, <2>1, <2>2, <2>4, <2>6 DEF RecordsOwn
  <2>7. ASSUME NEW u \in v.commits, cp.txid = u.txid, cp.epoch = u.epoch PROVE o \in committed'
    <3>1. u \in Uploads
      BY DEF Uploads
    <3>2. u.lineage = o.lineage /\ u.epoch = o.epoch
      BY <1>5, <2>2, <2>4, <2>7 DEF PublishesOwn
    <3>3. u.by = c
      BY SMT, <1>1, <1>2, <3>1, <3>2, FencingParts DEF OneWriter, PublishesOwn
    <3>4. u = o
      BY SMT, <1>2, <3>1, <3>3 DEF PlansOnce
    <3>5. QED
      BY <2>2, <3>4
  <2>8. QED
    BY <2>5, <2>6, <2>7
<1>6. QED
  BY <1>4, <1>5 DEF StepOf, RefMoves

-----------------------------------------------------------------------------
(* What a call is told.                                                     *)

\* What the lemmas below use of the state before and after a step.
Sound ==
  /\ TypeOK /\ TypeOK' /\ Fencing /\ RefForward /\ PublishesOwn /\ PublishesOwn'
  /\ VerdictInv /\ HeadInv'

(* An object's lease is on the ref after a step only if it was before.      *)
LEMMA LeaseNotBack ==
  ASSUME TypeOK, TypeOK', Fencing, RefForward, NEW o \in Uploads,
         ref' # Gone, WrittenUnder(o, ref')
  PROVE  Exists /\ WrittenUnder(o, ref)
<1>1. CASE ref' = ref
  BY <1>1 DEF Exists
<1>2. CASE Exists /\ ref' \in Ref /\ Forward(ref, ref')
  <2>1. ref \in Ref /\ o \in Object
    BY <1>2, UploadsType DEF Exists, TypeOK, StoreTypeOK
  <2>2. Behind(o, ref)
    BY <1>2, FencingParts DEF AheadOfAll
  <2>3. QED
    BY SMT, <1>2, <2>1, <2>2 DEF Behind, Forward, WrittenUnder, Ref, Object
<1>3. QED
  BY <1>1, <1>2 DEF RefForward

(* What cannot be published cannot after a step that makes no head write of *)
(* it.                                                                      *)
LEMMA StaysDead ==
  ASSUME Sound, NEW p, NEW W, NEW P, StepOf(p, W, P), NEW o \in Uploads,
         o.by \in Checkpointers, \A w \in W : o \notin w.commits
  PROVE  (Dead(o) => Dead(o)') /\ (Unsent(o) => Unsent(o)')
<1>1. TypeOK /\ TypeOK' /\ Fencing /\ RefForward /\ PublishesOwn
  BY DEF Sound
<1>2. \A w \in Pending' : o \in w.commits => w \in Pending
  BY <1>1, PendingStep
<1>3. ASSUME o \notin committed, o \in committed'
      PROVE  Exists /\ WrittenUnder(o, ref) /\ \E v \in Pending : o \in v.commits
  <2>1. PICK v \in Pending : ref = v.expect /\ Apply(v)
    BY <1>3 DEF StepOf, RefMoves
  <2>2. o \in v.commits
    BY <1>3, <2>1 DEF Apply
  <2>3. v \in RefWrite /\ o \in Object
    BY <1>1, UploadsType
  <2>4. Holds(ref, o.by, o.epoch) /\ o.lineage = ref.lineage /\ Exists
    BY <1>1, <2>1, <2>2, <2>3, StoreAssumption DEF PublishesOwn, RefWrite, Exists
  <2>5. o.by # NoHolder
    BY ProcessAssumption, HolderAssumption
  <2>6. QED
    BY <2>2, <2>4, <2>5 DEF WrittenUnder, Holds
<1>4. Unsent(o) => Unsent(o)'
  BY <1>2, <1>3 DEF Unsent
<1>5. ASSUME Dead(o) PROVE Dead(o)'
  <2>1. o \notin committed'
    BY <1>3, <1>5 DEF Dead
  <2>2. ASSUME ref' # Gone, WrittenUnder(o, ref') PROVE \A w \in Pending' : o \notin w.commits
    BY <1>1, <1>2, <1>5, <2>2, LeaseNotBack DEF Dead
  <2>3. QED
    BY <2>1, <2>2 DEF Dead, Exists, WrittenUnder
<1>6. QED
  BY <1>4, <1>5

(* What a call plans is of its own making: no one else makes a head write   *)
(* of it.                                                                   *)
LEMMA PlannedStays ==
  ASSUME Sound, NEW p, NEW W, NEW P, StepOf(p, W, P), NEW c \in Checkpointers,
         c # p \/ W = {}, NEW o \in plan[c]
  PROVE  (Dead(o) => Dead(o)') /\ (Unsent(o) => Unsent(o)')
<1>1. TypeOK /\ GrowInv /\ PublishesOwn /\ PublishesOwn' /\ c \in Procs
  BY ProcessAssumption DEF Sound, VerdictInv, Procs
<1>2. o \in Uploads /\ o.by = c
  BY <1>1 DEF Uploads, PublishesOwn
<1>3. \A w \in W : o \notin w.commits
  <2> SUFFICES ASSUME NEW w \in W, c # p PROVE o \notin w.commits
    OBVIOUS
  <2>1. w.commits = {} \/ (p \in Holders /\ w.commits \subseteq plan'[p])
    BY <1>1, UploadsStep
  <2>2. p \in Holders => \A u \in plan'[p] : u.by = p
    BY <1>1 DEF PublishesOwn, Procs
  <2>3. QED
    BY <1>2, <2>1, <2>2
<1>4. QED
  BY <1>2, <1>3, StaysDead

\* The step leaves c where it was.
Stands(c) == pc'[c] = pc[c] /\ tries'[c] = tries[c] /\ plan'[c] = plan[c]

(* A call that a step leaves where it was stays as truthful.                *)
LEMMA StandsTrue ==
  ASSUME Sound, NEW p, NEW W, NEW P, StepOf(p, W, P), NEW c \in Checkpointers,
         c # p \/ W = {}, Stands(c)
  PROVE  DenyOf(c)' /\ \A o \in denied : o.by = c => DeniedBy(o)'
<1>1. DenyOf(c) /\ \A o \in denied : DeniedBy(o)
  BY DEF Sound, VerdictInv, DenyInv
<1>2. Fresh(c)' = Fresh(c) /\ plan'[c] = plan[c] /\ pc'[c] = pc[c]
  BY DEF Fresh, Stands
<1>3. \A o \in plan[c] : (Dead(o) => Dead(o)') /\ (Unsent(o) => Unsent(o)')
  BY PlannedStays
<1>4. DenyOf(c)'
  BY <1>1, <1>2, <1>3 DEF DenyOf
<1>5. ASSUME NEW o \in denied, o.by = c PROVE DeniedBy(o)'
  <2>1. Dead(o) /\ o \in plan[c] /\ pc[c] \in {"ckRelease", "ckClear", "done"}
    BY <1>1, <1>5 DEF DeniedBy
  <2>2. QED
    BY <1>2, <1>3, <1>5, <2>1 DEF DeniedBy
<1>6. QED
  BY <1>4, <1>5

(* So it is enough to look at the call that takes the step.                 *)
LEMMA DenyStep ==
  ASSUME Sound, NEW p, NEW W, NEW P, StepOf(p, W, P),
         \A c \in Checkpointers : c # p => Stands(c),
         p \in Checkpointers => DenyOf(p)',
         \A o \in denied' : (o \in denied /\ o.by # p) \/ DeniedBy(o)'
  PROVE  DenyInv'
<1>1. \A c \in Checkpointers : c # p => DenyOf(c)' /\ \A o \in denied : o.by = c => DeniedBy(o)'
  BY SMT, StandsTrue
<1>2. \A c \in Checkpointers : DenyOf(c)'
  BY <1>1
<1>3. \A o \in denied : o.by \in Checkpointers
  BY DEF Sound, VerdictInv, DenyInv, DeniedBy
<1>4. \A o \in denied' : DeniedBy(o)'
  BY <1>1, <1>3
<1>5. QED
  BY <1>2, <1>4 DEF DenyInv

(* A step plans nothing for a call, or its first object.                    *)
LEMMA PlansStep ==
  ASSUME Sound, NEW p, NEW W, NEW P, StepOf(p, W, P),
         P = {} \/ p \in Holders,
         \A c \in Checkpointers : c # p => Stands(c),
         p \in Checkpointers =>
           \/ P = {} /\ plan'[p] = plan[p] /\ (pc'[p] \in Early => pc[p] \in Early)
           \/ pc[p] \in Early /\ pc'[p] \notin Early /\ plan'[p] = P /\ \E o : P = {o}
  PROVE  PlansOnce'
<1>1. TypeOK /\ GrowInv /\ PlansOnce
  BY DEF Sound, VerdictInv
<1>2. \A o \in P : o.by = p
  BY DEF StepOf, Follows
<1>3. ASSUME NEW c \in Checkpointers
      PROVE  (\A o, u \in plan'[c] : o = u) /\ (pc'[c] \in Early => plan'[c] = {})
  BY SMT, <1>1, <1>3 DEF PlansOnce, Stands
<1>4. ASSUME NEW o \in Uploads'
      PROVE  (o.by \in Checkpointers => o \in plan'[o.by]) /\ (o.by = NoHolder => o = FirstObject)
  <2>1. CASE o \in P
    <3>1. o.by = p /\ p \in Holders
      BY <1>2, <2>1
    <3>2. QED
      BY <2>1, <3>1, HolderAssumption
  <2>2. CASE o \in Uploads
    <3>1. (o.by \in Checkpointers => o \in plan[o.by]) /\ (o.by = NoHolder => o = FirstObject)
      BY <1>1, <2>2 DEF PlansOnce
    <3>2. o.by \in Checkpointers => o \in plan'[o.by]
      BY <1>1, <3>1 DEF PlansOnce, Stands
    <3>3. QED
      BY <3>1, <3>2
  <2>3. QED
    BY <1>1, <2>1, <2>2, UploadsStep
<1>5. QED
  BY <1>3, <1>4 DEF PlansOnce

(* The steps of sessions, of repoints and of everyone else: they tell no    *)
(* call anything.                                                           *)
LEMMA ForeignVerdicts ==
  ASSUME Sound, NEW p, NEW W, NEW P, StepOf(p, W, P), p \notin Checkpointers,
         P = {} \/ p \in Holders,
         pc' = pc \/ \E x : pc' = [pc EXCEPT ![p] = x],
         tries' = tries \/ \E x : tries' = [tries EXCEPT ![p] = x],
         denied' = denied
  PROVE  PlansOnce' /\ DenyInv'
<1>1. pc \in [Procs -> Labels] /\ tries \in [Procs -> Nat] /\ plan \in [Procs -> SUBSET Object]
  BY DEF Sound, TypeOK, ProcTypeOK, Labels
<1>2. \A c \in Checkpointers : c \in Procs /\ c # p
  BY ProcessAssumption DEF Procs
<1>3. \A c \in Checkpointers : Stands(c)
  <2>1. \A c \in Checkpointers : pc'[c] = pc[c]
    BY <1>1, <1>2
  <2>2. \A c \in Checkpointers : tries'[c] = tries[c]
    BY <1>1, <1>2
  <2>3. \A c \in Checkpointers : plan'[c] = plan[c]
    BY <1>1, <1>2 DEF StepOf
  <2>4. QED
    BY <2>1, <2>2, <2>3 DEF Stands
<1>4. \A o \in denied : o.by # p
  BY <1>2 DEF Sound, VerdictInv, DenyInv, DeniedBy
<1>5. DenyInv'
  BY <1>3, <1>4, DenyStep
<1>6. QED
  BY <1>3, <1>5, PlansStep

-----------------------------------------------------------------------------
(* What a checkpoint call is told, step by step.                            *)

\* What a step of c keeps.
Truthful == PlansOnce' /\ DenyInv' /\ AckInv'

(* The steps of a call leave the other calls where they are.                *)
LEMMA CkStands ==
  ASSUME Sound, NEW c \in Checkpointers, CheckpointNext(c)
  PROVE  /\ \A d \in Checkpointers : d # c => Stands(d)
         /\ committed \subseteq committed'
         /\ UNCHANGED plan \/ \E P : plan' = [plan EXCEPT ![c] = P]
<1>1. pc \in [Procs -> Labels] /\ tries \in [Procs -> Nat] /\ plan \in [Procs -> SUBSET Object]
  BY DEF Sound, TypeOK, ProcTypeOK, Labels
<1>2. \A d \in Checkpointers : d \in Procs
  BY ProcessAssumption DEF Procs
<1>3. pc' = pc \/ \E x : pc' = [pc EXCEPT ![c] = x]
  BY DEF CheckpointNext, CkStart, CkAcquire, CkTake, CkSettle, CkUpload, CkJoin, CkCommit, CkAdvance,
         CkDelete, CkRelease, CkClear, Renew, Crash, Goto, Leased, Refuse, RefuseLeased
<1>4. tries' = tries \/ \E x : tries' = [tries EXCEPT ![c] = x]
  BY DEF CheckpointNext, CkStart, CkAcquire, CkTake, CkSettle, CkUpload, CkJoin, CkCommit, CkAdvance,
         CkDelete, CkRelease, CkClear, Renew, Crash
<1>5. UNCHANGED plan \/ \E P : plan' = [plan EXCEPT ![c] = P]
  BY DEF CheckpointNext, CkStart, CkAcquire, CkTake, CkSettle, CkUpload, CkJoin, CkCommit, CkAdvance,
         CkDelete, CkRelease, CkClear, Renew, Crash, Leased, Refuse, RefuseLeased
<1>6. committed \subseteq committed'
  BY DEF CheckpointNext, CkStart, CkAcquire, CkTake, CkSettle, CkUpload, CkJoin, CkCommit, CkAdvance,
         CkDelete, CkRelease, CkClear, Renew, Crash, PutRef, Apply, ReadFails, storeVars
<1>7. \A d \in Checkpointers : d # c => pc'[d] = pc[d]
  BY <1>1, <1>2, <1>3
<1>8. \A d \in Checkpointers : d # c => tries'[d] = tries[d]
  BY <1>1, <1>2, <1>4
<1>9. \A d \in Checkpointers : d # c => plan'[d] = plan[d]
  BY <1>1, <1>2, <1>5
<1>10. QED
  BY <1>5, <1>6, <1>7, <1>8, <1>9 DEF Stands

(* A call that has told its caller nothing has denied nothing.              *)
LEMMA NotYetDenied ==
  ASSUME Sound, NEW c, pc[c] \notin {"ckRelease", "ckClear", "done"}
  PROVE  \A o \in denied : o.by # c
BY DEF Sound, VerdictInv, DenyInv, DeniedBy

(* Before it has the lease, a call has planned nothing.                     *)
LEMMA EarlyTruthful ==
  ASSUME Sound, NEW c \in Checkpointers, CheckpointNext(c), pc[c] \in Early, plan' = plan,
         UNCHANGED <<acked, denied>>, NEW W, StepOf(c, W, {})
  PROVE  Truthful
<1>1. plan[c] = {} /\ AckInv
  BY DEF Sound, VerdictInv, PlansOnce
<1>2. DenyOf(c)'
  BY <1>1 DEF DenyOf
<1>3. \A o \in denied : o.by # c
  BY NotYetDenied DEF Early
<1>4. \A d \in Checkpointers : d # c => Stands(d)
  BY CkStands
<1>5. DenyInv'
  BY <1>2, <1>3, <1>4, DenyStep
<1>6. PlansOnce'
  BY <1>4, PlansStep
<1>7. AckInv'
  BY <1>1, CkStands DEF AckInv
<1>8. QED
  BY <1>5, <1>6, <1>7 DEF Truthful

(* The object a call plans when it has the lease is not published.          *)
LEMMA LeasedTruthful ==
  ASSUME Sound, NEW c \in Checkpointers, CheckpointNext(c), pc[c] \in Early,
         UNCHANGED <<acked, denied>>,
         NEW o, StepOf(c, {}, {o}), plan' = [plan EXCEPT ![c] = {o}], Follows(c, o),
         pc' = [pc EXCEPT ![c] = "ckUpload"]
  PROVE  Truthful
<1>1. plan[c] = {} /\ AckInv /\ TypeOK /\ TypeOK' /\ HeadInv' /\ PlansOnce
  BY DEF Sound, VerdictInv, PlansOnce
<1>2. c \in Procs /\ c \in Holders /\ pc \in [Procs -> Labels] /\ plan \in [Procs -> SUBSET Object]
  BY <1>1, ProcessAssumption DEF Procs, TypeOK, ProcTypeOK, Labels
<1>3. plan'[c] = {o} /\ pc'[c] = "ckUpload"
  BY <1>2
<1>4. o \notin committed'
  <2>1. ref' \in Ref /\ o \in Object
    BY <1>1, <1>2, <1>3 DEF TypeOK, StoreTypeOK, ProcTypeOK, Follows
  <2>2. QED
    BY SMT, <1>1, <2>1 DEF HeadInv, Follows, Exists, Ref
<1>5. \A w \in Pending' : o \notin w.commits
  <2>1. Pending' \subseteq Pending
    BY <1>1, PendingStep
  <2>2. o \notin Uploads
    BY <1>1 DEF PlansOnce, Follows
  <2>3. QED
    BY <2>1, <2>2 DEF Uploads
<1>6. DenyOf(c)'
  BY <1>3, <1>4, <1>5 DEF DenyOf, Unsent
<1>7. \A u \in denied : u.by # c
  BY NotYetDenied DEF Early
<1>8. \A d \in Checkpointers : d # c => Stands(d)
  BY CkStands
<1>9. DenyInv'
  BY <1>6, <1>7, <1>8, DenyStep
<1>10. PlansOnce'
  <2>1. pc'[c] \notin Early
    BY <1>3 DEF Early
  <2> DEFINE P == {o}
  <2>2. StepOf(c, {}, P) /\ plan'[c] = P /\ \E u : P = {u}
    BY <1>3
  <2> HIDE DEF P
  <2>3. QED
    BY SMT, <1>2, <1>8, <2>1, <2>2, PlansStep
<1>11. AckInv'
  BY <1>1, CkStands DEF AckInv
<1>12. QED
  BY <1>9, <1>10, <1>11 DEF Truthful

(* Acquiring the lease.                                                     *)
LEMMA AcquireTruthful ==
  ASSUME Sound, NEW c \in Checkpointers,
         (\E n \in UserNames : CkStart(c, n)) \/ CkAcquire(c) \/ CkTake(c) \/ CkSettle(c)
  PROVE  Truthful
<1>1. CheckpointNext(c) /\ pc[c] \in Early /\ UNCHANGED <<acked, denied>> /\ TypeOK /\ TypeOK'
  BY DEF CheckpointNext, CkStart, CkAcquire, CkTake, CkSettle, Early, Sound
<1>2. CASE \E n \in UserNames : CkStart(c, n)
  <2>1. plan' = plan
    BY <1>2 DEF CkStart
  <2>2. QED
    BY <1>1, <1>2, <2>1, CkQuietStep, EarlyTruthful
<1>3. CASE CkAcquire(c)
  BY <1>1, <1>3, CkAcquireStep, EarlyTruthful
<1>4. CASE CkTake(c) \/ CkSettle(c)
  BY <1>1, <1>4, CkLeasedStep, EarlyTruthful, LeasedTruthful
<1>5. QED
  BY <1>2, <1>3, <1>4

(* A step of a call that has planned its object: it is enough to look at    *)
(* that object.                                                             *)
LEMMA PlannedTruthful ==
  ASSUME Sound, NEW c \in Checkpointers, CheckpointNext(c), plan' = plan,
         pc[c] \notin Early, pc'[c] \notin Early, NEW W, StepOf(c, W, {}),
         \A o \in plan[c] : /\ Fresh(c)' => Unsent(o)'
                            /\ pc'[c] = "ckDelete" => Dead(o)'
                            /\ o \in denied' =>
                                 Dead(o)' /\ pc'[c] \in {"ckRelease", "ckClear", "done"},
         denied' \subseteq denied \cup plan[c], acked' \subseteq committed'
  PROVE  Truthful
<1>1. PublishesOwn /\ PlansOnce /\ c \in Procs
  BY ProcessAssumption DEF Sound, VerdictInv, Procs
<1>2. \A d \in Checkpointers : d # c => Stands(d)
  BY CkStands
<1>3. DenyOf(c)'
  BY DEF DenyOf
<1>4. ASSUME NEW o \in denied' PROVE (o \in denied /\ o.by # c) \/ DeniedBy(o)'
  <2>1. CASE o \in plan[c]
    <3>1. o.by = c
      BY <1>1, <2>1 DEF PublishesOwn
    <3>2. QED
      BY <1>4, <2>1, <3>1 DEF DeniedBy
  <2>2. CASE o \notin plan[c]
    <3>1. o \in denied
      BY <1>4, <2>2
    <3>2. o.by # c
      BY <2>2, <3>1 DEF Sound, VerdictInv, DenyInv, DeniedBy
    <3>3. QED
      BY <3>1, <3>2
  <2>3. QED
    BY <2>1, <2>2
<1>5. DenyInv'
  BY <1>2, <1>3, <1>4, DenyStep
<1>6. PlansOnce'
  BY <1>2, PlansStep
<1>7. QED
  BY <1>5, <1>6 DEF Truthful, AckInv

(* What is unsent is dead.                                                  *)
LEMMA UnsentDead ==
  ASSUME NEW o, Unsent(o) PROVE Dead(o)
BY DEF Unsent, Dead

(* Uploading: before any head write, the call may say that it did not       *)
(* commit.                                                                  *)
LEMMA UploadTruthful ==
  ASSUME Sound, NEW c \in Checkpointers, CkUpload(c) \/ CkJoin(c)
  PROVE  Truthful
<1>1. CheckpointNext(c) /\ TypeOK /\ c \in Procs
  BY ProcessAssumption DEF CheckpointNext, Sound, Procs
<1>2. plan' = plan /\ acked' = acked /\ denied' \subseteq denied \cup plan[c]
  BY DEF CkUpload, CkJoin, Deny
<1>3. pc[c] \notin Early /\ Fresh(c)
  BY DEF CkUpload, CkJoin, Early, Fresh
<1>4. StepOf(c, {}, {})
  BY <1>1, CkQuietStep
<1>5. pc \in [Procs -> Labels] /\ tries \in [Procs -> Nat]
  BY <1>1 DEF TypeOK, ProcTypeOK, Labels
<1>6. /\ pc'[c] \in {"ckJoin", "ckRelease", "ckDelete", "ckCommit"}
      /\ denied' # denied => pc'[c] = "ckRelease"
  BY <1>1, <1>5 DEF CkUpload, CkJoin, Goto
<1>7. \A o \in plan[c] : Unsent(o)' /\ Dead(o)' /\ o \notin denied
  <2>1. \A o \in plan[c] : Unsent(o)
    BY <1>3 DEF Sound, VerdictInv, DenyInv, DenyOf
  <2>2. \A o \in plan[c] : Unsent(o)' /\ Dead(o)'
    BY <1>4, <2>1, PlannedStays, UnsentDead
  <2>3. \A o \in plan[c] : o.by = c
    BY <1>1 DEF Sound, PublishesOwn
  <2>4. \A o \in denied : o.by # c
    BY <1>3, NotYetDenied DEF Fresh
  <2>5. QED
    BY <2>2, <2>3, <2>4
<1>8. acked' \subseteq committed'
  BY <1>1, <1>2, CkStands DEF Sound, VerdictInv, AckInv
<1>9. pc'[c] \notin Early
  BY <1>6 DEF Early
<1>10. QED
  BY <1>1, <1>2, <1>3, <1>4, <1>6, <1>7, <1>8, <1>9, PlannedTruthful

(* The head write: what it reports as committed has landed.                 *)
LEMMA AdvanceTruthful ==
  ASSUME Sound, NEW c \in Checkpointers, CkAdvance(c)
  PROVE  Truthful
<1>1. CheckpointNext(c) /\ TypeOK /\ c \in Procs
  BY ProcessAssumption DEF CheckpointNext, Sound, Procs
<1>2. plan' = plan /\ denied' = denied /\ pc[c] = "ckAdvance"
  BY DEF CkAdvance
<1>3. StepOf(c, {}, {})
  BY <1>1, CkQuietStep
<1>4. pc \in [Procs -> Labels] /\ tries \in [Procs -> Nat]
  BY <1>1 DEF TypeOK, ProcTypeOK, Labels
<1>5. pc'[c] \in {"done", "ckCommit"} /\ tries'[c] > 0
  BY SMT, <1>1, <1>4 DEF CkAdvance, Goto
<1>6. \A o \in plan[c] : o \notin denied
  <2>1. \A o \in plan[c] : o.by = c
    BY <1>1 DEF Sound, PublishesOwn
  <2>2. \A o \in denied : o.by # c
    BY <1>2, NotYetDenied
  <2>3. QED
    BY <2>1, <2>2
<1>7. acked' \subseteq committed'
  <2>1. acked \subseteq committed'
    BY <1>1, CkStands DEF Sound, VerdictInv, AckInv
  <2>2. QED
    BY <2>1 DEF CkAdvance, PutRef, Apply
<1>8. pc[c] \notin Early /\ pc'[c] \notin Early /\ ~Fresh(c)'
  BY SMT, <1>2, <1>5 DEF Early, Fresh
<1>9. QED
  BY <1>1, <1>2, <1>3, <1>5, <1>6, <1>7, <1>8, PlannedTruthful

(* Nothing can name the object of a call that finds a ref on its lineage,   *)
(* below its object and no longer its own.                                  *)
LEMMA DeletableDead ==
  ASSUME Sound, NEW c \in Checkpointers, NEW o \in plan[c], Exists,
         ~Ours(ref, c, o), Unreferenced(ref, o)
  PROVE  Dead(o)
<1>1. c \in Procs /\ TypeOK /\ HeadInv /\ PublishesOwn
  BY ProcessAssumption DEF Procs, Sound, VerdictInv
<1>2. o \in Uploads /\ o.by = c
  BY <1>1 DEF Uploads, PublishesOwn
<1>3. o \in Object /\ ref \in Ref
  BY <1>1, <1>2, UploadsType DEF Exists, TypeOK, StoreTypeOK
<1>4. o.lineage = ref.lineage /\ ref.head < o.txid /\ o.txid <= ref.head + 1
  BY <1>1, <1>2 DEF Unreferenced, HeadInv
<1>5. o \notin committed
  BY SMT, <1>1, <1>3, <1>4 DEF HeadInv, Object, Ref
<1>6. ref.head + 1 = o.txid
  BY SMT, <1>3, <1>4 DEF Object, Ref
<1>7. ~WrittenUnder(o, ref)
  BY <1>2, <1>4, <1>6 DEF WrittenUnder, Ours, Holds
<1>8. QED
  BY <1>5, <1>7 DEF Dead

(* Deciding on the ref that was read: a call that finds its checkpoint      *)
(* there has committed, one that goes on to delete its object can no longer.*)
LEMMA CommitTruthful ==
  ASSUME Sound, NEW c \in Checkpointers, CkCommit(c)
  PROVE  Truthful
<1>1. CheckpointNext(c) /\ TypeOK /\ c \in Procs
  BY ProcessAssumption DEF CheckpointNext, Sound, Procs
<1>2. plan' = plan /\ denied' = denied /\ tries' = tries /\ committed' = committed /\ pc[c] = "ckCommit"
  BY DEF CkCommit, ReadFails
<1>3. PICK W : StepOf(c, W, {})
  BY <1>1, CkCommitStep
<1>4. pc \in [Procs -> Labels] /\ tries \in [Procs -> Nat]
  BY <1>1 DEF TypeOK, ProcTypeOK, Labels
<1>5. pc'[c] \in {"ckDelete", "ckRelease", "done", "ckAdvance"}
  BY <1>1, <1>4 DEF CkCommit, Goto
<1>6. \A o \in plan[c] : o.by = c /\ o \notin denied
  <2>1. \A o \in plan[c] : o.by = c
    BY <1>1 DEF Sound, PublishesOwn
  <2>2. \A o \in denied : o.by # c
    BY <1>2, NotYetDenied
  <2>3. QED
    BY <2>1, <2>2
<1>7. PICK o \in plan[c] :
        /\ acked' = acked \/ (Exists /\ Landed(ref, names[c], o) /\ acked' = acked \cup {o})
        /\ pc'[c] = "ckDelete" =>
             /\ write' = write
             /\ \/ tries[c] = 0
                \/ Exists /\ ~Ours(ref, c, o) /\ Unreferenced(ref, o)
  <2>1. PICK o \in plan[c] :
          \/ /\ Goto(c, IF tries[c] = 0 THEN "ckDelete" ELSE "ckRelease")
             /\ UNCHANGED <<write, acked>>
          \/ /\ Exists /\ Landed(ref, names[c], o)
             /\ Goto(c, "done")
             /\ acked' = acked \cup {o}
          \/ Goto(c, "ckAdvance") /\ acked' = acked
          \/ /\ Goto(c, IF IF Exists THEN Deletable(c, ref, o) ELSE tries[c] = 0
                        THEN "ckDelete" ELSE "ckRelease")
             /\ UNCHANGED <<write, acked>>
    BY DEF CkCommit
  <2>2. QED
    BY <1>1, <1>4, <2>1 DEF Goto, Deletable
<1>8. acked' \subseteq committed'
  <2>1. acked \subseteq committed
    BY DEF Sound, VerdictInv, AckInv
  <2>2. Exists /\ Landed(ref, names[c], o) => o \in committed
    BY DEF Sound, VerdictInv, RecordsOwn, Landed
  <2>3. QED
    BY <1>2, <1>7, <2>1, <2>2
<1>9. ASSUME pc'[c] = "ckDelete", NEW u \in plan[c], Dead(u) PROVE Dead(u)'
  <2>1. UNCHANGED <<write, plan>> /\ UNCHANGED <<ref, inflight, committed>>
    BY <1>2, <1>7, <1>9 DEF CkCommit, ReadFails
  <2>2. Pending' = Pending
    BY <2>1 DEF Pending
  <2>3. QED
    BY <1>9, <2>1, <2>2 DEF Dead, Exists, WrittenUnder
<1>10. ASSUME pc'[c] = "ckDelete", NEW u \in plan[c] PROVE Dead(u)'
  <2>1. u = o
    BY <1>1 DEF Sound, VerdictInv, PlansOnce
  <2>2. CASE tries[c] = 0
    <3>1. Fresh(c)
      BY <1>2, <2>2 DEF Fresh
    <3>2. Unsent(u)
      BY <3>1 DEF Sound, VerdictInv, DenyInv, DenyOf
    <3>3. QED
      BY <1>9, <1>10, <3>2, UnsentDead
  <2>3. CASE tries[c] # 0
    BY <1>7, <1>9, <1>10, <2>1, <2>3, DeletableDead
  <2>4. QED
    BY <2>2, <2>3
<1>11. pc[c] \notin Early /\ pc'[c] \notin Early /\ ~Fresh(c)'
  BY <1>2, <1>5 DEF Early, Fresh
<1>12. QED
  BY <1>1, <1>2, <1>3, <1>6, <1>8, <1>10, <1>11, PlannedTruthful

(* Deleting, releasing, renewing and stopping dead: what can no longer be   *)
(* published stays so.                                                      *)
LEMMA RestTruthful ==
  ASSUME Sound, NEW c \in Checkpointers,
         CkDelete(c) \/ CkRelease(c) \/ CkClear(c) \/ Renew(c, CheckpointRenewing) \/ Crash(c)
  PROVE  Truthful
<1>1. CheckpointNext(c) /\ TypeOK /\ c \in Procs
  BY ProcessAssumption DEF CheckpointNext, Sound, Procs
<1>2. plan' = plan /\ acked' = acked /\ tries' = tries /\ denied' \subseteq denied \cup plan[c]
  BY DEF CkDelete, CkRelease, CkClear, Renew, Crash, Deny
<1>3. StepOf(c, {}, {})
  BY <1>1, CkQuietStep
<1>4. pc \in [Procs -> Labels]
  BY <1>1 DEF TypeOK, ProcTypeOK, Labels
<1>5. \A o \in plan[c] : (Dead(o) => Dead(o)') /\ (Unsent(o) => Unsent(o)')
  BY <1>3, PlannedStays
<1>6. DenyOf(c) /\ \A o \in denied : DeniedBy(o)
  BY DEF Sound, VerdictInv, DenyInv
<1>7. acked' \subseteq committed'
  BY <1>1, <1>2, CkStands DEF Sound, VerdictInv, AckInv
<1>8. \A o \in plan[c] : o.by = c
  BY <1>1 DEF Sound, PublishesOwn
<1>9. CASE CkDelete(c)
  <2>1. pc[c] = "ckDelete" /\ pc'[c] = "ckRelease"
    BY <1>1, <1>4, <1>9 DEF CkDelete, Goto
  <2>2. \A o \in plan[c] : Dead(o)'
    BY <1>5, <1>6, <2>1 DEF DenyOf
  <2>3. pc[c] \notin Early /\ pc'[c] \notin Early /\ ~Fresh(c)'
    BY <2>1 DEF Early, Fresh
  <2>4. QED
    BY <1>1, <1>2, <1>3, <1>7, <2>1, <2>2, <2>3, PlannedTruthful
<1>10. CASE CkRelease(c) \/ CkClear(c)
  <2>1. /\ pc[c] \in {"ckRelease", "ckClear"} /\ pc'[c] \in {"ckClear", "done"}
        /\ denied' = denied
    BY <1>1, <1>4, <1>10 DEF CkRelease, CkClear, Goto
  <2>2. \A o \in plan[c] : o \in denied => Dead(o)'
    BY <1>5, <1>6 DEF DeniedBy
  <2>3. pc[c] \notin Early /\ pc'[c] \notin Early /\ ~Fresh(c)'
    BY <2>1 DEF Early, Fresh
  <2>4. QED
    BY <1>1, <1>2, <1>3, <1>7, <2>1, <2>2, <2>3, PlannedTruthful
<1>11. CASE Renew(c, CheckpointRenewing)
  <2>1. pc' = pc /\ denied' = denied /\ pc[c] \in {"ckUpload", "ckJoin"}
    BY <1>11 DEF Renew, CheckpointRenewing
  <2>2. pc[c] \notin Early /\ pc'[c] \notin Early /\ Fresh(c) /\ pc'[c] # "ckDelete"
    BY <2>1 DEF Early, Fresh
  <2>3. \A o \in plan[c] : Unsent(o)' /\ o \notin denied
    <3>1. \A o \in denied : o.by # c
      BY <2>1, NotYetDenied
    <3>2. QED
      BY <1>5, <1>6, <1>8, <2>2, <3>1 DEF DenyOf
  <2>4. QED
    BY <1>1, <1>2, <1>3, <1>7, <2>1, <2>2, <2>3, PlannedTruthful
<1>12. CASE Crash(c) /\ pc[c] \in Early
  <2>1. UNCHANGED denied
    BY <1>12 DEF Crash
  <2>2. QED
    BY <1>1, <1>2, <1>3, <1>12, <2>1, EarlyTruthful
<1>13. CASE Crash(c) /\ pc[c] \notin Early
  <2>1. pc'[c] = "done" /\ denied' = denied
    BY <1>1, <1>4, <1>13 DEF Crash, Goto
  <2>2. \A o \in plan[c] : o \in denied => Dead(o)'
    BY <1>5, <1>6 DEF DeniedBy
  <2>3. pc'[c] \notin Early /\ ~Fresh(c)'
    BY <2>1 DEF Early, Fresh
  <2>4. QED
    BY <1>1, <1>2, <1>3, <1>7, <1>13, <2>1, <2>2, <2>3, PlannedTruthful
<1>14. QED
  BY <1>9, <1>10, <1>11, <1>12, <1>13

(* Every step of a checkpoint call keeps what calls are told true.          *)
LEMMA CheckpointTruthful ==
  ASSUME Sound, NEW c \in Checkpointers, CheckpointNext(c)
  PROVE  Truthful
BY AcquireTruthful, UploadTruthful, AdvanceTruthful, CommitTruthful, RestTruthful DEF CheckpointNext

(* So does a step of anyone else.                                           *)
LEMMA OthersTruthful ==
  ASSUME Sound,
         \/ \E s \in Sessions : SessionNext(s)
         \/ \E p \in Repointers : RepointNext(p)
         \/ Environment /\ UNCHANGED procVars
  PROVE  Truthful
<1>1. TypeOK /\ HeadInv /\ acked \subseteq committed
  BY DEF Sound, VerdictInv, AckInv
<1>2. ASSUME NEW s \in Sessions, SessionNext(s) PROVE Truthful
  <2>1. \E W, P : StepOf(s, W, P)
    <3>1. CASE SsAcquire(s) \/ FlRead(s) \/ FlReread(s)
      BY <1>1, <3>1, SsPrepareStep
    <3>2. CASE ~(SsAcquire(s) \/ FlRead(s) \/ FlReread(s))
      <4>1. StepOf(s, {}, {})
        BY <1>1, <1>2, <3>2, SsQuietStep DEF SessionNext
      <4>2. QED
        BY <4>1
    <3>3. QED
      BY <3>1, <3>2
  <2>2. PICK W, P : StepOf(s, W, P)
    BY <2>1
  <2>3. pc' = pc \/ \E x : pc' = [pc EXCEPT ![s] = x]
    BY <1>2 DEF SessionNext, SsAcquire, SsTake, SsSettle, FlRead, FlPut, FlOverwrite, FlReread,
                FlAdvance, FlClean, FlDelete, SsClose, SsRelease, Renew, Crash, Goto, FlushFails
  <2>4. (tries' = tries \/ \E x : tries' = [tries EXCEPT ![s] = x]) /\ denied' = denied
    BY <1>2 DEF SessionNext, SsAcquire, SsTake, SsSettle, FlRead, FlPut, FlOverwrite, FlReread,
                FlAdvance, FlClean, FlDelete, SsClose, SsRelease, Renew, Crash
  <2>5. s \in Holders /\ s \notin Checkpointers
    BY ProcessAssumption
  <2>6. PlansOnce' /\ DenyInv'
    BY <2>2, <2>3, <2>4, <2>5, ForeignVerdicts
  <2>7. QED
    BY <1>1, <1>2, <2>6, SsAcks DEF Truthful, AckInv
<1>3. ASSUME NEW p \in Repointers, RepointNext(p) PROVE Truthful
  <2>1. (\E W : StepOf(p, W, {})) /\ UNCHANGED <<acked, denied>>
    BY <1>1, <1>3, RepointStep
  <2>2. PICK W : StepOf(p, W, {})
    BY <2>1
  <2>3. pc' = pc \/ \E x : pc' = [pc EXCEPT ![p] = x]
    BY <1>3 DEF RepointNext, RpRollback, RpPromote, RpCompact, RpRead, RpBackup, RpShare, RpCopy,
                RpWrite, RpSettle, RpCleanup, Crash, Goto
  <2>4. tries' = tries
    BY <1>3 DEF RepointNext, RpRollback, RpPromote, RpCompact, RpRead, RpBackup, RpShare, RpCopy,
                RpWrite, RpSettle, RpCleanup, Crash
  <2>5. p \notin Checkpointers
    BY ProcessAssumption
  <2>6. PlansOnce' /\ DenyInv'
    BY <2>1, <2>2, <2>3, <2>4, <2>5, ForeignVerdicts
  <2>7. committed \subseteq committed'
    BY <2>2 DEF StepOf, RefMoves, Apply
  <2>8. QED
    BY <1>1, <2>1, <2>6, <2>7 DEF Truthful, AckInv
<1>4. CASE Environment /\ UNCHANGED procVars
  <2>1. UNCHANGED <<pc, tries, plan, acked, denied>>
    BY <1>4 DEF procVars
  <2>2. StepOf("environment", {}, {})
    BY <1>1, <1>4, EnvironmentStep
  <2>3. \A c \in Checkpointers : Stands(c)
    BY <2>1 DEF Stands
  <2>4. \A c \in Checkpointers : DenyOf(c)' /\ \A o \in denied : o.by = c => DeniedBy(o)'
    BY <2>2, <2>3, StandsTrue
  <2>5. \A o \in denied : o.by \in Checkpointers
    BY DEF Sound, VerdictInv, DenyInv, DeniedBy
  <2>6. DenyInv'
    BY <2>1, <2>4, <2>5 DEF DenyInv
  <2>7. PlansOnce'
    BY <2>1, <2>2, <2>3, PlansStep DEF Stands
  <2>8. committed \subseteq committed'
    BY <2>2 DEF StepOf, RefMoves, Apply
  <2>9. QED
    BY <1>1, <2>1, <2>6, <2>7, <2>8 DEF Truthful, AckInv
<1>5. QED
  BY <1>2, <1>3, <1>4

-----------------------------------------------------------------------------

(* A branch starts with nothing planned, sent or told.                      *)
LEMMA InitVerdict == Init => LeaseInv /\ VerdictInv
<1> SUFFICES ASSUME Init PROVE LeaseInv /\ VerdictInv
  OBVIOUS
<1>1. Pending = {} /\ Uploads \subseteq {FirstObject}
  BY DEF Init, StoreInit, Created, Forked, ProcInit, Pending, Uploads
<1>2. \A c \in Checkpointers : plan[c] = {} /\ c \in Procs
  BY ProcessAssumption DEF Init, ProcInit, Procs
<1>3. acked = {} /\ denied = {} /\ committed \subseteq {FirstObject}
  BY DEF Init, ProcInit, StoreInit, Created, Forked
<1>4. \A p \in Repointers : write[p] = {}
  BY DEF Init, ProcInit, Procs
<1>5. FirstObject.by = NoHolder /\ FirstObject.txid = 1
  BY DEF FirstObject
<1>6. NoHolder \notin Checkpointers
  BY HolderAssumption, ProcessAssumption
<1>7. LeaseInv /\ GrowInv /\ AckInv /\ DenyInv /\ RecordsOwn
  BY <1>1, <1>2, <1>3, <1>4 DEF LeaseInv, GrowInv, AckInv, DenyInv, DenyOf, RecordsOwn
<1>8. PlansOnce
  BY <1>1, <1>2, <1>5, <1>6 DEF PlansOnce
<1>9. HeadInv
  <2>1. \A n, b : LET r == FirstRef(n, b) IN r.head = 1 /\ Within(r)
    BY SMT DEF FirstRef, Within, Below
  <2>2. ref = FirstRef("init", {}) \/ ref = FirstRef("fork", {[lineage |-> 0, txid |-> 1]})
    BY DEF Init, StoreInit, Created, Forked
  <2>3. ref.head = 1 /\ Within(ref)
    BY <2>1, <2>2
  <2>4. QED
    BY SMT, <1>1, <1>3, <1>5, <2>3 DEF HeadInv
<1>10. QED
  BY <1>7, <1>8, <1>9 DEF VerdictInv

(* The discipline of leases and of verdicts is inductive.                   *)
LEMMA NextVerdict ==
  ASSUME TypeOK, TypeOK', Fencing, PublishesOwn, LeaseInv, VerdictInv, [Next]_vars
  PROVE  LeaseInv' /\ VerdictInv'
<1>1. RefForward /\ PublishesOwn'
  BY NextFencing, NextOwn
<1>2. HeadInv /\ GrowInv /\ PlansOnce /\ RecordsOwn
  BY DEF VerdictInv
<1>3. \E p, W, P : StepOf(p, W, P)
  BY <1>2, NextStep
<1>4. PICK p, W, P : StepOf(p, W, P)
  BY <1>3
<1>5. LeaseInv' /\ GrowInv' /\ HeadInv'
  BY <1>2, <1>4, LeaseStep, GrowStep, HeadStep
<1>6. RecordsOwn'
  BY <1>2, <1>4, <1>5, RecordsStep
<1>7. Sound
  BY <1>1, <1>5 DEF Sound
<1>8. CASE Next
  <2>1. Truthful
    BY <1>7, <1>8, CheckpointTruthful, OthersTruthful DEF Next
  <2>2. QED
    BY <1>5, <1>6, <2>1 DEF Truthful, VerdictInv
<1>9. CASE UNCHANGED vars
  <2>1. UNCHANGED <<ref, objs, committed, inflight, write, plan, pc, tries, acked, denied>>
    BY <1>9 DEF vars, storeVars, procVars
  <2>2. Pending' = Pending /\ Exists' = Exists
    BY <2>1 DEF Pending, Exists
  <2>3. Uploads' = Uploads
    BY <2>1, <2>2 DEF Uploads
  <2>4. PlansOnce'
    BY <2>1, <2>3 DEF VerdictInv, PlansOnce
  <2>5. \A c : Fresh(c)' = Fresh(c)
    BY <2>1 DEF Fresh
  <2>6. \A o : Dead(o)' = Dead(o) /\ Unsent(o)' = Unsent(o)
    BY <2>1, <2>2 DEF Dead, Unsent, WrittenUnder
  <2>7. DenyInv'
    BY <2>1, <2>5, <2>6 DEF VerdictInv, DenyInv, DenyOf, DeniedBy
  <2>8. AckInv'
    BY <2>1 DEF VerdictInv, AckInv
  <2>9. QED
    BY <1>5, <1>6, <2>4, <2>7, <2>8 DEF VerdictInv
<1>10. QED
  BY <1>8, <1>9

(* Leases are taken only lapsed, and what a call is told is what can be.    *)
LEMMA VerdictHolds == Spec => [](LeaseInv /\ VerdictInv)
<1>1. TypeOK /\ TypeOK' /\ Fencing /\ PublishesOwn /\ (LeaseInv /\ VerdictInv) /\ [Next]_vars
        => (LeaseInv /\ VerdictInv)'
  BY NextVerdict
<1>2. QED
  BY <1>1, InitVerdict, TypeCorrect, FencingHolds, PublishesOwnHolds, PTL DEF Spec

(* A live lease is never taken over, for any number of writers and faults:  *)
(* an acquire that read the lease lapsed fails when the holder renewed it   *)
(* meanwhile, and so does one that lands late (AcquireLeaseRefIf's          *)
(* conditional write).                                                      *)
THEOREM LiveLeaseIsKept == Spec => LiveLeaseKept
<1>1. ASSUME TypeOK, TypeOK', LeaseInv, VerdictInv, [Next]_vars
      PROVE  [Exists /\ LeaseLive(ref, lapsed) /\ ref' # Gone
                => ref'.holder \in {ref.holder, NoHolder}]_vars
  <2> SUFFICES ASSUME Exists, LeaseLive(ref, lapsed), ref' # Gone
               PROVE  ref'.holder \in {ref.holder, NoHolder}
    OBVIOUS
  <2>1. \E p, W, P : StepOf(p, W, P)
    BY <1>1, NextStep DEF VerdictInv
  <2>2. RefMoves
    BY <2>1 DEF StepOf
  <2>3. CASE ref' = ref \/ Edited
    BY <2>3 DEF Edited
  <2>4. ASSUME NEW v \in Pending, ref = v.expect, Apply(v)
        PROVE  ref'.holder \in {ref.holder, NoHolder}
    <3>1. TakesLapsed(v) /\ SameTerm(ref, ref) /\ ref' = v.new
      BY <1>1, <2>4 DEF LeaseInv, SameTerm, Apply
    <3>2. QED
      BY <2>4, <3>1 DEF TakesLapsed, Takes, LeaseLive
  <2>5. QED
    BY <2>2, <2>3, <2>4 DEF RefMoves
<1>2. TypeOK /\ TypeOK' /\ (LeaseInv /\ VerdictInv) /\ [Next]_vars
        => [Exists /\ LeaseLive(ref, lapsed) /\ ref' # Gone
              => ref'.holder \in {ref.holder, NoHolder}]_vars
  BY <1>1
<1>3. QED
  BY <1>2, TypeCorrect, VerdictHolds, PTL DEF Spec, LiveLeaseKept

(* What a call reports is true, for any number of writers and faults: a     *)
(* state reported committed was published by a landed head write, and one   *)
(* reported as not committed was not, and never is (commitCheckpoint's      *)
(* verdicts, flush's return).                                               *)
THEOREM VerdictsAreTrue == Spec => []VerdictsTrue
<1>1. VerdictInv => VerdictsTrue
  BY DEF VerdictInv, AckInv, DenyInv, DeniedBy, Dead, VerdictsTrue
<1>2. QED
  BY <1>1, VerdictHolds, PTL

-----------------------------------------------------------------------------
(* What was committed stays, when no session overwrites.                    *)

\* The step takes out of the store only p's own object, and only when nothing
\* can publish it.
DeletesDead(p) ==
  /\ objs \subseteq objs' \/ p \in Checkpointers
  /\ \A o \in objs \ objs' : o \in plan[p] /\ Dead(o)

(* The only object at a call's key is its own: keys name the epoch, and an  *)
(* epoch has one writer.                                                    *)
LEMMA OwnKey ==
  ASSUME Fencing, PlansOnce, PublishesOwn, NEW c \in Checkpointers, NEW o \in plan[c],
         NEW u \in Uploads, u.lineage = o.lineage, u.epoch = o.epoch
  PROVE  u = o
<1>1. c \in Procs
  BY ProcessAssumption DEF Procs
<1>2. o \in Uploads /\ o.by = c
  BY <1>1 DEF Uploads, PublishesOwn
<1>3. u.by = c
  BY <1>2, FencingParts DEF OneWriter
<1>4. QED
  BY SMT, <1>3 DEF PlansOnce

(* A head write that lands publishes a stored object, and the latest of its *)
(* txid.                                                                    *)
LEMMA LandsStored ==
  ASSUME Sound, Sessions = {}, Stored, NEW v \in Pending, ref = v.expect, NEW o \in v.commits
  PROVE  /\ o \in objs
         /\ \A u \in Uploads : SameState(o, u) /\ u # o => u.epoch < o.epoch
<1>1. TypeOK /\ Fencing /\ PublishesOwn /\ PlansOnce
  BY DEF Sound, VerdictInv
<1>2. v \in RefWrite /\ o \in Uploads /\ o \in Object
  BY <1>1, UploadsType DEF Uploads
<1>3. Exists /\ ref \in Ref
  BY <1>2, StoreAssumption DEF RefWrite, Exists
<1>4. /\ ref.holder = o.by /\ ref.epoch = o.epoch /\ ref.lineage = o.lineage
      /\ o.by # NoHolder
  BY <1>1 DEF PublishesOwn, Holds, Stored
<1>5. o \in objs
  BY <1>3, <1>4 DEF Stored, WrittenUnder
<1>6. o.by \in Checkpointers /\ o \in plan[o.by]
  BY <1>1, <1>2, <1>4, ProcessAssumption DEF Object, PlansOnce
<1>7. ASSUME NEW u \in Uploads, SameState(o, u), u # o PROVE u.epoch < o.epoch
  <2>1. Behind(u, ref) /\ u \in Object
    BY <1>1, <1>3, FencingParts, UploadsType DEF AheadOfAll
  <2>2. u.lineage = ref.lineage
    BY <1>4, <1>7 DEF SameState
  <2>3. u.epoch # o.epoch
    BY <1>1, <1>4, <1>6, <1>7, <2>2, OwnKey
  <2>4. QED
    BY SMT, <1>2, <1>3, <1>4, <2>1, <2>2, <2>3 DEF Behind, Object, Ref
<1>8. QED
  BY <1>5, <1>7

(* What a step may do to keep it so.                                        *)
LEMMA IntactStep ==
  ASSUME Sound, Sessions = {}, IntactInv, NEW p, NEW W, NEW P, StepOf(p, W, P), DeletesDead(p),
         \A c \in Checkpointers :
           pc'[c] \in {"ckJoin", "ckCommit", "ckAdvance"} =>
             \/ c # p /\ Stands(c)
             \/ plan'[c] \subseteq objs',
         \A w \in W : w.commits \subseteq objs'
  PROVE  IntactInv'
<1>1. /\ TypeOK /\ TypeOK' /\ Fencing /\ RefForward /\ PublishesOwn /\ PublishesOwn'
      /\ PlansOnce /\ GrowInv /\ Stored /\ Outlives
  BY DEF Sound, VerdictInv, IntactInv
<1>2. \A o \in committed' \ committed :
        \E v \in Pending : ref = v.expect /\ o \in v.commits
  BY DEF StepOf, RefMoves, Apply
<1>3. \A o \in committed' \ committed :
        o \in objs /\ \A u \in Uploads : SameState(o, u) /\ u # o => u.epoch < o.epoch
  BY <1>1, <1>2, LandsStored
<1>4. ASSUME NEW o \in committed' PROVE o \in objs'
  <2>1. o \in objs
    BY <1>1, <1>3 DEF Stored
  <2>2. CASE o \in committed
    BY <2>1, <2>2 DEF DeletesDead, Dead
  <2>3. CASE o \notin committed
    <3>1. PICK v \in Pending : ref = v.expect /\ o \in v.commits
      BY <1>2, <2>3
    <3>2. v \in RefWrite /\ Exists
      BY <1>1, <3>1, UploadsType, StoreAssumption DEF RefWrite, Exists
    <3>3. WrittenUnder(o, ref)
      BY SMT, <1>1, <3>1 DEF PublishesOwn, Holds, WrittenUnder, Stored
    <3>4. QED
      BY <2>1, <3>1, <3>2, <3>3 DEF DeletesDead, Dead
  <2>4. QED
    BY <2>2, <2>3
<1>5. ASSUME NEW c \in Checkpointers, pc'[c] \in {"ckJoin", "ckCommit", "ckAdvance"}
      PROVE  plan'[c] \subseteq objs'
  <2>1. CASE c # p /\ Stands(c)
    <3>1. plan[c] \subseteq objs /\ plan'[c] = plan[c]
      BY <1>1, <1>5, <2>1 DEF Stored, Stands
    <3>2. ASSUME NEW o \in plan[c], o \notin objs' PROVE FALSE
      <4>1. o \in plan[p] /\ p \in Checkpointers
        BY <3>1, <3>2 DEF DeletesDead
      <4>2. QED
        BY SMT, <1>1, <2>1, <3>2, <4>1, ProcessAssumption DEF PublishesOwn, Procs
    <3>3. QED
      BY <3>1, <3>2
  <2>2. QED
    BY <1>5, <2>1
<1>6. ASSUME NEW w \in Pending', NEW o \in w.commits
      PROVE  o.by # NoHolder /\ (ref' # Gone /\ WrittenUnder(o, ref') => o \in objs')
  <2>1. CASE w \in W
    <3>1. p \in Holders /\ o \in plan'[p]
      BY <1>1, <1>6, <2>1, UploadsStep
    <3>2. o.by = p
      BY <1>1, <3>1 DEF PublishesOwn, Procs
    <3>3. QED
      BY <1>6, <2>1, <3>1, <3>2, HolderAssumption
  <2>2. CASE w \in Pending
    <3>1. o \in Uploads
      BY <1>6, <2>2 DEF Uploads
    <3>2. ASSUME ref' # Gone, WrittenUnder(o, ref') PROVE o \in objs'
      <4>1. Exists /\ WrittenUnder(o, ref)
        BY <1>1, <3>1, <3>2, LeaseNotBack
      <4>2. o \in objs
        BY <1>1, <1>6, <2>2, <4>1 DEF Stored
      <4>3. QED
        BY <1>6, <2>2, <4>1, <4>2 DEF DeletesDead, Dead
    <3>3. QED
      BY <1>1, <1>6, <2>2, <3>2 DEF Stored
  <2>3. QED
    BY <1>1, <2>1, <2>2, PendingStep
<1>7. Stored'
  BY <1>4, <1>5, <1>6 DEF Stored, Exists, WrittenUnder
<1>8. ASSUME NEW o \in committed', NEW u \in Uploads', SameState(o, u), u # o
      PROVE  u.epoch < o.epoch
  <2>1. CASE u \in Uploads
    BY <1>1, <1>3, <1>8, <2>1 DEF Outlives
  <2>2. CASE u \in P
    <3>1. u.lineage = ref'.lineage /\ u.txid = ref'.head + 1 /\ ref' # Gone
      BY <2>2 DEF StepOf, Follows
    <3>2. ref' \in Ref /\ o \in Object
      BY <1>1, <3>1 DEF TypeOK, StoreTypeOK
    <3>3. o.txid <= ref'.head
      BY <1>8, <3>1 DEF Sound, HeadInv, Exists, SameState
    <3>4. QED
      BY SMT, <1>8, <3>1, <3>2, <3>3 DEF SameState, Ref, Object
  <2>3. QED
    BY <1>1, <2>1, <2>2, UploadsStep
<1>9. Outlives'
  BY <1>8 DEF Outlives
<1>10. QED
  BY <1>7, <1>9 DEF IntactInv

(* A call's upload and its clean-up delete at its own key, before it made a *)
(* head write or when none can land.                                        *)
LEMMA CkDeletesDead ==
  ASSUME Sound, NEW c \in Checkpointers, CheckpointNext(c)
  PROVE  DeletesDead(c)
<1>1. TypeOK /\ Fencing /\ PlansOnce /\ PublishesOwn /\ DenyOf(c)
  BY DEF Sound, VerdictInv, DenyInv
<1>2. CASE CkUpload(c) \/ CkDelete(c)
  <2>1. \A u \in objs \ objs' : \E o \in plan[c] : Key(u) = Key(o)
    BY SMT, <1>2 DEF CkUpload, CkDelete, BestEffortDelete
  <2>2. ASSUME NEW u \in objs \ objs' PROVE u \in plan[c]
    <3>1. PICK o \in plan[c] : Key(u) = Key(o)
      BY <2>1, <2>2
    <3>2. u.lineage = o.lineage /\ u.epoch = o.epoch /\ u \in Uploads
      BY <2>2, <3>1 DEF Key, Uploads
    <3>3. QED
      BY <1>1, <3>1, <3>2, OwnKey
  <2>3. \A o \in plan[c] : Dead(o)
    <3>1. Fresh(c) \/ pc[c] = "ckDelete"
      BY <1>2 DEF CkUpload, CkDelete, Fresh
    <3>2. QED
      BY <1>1, <3>1, UnsentDead DEF DenyOf
  <2>4. QED
    BY <2>2, <2>3 DEF DeletesDead
<1>3. CASE ~(CkUpload(c) \/ CkDelete(c))
  <2>1. objs' = objs
    BY <1>3 DEF CheckpointNext, CkStart, CkAcquire, CkTake, CkSettle, CkJoin, CkCommit, CkAdvance,
                CkRelease, CkClear, Renew, Crash, storeVars
  <2>2. QED
    BY <2>1 DEF DeletesDead
<1>4. QED
  BY <1>2, <1>3

(* Every step of a checkpoint call keeps what was committed.                *)
LEMMA CkIntact ==
  ASSUME Sound, Sessions = {}, IntactInv, NEW c \in Checkpointers, CheckpointNext(c)
  PROVE  IntactInv'
<1>1. TypeOK /\ TypeOK' /\ PlansOnce /\ GrowInv /\ Stored /\ c \in Procs
  BY ProcessAssumption DEF Sound, VerdictInv, IntactInv, Procs
<1>2. DeletesDead(c) /\ \A d \in Checkpointers : d # c => Stands(d)
  BY CkDeletesDead, CkStands
<1>3. pc \in [Procs -> Labels] /\ plan \in [Procs -> SUBSET Object]
  BY <1>1 DEF TypeOK, ProcTypeOK, Labels
<1>4. CASE (\E n \in UserNames : CkStart(c, n)) \/ CkAcquire(c) \/ CkTake(c) \/ CkSettle(c)
  <2>1. pc[c] \in Early
    BY <1>4 DEF CkStart, CkAcquire, CkTake, CkSettle, Early
  <2>2. pc'[c] \notin {"ckJoin", "ckCommit", "ckAdvance"}
    BY <1>1, <1>3, <1>4 DEF CkStart, CkAcquire, CkTake, CkSettle, Goto, Leased, Refuse, RefuseLeased
  <2>3. ASSUME NEW W, StepOf(c, W, {}), plan' = plan PROVE IntactInv'
    <3>1. \A w \in W : w.commits = {}
      BY SMT, <1>1, <2>1, <2>3, UploadsStep DEF PlansOnce
    <3>2. QED
      BY <1>2, <2>2, <2>3, <3>1, IntactStep
  <2>4. ASSUME NEW o, StepOf(c, {}, {o}) PROVE IntactInv'
    BY SMT, <1>2, <2>2, <2>4, IntactStep
  <2>5. CASE \E n \in UserNames : CkStart(c, n)
    <3>1. plan' = plan
      BY <2>5 DEF CkStart
    <3>2. QED
      BY <1>1, <2>3, <2>5, <3>1, CkQuietStep
  <2>6. CASE CkAcquire(c)
    BY <1>1, <2>3, <2>6, CkAcquireStep
  <2>7. CASE CkTake(c) \/ CkSettle(c)
    BY <1>1, <2>3, <2>4, <2>7, CkLeasedStep
  <2>8. QED
    BY <1>4, <2>5, <2>6, <2>7
<1>5. CASE CkCommit(c)
  <2>1. (\E W : StepOf(c, W, {})) /\ plan' = plan
    BY <1>1, <1>5, CkCommitStep
  <2>2. PICK W : StepOf(c, W, {})
    BY <2>1
  <2>3. plan'[c] \subseteq objs'
    BY <1>1, <1>5, <2>1 DEF Stored, CkCommit
  <2>4. \A w \in W : w.commits \subseteq objs'
    BY <1>1, <2>2, <2>3, UploadsStep
  <2>5. QED
    BY <1>2, <2>2, <2>3, <2>4, IntactStep
<1>6. CASE ~ \/ \E n \in UserNames : CkStart(c, n)
             \/ CkAcquire(c) \/ CkTake(c) \/ CkSettle(c) \/ CkCommit(c)
  <2>1. StepOf(c, {}, {})
    BY <1>1, <1>6, CkQuietStep DEF CheckpointNext
  <2>2. pc'[c] \in {"ckJoin", "ckCommit", "ckAdvance"} => plan'[c] \subseteq objs'
    <3>1. CASE CkUpload(c)
      BY <1>1, <1>3, <3>1 DEF CkUpload, Goto
    <3>2. CASE CkJoin(c) \/ CkAdvance(c)
      <4>1. plan[c] \subseteq objs
        BY <1>1, <3>2 DEF CkJoin, CkAdvance, Stored
      <4>2. QED
        BY <3>2, <4>1 DEF CkJoin, CkAdvance, storeVars
    <3>3. CASE Renew(c, CheckpointRenewing)
      BY <1>1, <3>3 DEF Renew, Stored
    <3>4. CASE CkDelete(c) \/ CkRelease(c) \/ CkClear(c) \/ Crash(c)
      BY <1>1, <1>3, <3>4 DEF CkDelete, CkRelease, CkClear, Crash, Goto
    <3>5. QED
      BY <1>6, <3>1, <3>2, <3>3, <3>4 DEF CheckpointNext
  <2>3. QED
    BY SMT, <1>2, <2>1, <2>2, IntactStep
<1>7. QED
  BY <1>4, <1>5, <1>6

(* So does a repoint, and everyone else: they touch no chain object.        *)
LEMMA OthersIntact ==
  ASSUME Sound, Sessions = {}, IntactInv,
         \/ \E p \in Repointers : RepointNext(p)
         \/ Environment /\ UNCHANGED procVars
  PROVE  IntactInv'
<1>1. TypeOK /\ HeadInv /\ GrowInv
  BY DEF Sound, VerdictInv
<1>2. ASSUME NEW p, NEW W, StepOf(p, W, {}), p \notin Checkpointers, p \notin Holders,
             \A c \in Checkpointers : Stands(c), objs' = objs
      PROVE  IntactInv'
  <2>1. \A w \in W : w.commits = {}
    BY <1>1, <1>2, UploadsStep
  <2>2. DeletesDead(p)
    BY <1>2 DEF DeletesDead
  <2>3. QED
    BY <1>2, <2>1, <2>2, IntactStep
<1>3. ASSUME NEW p \in Repointers, RepointNext(p) PROVE IntactInv'
  <2>1. (\E W : StepOf(p, W, {})) /\ plan' = plan
    BY <1>1, <1>3, RepointStep
  <2>2. PICK W : StepOf(p, W, {})
    BY <2>1
  <2>3. pc' = pc \/ \E x : pc' = [pc EXCEPT ![p] = x]
    BY <1>3 DEF RepointNext, RpRollback, RpPromote, RpCompact, RpRead, RpBackup, RpShare, RpCopy,
                RpWrite, RpSettle, RpCleanup, Crash, Goto
  <2>4. tries' = tries /\ objs' = objs
    BY <1>3 DEF RepointNext, RpRollback, RpPromote, RpCompact, RpRead, RpBackup, RpShare, RpCopy,
                RpWrite, RpSettle, RpCleanup, Crash, storeVars
  <2>5. p \notin Checkpointers /\ p \notin Holders /\ \A c \in Checkpointers : c \in Procs
    BY ProcessAssumption DEF Procs
  <2>6. \A c \in Checkpointers : Stands(c)
    <3>1. pc \in [Procs -> Labels]
      BY <1>1 DEF TypeOK, ProcTypeOK, Labels
    <3>2. \A c \in Checkpointers : pc'[c] = pc[c]
      BY <2>3, <2>5, <3>1
    <3>3. QED
      BY <2>1, <2>4, <3>2 DEF Stands
  <2>7. QED
    BY <1>2, <2>2, <2>4, <2>5, <2>6
<1>4. CASE Environment /\ UNCHANGED procVars
  <2>1. UNCHANGED <<pc, tries, plan, objs>>
    BY <1>4 DEF procVars, Environment, Land, Expire, Touch, Prune, ReleaseByHolder, Claim, Unclaim,
                DeleteRef, Fork, Edit
  <2>2. StepOf("environment", {}, {})
    BY <1>1, <1>4, EnvironmentStep
  <2>3. DeletesDead("environment")
    BY <2>1 DEF DeletesDead
  <2>4. ASSUME NEW c \in Checkpointers, pc'[c] \in {"ckJoin", "ckCommit", "ckAdvance"}
        PROVE  plan'[c] \subseteq objs'
    BY <2>1, <2>4 DEF IntactInv, Stored
  <2>5. QED
    BY SMT, <2>2, <2>3, <2>4, IntactStep
<1>5. QED
  BY <1>3, <1>4

(* Without sessions, the discipline of stored objects is inductive.         *)
LEMMA NextIntact ==
  ASSUME Sessions = {}, TypeOK, TypeOK', Fencing, PublishesOwn, LeaseInv, VerdictInv, IntactInv,
         [Next]_vars
  PROVE  IntactInv'
<1>1. Sound
  <2>1. RefForward /\ PublishesOwn' /\ VerdictInv'
    BY NextFencing, NextOwn, NextVerdict
  <2>2. QED
    BY <2>1 DEF Sound, VerdictInv
<1>2. CASE Next
  BY <1>1, <1>2, CkIntact, OthersIntact DEF Next
<1>3. CASE UNCHANGED vars
  <2>1. UNCHANGED <<ref, objs, committed, inflight, write, plan, pc>>
    BY <1>3 DEF vars, storeVars, procVars
  <2>2. Pending' = Pending /\ Exists' = Exists
    BY <2>1 DEF Pending, Exists
  <2>3. Uploads' = Uploads
    BY SMT, <2>1, <2>2 DEF Uploads
  <2>4. Stored' /\ Outlives'
    BY <2>1, <2>2, <2>3 DEF IntactInv, Stored, Outlives, WrittenUnder
  <2>5. QED
    BY <2>4 DEF IntactInv
<1>4. QED
  BY <1>2, <1>3

(* A branch starts with its first object, if any, stored and published.     *)
LEMMA InitIntact == Init => IntactInv
<1> SUFFICES ASSUME Init PROVE IntactInv
  OBVIOUS
<1>1. Pending = {} /\ Uploads \subseteq {FirstObject}
  BY DEF Init, StoreInit, Created, Forked, ProcInit, Pending, Uploads
<1>2. committed = objs /\ committed \subseteq Uploads
  BY DEF Init, StoreInit, Uploads
<1>3. \A c \in Checkpointers : plan[c] = {}
  BY ProcessAssumption DEF Init, ProcInit, Procs
<1>4. Stored /\ Outlives
  BY <1>1, <1>2, <1>3 DEF Stored, Outlives
<1>5. QED
  BY <1>4 DEF IntactInv

(* What is stored is what was committed and what can still be.             *)
LEMMA IntactHolds ==
  ASSUME Sessions = {} PROVE Spec => []IntactInv
<1>1. TypeOK /\ TypeOK' /\ Fencing /\ PublishesOwn /\ (LeaseInv /\ VerdictInv) /\ IntactInv
        /\ [Next]_vars => IntactInv'
  BY NextIntact
<1>2. QED
  BY <1>1, InitIntact, TypeCorrect, FencingHolds, PublishesOwnHolds, VerdictHolds, PTL DEF Spec

(* Without sessions, for any number of checkpoint calls, repoints, faults   *)
(* and crashes: what a landed head write published stays what resolution    *)
(* serves at its txid.  No create-only upload, retry or clean-up            *)
(* (putCheckpointObject, bestEffortDelete) shadows or removes it.           *)
THEOREM CommittedStaysIntact ==
  ASSUME Sessions = {} PROVE Spec => []CommittedIntact
<1>1. TypeOK /\ IntactInv => CommittedIntact
  <2> SUFFICES ASSUME TypeOK, IntactInv, NEW o \in committed PROVE Served(o)
    BY DEF CommittedIntact
  <2>1. o \in objs
    BY DEF IntactInv, Stored
  <2>2. ASSUME NEW u \in objs, SameState(o, u), u # o PROVE MoreLive(o, u)
    <3>1. u.epoch < o.epoch
      BY <2>2 DEF IntactInv, Outlives, Uploads
    <3>2. u \in Object /\ o \in Object
      BY <2>2 DEF TypeOK, StoreTypeOK
    <3>3. QED
      BY <3>1, <3>2 DEF MoreLive, Object
  <2>3. QED
    BY <2>1, <2>2 DEF Served
<1>2. QED
  BY <1>1, IntactHolds, TypeCorrect, PTL

-----------------------------------------------------------------------------
(* The branch implements BranchHistory.                                     *)

\* What Branch substitutes for BranchHistory's log and tip.
Log ==
  {o \in objs : /\ \E p \in committed : SameState(o, p)
                /\ \A p \in objs : SameState(o, p) /\ p # o => MoreLive(o, p)}

Tip == IF Exists THEN <<ref.lineage, ref.head>> ELSE Gone

(* The log is the set of states that were ever committed.                   *)
LogExact == Log = committed

(* The log is what was committed.                                           *)
LEMMA LogIsCommitted ==
  ASSUME TypeOK, IntactInv PROVE Log = committed
<1>1. \A o \in objs \cup committed : o \in Object /\ o \in Uploads /\ o.epoch \in Nat
  BY DEF TypeOK, StoreTypeOK, Object, Uploads
<1>2. ASSUME NEW o \in Log PROVE o \in committed
  <2>1. PICK u \in committed : SameState(o, u)
    BY <1>2 DEF Log
  <2>2. u \in objs /\ o \in objs
    BY <1>2, <2>1 DEF Log, IntactInv, Stored
  <2>3. ASSUME u # o PROVE FALSE
    <3>1. MoreLive(o, u)
      BY <1>2, <2>1, <2>2, <2>3 DEF Log
    <3>2. o.epoch < u.epoch
      BY <1>1, <2>1, <2>2, <2>3 DEF IntactInv, Outlives, SameState
    <3>3. QED
      BY SMT, <1>1, <2>2, <3>1, <3>2 DEF MoreLive
  <2>4. QED
    BY <2>1, <2>3
<1>3. ASSUME NEW o \in committed PROVE o \in Log
  <2>1. o \in objs
    BY DEF IntactInv, Stored
  <2>2. \A u \in objs : SameState(o, u) /\ u # o => u.epoch < o.epoch
    BY <1>1 DEF IntactInv, Outlives
  <2>3. \A u \in objs : SameState(o, u) /\ u # o => MoreLive(o, u)
    BY <1>1, <2>1, <2>2 DEF MoreLive
  <2>4. SameState(o, o)
    BY DEF SameState
  <2>5. QED
    BY <2>1, <2>3, <2>4 DEF Log
<1>4. QED
  BY <1>2, <1>3

(* The ref's moves are BranchHistory's: nothing, a drop, a move to a later  *)
(* lineage, or one state appended at the head.                              *)
LEMMA MovesHistory ==
  ASSUME Gone \notin Nat \X Nat, TypeOK, TypeOK', PublishesOwn, GrowInv, RefMoves,
         Log = committed, Log' = committed'
  PROVE  [History!Next]_<<Log, Tip>>
<1> DEFINE Tipped(r) == <<r.lineage, r.head>>
<1>1. \A r \in Ref : /\ Tipped(r) # Gone
                     /\ Tipped(r)[1] = r.lineage /\ Tipped(r)[2] = r.head
                     /\ r.lineage \in Nat /\ r.head \in Nat
  BY SMT DEF Ref
<1>2. Tip = (IF Exists THEN Tipped(ref) ELSE Gone) /\ Tip' = (IF ref' # Gone THEN Tipped(ref') ELSE Gone)
  BY DEF Tip, Exists
<1>3. (Exists => ref \in Ref) /\ (ref' # Gone => ref' \in Ref)
  BY DEF Exists, TypeOK, StoreTypeOK
<1>4. CASE committed' = committed /\ ref' = ref
  BY <1>2, <1>4 DEF Exists
<1>5. CASE committed' = committed /\ ref' = Gone
  <2>1. CASE Exists
    BY SMT, <1>1, <1>2, <1>3, <1>5, <2>1 DEF History!Next, History!Drop, Log, Tip
  <2>2. CASE ~Exists
    BY <1>2, <1>5, <2>2
  <2>3. QED
    BY <2>1, <2>2
<1>6. CASE committed' = committed /\ Edited
  <2>1. Exists /\ ref' # Gone /\ ref'.lineage = ref.lineage /\ ref'.head = ref.head
    BY <1>6, StoreAssumption DEF Edited
  <2>2. Tip' = Tip
    BY <1>2, <2>1
  <2>3. QED
    BY <1>6, <2>2
<1>7. ASSUME NEW v \in Pending, ref = v.expect, Apply(v)
      PROVE  [History!Next]_<<Log, Tip>>
  <2>1. v \in RefWrite /\ Grows(v)
    BY UploadsType DEF GrowInv
  <2>2. Exists /\ ref' # Gone /\ ref \in Ref /\ ref' \in Ref
    BY <1>7, <2>1, StoreAssumption DEF RefWrite, Exists, Apply
  <2>3. ref' = v.new /\ committed' = committed \cup v.commits
    BY <1>7 DEF Apply
  <2>4. Tip = Tipped(ref) /\ Tip' = Tipped(ref') /\ Tip # Gone /\ Tip' # Gone
    BY <1>1, <1>2, <2>2
  <2>5. /\ Tip[1] = ref.lineage /\ Tip[2] = ref.head
        /\ Tip'[1] = ref'.lineage /\ Tip'[2] = ref'.head
    BY <1>1, <2>2, <2>4
  <2>6. CASE v.new.lineage > v.expect.lineage /\ v.commits = {}
    <3>1. Tip'[1] > Tip[1] /\ Log' = Log
      BY <1>7, <2>3, <2>5, <2>6
    <3>2. QED
      BY <2>4, <3>1 DEF History!Next, History!Move, Log, Tip
  <2>7. CASE v.new.lineage = v.expect.lineage /\ v.commits = {} /\ v.new.head = v.expect.head
    BY <1>7, <2>3, <2>4, <2>7
  <2>8. ASSUME v.new.lineage = v.expect.lineage,
               NEW o \in v.commits, v.commits = {o}, v.new.head = o.txid
        PROVE  [History!Next]_<<Log, Tip>>
    <3>1. o.lineage = ref.lineage /\ o.txid = ref.head + 1
      BY <1>7, <2>8 DEF PublishesOwn
    <3>2. /\ o \in Log' /\ Log' = Log \cup {o}
          /\ o.lineage = Tip[1] /\ o.txid = Tip[2] + 1 /\ Tip' = <<o.lineage, o.txid>>
      BY <1>7, <2>3, <2>4, <2>5, <2>8, <3>1
    <3>3. QED
      BY SMT, <2>4, <3>2 DEF History!Next, History!Append, Log, Tip
  <2>9. QED
    BY <2>1, <2>6, <2>7, <2>8 DEF Grows
<1>8. QED
  BY <1>4, <1>5, <1>6, <1>7 DEF RefMoves

(* A branch starts at its first state.                                      *)
LEMMA InitHistory ==
  ASSUME Gone \notin Nat \X Nat, Init PROVE History!Init
<1>1. ref \in Ref /\ Exists /\ ref.lineage = 1 /\ ref.head = 1
  <2>1. ref = FirstRef("init", {}) \/ ref = FirstRef("fork", {[lineage |-> 0, txid |-> 1]})
    BY DEF Init, StoreInit, Created, Forked
  <2>2. ref \in Ref /\ Exists
    BY <2>1, FirstRefType, StoreAssumption DEF Exists
  <2>3. \A n, b : LET r == FirstRef(n, b) IN r.lineage = 1 /\ r.head = 1
    BY DEF FirstRef
  <2>4. QED
    BY <2>1, <2>2, <2>3
<1>2. Tip = <<1, 1>> /\ Tip # Gone
  BY SMT, <1>1 DEF Tip
<1>3. Log \subseteq {FirstObject} /\ FirstObject.lineage = 1 /\ FirstObject.txid = 1
  BY DEF Log, Init, StoreInit, Created, Forked, FirstObject
<1>4. \A s \in Log : Log = {s} /\ Tip = <<s.lineage, s.txid>>
  BY <1>2, <1>3
<1>5. QED
  BY <1>2, <1>4 DEF History!Init, Log, Tip

(* Without sessions, a branch keeps the promise of BranchHistory, for any   *)
(* number of calls, faults and crashes: its lineages only grow, one txid at *)
(* a time at the head, and no state that was ever the head changes.         *)
THEOREM BranchKeepsHistory ==
  ASSUME Sessions = {}, Gone \notin Nat \X Nat PROVE Spec => KeepsHistory
<1>1. Init => History!Init
  BY InitHistory
<1>2. TypeOK /\ IntactInv => LogExact
  BY LogIsCommitted DEF LogExact
<1>3. TypeOK' /\ IntactInv' => LogExact'
  BY <1>2, PTL
<1>4. TypeOK /\ TypeOK' /\ PublishesOwn /\ (LeaseInv /\ VerdictInv) /\ IntactInv /\ IntactInv'
        /\ [Next]_vars => [History!Next]_<<Log, Tip>>
  <2> SUFFICES ASSUME TypeOK, TypeOK', PublishesOwn, LeaseInv, VerdictInv, IntactInv, IntactInv',
                      [Next]_vars
               PROVE  [History!Next]_<<Log, Tip>>
    OBVIOUS
  <2>1. \E p, W, P : StepOf(p, W, P)
    BY NextStep DEF VerdictInv
  <2>2. RefMoves /\ GrowInv
    BY <2>1 DEF StepOf, VerdictInv
  <2>3. Log = committed
    BY LogIsCommitted
  <2>4. Log' = committed'
    BY <1>3 DEF LogExact
  <2>5. QED
    BY <2>2, <2>3, <2>4, MovesHistory
<1>5. Spec => History!Init /\ [][History!Next]_<<Log, Tip>>
  BY <1>1, <1>4, TypeCorrect, PublishesOwnHolds, VerdictHolds, IntactHolds, PTL DEF Spec
<1>6. QED
  BY <1>5, PTL DEF KeepsHistory, History!Spec, Log, Tip
=============================================================================
