------------------------------ MODULE RefStore ------------------------------
(***************************************************************************)
(* The object store as the writers of ONE branch see it: the branch's ref, *)
(* the chain objects of its lineages, the base pointers into them, and the *)
(* writes of the ref that other parties make.                              *)
(*                                                                         *)
(* A ref write is conditional on the ref read (Store.PutRef over PutIf).   *)
(* On a local store its verdict is settled.  On S3 a write may be applied  *)
(* although it was reported as a lost compare-and-swap (the SDK retried a  *)
(* put whose first attempt had landed and got its own 412 or 409) or as an *)
(* error (its response was lost), and it may be applied after the client   *)
(* gave up.  FaultModes selects which of these happen, MaxFaults how often.*)
(***************************************************************************)
EXTENDS Naturals
-----------------------------------------------------------------------------
(***************************************************************************)
(* The branch ref (store.Ref) and the functions of it that the writers of  *)
(* a branch share: lease acquire, renew and release (store/lease.go), the  *)
(* refusals (ops.refuseIfHeld), the head advance of an at-rest checkpoint  *)
(* (ops.checkpointCommit) and of a session flush (session.flush).          *)
(*                                                                         *)
(* A ref's etag is its content (store.etagOf), so "the etag I read" is the *)
(* ref record I read.  Timestamps only matter through the content they     *)
(* make different: renewals counts the expiries written under one epoch,   *)
(* touched the activity stamps of metadata writes.  A claim that is taken  *)
(* back leaves the very bytes it was put on.  Whether the recorded expiry  *)
(* has passed depends on the clock and not on the ref: `lapsed' below.     *)
(***************************************************************************)
CONSTANTS
  Holders,    \* lease holders, one per checkpoint call or session open
  NoHolder,   \* Ref.LeaseHolder = ""
  UserNames,  \* the checkpoint names callers choose
  Kinds       \* object kinds in play: snapshots, and segments or not

ASSUME HolderAssumption == NoHolder \notin Holders

ASSUME KindAssumption == "snapshot" \in Kinds /\ Kinds \subseteq {"snapshot", "segment"}

\* The code's own checkpoint names are the callers' too.
Names == UserNames \cup {"init", "fork", "promote", "compact"}

\* The flags Ref.Deleting and Ref.Reaping; a ref may carry both.
Claims == {"deleting", "reaping"}

Checkpoint == [name: Names, txid: Nat, epoch: Nat]

\* store.BasePointer
BasePointer == [lineage: Nat, txid: Nat]

\* Lineage IDs are random and never minted twice: the branch's n-th is n, and
\* 0 stands for the lineages of other branches.  base is {} for nil.
Ref == [lineage: Nat, epoch: Nat, head: Nat, headEpoch: Nat,
        cps: SUBSET Checkpoint, base: SUBSET BasePointer,
        holder: Holders \cup {NoHolder}, renewals: Nat,
        touched: Nat, claims: SUBSET Claims]

LeaseLive(r, lapsed) == r.holder # NoHolder /\ ~lapsed

\* refuseIfHeld: a claim always refuses; a live lease does unless forced.
RefusedIfHeld(r, lapsed, force) ==
  \/ r.claims # {}
  \/ LeaseLive(r, lapsed) /\ ~force

\* AcquireLeaseRefIf's own refusals.
AcquireRefused(r, h, lapsed) ==
  \/ r.claims # {}
  \/ LeaseLive(r, lapsed) /\ r.holder # h

\* Mutant of AcquireLease: the epoch is not bumped.
AcquireLeaseSameEpoch(r, h, lapsed) ==
  [r EXCEPT !.holder = h, !.renewals = IF LeaseLive(r, lapsed) THEN @ + 1 ELSE 0]

\* What an acquire by h writes: a lease that is not live is taken under the
\* next epoch, h's own live lease is renewed under the same one.
AcquireLease(r, h, lapsed) ==
  IF LeaseLive(r, lapsed)
  THEN [r EXCEPT !.holder = h, !.renewals = @ + 1]
  ELSE [r EXCEPT !.holder = h, !.renewals = 0, !.epoch = @ + 1]

\* The test RenewLease, ReleaseLease and flush make: holder and epoch.
Holds(r, h, e) == r.holder = h /\ r.epoch = e

\* Mutant of RenewLease: the new expiry is formatted to the old bytes.
RenewLeaseInPlace(r) == r

RenewLease(r) == [r EXCEPT !.renewals = @ + 1]

ClearLease(r) == [r EXCEPT !.holder = NoHolder, !.renewals = 0]

HasCheckpoint(r, n) == \E cp \in r.cps : cp.name = n

\* Mutant of SetCheckpoint: the epoch is not recorded.
SetCheckpointNoEpoch(cps, names, o) ==
  {cp \in cps : cp.name \notin names} \cup
  {[name |-> n, txid |-> o.txid] : n \in names}

\* Ref.SetCheckpoint, for no name (an unnamed flush) or for one: o is the
\* object the checkpoint names.
SetCheckpoint(cps, names, o) ==
  {cp \in cps : cp.name \notin names} \cup
  {[name |-> n, txid |-> o.txid, epoch |-> o.epoch] : n \in names}

-----------------------------------------------------------------------------
(* The head write that publishes an uploaded object o.                      *)

\* Mutant of Ours: a head write is retried without looking at the lease.
OursWithoutLease(r, h, o) == r.lineage = o.lineage /\ r.head + 1 = o.txid

\* checkpointCommit.ours
Ours(r, h, o) ==
  Holds(r, h, o.epoch) /\ r.lineage = o.lineage /\ r.head + 1 = o.txid

\* checkpointCommit.premise
Premise(r, h, o) == Ours(r, h, o) /\ r.claims = {}

\* The head write of a flush, which keeps its lease.
FlushAdvance(r, names, o) ==
  [r EXCEPT !.head = o.txid, !.headEpoch = o.epoch,
            !.cps = SetCheckpoint(@, names, o)]

\* checkpointCommit.advance: releases the lease in the same write.
Advance(r, names, o) == ClearLease(FlushAdvance(r, names, o))

\* checkpointCommit.landed
Landed(r, names, o) ==
  /\ r.lineage = o.lineage
  /\ \E cp \in r.cps : /\ cp.name \in names
                       /\ cp.txid = o.txid
                       /\ cp.epoch = o.epoch

\* Mutant of Unreferenced: a ref on another lineage counts as not naming the
\* object.
UnreferencedElsewhere(r, o) == r.lineage # o.lineage \/ r.head < o.txid

\* checkpointCommit.unreferenced
Unreferenced(r, o) == r.lineage = o.lineage /\ r.head < o.txid

\* checkpointCommit.headUnderOurEpoch
HeadUnderOurEpoch(r, o) ==
  r.lineage = o.lineage /\ r.headEpoch = o.epoch /\ r.head >= o.txid

-----------------------------------------------------------------------------
(* A repoint (rollback, promote, compact): a fresh lineage at txid t, epoch *)
(* 1, no lease.                                                             *)

Repoint(r, l, t, cps, base) ==
  [ClearLease(r) EXCEPT !.lineage = l, !.epoch = 1, !.head = t,
                        !.headEpoch = 1, !.cps = cps, !.base = base]

\* The repointed ref r when the checkpoints are copied into the fresh lineage,
\* as snapshots of its first epoch.
Copied(r) == [r EXCEPT !.cps = {[cp EXCEPT !.epoch = 1] : cp \in @}, !.base = {}]

-----------------------------------------------------------------------------
(* Objects.  by and gen stand for the bytes: who encoded them, and which of *)
(* its encodes it was.                                                      *)

Object == [lineage: Nat, epoch: Nat, txid: Nat, kind: Kinds,
           by: Holders \cup {NoHolder}, gen: Nat]

\* store.SnapshotKey, store.SegmentKey
Key(o) == <<o.lineage, o.epoch, o.txid, o.kind>>

SameState(o, p) == o.lineage = p.lineage /\ o.txid = p.txid

\* Mutant of MoreLive: a snapshot wins over a segment of a later epoch.
MoreLiveSnapshotFirst(o, p) ==
  \/ o.kind = "snapshot" /\ p.kind # "snapshot"
  \/ o.kind = p.kind /\ o.epoch > p.epoch

\* store.moreLive: which of two members establishing the same txid resolution
\* keeps (keepHighestEpoch): the higher epoch, then the snapshot.
MoreLive(o, p) ==
  \/ o.epoch > p.epoch
  \/ o.epoch = p.epoch /\ o.kind = "snapshot" /\ p.kind # "snapshot"

-----------------------------------------------------------------------------
(* The store.                                                               *)

CONSTANTS
  Gone,          \* what a read of a deleted ref returns (ErrNotFound)
  FaultModes,    \* a subset of {"unsent", "lost", "late", "read"}
  MaxFaults,     \* bound: how many store calls misbehave
  Origins,       \* how the branch came to be, a subset of {"created", "forked"}
  Edits,         \* the edits other parties make, a subset of AllEdits
  MaxTouches     \* bound: how many metadata writes touch the ref

AllEdits == {"touch", "prune", "release", "deleting", "reaping", "delete", "fork"}

ASSUME StoreAssumption ==
  /\ Gone \notin Ref
  /\ FaultModes \subseteq {"unsent", "lost", "late", "read"}
  /\ MaxFaults \in Nat
  /\ Origins \subseteq {"created", "forked"}
  /\ Edits \subseteq AllEdits
  /\ MaxTouches \in Nat

VARIABLES
  ref,        \* the branch's ref, or Gone
  lapsed,     \* the recorded lease expiry is in the past
  objs,       \* the chain objects in the store
  inflight,   \* conditional ref writes the store may still apply
  lineages,   \* how many lineage IDs have been minted
  born,       \* lineages whose starting point (base.json or snapshot) is stored
  pins,       \* base pointers: lineage `child' starts at txid of `lineage'
  faults,     \* store calls that have misbehaved
  committed   \* history: the objects a landed head write has published

storeVars == <<ref, lapsed, objs, inflight, lineages, born, pins, faults,
               committed>>

\* The base pointer stored for a lineage; child 0 is a fork's, a branch of its own.
Pin == [child: Nat, lineage: Nat, txid: Nat]

\* A conditional ref write: commits is what it publishes, if anything.
RefWrite == [expect: Ref, new: Ref, commits: SUBSET Object]

StoreTypeOK ==
  /\ ref \in Ref \cup {Gone}
  /\ lapsed \in BOOLEAN
  /\ objs \subseteq Object
  /\ inflight \subseteq RefWrite
  /\ lineages \in Nat
  /\ born \subseteq Nat
  /\ pins \subseteq Pin
  /\ faults \in Nat
  /\ committed \subseteq Object

\* The snapshot Create uploads.
FirstObject == [lineage |-> 1, epoch |-> 1, txid |-> 1, kind |-> "snapshot",
                by |-> NoHolder, gen |-> 0]

\* The ref as PutRef stores it: a head epoch left unset becomes the epoch.
FirstRef(name, base) ==
  [lineage |-> 1, epoch |-> 1, head |-> 1, headEpoch |-> 1,
   cps |-> {[name |-> name, txid |-> 1, epoch |-> 1]}, base |-> base,
   holder |-> NoHolder, renewals |-> 0, touched |-> 0, claims |-> {}]

\* createFromQuiesced: lineage 1 with its first snapshot.
Created ==
  /\ ref = FirstRef("init", {})
  /\ objs = {FirstObject}
  /\ pins = {}

\* forkWith, sharing: lineage 1 behind a base pointer into another branch.
Forked ==
  /\ ref = FirstRef("fork", {[lineage |-> 0, txid |-> 1]})
  /\ objs = {}
  /\ pins = {[child |-> 1, lineage |-> 0, txid |-> 1]}

StoreInit ==
  /\ \/ "created" \in Origins /\ Created
     \/ "forked" \in Origins /\ Forked
  /\ committed = objs
  /\ lapsed = FALSE
  /\ inflight = {}
  /\ lineages = 1
  /\ born = {1}
  /\ faults = 0

Exists == ref # Gone

-----------------------------------------------------------------------------
(* Store calls.                                                             *)

\* The store applies a ref write.  A write that moves the expiry, or drops
\* the lease, leaves an expiry that is not in the past.
Apply(w) ==
  /\ ref' = w.new
  /\ committed' = committed \cup w.commits
  /\ lapsed' = /\ lapsed
               /\ w.new.holder # NoHolder
               /\ w.new.epoch = ref.epoch
               /\ w.new.renewals = ref.renewals

Fault(mode) ==
  /\ mode \in FaultModes
  /\ faults < MaxFaults
  /\ faults' = faults + 1

\* Store.PutRef: the call ends with verdict "ok", "cas" (ErrCAS) or "err".
PutRef(w, verdict) ==
  \/ /\ verdict = "ok"
     /\ ref = w.expect
     /\ Apply(w)
     /\ UNCHANGED <<inflight, faults>>
  \/ /\ verdict = "cas"
     /\ ref # w.expect
     /\ UNCHANGED <<ref, lapsed, committed, inflight, faults>>
  \/ /\ verdict = "err"
     /\ Fault("unsent")
     /\ UNCHANGED <<ref, lapsed, committed, inflight>>
  \/ /\ verdict \in {"cas", "err"}
     /\ Fault("lost")
     /\ ref = w.expect
     /\ Apply(w)
     /\ UNCHANGED inflight
  \/ /\ verdict \in {"cas", "err"}
     /\ Fault("late")
     /\ inflight' = inflight \cup {w}
     /\ UNCHANGED <<ref, lapsed, committed>>

Verdicts == {"ok", "cas", "err"}

\* A read of the ref that fails for a reason other than ErrNotFound.
ReadFails == Fault("read") /\ UNCHANGED <<ref, lapsed, inflight, committed>>

\* The objects at the key of o.
At(o) == {p \in objs : Key(p) = Key(o)}

\* bestEffortDelete of the keys of os, which may fail.
BestEffortDelete(os) == objs' \in {objs, {p \in objs : \A o \in os : Key(p) # Key(o)}}

\* Store.CollapseBase: the lineage that owns txid t of lineage l, skipping the
\* ones that only pass through at t.
CollapseBase(l, t) ==
  LET BaseOf(k) == {q \in pins : k # 0 /\ q.child = k /\ t <= q.txid}
      owner[k \in Nat] == IF BaseOf(k) = {} THEN k
                          ELSE owner[(CHOOSE q \in BaseOf(k) : TRUE).lineage]
  IN  owner[l]

-----------------------------------------------------------------------------
(* What other parties do to the branch.  Each is a read and a conditional   *)
(* write retried or abandoned on a lost compare-and-swap, so it takes       *)
(* effect at its write or not at all.                                       *)

\* A write the client gave up on is applied.
Land ==
  /\ \E w \in inflight :
       /\ ref = w.expect
       /\ Apply(w)
       /\ inflight' = inflight \ {w}
  /\ UNCHANGED <<objs, lineages, born, pins, faults>>

\* The clock passes the recorded expiry.
Expire ==
  /\ Exists
  /\ ref.holder # NoHolder
  /\ lapsed' = TRUE
  /\ UNCHANGED <<ref, objs, inflight, lineages, born, pins, faults, committed>>

Edit(new) ==
  /\ ref' = new
  /\ lapsed' = (lapsed /\ new # Gone /\ new.holder # NoHolder)
  /\ UNCHANGED <<objs, inflight, lineages, born, pins, faults, committed>>

\* Workspace.Touch
Touch ==
  /\ "touch" \in Edits
  /\ Exists
  /\ ref.touched < MaxTouches
  /\ "reaping" \notin ref.claims
  /\ Edit([ref EXCEPT !.touched = @ + 1])

\* Workspace.PruneCheckpoints
Prune(n) ==
  /\ "prune" \in Edits
  /\ Exists
  /\ HasCheckpoint(ref, n)
  /\ ref.claims = {}
  /\ Edit([ref EXCEPT !.cps = {cp \in @ : cp.name # n}])

\* ReleaseLeaseByHolder, by an operator who names the holder it shows
ReleaseByHolder ==
  /\ "release" \in Edits
  /\ Exists
  /\ ref.holder # NoHolder
  /\ Edit(ClearLease(ref))

\* Destroy (forced or not) and reapOne claim the branch, the latter only past
\* a deadline that a live lease defers (ReapDeadline) ...
Claim(k) ==
  /\ k \in Edits
  /\ Exists
  /\ k \notin ref.claims
  /\ k = "reaping" => ~LeaseLive(ref, lapsed)
  /\ Edit([ref EXCEPT !.claims = @ \cup {k}])

\* ... and take their claim back, or the janitor clears a stale one ...
Unclaim(k) ==
  /\ Exists
  /\ k \in ref.claims
  /\ Edit([ref EXCEPT !.claims = @ \ {k}])

\* ... or Destroy deletes the ref under its claim.
DeleteRef ==
  /\ "delete" \in Edits
  /\ Exists
  /\ "deleting" \in ref.claims
  /\ Edit(Gone)

\* forkWith, sharing the branch's chain at t behind a base pointer.
ForkAt(t) ==
  \E l \in 0 .. ref.lineage :
    /\ l = CollapseBase(ref.lineage, t)
    /\ pins' = pins \cup {[child |-> 0, lineage |-> l, txid |-> t]}

\* A fork of the branch's head, or of a checkpoint that is on it.
Fork ==
  /\ "fork" \in Edits
  /\ Exists
  /\ \E t \in {ref.head} \cup {cp.txid : cp \in ref.cps} : ForkAt(t)
  /\ UNCHANGED <<ref, lapsed, objs, inflight, lineages, born, faults, committed>>

Environment ==
  \/ Land \/ Expire \/ Touch \/ ReleaseByHolder \/ DeleteRef \/ Fork
  \/ \E n \in Names : Prune(n)
  \/ \E k \in Claims : Claim(k) \/ Unclaim(k)
=============================================================================
