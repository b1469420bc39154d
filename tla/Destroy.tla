------------------------------ MODULE Destroy ------------------------------
(***************************************************************************)
(* Destroy, the reaper and the janitor's clearing of stale claims          *)
(* (ops/gc.go, ops/reap.go), against the lease holders and touches of the  *)
(* branch.  A destroy claims the ref (Ref.Deleting), quiesces the          *)
(* checkout and deletes the ref under its claim.                           *)
(*                                                                         *)
(* As in RefStore a ref's etag is its content, and each other party's read *)
(* and conditional write is one step.  The claim's DeletingAt is unique to *)
(* the call that stamped it: claim is that call.  age counts clock ticks   *)
(* since the stamp, saturating; all other hosts' clocks run Ahead ticks    *)
(* ahead of the claimant's.  The branch is unprotected and has a TTL.  Once *)
(* it is gone its name may be taken again: a branch created under it has a *)
(* lineage of its own, so none of its refs equals one of an earlier life.  *)
(***************************************************************************)
EXTENDS Naturals

CONSTANTS
  Calls,            \* calls of Destroy
  Forced,           \* those with --force
  Reapers,          \* reapOne on this branch, in passes of different janitors
  Holders,          \* lease holders
  NoHolder,         \* Ref.LeaseHolder = ""
  NoClaim,          \* Ref.Deleting = false
  Gone,             \* what a read of a deleted ref returns
  Conditional,      \* a local store: conditional delete, settled writes
  StaleAfter,       \* staleDeletingClaimAfter, in ticks
  Margin,           \* deleteClaimMargin, in ticks
  Ahead,            \* clock skew between hosts, in ticks
  Resends,          \* the SDK sends a delete again whose answer was lost
  DeleteDelay,      \* how long an unconditional delete takes to land, in ticks
  SettleReads,      \* claimSettleReads
  DeleteAttempts,   \* destroyDeleteAttempts
  MaxFaults,        \* bound: how many store calls misbehave
  MaxEpoch,         \* bound: acquires
  MaxRenewals,      \* bound: renewals under one epoch
  MaxTouches,       \* bound: touches
  MaxWrites,        \* bound: flushes and releases
  MaxLives          \* bound: creations of a branch of this name

Destroyers == Calls \cup Reapers

ASSUME PartyAssumption ==
  /\ Forced \subseteq Calls
  /\ Calls \cap Reapers = {}
  /\ NoClaim \notin Destroyers
  /\ NoHolder \notin Holders

ASSUME TimeAssumption ==
  /\ Conditional \in BOOLEAN /\ Resends \in BOOLEAN
  /\ StaleAfter \in Nat /\ Margin \in Nat /\ Ahead \in Nat /\ DeleteDelay \in Nat
  /\ Conditional \/ DeleteDelay + Ahead <= Margin

ASSUME BoundAssumption ==
  /\ SettleReads \in Nat /\ DeleteAttempts \in Nat /\ MaxFaults \in Nat
  /\ MaxEpoch \in Nat /\ MaxRenewals \in Nat /\ MaxTouches \in Nat /\ MaxWrites \in Nat
  /\ MaxLives \in Nat

\* The fields a destroy, a reap or an acquire looks at; touched and writes
\* stand for the content other writes change.
Ref == [life: Nat, epoch: Nat, holder: Holders \cup {NoHolder}, renewals: Nat,
        touched: Nat, writes: Nat, claim: Destroyers \cup {NoClaim}, reaping: BOOLEAN]

ASSUME GoneAssumption == Gone \notin Ref

VARIABLES
  ref,        \* the branch's ref, or Gone
  lapsed,     \* the recorded lease expiry is in the past
  due,        \* ReapDeadline has passed
  lives,      \* branches created under this name
  inflight,   \* claim writes the store may still apply
  faults,     \* store calls that have misbehaved
  pc,         \* where each destroyer is
  etag,       \* the ref each destroyer's next write or delete expects
  claimed,    \* the ref each destroyer's claim wrote
  tries,      \* the attempt number of the loop it is in
  age,        \* ticks since its stamp
  sent,       \* ticks since its unconditional delete was sent
  reapedAt    \* history: the branch and its touches at a reaper's claim

vars == <<ref, lapsed, due, lives, inflight, faults, pc, etag, claimed, tries, age, sent, reapedAt>>

procVars == <<etag, claimed, tries, age, sent, reapedAt>>

Labels == {"start", "rpDestroy", "dsClaim", "dsSettle", "dsQuiesce", "dsDelete",
           "dsReread", "dsUnwind", "rpUnwind", "done"}

FirstRef == [life |-> 1, epoch |-> 1, holder |-> NoHolder, renewals |-> 0, touched |-> 0,
             writes |-> 0, claim |-> NoClaim, reaping |-> FALSE]

Init ==
  /\ ref = FirstRef
  /\ lapsed = FALSE /\ due = FALSE /\ lives = 1
  /\ inflight = {} /\ faults = 0
  /\ pc = [d \in Destroyers |-> "start"]
  /\ etag = [d \in Destroyers |-> FirstRef]
  /\ claimed = [d \in Destroyers |-> FirstRef]
  /\ tries = [d \in Destroyers |-> 0]
  /\ age = [d \in Destroyers |-> 0]
  /\ sent = [d \in Destroyers |-> 0]
  /\ reapedAt = [d \in Destroyers |-> [life |-> 0, touched |-> 0]]

Exists == ref # Gone

LeaseLive == Exists /\ ref.holder # NoHolder /\ ~lapsed

\* deleteClaimFresh, as another host judges the claim of d.
Fresh(d) == age[d] + Ahead < StaleAfter

\* liveDeleteClaim
LiveClaim == Exists /\ ref.claim # NoClaim /\ Fresh(ref.claim)

\* A write of the ref that leaves its expiry and activity stamp alone.
SetRef(new) == ref' = new /\ UNCHANGED <<lapsed, due, lives>>

Goto(d, label) == pc' = [pc EXCEPT ![d] = label]

\* Destroy returns an error: to its caller, or to reapOne.
Fails(d) == Goto(d, IF d \in Reapers THEN "rpUnwind" ELSE "done")

Fault == faults < MaxFaults /\ faults' = faults + 1

-----------------------------------------------------------------------------
(* Destroy                                                                  *)

Refused(d) == (LeaseLive /\ d \notin Forced) \/ LiveClaim

\* The read and the stamp.  A refused call wrote nothing and may be made
\* again; a refused reap unwinds its own claim.
DsRead(d) ==
  /\ pc[d] = IF d \in Reapers THEN "rpDestroy" ELSE "start"
  /\ \/ /\ Exists
        /\ ~Refused(d)
        /\ etag' = [etag EXCEPT ![d] = ref]
        /\ claimed' = [claimed EXCEPT ![d] = [ref EXCEPT !.claim = d]]
        /\ age' = [age EXCEPT ![d] = 0]
        /\ Goto(d, "dsClaim")
        /\ UNCHANGED faults
     \/ /\ \/ (~Exists \/ Refused(d)) /\ UNCHANGED faults
           \/ Fault
        /\ d \in Reapers
        /\ Fails(d)
        /\ UNCHANGED <<etag, claimed, age>>
  /\ UNCHANGED <<ref, lapsed, due, lives, inflight, tries, sent, reapedAt>>

\* The claim write did not report success: on a local store it is lost.
ClaimFails(d) ==
  /\ IF Conditional THEN Fails(d) ELSE Goto(d, "dsSettle")
  /\ tries' = [tries EXCEPT ![d] = 0]
  /\ UNCHANGED etag

\* The claim write: it lands, loses its compare-and-swap, is not sent, lands
\* with its answer lost, or is still on its way.
DsClaim(d) ==
  /\ pc[d] = "dsClaim"
  /\ \/ /\ ref = etag[d]
        /\ SetRef(claimed[d])
        /\ etag' = [etag EXCEPT ![d] = claimed[d]]
        /\ Goto(d, "dsQuiesce")
        /\ UNCHANGED <<inflight, faults, tries>>
     \/ /\ ref # etag[d]
        /\ ClaimFails(d)
        /\ UNCHANGED <<ref, lapsed, due, lives, inflight, faults>>
     \/ /\ Fault
        /\ ClaimFails(d)
        /\ UNCHANGED <<ref, lapsed, due, lives, inflight>>
     \/ /\ Fault /\ ~Conditional
        /\ ref = etag[d]
        /\ SetRef(claimed[d])
        /\ ClaimFails(d)
        /\ UNCHANGED inflight
     \/ /\ Fault /\ ~Conditional
        /\ inflight' = inflight \cup {[expect |-> etag[d], new |-> claimed[d]]}
        /\ ClaimFails(d)
        /\ UNCHANGED <<ref, lapsed, due, lives>>
  /\ UNCHANGED <<claimed, age, sent, reapedAt>>

\* onlyRenewed
OnlyRenewed(d) ==
  /\ Exists
  /\ ref = [claimed[d] EXCEPT !.renewals = ref.renewals, !.reaping = ref.reaping]
  /\ ref.reaping => claimed[d].reaping

\* Mutant of GoesOn: a lease renewed since is not looked at.
GoesOnUnder(d) == OnlyRenewed(d)

\* The re-read finds the destroy's own claim, and no lease live again.
GoesOn(d) == OnlyRenewed(d) /\ (LeaseLive => d \in Forced)

\* landedClaim: a claim write without success may have landed.
DsSettle(d) ==
  /\ pc[d] = "dsSettle"
  /\ \/ /\ ref = etag[d]
        /\ tries[d] < SettleReads
        /\ tries' = [tries EXCEPT ![d] = @ + 1]
        /\ UNCHANGED <<pc, etag, faults>>
     \/ /\ \/ ref = etag[d] /\ tries[d] = SettleReads /\ UNCHANGED faults
           \/ ref # etag[d] /\ (Exists => ref.claim # d) /\ UNCHANGED faults
           \/ Fault
        /\ Fails(d)
        /\ UNCHANGED <<tries, etag>>
     \/ /\ ref # etag[d]
        /\ Exists
        /\ ref.claim = d
        /\ Goto(d, IF GoesOn(d) THEN "dsQuiesce" ELSE "dsUnwind")
        /\ etag' = [etag EXCEPT ![d] = ref]
        /\ UNCHANGED <<tries, faults>>
  /\ UNCHANGED <<ref, lapsed, due, lives, inflight, claimed, age, sent, reapedAt>>

\* Mutant of InTime: no margin is left for the delete.
InTimeNoMargin(d) == age[d] < StaleAfter

\* The claim has more than deleteClaimMargin left to stand.
InTime(d) == age[d] + Margin < StaleAfter

\* The quiesce of the checkout, which may fail, and the check of the claim's age.
DsQuiesce(d) ==
  /\ pc[d] = "dsQuiesce"
  /\ \/ InTime(d) /\ Goto(d, "dsDelete")
     \/ Goto(d, "dsUnwind")
  /\ tries' = [tries EXCEPT ![d] = 1]
  /\ sent' = [sent EXCEPT ![d] = 0]
  /\ UNCHANGED <<ref, lapsed, due, lives, inflight, faults, etag, claimed, age, reapedAt>>

\* deleteClaimedRef: DeleteRefIf, conditional on the etag on a local store only.
\* A delete that reports an error has landed by then, or never does; one
\* whose answer was lost may be sent again within the call.
DsDelete(d) ==
  /\ pc[d] = "dsDelete"
  /\ \/ /\ Conditional => ref = etag[d]
        /\ SetRef(Gone)
        /\ Goto(d, "done")
        /\ UNCHANGED faults
     \/ /\ Conditional
        /\ ref # etag[d]
        /\ Goto(d, IF tries[d] = DeleteAttempts THEN "dsUnwind" ELSE "dsReread")
        /\ UNCHANGED <<ref, lapsed, due, lives, faults>>
     \/ /\ Fault
        /\ \/ SetRef(ref)
           \/ ~Conditional /\ SetRef(Gone)
        /\ Goto(d, "dsUnwind")
     \/ /\ Resends /\ ~Conditional
        /\ Fault
        /\ SetRef(Gone)
        /\ UNCHANGED pc
  /\ UNCHANGED <<inflight, etag, claimed, tries, age, sent, reapedAt>>

\* ... and its re-read after a lost compare-and-swap.
DsReread(d) ==
  /\ pc[d] = "dsReread"
  /\ \/ /\ GoesOn(d)
        /\ etag' = [etag EXCEPT ![d] = ref]
        /\ tries' = [tries EXCEPT ![d] = @ + 1]
        /\ Goto(d, "dsDelete")
        /\ UNCHANGED faults
     \/ /\ \/ ~GoesOn(d) /\ UNCHANGED faults
           \/ Fault
        /\ Goto(d, "dsUnwind")
        /\ UNCHANGED <<etag, tries>>
  /\ UNCHANGED <<ref, lapsed, due, lives, inflight, claimed, age, sent, reapedAt>>

\* Mutant of Unwound: the reaping claim goes too.
UnwoundReaping == [ref EXCEPT !.claim = NoClaim, !.reaping = FALSE]

Unwound == [ref EXCEPT !.claim = NoClaim]

\* unwindDeletingClaim: the call's own claim and no other; a failed write, or
\* renewals before each of its attempts, leave it.
DsUnwind(d) ==
  /\ pc[d] = "dsUnwind"
  /\ \/ Exists /\ ref.claim = d /\ SetRef(Unwound)
     \/ UNCHANGED <<ref, lapsed, due, lives>>
  /\ Fails(d)
  /\ UNCHANGED <<inflight, faults>> /\ UNCHANGED procVars

-----------------------------------------------------------------------------
(* reapOne                                                                  *)

\* Past the deadline, the reaping claim; before it, an older claim is stale
\* (clearStaleReapingClaim).
RpRead(r) ==
  /\ pc[r] = "start"
  /\ Exists
  /\ ~LiveClaim
  /\ \/ /\ due
        /\ SetRef([ref EXCEPT !.reaping = TRUE])
        /\ reapedAt' = [reapedAt EXCEPT ![r] = [life |-> ref.life, touched |-> ref.touched]]
        /\ Goto(r, "rpDestroy")
     \/ /\ ~due
        /\ ref.reaping
        /\ SetRef([ref EXCEPT !.reaping = FALSE])
        /\ Goto(r, "done")
        /\ UNCHANGED reapedAt
  /\ UNCHANGED <<inflight, faults, etag, claimed, tries, age, sent>>

\* The unwind after Destroy failed, unless another destroy's live claim is on
\* the ref; best effort.
RpUnwind(r) ==
  /\ pc[r] = "rpUnwind"
  /\ \/ Exists /\ ~LiveClaim /\ SetRef([ref EXCEPT !.reaping = FALSE])
     \/ UNCHANGED <<ref, lapsed, due, lives>>
  /\ Goto(r, "done")
  /\ UNCHANGED <<inflight, faults>> /\ UNCHANGED procVars

-----------------------------------------------------------------------------
(* The janitor, the clock and the store.                                    *)

\* Mutant of Abandoned: the claims on leased branches are passed over.
AbandonedUnleased ==
  Exists /\ ref.claim # NoClaim /\ ~Fresh(ref.claim) /\ ref.holder = NoHolder

Abandoned == Exists /\ ref.claim # NoClaim /\ ~Fresh(ref.claim)

\* ClearStaleDeleteClaims
ClearStale ==
  /\ Abandoned
  /\ SetRef([ref EXCEPT !.claim = NoClaim])
  /\ UNCHANGED <<inflight, faults, pc>> /\ UNCHANGED procVars

\* A claim write its caller gave up on is applied.
Land ==
  /\ \E w \in inflight :
       /\ ref = w.expect
       /\ SetRef(w.new)
       /\ inflight' = inflight \ {w}
  /\ UNCHANGED <<faults, pc>> /\ UNCHANGED procVars

\* Time passes; an unconditional delete lands within DeleteDelay ticks.
Tick ==
  /\ \A d \in Destroyers : pc[d] = "dsDelete" /\ ~Conditional => sent[d] < DeleteDelay
  /\ age' = [d \in Destroyers |-> IF age[d] < StaleAfter THEN age[d] + 1 ELSE age[d]]
  /\ sent' = [d \in Destroyers |-> IF pc[d] = "dsDelete" /\ ~Conditional
                                   THEN sent[d] + 1 ELSE sent[d]]
  /\ UNCHANGED <<ref, lapsed, due, lives, inflight, faults, pc, etag, claimed, tries, reapedAt>>

\* The lease expiry passes, then the reap deadline.
Expire ==
  /\ Exists
  /\ \/ ref.holder # NoHolder /\ lapsed' = TRUE /\ UNCHANGED due
     \/ ~LeaseLive /\ due' = TRUE /\ UNCHANGED lapsed
  /\ UNCHANGED <<ref, lives, inflight, faults, pc>> /\ UNCHANGED procVars

\* A process that dies.
Crash(d) ==
  /\ pc[d] \notin {"start", "done"}
  /\ Goto(d, "done")
  /\ UNCHANGED <<ref, lapsed, due, lives, inflight, faults>> /\ UNCHANGED procVars

-----------------------------------------------------------------------------
(* Lease holders and touches.                                               *)

\* A write of the ref that moves its activity stamp or its expiry.
Active(new) ==
  /\ ref' = new
  /\ due' = FALSE
  /\ lapsed' = (lapsed /\ new.holder = ref.holder /\ new.renewals = ref.renewals
                       /\ new.epoch = ref.epoch)
  /\ UNCHANGED <<lives, inflight, faults, pc>> /\ UNCHANGED procVars

\* AcquireLeaseRefIf, of a lease that is not live.
Acquire(h) ==
  /\ Exists
  /\ ref.claim = NoClaim /\ ~ref.reaping
  /\ ~LeaseLive
  /\ ref.epoch < MaxEpoch
  /\ Active([ref EXCEPT !.epoch = @ + 1, !.holder = h, !.renewals = 0])

\* RenewLease goes on under a claim.
Renew(h) ==
  /\ Exists
  /\ ref.holder = h
  /\ ref.renewals < MaxRenewals
  /\ Active([ref EXCEPT !.renewals = @ + 1])

\* A flush.
Flush(h) ==
  /\ Exists
  /\ ref.holder = h
  /\ ref.writes < MaxWrites
  /\ Active([ref EXCEPT !.writes = @ + 1])

\* clearLease
Release(h) ==
  /\ Exists
  /\ ref.holder = h
  /\ ref.writes < MaxWrites
  /\ Active([ref EXCEPT !.holder = NoHolder, !.renewals = 0, !.writes = @ + 1])

\* Workspace.Touch
Touch ==
  /\ Exists
  /\ ~ref.reaping
  /\ ref.touched < MaxTouches
  /\ Active([ref EXCEPT !.touched = @ + 1])

\* Create or a fork takes the name: a create-only write of the ref.
Create ==
  /\ ~Exists
  /\ lives < MaxLives
  /\ lives' = lives + 1
  /\ ref' = [FirstRef EXCEPT !.life = lives']
  /\ lapsed' = FALSE /\ due' = FALSE
  /\ UNCHANGED <<inflight, faults, pc>> /\ UNCHANGED procVars

-----------------------------------------------------------------------------
DestroyNext(d) ==
  \/ DsRead(d) \/ DsClaim(d) \/ DsSettle(d) \/ DsQuiesce(d)
  \/ DsDelete(d) \/ DsReread(d) \/ DsUnwind(d) \/ Crash(d)

Next ==
  \/ \E d \in Destroyers : DestroyNext(d)
  \/ \E r \in Reapers : RpRead(r) \/ RpUnwind(r)
  \/ ClearStale \/ Land \/ Tick \/ Expire \/ Touch \/ Create
  \/ \E h \in Holders : Acquire(h) \/ Renew(h) \/ Flush(h) \/ Release(h)

Spec == Init /\ [][Next]_vars

\* The janitor ticks for as long as a daemon runs (StartJanitor), time passes,
\* and a delete that was sent lands or its process dies.
FairSpec ==
  /\ Spec
  /\ WF_vars(Tick)
  /\ WF_vars(ClearStale)
  /\ \A d \in Destroyers : WF_vars(DsDelete(d))

-----------------------------------------------------------------------------
(* Properties                                                               *)

TypeOK ==
  /\ ref \in Ref \cup {Gone}
  /\ lapsed \in BOOLEAN /\ due \in BOOLEAN /\ lives \in Nat \ {0}
  /\ inflight \subseteq [expect: Ref, new: Ref]
  /\ faults \in Nat
  /\ pc \in [Destroyers -> Labels]
  /\ etag \in [Destroyers -> Ref] /\ claimed \in [Destroyers -> Ref]
  /\ tries \in [Destroyers -> Nat]
  /\ age \in [Destroyers -> Nat] /\ sent \in [Destroyers -> Nat]
  /\ reapedAt \in [Destroyers -> [life: Nat, touched: Nat]]

\* The step is d's delete of the branch.
Deletes(d) == DsDelete(d) /\ Exists /\ ref' = Gone

\* Destroy's promise: what a destroy deletes still carries its own claim, at
\* the epoch it claimed, so no acquire took the branch in between, nor is it
\* another branch created since under its name; on S3 it is the claim's age
\* alone that keeps an unconditional delete to this.
DeletesOwnClaim ==
  [][\A d \in Destroyers :
       Deletes(d) => ref.claim = d /\ ref.epoch = claimed[d].epoch]_vars

\* On a local store, a destroy without --force, the reaper's included, never
\* deletes a branch whose lease is live, even one renewed under the claim
\* (deleteClaimedRef).
SparesLive == \A d \in Destroyers \ Forced : Deletes(d) => ~LeaseLive

UnforcedSpares == [][SparesLive]_vars

\* "a concurrent touch and reap have exactly one winner" (Reap): a reaper
\* deletes no branch touched since its reaping claim.
ReapsUntouched ==
  \A r \in Reapers :
    Deletes(r) /\ ref.life = reapedAt[r].life => ref.touched = reapedAt[r].touched

TouchOrReap == [][ReapsUntouched]_vars

\* Every destroy's claim ends, in the branch's deletion or off the ref, also
\* when its destroy died or its claim landed late (ClearStaleDeleteClaims).
ClaimsEnd ==
  \A d \in Destroyers : (Exists /\ ref.claim = d) ~> (~Exists \/ ref.claim # d)

\* A claim on the ref or on its way there: no destroy still to stamp its own
\* has one.
UnstampedUnseen ==
  \A d \in Destroyers : pc[d] \in {"start", "rpDestroy"} =>
    /\ Exists => ref.claim # d
    /\ \A w \in inflight : w.expect.claim # d /\ w.new.claim # d
    /\ \A e \in Destroyers : etag[e].claim # d

\* A pending claim write replaces no claim another host would call live.
TakesOverStale ==
  /\ \A w \in inflight : w.expect.claim # NoClaim => ~Fresh(w.expect.claim)
  /\ \A d \in Destroyers : pc[d] = "dsClaim" =>
       /\ etag[d].claim # NoClaim => ~Fresh(etag[d].claim)
       /\ claimed[d] = [etag[d] EXCEPT !.claim = d]

\* From its claim to its delete a destroy knows its claim, and while other
\* hosts call the claim live the ref carries it, or is gone and the delete
\* that took it is being sent again.
ClaimStands ==
  \A d \in Destroyers : pc[d] \in {"dsQuiesce", "dsDelete", "dsReread"} =>
    /\ etag[d].claim = d /\ claimed[d].claim = d
    /\ etag[d].epoch = claimed[d].epoch
    /\ Fresh(d) => \/ Exists /\ ref.claim = d /\ ref.epoch = claimed[d].epoch
                   \/ Resends /\ ~Exists

\* An unconditional delete lands before any host calls its claim stale.
DeletesInTime ==
  ~Conditional => \A d \in Destroyers :
    /\ pc[d] # "dsReread"
    /\ pc[d] = "dsDelete" => sent[d] <= DeleteDelay /\ age[d] + Margin < StaleAfter + sent[d]

\* The inductive invariant behind DeletesOwnClaim.
DestroyInv ==
  /\ TypeOK /\ UnstampedUnseen /\ TakesOverStale /\ ClaimStands /\ DeletesInTime
=============================================================================
