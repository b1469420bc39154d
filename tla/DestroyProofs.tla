--------------------------- MODULE DestroyProofs ---------------------------
(***************************************************************************)
(* A destroy deletes only what carries its own claim, at the epoch it      *)
(* claimed: for any calls, reapers and holders, any faults, either kind of *)
(* store, and any clock skew and delay within deleteClaimMargin, unless    *)
(* deletes are sent again and the branch's name is reused.  On a local     *)
(* store one without --force deletes no branch under a live lease; on      *)
(* either, a reaper without a rival deletes none touched since its claim.  *)
(***************************************************************************)
EXTENDS Destroy, TLAPS

(* Zenon proves what no step says otherwise of.                             *)
USE Zenon

\* Where a destroy no longer counts on its claim.
Idle == {"done", "rpUnwind", "dsUnwind", "dsSettle"}

\* A move of the ref that no claim another destroy counts on is lost by: the
\* claim and epoch stay, or the claim goes that is stale or its owner's to drop.
KeepsClaims ==
  \/ ref' = ref
  \/ /\ Exists
     /\ ref' \in Ref
     /\ \/ ref'.claim = ref.claim /\ (ref'.epoch = ref.epoch \/ ref.claim = NoClaim)
        \/ /\ ref'.claim = NoClaim
           /\ ref.claim # NoClaim => ~Fresh(ref.claim) \/ pc[ref.claim] = "dsUnwind"

\* A process goes nowhere, leaves its claim behind, or is a reaper on its way
\* to its Destroy.
LeavesClaims ==
  \A d \in Destroyers :
    \/ pc'[d] = pc[d]
    \/ pc'[d] \in Idle
    \/ pc[d] = "start" /\ pc'[d] = "rpDestroy"

\* The steps that stamp, claim and delete nothing keep the invariant.
LEMMA QuietSteps ==
  ASSUME DestroyInv, TypeOK', KeepsClaims, LeavesClaims,
         UNCHANGED <<inflight, etag, claimed, age>>,
         \A d \in Destroyers : pc'[d] = "dsDelete" => sent'[d] = sent[d]
  PROVE  DestroyInv'
<1> USE DEF DestroyInv, Fresh, Exists
<1>1. UnstampedUnseen'
  <2> SUFFICES ASSUME NEW d \in Destroyers, pc'[d] \in {"start", "rpDestroy"}
               PROVE  /\ ref' # Gone => ref'.claim # d
                      /\ \A w \in inflight : w.expect.claim # d /\ w.new.claim # d
                      /\ \A e \in Destroyers : etag[e].claim # d
      BY DEF UnstampedUnseen
  <2>1. pc[d] \in {"start", "rpDestroy"}
      BY DEF LeavesClaims, Idle
  <2> QED BY <2>1, PartyAssumption DEF UnstampedUnseen, KeepsClaims
<1>2. TakesOverStale'
  <2>1. \A d \in Destroyers : pc'[d] = "dsClaim" => pc[d] = "dsClaim"
      BY DEF LeavesClaims, Idle
  <2> QED BY <2>1 DEF TakesOverStale
<1>3. ClaimStands'
  <2> SUFFICES ASSUME NEW d \in Destroyers, pc'[d] \in {"dsQuiesce", "dsDelete", "dsReread"}
               PROVE  /\ etag[d].claim = d /\ claimed[d].claim = d
                      /\ etag[d].epoch = claimed[d].epoch
                      /\ Fresh(d) => \/ ref' # Gone /\ ref'.claim = d
                                        /\ ref'.epoch = claimed[d].epoch
                                     \/ Resends /\ ref' = Gone
      BY DEF ClaimStands
  <2>1. pc[d] = pc'[d]
      BY DEF LeavesClaims, Idle
  <2>2. d # NoClaim
      BY PartyAssumption
  <2> QED BY SMT, <2>1, <2>2, GoneAssumption DEF ClaimStands, KeepsClaims
<1>4. DeletesInTime'
  <2>1. \A d \in Destroyers : pc'[d] \in {"dsDelete", "dsReread"} => pc[d] = pc'[d]
      BY DEF LeavesClaims, Idle
  <2> QED BY <2>1 DEF DeletesInTime
<1> QED BY <1>1, <1>2, <1>3, <1>4

-----------------------------------------------------------------------------
(* Type correctness                                                         *)

\* The records Destroy and its rivals write are refs.
LEMMA RefWrites ==
  ASSUME NEW r \in Ref
  PROVE  /\ \A d \in Destroyers \cup {NoClaim} :
              /\ [r EXCEPT !.claim = d] \in Ref
              /\ [r EXCEPT !.claim = d].claim = d
              /\ [r EXCEPT !.claim = d].epoch = r.epoch
         /\ \A b \in BOOLEAN :
              /\ [r EXCEPT !.reaping = b] \in Ref
              /\ [r EXCEPT !.reaping = b].claim = r.claim
              /\ [r EXCEPT !.reaping = b].epoch = r.epoch
BY DEF Ref

\* The same of the holders' writes; only an acquire moves the epoch.
LEMMA ActiveWrites ==
  ASSUME NEW r \in Ref, NEW h \in Holders
  PROVE  /\ LET new == [r EXCEPT !.epoch = @ + 1, !.holder = h, !.renewals = 0]
            IN  new \in Ref /\ new.claim = r.claim
         /\ LET new == [r EXCEPT !.renewals = @ + 1]
            IN  new \in Ref /\ new.claim = r.claim /\ new.epoch = r.epoch
         /\ LET new == [r EXCEPT !.writes = @ + 1]
            IN  new \in Ref /\ new.claim = r.claim /\ new.epoch = r.epoch
         /\ LET new == [r EXCEPT !.holder = NoHolder, !.renewals = 0, !.writes = @ + 1]
            IN  new \in Ref /\ new.claim = r.claim /\ new.epoch = r.epoch
<1>1. r.epoch + 1 \in Nat /\ r.renewals + 1 \in Nat /\ r.writes + 1 \in Nat /\ 0 \in Nat
  BY SMT DEF Ref
<1> QED BY <1>1 DEF Ref

\* And of a touch.
LEMMA TouchWrites ==
  ASSUME NEW r \in Ref
  PROVE  LET new == [r EXCEPT !.touched = @ + 1]
         IN  new \in Ref /\ new.claim = r.claim /\ new.epoch = r.epoch
<1>1. r.touched + 1 \in Nat
  BY SMT DEF Ref
<1> QED BY <1>1 DEF Ref

\* Where a process may go, and that a fault is counted.
LEMMA Moves ==
  ASSUME TypeOK, NEW d \in Destroyers, NEW label \in Labels, Goto(d, label)
  PROVE  /\ pc' \in [Destroyers -> Labels]
         /\ pc'[d] = label
         /\ \A e \in Destroyers : e # d => pc'[e] = pc[e]
BY DEF TypeOK, Goto

LEMMA FailsMoves ==
  ASSUME TypeOK, NEW d \in Destroyers, Fails(d)
  PROVE  /\ pc' \in [Destroyers -> Labels]
         /\ pc'[d] \in {"done", "rpUnwind"}
         /\ \A e \in Destroyers : e # d => pc'[e] = pc[e]
BY DEF TypeOK, Goto, Fails, Labels

LEMMA FaultCounted ==
  ASSUME TypeOK, Fault \/ UNCHANGED faults
  PROVE  faults' \in Nat
BY SMT DEF TypeOK, Fault

-----------------------------------------------------------------------------
(* The other parties                                                        *)

LEMMA ActiveKeeps ==
  ASSUME DestroyInv, NEW new \in Ref, Exists, Active(new), new.claim = ref.claim,
         new.epoch = ref.epoch \/ ref.claim = NoClaim
  PROVE  DestroyInv'
<1>1. TypeOK'
  BY DEF DestroyInv, TypeOK, Active, procVars
<1>2. KeepsClaims /\ LeavesClaims
  BY DEF KeepsClaims, LeavesClaims, Active
<1> QED BY <1>1, <1>2, QuietSteps DEF Active, procVars

\* Holders, touches, the clock's effects on the lease, crashes and the janitor.
LEMMA RivalsKeep ==
  ASSUME DestroyInv,
         \/ \E h \in Holders : Acquire(h) \/ Renew(h) \/ Flush(h) \/ Release(h)
         \/ Touch \/ Expire \/ ClearStale
         \/ \E d \in Destroyers : Crash(d)
  PROVE  DestroyInv'
<1>0. TypeOK /\ (Exists => ref \in Ref)
  BY DEF DestroyInv, TypeOK, Exists
<1>1. ASSUME NEW h \in Holders, Acquire(h) \/ Renew(h) \/ Flush(h) \/ Release(h)
      PROVE  DestroyInv'
  <2>1. CASE Acquire(h)
    BY <1>0, <2>1, ActiveWrites, ActiveKeeps DEF Acquire
  <2>2. CASE Renew(h)
    BY <1>0, <2>2, ActiveWrites, ActiveKeeps DEF Renew
  <2>3. CASE Flush(h)
    BY <1>0, <2>3, ActiveWrites, ActiveKeeps DEF Flush
  <2>4. CASE Release(h)
    BY <1>0, <2>4, ActiveWrites, ActiveKeeps DEF Release
  <2> QED BY <1>1, <2>1, <2>2, <2>3, <2>4
<1>2. CASE Touch
  BY <1>0, <1>2, TouchWrites, ActiveKeeps DEF Touch
<1>3. CASE Expire
  <2>1. TypeOK'
    BY <1>0, <1>3 DEF TypeOK, Expire, procVars
  <2>2. KeepsClaims /\ LeavesClaims
    BY <1>3 DEF KeepsClaims, LeavesClaims, Expire
  <2> QED BY <1>3, <2>1, <2>2, QuietSteps DEF Expire, procVars
<1>4. CASE ClearStale
  <2>1. ref' \in Ref /\ ref'.claim = NoClaim
    BY <1>0, <1>4, RefWrites DEF ClearStale, Abandoned, SetRef
  <2>2. TypeOK'
    BY <1>0, <1>4, <2>1 DEF TypeOK, ClearStale, SetRef, procVars
  <2>3. KeepsClaims /\ LeavesClaims
    BY <1>4, <2>1 DEF KeepsClaims, LeavesClaims, ClearStale, Abandoned
  <2> QED BY <1>4, <2>2, <2>3, QuietSteps DEF ClearStale, procVars
<1>5. ASSUME NEW d \in Destroyers, Crash(d)
      PROVE  DestroyInv'
  <2>1. /\ pc' \in [Destroyers -> Labels] /\ pc'[d] = "done"
        /\ \A e \in Destroyers : e # d => pc'[e] = pc[e]
    BY <1>0, <1>5, Moves DEF Crash, Labels
  <2>2. TypeOK'
    BY <1>0, <1>5, <2>1 DEF TypeOK, Crash, procVars
  <2>3. KeepsClaims /\ LeavesClaims
    BY <1>5, <2>1 DEF KeepsClaims, LeavesClaims, Crash, Idle
  <2> QED BY <1>5, <2>2, <2>3, QuietSteps DEF Crash, procVars
<1> QED BY <1>1, <1>2, <1>3, <1>4, <1>5

\* The reaper's own claim and its unwind.
LEMMA ReapersKeep ==
  ASSUME DestroyInv, NEW r \in Reapers, RpRead(r) \/ RpUnwind(r)
  PROVE  DestroyInv'
<1>0. TypeOK /\ (Exists => ref \in Ref) /\ r \in Destroyers
  BY DEF DestroyInv, TypeOK, Exists, Destroyers
<1>1. \/ UNCHANGED ref
      \/ Exists /\ ref' \in Ref /\ ref'.claim = ref.claim /\ ref'.epoch = ref.epoch
  BY <1>0, RefWrites DEF RpRead, RpUnwind, SetRef
<1>2. /\ pc' \in [Destroyers -> Labels]
      /\ pc'[r] = "done" \/ (pc[r] = "start" /\ pc'[r] = "rpDestroy")
      /\ \A e \in Destroyers : e # r => pc'[e] = pc[e]
  BY <1>0, Moves DEF RpRead, RpUnwind, Labels
<1>3. reapedAt' \in [Destroyers -> [life: Nat, touched: Nat]]
  <2>1. Exists => [life |-> ref.life, touched |-> ref.touched] \in [life: Nat, touched: Nat]
    BY <1>0 DEF Ref
  <2>2. CASE RpRead(r)
    BY <1>0, <2>1, <2>2 DEF TypeOK, RpRead
  <2>3. CASE RpUnwind(r)
    BY <1>0, <2>3 DEF TypeOK, RpUnwind, procVars
  <2> QED BY <2>2, <2>3
<1>4. TypeOK'
  BY <1>0, <1>1, <1>2, <1>3 DEF TypeOK, RpRead, RpUnwind, SetRef, procVars
<1>5. KeepsClaims /\ LeavesClaims
  BY <1>1, <1>2 DEF KeepsClaims, LeavesClaims, Idle
<1> QED BY <1>4, <1>5, QuietSteps DEF RpRead, RpUnwind, procVars

-----------------------------------------------------------------------------
(* The clock and the store                                                  *)

LEMMA TickKeeps ==
  ASSUME DestroyInv, Tick
  PROVE  DestroyInv'
<1>1. /\ \A d \in Destroyers : age'[d] \in Nat /\ age'[d] >= age[d] /\ age'[d] <= age[d] + 1
      /\ \A d \in Destroyers : sent'[d] \in Nat
      /\ \A d \in Destroyers : pc[d] = "dsDelete" /\ ~Conditional =>
           sent'[d] = sent[d] + 1 /\ sent'[d] <= DeleteDelay
  BY SMT, TimeAssumption DEF DestroyInv, TypeOK, Tick
<1>2. TypeOK'
  BY <1>1 DEF DestroyInv, TypeOK, Tick
<1>3. \A d \in Destroyers : Fresh(d)' => Fresh(d)
  BY SMT, <1>1, TimeAssumption DEF DestroyInv, TypeOK, Fresh
<1>4. UnstampedUnseen'
  BY DEF DestroyInv, UnstampedUnseen, Tick, Exists
<1>5. TakesOverStale'
  <2>1. \A w \in inflight : w.expect.claim \in Destroyers \cup {NoClaim}
    BY DEF DestroyInv, TypeOK, Ref
  <2>2. \A d \in Destroyers : etag[d].claim \in Destroyers \cup {NoClaim}
    BY DEF DestroyInv, TypeOK, Ref
  <2> QED BY <1>3, <2>1, <2>2 DEF DestroyInv, TakesOverStale, Tick
<1>6. ClaimStands'
  BY <1>3 DEF DestroyInv, ClaimStands, Tick, Exists
<1>7. DeletesInTime'
  BY SMT, <1>1, TimeAssumption DEF DestroyInv, TypeOK, DeletesInTime, Tick
<1> QED BY <1>2, <1>4, <1>5, <1>6, <1>7 DEF DestroyInv

\* A late claim write replaces no claim that stands.
LEMMA LandKeeps ==
  ASSUME DestroyInv, Land
  PROVE  DestroyInv'
<1> PICK w \in inflight : ref = w.expect /\ SetRef(w.new) /\ inflight' = inflight \ {w}
  BY DEF Land
<1>1. w.expect \in Ref /\ w.new \in Ref
  BY DEF DestroyInv, TypeOK
<1>2. Exists /\ ref' # Gone /\ (ref.claim # NoClaim => ~Fresh(ref.claim))
  BY <1>1, GoneAssumption DEF DestroyInv, TakesOverStale, Exists, SetRef
<1>3. \A e \in Destroyers : pc[e] \in {"dsQuiesce", "dsDelete", "dsReread"} => ~Fresh(e)
  BY SMT, <1>2, PartyAssumption DEF DestroyInv, ClaimStands
<1>4. TypeOK'
  BY <1>1 DEF DestroyInv, TypeOK, Land, SetRef, procVars
<1>5. UnstampedUnseen'
  BY <1>2 DEF DestroyInv, UnstampedUnseen, Land, SetRef, procVars
<1>6. TakesOverStale'
  BY DEF DestroyInv, TakesOverStale, Land, procVars, Fresh
<1>7. ClaimStands'
  BY <1>3 DEF DestroyInv, ClaimStands, Land, procVars, Fresh
<1>8. DeletesInTime'
  BY DEF DestroyInv, DeletesInTime, Land, procVars
<1> QED BY <1>4, <1>5, <1>6, <1>7, <1>8 DEF DestroyInv

-----------------------------------------------------------------------------
(* Destroy                                                                  *)

\* The stamp: no claim of this call is anywhere yet, so its age may restart.
LEMMA DsReadKeeps ==
  ASSUME DestroyInv, NEW d \in Destroyers, DsRead(d)
  PROVE  DestroyInv'
<1>0. TypeOK /\ pc[d] \in {"start", "rpDestroy"}
  BY DEF DestroyInv, DsRead
<1>1. CASE Fails(d) /\ UNCHANGED <<etag, claimed, age>>
  <2>1. faults' \in Nat
    BY <1>0, FaultCounted DEF DsRead
  <2>2. TypeOK'
    BY <1>0, <1>1, <2>1, FailsMoves DEF TypeOK, DsRead
  <2>3. KeepsClaims /\ LeavesClaims
    BY <1>0, <1>1, FailsMoves DEF KeepsClaims, LeavesClaims, Idle, DsRead
  <2> QED BY <1>1, <2>2, <2>3, QuietSteps DEF DsRead
<1>2. CASE /\ Exists /\ ~Refused(d)
           /\ etag' = [etag EXCEPT ![d] = ref]
           /\ claimed' = [claimed EXCEPT ![d] = [ref EXCEPT !.claim = d]]
           /\ age' = [age EXCEPT ![d] = 0]
           /\ Goto(d, "dsClaim")
           /\ UNCHANGED faults
  <2>1. ref \in Ref /\ [ref EXCEPT !.claim = d] \in Ref /\ ref.claim # d
    BY <1>0, <1>2, RefWrites DEF TypeOK, Exists, DestroyInv, UnstampedUnseen
  <2>2. /\ pc' \in [Destroyers -> Labels] /\ pc'[d] = "dsClaim"
        /\ \A e \in Destroyers : e # d => pc'[e] = pc[e]
    BY <1>0, <1>2, Moves DEF Labels
  <2>3. TypeOK'
    BY <1>0, <1>2, <2>1, <2>2 DEF TypeOK, DsRead
  <2>4. \A e \in Destroyers : e # d => /\ etag'[e] = etag[e] /\ claimed'[e] = claimed[e]
                                       /\ age'[e] = age[e] /\ (Fresh(e)' <=> Fresh(e))
    BY <1>0, <1>2 DEF TypeOK, Fresh
  <2>5. etag'[d] = ref /\ claimed'[d] = [ref EXCEPT !.claim = d]
    BY <1>0, <1>2 DEF TypeOK
  <2>6. UnstampedUnseen'
    BY SMT, <1>0, <2>2, <2>4, <2>5 DEF DestroyInv, UnstampedUnseen, DsRead, Exists
  <2>7. TakesOverStale'
    <3>1. ref.claim # NoClaim => ref.claim \in Destroyers /\ ~Fresh(ref.claim)'
      <4>1. ref.claim # NoClaim => ref.claim \in Destroyers /\ ~Fresh(ref.claim)
        BY <1>2, <2>1 DEF Refused, LiveClaim, Ref
      <4> QED BY <2>1, <2>4, <4>1 DEF Fresh, DsRead
    <3>2. \A w \in inflight : w.expect.claim \in Destroyers \cup {NoClaim} /\ w.expect.claim # d
      BY <1>0 DEF DestroyInv, UnstampedUnseen, TypeOK, Ref
    <3>3. \A e \in Destroyers : etag[e].claim \in Destroyers \cup {NoClaim} /\ etag[e].claim # d
      BY <1>0 DEF DestroyInv, UnstampedUnseen, TypeOK, Ref
    <3> QED BY SMT, <2>2, <2>4, <2>5, <3>1, <3>2, <3>3 DEF DestroyInv, TakesOverStale, DsRead
  <2>8. ClaimStands'
    BY SMT, <2>2, <2>4 DEF DestroyInv, ClaimStands, DsRead, Exists
  <2>9. DeletesInTime'
    BY <2>2, <2>4 DEF DestroyInv, DeletesInTime, DsRead
  <2> QED BY <2>3, <2>6, <2>7, <2>8, <2>9 DEF DestroyInv
<1> QED BY <1>1, <1>2 DEF DsRead

\* The claim write lands, with or without its answer.
LEMMA ClaimKeeps ==
  ASSUME DestroyInv, NEW d \in Destroyers, pc[d] = "dsClaim", ref = etag[d],
         SetRef(claimed[d]), TypeOK', UNCHANGED <<inflight, claimed, age, sent>>,
         \A e \in Destroyers : e # d => pc'[e] = pc[e] /\ etag'[e] = etag[e],
         \/ pc'[d] = "dsQuiesce" /\ etag'[d] = claimed[d]
         \/ pc'[d] \in Idle /\ etag'[d] = etag[d]
  PROVE  DestroyInv'
<1>1. /\ etag[d] \in Ref /\ claimed[d] \in Ref
      /\ claimed[d].claim = d /\ claimed[d].epoch = etag[d].epoch
      /\ ref.claim # NoClaim => ~Fresh(ref.claim)
  <2>1. etag[d] \in Ref /\ claimed[d] \in Ref
    BY DEF DestroyInv, TypeOK
  <2>2. /\ claimed[d] = [etag[d] EXCEPT !.claim = d]
        /\ ref.claim # NoClaim => ~Fresh(ref.claim)
    BY DEF DestroyInv, TakesOverStale
  <2> QED BY SMT, <2>1, <2>2, RefWrites
<1>2. ref' = claimed[d] /\ ref' # Gone
  BY <1>1, GoneAssumption DEF SetRef
<1>3. \A e \in Destroyers : pc[e] \in {"dsQuiesce", "dsDelete", "dsReread"} => ~Fresh(e)
  BY SMT, <1>1, PartyAssumption, GoneAssumption DEF DestroyInv, ClaimStands, Exists
<1>4. UnstampedUnseen'
  <2>1. ASSUME NEW e \in Destroyers, pc'[e] \in {"start", "rpDestroy"}
        PROVE  e # d /\ pc[e] = pc'[e]
    BY <2>1 DEF Idle
  <2> QED BY SMT, <1>1, <1>2, <2>1 DEF DestroyInv, UnstampedUnseen, Exists
<1>5. TakesOverStale'
  BY DEF DestroyInv, TakesOverStale, Fresh, Idle
<1>6. ClaimStands'
  <2>1. ASSUME NEW e \in Destroyers, e # d
        PROVE  pc'[e] = pc[e] /\ etag'[e] = etag[e]
    BY <2>1
  <2> QED BY SMT, <1>1, <1>2, <1>3, <2>1 DEF DestroyInv, ClaimStands, Fresh, Exists, Idle
<1>7. DeletesInTime'
  BY DEF DestroyInv, DeletesInTime, Idle
<1> QED BY <1>4, <1>5, <1>6, <1>7 DEF DestroyInv

LEMMA ClaimFailsMoves ==
  ASSUME TypeOK, NEW d \in Destroyers, ClaimFails(d)
  PROVE  /\ pc' \in [Destroyers -> Labels] /\ pc'[d] \in Idle
         /\ \A e \in Destroyers : e # d => pc'[e] = pc[e]
         /\ tries' \in [Destroyers -> Nat] /\ etag' = etag
<1>1. CASE Conditional
  BY <1>1, FailsMoves DEF ClaimFails, Idle, TypeOK
<1>2. CASE ~Conditional
  BY <1>2, Moves DEF ClaimFails, Idle, TypeOK, Labels
<1> QED BY <1>1, <1>2

LEMMA DsClaimKeeps ==
  ASSUME DestroyInv, NEW d \in Destroyers, DsClaim(d)
  PROVE  DestroyInv'
<1>0. TypeOK /\ pc[d] = "dsClaim" /\ etag[d] \in Ref /\ claimed[d] \in Ref
  BY DEF DestroyInv, TypeOK, DsClaim
<1>1. CASE /\ ref = etag[d] /\ SetRef(claimed[d])
           /\ etag' = [etag EXCEPT ![d] = claimed[d]]
           /\ Goto(d, "dsQuiesce")
           /\ UNCHANGED <<inflight, faults, tries>>
  <2>1. /\ pc' \in [Destroyers -> Labels] /\ pc'[d] = "dsQuiesce"
        /\ \A e \in Destroyers : e # d => pc'[e] = pc[e]
    BY <1>0, <1>1, Moves DEF Labels
  <2>2. TypeOK'
    BY <1>0, <1>1, <2>1 DEF TypeOK, DsClaim, SetRef
  <2>3. etag'[d] = claimed[d] /\ \A e \in Destroyers : e # d => etag'[e] = etag[e]
    BY <1>0, <1>1 DEF TypeOK
  <2> QED BY <1>0, <1>1, <2>1, <2>2, <2>3, ClaimKeeps DEF DsClaim
<1>2. CASE ClaimFails(d) /\ UNCHANGED <<ref, lapsed, due, lives, inflight>>
  <2>1. faults' \in Nat
    BY <1>0, FaultCounted DEF DsClaim
  <2>2. TypeOK'
    BY <1>0, <1>2, <2>1, ClaimFailsMoves DEF TypeOK, DsClaim
  <2>3. KeepsClaims /\ LeavesClaims
    BY <1>0, <1>2, ClaimFailsMoves DEF KeepsClaims, LeavesClaims
  <2> QED BY <1>0, <1>2, <2>2, <2>3, QuietSteps, ClaimFailsMoves DEF DsClaim
<1>3. CASE ClaimFails(d) /\ ref = etag[d] /\ SetRef(claimed[d]) /\ UNCHANGED inflight
  <2>1. faults' \in Nat
    BY <1>0, FaultCounted DEF DsClaim
  <2>2. TypeOK'
    BY <1>0, <1>3, <2>1, ClaimFailsMoves DEF TypeOK, DsClaim, SetRef
  <2> QED BY <1>0, <1>3, <2>2, ClaimKeeps, ClaimFailsMoves DEF DsClaim
<1>4. CASE /\ ClaimFails(d) /\ UNCHANGED <<ref, lapsed, due, lives>>
           /\ inflight' = inflight \cup {[expect |-> etag[d], new |-> claimed[d]]}
  <2>1. faults' \in Nat
    BY <1>0, FaultCounted DEF DsClaim
  <2>2. /\ pc' \in [Destroyers -> Labels] /\ pc'[d] \in Idle
        /\ \A e \in Destroyers : e # d => pc'[e] = pc[e]
        /\ tries' \in [Destroyers -> Nat] /\ etag' = etag
        /\ UNCHANGED <<claimed, age, sent, reapedAt>>
    BY <1>0, <1>4, ClaimFailsMoves DEF DsClaim
  <2>3. [expect |-> etag[d], new |-> claimed[d]] \in [expect: Ref, new: Ref]
    BY <1>0
  <2>4. TypeOK'
    BY <1>0, <1>4, <2>1, <2>2, <2>3 DEF TypeOK
  <2>5. claimed[d].claim = d /\ (etag[d].claim # NoClaim => ~Fresh(etag[d].claim))
    <3>1. /\ claimed[d] = [etag[d] EXCEPT !.claim = d]
          /\ etag[d].claim # NoClaim => ~Fresh(etag[d].claim)
      BY <1>0 DEF DestroyInv, TakesOverStale
    <3> QED BY SMT, <1>0, <3>1, RefWrites
  <2>6. UnstampedUnseen'
    <3> SUFFICES ASSUME NEW e \in Destroyers, pc'[e] \in {"start", "rpDestroy"}
                 PROVE  /\ ref # Gone => ref.claim # e
                        /\ \A w \in inflight' : w.expect.claim # e /\ w.new.claim # e
                        /\ \A f \in Destroyers : etag[f].claim # e
      BY <1>4, <2>2 DEF UnstampedUnseen, Exists
    <3>1. e # d /\ pc[e] \in {"start", "rpDestroy"}
      BY <2>2 DEF Idle
    <3>2. /\ ref # Gone => ref.claim # e
          /\ \A w \in inflight : w.expect.claim # e /\ w.new.claim # e
          /\ \A f \in Destroyers : etag[f].claim # e
      BY <3>1 DEF DestroyInv, UnstampedUnseen, Exists
    <3>3. \A w \in inflight' : w \in inflight \/ (w.expect = etag[d] /\ w.new = claimed[d])
      BY SMT, <1>4
    <3> QED BY <2>5, <3>1, <3>2, <3>3
  <2>7. TakesOverStale'
    BY SMT, <1>4, <2>2, <2>5 DEF DestroyInv, TakesOverStale, Fresh, Idle
  <2>8. ClaimStands'
    BY <1>4, <2>2 DEF DestroyInv, ClaimStands, Fresh, Exists, Idle
  <2>9. DeletesInTime'
    BY <2>2 DEF DestroyInv, DeletesInTime, Idle
  <2> QED BY <2>4, <2>6, <2>7, <2>8, <2>9 DEF DestroyInv
<1> QED BY <1>1, <1>2, <1>3, <1>4 DEF DsClaim

\* landedClaim goes on only under this call's own claim, at the epoch claimed.
LEMMA GoesOnUnderClaim ==
  ASSUME TypeOK, NEW d \in Destroyers, GoesOn(d)
  PROVE  /\ Exists /\ ref \in Ref
         /\ ref.claim = claimed[d].claim /\ ref.epoch = claimed[d].epoch
<1>1. Exists /\ ref \in Ref /\ claimed[d] \in Ref
  BY DEF TypeOK, GoesOn, OnlyRenewed, Exists
<1>2. ref = [claimed[d] EXCEPT !.renewals = ref.renewals, !.reaping = ref.reaping]
  BY DEF GoesOn, OnlyRenewed
<1> QED BY <1>1, <1>2 DEF Ref

LEMMA DsSettleKeeps ==
  ASSUME DestroyInv, NEW d \in Destroyers, DsSettle(d)
  PROVE  DestroyInv'
<1>0. TypeOK /\ pc[d] = "dsSettle"
  BY DEF DestroyInv, DsSettle
<1>1. CASE /\ tries' = [tries EXCEPT ![d] = @ + 1] /\ UNCHANGED <<pc, etag, faults>>
  <2>1. TypeOK'
    BY SMT, <1>0, <1>1 DEF TypeOK, DsSettle
  <2>2. KeepsClaims /\ LeavesClaims
    BY <1>1 DEF KeepsClaims, LeavesClaims, DsSettle
  <2> QED BY <1>1, <2>1, <2>2, QuietSteps DEF DsSettle
<1>2. CASE Fails(d) /\ UNCHANGED <<tries, etag>>
  <2>1. faults' \in Nat
    BY <1>0, FaultCounted DEF DsSettle
  <2>2. TypeOK'
    BY <1>0, <1>2, <2>1, FailsMoves DEF TypeOK, DsSettle
  <2>3. KeepsClaims /\ LeavesClaims
    BY <1>0, <1>2, FailsMoves DEF KeepsClaims, LeavesClaims, Idle, DsSettle
  <2> QED BY <1>2, <2>2, <2>3, QuietSteps DEF DsSettle
<1>3. CASE /\ Exists /\ ref.claim = d
           /\ Goto(d, IF GoesOn(d) THEN "dsQuiesce" ELSE "dsUnwind")
           /\ etag' = [etag EXCEPT ![d] = ref]
           /\ UNCHANGED <<tries, faults>>
  <2>1. /\ pc' \in [Destroyers -> Labels]
        /\ pc'[d] = IF GoesOn(d) THEN "dsQuiesce" ELSE "dsUnwind"
        /\ \A e \in Destroyers : e # d => pc'[e] = pc[e]
    BY <1>0, <1>3, Moves DEF Labels
  <2>2. ref \in Ref
    BY <1>0, <1>3 DEF TypeOK, Exists
  <2>3. TypeOK'
    BY <1>0, <1>3, <2>1, <2>2 DEF TypeOK, DsSettle
  <2>4. etag'[d] = ref /\ \A e \in Destroyers : e # d => etag'[e] = etag[e]
    BY <1>0, <1>3 DEF TypeOK
  <2>5. UNCHANGED <<ref, inflight, claimed, age, sent>>
    BY DEF DsSettle
  <2>6. UnstampedUnseen'
    <3> SUFFICES ASSUME NEW e \in Destroyers, pc'[e] \in {"start", "rpDestroy"}
                 PROVE  /\ ref # Gone => ref.claim # e
                        /\ \A w \in inflight : w.expect.claim # e /\ w.new.claim # e
                        /\ \A f \in Destroyers : etag'[f].claim # e
      BY <2>5 DEF UnstampedUnseen, Exists
    <3>1. e # d /\ pc[e] \in {"start", "rpDestroy"}
      BY <2>1
    <3> QED BY <1>3, <2>4, <3>1 DEF DestroyInv, UnstampedUnseen, Exists
  <2>7. TakesOverStale'
    BY <2>1, <2>4, <2>5 DEF DestroyInv, TakesOverStale, Fresh
  <2>8. ClaimStands'
    <3>1. GoesOn(d) => claimed[d].claim = d /\ ref.epoch = claimed[d].epoch
      BY <1>0, <1>3, GoesOnUnderClaim
    <3> QED BY SMT, <1>3, <2>1, <2>4, <2>5, <3>1 DEF DestroyInv, ClaimStands, Fresh, Exists
  <2>9. DeletesInTime'
    BY <2>1, <2>5 DEF DestroyInv, DeletesInTime
  <2> QED BY <2>3, <2>6, <2>7, <2>8, <2>9 DEF DestroyInv
<1> QED BY <1>1, <1>2, <1>3 DEF DsSettle

LEMMA DsQuiesceKeeps ==
  ASSUME DestroyInv, NEW d \in Destroyers, DsQuiesce(d)
  PROVE  DestroyInv'
<1>0. TypeOK /\ pc[d] = "dsQuiesce"
  BY DEF DestroyInv, DsQuiesce
<1>1. /\ pc' \in [Destroyers -> Labels]
      /\ (pc'[d] = "dsDelete" /\ InTime(d)) \/ pc'[d] = "dsUnwind"
      /\ \A e \in Destroyers : e # d => pc'[e] = pc[e]
  BY <1>0, Moves DEF DsQuiesce, Labels
<1>2. TypeOK'
  BY <1>0, <1>1 DEF TypeOK, DsQuiesce
<1>3. UNCHANGED <<ref, inflight, etag, claimed, age>>
  BY DEF DsQuiesce
<1>4. sent'[d] = 0 /\ \A e \in Destroyers : e # d => sent'[e] = sent[e]
  BY <1>0 DEF TypeOK, DsQuiesce
<1>5. UnstampedUnseen'
  BY <1>1, <1>3 DEF DestroyInv, UnstampedUnseen, Exists
<1>6. TakesOverStale'
  BY <1>1, <1>3 DEF DestroyInv, TakesOverStale, Fresh
<1>7. ClaimStands'
  BY <1>0, <1>1, <1>3 DEF DestroyInv, ClaimStands, Fresh, Exists
<1>8. DeletesInTime'
  BY SMT, <1>0, <1>1, <1>3, <1>4, TimeAssumption DEF DestroyInv, DeletesInTime, InTime, TypeOK
<1> QED BY <1>2, <1>5, <1>6, <1>7, <1>8 DEF DestroyInv

\* What d deletes carries d's claim: by the etag where the delete is
\* conditional, and elsewhere because the claim is still fresh.
LEMMA DeletesClaimed ==
  ASSUME DestroyInv, NEW d \in Destroyers, pc[d] = "dsDelete", Exists,
         Conditional => ref = etag[d]
  PROVE  ref.claim = d /\ ref.epoch = claimed[d].epoch
<1>1. CASE Conditional
  BY <1>1 DEF DestroyInv, ClaimStands
<1>2. CASE ~Conditional
  <2>1. Fresh(d)
    BY SMT, <1>2, TimeAssumption DEF DestroyInv, DeletesInTime, TypeOK, Fresh
  <2> QED BY <2>1 DEF DestroyInv, ClaimStands
<1> QED BY <1>1, <1>2

LEMMA DsDeleteKeeps ==
  ASSUME DestroyInv, NEW d \in Destroyers, DsDelete(d)
  PROVE  DestroyInv'
<1>0. /\ TypeOK /\ pc[d] = "dsDelete" /\ faults' \in Nat
      /\ UNCHANGED <<inflight, etag, claimed, tries, age, sent, reapedAt>>
  BY FaultCounted DEF DestroyInv, DsDelete
<1>1. /\ pc' \in [Destroyers -> Labels]
      /\ \/ pc'[d] \in {"done", "dsUnwind"}
         \/ Conditional /\ pc'[d] = "dsReread"
         \/ Resends /\ ~Conditional /\ pc'[d] = "dsDelete"
      /\ \A e \in Destroyers : e # d => pc'[e] = pc[e]
  <2>1. UNCHANGED pc => pc' \in [Destroyers -> Labels] /\ pc'[d] = "dsDelete"
    BY <1>0 DEF TypeOK
  <2> QED BY <1>0, <2>1, Moves DEF DsDelete, Labels
<1>2. /\ UNCHANGED <<lapsed, due, lives>>
      /\ \/ ref' = ref
         \/ /\ ref' = Gone /\ (Conditional => ref = etag[d])
            /\ pc'[d] \in {"done", "dsUnwind"} \/ (Resends /\ pc' = pc)
  <2>1. CASE (Conditional => ref = etag[d]) /\ SetRef(Gone) /\ Goto(d, "done")
    BY <1>0, <2>1, Moves DEF SetRef, Labels
  <2>2. CASE UNCHANGED <<ref, lapsed, due, lives>>
    BY <2>2
  <2>3. CASE (SetRef(ref) \/ (~Conditional /\ SetRef(Gone))) /\ Goto(d, "dsUnwind")
    BY <1>0, <2>3, Moves DEF SetRef, Labels
  <2>4. CASE Resends /\ ~Conditional /\ SetRef(Gone) /\ UNCHANGED pc
    BY <2>4 DEF SetRef
  <2> QED BY <2>1, <2>2, <2>3, <2>4 DEF DsDelete
<1>3. TypeOK'
  BY <1>0, <1>1, <1>2 DEF TypeOK
<1>4. UnstampedUnseen'
  BY <1>0, <1>1, <1>2 DEF DestroyInv, UnstampedUnseen, Exists
<1>5. TakesOverStale'
  BY <1>0, <1>1 DEF DestroyInv, TakesOverStale, Fresh
<1>6. ClaimStands'
  <2>1. CASE ref' = ref
    BY <1>0, <1>1, <2>1 DEF DestroyInv, ClaimStands, Fresh, Exists
  <2>2. CASE ref' # ref
    <3>1. Exists /\ ref.claim = d
      BY <1>0, <1>2, <2>2, DeletesClaimed DEF Exists
    <3>2. \A e \in Destroyers :
            pc'[e] \in {"dsQuiesce", "dsDelete", "dsReread"} =>
              pc[e] = pc'[e] /\ (e # d \/ (Resends /\ ref' = Gone))
      BY <1>0, <1>1, <1>2, <2>2
    <3> QED BY <1>0, <3>1, <3>2 DEF DestroyInv, ClaimStands, Fresh, Exists
  <2> QED BY <2>1, <2>2
<1>7. DeletesInTime'
  BY <1>0, <1>1 DEF DestroyInv, DeletesInTime
<1> QED BY <1>3, <1>4, <1>5, <1>6, <1>7 DEF DestroyInv

LEMMA DsRereadKeeps ==
  ASSUME DestroyInv, NEW d \in Destroyers, DsReread(d)
  PROVE  DestroyInv'
<1>0. /\ TypeOK /\ pc[d] = "dsReread" /\ Conditional /\ faults' \in Nat
      /\ UNCHANGED <<ref, lapsed, due, lives, inflight, claimed, age, sent, reapedAt>>
  BY FaultCounted, TimeAssumption DEF DestroyInv, DeletesInTime, DsReread
<1>1. CASE Goto(d, "dsUnwind") /\ UNCHANGED <<etag, tries>>
  <2>1. /\ pc' \in [Destroyers -> Labels] /\ pc'[d] = "dsUnwind"
        /\ \A e \in Destroyers : e # d => pc'[e] = pc[e]
    BY <1>0, <1>1, Moves DEF Labels
  <2>2. TypeOK'
    BY <1>0, <1>1, <2>1 DEF TypeOK
  <2>3. KeepsClaims /\ LeavesClaims
    BY <1>0, <2>1 DEF KeepsClaims, LeavesClaims, Idle
  <2> QED BY <1>0, <1>1, <2>2, <2>3, QuietSteps
<1>2. CASE /\ GoesOn(d) /\ Goto(d, "dsDelete")
           /\ etag' = [etag EXCEPT ![d] = ref]
           /\ tries' = [tries EXCEPT ![d] = @ + 1]
  <2>1. /\ pc' \in [Destroyers -> Labels] /\ pc'[d] = "dsDelete"
        /\ \A e \in Destroyers : e # d => pc'[e] = pc[e]
    BY <1>0, <1>2, Moves DEF Labels
  <2>2. /\ Exists /\ ref \in Ref /\ claimed[d].claim = d
        /\ ref.claim = d /\ ref.epoch = claimed[d].epoch
    BY <1>0, <1>2, GoesOnUnderClaim DEF DestroyInv, ClaimStands
  <2>3. TypeOK'
    <3>1. tries' \in [Destroyers -> Nat]
      BY SMT, <1>0, <1>2 DEF TypeOK
    <3>2. etag' \in [Destroyers -> Ref]
      BY <1>0, <1>2, <2>2 DEF TypeOK
    <3> QED BY <1>0, <2>1, <3>1, <3>2 DEF TypeOK
  <2>4. etag'[d] = ref /\ \A e \in Destroyers : e # d => etag'[e] = etag[e]
    BY <1>0, <1>2 DEF TypeOK
  <2>5. UnstampedUnseen'
    <3> SUFFICES ASSUME NEW e \in Destroyers, pc'[e] \in {"start", "rpDestroy"}
                 PROVE  /\ ref # Gone => ref.claim # e
                        /\ \A w \in inflight : w.expect.claim # e /\ w.new.claim # e
                        /\ \A f \in Destroyers : etag'[f].claim # e
      BY <1>0 DEF UnstampedUnseen, Exists
    <3>1. e # d /\ pc[e] \in {"start", "rpDestroy"}
      BY <2>1
    <3> QED BY <2>2, <2>4, <3>1 DEF DestroyInv, UnstampedUnseen, Exists
  <2>6. TakesOverStale'
    BY <1>0, <2>1, <2>4 DEF DestroyInv, TakesOverStale, Fresh
  <2>7. ClaimStands'
    BY SMT, <1>0, <2>1, <2>2, <2>4 DEF DestroyInv, ClaimStands, Fresh, Exists
  <2>8. DeletesInTime'
    BY <1>0 DEF DeletesInTime
  <2> QED BY <2>3, <2>5, <2>6, <2>7, <2>8 DEF DestroyInv
<1> QED BY <1>1, <1>2 DEF DsReread

LEMMA DsUnwindKeeps ==
  ASSUME DestroyInv, NEW d \in Destroyers, DsUnwind(d)
  PROVE  DestroyInv'
<1>0. TypeOK /\ pc[d] = "dsUnwind"
  BY DEF DestroyInv, DsUnwind
<1>1. \/ ref' = ref
      \/ Exists /\ ref.claim = d /\ ref' \in Ref /\ ref'.claim = NoClaim
  <2>1. Exists => ref \in Ref
    BY <1>0 DEF TypeOK, Exists
  <2>2. Exists => Unwound \in Ref /\ Unwound.claim = NoClaim
    BY <2>1, RefWrites DEF Unwound
  <2> QED BY <2>2 DEF DsUnwind, SetRef
<1>2. TypeOK'
  BY <1>0, <1>1, FailsMoves DEF TypeOK, DsUnwind, SetRef, procVars
<1>3. KeepsClaims /\ LeavesClaims
  BY <1>0, <1>1, FailsMoves DEF KeepsClaims, LeavesClaims, Idle, DsUnwind
<1> QED BY <1>2, <1>3, QuietSteps DEF DsUnwind, procVars

-----------------------------------------------------------------------------
(* Theorems                                                                 *)

LEMMA InitInv ==
  ASSUME Init
  PROVE  DestroyInv
<1>1. FirstRef \in Ref /\ FirstRef.claim = NoClaim
  BY DEF FirstRef, Ref
<1>2. TypeOK
  <2>1. reapedAt \in [Destroyers -> [life: Nat, touched: Nat]]
    BY DEF Init
  <2>2. lives \in Nat \ {0}
    BY SMT DEF Init
  <2>3. inflight \subseteq [expect: Ref, new: Ref]
    BY DEF Init
  <2>4. ref \in Ref \cup {Gone} /\ etag \in [Destroyers -> Ref] /\ claimed \in [Destroyers -> Ref]
    BY <1>1 DEF Init
  <2> QED BY <2>1, <2>2, <2>3, <2>4 DEF Init, TypeOK, Labels
<1> QED BY <1>1, <1>2, PartyAssumption
        DEF Init, DestroyInv, UnstampedUnseen, TakesOverStale, ClaimStands, DeletesInTime

\* The name is taken again only when no destroy still counts on its claim.
LEMMA CreateKeeps ==
  ASSUME DestroyInv, Create, Resends => MaxLives = 1
  PROVE  DestroyInv'
<1>1. FirstRef.claim = NoClaim /\ \A n \in Nat : LET new == [FirstRef EXCEPT !.life = n]
                                                IN  new \in Ref /\ new.claim = NoClaim
  BY DEF FirstRef, Ref
<1>2. lives' \in Nat \ {0} /\ ~Resends
  BY SMT, BoundAssumption DEF DestroyInv, TypeOK, Create
<1>3. ref' \in Ref /\ ref'.claim = NoClaim
  BY <1>1, <1>2 DEF Create
<1>4. TypeOK'
  BY <1>2, <1>3 DEF DestroyInv, TypeOK, Create, procVars
<1>5. UnstampedUnseen'
  BY <1>3, PartyAssumption DEF DestroyInv, UnstampedUnseen, Create, procVars
<1>6. TakesOverStale'
  BY DEF DestroyInv, TakesOverStale, Create, procVars, Fresh
<1>7. ClaimStands'
  BY <1>2 DEF DestroyInv, ClaimStands, Create, procVars, Fresh
<1>8. DeletesInTime'
  BY DEF DestroyInv, DeletesInTime, Create, procVars
<1> QED BY <1>4, <1>5, <1>6, <1>7, <1>8 DEF DestroyInv

LEMMA NextKeeps ==
  ASSUME DestroyInv, [Next]_vars, Resends => MaxLives = 1
  PROVE  DestroyInv'
<1>1. ASSUME NEW d \in Destroyers, DestroyNext(d)
      PROVE  DestroyInv'
  BY <1>1, DsReadKeeps, DsClaimKeeps, DsSettleKeeps, DsQuiesceKeeps, DsDeleteKeeps,
     DsRereadKeeps, DsUnwindKeeps, RivalsKeep DEF DestroyNext
<1>2. CASE UNCHANGED vars
  BY <1>2 DEF vars, DestroyInv, TypeOK, UnstampedUnseen, TakesOverStale, ClaimStands,
              DeletesInTime, Fresh, Exists
<1> QED BY <1>1, <1>2, ReapersKeep, LandKeeps, TickKeeps, RivalsKeep, CreateKeeps DEF Next

\* The inductive invariant: a destroy's claim stands on the ref for as long as
\* another host would call it live, and an unconditional delete lands by then
\* (Destroy, landedClaim, unwindDeletingClaim, ClearStaleDeleteClaims).
THEOREM DestroyInvariant ==
  ASSUME Resends => MaxLives = 1
  PROVE  Spec => []DestroyInv
<1>1. Init => DestroyInv
  BY InitInv
<1>2. DestroyInv /\ [Next]_vars => DestroyInv'
  BY NextKeeps
<1> QED BY <1>1, <1>2, PTL DEF Spec

\* A destroy, forced or not, on either kind of store, deletes no branch that
\* does not carry its own claim at the epoch it claimed, so none an acquire
\* took since and none created since (Destroy): unless its delete may be sent
\* again and the name is reused.
THEOREM DeletesOnlyItsOwn ==
  ASSUME Resends => MaxLives = 1
  PROVE  Spec => DeletesOwnClaim
<1>1. DestroyInv /\ [Next]_vars =>
        [\A d \in Destroyers :
           Deletes(d) => ref.claim = d /\ ref.epoch = claimed[d].epoch]_vars
  <2> SUFFICES ASSUME DestroyInv, Next, NEW d \in Destroyers, Deletes(d)
               PROVE  ref.claim = d /\ ref.epoch = claimed[d].epoch
    BY DEF vars, Deletes, Exists
  <2>1. Conditional => ref = etag[d]
    BY GoneAssumption DEF DsDelete, Deletes, SetRef, Exists
  <2> QED BY <2>1, DeletesClaimed DEF Deletes, DsDelete
<1> QED BY <1>1, DestroyInvariant, PTL DEF Spec, DeletesOwnClaim

-----------------------------------------------------------------------------
(* What a step does to the ref, to what a destroy has read of it, and to a  *)
(* reaper's claim.                                                          *)

SameLease(r, e) ==
  /\ r.life = e.life /\ r.epoch = e.epoch /\ r.writes = e.writes
  /\ r.renewals = e.renewals /\ r.holder = e.holder

\* The holders' writes, and a new life of the name, only go forward.
LaterLease(r, e) ==
  \/ r.life > e.life
  \/ /\ r.life = e.life
     /\ \/ r.epoch > e.epoch
        \/ /\ r.epoch = e.epoch
           /\ r.writes > e.writes \/ (r.writes = e.writes /\ r.renewals > e.renewals)

\* Where a destroy has read a ref that it may yet delete.
Watching == {"dsClaim", "dsSettle", "dsQuiesce", "dsDelete", "dsReread"}

\* The lease of e, which was not live when it was read, has not come to life:
\* whoever renews, takes or drops it writes another ref.
Passed(e) ==
  /\ e.life <= lives
  /\ Exists => LaterLease(ref, e) \/ (SameLease(ref, e) /\ ~LeaseLive)

\* A claim write on its way changes the claim alone.
ClaimsOnly == \A w \in inflight : \E d \in Destroyers : w.new = [w.expect EXCEPT !.claim = d]

\* The inductive invariant behind UnforcedSpares.
SpareInv ==
  /\ ClaimsOnly
  /\ Exists => ref.life <= lives
  /\ \A d \in Destroyers \ Forced : pc[d] \in Watching => Passed(etag[d])

LEMMA LeaseOrder ==
  ASSUME NEW a \in Ref, NEW b \in Ref, NEW c \in Ref
  PROVE  /\ ~LaterLease(a, a)
         /\ LaterLease(a, b) /\ LaterLease(b, c) => LaterLease(a, c)
         /\ LaterLease(a, b) /\ SameLease(b, c) => LaterLease(a, c)
         /\ SameLease(a, b) /\ LaterLease(b, c) => LaterLease(a, c)
         /\ SameLease(a, b) /\ SameLease(b, c) => SameLease(a, c)
         /\ SameLease(a, b) => SameLease(b, a)
<1>1. /\ a.life \in Nat /\ a.epoch \in Nat /\ a.writes \in Nat /\ a.renewals \in Nat
      /\ b.life \in Nat /\ b.epoch \in Nat /\ b.writes \in Nat /\ b.renewals \in Nat
      /\ c.life \in Nat /\ c.epoch \in Nat /\ c.writes \in Nat /\ c.renewals \in Nat
  BY DEF Ref
<1>2. /\ ~LaterLease(a, a)
      /\ LaterLease(a, b) /\ LaterLease(b, c) => LaterLease(a, c)
  BY SMT, <1>1 DEF LaterLease
<1>3. LaterLease(a, b) /\ SameLease(b, c) => LaterLease(a, c)
  BY DEF LaterLease, SameLease
<1>4. SameLease(a, b) /\ LaterLease(b, c) => LaterLease(a, c)
  BY DEF LaterLease, SameLease
<1>5. QED
  BY <1>2, <1>3, <1>4 DEF SameLease

\* What a step does to the ref: it deletes it, leaves its lease, and then a
\* lapsed lease lapsed, moves its lease on, or begins another life.
Deleted == ref' = Gone /\ lives' = lives

Kept ==
  /\ Exists /\ ref' \in Ref /\ lives' = lives
  /\ SameLease(ref', ref) /\ (lapsed => lapsed')

MovedOn == Exists /\ ref' \in Ref /\ lives' = lives /\ ref'.life = ref.life /\ LaterLease(ref', ref)

Begun == ref' \in Ref /\ lives' = lives + 1 /\ ref'.life = lives'

RefSteps == Deleted \/ Kept \/ MovedOn \/ Begun

LEMMA PassedStays ==
  ASSUME TypeOK, TypeOK', RefSteps, NEW e \in Ref, Passed(e)
  PROVE  Passed(e)'
<1>1. Exists => ref \in Ref
  BY DEF TypeOK, Exists
<1>2. CASE Deleted
  BY <1>2 DEF Deleted, Passed, Exists
<1>3. CASE Kept
  <2>1. CASE LaterLease(ref, e)
    BY <1>1, <1>3, <2>1, LeaseOrder DEF Kept, Passed
  <2>2. CASE SameLease(ref, e) /\ ~LeaseLive
    <3>1. SameLease(ref', e)
      BY <1>1, <1>3, <2>2, LeaseOrder DEF Kept
    <3>2. ~LeaseLive'
      BY <1>3, <2>2 DEF Kept, SameLease, LeaseLive, Exists
    <3>3. QED
      BY <1>3, <3>1, <3>2 DEF Kept, Passed
  <2>3. QED
    BY <1>3, <2>1, <2>2 DEF Passed, Kept
<1>4. CASE MovedOn
  <2>1. LaterLease(ref', e)
    BY <1>1, <1>4, LeaseOrder DEF MovedOn, Passed
  <2>2. QED
    BY <1>4, <2>1 DEF Passed, MovedOn
<1>5. CASE Begun
  <2>1. e.life \in Nat /\ lives \in Nat /\ e.life <= lives
    BY DEF TypeOK, Ref, Passed
  <2>2. e.life < lives + 1 /\ e.life <= lives + 1 /\ lives + 1 > e.life
    BY SMT, <2>1
  <2>3. QED
    BY <1>5, <2>2 DEF Begun, Passed, LaterLease
<1>6. QED
  BY <1>2, <1>3, <1>4, <1>5 DEF RefSteps

\* The ref's life is the name's latest.
LEMMA LifeStays ==
  ASSUME TypeOK, RefSteps, Exists => ref.life <= lives
  PROVE  Exists' => ref'.life <= lives'
<1>1. lives + 1 <= lives + 1
  BY SMT DEF TypeOK
<1>2. QED
  BY <1>1 DEF RefSteps, Deleted, Kept, MovedOn, Begun, SameLease, Exists

\* What of a ref its claims and its touches leave.
LEMMA LeaseWrites ==
  ASSUME NEW r \in Ref
  PROVE  /\ SameLease(r, r)
         /\ \A d \in Destroyers \cup {NoClaim} : SameLease([r EXCEPT !.claim = d], r)
         /\ \A b \in BOOLEAN : SameLease([r EXCEPT !.reaping = b], r)
         /\ SameLease([r EXCEPT !.touched = @ + 1], r)
BY DEF SameLease, Ref

\* What a holder's writes do to it.
LEMMA HolderWrites ==
  ASSUME NEW r \in Ref, NEW h \in Holders
  PROVE  /\ LET new == [r EXCEPT !.epoch = @ + 1, !.holder = h, !.renewals = 0]
            IN  LaterLease(new, r) /\ new.life = r.life
         /\ LET new == [r EXCEPT !.renewals = @ + 1]
            IN  LaterLease(new, r) /\ new.life = r.life
         /\ LET new == [r EXCEPT !.writes = @ + 1]
            IN  LaterLease(new, r) /\ new.life = r.life
         /\ LET new == [r EXCEPT !.holder = NoHolder, !.renewals = 0, !.writes = @ + 1]
            IN  LaterLease(new, r) /\ new.life = r.life
<1>1. r.epoch + 1 > r.epoch /\ r.renewals + 1 > r.renewals /\ r.writes + 1 > r.writes
  BY SMT DEF Ref
<1>2. QED
  BY <1>1 DEF LaterLease, Ref

\* A write of the destroy's own claim, or of none.
LEMMA ClaimWrites ==
  ASSUME TypeOK, NEW c \in Destroyers \cup {NoClaim}, Exists, SetRef([ref EXCEPT !.claim = c])
  PROVE  RefSteps /\ ref'.reaping = ref.reaping /\ ref'.touched = ref.touched
<1>1. ref \in Ref
  BY DEF TypeOK, Exists
<1>2. ref' = [ref EXCEPT !.claim = c] /\ lapsed' = lapsed /\ lives' = lives
  BY DEF SetRef
<1>3. SameLease(ref', ref) /\ ref' \in Ref
  BY <1>1, <1>2, LeaseWrites, RefWrites
<1>4. ref'.reaping = ref.reaping /\ ref'.touched = ref.touched
  BY <1>1, <1>2 DEF Ref
<1>5. QED
  BY <1>2, <1>3, <1>4 DEF RefSteps, Kept

LEMMA ClearsOrLands ==
  ASSUME TypeOK, ClaimsOnly, ClearStale \/ Land
  PROVE  RefSteps /\ ref'.reaping = ref.reaping /\ ref'.touched = ref.touched
<1>1. CASE ClearStale
  BY <1>1, ClaimWrites DEF ClearStale, Abandoned
<1>2. CASE Land
  <2>1. PICK w \in inflight : ref = w.expect /\ SetRef(w.new)
    BY <1>2 DEF Land
  <2>2. PICK d \in Destroyers : w.new = [w.expect EXCEPT !.claim = d]
    BY <2>1 DEF ClaimsOnly
  <2>3. w.expect \in Ref
    BY <2>1 DEF TypeOK
  <2>4. Exists /\ SetRef([ref EXCEPT !.claim = d])
    BY <2>1, <2>2, <2>3, GoneAssumption DEF Exists
  <2>5. QED
    BY <2>4, ClaimWrites
<1>3. QED
  BY <1>1, <1>2

\* The steps of the other parties.
LEMMA RivalsMove ==
  ASSUME TypeOK, TypeOK', ClaimsOnly,
         \/ \E h \in Holders : Acquire(h) \/ Renew(h) \/ Flush(h) \/ Release(h)
         \/ Touch \/ Expire \/ ClearStale \/ Land \/ Tick \/ Create
  PROVE  RefSteps /\ ClaimsOnly' /\ UNCHANGED <<pc, etag, reapedAt>>
<1>0. Exists => ref \in Ref
  BY DEF TypeOK, Exists
<1>1. ASSUME NEW h \in Holders, Acquire(h) \/ Renew(h) \/ Flush(h) \/ Release(h)
      PROVE  RefSteps
  <2>1. /\ Exists /\ ref' \in Ref /\ lives' = lives /\ LaterLease(ref', ref) /\ ref'.life = ref.life
    <3>1. Exists /\ lives' = lives
      BY <1>1 DEF Acquire, Renew, Flush, Release, Active
    <3>2. LaterLease(ref', ref) /\ ref'.life = ref.life
      BY <1>0, <1>1, HolderWrites DEF Acquire, Renew, Flush, Release, Active
    <3>3. ref' \in Ref
      BY <1>0, <1>1, ActiveWrites DEF Acquire, Renew, Flush, Release, Active
    <3>4. QED
      BY <3>1, <3>2, <3>3
  <2>2. QED
    BY <2>1 DEF RefSteps, MovedOn
<1>2. ASSUME Touch PROVE RefSteps
  <2>1. /\ Exists /\ ref' = [ref EXCEPT !.touched = @ + 1] /\ lives' = lives
        /\ lapsed' = (lapsed /\ ref'.holder = ref.holder /\ ref'.renewals = ref.renewals
                             /\ ref'.epoch = ref.epoch)
    BY <1>2 DEF Touch, Active
  <2>2. SameLease(ref', ref) /\ ref' \in Ref
    BY <1>0, <2>1, LeaseWrites, TouchWrites
  <2>3. lapsed => lapsed'
    <3>1. ref'.holder = ref.holder /\ ref'.renewals = ref.renewals /\ ref'.epoch = ref.epoch
      BY <2>2 DEF SameLease
    <3>2. QED
      BY <2>1, <3>1
  <2>4. QED
    BY <2>1, <2>2, <2>3 DEF RefSteps, Kept
<1>3. ASSUME Expire \/ Tick PROVE RefSteps
  <2>1. ref' = ref /\ lives' = lives /\ (lapsed => lapsed')
    <3>1. CASE Expire
      <4>1. ref' = ref /\ lives' = lives
        BY <3>1 DEF Expire
      <4>2. lapsed' = TRUE \/ lapsed' = lapsed
        BY <3>1 DEF Expire
      <4>3. QED
        BY SMT, <4>1, <4>2 DEF TypeOK
    <3>2. CASE Tick
      BY <3>2 DEF Tick
    <3>3. QED
      BY <1>3, <3>1, <3>2
  <2>2. CASE Exists
    BY <1>0, <2>1, <2>2, LeaseWrites DEF RefSteps, Kept
  <2>3. CASE ~Exists
    BY <2>1, <2>3 DEF RefSteps, Deleted, Exists
  <2>4. QED
    BY <2>2, <2>3
<1>4. ASSUME ClearStale \/ Land PROVE RefSteps
  BY <1>4, ClearsOrLands
<1>5. ASSUME Create PROVE RefSteps
  <2>1. /\ ref' = [FirstRef EXCEPT !.life = lives'] /\ lives' = lives + 1
    BY <1>5 DEF Create
  <2>2. ref' # Gone /\ ref'.life = lives'
    <3>1. FirstRef \in Ref /\ lives' \in Nat
      BY SMT DEF TypeOK, FirstRef, Ref
    <3>2. \A r \in Ref, n \in Nat : [r EXCEPT !.life = n] \in Ref /\ [r EXCEPT !.life = n].life = n
      BY DEF Ref
    <3>3. QED
      BY <2>1, <3>1, <3>2, GoneAssumption
  <2>3. QED
    BY <2>1, <2>2 DEF RefSteps, Begun, TypeOK
<1>6. inflight' \subseteq inflight /\ UNCHANGED <<pc, etag, reapedAt>>
  BY DEF Acquire, Renew, Flush, Release, Active, Touch, Expire, ClearStale, Land, Tick,
         Create, procVars
<1>7. QED
  BY <1>1, <1>2, <1>3, <1>4, <1>5, <1>6 DEF ClaimsOnly

\* A destroy watches the lease it watched, or one it has just found not live.
Stamps ==
  \A e \in Destroyers : pc'[e] \in Watching =>
    \/ pc[e] \in Watching /\ SameLease(etag'[e], etag[e])
    \/ /\ Exists /\ etag'[e] = ref /\ ref' = ref /\ lapsed' = lapsed /\ lives' = lives
       /\ LeaseLive => e \in Forced

\* Where a reaper has claimed the branch and may yet delete it.
Reaping == Watching \cup {"rpDestroy"}

\* No reaper makes its claim, and the claim on the ref stands.
Carries ==
  /\ \A r \in Reapers : pc'[r] \in Reaping => pc[r] \in Reaping /\ reapedAt'[r] = reapedAt[r]
  /\ Exists /\ Exists' /\ ref.reaping => ref'.reaping /\ ref'.touched = ref.touched

LEMMA StillMoves ==
  ASSUME TypeOK, UNCHANGED <<ref, lapsed, lives>>
  PROVE  RefSteps
<1>1. CASE Exists
  <2>1. ref \in Ref
    BY <1>1 DEF TypeOK, Exists
  <2>2. QED
    BY <1>1, <2>1, LeaseWrites DEF RefSteps, Kept
<1>2. CASE ~Exists
  BY <1>2 DEF RefSteps, Deleted, Exists
<1>3. QED
  BY <1>1, <1>2

\* A step of d that leaves the ref and what its destroy watches.
LEMMA StillSteps ==
  ASSUME TypeOK, TypeOK', NEW d \in Destroyers, ClaimsOnly,
         UNCHANGED <<ref, lapsed, lives, inflight, reapedAt>>,
         \A e \in Destroyers : e # d => pc'[e] = pc[e] /\ etag'[e] = etag[e],
         \/ pc'[d] \notin Reaping
         \/ pc[d] \in Watching /\ etag'[d] = etag[d]
         \/ /\ pc[d] \in Reaping \/ d \notin Reapers
            /\ Exists /\ etag'[d] = ref /\ (LeaseLive => d \in Forced)
  PROVE  RefSteps /\ Stamps /\ Carries /\ ClaimsOnly'
<1>1. RefSteps /\ ClaimsOnly'
  BY StillMoves DEF ClaimsOnly
<1>2. \A e \in Destroyers : etag[e] \in Ref
  BY DEF TypeOK
<1>3. Stamps
  BY <1>2, LeaseWrites DEF Stamps, Reaping
<1>4. Carries
  BY PartyAssumption DEF Carries, Exists, Destroyers, Reaping
<1>5. QED
  BY <1>1, <1>3, <1>4

LEMMA ReadsMove ==
  ASSUME DestroyInv, TypeOK', ClaimsOnly, NEW d \in Destroyers,
         DsRead(d) \/ DsQuiesce(d) \/ DsReread(d) \/ Crash(d)
  PROVE  RefSteps /\ Stamps /\ Carries /\ ClaimsOnly'
<1>0. TypeOK
  BY DEF DestroyInv
<1>1. UNCHANGED <<ref, lapsed, lives, inflight, reapedAt>>
  BY DEF DsRead, DsQuiesce, DsReread, Crash, procVars
<1>2. \A e \in Destroyers : e # d => pc'[e] = pc[e] /\ etag'[e] = etag[e]
  BY <1>0 DEF DsRead, DsQuiesce, DsReread, Crash, procVars, Goto, Fails, TypeOK
<1>3. \/ pc'[d] \notin Reaping
      \/ pc[d] \in Watching /\ etag'[d] = etag[d]
      \/ /\ pc[d] \in Reaping \/ d \notin Reapers
         /\ Exists /\ etag'[d] = ref /\ (LeaseLive => d \in Forced)
  <2>1. CASE DsRead(d)
    <3>1. pc[d] \in Reaping \/ d \notin Reapers
      BY <2>1 DEF DsRead, Reaping
    <3>2. CASE Fails(d)
      BY <1>0, <3>2, FailsMoves DEF Reaping, Watching
    <3>3. CASE /\ Exists /\ ~Refused(d) /\ etag' = [etag EXCEPT ![d] = ref]
      BY <1>0, <3>1, <3>3 DEF TypeOK, Refused
    <3>4. QED
      BY <2>1, <3>2, <3>3 DEF DsRead
  <2>2. CASE DsQuiesce(d)
    BY <1>0, <2>2 DEF DsQuiesce, Watching
  <2>3. CASE DsReread(d)
    <3>1. CASE GoesOn(d) /\ etag' = [etag EXCEPT ![d] = ref]
      BY <1>0, <2>3, <3>1 DEF DsReread, Watching, Reaping, TypeOK, GoesOn, OnlyRenewed
    <3>2. CASE Goto(d, "dsUnwind")
      BY <1>0, <3>2 DEF Goto, TypeOK, Reaping, Watching
    <3>3. QED
      BY <2>3, <3>1, <3>2 DEF DsReread
  <2>4. CASE Crash(d)
    BY <1>0, <2>4 DEF Crash, Goto, TypeOK, Reaping, Watching
  <2>5. QED
    BY <2>1, <2>2, <2>3, <2>4
<1>4. QED
  BY <1>0, <1>1, <1>2, <1>3, StillSteps

LEMMA SettleMoves ==
  ASSUME DestroyInv, TypeOK', ClaimsOnly, NEW d \in Destroyers, DsSettle(d)
  PROVE  RefSteps /\ Stamps /\ Carries /\ ClaimsOnly'
<1>0. TypeOK
  BY DEF DestroyInv
<1>1. UNCHANGED <<ref, lapsed, lives, inflight, reapedAt>>
  BY DEF DsSettle
<1>2. \A e \in Destroyers : e # d => pc'[e] = pc[e] /\ etag'[e] = etag[e]
  BY <1>0 DEF DsSettle, Goto, Fails, TypeOK
<1>3. pc[d] \in Watching /\ pc[d] \in Reaping
  BY DEF DsSettle, Watching, Reaping
<1>4. CASE etag' = etag
  BY <1>0, <1>1, <1>2, <1>3, <1>4, StillSteps
<1>5. CASE /\ Goto(d, IF GoesOn(d) THEN "dsQuiesce" ELSE "dsUnwind")
           /\ etag' = [etag EXCEPT ![d] = ref]
  <2>1. CASE GoesOn(d)
    <3>1. Exists /\ etag'[d] = ref /\ (LeaseLive => d \in Forced)
      BY <1>0, <1>5, <2>1 DEF GoesOn, OnlyRenewed, TypeOK
    <3>2. QED
      BY <1>0, <1>1, <1>2, <1>3, <3>1, StillSteps
  <2>2. CASE ~GoesOn(d)
    <3>1. pc'[d] \notin Reaping
      BY <1>0, <1>5, <2>2 DEF Goto, TypeOK, Reaping, Watching
    <3>2. QED
      BY <1>0, <1>1, <1>2, <3>1, StillSteps
  <2>3. QED
    BY <2>1, <2>2
<1>6. QED
  BY <1>4, <1>5 DEF DsSettle

LEMMA ClaimMoves ==
  ASSUME DestroyInv, TypeOK', ClaimsOnly, NEW d \in Destroyers, DsClaim(d)
  PROVE  RefSteps /\ Stamps /\ Carries /\ ClaimsOnly'
<1>0. TypeOK /\ etag[d] \in Ref
  BY DEF DestroyInv, TypeOK
<1>1. /\ pc[d] \in Watching /\ pc[d] \in Reaping /\ reapedAt' = reapedAt
      /\ claimed[d] = [etag[d] EXCEPT !.claim = d]
  BY DEF DsClaim, DestroyInv, TakesOverStale, Watching, Reaping
<1>2. \A e \in Destroyers : e # d => pc'[e] = pc[e] /\ etag'[e] = etag[e] /\ etag[e] \in Ref
  BY <1>0 DEF TypeOK, Goto, DsClaim, ClaimFails, Fails
<1>3. SameLease(etag'[d], etag[d])
  <2>1. etag'[d] = claimed[d] \/ etag'[d] = etag[d]
    BY <1>0 DEF TypeOK, DsClaim, ClaimFails
  <2>2. PICK e \in Ref : e = etag[d]
    BY <1>0
  <2>3. SameLease([e EXCEPT !.claim = d], e) /\ SameLease(e, e)
    BY LeaseWrites
  <2>4. QED
    BY <1>1, <2>1, <2>2, <2>3
<1>4. RefSteps /\ ref'.reaping = ref.reaping /\ ref'.touched = ref.touched
  <2>1. CASE ref = etag[d] /\ SetRef(claimed[d])
    <3>1. Exists
      BY <1>0, <2>1, GoneAssumption DEF Exists
    <3>2. SetRef([ref EXCEPT !.claim = d])
      BY <1>1, <2>1
    <3>3. QED
      BY <1>0, <3>1, <3>2, ClaimWrites
  <2>2. CASE UNCHANGED <<ref, lapsed, lives>>
    BY <1>0, <2>2, StillMoves
  <2>3. QED
    BY <2>1, <2>2 DEF DsClaim
<1>5. Stamps
  BY <1>1, <1>2, <1>3, LeaseWrites DEF Stamps
<1>6. Carries
  BY <1>1, <1>2, <1>4 DEF Carries, Destroyers
<1>7. ClaimsOnly'
  <2>1. PICK w : w = [expect |-> etag[d], new |-> claimed[d]]
    OBVIOUS
  <2>2. w.new = [w.expect EXCEPT !.claim = d]
    BY <1>1, <2>1
  <2>3. inflight' \subseteq inflight \cup {w}
    BY <2>1 DEF DsClaim
  <2>4. QED
    BY <2>2, <2>3 DEF ClaimsOnly
<1>8. QED
  BY <1>4, <1>5, <1>6, <1>7

LEMMA DeleteMoves ==
  ASSUME DestroyInv, TypeOK', ClaimsOnly, NEW d \in Destroyers, DsDelete(d)
  PROVE  RefSteps /\ Stamps /\ Carries /\ ClaimsOnly'
<1>0. TypeOK
  BY DEF DestroyInv
<1>1. UNCHANGED <<inflight, etag, reapedAt>> /\ pc[d] \in Watching /\ pc[d] \in Reaping
  BY DEF DsDelete, Watching, Reaping
<1>2. \A e \in Destroyers : etag[e] \in Ref /\ (e # d => pc'[e] = pc[e])
  BY <1>0 DEF TypeOK, Goto, DsDelete
<1>3. RefSteps /\ (ref' = Gone \/ ref' = ref)
  <2>1. CASE SetRef(Gone)
    BY <2>1 DEF RefSteps, Deleted, SetRef
  <2>2. CASE UNCHANGED <<ref, lapsed, lives>>
    BY <1>0, <2>2, StillMoves
  <2>3. QED
    BY <2>1, <2>2 DEF DsDelete, SetRef
<1>4. Stamps
  BY <1>1, <1>2, LeaseWrites DEF Stamps
<1>5. Carries
  BY <1>1, <1>2, <1>3 DEF Carries, Destroyers, Exists
<1>6. QED
  BY <1>1, <1>3, <1>4, <1>5 DEF ClaimsOnly

LEMMA UnwindMoves ==
  ASSUME DestroyInv, TypeOK', ClaimsOnly, NEW d \in Destroyers, DsUnwind(d)
  PROVE  RefSteps /\ Stamps /\ Carries /\ ClaimsOnly'
<1>0. TypeOK
  BY DEF DestroyInv
<1>1. UNCHANGED <<inflight, etag, reapedAt>>
  BY DEF DsUnwind, procVars
<1>2. /\ pc'[d] \notin Reaping
      /\ \A e \in Destroyers : e # d => pc'[e] = pc[e] /\ etag[e] \in Ref
  BY <1>0, FailsMoves DEF DsUnwind, Reaping, Watching, TypeOK
<1>3. CASE Exists /\ SetRef(Unwound)
  <2>1. RefSteps /\ ref'.reaping = ref.reaping /\ ref'.touched = ref.touched
    BY <1>0, <1>3, ClaimWrites DEF Unwound
  <2>2. Stamps
    BY <1>1, <1>2, LeaseWrites DEF Stamps, Reaping
  <2>3. Carries
    BY <1>1, <1>2, <2>1 DEF Carries, Destroyers
  <2>4. QED
    BY <1>1, <2>1, <2>2, <2>3 DEF ClaimsOnly
<1>4. CASE UNCHANGED <<ref, lapsed, lives>>
  BY <1>0, <1>1, <1>2, <1>4, StillSteps
<1>5. QED
  BY <1>3, <1>4 DEF DsUnwind

\* Every step of a destroy.
LEMMA DestroysMove ==
  ASSUME DestroyInv, TypeOK', ClaimsOnly, NEW d \in Destroyers, DestroyNext(d)
  PROVE  RefSteps /\ Stamps /\ Carries /\ ClaimsOnly'
BY ReadsMove, SettleMoves, ClaimMoves, DeleteMoves, UnwindMoves DEF DestroyNext

\* The other parties carry the reapers' claims.
LEMMA RivalsCarry ==
  ASSUME TypeOK, TypeOK', ClaimsOnly,
         \/ \E h \in Holders : Acquire(h) \/ Renew(h) \/ Flush(h) \/ Release(h)
         \/ Touch \/ Expire \/ ClearStale \/ Land \/ Tick \/ Create
  PROVE  RefSteps /\ Stamps /\ Carries /\ ClaimsOnly'
<1>1. RefSteps /\ ClaimsOnly' /\ UNCHANGED <<pc, etag, reapedAt>>
  BY RivalsMove
<1>2. Stamps
  BY <1>1, LeaseWrites DEF Stamps, TypeOK
<1>3. ASSUME Exists, Exists', ref.reaping
      PROVE  ref'.reaping /\ ref'.touched = ref.touched
  <2>1. ref \in Ref
    BY <1>3 DEF TypeOK, Exists
  <2>2. ASSUME NEW h \in Holders, Acquire(h) \/ Renew(h) \/ Flush(h) \/ Release(h)
        PROVE  ref'.reaping /\ ref'.touched = ref.touched
    BY <1>3, <2>1, <2>2 DEF Acquire, Renew, Flush, Release, Active, Ref
  <2>3. CASE ClearStale \/ Land
    BY <1>3, <2>3, ClearsOrLands
  <2>4. CASE Expire \/ Tick
    BY <1>3, <2>4 DEF Expire, Tick
  <2>5. QED
    BY <1>3, <2>2, <2>3, <2>4 DEF Touch, Create
<1>4. Carries
  BY <1>1, <1>3 DEF Carries
<1>5. QED
  BY <1>1, <1>2, <1>4

\* The reapers' own steps.
LEMMA ReapersMove ==
  ASSUME TypeOK, TypeOK', ClaimsOnly, NEW r \in Reapers, RpRead(r) \/ RpUnwind(r)
  PROVE  RefSteps /\ Stamps /\ ClaimsOnly'
<1>1. UNCHANGED <<inflight, etag>>
  BY DEF RpRead, RpUnwind, procVars
<1>2. RefSteps
  <2>1. ASSUME NEW b \in BOOLEAN, Exists, SetRef([ref EXCEPT !.reaping = b])
        PROVE  RefSteps
    <3>1. ref \in Ref
      BY <2>1 DEF TypeOK, Exists
    <3>2. SameLease(ref', ref) /\ ref' \in Ref
      BY <2>1, <3>1, LeaseWrites, RefWrites DEF SetRef
    <3>3. QED
      BY <2>1, <3>2 DEF RefSteps, Kept, SetRef
  <2>2. CASE UNCHANGED <<ref, lapsed, lives>>
    BY <2>2, StillMoves
  <2>3. QED
    BY <2>1, <2>2 DEF RpRead, RpUnwind
<1>3. \A d \in Destroyers : (pc'[d] = pc[d] \/ pc'[d] \notin Watching) /\ etag[d] \in Ref
  BY DEF RpRead, RpUnwind, Goto, TypeOK, Watching
<1>4. Stamps
  BY <1>1, <1>3, LeaseWrites DEF Stamps
<1>5. QED
  BY <1>1, <1>2, <1>4 DEF ClaimsOnly

-----------------------------------------------------------------------------
(* UnforcedSpares                                                           *)

LEMMA SpareStays ==
  ASSUME TypeOK, TypeOK', SpareInv, RefSteps, Stamps, ClaimsOnly'
  PROVE  SpareInv'
<1>1. Exists' => ref'.life <= lives'
  BY LifeStays DEF SpareInv
<1>2. ASSUME NEW d \in Destroyers \ Forced, pc'[d] \in Watching
      PROVE  Passed(etag[d])'
  <2>0. etag[d] \in Ref /\ etag'[d] \in Ref /\ (Exists => ref \in Ref) /\ (Exists' => ref' \in Ref)
    BY DEF TypeOK, Exists
  <2>1. CASE pc[d] \in Watching /\ SameLease(etag'[d], etag[d])
    <3>1. PICK e \in Ref : e = etag[d]
      BY <2>0
    <3>2. Passed(e)
      BY <1>2, <2>1, <3>1 DEF SpareInv
    <3>3. Passed(e)'
      BY <3>2, PassedStays
    <3>4. SameLease(e, etag'[d])
      BY <2>0, <2>1, <3>1, LeaseOrder
    <3>5. Exists' => LaterLease(ref', etag'[d]) \/ (SameLease(ref', etag'[d]) /\ ~LeaseLive')
      BY <2>0, <3>3, <3>4, LeaseOrder DEF Passed
    <3>6. etag'[d].life <= lives'
      BY <3>3, <3>4 DEF Passed, SameLease
    <3>7. QED
      BY <3>5, <3>6 DEF Passed
  <2>2. CASE /\ Exists /\ etag'[d] = ref /\ ref' = ref /\ lapsed' = lapsed /\ lives' = lives
             /\ LeaseLive => d \in Forced
    <3>1. ~LeaseLive'
      BY <1>2, <2>2 DEF LeaseLive, Exists
    <3>2. QED
      BY <2>0, <2>2, <3>1, LeaseWrites DEF Passed, SpareInv
  <2>3. QED
    BY <1>2, <2>1, <2>2 DEF Stamps
<1>3. QED
  BY <1>1, <1>2 DEF SpareInv

LEMMA SpareInit ==
  ASSUME Init
  PROVE  SpareInv
<1>1. ref.life <= lives
  BY SMT DEF Init, FirstRef
<1>2. \A d \in Destroyers : pc[d] \notin Watching
  BY DEF Init, Watching
<1>3. QED
  BY <1>1, <1>2 DEF SpareInv, ClaimsOnly, Init

LEMMA SpareNext ==
  ASSUME DestroyInv, DestroyInv', SpareInv, [Next]_vars
  PROVE  SpareInv'
<1>0. TypeOK /\ TypeOK' /\ ClaimsOnly
  BY DEF DestroyInv, SpareInv
<1>1. CASE UNCHANGED vars
  BY <1>1 DEF vars, SpareInv, ClaimsOnly, Passed, Exists, LeaseLive
<1>2. ASSUME NEW d \in Destroyers, DestroyNext(d)
      PROVE  SpareInv'
  BY <1>0, <1>2, DestroysMove, SpareStays
<1>3. ASSUME NEW r \in Reapers, RpRead(r) \/ RpUnwind(r)
      PROVE  SpareInv'
  BY <1>0, <1>3, ReapersMove, SpareStays
<1>4. ASSUME \/ \E h \in Holders : Acquire(h) \/ Renew(h) \/ Flush(h) \/ Release(h)
             \/ Touch \/ Expire \/ ClearStale \/ Land \/ Tick \/ Create
      PROVE  SpareInv'
  BY <1>0, <1>4, RivalsCarry, SpareStays
<1>5. QED
  BY <1>1, <1>2, <1>3, <1>4 DEF Next

\* On a local store no destroy without --force, the reaper's included, deletes
\* a branch whose lease is live, not even one that was taken or renewed after
\* the destroy's read and under its claim (Destroy, deleteClaimedRef).
THEOREM SparesLiveLeases ==
  ASSUME Conditional, Resends => MaxLives = 1
  PROVE  Spec => UnforcedSpares
<1>1. Init => SpareInv
  BY SpareInit
<1>2. DestroyInv /\ DestroyInv' /\ SpareInv /\ [Next]_vars => SpareInv'
  BY SpareNext
<1>3. DestroyInv /\ SpareInv /\ [Next]_vars => [SparesLive]_vars
  <2> SUFFICES ASSUME DestroyInv, SpareInv, NEW d \in Destroyers \ Forced, Deletes(d)
               PROVE  ~LeaseLive
    BY DEF SparesLive
  <2>1. ref = etag[d] /\ pc[d] \in Watching /\ Exists
    BY GoneAssumption DEF DsDelete, Deletes, SetRef, Exists, Watching
  <2>2. Passed(ref) /\ ref \in Ref
    BY <2>1 DEF SpareInv, DestroyInv, TypeOK, Exists
  <2>3. QED
    BY <2>1, <2>2, LeaseOrder DEF Passed
<1>4. QED
  BY <1>1, <1>2, <1>3, DestroyInvariant, PTL DEF Spec, UnforcedSpares

-----------------------------------------------------------------------------
(* TouchOrReap                                                              *)

\* While the branch lives that a reaper claimed, it carries the reaping claim
\* and no touch since.
Claimed(at) ==
  /\ at.life <= lives
  /\ Exists /\ ref.life = at.life => ref.reaping /\ ref.touched = at.touched

\* The inductive invariant behind TouchOrReap.
ReapInv ==
  /\ ClaimsOnly
  /\ Exists => ref.life <= lives
  /\ \A r \in Reapers : pc[r] \in Reaping => Claimed(reapedAt[r])

LEMMA ClaimedStays ==
  ASSUME TypeOK, TypeOK', RefSteps, Carries, NEW at \in [life: Nat, touched: Nat], Claimed(at)
  PROVE  Claimed(at)'
<1>1. CASE Deleted
  BY <1>1 DEF Deleted, Claimed, Exists
<1>2. CASE Kept \/ MovedOn
  <2>1. Exists /\ lives' = lives /\ ref'.life = ref.life
    BY <1>2 DEF Kept, MovedOn, SameLease
  <2>2. QED
    BY <2>1 DEF Claimed, Carries
<1>3. CASE Begun
  <2>1. at.life \in Nat /\ lives \in Nat /\ at.life <= lives
    BY DEF TypeOK, Claimed
  <2>2. lives + 1 # at.life /\ at.life <= lives + 1
    BY SMT, <2>1
  <2>3. QED
    BY <1>3, <2>2 DEF Begun, Claimed
<1>4. QED
  BY <1>1, <1>2, <1>3 DEF RefSteps

LEMMA ReapStays ==
  ASSUME TypeOK, TypeOK', ReapInv, RefSteps, Carries, ClaimsOnly'
  PROVE  ReapInv'
<1>1. Exists' => ref'.life <= lives'
  BY LifeStays DEF ReapInv
<1>2. ASSUME NEW r \in Reapers, pc'[r] \in Reaping
      PROVE  Claimed(reapedAt[r])'
  <2>1. PICK at \in [life: Nat, touched: Nat] : at = reapedAt[r]
    BY DEF TypeOK, Destroyers
  <2>2. Claimed(at) /\ reapedAt'[r] = at
    BY <1>2, <2>1 DEF Carries, ReapInv
  <2>3. Claimed(at)'
    BY <2>2, ClaimedStays
  <2>4. QED
    BY <2>2, <2>3 DEF Claimed
<1>3. QED
  BY <1>1, <1>2 DEF ReapInv

\* The only reaper's claim, and its way out.
LEMMA ReaperClaims ==
  ASSUME TypeOK, TypeOK', ReapInv, \A r, s \in Reapers : r = s,
         NEW r \in Reapers, RpRead(r) \/ RpUnwind(r)
  PROVE  ReapInv'
<1>0. RefSteps /\ ClaimsOnly'
  BY ReapersMove DEF ReapInv
<1>1. Exists' => ref'.life <= lives'
  BY <1>0, LifeStays DEF ReapInv
<1>2. CASE pc'[r] = "done"
  <2>1. \A s \in Reapers : pc'[s] \notin Reaping
    BY <1>2 DEF Reaping, Watching
  <2>2. QED
    BY <1>0, <1>1, <2>1 DEF ReapInv
<1>3. CASE /\ Exists /\ SetRef([ref EXCEPT !.reaping = TRUE])
           /\ reapedAt' = [reapedAt EXCEPT ![r] = [life |-> ref.life, touched |-> ref.touched]]
  <2>1. ref \in Ref /\ ref' = [ref EXCEPT !.reaping = TRUE] /\ lives' = lives
    BY <1>3 DEF TypeOK, Exists, SetRef
  <2>2. ref'.reaping /\ ref'.touched = ref.touched /\ ref'.life = ref.life
    BY <2>1 DEF Ref
  <2>3. PICK at : at = [life |-> ref.life, touched |-> ref.touched]
    OBVIOUS
  <2>4. at.life = ref.life /\ at.touched = ref.touched
    BY <2>3
  <2>5. reapedAt'[r] = at
    BY <1>3, <2>3 DEF TypeOK, Destroyers
  <2>6. Claimed(reapedAt[r])'
    BY <1>3, <2>1, <2>2, <2>4, <2>5 DEF Claimed, ReapInv
  <2>7. \A s \in Reapers : pc'[s] \in Reaping => Claimed(reapedAt[s])'
    BY <2>6
  <2>8. QED
    BY <1>0, <1>1, <2>7 DEF ReapInv
<1>4. QED
  BY <1>2, <1>3 DEF RpRead, RpUnwind, Goto, TypeOK, Destroyers

LEMMA ReapInit ==
  ASSUME Init
  PROVE  ReapInv
<1>1. ref.life <= lives
  BY SMT DEF Init, FirstRef
<1>2. \A r \in Reapers : pc[r] \notin Reaping
  BY DEF Init, Reaping, Watching, Destroyers
<1>3. QED
  BY <1>1, <1>2 DEF ReapInv, ClaimsOnly, Init

LEMMA ReapNext ==
  ASSUME \A r, s \in Reapers : r = s,
         DestroyInv, DestroyInv', ReapInv, [Next]_vars
  PROVE  ReapInv'
<1>0. TypeOK /\ TypeOK' /\ ClaimsOnly
  BY DEF DestroyInv, ReapInv
<1>1. CASE UNCHANGED vars
  BY <1>1 DEF vars, ReapInv, ClaimsOnly, Claimed, Exists
<1>2. ASSUME NEW d \in Destroyers, DestroyNext(d)
      PROVE  ReapInv'
  BY <1>0, <1>2, DestroysMove, ReapStays
<1>3. ASSUME NEW r \in Reapers, RpRead(r) \/ RpUnwind(r)
      PROVE  ReapInv'
  BY <1>0, <1>3, ReaperClaims
<1>4. ASSUME \/ \E h \in Holders : Acquire(h) \/ Renew(h) \/ Flush(h) \/ Release(h)
             \/ Touch \/ Expire \/ ClearStale \/ Land \/ Tick \/ Create
      PROVE  ReapInv'
  BY <1>0, <1>4, RivalsCarry, ReapStays
<1>5. QED
  BY <1>1, <1>2, <1>3, <1>4 DEF Next

\* Where one janitor reaps, on either kind of store, it deletes no branch
\* touched since its reaping claim: the touch or the reap wins, whatever
\* destroys are called, with claim writes that land late and a Destroy of the
\* reaper's that fails and unwinds at any step (reapOne, Workspace.Touch).
THEOREM TouchOrReapOnce ==
  ASSUME \A r, s \in Reapers : r = s, Resends => MaxLives = 1
  PROVE  Spec => TouchOrReap
<1>1. Init => ReapInv
  BY ReapInit
<1>2. DestroyInv /\ DestroyInv' /\ ReapInv /\ [Next]_vars => ReapInv'
  BY ReapNext
<1>3. ReapInv /\ [Next]_vars => [ReapsUntouched]_vars
  BY DEF ReapsUntouched, ReapInv, Claimed, Deletes, DsDelete, Reaping, Watching
<1>4. QED
  BY <1>1, <1>2, <1>3, DestroyInvariant, PTL DEF Spec, TouchOrReap
=============================================================================
