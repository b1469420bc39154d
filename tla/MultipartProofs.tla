--------------------------- MODULE MultipartProofs ---------------------------
(***************************************************************************)
(* What a multipart write leaves behind, for every number of calls, parts  *)
(* and workers: UploadInv is inductive, and the properties follow.         *)
(***************************************************************************)
EXTENDS Multipart, TLAPS

(* Zenon proves what no step says otherwise of.                             *)
USE Zenon

\* Division rounds down.
LEMMA DivBounds ==
  ASSUME NEW a \in Nat, NEW b \in Nat \ {0}
  PROVE  a \div b \in Nat /\ (a >= b => a \div b >= 1)
BY SMT
\* An object above the threshold has at least one part, so the pool has a
\* worker.
LEMMA SizesHold ==
  NumParts \in Nat \ {0} /\ 1 \in AllWorkers /\ \A j \in Jobs : 1 \in Pool(j)
<1>1. PartSize \in Nat \ {0}
  <2>1. (Size + MaxParts - 1) \div MaxParts \in Nat
    BY SMT, MultipartAssumption, DivBounds
  <2> QED
    BY SMT, <2>1, MultipartAssumption DEF PartSize, PartSizeFor, Greater
<1>2. NumParts \in Nat \ {0}
  <2>1. Size + PartSize - 1 \in Nat /\ Size + PartSize - 1 >= PartSize
    BY SMT, <1>1, MultipartAssumption
  <2>2. (Size + PartSize - 1) \div PartSize \in Nat /\ (Size + PartSize - 1) \div PartSize >= 1
    BY <1>1, <2>1, DivBounds
  <2> QED
    BY SMT, <2>2 DEF NumParts
<1> QED
  BY SMT, <1>2, MultipartAssumption DEF AllWorkers, Pool, Lesser

LEMMA InitHolds == Init => UploadInv
<1> SUFFICES ASSUME Init PROVE UploadInv
  OBVIOUS
<1>1. TypeOK
  BY SMT, SizesHold DEF Init, TypeOK, Parts
<1>2. ASSUME NEW c \in Calls PROVE CallInv(c)
  BY SMT, SizesHold, <1>2 DEF Init, CallInv, Sending, Parts
<1> QED
  BY <1>1, <1>2 DEF UploadInv

LEMMA BeginKeeps ==
  ASSUME UploadInv, NEW c \in Calls, Begin(c)
  PROVE  UploadInv'
<1>1. TypeOK'
  BY SizesHold DEF UploadInv, TypeOK, Parts, Sending, Begin, pool, server, Goto
<1>2. ASSUME NEW d \in Calls PROVE CallInv(d)'
  BY SMT, SizesHold, <1>2 DEF UploadInv, TypeOK, CallInv, Parts, Sending, Begin, pool, server, Goto
<1> QED
  BY <1>1, <1>2 DEF UploadInv

LEMMA PreflightKeeps ==
  ASSUME UploadInv, NEW c \in Calls, Preflight(c)
  PROVE  UploadInv'
<1>1. TypeOK'
  BY SizesHold DEF UploadInv, TypeOK, Parts, Sending, Preflight, pool, server, Goto, Return, Result
<1>2. ASSUME NEW d \in Calls PROVE CallInv(d)'
  BY SMT, SizesHold, <1>2 DEF UploadInv, TypeOK, CallInv, Parts, Sending, Preflight, pool, server, Goto, Return, Result
<1> QED
  BY <1>1, <1>2 DEF UploadInv

LEMMA CreateKeeps ==
  ASSUME UploadInv, NEW c \in Calls, Create(c)
  PROVE  UploadInv'
<1>1. TypeOK'
  BY SizesHold DEF UploadInv, TypeOK, Parts, Sending, Create, pool, Goto, Return, Result
<1>2. ASSUME NEW d \in Calls PROVE CallInv(d)'
  BY SMT, SizesHold, <1>2 DEF UploadInv, TypeOK, CallInv, Parts, Sending, Create, pool, Goto, Return, Result
<1> QED
  BY <1>1, <1>2 DEF UploadInv

LEMMA HandKeeps ==
  ASSUME UploadInv, NEW c \in Calls, NEW w \in AllWorkers, Hand(c, w)
  PROVE  UploadInv'
<1>1. TypeOK'
  BY SMT, SizesHold DEF UploadInv, TypeOK, Parts, Sending, Hand, server
<1>2. ASSUME NEW d \in Calls PROVE CallInv(d)'
  BY SMT, SizesHold, <1>2 DEF UploadInv, TypeOK, CallInv, Parts, Sending, Hand, server
<1> QED
  BY <1>1, <1>2 DEF UploadInv

LEMMA CloseKeeps ==
  ASSUME UploadInv, NEW c \in Calls, Close(c)
  PROVE  UploadInv'
<1>1. TypeOK'
  BY SizesHold DEF UploadInv, TypeOK, Parts, Sending, Close, server, Stopping
<1>2. ASSUME NEW d \in Calls PROVE CallInv(d)'
  BY SMT, SizesHold, <1>2 DEF UploadInv, TypeOK, CallInv, Parts, Sending, Close, server, Stopping
<1> QED
  BY <1>1, <1>2 DEF UploadInv

LEMMA PartLandsKeeps ==
  ASSUME UploadInv, NEW c \in Calls, NEW w \in AllWorkers, PartLands(c, w)
  PROVE  UploadInv'
<1>1. TypeOK'
  BY SMT, SizesHold DEF UploadInv, TypeOK, Parts, Sending, PartLands, clientVars
<1>2. ASSUME NEW d \in Calls PROVE CallInv(d)'
  BY SMT, SizesHold, <1>2 DEF UploadInv, TypeOK, CallInv, Parts, Sending, PartLands, clientVars
<1> QED
  BY <1>1, <1>2 DEF UploadInv

LEMMA PartSentKeeps ==
  ASSUME UploadInv, NEW c \in Calls, NEW w \in AllWorkers, PartSent(c, w)
  PROVE  UploadInv'
<1>1. TypeOK'
  BY SizesHold DEF UploadInv, TypeOK, Parts, Sending, PartSent, server
<1>2. ASSUME NEW d \in Calls PROVE CallInv(d)'
  BY SMT, SizesHold, <1>2 DEF UploadInv, TypeOK, CallInv, Parts, Sending, PartSent, server
<1> QED
  BY <1>1, <1>2 DEF UploadInv

LEMMA PartFailsKeeps ==
  ASSUME UploadInv, NEW c \in Calls, NEW w \in AllWorkers, PartFails(c, w)
  PROVE  UploadInv'
<1>1. TypeOK'
  <2>1. worker[c][w] \in Parts
    BY SMT DEF UploadInv, TypeOK, PartFails, Sending
  <2>2. late' \in [Calls -> SUBSET Parts]
    BY <2>1 DEF UploadInv, TypeOK, PartFails
  <2>3. worker' \in [Calls -> [AllWorkers -> {-1, 0} \cup Parts]]
    BY DEF UploadInv, TypeOK, PartFails
  <2> QED
    BY <2>2, <2>3 DEF UploadInv, TypeOK, PartFails
<1>2. ASSUME NEW d \in Calls PROVE CallInv(d)'
  BY SMT, SizesHold, <1>2 DEF UploadInv, TypeOK, CallInv, Parts, Sending, PartFails
<1> QED
  BY <1>1, <1>2 DEF UploadInv

LEMMA PartLandsLateKeeps ==
  ASSUME UploadInv, NEW c \in Calls, NEW p \in Parts, PartLandsLate(c, p)
  PROVE  UploadInv'
<1>1. TypeOK'
  BY SizesHold DEF UploadInv, TypeOK, Parts, Sending, PartLandsLate, clientVars
<1>2. ASSUME NEW d \in Calls PROVE CallInv(d)'
  BY SMT, SizesHold, <1>2 DEF UploadInv, TypeOK, CallInv, Parts, Sending, PartLandsLate, clientVars
<1> QED
  BY <1>1, <1>2 DEF UploadInv

LEMMA ExitKeeps ==
  ASSUME UploadInv, NEW c \in Calls, NEW w \in AllWorkers, Exit(c, w)
  PROVE  UploadInv'
<1>1. TypeOK'
  BY SizesHold DEF UploadInv, TypeOK, Parts, Sending, Exit, server
<1>2. ASSUME NEW d \in Calls PROVE CallInv(d)'
  BY SMT, SizesHold, <1>2 DEF UploadInv, TypeOK, CallInv, Parts, Sending, Exit, server
<1> QED
  BY <1>1, <1>2 DEF UploadInv

LEMMA WaitKeeps ==
  ASSUME UploadInv, NEW c \in Calls, Wait(c)
  PROVE  UploadInv'
<1>1. TypeOK'
  BY SizesHold DEF UploadInv, TypeOK, Parts, Sending, Wait, pool, Goto, Result, Gone, Sound
<1>2. closed[c]
  BY SizesHold DEF UploadInv, TypeOK, CallInv, Wait, Gone
<1>3. ~failed[c] => filled[c] = Parts
  <2> SUFFICES ASSUME ~failed[c], NEW p \in Parts PROVE p \in filled[c]
    BY DEF UploadInv, TypeOK
  <2>1. p \in 1 .. next[c] - 1
    BY SMT, <1>2, SizesHold DEF UploadInv, CallInv, Wait, Parts
  <2>2. \A w \in AllWorkers : worker[c][w] # p
    BY SMT, SizesHold DEF Wait, Gone, Parts
  <2> QED
    BY SMT, <2>1, <2>2 DEF UploadInv, CallInv, Wait
<1>4. ASSUME NEW d \in Calls PROVE CallInv(d)'
  <2>1. CASE d # c
    BY SMT, <2>1 DEF UploadInv, TypeOK, CallInv, Sending, Wait, pool, Goto, Result
  <2>2. CASE d = c
    <3>1. \A w \in AllWorkers : ~Sending(c, w)'
      BY SMT DEF Wait, Gone, Sending, pool
    <3> QED
      BY SMT, <1>3, <2>2, <3>1 DEF UploadInv, TypeOK, CallInv, Wait, pool, Goto, Result, Sound
  <2> QED
    BY <2>1, <2>2
<1> QED
  BY <1>1, <1>4 DEF UploadInv

LEMMA CompleteLandsKeeps ==
  ASSUME UploadInv, NEW c \in Calls, CompleteLands(c)
  PROVE  UploadInv'
<1>1. TypeOK'
  BY SizesHold DEF UploadInv, TypeOK, Parts, Sending, CompleteLands, clientVars
<1>2. ASSUME NEW d \in Calls PROVE CallInv(d)'
  BY SMT, SizesHold, <1>2 DEF UploadInv, TypeOK, CallInv, Parts, Sending, CompleteLands, clientVars
<1> QED
  BY <1>1, <1>2 DEF UploadInv

LEMMA CompleteRefusedKeeps ==
  ASSUME UploadInv, NEW c \in Calls, CompleteRefused(c)
  PROVE  UploadInv'
<1>1. TypeOK'
  BY SizesHold DEF UploadInv, TypeOK, Parts, Sending, CompleteRefused, clientVars
<1>2. ASSUME NEW d \in Calls PROVE CallInv(d)'
  BY SMT, SizesHold, <1>2 DEF UploadInv, TypeOK, CallInv, Parts, Sending, CompleteRefused, clientVars
<1> QED
  BY <1>1, <1>2 DEF UploadInv

LEMMA CompletedKeeps ==
  ASSUME UploadInv, NEW c \in Calls, Completed(c)
  PROVE  UploadInv'
<1>1. TypeOK'
  BY SizesHold DEF UploadInv, TypeOK, Parts, Sending, Completed, pool, server, Goto, Return, Result
<1>2. ASSUME NEW d \in Calls PROVE CallInv(d)'
  BY SMT, SizesHold, <1>2 DEF UploadInv, TypeOK, CallInv, Parts, Sending, Completed, pool, server, Goto, Return, Result
<1> QED
  BY <1>1, <1>2 DEF UploadInv

LEMMA AbortKeeps ==
  ASSUME UploadInv, NEW c \in Calls, Abort(c)
  PROVE  UploadInv'
<1>1. TypeOK'
  BY SizesHold DEF UploadInv, TypeOK, Parts, Sending, Abort, pool, Goto, Aborts
<1>2. ASSUME NEW d \in Calls PROVE CallInv(d)'
  BY SMT, SizesHold, <1>2 DEF UploadInv, TypeOK, CallInv, Parts, Sending, Abort, pool, Goto, Aborts
<1> QED
  BY <1>1, <1>2 DEF UploadInv

LEMMA CrashKeeps ==
  ASSUME UploadInv, NEW c \in Calls, Crash(c)
  PROVE  UploadInv'
<1>1. TypeOK'
  <2>1. {worker[c][w] : w \in {v \in AllWorkers : Sending(c, v)}} \subseteq Parts
    BY SMTT(60) DEF UploadInv, TypeOK, Sending
  <2>2. late' \in [Calls -> SUBSET Parts]
    BY <2>1 DEF UploadInv, TypeOK, Crash
  <2>3. worker' \in [Calls -> [AllWorkers -> {-1, 0} \cup Parts]]
    BY DEF UploadInv, TypeOK, Crash
  <2> QED
    BY <2>2, <2>3 DEF UploadInv, TypeOK, Crash, Return, Goto, Result
<1>2. ASSUME NEW d \in Calls PROVE CallInv(d)'
  BY SMT, SizesHold, <1>2 DEF UploadInv, TypeOK, CallInv, Parts, Sending, Crash, Return, Goto, Result
<1> QED
  BY <1>1, <1>2 DEF UploadInv

LEMMA NextHolds == UploadInv /\ [Next]_vars => UploadInv'
<1> SUFFICES ASSUME UploadInv, [Next]_vars PROVE UploadInv'
  OBVIOUS
<1>1. ASSUME NEW c \in Calls, Step(c) PROVE UploadInv'
  BY <1>1, BeginKeeps, PreflightKeeps, CreateKeeps, CloseKeeps, WaitKeeps, CompletedKeeps, AbortKeeps,
     HandKeeps, PartSentKeeps, PartFailsKeeps, ExitKeeps DEF Step
<1>2. ASSUME NEW c \in Calls, ServerStep(c) PROVE UploadInv'
  BY <1>2, CompleteLandsKeeps, CompleteRefusedKeeps, PartLandsKeeps, PartLandsLateKeeps DEF ServerStep
<1>3. ASSUME OtherWrites PROVE UploadInv'
  BY SMT, <1>3 DEF OtherWrites, clientVars, UploadInv, TypeOK, CallInv, Sending
<1>4. ASSUME UNCHANGED vars PROVE UploadInv'
  BY SMT, <1>4 DEF vars, clientVars, UploadInv, TypeOK, CallInv, Sending
<1> QED
  BY <1>1, <1>2, <1>3, <1>4, CrashKeeps DEF Next

-----------------------------------------------------------------------------
\* putMultipart and copyObjectMultipart keep the inductive invariant: where
\* each part is, and how long the upload is open.
THEOREM UploadHolds == Spec => []UploadInv
<1>1. Init => UploadInv
  BY InitHolds
<1>2. UploadInv /\ [Next]_vars => UploadInv'
  BY NextHolds
<1> QED
  BY <1>1, <1>2, PTL DEF Spec

\* A request to complete the upload lists every part, and S3 holds them:
\* concurrentPartUpload loses none, whatever order the workers finish in.
THEOREM ListedHolds ==
  Spec => [](\A c \in Calls : pc[c] = "complete" /\ upload[c] = "open" => Listed(c))
<1>1. UploadInv => \A c \in Calls : pc[c] = "complete" /\ upload[c] = "open" => Listed(c)
  BY DEF UploadInv, CallInv, Listed
<1> QED
  BY <1>1, UploadHolds, PTL

\* No abort, completion or return while a part is being sent; and, as
\* abortUnlessCompleted promises, no upload stays open, nor a part that was not
\* given up, unless the error says so.
THEOREM TidyHolds == Spec => []UploadsTidy
<1>1. UploadInv => AbortsAlone
  BY DEF UploadInv, CallInv, AbortsAlone
<1>2. UploadInv => NothingLeft
  BY DEF UploadInv, CallInv, NothingLeft
<1> QED
  BY <1>1, <1>2, UploadHolds, PTL DEF UploadsTidy

\* A call that has returned, and whose upload was aborted, writes the key no
\* more; ok means written; create-only replaces nothing.
THEOREM StaysOutHolds == Spec => StaysOut
<1> DEFINE A == \A c \in Calls :
       /\ Makes(c) => pc[c] \in {"complete", "abort"} \/ orphan[c]
       /\ Makes(c) /\ job[c].cond = "create" => object = NoObject
       /\ result'[c] = "ok" => upload'[c] = "completed"
<1>1. UploadInv /\ UploadInv' => A
  BY DEF UploadInv, CallInv, Makes, CompleteLands, Meets
<1>2. UploadInv /\ UploadInv' => [A]_vars
  BY <1>1
<1> QED
  BY <1>2, UploadHolds, PTL DEF StaysOut
=============================================================================
