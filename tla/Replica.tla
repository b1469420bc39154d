------------------------------ MODULE Replica ------------------------------
(***************************************************************************)
(* What a session knows about its replica (session/session.go, pages.go)   *)
(* and what a flush does with it (session/flush.go): the running checksum, *)
(* the pages written since the last flush, and the counters that tell the  *)
(* flush loop and Close whether the branch's head is what the checkout     *)
(* holds.  The capture engine applies transactions and rebases while a     *)
(* flush is encoding, uploading and committing.                            *)
(*                                                                         *)
(* A database is a sequence of pages.  A checksum is the set of its        *)
(* numbered pages: the code's is the exclusive or of one hash for each,    *)
(* which takes a page out the way it puts it in.  The lease and the head's *)
(* compare-and-swap are in module SessionFlush; here nobody else writes    *)
(* the branch while the session is open.                                   *)
(***************************************************************************)
EXTENDS Naturals, Sequences, TLC

CONSTANTS
  Values, MaxPages,
  SnapshotEvery,
  MaxSteps,       \* bound: transactions, rebases and writes of others
  MaxFails,       \* bound: flushes that fail
  MaxOpens,       \* bound: sessions, one after the other
  MaxCalls        \* bound: flushes somebody asks for

VARIABLES
  phase,          \* closed, opening (before the startup rebase), open, failed, closing (engine told to stop), stopped
  main, stamp,    \* the checkout at rest; its sidecar: content, txid and checksum
  head, txid,     \* what the branch's chain materializes to, and its head
  trailing, sound,    \* segments since the newest snapshot; every member so far fitted the one before
  replica, checksum, pages, noApply,
  flushChecksum, forceSnapshot,
  rebaseGen, flushedRebaseGen, appliedGen, flushedGen,
  seeded, sinceSnapshot,
  atOpen,         \* the checkout was clean when the session opened
  durable, lastErr,   \* the last flush's txid; the flush loop's last failure stands
  fl,             \* the flush that holds flushMu
  loop, before,   \* the flush loop's position, and the durable it saw
  recent,         \* what ended last: a flush that succeeded, or one of the loop's that failed
  refresh,        \* Close found the sidecar worth refreshing
  steps, fails, opens, calls

book == <<checksum, pages, noApply, flushChecksum, forceSnapshot, rebaseGen, flushedRebaseGen,
          appliedGen, flushedGen>>

count == <<seeded, sinceSnapshot>>

chain == <<head, txid, trailing, sound>>

result == <<durable, lastErr, recent>>

disk == <<main, stamp>>

ticker == <<loop, before>>

vars == <<phase, disk, chain, replica, book, count, atOpen, result, fl, ticker, refresh, steps, fails, opens, calls>>

Contents == UNION {[1..n -> Values] : n \in 1..MaxPages}

Sum(c) == {<<i, c[i]>> : i \in DOMAIN c}

Xor(a, b) == (a \ b) \cup (b \ a)

NoPages == <<>>

NoFlush == [by |-> "none", at |-> "idle", snapshot |-> FALSE, content |-> <<>>,
            pre |-> {}, post |-> {}, pages |-> NoPages, gen |-> 0, applied |-> 0]

NoStamp == [content |-> <<>>, txid |-> 0, sum |-> {}]

Init ==
  /\ phase = "closed" /\ head \in Contents /\ main = head
  /\ txid = 1 /\ trailing = 0 /\ sound = TRUE
  /\ stamp = [content |-> head, txid |-> 1, sum |-> Sum(head)]
  /\ replica = <<>> /\ checksum = {} /\ pages = NoPages /\ noApply = TRUE
  /\ flushChecksum = {} /\ forceSnapshot = FALSE
  /\ rebaseGen = 0 /\ flushedRebaseGen = 0 /\ appliedGen = 0 /\ flushedGen = 0
  /\ seeded = FALSE /\ sinceSnapshot = 0 /\ atOpen = FALSE
  /\ durable = 0 /\ lastErr = FALSE /\ recent = "none"
  /\ fl = NoFlush /\ loop = "idle" /\ before = 0 /\ refresh = FALSE
  /\ steps = 0 /\ fails = 0 /\ opens = 0 /\ calls = 0

Counted == steps < MaxSteps /\ steps' = steps + 1

-----------------------------------------------------------------------------
(* Opening. *)

\* Open with a checkout that is clean brings it to the head first; one with
\* work of its own is taken as it is.
Open ==
  /\ phase = "closed" /\ phase' = "opening" /\ opens < MaxOpens /\ opens' = opens + 1
  /\ IF main = stamp.content
       THEN /\ atOpen' = TRUE /\ main' = head
            /\ stamp' = [content |-> head, txid |-> txid, sum |-> Sum(head)]
       ELSE atOpen' = FALSE /\ UNCHANGED disk
  /\ UNCHANGED <<chain, replica, book, count, result, fl, ticker, refresh, steps, fails, calls>>

\* A bug: a checkout that was clean at open is taken for the head, whatever
\* the rebase found in it.
RebaselineTrusting(c) ==
  /\ replica' = c /\ checksum' = Sum(c) /\ flushChecksum' = Sum(c) /\ pages' = NoPages
  /\ rebaseGen' = rebaseGen + 1
  /\ forceSnapshot' = ~(rebaseGen = 0 /\ atOpen)
  /\ flushedRebaseGen' = IF rebaseGen = 0 /\ atOpen THEN rebaseGen + 1 ELSE flushedRebaseGen
  /\ UNCHANGED <<noApply, appliedGen, flushedGen>>

\* rebaseline: everything is measured anew, and the next flush is a snapshot;
\* except after the first rebase of a session that starts from the head.
Rebaseline(c) ==
  /\ replica' = c /\ checksum' = Sum(c) /\ flushChecksum' = Sum(c) /\ pages' = NoPages
  /\ rebaseGen' = rebaseGen + 1
  /\ LET settled == rebaseGen = 0 /\ atOpen /\ Sum(c) = stamp.sum IN
     /\ forceSnapshot' = ~settled
     /\ flushedRebaseGen' = IF settled THEN rebaseGen + 1 ELSE flushedRebaseGen
  /\ UNCHANGED <<noApply, appliedGen, flushedGen>>

\* The startup rebase copies the checkout, and what was written to it since.
Startup(c) ==
  /\ phase = "opening" /\ phase' = "open"
  /\ IF c = main THEN UNCHANGED steps ELSE Counted
  /\ Rebaseline(c)
  /\ UNCHANGED <<disk, chain, count, atOpen, result, fl, ticker, refresh, fails, opens, calls>>

-----------------------------------------------------------------------------
(* The engine's sink. *)

Capturing == phase \in {"open", "closing"}

\* A later rebase: continuity was lost, the replica is whatever is there now.
Rebase(c) ==
  /\ Capturing /\ Counted /\ Rebaseline(c)
  /\ UNCHANGED <<phase, disk, chain, count, atOpen, result, fl, ticker, refresh, fails, opens, calls>>

\* A transaction: the pages it writes and the size it leaves.  Pages the
\* database grows by are written.
Txns ==
  {t \in [writes: UNION {[d -> Values] : d \in (SUBSET (1..MaxPages)) \ {{}}}, commit: 1..MaxPages] :
     (Len(replica) + 1)..t.commit \subseteq DOMAIN t.writes}

After(c, writes, commit) == [i \in 1..commit |-> IF i \in DOMAIN writes THEN writes[i] ELSE c[i]]

\* A bug: the pages a shrink drops stay in the checksum.
UpdatedKeeping(t) ==
  LET old == DOMAIN t.writes \cap DOMAIN replica
      new == DOMAIN t.writes \cap (1..t.commit) IN
  Xor(Xor(checksum, {<<i, replica[i]>> : i \in old}), {<<i, t.writes[i]>> : i \in new})

\* A bug: pages above the new size are kept for the next segment.
RecordedAbove(t) ==
  [i \in DOMAIN pages \cup DOMAIN t.writes |-> IF i \in DOMAIN t.writes THEN t.writes[i] ELSE pages[i]]

\* recordApply: old pages out, new pages in, and the pages a shrinking
\* transaction drops without writing them.
Updated(t) ==
  LET old == DOMAIN t.writes \cap DOMAIN replica
      new == DOMAIN t.writes \cap (1..t.commit)
      dropped == DOMAIN replica \ ((1..t.commit) \cup DOMAIN t.writes) IN
  Xor(Xor(Xor(checksum, {<<i, replica[i]>> : i \in old}), {<<i, t.writes[i]>> : i \in new}),
      {<<i, replica[i]>> : i \in dropped})

\* pageSet.record, then dropAbove.
Recorded(t) ==
  [i \in (DOMAIN pages \cup DOMAIN t.writes) \cap (1..t.commit) |->
     IF i \in DOMAIN t.writes THEN t.writes[i] ELSE pages[i]]

Apply(t) ==
  /\ Capturing /\ Counted
  /\ checksum' = Updated(t) /\ pages' = Recorded(t) /\ noApply' = FALSE
  /\ appliedGen' = appliedGen + 1
  /\ replica' = After(replica, t.writes, t.commit)
  /\ UNCHANGED <<phase, disk, chain, flushChecksum, forceSnapshot, rebaseGen, flushedRebaseGen,
                 flushedGen, count, atOpen, result, fl, ticker, refresh, fails, opens, calls>>

-----------------------------------------------------------------------------
(* A flush, by a caller or by the flush loop. *)

\* A bug: a rebase alone is nothing to flush.
PendingApplied == appliedGen # flushedGen

\* autoFlushPending
Pending == appliedGen # flushedGen \/ rebaseGen # flushedRebaseGen

\* flush takes flushMu, and does nothing on a closed or a failed session.
Begin(by) ==
  /\ fl = NoFlush /\ phase = "open"
  /\ IF by = "loop" THEN loop = "due" /\ UNCHANGED calls
                    ELSE calls < MaxCalls /\ calls' = calls + 1
  /\ fl' = [NoFlush EXCEPT !.by = by, !.at = "seed"]
  /\ UNCHANGED <<phase, disk, chain, replica, book, count, atOpen, result, ticker, refresh, steps,
                 fails, opens>>

\* A bug: a session starts counting segments at none.
SeedNothing ==
  /\ fl.at = "seed" /\ fl' = [fl EXCEPT !.at = "encode"]
  /\ seeded' = TRUE /\ UNCHANGED sinceSnapshot
  /\ UNCHANGED <<phase, disk, chain, replica, book, atOpen, result, ticker, refresh, steps, fails,
                 opens, calls>>

\* The first flush that may be a segment learns how many segments the chain
\* ends with; a chain it cannot list counts as one more than is allowed.
Seed ==
  /\ fl.at = "seed" /\ fl' = [fl EXCEPT !.at = "encode"]
  /\ IF seeded \/ (~forceSnapshot /\ noApply)
       THEN UNCHANGED count
       ELSE /\ seeded' = TRUE
            /\ \/ sinceSnapshot' = IF forceSnapshot THEN sinceSnapshot ELSE trailing
               \/ ~forceSnapshot /\ sinceSnapshot' = SnapshotEvery - 1
  /\ UNCHANGED <<phase, disk, chain, replica, book, atOpen, result, ticker, refresh, steps, fails, opens, calls>>

\* When a flush must be a snapshot; it may be one for its size as well.
MustSnapshot == sinceSnapshot >= SnapshotEvery - 1 \/ forceSnapshot \/ noApply

\* A bug: the pages are drained, and a failure later asks for no snapshot.
EncodeOptimistic(snapshot) ==
  /\ fl.at = "encode" /\ (MustSnapshot => snapshot)
  /\ fl' = [fl EXCEPT !.at = "put", !.snapshot = snapshot, !.content = replica,
                      !.pre = IF snapshot THEN {} ELSE flushChecksum,
                      !.post = checksum, !.pages = IF snapshot THEN NoPages ELSE pages,
                      !.gen = rebaseGen, !.applied = appliedGen]
  /\ pages' = NoPages /\ UNCHANGED forceSnapshot
  /\ UNCHANGED <<phase, disk, chain, replica, checksum, noApply, flushChecksum, rebaseGen,
                 flushedRebaseGen, appliedGen, flushedGen, count, atOpen, result, ticker, refresh,
                 steps, fails, opens, calls>>

\* Under replicaMu: the pages are drained, and until this flush is known to
\* have succeeded the next one is a snapshot.
Encode(snapshot) ==
  /\ fl.at = "encode" /\ (MustSnapshot => snapshot)
  /\ fl' = [fl EXCEPT !.at = "put", !.snapshot = snapshot, !.content = replica,
                      !.pre = IF snapshot THEN {} ELSE flushChecksum,
                      !.post = checksum, !.pages = IF snapshot THEN NoPages ELSE pages,
                      !.gen = rebaseGen, !.applied = appliedGen]
  /\ pages' = NoPages /\ forceSnapshot' = TRUE
  /\ UNCHANGED <<phase, disk, chain, replica, checksum, noApply, flushChecksum, rebaseGen,
                 flushedRebaseGen, appliedGen, flushedGen, count, atOpen, result, ticker, refresh,
                 steps, fails, opens, calls>>

\* What the branch reads as once the object is in its chain, and whether the
\* object's two checksums agree with it.
Materialized ==
  IF fl.snapshot THEN fl.content
  ELSE [i \in DOMAIN fl.content |-> IF i \in DOMAIN fl.pages THEN fl.pages[i] ELSE head[i]]

Fits ==
  fl.snapshot \/ /\ fl.pre = Sum(head)
                 /\ DOMAIN fl.content \ DOMAIN head \subseteq DOMAIN fl.pages
                 /\ fl.post = Sum(Materialized)

Commits ==
  /\ txid' = txid + 1 /\ sound' = (sound /\ Fits)
  /\ head' = IF Fits THEN Materialized ELSE head
  /\ trailing' = IF fl.snapshot THEN 0 ELSE trailing + 1

\* The object is uploaded and the head advanced.
Lands ==
  /\ fl.at = "put" /\ Commits /\ fl' = [fl EXCEPT !.at = "landed"]
  /\ UNCHANGED <<phase, disk, replica, book, count, atOpen, result, ticker, refresh, steps, fails, opens, calls>>

\* An error on the way; after an error of the head's write the head may have
\* advanced all the same.
FlushFails ==
  /\ fl.at \in {"seed", "encode", "put"} /\ fails < MaxFails /\ fails' = fails + 1
  /\ \/ UNCHANGED chain
     \/ fl.at = "put" /\ Commits
  /\ fl' = NoFlush
  /\ loop' = IF fl.by = "loop" THEN "failed" ELSE loop
  /\ recent' = IF fl.by = "loop" THEN "failed" ELSE recent
  /\ IF fl.at = "encode"     \* the clone fails after the pages were drained
       THEN pages' = NoPages /\ forceSnapshot' = TRUE
       ELSE UNCHANGED <<pages, forceSnapshot>>
  /\ UNCHANGED <<phase, disk, replica, checksum, noApply, flushChecksum, rebaseGen, flushedRebaseGen,
                 appliedGen, flushedGen, count, atOpen, durable, lastErr, before, refresh, steps, opens, calls>>


\* The bookkeeping of a flush that succeeded: a rebase since the encode keeps
\* what it set.
Books ==
  /\ fl.at = "landed"
  /\ IF rebaseGen = fl.gen
       THEN flushChecksum' = fl.post /\ forceSnapshot' = FALSE /\ flushedRebaseGen' = fl.gen
       ELSE UNCHANGED <<flushChecksum, forceSnapshot, flushedRebaseGen>>
  /\ flushedGen' = fl.applied
  /\ sinceSnapshot' = IF fl.snapshot THEN 0 ELSE sinceSnapshot + 1
  /\ durable' = txid /\ lastErr' = FALSE /\ recent' = "succeeded"
  /\ fl' = NoFlush /\ loop' = IF fl.by = "loop" THEN "idle" ELSE loop
  /\ UNCHANGED <<phase, disk, chain, replica, checksum, pages, noApply, rebaseGen, appliedGen,
                 seeded, atOpen, before, refresh, steps, fails, opens, calls>>

\* flushLoop: a tick does nothing when nothing is pending and nothing failed.
Tick ==
  /\ phase = "open" /\ loop = "idle" /\ (Pending \/ lastErr)
  /\ loop' = "due" /\ before' = durable
  /\ UNCHANGED <<phase, disk, chain, replica, book, count, atOpen, result, fl, refresh, steps, fails, opens, calls>>

\* A bug: recorded whatever succeeded meanwhile.
RecordFailureLate ==
  /\ loop = "failed" /\ loop' = "idle" /\ before' = 0 /\ lastErr' = TRUE
  /\ UNCHANGED <<phase, disk, chain, replica, book, count, atOpen, durable, recent, fl, refresh,
                 steps, fails, opens, calls>>

\* Its failure is recorded unless some flush has succeeded since the tick.
RecordFailure ==
  /\ loop = "failed" /\ loop' = "idle" /\ before' = 0
  /\ lastErr' = (lastErr \/ durable = before)
  /\ UNCHANGED <<phase, disk, chain, replica, book, count, atOpen, durable, recent, fl, refresh,
                 steps, fails, opens, calls>>

-----------------------------------------------------------------------------
(* Closing. *)

\* fail: fenced, or the engine stopped with an error.
Fail ==
  /\ phase = "open" /\ phase' = "failed"
  /\ UNCHANGED <<disk, chain, replica, book, count, atOpen, result, fl, ticker, refresh, steps, fails, opens, calls>>

\* A bug: a flush that succeeded is enough.
EligibleFlushed == durable > 0

\* sidecarRefreshEligible, of a session that has not failed
Eligible == ~Pending /\ rebaseGen = 1 /\ durable > 0

\* Close marks the session closed, waits for flushMu and looks at the sidecar
\* for the first time; then the engine is told to stop.
Close ==
  /\ phase \in {"open", "failed"} /\ fl = NoFlush
  /\ refresh' = (phase = "open" /\ Eligible)
  /\ phase' = "closing"
  /\ UNCHANGED <<disk, chain, replica, book, count, atOpen, result, fl, ticker, steps, fails, opens, calls>>

\* The engine's final drain may still apply; then it stops.  Only a clean
\* shutdown says that the checkout is the replica.
EngineStops(clean, c) ==
  /\ phase = "closing" /\ phase' = "stopped"
  /\ main' = IF clean THEN replica ELSE c
  /\ IF clean \/ c = replica THEN UNCHANGED steps ELSE Counted
  /\ refresh' = (refresh /\ clean)
  /\ UNCHANGED <<stamp, chain, replica, book, count, atOpen, result, fl, ticker, fails, opens, calls>>

\* commitSidecarRefresh looks again, and stamps the checkout as the head; the
\* session is gone.
Closed ==
  /\ phase = "stopped" /\ phase' = "closed" /\ loop # "failed"
  /\ stamp' = IF refresh /\ Eligible /\ txid = durable
                THEN [content |-> main, txid |-> txid, sum |-> flushChecksum] ELSE stamp
  /\ replica' = <<>> /\ checksum' = {} /\ pages' = NoPages /\ noApply' = TRUE
  /\ flushChecksum' = {} /\ forceSnapshot' = FALSE
  /\ rebaseGen' = 0 /\ flushedRebaseGen' = 0 /\ appliedGen' = 0 /\ flushedGen' = 0
  /\ seeded' = FALSE /\ sinceSnapshot' = 0 /\ atOpen' = FALSE
  /\ durable' = 0 /\ lastErr' = FALSE /\ recent' = "none"
  /\ loop' = "idle" /\ before' = 0 /\ refresh' = FALSE
  /\ UNCHANGED <<main, chain, fl, steps, fails, opens, calls>>

\* Between sessions somebody else writes the branch, as a snapshot.
AtRest(c) ==
  /\ phase = "closed" /\ Counted
  /\ head' = c /\ txid' = txid + 1 /\ trailing' = 0
  /\ UNCHANGED <<phase, disk, sound, replica, book, count, atOpen, result, fl, ticker, refresh, fails, opens, calls>>

FlushStep == Seed \/ (\E snapshot \in BOOLEAN : Encode(snapshot)) \/ Lands \/ Books \/ RecordFailure

Next ==
  \/ Open \/ (\E c \in Contents : Startup(c) \/ Rebase(c) \/ AtRest(c))
  \/ \E t \in Txns : Apply(t)
  \/ Begin("user") \/ Begin("loop") \/ FlushStep \/ FlushFails \/ Tick
  \/ Fail \/ Close \/ (\E clean \in BOOLEAN, c \in Contents : EngineStops(clean, c)) \/ Closed

Spec == Init /\ [][Next]_vars

\* The ticker fires, and the flush loop gets flushMu in its turn.
Fairness == WF_vars(Tick) /\ SF_vars(Begin("loop")) /\ WF_vars(FlushStep)

FairSpec == Spec /\ Fairness

-----------------------------------------------------------------------------
(* Properties. *)

\* What each variable holds.
TypeOK ==
  /\ phase \in {"closed", "opening", "open", "failed", "closing", "stopped"}
  /\ head \in Contents /\ main \in Contents /\ replica \in Contents \cup {<<>>}
  /\ DOMAIN pages \subseteq DOMAIN replica /\ flushedGen <= appliedGen /\ flushedRebaseGen <= rebaseGen
  /\ fl.by \in {"none", "user", "loop"} /\ loop \in {"idle", "due", "failed"}

\* The running checksum is the checksum of the replica, through growing and
\* shrinking transactions and rebases, and every object a flush commits fits
\* the chain it lands on, whatever failed or was rebased before it or during
\* it: a chain never ends in a segment that does not apply.
ChainSound == sound /\ (rebaseGen > 0 => checksum = Sum(replica))

\* When nothing is pending the branch's head is the replica: the flush loop
\* may skip its tick, and Close may call the checkout clean.
NothingPendingIsDurable == Capturing /\ ~Pending => head = replica

\* A sidecar that names the head describes the head's content, and gives its
\* checksum.
StampTrue == stamp.txid = txid => stamp.content = head /\ stamp.sum = Sum(head)

\* No flush adds a segment to a run of SnapshotEvery - 1 of them, however many
\* failed before it, but the one that read the run's length before the
\* session's first transaction was captured.
CadenceKept == fl.at = "put" /\ ~fl.snapshot /\ trailing >= SnapshotEvery - 1 => ~seeded

\* A failure of the flush loop that is on show is the last word: no flush has
\* succeeded since.
FailureFresh == lastErr => recent = "failed"

\* What was captured becomes durable, unless the session fails or is closed.
EventuallyDurable == <>[](phase # "open" \/ head = replica)
=============================================================================
