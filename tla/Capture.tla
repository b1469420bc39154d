------------------------------ MODULE Capture ------------------------------
(***************************************************************************)
(* The capture engine (capture/engine.go): one goroutine that follows the  *)
(* write-ahead log of a SQLite file another program writes, applies every  *)
(* committed transaction to a replica, and holds a read transaction so     *)
(* that nobody restarts the log under it.                                  *)
(*                                                                         *)
(* SQLite is external.  A transaction writes one page and is one frame;    *)
(* content is, for each page, the number of the last transaction that      *)
(* wrote it.  A generation is what a new pair of salts starts.  The lock   *)
(* is the engine's read transaction: -1 for none, 0 when it was begun on a *)
(* log with nothing to read (READ_LOCK(0): nobody may fold frames into the *)
(* main file, a writer may still restart the log), and otherwise the       *)
(* number of frames it sees (nobody restarts the log or folds past it).    *)
(***************************************************************************)
EXTENDS Integers, Sequences, FiniteSetsExt, TLC

CONSTANTS
  Pages,
  MaxTxns,      \* bound: how many transactions the application commits
  Faults,       \* whether the engine may crash, fail or be closed
  Windows       \* which of the narrow races happen, see Unlucky

VARIABLES
  db, txns,             \* what is committed, and how many transactions that took
  main, wal, folded,    \* the main file; the frames of the log's generation; how many are in the main file
  gen, gens, size,      \* the salts in the log's header, 0 for an empty file; salts so far; frames the file has room for
  lock,                 \* the engine's read transaction
  pc, up, closing,      \* the engine's position; Run reached its loop; its context is cancelled
  reader,               \* the wal.Reader: generation (0 = unbound) and offset
  replica, saved,       \* on disk: the sink's file, the state file
  dirty, captured, expectRestart,
  copied,               \* what rebase has copied of the main file so far, -1 for not yet
  target, req, due      \* the DrainNow request, and what was committed when it was made

sqlite == <<db, txns, main, wal, folded, gen, gens, size>>

request == <<target, req, due>>

engine == <<pc, up, closing, reader, replica, saved, dirty, captured, expectRestart, copied>>

vars == <<sqlite, lock, engine, request>>

Zero == [p \in Pages |-> 0]

NotClean == [clean |-> FALSE, main |-> Zero]

NoCopy == [p \in Pages |-> -1]

Unbound == [gen |-> 0, off |-> 0]

Init ==
  /\ db = Zero /\ txns = 0 /\ main = Zero /\ wal = <<>> /\ folded = 0
  /\ gen = 0 /\ gens = 0 /\ size = 0 /\ lock = -1
  /\ pc = "down" /\ up = FALSE /\ closing = FALSE /\ reader = Unbound
  /\ replica = Zero /\ saved = NotClean
  /\ dirty = FALSE /\ captured = FALSE /\ expectRestart = FALSE /\ copied = NoCopy
  /\ target = 0 /\ req = "none" /\ due = Zero

-----------------------------------------------------------------------------
(* SQLite, as the engine and the application use it. *)

\* The content c with frames laid over it.
Overlay(c, frames) ==
  [p \in Pages |-> LET at == {i \in DOMAIN frames : frames[i].page = p} IN
                   IF at = {} THEN c[p] ELSE frames[Max(at)].txn]

Folds(n) ==
  /\ main' = Overlay(main, SubSeq(wal, folded + 1, n))
  /\ folded' = n

\* Mutant: the count of folded frames outlives the log.
TruncatesKeepingCount ==
  /\ main' = Overlay(main, SubSeq(wal, folded + 1, Len(wal)))
  /\ wal' = <<>> /\ gen' = 0 /\ size' = 0 /\ UNCHANGED folded

Truncates ==
  /\ main' = Overlay(main, SubSeq(wal, folded + 1, Len(wal)))
  /\ wal' = <<>> /\ folded' = 0 /\ gen' = 0 /\ size' = 0

BeginsRead == lock' = IF folded = Len(wal) THEN 0 ELSE Len(wal)

\* wal.Reader.Next: what it finds on disk.
Restarted == reader.gen # 0 /\ gen # 0 /\ reader.gen # gen

Unread == IF gen = 0 \/ Restarted THEN <<>> ELSE SubSeq(wal, reader.off + 1, Len(wal))

\* Races of a few instructions each: a foreign checkpoint between a takeover's
\* endRead and its beginRead, or a log restarted before its checkpoint that
\* holds by then just as many frames as the reader had consumed; a log that
\* is truncated under the engine's READ_LOCK(0) with the reader yet to look at
\* it; a commit just before shutdown truncates the log, or another
\* connection's truncation of it while shutdown holds no lock; the engine stopping while DrainNow waits for it.
Unlucky(w) == w \in Windows

TakeoverGap == pc \in {"takeover", "relock", "continue"}

ShutdownGap == pc \in {"srestart", "srace", "struncate", "slock"}

\* The application commits a transaction.  With the log folded whole and
\* nobody reading from it, its first writer may restart it.
Commit(p) ==
  /\ txns < MaxTxns /\ (pc = "struncate" => Unlucky("shutdown"))
  /\ txns' = txns + 1 /\ db' = [db EXCEPT ![p] = txns + 1]
  /\ LET frame == [page |-> p, txn |-> txns + 1] IN
     \/ /\ gen # 0 /\ wal' = Append(wal, frame)
        /\ UNCHANGED <<gen, gens, folded>>
     \/ /\ folded = Len(wal) /\ lock <= 0
        /\ wal' = <<frame>> /\ folded' = 0 /\ gens' = gens + 1 /\ gen' = gens + 1
  /\ size' = Max({size, Len(wal')})
  /\ UNCHANGED <<main, lock, engine, request>>

\* Another connection's checkpoint, up to what the engine's lock lets it.
ForeignCheckpoint ==
  /\ lock # 0 /\ (TakeoverGap => Unlucky("takeover"))
  /\ \E n \in (folded + 1)..(IF lock > 0 THEN lock ELSE Len(wal)) : Folds(n)
  /\ UNCHANGED <<db, txns, wal, gen, gens, size, lock, engine, request>>

ForeignTruncate ==
  /\ gen # 0 /\ (TakeoverGap => Unlucky("takeover")) /\ (ShutdownGap => Unlucky("shutdown"))
  /\ \/ lock = -1
     \/ lock = 0 /\ folded = Len(wal) /\ (Restarted \/ Unread # <<>> => Unlucky("truncate"))
  /\ Truncates
  /\ UNCHANGED <<db, txns, gens, lock, engine, request>>

-----------------------------------------------------------------------------
(* Startup: tryResume, then rebase unless it resumed. *)

Goto(at) == pc' = at

\* The answer serviceReq sends when the pass it ran for a request is over.
Answered(a) == req' = IF req = "serving" THEN a ELSE req

Starts ==
  /\ pc = "down" /\ Goto("resume")
  /\ reader' = Unbound /\ dirty' = FALSE /\ captured' = FALSE /\ expectRestart' = FALSE
  /\ copied' = NoCopy /\ closing' = FALSE /\ req' = "none" /\ due' = Zero /\ target' = 0
  /\ UNCHANGED <<sqlite, lock, up, replica, saved>>

ResumeLock ==
  /\ pc = "resume"
  /\ IF saved.clean THEN BeginsRead /\ Goto("verify") ELSE Goto("rebase") /\ UNCHANGED lock
  /\ UNCHANGED <<sqlite, up, closing, reader, replica, saved, dirty, captured,
                 expectRestart, copied, request>>

ResumeStat ==
  /\ pc = "verify"
  /\ IF gen # 0 THEN lock' = -1 /\ Goto("rebase") ELSE Goto("hash") /\ UNCHANGED lock
  /\ UNCHANGED <<sqlite, up, closing, reader, replica, saved, dirty, captured,
                 expectRestart, copied, request>>

\* The reader stays unbound: it takes whatever generation comes first.
ResumeHash ==
  /\ pc = "hash"
  /\ IF main # saved.main THEN lock' = -1 /\ up' = FALSE /\ Goto("rebase")
                          ELSE up' = TRUE /\ Goto("idle") /\ UNCHANGED lock
  /\ UNCHANGED <<sqlite, closing, reader, replica, saved, dirty, captured,
                 expectRestart, copied, request>>

\* rebase: endRead, checkpoint(TRUNCATE), beginRead, copy, Sink.Rebase.
RebaseTruncate ==
  /\ pc = "rebase" /\ Goto("snapshot")
  /\ Truncates /\ lock' = -1 /\ expectRestart' = FALSE
  /\ UNCHANGED <<db, txns, gens, up, closing, reader, replica, saved, dirty, captured,
                 copied, request>>

RebaseLock ==
  /\ pc = "snapshot" /\ Goto("copy") /\ BeginsRead
  /\ UNCHANGED <<sqlite, up, closing, reader, replica, saved, dirty, captured,
                 expectRestart, copied, request>>

Copy(p) ==
  /\ pc = "copy" /\ copied[p] = -1
  /\ copied' = [copied EXCEPT ![p] = main[p]]
  /\ UNCHANGED <<sqlite, lock, pc, up, closing, reader, replica, saved, dirty, captured,
                 expectRestart, request>>

RebaseSink ==
  /\ pc = "copy" /\ \A p \in Pages : copied[p] # -1
  /\ replica' = copied /\ copied' = NoCopy
  /\ reader' = Unbound /\ captured' = FALSE /\ dirty' = FALSE
  /\ saved' = NotClean /\ up' = TRUE /\ Goto("idle") /\ Answered("nil")
  /\ UNCHANGED <<sqlite, lock, closing, expectRestart, target, due>>

-----------------------------------------------------------------------------
(* The loop: a tick's pass (pollOnce) or a request's (pollOnceTo). *)

Poll ==
  /\ pc = "idle" /\ Goto("poll")
  /\ UNCHANGED <<sqlite, lock, up, closing, reader, replica, saved, dirty, captured,
                 expectRestart, copied, request>>


\* serviceReq: the target is the size of the log's file when the request is
\* picked up.
Serve ==
  /\ pc = "idle" /\ req = "asked" /\ Goto("serve")
  /\ req' = "serving" /\ target' = size
  /\ UNCHANGED <<sqlite, lock, up, closing, reader, replica, saved, dirty, captured,
                 expectRestart, copied, due>>

\* drainUntil: the offset the step leaves has reached the target.
Reached == pc = "serve" /\ reader.off + 1 >= target

\* drainStep: one transaction is read and applied; drainUntil looks at its
\* target only afterwards.
DrainStep ==
  /\ pc \in {"poll", "serve", "sdrain"} /\ Unread # <<>>
  /\ LET f == Head(Unread) IN
     replica' = [replica EXCEPT ![f.page] = f.txn]
  /\ reader' = [gen |-> gen, off |-> reader.off + 1]
  /\ dirty' = TRUE /\ captured' = TRUE
  /\ Goto(IF Reached THEN "after" ELSE pc)
  /\ UNCHANGED <<sqlite, lock, up, closing, saved, expectRestart, copied, request>>

\* pollOnceTo: the old target says nothing about the new generation.
NewTarget == target' = IF pc = "serve" THEN size ELSE target

\* Mutant: a tick's pass that finds the expected restart keeps its old reader.
ContinuationUnbound ==
  /\ pc \in {"poll", "serve"} /\ Restarted /\ expectRestart
  /\ dirty' = FALSE /\ captured' = FALSE
  /\ Goto(IF pc = "poll" THEN "idle" ELSE "serve")
  /\ NewTarget
  /\ UNCHANGED <<sqlite, lock, up, closing, reader, replica, saved, expectRestart, copied, req, due>>

\* The log was restarted after a takeover that saw all of it: a continuation.
\* A tick's pass ends there; a request's takes a new target and goes on.
Continuation ==
  /\ pc \in {"poll", "serve"} /\ Restarted /\ expectRestart
  /\ expectRestart' = FALSE /\ reader' = Unbound /\ dirty' = FALSE /\ captured' = FALSE
  /\ Goto(IF pc = "poll" THEN "idle" ELSE "serve")
  /\ NewTarget
  /\ UNCHANGED <<sqlite, lock, up, closing, replica, saved, copied, req, due>>

\* It was restarted otherwise: continuity is lost.  A cancelled rebase counts
\* as done.
ContinuityLost ==
  /\ pc \in {"poll", "serve"} /\ Restarted /\ ~expectRestart
  /\ IF closing THEN Goto("idle") /\ Answered("nil") ELSE Goto("rebase") /\ UNCHANGED req
  /\ UNCHANGED <<sqlite, lock, up, closing, reader, replica, saved, dirty, captured,
                 expectRestart, copied, target, due>>

\* The pass is over: nothing more to read, or (for a tick) its budget is spent.
PassEnds ==
  /\ pc \in {"poll", "serve"} /\ ~Restarted
  /\ Unread = <<>> \/ (pc = "poll" /\ dirty)
  /\ Goto("after")
  /\ UNCHANGED <<sqlite, lock, up, closing, reader, replica, saved, dirty, captured,
                 expectRestart, copied, request>>

\* persistConsumed: the state file says that the engine has moved on.
Persists ==
  /\ saved' = IF dirty THEN NotClean ELSE saved
  /\ dirty' = FALSE

\* Mutant: the request's channel is sent nothing when no takeover was due.
AfterDrainSilent ==
  /\ pc = "after" /\ Persists /\ Goto("idle")
  /\ UNCHANGED <<sqlite, lock, up, closing, reader, replica, captured, expectRestart, copied,
                 request>>

\* afterDrain: persistConsumed, then a takeover when enough was captured.  A
\* takeover of a cancelled context does nothing.
AfterDrain ==
  /\ pc = "after" /\ Persists
  /\ \/ /\ captured /\ ~closing /\ Goto("takeover")
        /\ expectRestart' = FALSE /\ lock' = -1 /\ UNCHANGED req
     \/ Goto("idle") /\ Answered("nil") /\ UNCHANGED <<expectRestart, lock>>
  /\ UNCHANGED <<sqlite, up, closing, reader, replica, captured, copied, target, due>>

\* Mutant: the checkpoint's frame count is not compared.
TakeoverBlind ==
  /\ pc = "takeover" /\ Folds(Len(wal))
  /\ Goto("continue") /\ captured' = FALSE
  /\ UNCHANGED <<db, txns, wal, gen, gens, size, lock, up, closing, reader, replica, saved,
                 dirty, expectRestart, copied, request>>

\* takeover: checkpoint(RESTART) reports how many frames the log held; it is
\* restarted by the next writer.
Takeover ==
  /\ pc = "takeover" /\ Folds(Len(wal))
  /\ gen # reader.gen /\ Len(wal) = reader.off => Unlucky("count")
  /\ IF Len(wal) # reader.off THEN Goto("rebase") /\ UNCHANGED captured
                              ELSE Goto("continue") /\ captured' = FALSE
  /\ UNCHANGED <<db, txns, wal, gen, gens, size, lock, up, closing, reader, replica, saved,
                 dirty, expectRestart, copied, request>>

\* It was busy: some frames may be folded, the reader stands where it stood.
\* It is tried again, for a while.
TakeoverBusy ==
  /\ pc = "takeover" /\ (Goto("takeover") \/ Goto("relock"))
  /\ \E n \in folded..Len(wal) : Folds(n)
  /\ UNCHANGED <<db, txns, wal, gen, gens, size, lock, up, closing, reader, replica, saved,
                 dirty, captured, expectRestart, copied, request>>

Relock ==
  /\ pc \in {"relock", "continue"} /\ BeginsRead /\ Goto("idle")
  /\ expectRestart' = (pc = "continue") /\ Answered("nil")
  /\ UNCHANGED <<sqlite, up, closing, reader, replica, saved, dirty, captured, copied, target, due>>

-----------------------------------------------------------------------------
(* Shutdown, and the ends nobody chooses. *)

ShutdownDrain ==
  /\ pc = "idle" /\ closing /\ Goto("sdrain")
  /\ UNCHANGED <<sqlite, lock, up, closing, reader, replica, saved, dirty, captured,
                 expectRestart, copied, request>>

\* Run returns: the connection and its locks go, and done is closed, which
\* DrainNow answers with nil unless a result was sent to it.
Stops(answer) ==
  /\ Goto("down") /\ lock' = -1 /\ up' = FALSE /\ closing' = FALSE
  /\ req' = CASE req = "asked" -> "nil" [] req = "serving" -> answer [] OTHER -> req

\* The final drain found a restarted log (expected or not), or ended; then
\* the position is persisted and the lock given up.
ShutdownDrained ==
  /\ pc = "sdrain" /\ (Restarted \/ Unread = <<>> \/ dirty) /\ Persists
  /\ IF Restarted THEN Stops("nil")
                  ELSE Goto("srestart") /\ lock' = -1 /\ UNCHANGED <<up, closing, req>>
  /\ UNCHANGED <<sqlite, reader, replica, captured, expectRestart, copied, target, due>>

ShutdownRestart ==
  /\ pc = "srestart" /\ Folds(Len(wal))
  /\ IF Len(wal) # reader.off THEN Stops("nil") ELSE Goto("srace") /\ UNCHANGED <<lock, up, closing, req>>
  /\ UNCHANGED <<db, txns, wal, gen, gens, size, reader, replica, saved, dirty, captured,
                 expectRestart, copied, target, due>>

\* walRacedSinceRestart: another generation, or more frames than were consumed
\* (those of older generations behind them count too).
WalRaced == gen # 0 /\ (gen # reader.gen \/ size > reader.off)

\* Mutant: the log is not looked at again before it is truncated.
ShutdownRaceUnseen ==
  /\ pc = "srace" /\ Goto("struncate")
  /\ UNCHANGED <<sqlite, lock, up, closing, reader, replica, saved, dirty, captured,
                 expectRestart, copied, request>>

ShutdownRace ==
  /\ pc = "srace"
  /\ IF WalRaced THEN Stops("nil") ELSE Goto("struncate") /\ UNCHANGED <<lock, up, closing, req>>
  /\ UNCHANGED <<sqlite, reader, replica, saved, dirty, captured, expectRestart, copied, target, due>>

ShutdownTruncate ==
  /\ pc = "struncate" /\ Goto("slock") /\ Truncates
  /\ UNCHANGED <<db, txns, gens, lock, up, closing, reader, replica, saved, dirty, captured,
                 expectRestart, copied, request>>

ShutdownLock ==
  /\ pc = "slock" /\ Goto("sstat") /\ BeginsRead
  /\ UNCHANGED <<sqlite, up, closing, reader, replica, saved, dirty, captured, expectRestart,
                 copied, request>>

ShutdownStat ==
  /\ pc = "sstat"
  /\ IF gen # 0 THEN Stops("nil") ELSE Goto("shash") /\ UNCHANGED <<lock, up, closing, req>>
  /\ UNCHANGED <<sqlite, reader, replica, saved, dirty, captured, expectRestart, copied, target, due>>

ShutdownSave ==
  /\ pc = "shash" /\ Stops("nil")
  /\ saved' = [clean |-> TRUE, main |-> main]
  /\ UNCHANGED <<sqlite, reader, replica, dirty, captured, expectRestart, copied, target, due>>

\* A step of Run fails.  Where the context was cancelled the loop goes on to
\* shutdown; elsewhere, and before the loop, Run returns.
Working == {"rebase", "snapshot", "copy", "takeover", "relock", "continue"}

Fail ==
  /\ Faults /\ pc # "down" /\ (req = "asked" => Unlucky("stop"))
  /\ IF closing /\ up /\ pc \in Working
       THEN /\ Goto("idle") /\ Answered("nil") /\ expectRestart' = FALSE
            /\ UNCHANGED <<lock, up, closing>>
       ELSE Stops("error") /\ UNCHANGED expectRestart
  /\ copied' = NoCopy
  /\ UNCHANGED <<sqlite, reader, replica, saved, dirty, captured, target, due>>

Crash ==
  /\ Faults /\ pc # "down"
  /\ Goto("down") /\ lock' = -1 /\ up' = FALSE /\ closing' = FALSE
  /\ copied' = NoCopy /\ req' = "none" /\ due' = Zero /\ target' = 0
  /\ UNCHANGED <<sqlite, reader, replica, saved, dirty, captured, expectRestart>>

-----------------------------------------------------------------------------
(* The session: it closes the engine, and asks it to drain before a flush. *)

Close ==
  /\ Faults /\ pc # "down" /\ ~closing
  /\ req \in {"asked", "serving"} => Unlucky("stop")
  /\ closing' = TRUE
  /\ UNCHANGED <<sqlite, lock, pc, up, reader, replica, saved, dirty, captured, expectRestart,
                 copied, request>>

DrainNow ==
  /\ up /\ ~closing /\ req \in {"none", "nil", "error"}
  /\ req' = "asked" /\ due' = db
  /\ UNCHANGED <<sqlite, lock, engine, target>>

Engine ==
  \/ ResumeLock \/ ResumeStat \/ ResumeHash \/ RebaseTruncate \/ RebaseLock
  \/ (\E p \in Pages : Copy(p)) \/ RebaseSink
  \/ Poll \/ Serve \/ DrainStep \/ Continuation \/ ContinuityLost \/ PassEnds \/ AfterDrain
  \/ Takeover \/ TakeoverBusy \/ Relock
  \/ ShutdownDrain \/ ShutdownDrained \/ ShutdownRestart \/ ShutdownRace \/ ShutdownTruncate
  \/ ShutdownLock \/ ShutdownStat \/ ShutdownSave

Next ==
  \/ \E p \in Pages : Commit(p)
  \/ ForeignCheckpoint \/ ForeignTruncate
  \/ Starts \/ Engine \/ Fail \/ Crash \/ Close \/ DrainNow

Spec == Init /\ [][Next]_vars

\* The ticker keeps the loop running, and a request that waits is served
\* before the next tick.
Fairness == WF_vars(Starts) /\ WF_vars(Engine) /\ SF_vars(Serve)

FairSpec == Spec /\ Fairness

-----------------------------------------------------------------------------
(* Properties. *)

Content == [Pages -> 0..MaxTxns]

\* What each variable holds.
TypeOK ==
  /\ db \in Content /\ main \in Content /\ replica \in Content /\ due \in Content
  /\ txns \in 0..MaxTxns /\ gen \in {0, gens} /\ gens \in 0..MaxTxns
  /\ wal \in Seq([page: Pages, txn: 1..MaxTxns]) /\ folded \in 0..Len(wal)
  /\ Len(wal) <= size /\ size <= MaxTxns /\ (gen = 0 <=> wal = <<>>)
  /\ lock \in -1..MaxTxns /\ reader.gen \in 0..gens /\ reader.off \in 0..MaxTxns
  /\ saved \in [clean: BOOLEAN, main: Content]
  /\ req \in {"none", "asked", "serving", "nil", "error"}

\* While the engine is in its loop, the replica and what the reader has yet to
\* read of the log make up exactly what is committed, unless the reader is
\* about to find a restart it does not expect, and rebase: takeovers, rebases
\* and restarts of the log lose no transaction and apply none twice, whatever
\* the application's commits and checkpoints do in between.
NothingMissed ==
  pc \in {"idle", "poll", "serve", "after"} /\ ~closing =>
    \/ Restarted /\ ~expectRestart
    \/ db = Overlay(replica, IF Restarted THEN wal ELSE Unread)

\* DrainNow answers nil only when everything committed before the call is in
\* the replica, through restarts, takeovers and rebases in between.
NilMeansDrained == req = "nil" => \A p \in Pages : replica[p] >= due[p]

\* A clean state file describes the replica: the main file it names is what
\* the replica holds, so a start that finds that main file and an empty log
\* may go on from the replica.  Between a clean resume and the first persist
\* it is stale, and then the main file or the log has moved on.
CleanIsTrue ==
  saved.clean /\ pc = "down" =>
    replica = saved.main \/ gen # 0 \/ main # saved.main

\* Once the application stops, the replica catches up with it for good.
Converges == <>[](replica = db)

\* Every DrainNow of a running engine is answered: no pass for a request, its
\* restarts and rebases included, goes on for ever while the writer writes.
Answers == req = "asked" ~> req \in {"nil", "error"}
=============================================================================
