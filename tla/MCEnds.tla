------------------------------ MODULE MCEnds ------------------------------
(***************************************************************************)
(* What must happen in the end, on the smallest instances on which it can   *)
(* fail to.  Each part is one model under the fairness its code's scheduling *)
(* gives it; the parts share no state, so a behaviour runs one of them.     *)
(***************************************************************************)
EXTENDS Naturals

CONSTANTS name1, Nil, Writable, Absent

VARIABLES
  part,     \* the part that runs
  db, txns, main, wal, folded, gen, gens, size, lock, pc, up, closing, reader, replica,
  saved, dirty, captured, expectRestart, copied, target, req, due,
  phase, replicaMain, stamp, head, txid, trailing, sound, replicaReplica, checksum, pages,
  noApply, flushChecksum, forceSnapshot, rebaseGen, flushedRebaseGen, appliedGen,
  flushedGen, seeded, sinceSnapshot, atOpen, durable, lastErr, fl, loop, before, recent,
  refresh, steps, fails, opens, calls,
  refs, objs, ptr, minted, wr, fk, committed, stones, forkAge, gc,
  ref, lapsed, claimsDue, lives, inflight, faults, claimsPc, etag, claimed, tries, age,
  sent, reapedAt,
  slot, sess, keyOf, failed, lease, orphaned, next, log, tableReq, tableCalls, tableClosing,
  tableInflight, sd, janitor,
  published, member, closed, queue, from, at, hand, got, gone, stalled,
  content, dir, lockAt, inodes, flocked, temps, casPc, fd, call, result, casCalls,
  file, ever, dbFd, lru, hold, read, sweep, uses, lost,
  roFile, sums, mark, cps, clock, count, loc, ev, hits,
  watchdogPc, out, timer, firing, watchdogStalled, cancelled, watchdogClosed, spent, pause,
  lines, open, eof, ctx, rd, sv, mcpOut,
  object, job, uploadPc, uploadResult, orphan, uploadNext, uploadClosed, worker,
  uploadFailed, filled, upload, stored, late, comp

captureVars ==
  <<db, txns, main, wal, folded, gen, gens, size, lock, pc, up, closing, reader, replica,
    saved, dirty, captured, expectRestart, copied, target, req, due>>

captureRests ==
  /\ db = Nil /\ txns = Nil /\ main = Nil /\ wal = Nil /\ folded = Nil /\ gen = Nil
  /\ gens = Nil /\ size = Nil /\ lock = Nil /\ pc = Nil /\ up = Nil /\ closing = Nil
  /\ reader = Nil /\ replica = Nil /\ saved = Nil /\ dirty = Nil /\ captured = Nil
  /\ expectRestart = Nil /\ copied = Nil /\ target = Nil /\ req = Nil /\ due = Nil

replicaVars ==
  <<phase, replicaMain, stamp, head, txid, trailing, sound, replicaReplica, checksum, pages,
    noApply, flushChecksum, forceSnapshot, rebaseGen, flushedRebaseGen, appliedGen,
    flushedGen, seeded, sinceSnapshot, atOpen, durable, lastErr, fl, loop, before, recent,
    refresh, steps, fails, opens, calls>>

replicaRests ==
  /\ phase = Nil /\ replicaMain = Nil /\ stamp = Nil /\ head = Nil /\ txid = Nil
  /\ trailing = Nil /\ sound = Nil /\ replicaReplica = Nil /\ checksum = Nil /\ pages = Nil
  /\ noApply = Nil /\ flushChecksum = Nil /\ forceSnapshot = Nil /\ rebaseGen = Nil
  /\ flushedRebaseGen = Nil /\ appliedGen = Nil /\ flushedGen = Nil /\ seeded = Nil
  /\ sinceSnapshot = Nil /\ atOpen = Nil /\ durable = Nil /\ lastErr = Nil /\ fl = Nil
  /\ loop = Nil /\ before = Nil /\ recent = Nil /\ refresh = Nil /\ steps = Nil
  /\ fails = Nil /\ opens = Nil /\ calls = Nil

gcVars == <<refs, objs, ptr, minted, wr, fk, committed, stones, forkAge, gc>>

gcRests ==
  /\ refs = Nil /\ objs = Nil /\ ptr = Nil /\ minted = Nil /\ wr = Nil /\ fk = Nil
  /\ committed = Nil /\ stones = Nil /\ forkAge = Nil /\ gc = Nil

claimsVars ==
  <<ref, lapsed, claimsDue, lives, inflight, faults, claimsPc, etag, claimed, tries, age,
    sent, reapedAt>>

claimsRests ==
  /\ ref = Nil /\ lapsed = Nil /\ claimsDue = Nil /\ lives = Nil /\ inflight = Nil
  /\ faults = Nil /\ claimsPc = Nil /\ etag = Nil /\ claimed = Nil /\ tries = Nil
  /\ age = Nil /\ sent = Nil /\ reapedAt = Nil

tableVars ==
  <<slot, sess, keyOf, failed, lease, orphaned, next, log, tableReq, tableCalls, tableClosing,
    tableInflight, sd, janitor>>

tableRests ==
  /\ slot = Nil /\ sess = Nil /\ keyOf = Nil /\ failed = Nil /\ lease = Nil
  /\ orphaned = Nil /\ next = Nil /\ log = Nil /\ tableReq = Nil /\ tableCalls = Nil
  /\ tableClosing = Nil /\ tableInflight = Nil /\ sd = Nil /\ janitor = Nil

eventsVars == <<published, member, closed, queue, from, at, hand, got, gone, stalled>>

eventsRests ==
  /\ published = Nil /\ member = Nil /\ closed = Nil /\ queue = Nil /\ from = Nil
  /\ at = Nil /\ hand = Nil /\ got = Nil /\ gone = Nil /\ stalled = Nil

casVars == <<content, dir, lockAt, inodes, flocked, temps, casPc, fd, call, result, casCalls>>

casRests ==
  /\ content = Nil /\ dir = Nil /\ lockAt = Nil /\ inodes = Nil /\ flocked = Nil
  /\ temps = Nil /\ casPc = Nil /\ fd = Nil /\ call = Nil /\ result = Nil /\ casCalls = Nil

dbVars == <<file, ever, dbFd, lru, hold, read, sweep, uses, lost>>

dbRests ==
  /\ file = Nil /\ ever = Nil /\ dbFd = Nil /\ lru = Nil /\ hold = Nil /\ read = Nil
  /\ sweep = Nil /\ uses = Nil /\ lost = Nil

roVars == <<roFile, sums, mark, cps, clock, count, loc, ev, hits>>

roRests ==
  /\ roFile = Nil /\ sums = Nil /\ mark = Nil /\ cps = Nil /\ clock = Nil /\ count = Nil
  /\ loc = Nil /\ ev = Nil /\ hits = Nil

watchdogVars ==
  <<watchdogPc, out, timer, firing, watchdogStalled, cancelled, watchdogClosed, spent, pause>>

watchdogRests ==
  /\ watchdogPc = Nil /\ out = Nil /\ timer = Nil /\ firing = Nil /\ watchdogStalled = Nil
  /\ cancelled = Nil /\ watchdogClosed = Nil /\ spent = Nil /\ pause = Nil

mcpVars == <<lines, open, eof, ctx, rd, sv, mcpOut>>

mcpRests ==
  /\ lines = Nil /\ open = Nil /\ eof = Nil /\ ctx = Nil /\ rd = Nil /\ sv = Nil
  /\ mcpOut = Nil

uploadVars ==
  <<object, job, uploadPc, uploadResult, orphan, uploadNext, uploadClosed, worker,
    uploadFailed, filled, upload, stored, late, comp>>

uploadRests ==
  /\ object = Nil /\ job = Nil /\ uploadPc = Nil /\ uploadResult = Nil /\ orphan = Nil
  /\ uploadNext = Nil /\ uploadClosed = Nil /\ worker = Nil /\ uploadFailed = Nil
  /\ filled = Nil /\ upload = Nil /\ stored = Nil /\ late = Nil /\ comp = Nil

Ca == INSTANCE Capture WITH
  Pages <- {"p"}, MaxTxns <- 2, Faults <- FALSE, Windows <- {}

Re == INSTANCE Replica WITH
  Values <- {"x", "y"}, MaxPages <- 1, SnapshotEvery <- 2, MaxSteps <- 1, MaxFails <- 1,
  MaxOpens <- 1, MaxCalls <- 0, main <- replicaMain, replica <- replicaReplica

Gc1 == INSTANCE Gc WITH
  NoRef <- Nil, NoBase <- Nil, Branches <- {"b1"}, Root <- "b1", Writers <- {"w1"},
  Forks <- {}, Passes <- {"g1"}, Lineages <- {1}, ShareBound <- 2, MaxLineages <- 1,
  MaxTxid <- 2, MaxEpoch <- 2, Grace <- 1, ForkTicks <- 1, Faults <- FALSE

De == INSTANCE Destroy WITH
  Calls <- {"d1"}, Forced <- {"d1"}, Reapers <- {}, Holders <- {"h"}, NoHolder <- Nil,
  NoClaim <- Nil, Gone <- Nil, Conditional <- FALSE, StaleAfter <- 3, Margin <- 2,
  Ahead <- 1, Resends <- FALSE, DeleteDelay <- 1, SettleReads <- 1, DeleteAttempts <- 1,
  MaxFaults <- 1, MaxEpoch <- 2, MaxRenewals <- 1, MaxTouches <- 0, MaxWrites <- 0,
  MaxLives <- 1, due <- claimsDue, pc <- claimsPc

St == INSTANCE SessionTable WITH
  Keys <- {"k"}, Clients <- {"c1", "c2"}, MaxSessions <- 2, MaxCalls <- 2,
  Shutdowns <- TRUE, req <- tableReq, calls <- tableCalls, closing <- tableClosing,
  inflight <- tableInflight

Ev == INSTANCE Events WITH
  Sockets <- {}, Sses <- {"b"}, Buffer <- 1, MaxEvents <- 2

Lc == INSTANCE LocalCas WITH
  Procs <- {"p1", "p2"}, Values <- {"v1"}, Absent <- Absent, NoProc <- Nil, MaxInodes <- 2,
  MaxCalls <- 2, pc <- casPc, calls <- casCalls

Db == INSTANCE DbFile WITH
  Paths <- {"p"}, Inodes <- {1, 2}, Holders <- {}, Readers <- {"r1"}, Sweepers <- {"v1"},
  MaxFds <- 2, MaxUses <- 2, Keep <- 1, Reuse <- FALSE, fd <- dbFd

Ro == INSTANCE RoCache WITH
  None <- Nil, Checkout <- Writable, Names <- {name1}, Procs <- {"p"}, Chains <- {1, 2},
  CanClone <- TRUE, MaxEntries <- 1, Budget <- 1, MaxOps <- 2, MaxClock <- 1,
  MaxCrashes <- 0, MaxDrops <- 0, MaxDestroys <- 0, file <- roFile

Wd == INSTANCE Watchdog WITH
  Window <- 2, MaxPause <- 3, pc <- watchdogPc, stalled <- watchdogStalled,
  closed <- watchdogClosed

Ms == INSTANCE Mcp WITH
  BufferSize <- 2, MaxLineSize <- 3, Lengths <- {1, 4, 5}, MaxLines <- 1,
  Unterminated <- FALSE, out <- mcpOut

Mp == INSTANCE Multipart WITH
  Calls <- {"c1"}, Kinds <- {"stream", "readerAt"}, Conditions <- {"create"}, Other <- Nil,
  NoObject <- Absent, Size <- 5, Base <- 1, DefaultPart <- 1, MinPart <- 2, MaxParts <- 3,
  Concurrency <- 2, pc <- uploadPc, result <- uploadResult, next <- uploadNext,
  closed <- uploadClosed, failed <- uploadFailed

allVars == <<part, captureVars, replicaVars, gcVars, claimsVars, tableVars, eventsVars, casVars, dbVars, roVars, watchdogVars, mcpVars, uploadVars>>

\* One part is chosen; the others rest.
MCInit ==
  /\ part \in {"capture", "replica", "gc", "claims", "table", "events", "cas", "db", "ro", "watchdog", "mcp", "upload"}
  /\ IF part = "capture" THEN Ca!Init ELSE captureRests
  /\ IF part = "replica" THEN Re!Init ELSE replicaRests
  /\ IF part = "gc" THEN Gc1!GcInit ELSE gcRests
  /\ IF part = "claims" THEN De!Init ELSE claimsRests
  /\ IF part = "table" THEN St!Init /\ janitor = "idle" ELSE tableRests
  /\ IF part = "events" THEN Ev!Init ELSE eventsRests
  /\ IF part = "cas" THEN Lc!Init ELSE casRests
  /\ IF part = "db" THEN Db!Init ELSE dbRests
  /\ IF part = "ro" THEN Ro!Init ELSE roRests
  /\ IF part = "watchdog" THEN Wd!Init ELSE watchdogRests
  /\ IF part = "mcp" THEN Ms!Init ELSE mcpRests
  /\ IF part = "upload" THEN Mp!Init ELSE uploadRests

MCNext ==
  /\ UNCHANGED part
  /\ \/ /\ part = "capture" /\ Ca!Next
        /\ UNCHANGED <<replicaVars, gcVars, claimsVars, tableVars, eventsVars, casVars, dbVars, roVars, watchdogVars, mcpVars, uploadVars>>
     \/ /\ part = "replica" /\ Re!Next
        /\ UNCHANGED <<captureVars, gcVars, claimsVars, tableVars, eventsVars, casVars, dbVars, roVars, watchdogVars, mcpVars, uploadVars>>
     \/ /\ part = "gc" /\ Gc1!Next
        /\ UNCHANGED <<captureVars, replicaVars, claimsVars, tableVars, eventsVars, casVars, dbVars, roVars, watchdogVars, mcpVars, uploadVars>>
     \/ /\ part = "claims" /\ De!Next
        /\ UNCHANGED <<captureVars, replicaVars, gcVars, tableVars, eventsVars, casVars, dbVars, roVars, watchdogVars, mcpVars, uploadVars>>
     \/ /\ part = "table" /\ St!Next
        /\ UNCHANGED <<captureVars, replicaVars, gcVars, claimsVars, eventsVars, casVars, dbVars, roVars, watchdogVars, mcpVars, uploadVars>>
     \/ /\ part = "events" /\ Ev!Next
        /\ UNCHANGED <<captureVars, replicaVars, gcVars, claimsVars, tableVars, casVars, dbVars, roVars, watchdogVars, mcpVars, uploadVars>>
     \/ /\ part = "cas" /\ Lc!Next
        /\ UNCHANGED <<captureVars, replicaVars, gcVars, claimsVars, tableVars, eventsVars, dbVars, roVars, watchdogVars, mcpVars, uploadVars>>
     \/ /\ part = "db" /\ Db!Next
        /\ UNCHANGED <<captureVars, replicaVars, gcVars, claimsVars, tableVars, eventsVars, casVars, roVars, watchdogVars, mcpVars, uploadVars>>
     \/ /\ part = "ro" /\ Ro!Next
        /\ UNCHANGED <<captureVars, replicaVars, gcVars, claimsVars, tableVars, eventsVars, casVars, dbVars, watchdogVars, mcpVars, uploadVars>>
     \/ /\ part = "watchdog" /\ Wd!Next
        /\ UNCHANGED <<captureVars, replicaVars, gcVars, claimsVars, tableVars, eventsVars, casVars, dbVars, roVars, mcpVars, uploadVars>>
     \/ /\ part = "mcp" /\ Ms!Next
        /\ UNCHANGED <<captureVars, replicaVars, gcVars, claimsVars, tableVars, eventsVars, casVars, dbVars, roVars, watchdogVars, uploadVars>>
     \/ /\ part = "upload" /\ Mp!Next
        /\ UNCHANGED <<captureVars, replicaVars, gcVars, claimsVars, tableVars, eventsVars, casVars, dbVars, roVars, watchdogVars, mcpVars>>

MCSpec == MCInit /\ [][MCNext]_allVars

\* The variables of the part that runs.
running ==
  CASE part = "capture" -> captureVars
    [] part = "replica" -> replicaVars
    [] part = "gc" -> gcVars
    [] part = "claims" -> claimsVars
    [] part = "table" -> tableVars
    [] part = "events" -> eventsVars
    [] part = "cas" -> casVars
    [] part = "db" -> dbVars
    [] part = "ro" -> roVars
    [] part = "watchdog" -> watchdogVars
    [] part = "mcp" -> mcpVars
    [] part = "upload" -> uploadVars

\* The steps that each part's code is bound to take, as its own module states
\* them.  As one part runs, a number stands for one step of each part.
Bound(i) ==
  /\ UNCHANGED part
  /\ \/ part = "capture" /\ ((i = 1 /\ Ca!Starts) \/ (i = 2 /\ Ca!Engine))
     \/ part = "replica" /\ ((i = 1 /\ Re!Tick) \/ (i = 2 /\ Re!FlushStep))
     \/ part = "gc" /\ ((i = 1 /\ Gc1!GcNext("g1")) \/ (i = 2 /\ Gc1!Tick))
     \/ part = "claims" /\ ((i = 1 /\ De!Tick) \/ (i = 2 /\ De!ClearStale) \/ (i = 3 /\ De!DsDelete("d1")))
     \/ /\ part = "table"
        /\ \/ i = 1 /\ St!Step("c1")
           \/ i = 2 /\ St!Step("c2")
           \/ i = 3 /\ St!Closer(1)
           \/ i = 4 /\ St!Closer(2)
           \/ i = 5 /\ St!LeaseLapses("k")
           \/ i = 6 /\ St!Stopping
     \/ part = "events" /\ i = 1 /\ (Ev!Ack("b") \/ Ev!Receive("b") \/ Ev!Drained("b") \/ Ev!Write("b"))
     \/ part = "cas" /\ ((i = 1 /\ Lc!Step("p1")) \/ (i = 2 /\ Lc!Step("p2")))
     \/ /\ part = "db"
        /\ \/ i = 1 /\ Db!Read("r1")
           \/ i = 2 /\ Db!Sweep("v1")
           \/ i = 3 /\ Db!CloseReturns(1)
           \/ i = 4 /\ Db!CloseReturns(2)
     \/ part = "ro" /\ ((i = 1 /\ Ro!Evict) \/ (i = 2 /\ Ro!Tick) \/ (i = 3 /\ Ro!Step("p")))
     \/ /\ part = "watchdog"
        /\ \/ i = 1 /\ Wd!Finish
           \/ i = 2 /\ Wd!Tick
           \/ i = 3 /\ Wd!Fire
           \/ i = 4 /\ Wd!Watch
           \/ i = 5 /\ Wd!BodyReturns("cancelled")
     \/ part = "mcp" /\ ((i = 1 /\ Ms!Reader) \/ (i = 2 /\ Ms!Serve))
     \/ part = "upload" /\ i = 1 /\ Mp!Step("c1") /\ uploadPc["c1"] # "idle"

\* And those it takes if it may again and again.
BoundIfRepeated(i) ==
  /\ UNCHANGED part
  /\ \/ part = "capture" /\ i = 1 /\ Ca!Serve
     \/ part = "replica" /\ i = 1 /\ Re!Begin("loop")
     \/ part = "events" /\ ((i = 1 /\ Ev!NoticesGone("b")) \/ (i = 2 /\ Ev!WriteFails("b")))
     \/ part = "db" /\ i = 1 /\ Db!CloseOrphans

MCFairSpec ==
  /\ MCSpec
  /\ \A i \in 1..6 : WF_running(Bound(i))
  /\ \A i \in 1..2 : SF_running(BoundIfRepeated(i))

-----------------------------------------------------------------------------
(* Properties *)

\* The replica ends up as the database once applications stop writing, and a
\* drain that was asked for is answered (wal.Engine's loop, DrainNow).  What a
\* session captured is durable in the end: failed flushes are tried again, and
\* none waits for a change that does not come (flushLoop).
SessionEnds ==
  /\ <>[](part = "capture" => replica = db)
  /\ (part = "capture" /\ req = "asked") ~> (part = "capture" => req \in {"nil", "error"})
  /\ <>[](part = "replica" => phase # "open" \/ head = replicaReplica)

\* Garbage does not stay, neither what a destroyed branch leaves nor the
\* segments of a fenced writer and of a failed flush (GC's two phases).  No claim
\* stays on a branch for ever: its destroy ends it, or ClearStaleClaims does.
\* Every call of the local store ends: the lock files that crashed processes
\* leave stop nobody (lockFile).  An upload that has begun returns (uploadParts),
\* and every Read does, though the backend may stop delivering (watchdogReader).
StoreEnds ==
  /\ \A k \in {Gc1!Snapshot(1, 1, 1), Gc1!Segment(1, 1, 2), Gc1!Segment(1, 2, 2)} :
       ~<>[](part = "gc" /\ Gc1!Garbage(k))
  /\ (part = "claims" /\ De!Exists /\ ref.claim = "d1")
       ~> (part = "claims" => ~De!Exists \/ ref.claim # "d1")
  /\ \A p \in {"p1", "p2"} : (part = "cas" /\ casPc[p] # "idle") ~> (part = "cas" => casPc[p] = "idle")
  /\ (part = "upload" /\ uploadPc["c1"] \in {"preflight", "create"}) ~> (part = "upload" => uploadPc["c1"] = "done")
  /\ (part = "watchdog" /\ watchdogPc = "reading") ~> (part = "watchdog" => watchdogPc = "between")

\* Every request to the daemon is answered, and a Shutdown that has begun
\* returns (waitClosed, closeSlot, Shutdown).  The stream of a client that has
\* gone ends, and no write hangs (events.go).  Serve returns once the input has
\* ended or its context is cancelled, and the goroutine that reads ends once its
\* Read returns (mcp Serve).  A descriptor whose close was put off is closed
\* (CloseOrphans), and the cache ends up within its budget (EvictROCache).
DaemonEnds ==
  /\ \A c \in {"c1", "c2"} :
       (part = "table" /\ tableReq[c].at = "enter") ~> (part = "table" => tableReq[c].at = "idle")
  /\ (part = "table" /\ tableClosing) ~> (part = "table" => sd.at = "returned")
  /\ (part = "events" /\ "b" \in gone) ~> (part = "events" => at["b"] = "ended")
  /\ (part = "events" /\ at["b"] = "writing") ~> (part = "events" => at["b"] # "writing")
  /\ (part = "mcp" /\ (eof \/ ctx)) ~> (part = "mcp" => Ms!Returned)
  /\ (part = "mcp" /\ eof /\ ctx) ~> (part = "mcp" => rd.at = "gone")
  /\ \A i \in 1..2 : (part = "db" /\ dbFd[i].state = "orphan") ~> (part = "db" => dbFd[i].state # "orphan")
  /\ <>[](part = "ro" => Ro!Usage <= 1)
=============================================================================
