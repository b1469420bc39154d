------------------------------ MODULE MCStreams ------------------------------
(***************************************************************************)
(* The parts that read or write a stream to its end: uploads in parts       *)
(* (Multipart), the watchdog on a store's bodies (Watchdog), the guard in   *)
(* front of the LTX decoder (FrameGuard), the MCP server's lines (Mcp), the *)
(* daemon's events (Events), and the comparison of two tables (Diff).  They *)
(* share no state, so a behaviour runs one of them, and one run checks them *)
(* all.                                                                     *)
(***************************************************************************)
EXTENDS Multipart

CONSTANTS Nil

VARIABLES
  part,     \* the part that runs
  watchdogPc, out, timer, firing, stalled, cancelled, watchdogClosed, spent, pause,
  guardObject, cut, pos, pending, payload, state, err, guardOut, told,
  lines, open, eof, ctx, rd, sv, mcpOut,
  published, member, eventsClosed, queue, from, at, hand, got, gone, eventsStalled,
  left, right, diffPc, d

watchdogVars ==
  <<watchdogPc, out, timer, firing, stalled, cancelled, watchdogClosed, spent, pause>>

watchdogRests ==
  /\ watchdogPc = Nil /\ out = Nil /\ timer = Nil /\ firing = Nil /\ stalled = Nil
  /\ cancelled = Nil /\ watchdogClosed = Nil /\ spent = Nil /\ pause = Nil

guardVars == <<guardObject, cut, pos, pending, payload, state, err, guardOut, told>>

guardRests ==
  /\ guardObject = Nil /\ cut = Nil /\ pos = Nil /\ pending = Nil /\ payload = Nil
  /\ state = Nil /\ err = Nil /\ guardOut = Nil /\ told = Nil

mcpVars == <<lines, open, eof, ctx, rd, sv, mcpOut>>

mcpRests ==
  /\ lines = Nil /\ open = Nil /\ eof = Nil /\ ctx = Nil /\ rd = Nil /\ sv = Nil
  /\ mcpOut = Nil

eventsVars ==
  <<published, member, eventsClosed, queue, from, at, hand, got, gone, eventsStalled>>

eventsRests ==
  /\ published = Nil /\ member = Nil /\ eventsClosed = Nil /\ queue = Nil /\ from = Nil
  /\ at = Nil /\ hand = Nil /\ got = Nil /\ gone = Nil /\ eventsStalled = Nil

diffVars == <<left, right, diffPc, d>>

diffRests == left = Nil /\ right = Nil /\ diffPc = Nil /\ d = Nil

Wd == INSTANCE Watchdog WITH
  Window <- 3, MaxPause <- 5, pc <- watchdogPc, closed <- watchdogClosed

Fg == INSTANCE FrameGuard WITH
  FieldSize <- 2, DataSizes <- {0, 3}, MaxPages <- 2, BufferSizes <- {1, 2, 5},
  object <- guardObject, out <- guardOut

Ms == INSTANCE Mcp WITH
  BufferSize <- 2, MaxLineSize <- 5, Lengths <- {0, 1, 2, 4, 5, 6, 8}, MaxLines <- 2,
  Unterminated <- FALSE, out <- mcpOut

Ev == INSTANCE Events WITH
  Sockets <- {"a"}, Sses <- {"b"}, Buffer <- 2, MaxEvents <- 5, closed <- eventsClosed,
  stalled <- eventsStalled

Df == INSTANCE Diff WITH
  RowIds <- {1, 2}, Keys <- {1, 2}, Values <- {"a", "b"}, NULL <- Nil, NoTable <- Nil,
  Collated <- FALSE, WithoutRowid <- TRUE, pc <- diffPc

allVars == <<part, vars, watchdogVars, guardVars, mcpVars, eventsVars, diffVars>>

\* One part is chosen; the others rest.
MCInit ==
  /\ part \in {"multipart", "watchdog", "guard", "mcp", "events", "diff"}
  /\ Init /\ (part # "multipart" => object = NoObject /\ job = [c \in Calls |-> CHOOSE j \in Jobs : TRUE])
  /\ IF part = "watchdog" THEN Wd!Init ELSE watchdogRests
  /\ IF part = "guard" THEN Fg!Init ELSE guardRests
  /\ IF part = "mcp" THEN Ms!Init ELSE mcpRests
  /\ IF part = "events" THEN Ev!Init ELSE eventsRests
  /\ IF part = "diff" THEN Df!Init ELSE diffRests

MCNext ==
  /\ UNCHANGED part
  /\ \/ /\ part = "multipart" /\ Next
        /\ UNCHANGED <<watchdogVars, guardVars, mcpVars, eventsVars, diffVars>>
     \/ /\ part = "watchdog" /\ Wd!Next
        /\ UNCHANGED <<vars, guardVars, mcpVars, eventsVars, diffVars>>
     \/ /\ part = "guard" /\ Fg!Next
        /\ UNCHANGED <<vars, watchdogVars, mcpVars, eventsVars, diffVars>>
     \/ /\ part = "mcp" /\ Ms!Next
        /\ UNCHANGED <<vars, watchdogVars, guardVars, eventsVars, diffVars>>
     \/ /\ part = "events" /\ Ev!Next
        /\ UNCHANGED <<vars, watchdogVars, guardVars, mcpVars, diffVars>>
     \/ /\ part = "diff" /\ Df!Next
        /\ UNCHANGED <<vars, watchdogVars, guardVars, mcpVars, eventsVars>>

MCSpec == MCInit /\ [][MCNext]_allVars

ASSUME Wd!WindowAssumption /\ Fg!GuardAssumption /\ Ms!McpAssumption /\ Ev!BufferAssumption /\ Df!DiffAssumption

-----------------------------------------------------------------------------
(* Properties *)

\* A completed object is the caller's bytes, whole and in order, and an upload
\* is completed only with every part of it (uploadParts, completeMultipart).
\* The reader of a body is not cancelled but by its own close or by one Read
\* that blocked for the whole window, which is reported as a stall, however
\* long it pauses between Reads (watchedBody).  The decoder gets the bytes from
\* the first one on, each once and in order, none of a field or block that is
\* not sound or after it, and all of a sound object (frameGuard).
BytesTrue ==
  /\ part = "multipart" => Whole /\ CompleteFull
  /\ part = "watchdog" => Wd!SparesConsumer /\ Wd!NamesStall
  /\ part = "guard" => Fg!InOrder /\ Fg!CheckedFirst /\ Fg!PassesWhole

\* The answers are, in order and one each, those to the client's requests,
\* lines that do not parse and lines that are too long, and none is owed when
\* the input has ended (Serve, readBoundedLine).  A subscriber the bus holds
\* gets every event published since it subscribed, in order, and one that was
\* dropped is told so (eventBus.publish, serveEvents).
AnswersTrue ==
  /\ part = "mcp" => Ms!AnswersInOrder /\ Ms!AllAnswered
  /\ part = "events" => Ev!TypeOK /\ Ev!NoSilentGap

\* Tables that differ are never "same", and the three numbers of a table's diff
\* account for every row, whatever keys are NULL or repeated (diffTable).
DiffTrue == part = "diff" => Df!SameIsSame /\ Df!CountsTrue
=============================================================================
