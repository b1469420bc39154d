------------------------------ MODULE MCServers ------------------------------
(***************************************************************************)
(* The daemon: its table of sessions (SessionTable, for two branches and a  *)
(* Shutdown, and for one branch and more clients), its connections          *)
(* (Connections) and its socket path (Endpoint).  The models share no       *)
(* state, so a behaviour runs one of them, and one run checks them all.     *)
(***************************************************************************)
EXTENDS SessionTable, TLC

CONSTANTS key1, client1, client2, client3, Nil

VARIABLES
  part,     \* the part that runs
  busySlot, busySess, busyKeyOf, busyFailed, busyLease, busyOrphaned, busyNext, busyLog,
  busyReq, busyCalls, busyClosing, busyInflight, busySd, busyJanitor,
  listening, conn, h, connsCalls, op, reply, conns, st, httpSrv, connsSd, cause,
  path, pc

busyVars ==
  <<busySlot, busySess, busyKeyOf, busyFailed, busyLease, busyOrphaned, busyNext, busyLog,
    busyReq, busyCalls, busyClosing, busyInflight, busySd, busyJanitor>>

busyRests ==
  /\ busySlot = Nil /\ busySess = Nil /\ busyKeyOf = Nil /\ busyFailed = Nil
  /\ busyLease = Nil /\ busyOrphaned = Nil /\ busyNext = Nil /\ busyLog = Nil
  /\ busyReq = Nil /\ busyCalls = Nil /\ busyClosing = Nil /\ busyInflight = Nil
  /\ busySd = Nil /\ busyJanitor = Nil

connsVars == <<listening, conn, h, connsCalls, op, reply, conns, st, httpSrv, connsSd, cause>>

connsRests ==
  /\ listening = Nil /\ conn = Nil /\ h = Nil /\ connsCalls = Nil /\ op = Nil /\ reply = Nil
  /\ conns = Nil /\ st = Nil /\ httpSrv = Nil /\ connsSd = Nil /\ cause = Nil

pathVars == <<path, pc>>

pathRests == path = Nil /\ pc = Nil

Busy == INSTANCE SessionTable WITH
  Keys <- {key1}, Clients <- {client1, client2, client3}, MaxSessions <- 3, MaxCalls <- 4,
  Shutdowns <- FALSE, slot <- busySlot, sess <- busySess, keyOf <- busyKeyOf,
  failed <- busyFailed, lease <- busyLease, orphaned <- busyOrphaned, next <- busyNext,
  log <- busyLog, req <- busyReq, calls <- busyCalls, closing <- busyClosing,
  inflight <- busyInflight, sd <- busySd, janitor <- busyJanitor

Co == INSTANCE Connections WITH
  Unix <- {"u", "v"}, Http <- {"w"}, Starters <- {"x", "y"}, LateHandler <- FALSE,
  MaxCalls <- 1, calls <- connsCalls, sd <- connsSd

En == INSTANCE Endpoint WITH
  Daemons <- {"d1", "d2", "d3", "d4"}, Crashes <- TRUE, StartRace <- FALSE,
  StopRace <- FALSE

allVars == <<part, vars, busyVars, connsVars, pathVars>>

\* One part is chosen; the others rest.
MCInit ==
  /\ part \in {"table", "busy", "conns", "path"}
  /\ Init /\ (part # "table" => janitor = "off")
  /\ IF part = "busy" THEN Busy!Init ELSE busyRests
  /\ IF part = "conns" THEN Co!Init ELSE connsRests
  /\ IF part = "path" THEN En!Init ELSE pathRests

MCNext ==
  /\ UNCHANGED part
  /\ \/ part = "table" /\ Next /\ UNCHANGED <<busyVars, connsVars, pathVars>>
     \/ part = "busy" /\ Busy!Next /\ UNCHANGED <<vars, connsVars, pathVars>>
     \/ part = "conns" /\ Co!Next /\ UNCHANGED <<vars, busyVars, pathVars>>
     \/ part = "path" /\ En!Next /\ UNCHANGED <<vars, busyVars, connsVars>>

MCSpec == MCInit /\ [][MCNext]_allVars

\* Clients are interchangeable.
ClientSymmetry == Permutations({client1, client2, client3})

-----------------------------------------------------------------------------
(* Properties *)

=============================================================================
