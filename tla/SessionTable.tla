---------------------------- MODULE SessionTable ----------------------------
(***************************************************************************)
(* The daemon's table of sessions (daemon/server.go): slots that are       *)
(* reserved while an open is in flight, open, and closing until Close has  *)
(* returned; opens, closes, flushes and operations at rest of several      *)
(* clients; leases that outlive the session that failed to release them;   *)
(* the janitor; and Shutdown.                                              *)
(*                                                                         *)
(* The mutex s.mu is an action's atomicity: each action is one section     *)
(* under it or one call made outside it.  A closing marker is named by its *)
(* session, which is marked once.                                          *)
(***************************************************************************)
EXTENDS Naturals, Sequences

CONSTANTS
  Keys, Clients,
  MaxSessions,     \* bound: leases taken
  MaxCalls,        \* bound: requests
  Shutdowns        \* whether somebody shuts the daemon down

ASSUME TableAssumption == MaxSessions \in Nat /\ MaxCalls \in Nat /\ Shutdowns \in BOOLEAN

VARIABLES
  slot,      \* each branch's slot: its state and its session
  sess,      \* each session: none, live, closing, selfclosing, closed (Close has returned), gone
  keyOf,     \* its branch
  failed,    \* sessions whose Close returned an error, the release's
  lease,     \* who holds each branch's lease, 0 for nobody
  orphaned,
  next,      \* the session to come
  log,       \* each branch's events, as every subscriber sees them
  req,       \* what each client's request is doing
  calls,
  closing, inflight,     \* Shutdown has begun; opens that hold a reservation
  sd,        \* Shutdown's position, the sessions it waits for, what it returned
  janitor    \* off, idle, pass

vars == <<slot, sess, keyOf, failed, lease, orphaned, next, log, req, calls, closing, inflight, sd, janitor>>

Sessions == 1..MaxSessions

Nobody == 0

Free == [state |-> "free", sid |-> Nobody]

Slot(state, s) == [state |-> state, sid |-> s]

\* A request: its operation, branch, the session id a close names, where it
\* is, the session it is about, and its answer.
Idle == [op |-> "none", key |-> "none", want |-> Nobody, at |-> "idle",
         sid |-> Nobody, answer |-> "none"]

Live(s) == s # Nobody /\ sess[s] \in {"live", "closing", "selfclosing"}

Init ==
  /\ slot = [k \in Keys |-> Free] /\ sess = [s \in Sessions |-> "none"]
  /\ keyOf = [s \in Sessions |-> "none"] /\ failed = {}
  /\ lease = [k \in Keys |-> Nobody] /\ orphaned = [k \in Keys |-> Nobody] /\ next = 1
  /\ log = [k \in Keys |-> <<>>]
  /\ req = [c \in Clients |-> Idle] /\ calls = 0
  /\ closing = FALSE /\ inflight = {} /\ sd = [at |-> "no", waits |-> {}, result |-> "none"]
  /\ janitor \in {"off", "idle"}

Moves(c, at) == req' = [req EXCEPT ![c].at = at]

Answers(c, answer) == req' = [req EXCEPT ![c].at = "answered", ![c].answer = answer]

table == <<slot, sess, keyOf, failed, lease, orphaned, next, log>>

whole == <<closing, inflight, sd, janitor>>

\* A request arrives; want is the session id a close may carry.
Call(c, op, k, want) ==
  /\ req[c].at = "idle" /\ calls < MaxCalls /\ calls' = calls + 1
  /\ want # Nobody => op = "close" /\ keyOf[want] = k /\ sess[want] # "none"
  /\ req' = [req EXCEPT ![c] = [op |-> op, key |-> k, want |-> want, at |-> "enter", sid |-> Nobody,
                                answer |-> "none"]]
  /\ UNCHANGED <<table, whole>>

\* The client has its answer.
Answered(c) ==
  /\ req[c].at = "answered" /\ req' = [req EXCEPT ![c] = Idle]
  /\ UNCHANGED <<table, whole, calls>>

-----------------------------------------------------------------------------
(* opOpen *)

\* A bug: the slot is looked at and not reserved.
OpenEnterUnreserved(c) ==
  /\ req[c].op = "open" /\ req[c].at = "enter"
  /\ IF closing \/ slot[req[c].key] # Free
       THEN Answers(c, "already open") /\ UNCHANGED inflight
       ELSE inflight' = inflight \cup {c} /\ Moves(c, "opening")
  /\ UNCHANGED <<table, calls, closing, sd, janitor>>

OpenEnter(c) ==
  /\ req[c].op = "open" /\ req[c].at = "enter"
  /\ LET k == req[c].key IN
     \/ closing /\ Answers(c, "shutting down") /\ UNCHANGED <<slot, inflight>>
     \/ /\ ~closing /\ slot[k].state \in {"reserved", "open"}
        /\ Answers(c, "already open") /\ UNCHANGED <<slot, inflight>>
     \/ /\ ~closing /\ slot[k].state = "closing"
        /\ req' = [req EXCEPT ![c].at = "wait", ![c].sid = slot[k].sid] /\ UNCHANGED <<slot, inflight>>
     \/ /\ ~closing /\ slot[k] = Free
        /\ slot' = [slot EXCEPT ![k] = Slot("reserved", Nobody)]
        /\ inflight' = inflight \cup {c} /\ Moves(c, "opening")
  /\ UNCHANGED <<sess, keyOf, failed, lease, orphaned, next, log, calls, closing, sd, janitor>>

\* waitClosed: the close is over, and the table is looked at again.
OpenWaited(c) ==
  /\ req[c].op = "open" /\ req[c].at = "wait" /\ sess[req[c].sid] = "gone"
  /\ req' = [req EXCEPT ![c].at = "enter", ![c].sid = Nobody]
  /\ UNCHANGED <<table, whole, calls>>

\* closeWaitBudget is over first, for an open or for a second close.
WaitTimesOut(c) ==
  /\ req[c].at = "wait" /\ Answers(c, "still closing")
  /\ UNCHANGED <<table, whole, calls>>

\* session.Open takes the lease under a holder of its own and starts the
\* session, which publishes that it is open.
SessionOpens(c) ==
  LET k == req[c].key IN
  /\ req[c].at = "opening" /\ lease[k] = Nobody /\ next \in Sessions
  /\ lease' = [lease EXCEPT ![k] = next] /\ next' = next + 1
  /\ sess' = [sess EXCEPT ![next] = "live"] /\ keyOf' = [keyOf EXCEPT ![next] = k]
  /\ log' = [log EXCEPT ![k] = Append(@, <<"opened", next>>)]
  /\ req' = [req EXCEPT ![c].at = "opened", ![c].sid = next]
  /\ UNCHANGED <<slot, failed, orphaned, calls, whole>>

\* It fails: the lease is somebody's, or something else goes wrong after it
\* was taken, and then its release may fail as well.
SessionRefused(c) ==
  /\ req[c].at = "opening" /\ lease[req[c].key] # Nobody /\ Moves(c, "refused")
  /\ UNCHANGED <<table, whole, calls>>

SessionOpenFails(c, released) ==
  LET k == req[c].key IN
  /\ req[c].at = "opening" /\ lease[k] = Nobody /\ next \in Sessions
  /\ next' = next + 1 /\ keyOf' = [keyOf EXCEPT ![next] = k]
  /\ sess' = [sess EXCEPT ![next] = "gone"]
  /\ lease' = IF released THEN lease ELSE [lease EXCEPT ![k] = next]
  /\ failed' = IF released THEN failed ELSE failed \cup {next}
  /\ req' = [req EXCEPT ![c].at = "refused", ![c].sid = next]
  /\ UNCHANGED <<slot, orphaned, log, calls, whole>>

\* A bug: a failed release is not recorded.
RecordOrphanNever(k, s) == orphaned

\* recordOrphanLocked
RecordOrphan(k, s) == IF s \in failed THEN [orphaned EXCEPT ![k] = s] ELSE orphaned

\* openRefusal, while the reservation stands, and the release of it.
OpenRefused(c) ==
  LET k == req[c].key IN
  /\ req[c].at = "refused"
  /\ Answers(c, IF lease[k] # Nobody /\ lease[k] = orphaned[k] THEN "an earlier session's" ELSE "refused")
  /\ orphaned' = RecordOrphan(k, req[c].sid)
  /\ slot' = [slot EXCEPT ![k] = Free] /\ inflight' = inflight \ {c}
  /\ UNCHANGED <<sess, keyOf, failed, lease, next, log, calls, closing, sd, janitor>>

\* The session is entered; or Shutdown has begun, and it is closed again.
OpenEnds(c) ==
  LET k == req[c].key IN
  /\ req[c].at = "opened"
  /\ IF closing
       THEN /\ slot' = [slot EXCEPT ![k] = Free] /\ Moves(c, "selfclose")
            /\ sess' = [sess EXCEPT ![req[c].sid] = "selfclosing"] /\ UNCHANGED <<orphaned, inflight>>
       ELSE /\ slot' = [slot EXCEPT ![k] = Slot("open", req[c].sid)]
            /\ orphaned' = [orphaned EXCEPT ![k] = Nobody] /\ inflight' = inflight \ {c}
            /\ Answers(c, "ok") /\ UNCHANGED sess
  /\ UNCHANGED <<keyOf, failed, lease, next, log, calls, closing, sd, janitor>>

\* Session.Close: the engine is joined, and the lease released if it can be.
Released(s, ok) ==
  /\ lease' = IF ok /\ lease[keyOf[s]] = s THEN [lease EXCEPT ![keyOf[s]] = Nobody] ELSE lease
  /\ failed' = IF ok THEN failed ELSE failed \cup {s}
  /\ sess' = [sess EXCEPT ![s] = "closed"]

SelfClose(c, ok) ==
  /\ req[c].at = "selfclose" /\ sess[req[c].sid] = "selfclosing" /\ Released(req[c].sid, ok)
  /\ UNCHANGED <<slot, keyOf, orphaned, next, log, req, calls, whole>>

\* A bug: the open is never counted as over.
SelfClosedUndone(c) ==
  /\ req[c].at = "selfclose" /\ sess[req[c].sid] = "closed"
  /\ sess' = [sess EXCEPT ![req[c].sid] = "gone"]
  /\ log' = [log EXCEPT ![req[c].key] = Append(@, <<"closed", req[c].sid>>)]
  /\ Answers(c, "shutting down")
  /\ UNCHANGED <<slot, keyOf, failed, lease, orphaned, next, calls, whole>>

SelfClosed(c) ==
  /\ req[c].at = "selfclose" /\ sess[req[c].sid] = "closed"
  /\ sess' = [sess EXCEPT ![req[c].sid] = "gone"]
  /\ log' = [log EXCEPT ![req[c].key] = Append(@, <<"closed", req[c].sid>>)]
  /\ inflight' = inflight \ {c} /\ Answers(c, "shutting down")
  /\ UNCHANGED <<slot, keyOf, failed, lease, orphaned, next, calls, closing, sd, janitor>>

-----------------------------------------------------------------------------
(* opClose *)

\* markClosingLocked, for each of the branches
Marked(ks) ==
  /\ slot' = [k \in Keys |-> IF k \in ks THEN Slot("closing", slot[k].sid) ELSE slot[k]]
  /\ sess' = [s \in Sessions |-> IF \E k \in ks : slot[k].sid = s THEN "closing" ELSE sess[s]]

\* A bug: the branch is free as soon as its close begins.
CloseEnterFrees(c) ==
  LET sl == slot[req[c].key] IN
  /\ req[c].op = "close" /\ req[c].at = "enter"
  /\ IF sl.state = "open"
       THEN /\ slot' = [slot EXCEPT ![req[c].key] = Free] /\ sess' = [sess EXCEPT ![sl.sid] = "closing"]
            /\ req' = [req EXCEPT ![c].at = "closes", ![c].sid = sl.sid]
       ELSE Answers(c, "not open") /\ UNCHANGED <<slot, sess>>
  /\ UNCHANGED <<keyOf, failed, lease, orphaned, next, log, calls, whole>>

CloseEnter(c) ==
  LET sl == slot[req[c].key]
      named == sl.state \in {"open", "closing"} /\ req[c].want \in {Nobody, sl.sid} IN
  /\ req[c].op = "close" /\ req[c].at = "enter"
  /\ \/ ~named /\ Answers(c, "not open") /\ UNCHANGED <<slot, sess>>
     \/ /\ named /\ sl.state = "closing"
        /\ req' = [req EXCEPT ![c].at = "wait", ![c].sid = sl.sid] /\ UNCHANGED <<slot, sess>>
     \/ /\ named /\ sl.state = "open" /\ Marked({req[c].key})
        /\ req' = [req EXCEPT ![c].at = "closes", ![c].sid = sl.sid]
  /\ UNCHANGED <<keyOf, failed, lease, orphaned, next, log, calls, whole>>

\* closeSlot: Close outside the mutex, whoever marked the slot;
SessionCloses(s, ok) ==
  /\ sess[s] = "closing" /\ Released(s, ok)
  /\ UNCHANGED <<slot, keyOf, orphaned, next, log, req, calls, whole>>

\* A bug: the event is published after the key is free.
CloseEndsLate(s) ==
  LET k == keyOf[s] IN
  /\ IF sess[s] = "closed"
       THEN /\ slot' = [slot EXCEPT ![k] = Free] /\ orphaned' = RecordOrphan(k, s)
            /\ sess' = [sess EXCEPT ![s] = "unpublished"] /\ UNCHANGED log
       ELSE /\ sess[s] = "unpublished" /\ sess' = [sess EXCEPT ![s] = "gone"]
            /\ log' = [log EXCEPT ![k] = Append(@, <<"closed", s>>)] /\ UNCHANGED <<slot, orphaned>>
  /\ UNCHANGED <<keyOf, failed, lease, next, req, calls, whole>>

\* A bug: the slot the close found open is the one it leaves.
CloseEndsKeeping(s) ==
  /\ sess[s] = "closed" /\ \A c \in Clients : ~(req[c].at = "selfclose" /\ req[c].sid = s)
  /\ orphaned' = RecordOrphan(keyOf[s], s)
  /\ log' = [log EXCEPT ![keyOf[s]] = Append(@, <<"closed", s>>)]
  /\ sess' = [sess EXCEPT ![s] = "gone"]
  /\ UNCHANGED <<slot, keyOf, failed, lease, next, req, calls, whole>>

\* then the key is freed, the event published and done closed, in one section.
CloseEnds(s) ==
  LET k == keyOf[s] IN
  /\ sess[s] = "closed" /\ \A c \in Clients : ~(req[c].at = "selfclose" /\ req[c].sid = s)
  /\ slot' = IF slot[k] = Slot("closing", s) THEN [slot EXCEPT ![k] = Free] ELSE slot
  /\ orphaned' = RecordOrphan(k, s)
  /\ log' = [log EXCEPT ![k] = Append(@, <<"closed", s>>)]
  /\ sess' = [sess EXCEPT ![s] = "gone"]
  /\ UNCHANGED <<keyOf, failed, lease, next, req, calls, whole>>

\* A bug: one that waited says ok.
CloseAnswersOk(c) ==
  /\ req[c].op = "close" /\ req[c].at \in {"closes", "wait"} /\ sess[req[c].sid] = "gone"
  /\ Answers(c, IF req[c].at = "closes" /\ req[c].sid \in failed THEN "release failed" ELSE "ok")
  /\ UNCHANGED <<table, whole, calls>>

\* The close that did it, and one that waited for it, answer its result.
CloseAnswers(c) ==
  /\ req[c].op = "close" /\ req[c].at \in {"closes", "wait"} /\ sess[req[c].sid] = "gone"
  /\ Answers(c, IF req[c].sid \in failed THEN "release failed" ELSE "ok")
  /\ UNCHANGED <<table, whole, calls>>

-----------------------------------------------------------------------------
(* Everything else. *)

\* It starts; sid notes the session that is on the branch all the same.
Runs(c) ==
  LET there == {s \in Sessions : keyOf[s] = req[c].key /\ Live(s)} IN
  req' = [req EXCEPT ![c].at = "runs", ![c].sid = IF there = {} THEN Nobody ELSE CHOOSE s \in there : TRUE]

\* A bug: only an open session is a claim.
AtRestUnlessOpen(c) ==
  /\ req[c].op = "atrest" /\ req[c].at = "enter"
  /\ IF slot[req[c].key].state # "open" THEN Runs(c) ELSE Answers(c, "claimed")
  /\ UNCHANGED <<table, whole, calls>>

\* refuseIfClaimed: a checkout, destroy, rollback, promote or compact runs
\* when nothing here has a claim on the branch.
AtRest(c) ==
  /\ req[c].op = "atrest" /\ req[c].at = "enter"
  /\ IF slot[req[c].key] = Free THEN Runs(c) ELSE Answers(c, "claimed")
  /\ UNCHANGED <<table, whole, calls>>

\* flushIfOpen: a fork's source is flushed if it is open here.
ForkEnter(c) ==
  LET sl == slot[req[c].key] IN
  /\ req[c].op = "fork" /\ req[c].at = "enter"
  /\ \/ sl = Free /\ Moves(c, "runs")
     \/ sl.state \in {"reserved", "closing"} /\ Answers(c, "claimed")
     \/ sl.state = "open" /\ req' = [req EXCEPT ![c].at = "flushes", ![c].sid = sl.sid]
  /\ UNCHANGED <<table, whole, calls>>

\* The flush, outside the mutex: a session that has been closed meanwhile
\* refuses it.
ForkFlushes(c) ==
  /\ req[c].at = "flushes"
  /\ IF sess[req[c].sid] \in {"closed", "gone"} THEN Answers(c, "closed")
     ELSE \/ Moves(c, "runs")
          \/ sess[req[c].sid] = "closing" /\ Answers(c, "closed")
  /\ UNCHANGED <<table, whole, calls>>

Ran(c) ==
  /\ req[c].at = "runs" /\ Answers(c, "ok")
  /\ UNCHANGED <<table, whole, calls>>

\* A lease nobody renews any more lapses.
LeaseLapses(k) ==
  /\ lease[k] # Nobody /\ sess[lease[k]] = "gone" /\ lease' = [lease EXCEPT ![k] = Nobody]
  /\ UNCHANGED <<slot, sess, keyOf, failed, orphaned, next, log, req, calls, whole>>

-----------------------------------------------------------------------------
(* The janitor and Shutdown. *)

StartJanitor ==
  /\ janitor = "off" /\ ~closing /\ janitor' = "idle"
  /\ UNCHANGED <<table, req, calls, closing, inflight, sd>>

JanitorTick ==
  /\ \/ janitor = "idle" /\ janitor' = "pass"
     \/ janitor = "pass" /\ janitor' = "idle"
     \/ janitor = "idle" /\ sd.at # "no" /\ janitor' = "off"
  /\ UNCHANGED <<table, req, calls, closing, inflight, sd>>

Shutdown ==
  /\ Shutdowns /\ ~closing /\ closing' = TRUE /\ sd' = [sd EXCEPT !.at = "janitor"]
  /\ UNCHANGED <<table, req, calls, inflight, janitor>>

\* The janitor gets half of the budget, and is reported when it needs more.
ShutdownJanitor ==
  /\ sd.at = "janitor"
  /\ sd' = [sd EXCEPT !.at = "opens", !.result = IF janitor = "off" THEN "ok" ELSE "janitor"]
  /\ UNCHANGED <<table, req, calls, closing, inflight, janitor>>

\* A bug: closes that were under way are not waited for.
ShutdownMarksOwn ==
  LET open == {k \in Keys : slot[k].state = "open"} IN
  /\ sd.at = "opens" /\ inflight = {} /\ Marked(open)
  /\ sd' = [sd EXCEPT !.at = "closes", !.waits = {slot[k].sid : k \in open}]
  /\ UNCHANGED <<keyOf, failed, lease, orphaned, next, log, req, calls, closing, inflight, janitor>>

\* Every open in flight is over: what is open is marked, and all that is
\* closing is waited for, whoever closes it.
ShutdownMarks ==
  LET open == {k \in Keys : slot[k].state = "open"}
      shut == {k \in Keys : slot[k].state = "closing"} IN
  /\ sd.at = "opens" /\ inflight = {} /\ Marked(open)
  /\ sd' = [sd EXCEPT !.at = "closes", !.waits = {slot[k].sid : k \in open \cup shut}]
  /\ UNCHANGED <<keyOf, failed, lease, orphaned, next, log, req, calls, closing, inflight, janitor>>

ShutdownReturns ==
  /\ sd.at = "closes" /\ \A s \in sd.waits : sess[s] = "gone"
  /\ sd' = [sd EXCEPT !.at = "returned",
                      !.result = IF @ = "ok" /\ sd.waits \cap failed # {} THEN "release failed" ELSE @]
  /\ UNCHANGED <<table, req, calls, closing, inflight, janitor>>

\* The context ends first.
ShutdownTimesOut ==
  /\ sd.at \in {"opens", "closes"} /\ sd' = [sd EXCEPT !.at = "returned", !.result = "timed out"]
  /\ UNCHANGED <<table, req, calls, closing, inflight, janitor>>

-----------------------------------------------------------------------------
Step(c) ==
  \/ OpenEnter(c) \/ OpenWaited(c) \/ SessionOpens(c) \/ SessionRefused(c)
  \/ (\E released \in BOOLEAN : SessionOpenFails(c, released)) \/ OpenRefused(c) \/ OpenEnds(c)
  \/ (\E ok \in BOOLEAN : SelfClose(c, ok)) \/ SelfClosed(c)
  \/ CloseEnter(c) \/ CloseAnswers(c) \/ AtRest(c) \/ ForkEnter(c) \/ ForkFlushes(c) \/ Ran(c)
  \/ Answered(c)

Closer(s) == (\E ok \in BOOLEAN : SessionCloses(s, ok)) \/ CloseEnds(s)

Stopping == ShutdownJanitor \/ ShutdownMarks \/ ShutdownReturns

Next ==
  \/ \E c \in Clients : Step(c) \/ WaitTimesOut(c)
                        \/ \E op \in {"open", "close", "atrest", "fork"}, k \in Keys, want \in 0..MaxSessions :
                             Call(c, op, k, want)
  \/ \E s \in Sessions : Closer(s)
  \/ \E k \in Keys : LeaseLapses(k)
  \/ StartJanitor \/ JanitorTick \/ Shutdown \/ Stopping \/ ShutdownTimesOut

Spec == Init /\ [][Next]_vars

\* Store calls return, so every request, close and Shutdown goes on.
FairSpec ==
  /\ Spec /\ \A c \in Clients : WF_vars(Step(c))
  /\ \A s \in Sessions : WF_vars(Closer(s))
  /\ \A k \in Keys : WF_vars(LeaseLapses(k))
  /\ WF_vars(Stopping)

-----------------------------------------------------------------------------
(* Properties. *)

\* What each variable holds, and that an open slot's session is live.
TypeOK ==
  /\ \A k \in Keys : slot[k].state \in {"free", "reserved", "open", "closing"}
  /\ \A k \in Keys : slot[k].state = "open" => sess[slot[k].sid] = "live" /\ keyOf[slot[k].sid] = k
  /\ \A k \in Keys : slot[k].state = "closing" => sess[slot[k].sid] \in {"closing", "closed"}
  /\ \A k \in Keys : lease[k] \in 0..MaxSessions /\ orphaned[k] \in 0..MaxSessions
  /\ inflight = {c \in Clients : req[c].at \in {"opening", "opened", "refused", "selfclose"}}

\* An open never fails on the lease of a session this daemon still runs or is
\* closing: it waits for the close instead.
OpensAlone == \A c \in Clients : req[c].at = "opening" => ~Live(lease[req[c].key])

\* A branch has one session here at a time, and its slot is claimed until the
\* session is over, but for the close of an open that met Shutdown.
Claimed ==
  \A s, t \in Sessions :
    Live(s) => /\ Live(t) /\ keyOf[s] = keyOf[t] => s = t
               /\ sess[s] # "selfclosing" => slot[keyOf[s]] # Free

\* A close that names a session ends that one, and a close that answers ok,
\* the first or a repeated one, has released the lease.
CloseTrue ==
  \A c \in Clients :
    /\ req[c].at = "closes" => req[c].want \in {Nobody, req[c].sid}
    /\ req[c].op = "close" /\ req[c].at = "answered" /\ req[c].answer = "ok" =>
         sess[req[c].sid] = "gone" /\ lease[req[c].key] # req[c].sid

\* A branch's events alternate, each close after its own open and before the
\* next one.
EventsInOrder ==
  \A k \in Keys : \A i \in DOMAIN log[k] :
    IF i % 2 = 1 THEN log[k][i][1] = "opened" ELSE log[k][i] = <<"closed", log[k][i - 1][2]>>

\* A lease a session of this daemon has left behind is known as its own, and
\* nothing else is.
OrphansKnown ==
  \A k \in Keys :
    /\ orphaned[k] # Nobody => sess[orphaned[k]] = "gone"
    /\ ~closing /\ slot[k] = Free /\ lease[k] # Nobody => orphaned[k] = lease[k]

\* When Shutdown returns without an error no session is left, no lease is
\* held but by one that failed to release it earlier, and no janitor runs.
ShutdownClean ==
  sd.at = "returned" /\ sd.result = "ok" =>
    /\ \A s \in Sessions : ~Live(s) /\ sess[s] # "closed"
    /\ \A k \in Keys : lease[k] = Nobody \/ lease[k] \in failed
    /\ janitor = "off"

\* An operation at rest starts on a branch only when no session of this
\* daemon is on it, but for one whose open met Shutdown and is closing it.
AtRestAlone ==
  \A c \in Clients : req[c].op = "atrest" /\ req[c].at = "runs" /\ req[c].sid # Nobody =>
                       closing /\ sess[req[c].sid] \in {"selfclosing", "closed", "gone"}

\* What a client may rely on: an open meets no lease of a session of this
\* daemon, a close is what it says, a branch's events alternate, a lease left
\* behind is known, and an operation at rest is alone.
SessionsTrue == OpensAlone /\ CloseTrue /\ EventsInOrder /\ OrphansKnown /\ AtRestAlone

\* Every request is answered, and a Shutdown that has begun returns.
EveryCallEnds ==
  /\ \A c \in Clients : req[c].at = "enter" ~> req[c].at = "idle"
  /\ closing ~> sd.at = "returned"
=============================================================================
