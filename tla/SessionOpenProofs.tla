-------------------------- MODULE SessionOpenProofs --------------------------
(***************************************************************************)
(* The inductive invariant of the daemon's table, TableInv, and that the    *)
(* requests which only move on, and those which open a session, keep it.    *)
(***************************************************************************)
EXTENDS SessionTable, TLAPS

(* Zenon proves what no step says otherwise of.                             *)
USE Zenon

-----------------------------------------------------------------------------
(* The inductive invariant. *)

\* A session that is not over: its closed event is still to come.
Active(s) == sess[s] \in {"live", "closing", "selfclosing", "closed"}

\* The open holds a reservation, or closes the session it made.
Opening(c) == req[c].at \in {"opening", "opened", "refused", "selfclose"}

Replies ==
  {"none", "ok", "already open", "shutting down", "still closing", "refused", "an earlier session's",
   "not open", "release failed", "claimed", "closed"}

Requests ==
  [op: {"none", "open", "close", "atrest", "fork"}, key: Keys \cup {"none"}, want: 0..MaxSessions,
   at: {"idle", "enter", "opening", "opened", "refused", "selfclose", "wait", "closes", "runs", "flushes",
        "answered"},
   sid: 0..MaxSessions, answer: Replies]

Slots == [state: {"free", "reserved", "open", "closing"}, sid: 0..MaxSessions]

Entries == {"opened", "closed"} \X Sessions

Types ==
  /\ slot \in [Keys -> Slots]
  /\ sess \in [Sessions -> {"none", "live", "closing", "selfclosing", "closed", "gone"}]
  /\ keyOf \in [Sessions -> Keys \cup {"none"}] /\ failed \subseteq Sessions
  /\ lease \in [Keys -> 0..MaxSessions] /\ orphaned \in [Keys -> 0..MaxSessions]
  /\ next \in 1..(MaxSessions + 1)
  /\ log \in [Keys -> Seq(Entries)]
  /\ req \in [Clients -> Requests]
  /\ closing \in BOOLEAN
  /\ sd \in [at: {"no", "janitor", "opens", "closes", "returned"}, waits: SUBSET Sessions,
             result: {"none", "ok", "janitor", "timed out", "release failed"}]
  /\ janitor \in {"off", "idle", "pass"}

\* Where a request is tells what it holds: an open its branch's reservation,
\* until it has entered, refused or begun to close the session it made.
ReqOK(c) ==
  LET r == req[c] k == r.key s == r.sid IN
  /\ r.at # "idle" => k \in Keys
  /\ Opening(c) => r.op = "open"
  /\ r.at \in {"opening", "opened", "refused"} => slot[k] = Slot("reserved", Nobody)
  /\ r.at \in {"enter", "opening"} => s = Nobody
  /\ r.at = "opening" => lease[k] \in {Nobody, orphaned[k]}
  /\ r.at = "opened" => s \in Sessions /\ sess[s] = "live" /\ keyOf[s] = k
  /\ r.at = "refused" =>
       IF s = Nobody THEN lease[k] \in {Nobody, orphaned[k]}
       ELSE sess[s] = "gone" /\ keyOf[s] = k /\ lease[k] \in {Nobody, s}
  /\ r.at = "selfclose" =>
       /\ closing /\ slot[k] = Free /\ s \in Sessions
       /\ sess[s] \in {"selfclosing", "closed"} /\ keyOf[s] = k
  /\ r.at \in {"wait", "closes"} =>
       s \in Sessions /\ sess[s] \in {"closing", "closed", "gone"} /\ keyOf[s] = k
  /\ r.at = "closes" => r.op = "close" /\ r.want \in {Nobody, s}
  /\ r.at = "runs" => r.op \in {"atrest", "fork"}
  /\ r.at = "flushes" => r.op = "fork" /\ s \in Sessions
  /\ r.op = "close" /\ r.at = "answered" /\ r.answer = "ok" =>
       s \in Sessions /\ sess[s] = "gone" /\ s \notin failed
  /\ r.op = "atrest" /\ r.at = "runs" /\ s # Nobody =>
       closing /\ sess[s] \in {"selfclosing", "closed", "gone"}

ReqInv ==
  /\ \A c \in Clients : ReqOK(c)
  /\ \A c, d \in Clients : Opening(c) /\ Opening(d) /\ req[c].key = req[d].key => c = d
  /\ inflight = {c \in Clients : Opening(c)}

\* A slot and its session name each other, and a lease is its branch's session's.
SlotOK(k) ==
  /\ slot[k].state \in {"free", "reserved"} => slot[k].sid = Nobody
  /\ slot[k].state = "reserved" => \E c \in Clients : Opening(c) /\ req[c].key = k
  /\ slot[k].state = "open" => slot[k].sid \in Sessions /\ sess[slot[k].sid] = "live" /\ keyOf[slot[k].sid] = k
  /\ slot[k].state = "closing" =>
       slot[k].sid \in Sessions /\ sess[slot[k].sid] \in {"closing", "closed"} /\ keyOf[slot[k].sid] = k
  /\ lease[k] # Nobody => keyOf[lease[k]] = k /\ sess[lease[k]] # "none"
  /\ orphaned[k] # Nobody => sess[orphaned[k]] = "gone" /\ keyOf[orphaned[k]] = k
  /\ ~closing /\ slot[k] = Free => lease[k] \in {Nobody, orphaned[k]}

\* A session holds its branch's lease until its Close has returned, and the
\* slot, or the open that made it, until it is over.
SessOK(s) ==
  /\ sess[s] = "none" <=> s >= next
  /\ sess[s] # "none" => keyOf[s] \in Keys
  /\ Live(s) => lease[keyOf[s]] = s
  /\ sess[s] = "live" => \/ slot[keyOf[s]] = Slot("open", s)
                         \/ \E c \in Clients : req[c].at = "opened" /\ req[c].sid = s
  /\ sess[s] = "closing" => slot[keyOf[s]] = Slot("closing", s)
  /\ sess[s] = "selfclosing" => \E c \in Clients : req[c].at = "selfclose" /\ req[c].sid = s
  /\ sess[s] = "closed" => \/ slot[keyOf[s]] = Slot("closing", s)
                           \/ \E c \in Clients : req[c].at = "selfclose" /\ req[c].sid = s
  /\ sess[s] = "closed" => lease[keyOf[s]] \in {Nobody, s}
  /\ sess[s] \in {"closed", "gone"} /\ (\E k \in Keys : lease[k] = s) => s \in failed
  /\ s \in failed => sess[s] \in {"closed", "gone"}

\* The last event of a branch is the opened one of its session, if it has one.
LogOK(k) ==
  /\ \A s \in Sessions : Active(s) /\ keyOf[s] = k =>
       Len(log[k]) % 2 = 1 /\ log[k][Len(log[k])] = <<"opened", s>>
  /\ Len(log[k]) % 2 = 1 => \E s \in Sessions : Active(s) /\ keyOf[s] = k

\* From its marking on, Shutdown waits for every session there is.
ShutInv ==
  /\ closing <=> sd.at # "no"
  /\ sd.at \in {"no", "janitor"} => sd.result = "none"
  /\ sd.at # "no" /\ sd.result = "ok" => janitor = "off"
  /\ sd.at = "closes" => inflight = {} /\ \A s \in Sessions : Active(s) => s \in sd.waits
  /\ sd.at = "returned" /\ sd.result = "ok" => inflight = {} /\ \A s \in Sessions : ~Active(s)

TableInv ==
  /\ Types /\ ReqInv /\ (\A k \in Keys : SlotOK(k)) /\ (\A s \in Sessions : SessOK(s))
  /\ EventsInOrder /\ (\A k \in Keys : LogOK(k)) /\ ShutInv

-----------------------------------------------------------------------------
(* Initial states, and steps that change one request alone. *)

USE TableAssumption DEF Sessions, Nobody, Free, Slot

LEMMA SlotsBuilt ==
  /\ Nobody \in 0..MaxSessions /\ Slot("reserved", Nobody) \in Slots /\ Free \in Slots
  /\ \A s \in Sessions : Slot("open", s) \in Slots /\ Slot("closing", s) \in Slots /\ s \in 0..MaxSessions
BY SMT DEF Slots

LEMMA InitHolds == Init => TableInv
<1> SUFFICES ASSUME Init PROVE TableInv
  OBVIOUS
<1> USE DEF Init, Idle
<1>1. Types
  <2>1. Idle \in Requests
    BY SMT DEF Requests, Replies
  <2>2. req \in [Clients -> Requests]
    BY <2>1
  <2>3. log \in [Keys -> Seq(Entries)]
    BY SMT
  <2>4. slot \in [Keys -> Slots]
    BY SMT DEF Slots
  <2>5. sess \in [Sessions -> {"none", "live", "closing", "selfclosing", "closed", "gone"}]
    OBVIOUS
  <2>6. keyOf \in [Sessions -> Keys \cup {"none"}]
    OBVIOUS
  <2>7. sd \in [at: {"no", "janitor", "opens", "closes", "returned"}, waits: SUBSET Sessions,
                result: {"none", "ok", "janitor", "timed out", "release failed"}]
    OBVIOUS
  <2>8. next \in 1..(MaxSessions + 1) /\ lease \in [Keys -> 0..MaxSessions] /\ orphaned \in [Keys -> 0..MaxSessions]
    BY SMT
  <2> QED
    BY <2>2, <2>3, <2>4, <2>5, <2>6, <2>7, <2>8 DEF Types
<1>2. ReqInv
  BY DEF ReqInv, ReqOK, Opening
<1>3. \A k \in Keys : SlotOK(k)
  BY DEF SlotOK
<1>4. \A s \in Sessions : SessOK(s)
  BY SMT DEF SessOK, Live
<1>5. EventsInOrder /\ \A k \in Keys : LogOK(k)
  BY SMT DEF EventsInOrder, LogOK, Active
<1>6. ShutInv
  BY DEF ShutInv
<1> QED
  BY <1>1, <1>2, <1>3, <1>4, <1>5, <1>6 DEF TableInv

\* A step that begins and ends no session leaves the events in order.
LEMMA LogKept ==
  ASSUME TableInv, UNCHANGED <<log, keyOf>>, \A s \in Sessions : Active(s)' <=> Active(s)
  PROVE EventsInOrder' /\ \A k \in Keys : LogOK(k)'
<1>1. EventsInOrder'
  BY DEF TableInv, EventsInOrder
<1>2. ASSUME NEW k \in Keys PROVE LogOK(k)'
  <2>1. LogOK(k) /\ log' = log /\ keyOf' = keyOf
    BY DEF TableInv
  <2> HIDE DEF Sessions
  <2> QED
    BY <2>1 DEF LogOK
<1> QED
  BY <1>1, <1>2

\* What an update of a request leaves.
LEMMA Updated ==
  ASSUME req \in [Clients -> Requests], NEW c \in Clients,
         NEW at \in {"opened", "refused", "closes"}, NEW sid \in 0..MaxSessions,
         req' = [req EXCEPT ![c].at = at, ![c].sid = sid]
  PROVE /\ req' \in [Clients -> Requests] /\ \A d \in Clients : d # c => req'[d] = req[d]
        /\ req'[c].at = at /\ req'[c].sid = sid
        /\ req'[c].op = req[c].op /\ req'[c].key = req[c].key /\ req'[c].want = req[c].want
<1> DEFINE r == [req[c] EXCEPT !.at = at, !.sid = sid]
<1>1. r \in Requests /\ r.at = at /\ r.key = req[c].key /\ r.op = req[c].op /\ r.sid = sid /\ r.want = req[c].want
  BY DEF Requests
<1>2. req' = [req EXCEPT ![c] = r]
  OBVIOUS
<1> HIDE DEF r
<1> QED
  BY <1>1, <1>2

\* A request that moves on without opening or ceasing to open.
LEMMA RequestStep ==
  ASSUME TableInv, NEW c \in Clients, NEW r \in Requests, req' = [req EXCEPT ![c] = r],
         UNCHANGED <<table, whole>>,
         Opening(c) <=> r.at \in {"opening", "opened", "refused", "selfclose"},
         Opening(c) => r.key = req[c].key,
         req[c].at \in {"opened", "selfclose"} => r.at = req[c].at /\ r.sid = req[c].sid,
         ReqOK(c)'
  PROVE TableInv'
<1> USE DEF table, whole
<1>0. Types /\ ReqInv /\ (\A k \in Keys : SlotOK(k)) /\ (\A s \in Sessions : SessOK(s))
  BY DEF TableInv
<1>1. Types'
  BY <1>0 DEF Types
<1>2. req \in [Clients -> Requests] /\ req'[c] = r /\ \A d \in Clients : d # c => req'[d] = req[d]
  BY <1>0 DEF Types
<1>3. \A d \in Clients : Opening(d)' <=> Opening(d)
  BY <1>2 DEF Opening
<1>4. ReqInv'
  <2>1. \A d \in Clients : ReqOK(d)'
    BY SMT, <1>0, <1>2, <1>3 DEF ReqInv, ReqOK, Opening
  <2>2. \A d \in Clients : Opening(d) => req'[d].key = req[d].key
    BY <1>2
  <2>3. \A d, e \in Clients : Opening(d)' /\ Opening(e)' /\ req'[d].key = req'[e].key => d = e
    BY <1>0, <1>3, <2>2 DEF ReqInv
  <2> QED
    BY <1>0, <1>3, <2>1, <2>3 DEF ReqInv
<1>5. \A k \in Keys : SlotOK(k)'
  BY SMT, <1>0, <1>2, <1>3 DEF SlotOK
<1>6. \A s \in Sessions : SessOK(s)'
  <2>1. \A d \in Clients : req[d].at \in {"opened", "selfclose"} => req'[d].at = req[d].at /\ req'[d].sid = req[d].sid
    BY <1>2
  <2> SUFFICES ASSUME NEW s \in Sessions PROVE SessOK(s)'
    OBVIOUS
  <2>2. SessOK(s)
    BY <1>0
  <2>3. sess[s] = "live" => (slot[keyOf[s]] = Slot("open", s) \/ \E d \in Clients : req'[d].at = "opened" /\ req'[d].sid = s)
    BY <2>1, <2>2 DEF SessOK
  <2>4. (\E d \in Clients : req[d].at = "selfclose" /\ req[d].sid = s) => (\E d \in Clients : req'[d].at = "selfclose" /\ req'[d].sid = s)
    BY <2>1
  <2> QED
    BY <2>2, <2>3, <2>4 DEF SessOK, Live
<1>7. EventsInOrder' /\ (\A k \in Keys : LogOK(k)')
  BY LogKept DEF Active
<1>8. ShutInv'
  BY DEF TableInv, ShutInv, Active
<1> QED
  BY <1>1, <1>4, <1>5, <1>6, <1>7, <1>8 DEF TableInv

\* A request that opens nothing is answered.
LEMMA AnswerStep ==
  ASSUME TableInv, NEW c \in Clients, NEW a \in Replies, Answers(c, a), UNCHANGED <<table, whole>>,
         ~Opening(c), req[c].at # "idle",
         req[c].op = "close" /\ a = "ok" =>
           req[c].sid \in Sessions /\ sess[req[c].sid] = "gone" /\ req[c].sid \notin failed
  PROVE TableInv'
<1> DEFINE r == [req[c] EXCEPT !.at = "answered", !.answer = a]
<1>1. req \in [Clients -> Requests] /\ ReqOK(c)
  BY DEF TableInv, Types, ReqInv
<1>2. r \in Requests /\ req' = [req EXCEPT ![c] = r] /\ r.at = "answered" /\ r.answer = a
      /\ r.op = req[c].op /\ r.key = req[c].key /\ r.sid = req[c].sid
  BY <1>1 DEF Answers, Requests
<1>3. ReqOK(c)'
  BY SMT, <1>1, <1>2 DEF ReqOK, Opening, table, whole
<1> HIDE DEF r
<1> QED
  BY <1>2, <1>3, RequestStep DEF Opening

LEMMA CallStep ==
  ASSUME TableInv, NEW c \in Clients, NEW op \in {"open", "close", "atrest", "fork"}, NEW k \in Keys,
         NEW want \in 0..MaxSessions, Call(c, op, k, want)
  PROVE TableInv'
<1> DEFINE r == [op |-> op, key |-> k, want |-> want, at |-> "enter", sid |-> Nobody, answer |-> "none"]
<1>1. req \in [Clients -> Requests] /\ ReqOK(c)
  BY DEF TableInv, Types, ReqInv
<1>2. r \in Requests /\ req' = [req EXCEPT ![c] = r] /\ r.at = "enter" /\ r.key = k
  BY SMT DEF Call, Requests, Replies
<1>3. req'[c] = r
  BY <1>1, <1>2
<1>4. ReqOK(c)'
  BY SMT, <1>2, <1>3 DEF ReqOK, Opening
<1>5. UNCHANGED <<table, whole>> /\ ~Opening(c) /\ req[c].at = "idle"
  BY DEF Call, Opening
<1> HIDE DEF r
<1> QED
  BY <1>2, <1>4, <1>5, RequestStep

LEMMA AnsweredStep ==
  ASSUME TableInv, NEW c \in Clients, Answered(c)
  PROVE TableInv'
<1>1. req \in [Clients -> Requests]
  BY DEF TableInv, Types
<1>2. Idle \in Requests /\ req' = [req EXCEPT ![c] = Idle] /\ Idle.at = "idle" /\ Idle.op = "none"
  BY SMT DEF Answered, Idle, Requests, Replies
<1>3. req'[c] = Idle
  BY <1>1, <1>2
<1>4. ReqOK(c)'
  BY <1>2, <1>3 DEF ReqOK, Opening
<1>5. UNCHANGED <<table, whole>> /\ ~Opening(c) /\ req[c].at = "answered"
  BY DEF Answered, Opening
<1> QED
  BY <1>2, <1>4, <1>5, RequestStep

\* A request that opens nothing looks at the table again, waits, flushes or
\* runs, about the session sid.
LEMMA MoveStep ==
  ASSUME TableInv, NEW c \in Clients, NEW at \in {"enter", "wait", "closes", "flushes", "runs"}, NEW sid \in 0..MaxSessions,
         req' = [req EXCEPT ![c].at = at, ![c].sid = sid], UNCHANGED <<table, whole>>,
         ~Opening(c), req[c].at # "idle",
         at = "enter" => sid = Nobody,
         at \in {"wait", "closes"} =>
           sid \in Sessions /\ sess[sid] \in {"closing", "closed", "gone"} /\ keyOf[sid] = req[c].key,
         at = "closes" => req[c].op = "close" /\ req[c].want \in {Nobody, sid},
         at \in {"flushes", "runs"} => req[c].op = "fork",
         at = "flushes" => sid \in Sessions
  PROVE TableInv'
<1> DEFINE r == [req[c] EXCEPT !.at = at, !.sid = sid]
<1>1. req \in [Clients -> Requests] /\ ReqOK(c)
  BY DEF TableInv, Types, ReqInv
<1>2. r \in Requests /\ r.at = at /\ r.key = req[c].key /\ r.op = req[c].op /\ r.sid = sid /\ r.want = req[c].want
  BY <1>1 DEF Requests
<1>3. req' = [req EXCEPT ![c] = r]
  OBVIOUS
<1>4. req'[c] = r
  BY <1>1, <1>3
<1> HIDE DEF r
<1>5. ReqOK(c)'
  BY <1>1, <1>2, <1>4 DEF ReqOK, Opening, table, whole
<1> QED
  BY <1>2, <1>3, <1>5, RequestStep DEF Opening

LEMMA OpenWaitedStep ==
  ASSUME TableInv, NEW c \in Clients, OpenWaited(c)
  PROVE TableInv'
<1>1. UNCHANGED <<table, whole>> /\ ~Opening(c) /\ req[c].at = "wait" /\ Nobody \in 0..MaxSessions
      /\ req' = [req EXCEPT ![c].at = "enter", ![c].sid = Nobody]
  BY SMT DEF OpenWaited, Opening
<1> QED
  BY <1>1, MoveStep

LEMMA WaitTimesOutStep ==
  ASSUME TableInv, NEW c \in Clients, WaitTimesOut(c)
  PROVE TableInv'
<1>1. Answers(c, "still closing") /\ "still closing" \in Replies /\ UNCHANGED <<table, whole>>
      /\ req[c].at = "wait" /\ ~Opening(c)
  BY DEF WaitTimesOut, Replies, Opening
<1> QED
  BY <1>1, AnswerStep


LEMMA SessionRefusedStep ==
  ASSUME TableInv, NEW c \in Clients, SessionRefused(c)
  PROVE TableInv'
<1> DEFINE r == [req[c] EXCEPT !.at = "refused"]
<1>1. req \in [Clients -> Requests] /\ ReqOK(c)
  BY DEF TableInv, Types, ReqInv
<1>2. r \in Requests /\ req' = [req EXCEPT ![c] = r] /\ r.at = "refused" /\ r.key = req[c].key
      /\ r.sid = req[c].sid /\ r.op = req[c].op
  BY <1>1 DEF SessionRefused, Moves, Requests
<1>3. req'[c] = r
  BY <1>1, <1>2
<1>4. UNCHANGED <<table, whole>> /\ Opening(c) /\ req[c].at = "opening"
  BY DEF SessionRefused, Opening
<1>5. ReqOK(c)'
  BY <1>1, <1>2, <1>3, <1>4 DEF ReqOK, Opening, table, whole
<1> HIDE DEF r
<1> QED
  BY <1>2, <1>4, <1>5, RequestStep

LEMMA CloseAnswersStep ==
  ASSUME TableInv, NEW c \in Clients, CloseAnswers(c)
  PROVE TableInv'
<1>1. ReqOK(c)
  BY DEF TableInv, ReqInv
<1>2. UNCHANGED <<table, whole>> /\ req[c].at \in {"closes", "wait"} /\ ~Opening(c) /\ req[c].sid \in Sessions
      /\ sess[req[c].sid] = "gone"
  BY <1>1 DEF CloseAnswers, ReqOK, Opening
<1>3. CASE req[c].sid \in failed
  BY <1>2, <1>3, AnswerStep DEF CloseAnswers, Replies
<1>4. CASE req[c].sid \notin failed
  BY <1>2, <1>4, AnswerStep DEF CloseAnswers, Replies
<1> QED
  BY <1>3, <1>4

LEMMA RanStep ==
  ASSUME TableInv, NEW c \in Clients, Ran(c)
  PROVE TableInv'
<1>1. ReqOK(c)
  BY DEF TableInv, ReqInv
<1>2. UNCHANGED <<table, whole>> /\ req[c].at = "runs" /\ ~Opening(c) /\ Answers(c, "ok") /\ "ok" \in Replies
      /\ req[c].op # "close"
  BY <1>1 DEF Ran, Opening, Replies, ReqOK
<1> QED
  BY <1>2, AnswerStep

\* A live session on a branch whose slot is free is one whose open met Shutdown.
LEMMA FreeIsLeft ==
  ASSUME TableInv, NEW s \in Sessions, Live(s), slot[keyOf[s]] = Free
  PROVE closing /\ sess[s] = "selfclosing"
<1>1. SessOK(s) /\ \A c \in Clients : ReqOK(c)
  BY DEF TableInv, ReqInv
<1>2. \A c \in Clients : req[c].at = "opened" /\ req[c].sid = s => slot[keyOf[s]].state = "reserved"
  BY SMT, <1>1 DEF ReqOK
<1>3. \A c \in Clients : req[c].at = "selfclose" /\ req[c].sid = s => closing
  BY <1>1 DEF ReqOK
<1> QED
  BY SMT, <1>1, <1>2, <1>3 DEF SessOK, Live

LEMMA AtRestStep ==
  ASSUME TableInv, NEW c \in Clients, AtRest(c)
  PROVE TableInv'
<1>1. req \in [Clients -> Requests] /\ ReqOK(c) /\ sess \in [Sessions -> {"none", "live", "closing", "selfclosing", "closed", "gone"}]
  BY DEF TableInv, Types, ReqInv
<1>2. UNCHANGED <<table, whole>> /\ req[c].at = "enter" /\ req[c].op = "atrest" /\ ~Opening(c)
  BY DEF AtRest, Opening
<1>3. CASE slot[req[c].key] # Free
  BY <1>2, <1>3, AnswerStep DEF AtRest, Replies
<1>4. CASE slot[req[c].key] = Free
  <2> DEFINE there == {s \in Sessions : keyOf[s] = req[c].key /\ Live(s)}
             sid == IF there = {} THEN Nobody ELSE CHOOSE s \in there : TRUE
             r == [req[c] EXCEPT !.at = "runs", !.sid = sid]
  <2>1. sid \in 0..MaxSessions /\ (sid # Nobody => sid \in there)
    <3>1. there # {} => (CHOOSE s \in there : TRUE) \in there
      OBVIOUS
    <3> QED
      BY SMT, <3>1
  <2>2. sid # Nobody => closing /\ sess[sid] = "selfclosing"
    BY <1>4, <2>1, FreeIsLeft
  <2>3. req' = [req EXCEPT ![c] = r]
    BY <1>2, <1>4 DEF AtRest, Runs
  <2> HIDE DEF sid
  <2>4. r \in Requests /\ r.at = "runs" /\ r.key = req[c].key /\ r.op = "atrest" /\ r.sid = sid
    BY <1>1, <1>2, <2>1 DEF Requests
  <2>5. req'[c] = r
    BY <1>1, <2>3
  <2> HIDE DEF r
  <2>6. ReqOK(c)'
    BY <1>1, <1>2, <2>2, <2>4, <2>5 DEF ReqOK, Opening, table, whole
  <2> QED
    BY <1>2, <2>3, <2>4, <2>6, RequestStep
<1> QED
  BY <1>3, <1>4

\* A fork that goes on to run keeps its session.
LEMMA MovesOnly ==
  ASSUME req \in [Clients -> Requests], NEW c \in Clients, Moves(c, "runs")
  PROVE req' = [req EXCEPT ![c].at = "runs", ![c].sid = req[c].sid]
<1> DEFINE q == [req[c] EXCEPT !.at = "runs"]
<1>1. q.sid = req[c].sid /\ q = [q EXCEPT !.sid = q.sid]
  BY DEF Requests
<1>2. req' = [req EXCEPT ![c] = q]
  BY DEF Moves
<1>3. [req EXCEPT ![c].at = "runs", ![c].sid = req[c].sid] = [req EXCEPT ![c] = [q EXCEPT !.sid = req[c].sid]]
  OBVIOUS
<1> QED
  BY <1>1, <1>2, <1>3

LEMMA ForkEnterStep ==
  ASSUME TableInv, NEW c \in Clients, ForkEnter(c)
  PROVE TableInv'
<1> DEFINE k == req[c].key
<1>1. req \in [Clients -> Requests] /\ ReqOK(c) /\ k \in Keys /\ SlotOK(k)
  <2>1. req \in [Clients -> Requests] /\ ReqOK(c)
    BY DEF TableInv, Types, ReqInv
  <2>2. k \in Keys
    BY <2>1 DEF ForkEnter, ReqOK
  <2> QED
    BY <2>1, <2>2 DEF TableInv
<1>2. UNCHANGED <<table, whole>> /\ req[c].at = "enter" /\ req[c].op = "fork" /\ ~Opening(c)
  BY DEF ForkEnter, Opening
<1>3. CASE slot[k] = Free /\ Moves(c, "runs")
  <2>1. req[c].sid = Nobody
    BY <1>1, <1>2 DEF ReqOK
  <2>2. req' = [req EXCEPT ![c].at = "runs", ![c].sid = req[c].sid]
    BY <1>1, <1>3, MovesOnly
  <2>3. req[c].sid \in 0..MaxSessions
    BY <1>1 DEF Requests
  <2> QED
    BY <1>2, <2>2, <2>3, MoveStep
<1>4. CASE Answers(c, "claimed")
  BY <1>2, <1>4, AnswerStep DEF Replies
<1>5. CASE slot[k].state = "open" /\ req' = [req EXCEPT ![c].at = "flushes", ![c].sid = slot[k].sid]
  <2>1. slot[k].sid \in Sessions /\ slot[k].sid \in 0..MaxSessions
    BY SMT, <1>1, <1>5 DEF SlotOK
  <2> HIDE DEF k
  <2> QED
    BY <1>2, <1>5, <2>1, MoveStep
<1> QED
  BY <1>3, <1>4, <1>5 DEF ForkEnter

LEMMA ForkFlushesStep ==
  ASSUME TableInv, NEW c \in Clients, ForkFlushes(c)
  PROVE TableInv'
<1>1. req \in [Clients -> Requests] /\ ReqOK(c)
  BY DEF TableInv, Types, ReqInv
<1>2. UNCHANGED <<table, whole>> /\ req[c].at = "flushes" /\ req[c].op = "fork" /\ ~Opening(c)
      /\ req[c].sid \in Sessions /\ req[c].sid \in 0..MaxSessions
  BY SMT, <1>1 DEF ForkFlushes, Opening, ReqOK
<1>3. CASE Moves(c, "runs")
  <2>1. req' = [req EXCEPT ![c].at = "runs", ![c].sid = req[c].sid]
    BY <1>1, <1>3, MovesOnly
  <2> QED
    BY <1>2, <2>1, MoveStep
<1>4. CASE Answers(c, "closed")
  BY <1>2, <1>4, AnswerStep DEF Replies
<1> QED
  BY <1>3, <1>4 DEF ForkFlushes

-----------------------------------------------------------------------------
(* Events. *)

Alternates(l) ==
  \A i \in DOMAIN l : IF i % 2 = 1 THEN l[i][1] = "opened" ELSE l[i] = <<"closed", l[i - 1][2]>>

LEMMA AppendFacts ==
  ASSUME NEW l \in Seq(Entries), NEW e \in Entries
  PROVE /\ Append(l, e) \in Seq(Entries) /\ Len(Append(l, e)) = Len(l) + 1 /\ Len(l) \in Nat
        /\ DOMAIN l = 1..Len(l) /\ DOMAIN Append(l, e) = 1..(Len(l) + 1)
        /\ Append(l, e)[Len(l) + 1] = e /\ \A i \in 1..Len(l) : Append(l, e)[i] = l[i]
<1> HIDE DEF Entries
<1> QED
  BY SMT

LEMMA NextOdd ==
  ASSUME NEW n \in Nat
  PROVE n % 2 \in {0, 1} /\ (n % 2 = 0 <=> (n + 1) % 2 = 1) /\ (n % 2 = 1 <=> (n + 1) % 2 = 0)
BY SMT

LEMMA AppendOpened ==
  ASSUME NEW l \in Seq(Entries), NEW s \in Sessions, Alternates(l), Len(l) % 2 = 0
  PROVE Alternates(Append(l, <<"opened", s>>)) /\ Len(Append(l, <<"opened", s>>)) % 2 = 1
<1> DEFINE e == <<"opened", s>> m == Append(l, e) n == Len(l)
<1>1. e \in Entries /\ e[1] = "opened"
  BY DEF Entries
<1>2. /\ n \in Nat /\ Len(m) = n + 1 /\ DOMAIN l = 1..n /\ DOMAIN m = 1..(n + 1) /\ m[n + 1] = e
      /\ \A i \in 1..n : m[i] = l[i]
  BY <1>1, AppendFacts
<1> HIDE DEF e, m, n
<1>3. (n + 1) % 2 = 1
  BY <1>2, NextOdd DEF n
<1>4. ASSUME NEW i \in 1..n PROVE IF i % 2 = 1 THEN m[i][1] = "opened" ELSE m[i] = <<"closed", m[i - 1][2]>>
  <2>1. IF i % 2 = 1 THEN l[i][1] = "opened" ELSE l[i] = <<"closed", l[i - 1][2]>>
    BY <1>2 DEF Alternates
  <2>2. i % 2 # 1 => i - 1 \in 1..n
    BY SMT, <1>2
  <2> QED
    BY <1>2, <2>1, <2>2
<1>5. Alternates(m)
  BY SMT, <1>1, <1>2, <1>3, <1>4 DEF Alternates
<1> QED
  BY <1>2, <1>3, <1>5 DEF m, e

LEMMA AppendClosed ==
  ASSUME NEW l \in Seq(Entries), NEW s \in Sessions, Alternates(l), Len(l) % 2 = 1, l[Len(l)] = <<"opened", s>>
  PROVE Alternates(Append(l, <<"closed", s>>)) /\ Len(Append(l, <<"closed", s>>)) % 2 = 0
<1> DEFINE e == <<"closed", s>> m == Append(l, e) n == Len(l)
<1>1. e \in Entries
  BY DEF Entries
<1>2. /\ n \in Nat /\ Len(m) = n + 1 /\ DOMAIN l = 1..n /\ DOMAIN m = 1..(n + 1) /\ m[n + 1] = e
      /\ \A i \in 1..n : m[i] = l[i]
  BY <1>1, AppendFacts
<1>3. (n + 1) % 2 = 0 /\ n # 0 /\ l[n] = <<"opened", s>>
  BY SMT, <1>2, NextOdd
<1> HIDE DEF m, n
<1>4. ASSUME NEW i \in 1..n PROVE IF i % 2 = 1 THEN m[i][1] = "opened" ELSE m[i] = <<"closed", m[i - 1][2]>>
  <2>1. IF i % 2 = 1 THEN l[i][1] = "opened" ELSE l[i] = <<"closed", l[i - 1][2]>>
    BY <1>2 DEF Alternates
  <2>2. i % 2 # 1 => i - 1 \in 1..n
    BY SMT, <1>2
  <2> QED
    BY <1>2, <2>1, <2>2
<1>5. m[n + 1] = <<"closed", m[(n + 1) - 1][2]>>
  BY SMT, <1>2, <1>3
<1>6. Alternates(m)
  BY SMT, <1>2, <1>3, <1>4, <1>5 DEF Alternates
<1> QED
  BY <1>2, <1>3, <1>6 DEF m

-----------------------------------------------------------------------------
(* Steps that change the table. *)

\* A branch has one session that is not over.
LEMMA ActiveAlone ==
  ASSUME TableInv, NEW s \in Sessions, NEW t \in Sessions, Active(s), Active(t), keyOf[s] = keyOf[t]
  PROVE s = t
<1>1. SessOK(s) /\ SessOK(t) /\ \A c \in Clients : ReqOK(c)
  BY DEF TableInv, ReqInv
<1>2. \A c, d \in Clients : Opening(c) /\ Opening(d) /\ req[c].key = req[d].key => c = d
  BY DEF TableInv, ReqInv
<1>3. ASSUME NEW u \in Sessions, Active(u), SessOK(u)
      PROVE \/ slot[keyOf[u]].state \in {"open", "closing"} /\ slot[keyOf[u]].sid = u
            \/ /\ slot[keyOf[u]].state \in {"reserved", "free"}
               /\ \E c \in Clients : Opening(c) /\ req[c].sid = u /\ req[c].key = keyOf[u]
  BY SMT, <1>1, <1>3 DEF SessOK, ReqOK, Opening, Active
<1> QED
  BY SMT, <1>1, <1>2, <1>3

\* On a branch that an open is about to take there is none.
LEMMA NoneBehind ==
  ASSUME TableInv, NEW c \in Clients, req[c].at \in {"opening", "refused"},
         NEW s \in Sessions, keyOf[s] = req[c].key
  PROVE ~Active(s)
<1>1. SessOK(s) /\ \A d \in Clients : ReqOK(d)
  BY DEF TableInv, ReqInv
<1>2. \A d \in Clients : Opening(c) /\ Opening(d) /\ req[c].key = req[d].key => c = d
  BY DEF TableInv, ReqInv
<1>3. slot[keyOf[s]] = Slot("reserved", Nobody)
  BY <1>1 DEF ReqOK
<1>4. ASSUME NEW d \in Clients, req[d].at \in {"opened", "selfclose"}, req[d].sid = s PROVE FALSE
  BY <1>1, <1>2, <1>4 DEF ReqOK, Opening
<1> QED
  BY SMT, <1>1, <1>3, <1>4 DEF SessOK, Active

LEMMA OpenEnterStep ==
  ASSUME TableInv, NEW c \in Clients, OpenEnter(c)
  PROVE TableInv'
<1>0. req \in [Clients -> Requests] /\ ReqOK(c)
  BY DEF TableInv, Types, ReqInv
<1>k. PICK k \in Keys : k = req[c].key
  BY <1>0 DEF OpenEnter, ReqOK
<1>1. SlotOK(k) /\ req \in [Clients -> Requests] /\ ReqOK(c) /\ k = req[c].key
  BY <1>0, <1>k DEF TableInv
<1>2. req[c].at = "enter" /\ req[c].op = "open" /\ ~Opening(c) /\ req[c].sid = Nobody
  BY <1>1 DEF OpenEnter, Opening, ReqOK
<1>3. CASE (Answers(c, "shutting down") \/ Answers(c, "already open")) /\ UNCHANGED <<slot, inflight>>
  <2>1. UNCHANGED <<table, whole>>
    BY <1>3 DEF OpenEnter, table, whole
  <2> QED
    BY <1>2, <1>3, <2>1, AnswerStep DEF Replies
<1>4. CASE /\ slot[k].state = "closing" /\ req' = [req EXCEPT ![c].at = "wait", ![c].sid = slot[k].sid]
           /\ UNCHANGED <<slot, inflight>>
  <2>1. UNCHANGED <<table, whole>>
    BY <1>4 DEF OpenEnter, table, whole
  <2>2. /\ slot[k].sid \in Sessions /\ sess[slot[k].sid] \in {"closing", "closed"} /\ keyOf[slot[k].sid] = k
        /\ slot[k].sid \in 0..MaxSessions
    BY SMT, <1>1, <1>4 DEF SlotOK
  <2> QED
    BY <1>1, <1>2, <1>4, <2>1, <2>2, MoveStep
<1>5. CASE /\ ~closing /\ slot[k] = Free /\ slot' = [slot EXCEPT ![k] = Slot("reserved", Nobody)]
           /\ inflight' = inflight \cup {c} /\ Moves(c, "opening")
  <2>0. UNCHANGED <<sess, keyOf, failed, lease, orphaned, next, log, closing, sd, janitor>>
    BY DEF OpenEnter
  <2>1. Types /\ (\A d \in Clients : ReqOK(d)) /\ (\A j \in Keys : SlotOK(j)) /\ (\A s \in Sessions : SessOK(s))
    BY DEF TableInv, ReqInv
  <2>2. /\ req' \in [Clients -> Requests] /\ \A d \in Clients : d # c => req'[d] = req[d]
        /\ req'[c].at = "opening" /\ req'[c].op = "open" /\ req'[c].key = k /\ req'[c].sid = Nobody
    BY SMT, <1>1, <1>2, <1>5 DEF Moves, Requests
  <2>3. slot' \in [Keys -> Slots]
        /\ slot'[k] = Slot("reserved", Nobody) /\ \A j \in Keys : j # k => slot'[j] = slot[j]
    BY <1>1, <1>5, <2>1, SlotsBuilt DEF Types
  <2>4. Types'
    BY <2>0, <2>1, <2>2, <2>3 DEF Types
  <2>5. \A d \in Clients : Opening(d) => req[d].key # k
    BY SMT, <1>5, <2>1 DEF ReqOK, Opening
  <2>6. \A d \in Clients : ReqOK(d)'
    <3>1. ReqOK(c)'
      BY <1>1, <1>5, <2>0, <2>2, <2>3 DEF ReqOK, SlotOK, Opening
    <3>2. ASSUME NEW d \in Clients, d # c PROVE ReqOK(d)'
      <4>1. ReqOK(d) /\ req'[d] = req[d] /\ (Opening(d) => slot'[req[d].key] = slot[req[d].key])
        BY SMT, <2>1, <2>2, <2>3, <2>5, <3>2 DEF ReqOK, Opening
      <4> QED
        BY SMT, <2>0, <4>1 DEF ReqOK, Opening
    <3> QED
      BY <3>1, <3>2
  <2>7. ReqInv'
    <3>1. \A d \in Clients : Opening(d)' <=> Opening(d) \/ d = c
      BY <2>2 DEF Opening
    <3> QED
      BY SMT, <1>5, <2>2, <2>5, <2>6, <3>1 DEF TableInv, ReqInv
  <2>8. \A j \in Keys : SlotOK(j)'
    <3>1. \A d \in Clients : Opening(d) => Opening(d)' /\ req'[d].key = req[d].key
      BY <1>2, <2>2 DEF Opening
    <3>2. Opening(c)'
      BY <2>2 DEF Opening
    <3>3. SlotOK(k)'
      <4>1. slot'[k].state = "reserved" /\ slot'[k].sid = Nobody /\ slot'[k] # Free
        BY SMT, <2>3
      <4>2. \E d \in Clients : Opening(d)' /\ req'[d].key = k
        BY <2>2, <3>2
      <4> QED
        BY <1>1, <2>0, <4>1, <4>2 DEF SlotOK
    <3>4. ASSUME NEW j \in Keys, j # k PROVE SlotOK(j)'
      BY SMT, <2>0, <2>1, <2>3, <3>1, <3>4 DEF SlotOK
    <3> QED
      BY <3>3, <3>4
  <2>9. \A s \in Sessions : SessOK(s)'
    <3> SUFFICES ASSUME NEW s \in Sessions PROVE SessOK(s)'
      OBVIOUS
    <3>1. SessOK(s)
      BY <2>1
    <3>2. keyOf[s] \in Keys /\ slot[keyOf[s]] # Free => slot'[keyOf[s]] = slot[keyOf[s]]
      BY <1>5, <2>3
    <3>3. \A d \in Clients : req[d].at \in {"opened", "selfclose"} => req'[d] = req[d]
      BY <1>2, <2>2
    <3> QED
      BY SMT, <2>0, <3>1, <3>2, <3>3 DEF SessOK, Live
  <2>10. EventsInOrder' /\ (\A j \in Keys : LogOK(j)')
    BY <2>0, LogKept DEF Active
  <2>11. ShutInv'
    BY <1>5, <2>0 DEF TableInv, ShutInv, Active
  <2> QED
    BY <2>4, <2>7, <2>8, <2>9, <2>10, <2>11 DEF TableInv
<1> QED
  BY <1>1, <1>3, <1>4, <1>5 DEF OpenEnter

\* A session number is taken.
LEMMA NextFacts ==
  ASSUME TableInv, next \in Sessions
  PROVE /\ sess[next] = "none" /\ next \notin failed
        /\ \A s \in Sessions : sess[s] # "none" => s # next
        /\ \A k \in Keys : lease[k] # next /\ orphaned[k] # next
<1>1. SessOK(next) /\ next \in Nat
  BY SMT DEF TableInv
<1>2. sess[next] = "none" /\ next \notin failed
  BY SMT, <1>1 DEF SessOK
<1>3. ASSUME NEW k \in Keys PROVE lease[k] # next /\ orphaned[k] # next
  <2>1. SlotOK(k)
    BY DEF TableInv
  <2> QED
    BY SMT, <1>2, <2>1 DEF SlotOK
<1> QED
  BY <1>2, <1>3


LEMMA SidType ==
  ASSUME Types, NEW d \in Clients
  PROVE req[d] \in Requests /\ req[d].sid \in 0..MaxSessions /\ (req[d].sid # Nobody => req[d].sid \in Sessions)
<1>1. req[d] \in Requests
  BY DEF Types
<1> QED
  BY SMT, <1>1 DEF Requests

LEMMA HolderType ==
  ASSUME Types, NEW j \in Keys
  PROVE (lease[j] # Nobody => lease[j] \in Sessions) /\ (orphaned[j] # Nobody => orphaned[j] \in Sessions)
<1>1. lease[j] \in 0..MaxSessions /\ orphaned[j] \in 0..MaxSessions
  BY DEF Types
<1> QED
  BY SMT, <1>1

LEMMA SessionOpensStep ==
  ASSUME TableInv, NEW c \in Clients, SessionOpens(c)
  PROVE TableInv'
<1>0. Types /\ \A d \in Clients : Opening(c) /\ Opening(d) /\ req[c].key = req[d].key => c = d
  BY DEF TableInv, ReqInv
<1>r. \A d \in Clients : ReqOK(d)
  BY DEF TableInv, ReqInv
<1>k. PICK k \in Keys : k = req[c].key
  BY <1>r DEF SessionOpens, ReqOK
<1>n. PICK n \in Sessions : n = next
  BY DEF SessionOpens
<1>1. /\ req[c].at = "opening" /\ lease[k] = Nobody /\ Opening(c) /\ req[c].op = "open"
      /\ slot[k] = Slot("reserved", Nobody)
      /\ UNCHANGED <<slot, failed, orphaned, closing, inflight, sd, janitor>>
  BY <1>r, <1>k DEF SessionOpens, Opening, ReqOK, whole
<1>2. /\ sess[n] = "none" /\ n \notin failed /\ \A s \in Sessions : sess[s] # "none" => s # n
      /\ \A j \in Keys : lease[j] # n /\ orphaned[j] # n
  BY <1>n, NextFacts
<1>3. /\ req' \in [Clients -> Requests] /\ \A d \in Clients : d # c => req'[d] = req[d]
      /\ req'[c].at = "opened" /\ req'[c].op = "open" /\ req'[c].key = k /\ req'[c].sid = n
  <2>1. n \in 0..MaxSessions
    BY SMT
  <2>2. req \in [Clients -> Requests]
    BY <1>0 DEF Types
  <2>3. req' = [req EXCEPT ![c].at = "opened", ![c].sid = n]
    BY <1>n DEF SessionOpens
  <2> QED
    BY <1>1, <1>k, <2>1, <2>2, <2>3, Updated
<1>4. /\ lease' \in [Keys -> 0..MaxSessions] /\ lease'[k] = n /\ \A j \in Keys : j # k => lease'[j] = lease[j]
      /\ next' = n + 1 /\ next' \in 1..(MaxSessions + 1)
  <2>1. n \in 0..MaxSessions /\ n + 1 \in 1..(MaxSessions + 1)
    BY SMT
  <2> QED
    BY <1>0, <1>k, <1>n, <2>1 DEF SessionOpens, Types
<1>5. /\ sess' \in [Sessions -> {"none", "live", "closing", "selfclosing", "closed", "gone"}]
      /\ sess'[n] = "live" /\ \A s \in Sessions : s # n => sess'[s] = sess[s]
      /\ keyOf' \in [Sessions -> Keys \cup {"none"}]
      /\ keyOf'[n] = k /\ \A s \in Sessions : s # n => keyOf'[s] = keyOf[s]
  BY <1>0, <1>n, <1>k DEF SessionOpens, Types
<1>6. \A s \in Sessions : keyOf[s] = k => ~Active(s)
  BY <1>1, <1>k, NoneBehind
<1>7. /\ log' \in [Keys -> Seq(Entries)] /\ \A j \in Keys : j # k => log'[j] = log[j]
      /\ log'[k] = Append(log[k], <<"opened", n>>) /\ log[k] \in Seq(Entries)
  <2>1. log[k] \in Seq(Entries) /\ <<"opened", n>> \in Entries
    BY <1>0 DEF Types, Entries
  <2>2. Append(log[k], <<"opened", n>>) \in Seq(Entries)
    BY <2>1, AppendFacts
  <2> QED
    BY <1>0, <1>k, <1>n, <2>1, <2>2 DEF SessionOpens, Types
<1>8. Types'
  BY <1>0, <1>1, <1>3, <1>4, <1>5, <1>7 DEF Types
<1>9. \A d \in Clients : (Opening(d)' <=> Opening(d)) /\ req'[d].key = req[d].key
  BY <1>1, <1>3, <1>k DEF Opening
<1>10. ReqInv'
  <2>1. ReqOK(c)'
    BY <1>1, <1>3, <1>5 DEF ReqOK, Opening
  <2>2. ASSUME NEW d \in Clients, d # c PROVE ReqOK(d)'
    <3>1. ReqOK(d) /\ req'[d] = req[d]
      BY <1>r, <1>3, <2>2
    <3>2. req[d].at \in {"opening", "refused"} => lease'[req[d].key] = lease[req[d].key]
      BY <1>0, <1>1, <1>4, <1>k, <2>2, <3>1 DEF ReqOK, Opening
    <3>3. req[d].sid # Nobody => req[d].sid \in Sessions
      BY <1>0, SidType
    <3>4. req[d].sid \in Sessions /\ sess[req[d].sid] # "none" =>
            sess'[req[d].sid] = sess[req[d].sid] /\ keyOf'[req[d].sid] = keyOf[req[d].sid]
      BY <1>2, <1>5
    <3> HIDE DEF Sessions
    <3> QED
      BY SMT, <1>1, <3>1, <3>2, <3>3, <3>4 DEF ReqOK, Opening
  <2> QED
    BY <1>1, <1>9, <2>1, <2>2 DEF TableInv, ReqInv
<1>11. \A j \in Keys : SlotOK(j)'
  <2> SUFFICES ASSUME NEW j \in Keys PROVE SlotOK(j)'
    OBVIOUS
  <2>1. SlotOK(j) /\ (lease[j] # Nobody => lease[j] \in Sessions) /\ (orphaned[j] # Nobody => orphaned[j] \in Sessions)
    BY <1>0, HolderType DEF TableInv
  <2> HIDE DEF Sessions
  <2>2. CASE j = k
    BY SMT, <1>1, <1>2, <1>4, <1>5, <1>9, <2>1, <2>2 DEF SlotOK
  <2>3. CASE j # k
    BY SMT, <1>1, <1>2, <1>4, <1>5, <1>9, <2>1, <2>3 DEF SlotOK
  <2> QED
    BY <2>2, <2>3
<1>12. \A s \in Sessions : SessOK(s)'
  <2>1. SessOK(n)'
    BY SMT, <1>1, <1>2, <1>3, <1>4, <1>5 DEF SessOK, Live
  <2>2. ASSUME NEW s \in Sessions, s # n PROVE SessOK(s)'
    <3>1. SessOK(s) /\ sess'[s] = sess[s] /\ keyOf'[s] = keyOf[s]
      BY <1>5, <2>2 DEF TableInv
    <3>2. Active(s) => keyOf[s] \in Keys /\ lease'[keyOf[s]] = lease[keyOf[s]]
      BY <1>4, <1>6, <3>1 DEF Active, SessOK
    <3>3. \A d \in Clients : req[d].at \in {"opened", "selfclose"} => req'[d] = req[d]
      BY <1>1, <1>3
    <3>4. (\E j \in Keys : lease'[j] = s) => \E j \in Keys : lease[j] = s
      BY <1>4, <2>2
    <3>5. s >= next' <=> s >= next
      BY SMT, <1>n, <1>4, <2>2
    <3> HIDE DEF Sessions
    <3> QED
      BY SMT, <1>1, <3>1, <3>2, <3>3, <3>4, <3>5 DEF SessOK, Live, Active
  <2> QED
    BY <2>1, <2>2
<1>13. EventsInOrder' /\ (\A j \in Keys : LogOK(j)')
  <2>1. ASSUME NEW j \in Keys PROVE Alternates(log[j]) /\ LogOK(j)
    BY DEF TableInv, EventsInOrder, Alternates
  <2>2. \A s \in Sessions : (Active(s)' <=> Active(s) \/ s = n) /\ (s # n => keyOf'[s] = keyOf[s])
    BY <1>2, <1>5 DEF Active
  <2>3. Len(log[k]) % 2 = 0 /\ Len(log[k]) \in Nat
    <3>1. ~(\E s \in Sessions : Active(s) /\ keyOf[s] = k)
      BY <1>6
    <3>2. Len(log[k]) \in Nat
      BY SMT, <1>7
    <3> QED
      BY <2>1, <3>1, <3>2, NextOdd DEF LogOK
  <2>4. Alternates(log'[k]) /\ Len(log'[k]) % 2 = 1
    <3>1. log[k] \in Seq(Entries) /\ Alternates(log[k]) /\ Len(log[k]) % 2 = 0
      BY <1>7, <2>1, <2>3
    <3>2. Alternates(Append(log[k], <<"opened", n>>)) /\ Len(Append(log[k], <<"opened", n>>)) % 2 = 1
      BY <3>1, AppendOpened
    <3> QED
      BY <1>7, <3>2
  <2>5. log'[k][Len(log'[k])] = <<"opened", n>>
    BY SMT, <1>7, AppendFacts DEF Entries
  <2>6. EventsInOrder'
    <3>1. ASSUME NEW j \in Keys PROVE Alternates(log'[j])
      BY <1>7, <2>1, <2>4
    <3> QED
      BY <3>1 DEF EventsInOrder, Alternates
  <2> HIDE DEF Sessions
  <2>7. LogOK(k)'
    BY <1>5, <1>6, <2>2, <2>4, <2>5 DEF LogOK
  <2>8. ASSUME NEW j \in Keys, j # k PROVE LogOK(j)'
    <3>1. LogOK(j) /\ log'[j] = log[j]
      BY <1>7, <2>1, <2>8
    <3>2. \A s \in Sessions : Active(s)' /\ keyOf'[s] = j <=> Active(s) /\ keyOf[s] = j
      BY <1>2, <1>5, <2>2, <2>8 DEF Active
    <3> QED
      BY <3>1, <3>2 DEF LogOK
  <2> QED
    BY <2>6, <2>7, <2>8
<1>14. ShutInv'
  <2>1. c \in inflight
    BY <1>1 DEF TableInv, ReqInv
  <2> QED
    BY <1>1, <2>1 DEF TableInv, ShutInv
<1> QED
  BY <1>8, <1>10, <1>11, <1>12, <1>13, <1>14 DEF TableInv

LEMMA SessionOpenFailsStep ==
  ASSUME TableInv, NEW c \in Clients, NEW released \in BOOLEAN, SessionOpenFails(c, released)
  PROVE TableInv'
<1>0. Types /\ \A d \in Clients : Opening(c) /\ Opening(d) /\ req[c].key = req[d].key => c = d
  BY DEF TableInv, ReqInv
<1>r. \A d \in Clients : ReqOK(d)
  BY DEF TableInv, ReqInv
<1>k. PICK k \in Keys : k = req[c].key
  BY <1>r DEF SessionOpenFails, ReqOK
<1>n. PICK n \in Sessions : n = next
  BY DEF SessionOpenFails
<1>1. /\ req[c].at = "opening" /\ lease[k] = Nobody /\ Opening(c) /\ req[c].op = "open"
      /\ slot[k] = Slot("reserved", Nobody)
      /\ UNCHANGED <<slot, orphaned, log, closing, inflight, sd, janitor>>
  BY <1>r, <1>k DEF SessionOpenFails, Opening, ReqOK, whole
<1>2. /\ sess[n] = "none" /\ n \notin failed /\ \A s \in Sessions : sess[s] # "none" => s # n
      /\ \A j \in Keys : lease[j] # n /\ orphaned[j] # n
  BY <1>n, NextFacts
<1>3. /\ req' \in [Clients -> Requests] /\ \A d \in Clients : d # c => req'[d] = req[d]
      /\ req'[c].at = "refused" /\ req'[c].op = "open" /\ req'[c].key = k /\ req'[c].sid = n
  <2>1. n \in 0..MaxSessions
    BY SMT
  <2>2. req \in [Clients -> Requests]
    BY <1>0 DEF Types
  <2>3. req' = [req EXCEPT ![c].at = "refused", ![c].sid = n]
    BY <1>n DEF SessionOpenFails
  <2> QED
    BY <1>1, <1>k, <2>1, <2>2, <2>3, Updated
<1>4. /\ lease' \in [Keys -> 0..MaxSessions] /\ lease'[k] \in {Nobody, n} /\ \A j \in Keys : j # k => lease'[j] = lease[j]
      /\ lease'[k] = n => n \in failed'
      /\ next' = n + 1 /\ next' \in 1..(MaxSessions + 1)
      /\ failed' \subseteq Sessions /\ \A s \in Sessions : s # n => (s \in failed' <=> s \in failed)
  <2>1. n \in 0..MaxSessions /\ n + 1 \in 1..(MaxSessions + 1) /\ n # Nobody
    BY SMT
  <2>2. CASE released
    BY <1>0, <1>1, <1>k, <1>n, <2>1, <2>2 DEF SessionOpenFails, Types
  <2>3. CASE ~released
    BY <1>0, <1>k, <1>n, <2>1, <2>3 DEF SessionOpenFails, Types
  <2> QED
    BY <2>2, <2>3
<1>5. /\ sess' \in [Sessions -> {"none", "live", "closing", "selfclosing", "closed", "gone"}]
      /\ sess'[n] = "gone" /\ \A s \in Sessions : s # n => sess'[s] = sess[s]
      /\ keyOf' \in [Sessions -> Keys \cup {"none"}]
      /\ keyOf'[n] = k /\ \A s \in Sessions : s # n => keyOf'[s] = keyOf[s]
  BY <1>0, <1>n, <1>k DEF SessionOpenFails, Types
<1>6. \A s \in Sessions : keyOf[s] = k => ~Active(s)
  BY <1>1, <1>k, NoneBehind
<1>8. Types'
  BY <1>0, <1>1, <1>3, <1>4, <1>5 DEF Types
<1>9. \A d \in Clients : (Opening(d)' <=> Opening(d)) /\ req'[d].key = req[d].key
  BY <1>1, <1>3, <1>k DEF Opening
<1>10. ReqInv'
  <2>1. ReqOK(c)'
    <3>1. n # Nobody
      BY SMT
    <3> HIDE DEF Sessions
    <3> QED
      BY <1>1, <1>3, <1>4, <1>5, <3>1 DEF ReqOK, Opening
  <2>2. ASSUME NEW d \in Clients, d # c PROVE ReqOK(d)'
    <3>1. ReqOK(d) /\ req'[d] = req[d]
      BY <1>r, <1>3, <2>2
    <3>2. req[d].at \in {"opening", "refused"} => lease'[req[d].key] = lease[req[d].key]
      BY <1>0, <1>1, <1>4, <1>k, <2>2, <3>1 DEF ReqOK, Opening
    <3>3. req[d].sid # Nobody => req[d].sid \in Sessions
      BY <1>0, SidType
    <3>4. req[d].sid \in Sessions /\ sess[req[d].sid] # "none" =>
            /\ sess'[req[d].sid] = sess[req[d].sid] /\ keyOf'[req[d].sid] = keyOf[req[d].sid]
            /\ req[d].sid \in failed' <=> req[d].sid \in failed
      BY <1>2, <1>4, <1>5
    <3> HIDE DEF Sessions
    <3> QED
      BY SMT, <1>1, <3>1, <3>2, <3>3, <3>4 DEF ReqOK, Opening
  <2> QED
    BY <1>1, <1>9, <2>1, <2>2 DEF TableInv, ReqInv
<1>11. \A j \in Keys : SlotOK(j)'
  <2> SUFFICES ASSUME NEW j \in Keys PROVE SlotOK(j)'
    OBVIOUS
  <2>1. SlotOK(j) /\ (lease[j] # Nobody => lease[j] \in Sessions) /\ (orphaned[j] # Nobody => orphaned[j] \in Sessions)
    BY <1>0, HolderType DEF TableInv
  <2> HIDE DEF Sessions
  <2>2. CASE j = k
    BY SMT, <1>1, <1>2, <1>4, <1>5, <1>9, <2>1, <2>2 DEF SlotOK
  <2>3. CASE j # k
    BY SMT, <1>1, <1>2, <1>4, <1>5, <1>9, <2>1, <2>3 DEF SlotOK
  <2> QED
    BY <2>2, <2>3
<1>12. \A s \in Sessions : SessOK(s)'
  <2>1. SessOK(n)'
    <3>1. ~(n >= next') /\ n # Nobody
      BY SMT, <1>4
    <3>2. \A j \in Keys : lease'[j] = n => n \in failed'
      BY <1>2, <1>4
    <3> QED
      BY <1>5, <3>1, <3>2 DEF SessOK, Live
  <2>2. ASSUME NEW s \in Sessions, s # n PROVE SessOK(s)'
    <3>1. SessOK(s) /\ sess'[s] = sess[s] /\ keyOf'[s] = keyOf[s]
      BY <1>5, <2>2 DEF TableInv
    <3>2. Active(s) => keyOf[s] \in Keys /\ lease'[keyOf[s]] = lease[keyOf[s]]
      BY <1>4, <1>6, <3>1 DEF Active, SessOK
    <3>3. \A d \in Clients : req[d].at \in {"opened", "selfclose"} => req'[d] = req[d]
      BY <1>1, <1>3
    <3>4. (\E j \in Keys : lease'[j] = s) => \E j \in Keys : lease[j] = s
      BY SMT, <1>4, <2>2
    <3>5. (s >= next' <=> s >= next) /\ (s \in failed' <=> s \in failed)
      BY SMT, <1>n, <1>4, <2>2
    <3> HIDE DEF Sessions
    <3> QED
      BY SMT, <1>1, <3>1, <3>2, <3>3, <3>4, <3>5 DEF SessOK, Live, Active
  <2> QED
    BY <2>1, <2>2
<1>13. EventsInOrder' /\ (\A j \in Keys : LogOK(j)')
  <2>1. \A s \in Sessions : Active(s)' <=> Active(s)
    BY <1>2, <1>5 DEF Active
  <2>2. ASSUME NEW j \in Keys PROVE LogOK(j)'
    <3>1. LogOK(j) /\ log'[j] = log[j]
      BY <1>1 DEF TableInv
    <3>2. \A s \in Sessions : Active(s) => keyOf'[s] = keyOf[s]
      BY <1>2, <1>5 DEF Active
    <3> HIDE DEF Sessions
    <3> QED
      BY <2>1, <3>1, <3>2 DEF LogOK
  <2> QED
    BY <1>1, <2>2 DEF TableInv, EventsInOrder
<1>14. ShutInv'
  <2>1. c \in inflight
    BY <1>1 DEF TableInv, ReqInv
  <2> QED
    BY <1>1, <2>1 DEF TableInv, ShutInv
<1> QED
  BY <1>8, <1>10, <1>11, <1>12, <1>13, <1>14 DEF TableInv

=============================================================================
