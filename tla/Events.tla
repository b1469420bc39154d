------------------------------- MODULE Events -------------------------------
(***************************************************************************)
(* The daemon's event bus and its streams (daemon/events.go): publish fans *)
(* an event out to bounded queues and drops a subscriber whose queue is    *)
(* full; each stream takes events from its queue and writes them to a      *)
(* client that may stall or go away.  Events are numbered as published.    *)
(***************************************************************************)
EXTENDS Integers, Sequences, SequencesExt

CONSTANTS
  Sockets, Sses,   \* subscribers of the socket's subscribe op, and of GET /events
  Buffer,          \* eventSubscriberBuffer
  MaxEvents        \* bound: events published

\* What the constants must satisfy.
BufferAssumption == Buffer \in Nat \ {0}

Subs == Sockets \cup Sses

VARIABLES
  published,   \* events so far
  member,      \* subscribers the bus holds
  closed,      \* subscribers whose channel is closed
  queue, from, \* each channel; the events published before it was made
  at, hand,    \* each stream: no, acking, select, writing, ended; the event it is writing
  got,         \* what each client has read
  gone,        \* clients that hung up, or whose connection Shutdown closed
  stalled      \* clients that have stopped reading, the connection's buffer full

vars == <<published, member, closed, queue, from, at, hand, got, gone, stalled>>

Terminal == 0      \* dropped_slow_consumer

Ping == -1         \* a keepalive comment, no event

Nothing == -2

Init ==
  /\ published = 0 /\ member = {} /\ closed = {}
  /\ queue = [s \in Subs |-> <<>>] /\ from = [s \in Subs |-> 0]
  /\ at = [s \in Subs |-> "no"] /\ hand = [s \in Subs |-> Nothing] /\ got = [s \in Subs |-> <<>>]
  /\ gone = {} /\ stalled = {}

-----------------------------------------------------------------------------
(* The bus. *)

\* Registered before the acknowledgement, or the response's headers, are sent.
Subscribe(s) ==
  /\ at[s] = "no" /\ at' = [at EXCEPT ![s] = "acking"]
  /\ member' = member \cup {s} /\ from' = [from EXCEPT ![s] = published]
  /\ UNCHANGED <<published, closed, queue, hand, got, gone, stalled>>

Full(s) == Len(queue[s]) = Buffer

\* A slip: the terminal event finds no room and is lost.
DroppedUntold(q) == q

\* The oldest event makes room for the terminal one, and the channel closes.
Dropped(q) == Append(Tail(q), Terminal)

Publish ==
  /\ published < MaxEvents /\ published' = published + 1
  /\ queue' = [s \in Subs |-> IF s \notin member THEN queue[s]
                              ELSE IF Full(s) THEN Dropped(queue[s]) ELSE Append(queue[s], published + 1)]
  /\ LET slow == {s \in member : Full(s)} IN member' = member \ slow /\ closed' = closed \cup slow
  /\ UNCHANGED <<from, at, hand, got, gone, stalled>>

\* A slip: the stream returns without it.
UnsubscribedNot(s) == UNCHANGED <<member, closed>>

\* unsubscribe, which does nothing for a subscriber the bus has dropped.
Unsubscribed(s) == member' = member \ {s} /\ closed' = closed \cup {s}

-----------------------------------------------------------------------------
(* A stream: streamEvents, handleEvents. *)

\* It returns, and its handler closes the connection.
Ends(s) ==
  /\ at' = [at EXCEPT ![s] = "ended"] /\ hand' = [hand EXCEPT ![s] = Nothing] /\ Unsubscribed(s)
  /\ UNCHANGED <<published, queue, from, got, gone, stalled>>

Ack(s) ==
  /\ at[s] = "acking"
  /\ \/ /\ at' = [at EXCEPT ![s] = "select"]
        /\ UNCHANGED <<published, member, closed, queue, from, hand, got, gone, stalled>>
     \/ s \in gone /\ Ends(s)

\* select takes the channel,
Receive(s) ==
  /\ at[s] = "select" /\ queue[s] # <<>>
  /\ hand' = [hand EXCEPT ![s] = Head(queue[s])] /\ queue' = [queue EXCEPT ![s] = Tail(@)]
  /\ at' = [at EXCEPT ![s] = "writing"]
  /\ UNCHANGED <<published, member, closed, from, got, gone, stalled>>

\* A slip: a channel with nothing in it ends the stream, closed or not.
DrainedEmpty(s) == at[s] = "select" /\ queue[s] = <<>> /\ Ends(s)

\* closed and empty once the bus has dropped it,
Drained(s) == at[s] = "select" /\ queue[s] = <<>> /\ s \in closed /\ Ends(s)

\* or the hang-up,
NoticesGone(s) == at[s] = "select" /\ s \in gone /\ Ends(s)

\* or, for GET /events, the keepalive ticker.
Tick(s) ==
  /\ s \in Sses /\ at[s] = "select" /\ at' = [at EXCEPT ![s] = "writing"]
  /\ hand' = [hand EXCEPT ![s] = Ping]
  /\ UNCHANGED <<published, member, closed, queue, from, got, gone, stalled>>

\* A write under a deadline of its own.
Write(s) ==
  /\ at[s] = "writing" /\ s \notin gone \cup stalled
  /\ at' = [at EXCEPT ![s] = "select"] /\ hand' = [hand EXCEPT ![s] = Nothing]
  /\ got' = IF hand[s] = Ping THEN got ELSE [got EXCEPT ![s] = Append(@, hand[s])]
  /\ UNCHANGED <<published, member, closed, queue, from, gone, stalled>>

\* A slip: a write with no deadline.
WriteFailsGone(s) == at[s] = "writing" /\ s \in gone /\ Ends(s)

WriteFails(s) == at[s] = "writing" /\ s \in gone \cup stalled /\ Ends(s)

-----------------------------------------------------------------------------
(* The clients. *)

HangsUp(s) ==
  /\ s \notin gone /\ at[s] \notin {"no", "ended"} /\ gone' = gone \cup {s}
  /\ UNCHANGED <<published, member, closed, queue, from, at, hand, got, stalled>>

Stalls(s) ==
  /\ at[s] \in {"select", "writing"}
  /\ stalled' = IF s \in stalled THEN stalled \ {s} ELSE stalled \cup {s}
  /\ UNCHANGED <<published, member, closed, queue, from, at, hand, got, gone>>

Stream(s) == Ack(s) \/ Receive(s) \/ Drained(s) \/ NoticesGone(s) \/ Write(s) \/ WriteFails(s)

Next ==
  \/ Publish
  \/ \E s \in Subs : Subscribe(s) \/ Stream(s) \/ Tick(s) \/ HangsUp(s) \/ Stalls(s)

Spec == Init /\ [][Next]_vars

\* The stream's goroutine runs; its select chooses at random, so a hang-up is
\* not passed over for ever; a deadline that has passed fails its write.
FairSpec ==
  Spec /\ \A s \in Subs : /\ WF_vars(Ack(s) \/ Receive(s) \/ Drained(s) \/ Write(s))
                          /\ SF_vars(NoticesGone(s)) /\ SF_vars(WriteFails(s))

-----------------------------------------------------------------------------
(* Properties. *)

\* What each variable holds; the bus holds exactly the channels that are
\* made and not closed, so none is written to, or closed, a second time;
\* it holds none for a stream that has ended.
TypeOK ==
  /\ published \in 0..MaxEvents /\ member = {s \in Subs : at[s] # "no"} \ closed
  /\ \A s \in Subs : at[s] \in {"no", "acking", "select", "writing", "ended"}
  /\ \A s \in Subs : Len(queue[s]) <= Buffer /\ (at[s] = "ended" => s \notin member)

InHand(s) == IF hand[s] > Ping THEN <<hand[s]>> ELSE <<>>

\* What a client has read, is being sent and will find in its queue.
Streamed(s) == got[s] \o InHand(s) \o queue[s]

Since(s) == [i \in 1..(published - from[s]) |-> from[s] + i]

\* A subscriber the bus holds gets every event published since it subscribed,
\* in order; one that was dropped is told so by the last thing it gets, and
\* misses no more than one event before those it had no room for.
NoSilentGap ==
  \A s \in Subs : at[s] \notin {"no", "ended"} =>
    LET all == Streamed(s)
        kept == Front(all) IN
    IF s \in member THEN all = Since(s)
    ELSE /\ Last(all) = Terminal
         /\ \E cut \in 0..Len(kept) : \A i \in DOMAIN kept :
              kept[i] = from[s] + i + (IF i > cut THEN 1 ELSE 0)

\* A stream ends only for a client that went away, stalled or was told.
EndsOnlyTold ==
  \A s \in Subs : at[s] # "ended" /\ at'[s] = "ended" =>
    s \in gone \cup stalled \/ (got[s] # <<>> /\ Last(got[s]) = Terminal)

\* No stream is left behind for a client that has hung up, and no write for
\* one that has stopped reading.
StreamsEnd ==
  \A s \in Subs : (s \in gone ~> at[s] = "ended") /\ (at[s] = "writing" ~> at[s] # "writing")
=============================================================================
