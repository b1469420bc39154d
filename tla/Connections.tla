----------------------------- MODULE Connections -----------------------------
(***************************************************************************)
(* The daemon's connections (daemon/server.go, daemon/http.go): the accept *)
(* loop, one handler per connection on the Unix socket and over HTTP, the  *)
(* start of the HTTP listener, and the part of Shutdown that sheds them.   *)
(* What Shutdown does to sessions afterwards is SessionTable's.            *)
(***************************************************************************)
EXTENDS Naturals

CONSTANTS
  Unix, Http,    \* clients of the socket and of the HTTP listener
  Starters,      \* callers of StartHTTP
  LateHandler,   \* Shutdown may overtake a handler that has not registered yet
  MaxCalls       \* bound: requests per connection

Peers == Unix \cup Http

VARIABLES
  listening,          \* the socket's listener is open
  conn, h, calls,     \* each client's connection, its handler and its requests so far
  op, reply,          \* the request being handled, and how its answer fared
  conns,              \* s.conns, and the connections net/http tracks
  st, httpSrv,        \* each StartHTTP, and whose server s.httpSrv is
  sd, cause           \* Shutdown, and whose request or signal it is

vars == <<listening, conn, h, calls, op, reply, conns, st, httpSrv, sd, cause>>

client == <<conn, h, calls, op, reply, conns>>

Init ==
  /\ listening = TRUE /\ conn = [c \in Peers |-> "none"] /\ h = [c \in Peers |-> "none"]
  /\ calls = [c \in Peers |-> 0] /\ op = [c \in Peers |-> "none"] /\ reply = [c \in Peers |-> "none"]
  /\ conns = {} /\ st = [x \in Starters |-> "no"] /\ httpSrv = "none" /\ sd = "no" /\ cause = "none"

Closing == sd # "no"

Serving == {x \in Starters : st[x] = "serving"}

Open(c) == IF c \in Unix THEN listening ELSE Serving # {}

-----------------------------------------------------------------------------
(* A connection and its handler: Serve, handle, handleRPC. *)

Dial(c) ==
  /\ conn[c] = "none" /\ Open(c) /\ conn' = [conn EXCEPT ![c] = "queued"]
  /\ UNCHANGED <<listening, h, calls, op, reply, conns, st, httpSrv, sd, cause>>

\* net/http tracks a connection as it accepts it; Serve leaves that to the handler.
Accept(c) ==
  /\ conn[c] = "queued" /\ Open(c) /\ conn' = [conn EXCEPT ![c] = "up"]
  /\ h' = [h EXCEPT ![c] = IF c \in Unix THEN "starting" ELSE "decode"]
  /\ conns' = IF c \in Unix THEN conns ELSE conns \cup {c}
  /\ UNCHANGED <<listening, calls, op, reply, st, httpSrv, sd, cause>>

Register(c) ==
  /\ h[c] = "starting" /\ h' = [h EXCEPT ![c] = "decode"] /\ conns' = conns \cup {c}
  /\ UNCHANGED <<listening, conn, calls, op, reply, st, httpSrv, sd, cause>>

\* A bug: a handler stays in conns when it returns.
ReturnsOnly(c) ==
  /\ h' = [h EXCEPT ![c] = "done"] /\ conn' = [conn EXCEPT ![c] = IF @ = "up" THEN "down" ELSE @]
  /\ UNCHANGED conns

\* The handler returns: it leaves conns and closes its end.
Returns(c) ==
  /\ h' = [h EXCEPT ![c] = "done"] /\ conns' = conns \ {c}
  /\ conn' = [conn EXCEPT ![c] = IF @ = "up" THEN "down" ELSE @]

Request(c, what) ==
  /\ h[c] = "decode" /\ conn[c] = "up" /\ calls[c] < MaxCalls
  /\ h' = [h EXCEPT ![c] = "dispatch"] /\ calls' = [calls EXCEPT ![c] = @ + 1]
  /\ op' = [op EXCEPT ![c] = what] /\ reply' = [reply EXCEPT ![c] = "none"]
  /\ UNCHANGED <<listening, conn, conns, st, httpSrv, sd, cause>>

DecodeFails(c) ==
  /\ h[c] = "decode" /\ conn[c] # "up" /\ Returns(c)
  /\ UNCHANGED <<listening, calls, op, reply, st, httpSrv, sd, cause>>

\* Shutdown is closing from here on; a second one waits for the first.
Begins(who) ==
  /\ sd' = IF Closing THEN sd ELSE "closing"
  /\ cause' = IF Closing THEN cause ELSE who

\* A bug: the shutdown starts before its request is answered.
DispatchShutsDown(c) ==
  /\ h[c] = "dispatch" /\ h' = [h EXCEPT ![c] = "respond"]
  /\ IF op[c] = "shutdown" THEN Begins(c) ELSE UNCHANGED <<sd, cause>>
  /\ UNCHANGED <<listening, conn, calls, op, reply, conns, st, httpSrv>>

\* The operation itself; a shutdown's does nothing yet.
Dispatch(c) ==
  /\ h[c] = "dispatch" /\ h' = [h EXCEPT ![c] = "respond"]
  /\ UNCHANGED <<listening, conn, calls, op, reply, conns, st, httpSrv, sd, cause>>

Sent(c) == IF conn[c] = "up" THEN "sent" ELSE "lost"

\* The socket's answer is written at once; HTTP's is buffered,
Respond(c) ==
  /\ h[c] = "respond" /\ reply' = [reply EXCEPT ![c] = IF c \in Unix THEN Sent(c) ELSE "buffered"]
  /\ h' = [h EXCEPT ![c] = IF c \in Unix THEN "after" ELSE "flush"]
  /\ UNCHANGED <<listening, conn, calls, op, conns, st, httpSrv, sd, cause>>

\* A bug: net/http flushes when the handler returns.
FlushLater(c) ==
  /\ h[c] = "flush" /\ h' = [h EXCEPT ![c] = "after"]
  /\ UNCHANGED <<listening, conn, calls, op, reply, conns, st, httpSrv, sd, cause>>

\* and flushed,
Flush(c) ==
  /\ h[c] = "flush" /\ reply' = [reply EXCEPT ![c] = Sent(c)] /\ h' = [h EXCEPT ![c] = "after"]
  /\ UNCHANGED <<listening, conn, calls, op, conns, st, httpSrv, sd, cause>>

\* before anything is shut down, whether or not it could be sent.
After(c) ==
  /\ h[c] = "after"
  /\ IF op[c] = "shutdown" THEN Begins(c) ELSE UNCHANGED <<sd, cause>>
  /\ IF op[c] = "shutdown" \/ reply[c] = "lost" THEN Returns(c)
     ELSE h' = [h EXCEPT ![c] = "decode"] /\ UNCHANGED <<conn, conns>>
  /\ UNCHANGED <<listening, calls, op, reply, st, httpSrv>>

HangUp(c) ==
  /\ conn[c] = "up" /\ conn' = [conn EXCEPT ![c] = "left"]
  /\ UNCHANGED <<listening, h, calls, op, reply, conns, st, httpSrv, sd, cause>>

-----------------------------------------------------------------------------
(* StartHTTP *)

\* closing and httpSrv are looked at before the listen,
StartCheck(x) ==
  /\ st[x] = "no"
  /\ st' = [st EXCEPT ![x] = IF Closing \/ httpSrv # "none" THEN "refused" ELSE "bound"]
  /\ UNCHANGED <<listening, client, httpSrv, sd, cause>>


\* and again after it: the listener of the one that comes second is closed.
StartServes(x) ==
  /\ st[x] = "bound"
  /\ IF Closing \/ httpSrv # "none"
       THEN st' = [st EXCEPT ![x] = "refused"] /\ UNCHANGED httpSrv
       ELSE st' = [st EXCEPT ![x] = "serving"] /\ httpSrv' = x
  /\ UNCHANGED <<listening, client, sd, cause>>

-----------------------------------------------------------------------------
(* Shutdown, up to the sessions. *)

Signal == ~Closing /\ Begins("signal") /\ UNCHANGED <<listening, client, st, httpSrv>>

\* ln.Close resets what was still queued.
CloseListener ==
  /\ sd = "closing" /\ sd' = "unlistened" /\ listening' = FALSE
  /\ conn' = [c \in Peers |-> IF c \in Unix /\ conn[c] = "queued" THEN "down" ELSE conn[c]]
  /\ UNCHANGED <<h, calls, op, reply, conns, st, httpSrv, cause>>

Dropped(cs) == conn' = [c \in Peers |-> IF c \in cs /\ conn[c] = "up" THEN "down" ELSE conn[c]]

\* A bug: the connections are left to their clients.
CloseConnsNot ==
  /\ sd = "unlistened" /\ sd' = "unconnected"
  /\ UNCHANGED <<listening, client, st, httpSrv, cause>>

CloseConns ==
  /\ sd = "unlistened" /\ sd' = "unconnected"
  /\ LateHandler \/ \A c \in Unix : h[c] # "starting"
  /\ Dropped(conns \cap Unix)
  /\ UNCHANGED <<listening, h, calls, op, reply, conns, st, httpSrv, cause>>

\* http.Server.Close, of the server that s.httpSrv names
CloseHttp ==
  /\ sd = "unconnected" /\ sd' = "shed"
  /\ st' = [x \in Starters |-> IF x = httpSrv THEN "closed" ELSE st[x]]
  /\ conn' = IF httpSrv = "none" THEN conn
             ELSE [c \in Peers |-> IF c \in Http /\ conn[c] \in {"up", "queued"} THEN "down" ELSE conn[c]]
  /\ UNCHANGED <<listening, h, calls, op, reply, conns, httpSrv, cause>>

-----------------------------------------------------------------------------
Handle(c) ==
  Register(c) \/ DecodeFails(c) \/ Dispatch(c) \/ Respond(c) \/ Flush(c) \/ After(c)

ShutdownSteps == CloseListener \/ CloseConns \/ CloseHttp

Next ==
  \/ \E c \in Peers : Dial(c) \/ Accept(c) \/ Handle(c) \/ HangUp(c)
                        \/ \E what \in {"call", "shutdown"} : Request(c, what)
  \/ \E x \in Starters : StartCheck(x) \/ StartServes(x)
  \/ Signal \/ ShutdownSteps

Spec == Init /\ [][Next]_vars

-----------------------------------------------------------------------------
(* Properties. *)

\* What each variable holds; a handler is in conns from its registration
\* to its return.
TypeOK ==
  /\ \A c \in Peers : conn[c] \in {"none", "queued", "up", "down", "left"}
  /\ \A c \in Peers : calls[c] \in 0..MaxCalls
  /\ conns = {c \in Peers : h[c] \in {"decode", "dispatch", "respond", "flush", "after"}}

\* The request that starts a shutdown has been answered when it starts, over
\* the socket and over HTTP, unless its client hung up.
ShutdownAnswered == \A c \in Peers : cause = c => reply[c] = "sent" \/ conn[c] = "left"

\* Once Shutdown has shed its connections, no handler waits for a request
\* on one that is still open.
NoHandlerLeft == sd = "shed" => \A c \in Peers : h[c] \in {"starting", "decode"} => conn[c] # "up"

\* However StartHTTP's callers and Shutdown interleave, one HTTP listener
\* serves at most, s.httpSrv is its server, and none survives Shutdown.
HttpShed ==
  /\ \A x \in Serving : httpSrv = x
  /\ sd = "shed" => Serving = {}
=============================================================================
