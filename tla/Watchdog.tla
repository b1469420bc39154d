------------------------------ MODULE Watchdog ------------------------------
(***************************************************************************)
(* The stream GetReader returns (store/s3.go): a body whose every Read     *)
(* runs under a timer, which cancels the request when one Read blocks for  *)
(* the whole window.  The timer's function runs on a goroutine of its own, *)
(* which Stop does not wait for; Close may come from another goroutine.    *)
(***************************************************************************)
EXTENDS Naturals

CONSTANTS
  Window,    \* readProgressTimeout, in ticks
  MaxPause   \* bound: ticks a reader pauses for between Reads

\* What the constants must satisfy.
WindowAssumption == Window \in Nat \ {0} /\ MaxPause \in Nat

Off == Window + 1

VARIABLES
  pc,         \* the reader: between Reads, in the body's Read, or back from it
  out,        \* what the body's Read returned, then what Read returned
  timer,      \* ticks left, Off when stopped
  firing,     \* steps of the timer's function under way: 0 none, 1, 2
  stalled,    \* the flag it sets
  cancelled,  \* the request's context is done
  closed,     \* the stream was closed
  spent,      \* some Read has blocked for the whole window
  pause       \* how long the reader has been between Reads

vars == <<pc, out, timer, firing, stalled, cancelled, closed, spent, pause>>

Init ==
  /\ pc = "between" /\ out = "none" /\ timer = Off /\ firing = 0
  /\ stalled = FALSE /\ cancelled = FALSE /\ closed = FALSE
  /\ spent = FALSE /\ pause = 0

\* Mutant of Armed: the timer is not reset for the next Read.
ArmedOnce == IF spent \/ out # "none" THEN timer ELSE Window

\* Read resets the timer for a full window.
Armed == Window

Read ==
  /\ pc = "between"
  /\ out \in {"none", "bytes"}
  /\ timer' = Armed
  /\ pc' = "reading" /\ out' = "none" /\ pause' = 0
  /\ UNCHANGED <<firing, stalled, cancelled, closed, spent>>

\* The body's Read returns: with bytes, at the end, on an error of the
\* transport, or because the request was cancelled.
BodyReturns(o) ==
  /\ pc = "reading"
  /\ o = "cancelled" => cancelled
  /\ cancelled => o = "cancelled"
  /\ pc' = "back" /\ out' = o
  /\ UNCHANGED <<timer, firing, stalled, cancelled, closed, spent, pause>>

\* Mutant of Stopped: the timer runs on between Reads.
StoppedNot == timer

Stopped == Off

\* Read stops the timer and names a stall.
Finish ==
  /\ pc = "back"
  /\ timer' = Stopped
  /\ out' = IF out \in {"cancelled", "broken"} /\ stalled THEN "stalled" ELSE out
  /\ pc' = "between"
  /\ UNCHANGED <<firing, stalled, cancelled, closed, spent, pause>>

Close ==
  /\ ~closed
  /\ closed' = TRUE /\ cancelled' = TRUE /\ timer' = Off
  /\ UNCHANGED <<pc, out, firing, stalled, spent, pause>>

\* Time passes: for the armed timer, and for a pausing reader.
Tick ==
  /\ timer # 0
  /\ timer # Off \/ (pc = "between" /\ pause < MaxPause)
  /\ timer' = IF timer = Off THEN Off ELSE timer - 1
  /\ pause' = IF pc = "between" /\ pause < MaxPause THEN pause + 1 ELSE pause
  /\ spent' = (spent \/ (pc # "between" /\ timer = 1))
  /\ UNCHANGED <<pc, out, firing, stalled, cancelled, closed>>

Fire ==
  /\ timer = 0 /\ firing = 0
  /\ timer' = Off /\ firing' = 1
  /\ UNCHANGED <<pc, out, stalled, cancelled, closed, spent, pause>>

\* Mutant of FlagFirst: the request is cancelled before the flag is set.
FlagSecond == FALSE

\* The flag is set before the request is cancelled.
FlagFirst == TRUE

\* The timer's function, one call at a time.
Watch ==
  /\ firing # 0
  /\ firing' = (firing + 1) % 3
  /\ stalled' = (stalled \/ (firing = 1) = FlagFirst)
  /\ cancelled' = (cancelled \/ (firing = 2) = FlagFirst)
  /\ UNCHANGED <<pc, out, timer, closed, spent, pause>>

Next ==
  \/ Read \/ Finish \/ Close \/ Tick \/ Fire \/ Watch
  \/ \E o \in {"bytes", "eof", "broken", "cancelled"} : BodyReturns(o)

\* Goroutines run and time passes; the backend need never deliver, but a
\* cancelled request returns.
Spec ==
  /\ Init /\ [][Next]_vars
  /\ WF_vars(Finish) /\ WF_vars(Tick) /\ WF_vars(Fire) /\ WF_vars(Watch)
  /\ WF_vars(BodyReturns("cancelled"))

-----------------------------------------------------------------------------
\* "a slow CONSUMER (arbitrarily long pauses BETWEEN Reads) ... is never
\* killed": a stream that nobody closed is cancelled only when one Read has
\* blocked for the whole window, and only then is a stall reported.
SparesConsumer ==
  /\ cancelled => closed \/ spent
  /\ stalled => spent

\* A stream that the watchdog alone cancelled fails with "read stalled", never
\* with a bare cancellation.
NamesStall == pc = "between" /\ out = "cancelled" => closed

\* Every Read returns, though the backend may stop delivering: the watchdog
\* "cancels the request, failing the Read".
ReadsEnd == pc = "reading" ~> pc = "between"
=============================================================================
