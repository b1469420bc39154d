----------------------------- MODULE CaptureLag -----------------------------
(***************************************************************************)
(* Engine.Lag (capture/engine.go): how much of the log the engine has yet  *)
(* to read, computed by any goroutine from two counters the engine's own   *)
(* goroutine stores and the size of the log's file.  A restarted log keeps *)
(* its file's size, so the frames of older generations behind the new one  *)
(* (the dead tail) have to be left out of the count.                       *)
(*                                                                         *)
(* Sizes are in frames.  The application restarts the log only after a     *)
(* takeover has read all of it.                                            *)
(***************************************************************************)
EXTENDS Naturals, FiniteSetsExt

CONSTANTS
  MaxFrames, MaxRestarts,   \* bounds
  Overlap                   \* whether a call may begin between the two stores of a continuation

VARIABLES
  frames, size, restarts,   \* the current generation; the file; how often the log was restarted
  seen,                     \* the restarts the engine has noticed
  consumed, deadTail,       \* the engine's counters
  storing,                  \* the engine is between its two stores
  at, floor, most, lag      \* the call: position, max of what it loaded, all that was unread at some moment of it, its result

engine == <<seen, consumed, deadTail, storing>>

call == <<at, floor, most, lag>>

vars == <<frames, size, restarts, engine, call>>

\* What the engine has really yet to read.
Backlog == IF seen = restarts THEN frames - consumed ELSE frames

Init ==
  /\ frames = 0 /\ size = 0 /\ restarts = 0
  /\ seen = 0 /\ consumed = 0 /\ deadTail = 0 /\ storing = FALSE
  /\ at = "idle" /\ floor = 0 /\ most = 0 /\ lag = 0

\* A frame that arrives during a call may be counted by it.
Arrives == most' = IF at = "idle" THEN most ELSE most + 1

Append ==
  /\ frames < MaxFrames
  /\ frames' = frames + 1 /\ size' = Max({size, frames'})
  /\ UNCHANGED <<restarts, engine, at, floor, lag>> /\ Arrives

Restart ==
  /\ Backlog = 0 /\ frames > 0 /\ restarts < MaxRestarts
  /\ frames' = 1 /\ restarts' = restarts + 1
  /\ UNCHANGED <<size, engine, at, floor, lag>> /\ Arrives

DrainStep ==
  /\ seen = restarts /\ ~storing /\ consumed < frames
  /\ consumed' = consumed + 1
  /\ UNCHANGED <<frames, size, restarts, seen, deadTail, storing, call>>

\* The continuation branches: the offset is reset, then the dead tail's
\* length is taken from the file's size.
Continuation ==
  /\ seen # restarts
  /\ seen' = restarts /\ consumed' = 0 /\ storing' = TRUE
  /\ UNCHANGED <<frames, size, restarts, deadTail, call>>

\* Mutant: the new generation starts with no dead tail.
armDeadTailForgotten ==
  /\ storing /\ storing' = FALSE /\ deadTail' = 0
  /\ UNCHANGED <<frames, size, restarts, seen, consumed, call>>

armDeadTailBaseline ==
  /\ storing /\ storing' = FALSE /\ deadTail' = size
  /\ UNCHANGED <<frames, size, restarts, seen, consumed, call>>

\* A rebase truncates the file and takes both counters back.
Rebase ==
  /\ ~storing /\ restarts < MaxRestarts
  /\ frames' = 0 /\ size' = 0 /\ restarts' = restarts + 1 /\ seen' = restarts + 1
  /\ consumed' = 0 /\ deadTail' = 0
  /\ UNCHANGED <<storing, call>>

\* Lag: the loads come first, the stat after them.
LoadConsumed ==
  /\ at = "idle" /\ (storing => Overlap)
  /\ at' = "deadTail" /\ floor' = consumed /\ most' = Backlog /\ lag' = 0
  /\ UNCHANGED <<frames, size, restarts, engine>>

LoadDeadTail ==
  /\ at = "deadTail" /\ at' = "stat" /\ floor' = Max({floor, deadTail})
  /\ UNCHANGED <<frames, size, restarts, engine, most, lag>>

Stat ==
  /\ at = "stat" /\ at' = "idle"
  /\ lag' = IF size > floor THEN size - floor ELSE 0
  /\ UNCHANGED <<frames, size, restarts, engine, floor, most>>

Next ==
  \/ Append \/ Restart \/ DrainStep \/ Continuation \/ armDeadTailBaseline \/ Rebase
  \/ LoadConsumed \/ LoadDeadTail \/ Stat

Spec == Init /\ [][Next]_vars

\* Lag reports no more than what the engine had yet to read when the call
\* began and what was committed during it: it never invents a backlog, neither
\* from a dead tail nor from counters that a restart resets under it.
NeverInvented == at = "idle" => lag <= most
=============================================================================
