------------------------------- MODULE Endpoint -------------------------------
(***************************************************************************)
(* The socket path as daemons take it over from each other: NewServer's    *)
(* probe, removal and listen, and Shutdown's close and removal             *)
(* (daemon/server.go).  A file at the path is named by who made it.        *)
(***************************************************************************)
EXTENDS Naturals, FiniteSets

CONSTANTS
  Daemons,      \* starts of a daemon on this path
  Crashes,      \* a daemon may die and leave its socket behind
  StartRace,    \* another daemon may act between a start's probe and its listen
  StopRace      \* another daemon may act between a shutdown's check and its removal

VARIABLES path,       \* the socket file at the path: its maker, or "none"
          pc          \* each daemon: down, probed, removed, serving, unlistened, checked, stopped,
                      \* refused or crashed

vars == <<path, pc>>

Init == path = "none" /\ pc = [d \in Daemons |-> "down"]

Goes(d, where) == pc' = [pc EXCEPT ![d] = where]

Listening(d) == d # "none" /\ pc[d] = "serving"

\* In the middle of what the two races split.
Between(d) == (~StartRace /\ pc[d] \in {"probed", "removed"}) \/ (~StopRace /\ pc[d] = "checked")

MayAct(d) == \A other \in Daemons \ {d} : ~Between(other)

-----------------------------------------------------------------------------
(* NewServer *)

\* A bug: whatever is at the path is taken for stale.
ProbeNot(d) == pc[d] = "down" /\ MayAct(d) /\ Goes(d, "probed") /\ UNCHANGED path

Probe(d) ==
  /\ pc[d] = "down" /\ MayAct(d) /\ Goes(d, IF Listening(path) THEN "refused" ELSE "probed")
  /\ UNCHANGED path

RemoveStale(d) == pc[d] = "probed" /\ MayAct(d) /\ Goes(d, "removed") /\ path' = "none"

\* Listen fails on a path that has a file.
Listen(d) ==
  /\ pc[d] = "removed" /\ MayAct(d)
  /\ IF path = "none" THEN Goes(d, "serving") /\ path' = d
     ELSE Goes(d, "refused") /\ UNCHANGED path

-----------------------------------------------------------------------------
(* Shutdown *)

CloseListener(d) == pc[d] = "serving" /\ MayAct(d) /\ Goes(d, "unlistened") /\ UNCHANGED path

\* A bug: the file at the path is removed, whosever it is.
CheckAny(d) ==
  /\ pc[d] = "unlistened" /\ MayAct(d) /\ Goes(d, "checked") /\ UNCHANGED path

\* A bug: closing the listener is taken to remove the file.
CheckNever(d) == pc[d] = "unlistened" /\ MayAct(d) /\ Goes(d, "stopped") /\ UNCHANGED path

\* os.SameFile with the socket that was made at the start,
Check(d) ==
  /\ pc[d] = "unlistened" /\ MayAct(d)
  /\ Goes(d, IF path = d THEN "checked" ELSE "stopped") /\ UNCHANGED path

\* then os.Remove, of whatever is there by now.
Remove(d) == pc[d] = "checked" /\ MayAct(d) /\ Goes(d, "stopped") /\ path' = "none"

Crash(d) ==
  /\ Crashes /\ pc[d] \notin {"down", "refused", "stopped", "crashed"}
  /\ Goes(d, "crashed") /\ UNCHANGED path

\* A start that was refused is tried again.
Retry(d) == pc[d] = "refused" /\ Goes(d, "down") /\ UNCHANGED path

Next ==
  \E d \in Daemons : Probe(d) \/ RemoveStale(d) \/ Listen(d) \/ CloseListener(d) \/ Check(d) \/ Remove(d)
                     \/ Crash(d) \/ Retry(d)

Spec == Init /\ [][Next]_vars

-----------------------------------------------------------------------------
(* Properties. *)

\* What the variables hold; a daemon that has stopped leaves no socket of
\* its own behind, and one that was refused has made none.
TypeOK ==
  /\ path \in Daemons \cup {"none"}
  /\ path # "none" => pc[path] \in {"serving", "unlistened", "checked", "crashed"}

\* A daemon that serves can be reached: the socket at the path is its own.
Reachable == \A d \in Daemons : pc[d] = "serving" => path = d
=============================================================================
