------------------------------- MODULE DbFile -------------------------------
(***************************************************************************)
(* The registry of read-only descriptors on database files                 *)
(* (dbfile/dbfile.go).  Closing any descriptor on an inode drops every     *)
(* lock this process has there, so a descriptor may be closed only while   *)
(* no SQLite connection of the process is on its inode.  Connections take  *)
(* a Hold first; reads take a Section; files are renamed over and removed  *)
(* at any time; sweeps and evictions close what nobody needs, outside the  *)
(* registry's mutex.                                                       *)
(***************************************************************************)
EXTENDS Naturals, FiniteSets, Sequences, SequencesExt

CONSTANTS
  Paths, Inodes,
  Holders, Readers, Sweepers,   \* openers of SQLite connections, readers, eviction passes
  MaxFds,                       \* bound: descriptors at a time
  MaxUses,                      \* bound: Holds and reads
  Keep,                         \* serve -fd-budget
  Reuse                         \* the filesystem hands out freed inode numbers again

VARIABLES
  file, ever,      \* the inode each path names; the inodes ever named
  fd, lru,         \* each descriptor; the live ones, least recently used first
  hold, read,      \* each Hold with its connection, and each Section
  sweep,           \* the stale descriptor a sweep is about to orphan
  uses,
  lost             \* a connection has lost its locks

vars == <<file, ever, fd, lru, hold, read, sweep, uses, lost>>

None == 0

Fds == 1..MaxFds

NoFd == [state |-> "unused", path |-> "none", ino |-> None]

NoHold == [at |-> "idle", path |-> "none", ino |-> None, conn |-> None]

NoRead == [at |-> "idle", path |-> "none", want |-> None, fd |-> None, named |-> {}]

Init ==
  /\ file \in [Paths -> Inodes \cup {None}] /\ ever = {file[p] : p \in Paths}
  /\ \A p, q \in Paths : p # q /\ file[p] # None => file[p] # file[q]
  /\ fd = [i \in Fds |-> NoFd] /\ lru = <<>>
  /\ hold = [c \in Holders |-> NoHold] /\ read = [r \in Readers |-> NoRead]
  /\ sweep = [v \in Sweepers |-> None] /\ uses = 0 /\ lost = FALSE

Holding(c) == hold[c].at \in {"held", "connected", "verified", "closed"}

Connected(c) == hold[c].at \in {"connected", "verified"}

\* pins
Pinned(ino) ==
  \/ \E c \in Holders : Holding(c) /\ hold[c].ino = ino
  \/ \E r \in Readers : read[r].at = "open" /\ fd[read[r].fd].ino = ino

\* held
Held(p) == \E c \in Holders : Holding(c) /\ hold[c].path = p

\* closingPath and closingIno
Closing(p, ino) == \E i \in Fds : fd[i].state = "closing" /\ (fd[i].path = p \/ fd[i].ino = ino)

\* live
LiveAt(p) == {i \in Fds : fd[i].state = "live" /\ fd[i].path = p}

Touched(i) == Append(Remove(lru, i), i)

Orphaned(f, is) == [i \in Fds |-> IF i \in is THEN [f[i] EXCEPT !.state = "orphan"] ELSE f[i]]

-----------------------------------------------------------------------------
(* Hold, Verify and the connection they guard. *)

\* The path is looked at before the mutex is taken,
HoldStat(c, p) ==
  /\ hold[c].at = "idle" /\ file[p] # None /\ uses < MaxUses /\ uses' = uses + 1
  /\ hold' = [hold EXCEPT ![c] = [at |-> "statted", path |-> p, ino |-> file[p], conn |-> None]]
  /\ UNCHANGED <<file, ever, fd, lru, read, sweep, lost>>

\* A bug: a close in flight is not waited for.
HoldTakeAtOnce(c) ==
  /\ hold[c].at = "statted" /\ hold' = [hold EXCEPT ![c].at = "held"]
  /\ UNCHANGED <<file, ever, fd, lru, read, sweep, uses, lost>>

\* and closes in flight on it, or on its inode, are waited for.
HoldTake(c) ==
  /\ hold[c].at = "statted" /\ ~Closing(hold[c].path, hold[c].ino)
  /\ hold' = [hold EXCEPT ![c].at = "held"]
  /\ \/ \E i \in LiveAt(hold[c].path) : fd[i].ino = hold[c].ino /\ lru' = Touched(i)
     \/ (\A i \in LiveAt(hold[c].path) : fd[i].ino # hold[c].ino) /\ UNCHANGED lru
  /\ UNCHANGED <<file, ever, fd, read, sweep, uses, lost>>

\* database/sql connects later, to whatever the path names by then, takes
\* its lock there, and never creates the file.
Connect(c) ==
  /\ hold[c].at = "held"
  /\ LET now == file[hold[c].path] IN
     hold' = [hold EXCEPT ![c] = IF now = None THEN NoHold ELSE [@ EXCEPT !.at = "connected", !.conn = now]]
  /\ UNCHANGED <<file, ever, fd, lru, read, sweep, uses, lost>>


Verify(c) ==
  /\ hold[c].at = "connected"
  /\ hold' = [hold EXCEPT ![c] = IF file[@.path] = @.ino THEN [@ EXCEPT !.at = "verified"]
                                 ELSE [@ EXCEPT !.at = "closed", !.conn = None]]
  /\ UNCHANGED <<file, ever, fd, lru, read, sweep, uses, lost>>

\* The connection is closed first and the Hold released last.
Disconnect(c) ==
  /\ hold[c].at = "verified" /\ hold' = [hold EXCEPT ![c].at = "closed", ![c].conn = None]
  /\ UNCHANGED <<file, ever, fd, lru, read, sweep, uses, lost>>

Release(c) ==
  /\ hold[c].at = "closed" /\ hold' = [hold EXCEPT ![c] = NoHold]
  /\ UNCHANGED <<file, ever, fd, lru, read, sweep, uses, lost>>

-----------------------------------------------------------------------------
(* Reader and Section *)

ReadStat(r, p) ==
  /\ read[r].at = "idle" /\ uses < MaxUses /\ uses' = uses + 1
  /\ read' = [read EXCEPT ![r] = [at |-> "statted", path |-> p, want |-> file[p], fd |-> None,
                                  named |-> {file[p]}]]
  /\ UNCHANGED <<file, ever, fd, lru, hold, sweep, lost>>

ReadFails(r) == read' = [read EXCEPT ![r] = NoRead]

Opened(r, i) == read' = [read EXCEPT ![r].at = "open", ![r].fd = i]

\* A bug: a cached descriptor is used whatever file the path names.
ReadOpenCached(r) ==
  /\ read[r].at = "statted" /\ \E i \in LiveAt(read[r].path) : Opened(r, i) /\ lru' = Touched(i)
  /\ UNCHANGED <<file, ever, fd, hold, sweep, uses, lost>>

\* The cached descriptor, if it is on the inode that was seen;
ReadOpen(r) ==
  /\ read[r].at = "statted"
  /\ \E i \in LiveAt(read[r].path) :
       fd[i].ino = read[r].want /\ Opened(r, i) /\ lru' = Touched(i)
  /\ UNCHANGED <<file, ever, fd, hold, sweep, uses, lost>>

\* A bug: the new entry takes the old one's place in the registry.
ReadReopenOver(r) ==
  LET p == read[r].path IN
  /\ read[r].at = "statted" /\ read[r].want # None /\ file[p] # None
  /\ \A i \in LiveAt(p) : fd[i].ino # read[r].want
  /\ \E i \in Fds : /\ fd[i] = NoFd /\ fd' = [fd EXCEPT ![i] = [state |-> "live", path |-> p, ino |-> file[p]]]
                   /\ lru' = Append(lru, i) /\ Opened(r, i)
  /\ UNCHANGED <<file, ever, hold, sweep, uses, lost>>

\* or else that one is orphaned and the path opened as it is now: the new
\* entry's inode is the descriptor's, not the one that was seen.
ReadReopen(r) ==
  LET p == read[r].path
      old == LiveAt(p)
      kept == SelectSeq(lru, LAMBDA i : i \notin old) IN
  /\ read[r].at = "statted" /\ \A i \in old : fd[i].ino # read[r].want
  /\ IF read[r].want = None \/ file[p] = None
       THEN fd' = Orphaned(fd, old) /\ lru' = kept /\ ReadFails(r)
       ELSE \E i \in Fds :
              /\ fd[i] = NoFd /\ \A j \in 1..(i - 1) : fd[j] # NoFd
              /\ fd' = [Orphaned(fd, old) EXCEPT ![i] = [state |-> "live", path |-> p, ino |-> file[p]]]
              /\ lru' = Append(kept, i) /\ Opened(r, i)
  /\ UNCHANGED <<file, ever, hold, sweep, uses, lost>>

\* A bug: a read that fails keeps its pin.
ReadCloseOnSuccess(r) ==
  /\ read[r].at = "open" /\ fd[read[r].fd].state = "live" /\ ReadFails(r)
  /\ UNCHANGED <<file, ever, fd, lru, hold, sweep, uses, lost>>

\* Section.Close unpins; it closes nothing.
ReadClose(r) ==
  /\ read[r].at = "open" /\ ReadFails(r)
  /\ UNCHANGED <<file, ever, fd, lru, hold, sweep, uses, lost>>

-----------------------------------------------------------------------------
(* Sweeps and evictions *)

\* sweep looks at a cached path without the mutex,
SweepStat(v, i) ==
  /\ sweep[v] = None /\ fd[i].state = "live" /\ file[fd[i].path] # fd[i].ino
  /\ sweep' = [sweep EXCEPT ![v] = i]
  /\ UNCHANGED <<file, ever, fd, lru, hold, read, uses, lost>>

\* and orphans its descriptor if it is still the one.
SweepOrphan(v) ==
  LET i == sweep[v] IN
  /\ i # None /\ sweep' = [sweep EXCEPT ![v] = None]
  /\ IF fd[i].state = "live" THEN fd' = Orphaned(fd, {i}) /\ lru' = Remove(lru, i) ELSE UNCHANGED <<fd, lru>>
  /\ UNCHANGED <<file, ever, hold, read, uses, lost>>

\* Two bugs: a Hold protects its inode only, or its path only.
ClosableByInode(i) == ~Pinned(fd[i].ino)

ClosableByPath(i) == ~Held(fd[i].path)

Closable(i) == ~Pinned(fd[i].ino) /\ ~Held(fd[i].path)

\* markClosingLocked
Marked(is) == fd' = [i \in Fds |-> IF i \in is THEN [fd[i] EXCEPT !.state = "closing"] ELSE fd[i]]

\* closeOrphans
CloseOrphans ==
  /\ LET victims == {i \in Fds : fd[i].state = "orphan" /\ Closable(i)} IN victims # {} /\ Marked(victims)
  /\ UNCHANGED <<file, ever, lru, hold, read, sweep, uses, lost>>

\* evict: the least recently used that may be closed, down to the budget.
Evict ==
  LET excess == Len(lru) - Keep
      may == SelectSeq(lru, Closable)
      victims == {may[k] : k \in {k \in DOMAIN may : k <= excess}} IN
  /\ Len(lru) > Keep /\ victims # {} /\ Marked(victims)
  /\ lru' = SelectSeq(lru, LAMBDA i : i \notin victims)
  /\ UNCHANGED <<file, ever, hold, read, sweep, uses, lost>>

\* closeMarked: close(2) itself, without the mutex.  It drops every lock of
\* the process on that inode.
CloseReturns(i) ==
  /\ fd[i].state = "closing" /\ \A v \in Sweepers : sweep[v] # i
  /\ fd' = [fd EXCEPT ![i] = NoFd]
  /\ lost' = (lost \/ \E c \in Holders : Connected(c) /\ hold[c].conn = fd[i].ino)
  /\ UNCHANGED <<file, ever, lru, hold, read, sweep, uses>>

-----------------------------------------------------------------------------
(* Files: a re-materialization renames a fresh one over the path; a destroy *)
(* or a prune removes it.                                                   *)

Fresh(ino) ==
  /\ \A p \in Paths : file[p] # ino
  /\ \A i \in Fds : fd[i].ino # ino
  /\ \A c \in Holders : hold[c].conn # ino
  /\ Reuse \/ ino \notin ever

Names(p, ino) ==
  /\ file' = [file EXCEPT ![p] = ino] /\ ever' = IF Reuse THEN ever ELSE ever \cup {ino}
  /\ read' = [r \in Readers |-> IF read[r].at = "statted" /\ read[r].path = p
                                THEN [read[r] EXCEPT !.named = @ \cup {ino}] ELSE read[r]]
  /\ UNCHANGED <<fd, lru, hold, sweep, uses, lost>>

Replace(p, ino) == Fresh(ino) /\ Names(p, ino)

Unlink(p) == file[p] # None /\ Names(p, None)

-----------------------------------------------------------------------------
Hold(c) == HoldTake(c) \/ Connect(c) \/ Verify(c) \/ Disconnect(c) \/ Release(c)

Read(r) == ReadOpen(r) \/ ReadReopen(r) \/ ReadClose(r)

Sweep(v) == (\E i \in Fds : SweepStat(v, i)) \/ SweepOrphan(v)

Next ==
  \/ \E c \in Holders : Hold(c) \/ \E p \in Paths : HoldStat(c, p)
  \/ \E r \in Readers : Read(r) \/ \E p \in Paths : ReadStat(r, p)
  \/ \E v \in Sweepers : Sweep(v)
  \/ CloseOrphans \/ Evict \/ \E i \in Fds : CloseReturns(i)
  \/ \E p \in Paths : Unlink(p) \/ \E ino \in Inodes : Replace(p, ino)

Spec == Init /\ [][Next]_vars

\* Sections and connections are closed by those who opened them, a close(2)
\* returns, and the janitor's pass comes round again.
FairSpec ==
  /\ Spec /\ (\A c \in Holders : WF_vars(Hold(c))) /\ (\A r \in Readers : WF_vars(Read(r)))
  /\ (\A v \in Sweepers : WF_vars(Sweep(v))) /\ SF_vars(CloseOrphans)
  /\ \A i \in Fds : WF_vars(CloseReturns(i))

-----------------------------------------------------------------------------
(* Properties. *)

\* What each variable holds: one live descriptor per path, and an order of
\* use over exactly those.
TypeOK ==
  /\ \A p \in Paths : file[p] \in Inodes \cup {None} /\ Cardinality(LiveAt(p)) <= 1
  /\ ToSet(lru) = {i \in Fds : fd[i].state = "live"} /\ IsInjective(lru)
  /\ \A i \in Fds : fd[i].state \in {"unused", "live", "orphan", "closing"}

\* No close ever drops the locks of a connection this process has open,
\* wherever the re-materializations, Holds and closes fall.
LocksKept == ~lost

\* A Section reads from a descriptor that is open, on a file its path named
\* between the call and the return.
SectionsSound ==
  \A r \in Readers : read[r].at = "open" =>
    fd[read[r].fd].state \in {"live", "orphan"} /\ fd[read[r].fd].ino \in read[r].named

\* Verify passes only a connection to the file the path names at that time.
VerifiesTrue ==
  \A c \in Holders : hold[c].at = "connected" /\ hold'[c].at = "verified" =>
    hold[c].conn = file[hold[c].path]

\* A descriptor nobody can be asked for again does not stay open: every
\* orphan is closed, and every stale one becomes an orphan or is used up.
OrphansClosed == \A i \in Fds : fd[i].state = "orphan" ~> fd[i].state # "orphan"
=============================================================================
