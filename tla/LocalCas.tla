------------------------------ MODULE LocalCas ------------------------------
(***************************************************************************)
(* The local store's conditional calls on one key (store/local.go): a lock *)
(* file taken with flock, a compare, a rename or an unlink, and the        *)
(* removal of the directory a delete emptied.  Processes are operating     *)
(* system processes; a dead one's descriptors are closed for it, and its   *)
(* lock and temp files stay on disk.                                       *)
(*                                                                         *)
(* The lock is a file that comes and goes: inodes number the files that    *)
(* were ever made at its path, and a process may hold the flock of one     *)
(* that is no longer there.                                                *)
(***************************************************************************)
EXTENDS Naturals

CONSTANTS Procs, Values, Absent, NoProc,
          MaxInodes, MaxCalls      \* bounds

ASSUME LocalAssumption == NoProc \notin Procs /\ MaxInodes \in Nat

VARIABLES
  content,    \* the object at the key's path, or Absent
  dir,        \* whether the key's directory exists
  lockAt,     \* the inode at the lock's path, 0 for none
  inodes,     \* how many lock files were made so far
  flocked,    \* who holds the flock of each inode
  temps,      \* whose temp files are in the directory
  pc, fd, call, result,
  calls       \* how many calls were made, for the bound

vars == <<content, dir, lockAt, inodes, flocked, temps, pc, fd, call, result, calls>>

Reg == INSTANCE CasRegister

Contents == Values \cup {Absent}

NoCall == [old |-> Absent, new |-> Absent]

\* PutIf, DeleteIf
Calls == {c \in [old: Contents, new: Contents] : c.old # Absent \/ c.new # Absent}

Init ==
  /\ content \in Contents /\ dir = (content # Absent)
  /\ lockAt = 0 /\ inodes = 0 /\ flocked = [i \in 1..MaxInodes |-> NoProc]
  /\ temps = {}
  /\ pc = [p \in Procs |-> "idle"] /\ fd = [p \in Procs |-> 0]
  /\ call = [p \in Procs |-> NoCall] /\ result = [p \in Procs |-> "none"]
  /\ calls = 0

Goto(p, at) == pc' = [pc EXCEPT ![p] = at]

Ends(p, r) == result' = [result EXCEPT ![p] = r]

Deletes(p) == call[p].new = Absent

Streams(p) == p \in temps

\* A call starts; PutReaderIf (streams) writes its temp file before it locks.
Invoke(p, c, streams) ==
  /\ pc[p] = "idle" /\ calls < MaxCalls
  /\ streams => c.new # Absent
  /\ calls' = calls + 1
  /\ call' = [call EXCEPT ![p] = c]
  /\ Goto(p, IF streams THEN "streamdir" ELSE "lockdir")
  /\ UNCHANGED <<content, dir, lockAt, inodes, flocked, temps, fd, result>>

\* inDir's MkdirAll, before a temp or a lock file is made.
Mkdir(p) ==
  /\ pc[p] \in {"streamdir", "lockdir"}
  /\ dir' = TRUE
  /\ Goto(p, IF pc[p] = "streamdir" THEN "stream" ELSE "open")
  /\ UNCHANGED <<content, lockAt, inodes, flocked, temps, fd, call, result, calls>>

\* writeReaderTemp; a directory that vanished meanwhile is made again.
Stream(p) ==
  /\ pc[p] = "stream"
  /\ IF dir THEN temps' = temps \cup {p} /\ Goto(p, "lockdir")
            ELSE UNCHANGED temps /\ Goto(p, "streamdir")
  /\ UNCHANGED <<content, dir, lockAt, inodes, flocked, fd, call, result, calls>>

\* open with O_CREATE: the file at the lock's path, or a new one.
OpenLock(p) ==
  /\ pc[p] = "open"
  /\ \/ /\ ~dir /\ Goto(p, "lockdir")
        /\ UNCHANGED <<lockAt, inodes, fd>>
     \/ /\ dir /\ lockAt # 0
        /\ fd' = [fd EXCEPT ![p] = lockAt] /\ Goto(p, "flock")
        /\ UNCHANGED <<lockAt, inodes>>
     \/ /\ dir /\ lockAt = 0 /\ inodes < MaxInodes
        /\ inodes' = inodes + 1 /\ lockAt' = inodes + 1
        /\ fd' = [fd EXCEPT ![p] = inodes + 1] /\ Goto(p, "flock")
  /\ UNCHANGED <<content, dir, flocked, temps, call, result, calls>>

\* A non-blocking flock: taken, or closed and tried again from the start.
Flock(p) ==
  /\ pc[p] = "flock"
  /\ \/ /\ flocked[fd[p]] = NoProc
        /\ flocked' = [flocked EXCEPT ![fd[p]] = p] /\ Goto(p, "same")
        /\ UNCHANGED fd
     \/ /\ flocked[fd[p]] # NoProc
        /\ fd' = [fd EXCEPT ![p] = 0] /\ Goto(p, "lockdir")
        /\ UNCHANGED flocked
  /\ UNCHANGED <<content, dir, lockAt, inodes, temps, call, result, calls>>

Close(p) ==
  /\ flocked' = [i \in DOMAIN flocked |-> IF flocked[i] = p THEN NoProc ELSE flocked[i]]
  /\ fd' = [fd EXCEPT ![p] = 0]

\* Mutant: the inode that was locked is taken for the one at the path.
SameFileAssumed(p) == TRUE

\* sameFileAt
SameFile(p) == lockAt = fd[p]

CheckInode(p) ==
  /\ pc[p] = "same"
  /\ \/ SameFile(p) /\ Goto(p, "compare") /\ UNCHANGED <<flocked, fd>>
     \/ ~SameFile(p) /\ Goto(p, "lockdir") /\ Close(p)
  /\ UNCHANGED <<content, dir, lockAt, inodes, temps, call, result, calls>>

\* The read and the compare under the lock.
Compare(p) ==
  /\ pc[p] = "compare"
  /\ \/ /\ content = call[p].old
        /\ Goto(p, IF Deletes(p) THEN "remove" ELSE IF Streams(p) THEN "rename" ELSE "temp")
        /\ UNCHANGED <<result, temps>>
     \/ /\ content # call[p].old
        /\ Ends(p, "refused") /\ Goto(p, "release") /\ temps' = temps \ {p}
  /\ UNCHANGED <<content, dir, lockAt, inodes, flocked, fd, call, calls>>

\* write, up to its rename: the lock file keeps the directory from vanishing.
Temp(p) ==
  /\ pc[p] = "temp"
  /\ temps' = temps \cup {p} /\ Goto(p, "rename")
  /\ UNCHANGED <<content, dir, lockAt, inodes, flocked, fd, call, result, calls>>

Rename(p) ==
  /\ pc[p] = "rename"
  /\ content' = call[p].new /\ temps' = temps \ {p}
  /\ Ends(p, "ok") /\ Goto(p, "release")
  /\ UNCHANGED <<dir, lockAt, inodes, flocked, fd, call, calls>>

\* deleteIfLocked's unlink
Remove(p) ==
  /\ pc[p] = "remove"
  /\ content' = Absent
  /\ Ends(p, "ok") /\ Goto(p, "release")
  /\ UNCHANGED <<dir, lockAt, inodes, flocked, temps, fd, call, calls>>

\* release: unlink the lock file, still holding its flock, ...
Unlink(p) ==
  /\ pc[p] = "release"
  /\ lockAt' = 0 /\ Goto(p, "unlock")
  /\ UNCHANGED <<content, dir, inodes, flocked, temps, fd, call, result, calls>>

AfterUnlock(p) == IF Deletes(p) /\ result[p] = "ok" THEN "rmdir" ELSE "return"

\* ... then give it up.
Unlock(p) ==
  /\ pc[p] = "unlock"
  /\ Close(p) /\ Goto(p, AfterUnlock(p))
  /\ UNCHANGED <<content, dir, lockAt, inodes, temps, call, result, calls>>

\* Mutant: whatever is in the directory goes with it.
EmptyAnyway == TRUE

\* rmdir removes only an empty directory.
Empty == content = Absent /\ lockAt = 0 /\ temps = {}

\* removeEmptyParents
Rmdir(p) ==
  /\ pc[p] = "rmdir"
  /\ dir' = IF Empty THEN FALSE ELSE dir
  /\ Goto(p, "return")
  /\ UNCHANGED <<content, lockAt, inodes, flocked, temps, fd, call, result, calls>>

Back(p) ==
  /\ Goto(p, "idle")
  /\ call' = [call EXCEPT ![p] = NoCall]
  /\ Ends(p, "none")

Return(p) ==
  /\ pc[p] = "return" /\ Back(p)
  /\ UNCHANGED <<content, dir, lockAt, inodes, flocked, temps, fd, calls>>

\* An error: lock's five seconds are up, a directory keeps vanishing, or a
\* write fails.  Whoever holds the lock releases it.
Fails(p) ==
  /\ pc[p] \in {"stream", "open", "flock", "temp", "rename", "remove"}
  /\ Ends(p, "error") /\ temps' = temps \ {p}
  /\ IF pc[p] \in {"temp", "rename", "remove"}
     THEN Goto(p, "release") /\ UNCHANGED fd
     ELSE Goto(p, "return") /\ fd' = [fd EXCEPT ![p] = 0]
  /\ UNCHANGED <<content, dir, lockAt, inodes, flocked, call, calls>>

\* Mutant: a lock is a file that exists, so the dead keep theirs.
DiesHolding(p) ==
  /\ pc[p] # "idle"
  /\ fd' = [fd EXCEPT ![p] = 0] /\ Back(p)
  /\ UNCHANGED <<content, dir, lockAt, inodes, flocked, temps, calls>>

\* The process dies: its descriptors are closed, its files stay.  A temp file
\* left behind is nobody's; it only keeps the directory, as a live one does.
Dies(p) ==
  /\ pc[p] # "idle"
  /\ Close(p) /\ Back(p)
  /\ temps' = IF p \in temps THEN (temps \ {p}) \cup {NoProc} ELSE temps
  /\ UNCHANGED <<content, dir, lockAt, inodes, calls>>

Step(p) ==
  \/ Mkdir(p) \/ Stream(p) \/ OpenLock(p) \/ Flock(p) \/ CheckInode(p)
  \/ Compare(p) \/ Temp(p) \/ Rename(p) \/ Remove(p)
  \/ Unlink(p) \/ Unlock(p) \/ Rmdir(p) \/ Return(p)

Next ==
  \E p \in Procs :
    \/ \E c \in Calls, streams \in BOOLEAN : Invoke(p, c, streams)
    \/ Step(p) \/ Fails(p) \/ Dies(p)

Spec == Init /\ [][Next]_vars

\* A process that is alive runs on.
FairSpec == Spec /\ \A p \in Procs : WF_vars(Step(p))

-----------------------------------------------------------------------------
Critical == {"compare", "temp", "rename", "remove", "release"}

Places == Critical \cup {"idle", "streamdir", "stream", "lockdir", "open", "flock", "same", "unlock", "rmdir", "return"}

TypeOK ==
  /\ content \in Contents /\ dir \in BOOLEAN
  /\ inodes \in 0..MaxInodes /\ lockAt \in 0..inodes
  /\ flocked \in [1..MaxInodes -> Procs \cup {NoProc}]
  /\ temps \subseteq Procs \cup {NoProc}
  /\ pc \in [Procs -> Places]
  /\ fd \in [Procs -> 0..inodes]
  /\ call \in [Procs -> Calls \cup {NoCall}]
  /\ result \in [Procs -> {"none", "ok", "refused", "error"}]

\* Who is in the critical section holds the flock of the very file at the lock's
\* path, has found there what it expects, and has no result yet unless it is
\* about to release; whoever holds a flock has that file open.
HoldsLock(p) ==
  /\ pc[p] \in Critical => lockAt = fd[p]
  /\ pc[p] \in Critical \cup {"same", "unlock"} => fd[p] # 0 /\ flocked[fd[p]] = p
  /\ pc[p] = "flock" => fd[p] # 0
  /\ pc[p] \in {"temp", "rename", "remove"} => content = call[p].old
  /\ pc[p] = "remove" => call[p].new = Absent
  /\ pc[p] \in {"temp", "rename"} => call[p].new # Absent
  /\ (pc[p] = "idle") = (call[p] = NoCall)
  /\ pc[p] \notin {"release", "unlock", "rmdir", "return"} => result[p] = "none"
  /\ pc[p] \in {"streamdir", "stream"} \/ p \in temps => call[p].new # Absent
  /\ pc[p] \in {"release", "unlock", "rmdir", "return"} => p \notin temps

\* A directory that is not there holds nothing, and the lock's invariant holds
\* of every process (lock, removeEmptyParents): what makes the calls atomic.
LockInv ==
  /\ TypeOK
  /\ \A p \in Procs : HoldsLock(p)
  /\ \A i \in 1..MaxInodes : flocked[i] # NoProc =>
       fd[flocked[i]] = i /\ pc[flocked[i]] \in Critical \cup {"same", "unlock"}
  /\ ~dir => content = Absent /\ lockAt = 0 /\ temps = {}

\* One process at a time is between the check of its lock's inode and the
\* unlink of it, although lock files are unlinked under waiters that already
\* opened them and left behind by the dead (lock, sameFileAt).
Exclusive ==
  \A p, q \in Procs : pc[p] \in Critical /\ pc[q] \in Critical => p = q

\* No interleaving of a delete's rmdir with a writer loses an object, a lock or
\* a temp file (removeEmptyParents, inDir).
NothingInNoDirectory == ~dir => content = Absent /\ lockAt = 0 /\ temps = {}

\* PutIf, PutReaderIf and DeleteIf take effect at one moment each, and a call
\* that returns an error, or whose process died, before it had an effect never
\* has one (Local's compare-and-swap, WritesSettled).
Atomic == Reg!CasSpec

\* No call waits for ever on a lock whose holder is gone, on a lock file that was
\* unlinked or on a directory that vanished: it ends without its timeout.
CallsEnd == \A p \in Procs : pc[p] # "idle" ~> pc[p] = "idle"
=============================================================================
