--------------------------- MODULE LocalCasProofs ---------------------------
(***************************************************************************)
(* The local store's lock is exclusive, its directories never vanish under *)
(* a file, and its conditional calls are atomic, for any number of         *)
(* processes, calls and lock files.                                        *)
(***************************************************************************)
EXTENDS LocalCas, TLAPS

(* Zenon proves what no step says otherwise of.                             *)
USE Zenon

LEMMA InitLock == Init => LockInv
<1> SUFFICES ASSUME Init PROVE LockInv
  OBVIOUS
<1> USE LocalAssumption DEF Init
<1>1. TypeOK
  BY SMT DEF TypeOK, Contents, Critical, Places
<1> QED
  BY <1>1 DEF LockInv, HoldsLock, Critical

LEMMA StepType == TypeOK /\ [Next]_vars => TypeOK'
<1> SUFFICES ASSUME TypeOK, [Next]_vars PROVE TypeOK'
  OBVIOUS
<1> USE LocalAssumption DEF TypeOK
<1>0. inodes \in Nat /\ 0 \in 0..inodes /\ 0..inodes \subseteq 0..inodes + 1
  BY SMT
<1>1. ASSUME NEW p \in Procs, NEW c \in Calls, NEW streams \in BOOLEAN, Invoke(p, c, streams) PROVE TypeOK'
  BY <1>1 DEF Invoke, Goto, Calls, NoCall, Places, Critical
<1>2. ASSUME NEW p \in Procs, Mkdir(p) PROVE TypeOK'
  BY <1>2 DEF Mkdir, Goto, Places, Critical
<1>3. ASSUME NEW p \in Procs, Stream(p) PROVE TypeOK'
  <2>1. pc' \in [Procs -> Places]
    BY <1>3 DEF Stream, Goto, Places, Critical
  <2>2. fd' \in [Procs -> 0..inodes] /\ flocked' \in [1..MaxInodes -> Procs \cup {NoProc}]
    BY <1>0, <1>3 DEF Stream, Goto
  <2>3. temps' \subseteq Procs \cup {NoProc} /\ result' \in [Procs -> {"none", "ok", "refused", "error"}]
    BY SMT, <1>3 DEF Stream, Goto
  <2> QED
    BY <1>3, <2>1, <2>2, <2>3 DEF Stream, Goto
<1>4. ASSUME NEW p \in Procs, OpenLock(p) PROVE TypeOK'
  <2>1. pc' \in [Procs -> Places]
    BY <1>4 DEF OpenLock, Goto, Places, Critical
  <2>2. inodes' \in 0..MaxInodes /\ lockAt' \in 0..inodes'
    BY SMT, <1>0, <1>4 DEF OpenLock
  <2>3. fd' \in [Procs -> 0..inodes']
    <3>1. CASE inodes' = inodes
      BY SMT, <1>4, <3>1 DEF OpenLock
    <3>2. CASE inodes' = inodes + 1
      BY SMT, <1>0, <1>4, <3>2 DEF OpenLock
    <3> QED
      BY <1>4, <3>1, <3>2 DEF OpenLock
  <2> QED
    BY <1>4, <2>1, <2>2, <2>3 DEF OpenLock
<1>5. ASSUME NEW p \in Procs, Flock(p) PROVE TypeOK'
  <2>1. pc' \in [Procs -> Places]
    BY SMT, <1>5 DEF Flock, Goto, Places, Critical
  <2>2. fd' \in [Procs -> 0..inodes] /\ flocked' \in [1..MaxInodes -> Procs \cup {NoProc}]
    BY SMT, <1>0, <1>5 DEF Flock, Goto
  <2>3. temps' \subseteq Procs \cup {NoProc} /\ result' \in [Procs -> {"none", "ok", "refused", "error"}]
    BY <1>5 DEF Flock, Goto
  <2> QED
    BY <1>5, <2>1, <2>2, <2>3 DEF Flock, Goto
<1>6. ASSUME NEW p \in Procs, CheckInode(p) PROVE TypeOK'
  <2>1. pc' \in [Procs -> Places]
    BY <1>6 DEF CheckInode, SameFile, Close, Goto, Places, Critical
  <2>2. fd' \in [Procs -> 0..inodes] /\ flocked' \in [1..MaxInodes -> Procs \cup {NoProc}]
    BY SMT, <1>0, <1>6 DEF CheckInode, SameFile, Close, Goto
  <2>3. temps' \subseteq Procs \cup {NoProc} /\ result' \in [Procs -> {"none", "ok", "refused", "error"}]
    BY <1>6 DEF CheckInode, SameFile, Close, Goto
  <2> QED
    BY <1>6, <2>1, <2>2, <2>3 DEF CheckInode, SameFile, Close, Goto
<1>7. ASSUME NEW p \in Procs, Compare(p) PROVE TypeOK'
  <2>1. pc' \in [Procs -> Places]
    BY <1>7 DEF Compare, Deletes, Streams, Ends, Goto, Places, Critical
  <2>2. fd' \in [Procs -> 0..inodes] /\ flocked' \in [1..MaxInodes -> Procs \cup {NoProc}]
    BY <1>0, <1>7 DEF Compare, Deletes, Streams, Ends, Goto
  <2>3. temps' \subseteq Procs \cup {NoProc} /\ result' \in [Procs -> {"none", "ok", "refused", "error"}]
    BY <1>7 DEF Compare, Deletes, Streams, Ends, Goto
  <2> QED
    BY <1>7, <2>1, <2>2, <2>3 DEF Compare, Deletes, Streams, Ends, Goto
<1>8. ASSUME NEW p \in Procs, Temp(p) PROVE TypeOK'
  BY <1>8 DEF Temp, Goto, Places, Critical
<1>9. ASSUME NEW p \in Procs, Rename(p) PROVE TypeOK'
  BY SMT, <1>9 DEF Rename, Ends, Goto, Calls, NoCall, Contents, Places, Critical
<1>10. ASSUME NEW p \in Procs, Remove(p) PROVE TypeOK'
  BY <1>10 DEF Remove, Ends, Goto, Contents, Places, Critical
<1>11. ASSUME NEW p \in Procs, Unlink(p) PROVE TypeOK'
  BY SMT, <1>11 DEF Unlink, Goto, Places, Critical
<1>12. ASSUME NEW p \in Procs, Unlock(p) PROVE TypeOK'
  <2>1. pc' \in [Procs -> Places]
    BY <1>12 DEF Unlock, AfterUnlock, Deletes, Close, Goto, Places, Critical
  <2>2. fd' \in [Procs -> 0..inodes] /\ flocked' \in [1..MaxInodes -> Procs \cup {NoProc}]
    BY <1>0, <1>12 DEF Unlock, AfterUnlock, Deletes, Close, Goto
  <2>3. temps' \subseteq Procs \cup {NoProc} /\ result' \in [Procs -> {"none", "ok", "refused", "error"}]
    BY <1>12 DEF Unlock, AfterUnlock, Deletes, Close, Goto
  <2> QED
    BY <1>12, <2>1, <2>2, <2>3 DEF Unlock, AfterUnlock, Deletes, Close, Goto
<1>13. ASSUME NEW p \in Procs, Rmdir(p) PROVE TypeOK'
  BY <1>13 DEF Rmdir, Empty, Goto, Places, Critical
<1>14. ASSUME NEW p \in Procs, Return(p) PROVE TypeOK'
  BY <1>14 DEF Return, Back, Ends, Goto, NoCall, Places, Critical
<1>15. ASSUME NEW p \in Procs, Fails(p) PROVE TypeOK'
  <2>1. pc' \in [Procs -> Places]
    BY <1>15 DEF Fails, Ends, Goto, Places, Critical
  <2>2. fd' \in [Procs -> 0..inodes]
    <3>1. fd' = fd \/ fd' = [fd EXCEPT ![p] = 0]
      BY <1>15 DEF Fails
    <3> QED
      BY <1>0, <3>1
  <2>3. temps' \subseteq Procs \cup {NoProc} /\ result' \in [Procs -> {"none", "ok", "refused", "error"}]
    BY <1>15 DEF Fails, Ends, Goto
  <2> QED
    BY <1>15, <2>1, <2>2, <2>3 DEF Fails, Ends, Goto
<1>16. ASSUME NEW p \in Procs, Dies(p) PROVE TypeOK'
  <2>1. pc' \in [Procs -> Places]
    BY <1>16 DEF Dies, Close, Back, Ends, Goto, NoCall, Places, Critical
  <2>2. fd' \in [Procs -> 0..inodes] /\ flocked' \in [1..MaxInodes -> Procs \cup {NoProc}]
    BY <1>0, <1>16 DEF Dies, Close, Back, Ends, Goto, NoCall
  <2>3. temps' \subseteq Procs \cup {NoProc} /\ result' \in [Procs -> {"none", "ok", "refused", "error"}]
    BY <1>16 DEF Dies, Close, Back, Ends, Goto, NoCall
  <2> QED
    BY <1>16, <2>1, <2>2, <2>3 DEF Dies, Close, Back, Ends, Goto, NoCall
<1>17. CASE UNCHANGED vars
  BY <1>17 DEF vars
<1> QED
  BY SMT, <1>1, <1>2, <1>3, <1>4, <1>5, <1>6, <1>7, <1>8, <1>9, <1>10, <1>11, <1>12, <1>13, <1>14, <1>15, <1>16, <1>17 DEF Next, Step

LEMMA StepLock == LockInv /\ TypeOK' /\ [Next]_vars => LockInv'
<1> SUFFICES ASSUME LockInv, TypeOK', [Next]_vars PROVE LockInv'
  OBVIOUS
<1> USE LocalAssumption DEF LockInv
<1>1. ASSUME NEW p \in Procs, NEW c \in Calls, NEW streams \in BOOLEAN, Invoke(p, c, streams) PROVE LockInv'
  <2>1. ASSUME NEW q \in Procs PROVE HoldsLock(q)'
    <3>1. CASE q = p
      BY SMT, <1>1, <3>1 DEF HoldsLock, TypeOK, Critical, Invoke, Goto, Calls, NoCall
    <3>2. CASE q # p
      BY SMT, <1>1, <3>2 DEF HoldsLock, TypeOK, Critical, Invoke, Goto, Calls, NoCall
    <3> QED
      BY <3>1, <3>2
  <2>2. ASSUME NEW i \in 1..MaxInodes, flocked'[i] # NoProc
        PROVE fd'[flocked'[i]] = i /\ pc'[flocked'[i]] \in Critical \cup {"same", "unlock"}
    BY SMT, <1>1, <2>2 DEF HoldsLock, TypeOK, Critical, Invoke, Goto, Calls, NoCall
  <2>3. ~dir' => content' = Absent /\ lockAt' = 0 /\ temps' = {}
    BY <1>1 DEF HoldsLock, TypeOK, Critical, Invoke, Goto, Calls, NoCall
  <2> QED
    BY <2>1, <2>2, <2>3
<1>2. ASSUME NEW p \in Procs, Mkdir(p) PROVE LockInv'
  <2>1. ASSUME NEW q \in Procs PROVE HoldsLock(q)'
    BY SMT, <1>2 DEF HoldsLock, TypeOK, Critical, Mkdir, Goto
  <2>2. ASSUME NEW i \in 1..MaxInodes, flocked'[i] # NoProc
        PROVE fd'[flocked'[i]] = i /\ pc'[flocked'[i]] \in Critical \cup {"same", "unlock"}
    BY SMT, <1>2, <2>2 DEF HoldsLock, TypeOK, Critical, Mkdir, Goto
  <2>3. ~dir' => content' = Absent /\ lockAt' = 0 /\ temps' = {}
    BY <1>2 DEF HoldsLock, TypeOK, Critical, Mkdir, Goto
  <2> QED
    BY <2>1, <2>2, <2>3
<1>3. ASSUME NEW p \in Procs, Stream(p) PROVE LockInv'
  <2>1. ASSUME NEW q \in Procs PROVE HoldsLock(q)'
    BY SMT, <1>3 DEF HoldsLock, TypeOK, Critical, Stream, Goto
  <2>2. ASSUME NEW i \in 1..MaxInodes, flocked'[i] # NoProc
        PROVE fd'[flocked'[i]] = i /\ pc'[flocked'[i]] \in Critical \cup {"same", "unlock"}
    BY SMT, <1>3, <2>2 DEF HoldsLock, TypeOK, Critical, Stream, Goto
  <2>3. ~dir' => content' = Absent /\ lockAt' = 0 /\ temps' = {}
    BY <1>3 DEF HoldsLock, TypeOK, Critical, Stream, Goto
  <2> QED
    BY <2>1, <2>2, <2>3
<1>4. ASSUME NEW p \in Procs, OpenLock(p) PROVE LockInv'
  <2>1. ASSUME NEW q \in Procs PROVE HoldsLock(q)'
    BY SMT, <1>4 DEF HoldsLock, TypeOK, Critical, OpenLock, Goto
  <2>2. ASSUME NEW i \in 1..MaxInodes, flocked'[i] # NoProc
        PROVE fd'[flocked'[i]] = i /\ pc'[flocked'[i]] \in Critical \cup {"same", "unlock"}
    <3>1. flocked' = flocked /\ flocked[i] \in Procs /\ pc[p] = "open"
      BY SMT, <1>4, <2>2 DEF TypeOK, OpenLock
    <3>2. flocked[i] # p
      BY <2>2, <3>1 DEF Critical
    <3>3. fd'[flocked[i]] = fd[flocked[i]] /\ pc'[flocked[i]] = pc[flocked[i]]
      BY SMT, <1>4, <3>1, <3>2 DEF TypeOK, OpenLock, Goto
    <3> QED
      BY <2>2, <3>1, <3>3
  <2>3. ~dir' => content' = Absent /\ lockAt' = 0 /\ temps' = {}
    BY <1>4 DEF HoldsLock, TypeOK, Critical, OpenLock, Goto
  <2> QED
    BY <2>1, <2>2, <2>3
<1>5. ASSUME NEW p \in Procs, Flock(p) PROVE LockInv'
  <2>1. ASSUME NEW q \in Procs PROVE HoldsLock(q)'
    <3>1. CASE q = p
      <4>1. CASE flocked[fd[p]] = NoProc
        <5>1. pc'[p] = "same" /\ fd' = fd /\ flocked'[fd[p]] = p
          BY SMT, <1>5, <4>1 DEF HoldsLock, TypeOK, Flock, Goto
        <5>2. call' = call /\ result' = result /\ temps' = temps
          BY <1>5 DEF Flock
        <5> QED
          BY SMT, <1>5, <3>1, <5>1, <5>2 DEF HoldsLock, Critical, Flock
      <4>2. CASE flocked[fd[p]] # NoProc
        <5>1. pc'[p] = "lockdir" /\ call' = call /\ result' = result /\ temps' = temps
          BY SMT, <1>5, <4>2 DEF TypeOK, Flock, Goto
        <5> QED
          BY SMT, <1>5, <3>1, <5>1 DEF HoldsLock, Critical, Flock
      <4> QED
        BY <4>1, <4>2
    <3>2. CASE q # p
      BY SMT, <1>5, <3>2 DEF HoldsLock, TypeOK, Critical, Flock, Goto
    <3> QED
      BY <3>1, <3>2
  <2>2. ASSUME NEW i \in 1..MaxInodes, flocked'[i] # NoProc
        PROVE fd'[flocked'[i]] = i /\ pc'[flocked'[i]] \in Critical \cup {"same", "unlock"}
    BY SMT, <1>5, <2>2 DEF HoldsLock, TypeOK, Critical, Flock, Goto
  <2>3. ~dir' => content' = Absent /\ lockAt' = 0 /\ temps' = {}
    BY <1>5 DEF HoldsLock, TypeOK, Critical, Flock, Goto
  <2> QED
    BY <2>1, <2>2, <2>3
<1>6. ASSUME NEW p \in Procs, CheckInode(p) PROVE LockInv'
  <2>1. ASSUME NEW q \in Procs PROVE HoldsLock(q)'
    BY SMT, <1>6 DEF HoldsLock, TypeOK, Critical, CheckInode, SameFile, Close, Goto
  <2>2. ASSUME NEW i \in 1..MaxInodes, flocked'[i] # NoProc
        PROVE fd'[flocked'[i]] = i /\ pc'[flocked'[i]] \in Critical \cup {"same", "unlock"}
    BY SMT, <1>6, <2>2 DEF HoldsLock, TypeOK, Critical, CheckInode, SameFile, Close, Goto
  <2>3. ~dir' => content' = Absent /\ lockAt' = 0 /\ temps' = {}
    BY <1>6 DEF HoldsLock, TypeOK, Critical, CheckInode, SameFile, Close, Goto
  <2> QED
    BY <2>1, <2>2, <2>3
<1>7. ASSUME NEW p \in Procs, Compare(p) PROVE LockInv'
  <2>1. ASSUME NEW q \in Procs PROVE HoldsLock(q)'
    BY SMT, <1>7 DEF HoldsLock, TypeOK, Critical, Compare, Deletes, Streams, Ends, Goto
  <2>2. ASSUME NEW i \in 1..MaxInodes, flocked'[i] # NoProc
        PROVE fd'[flocked'[i]] = i /\ pc'[flocked'[i]] \in Critical \cup {"same", "unlock"}
    BY SMT, <1>7, <2>2 DEF HoldsLock, TypeOK, Critical, Compare, Deletes, Streams, Ends, Goto
  <2>3. ~dir' => content' = Absent /\ lockAt' = 0 /\ temps' = {}
    BY SMT, <1>7 DEF HoldsLock, TypeOK, Critical, Compare, Deletes, Streams, Ends, Goto
  <2> QED
    BY <2>1, <2>2, <2>3
<1>8. ASSUME NEW p \in Procs, Temp(p) PROVE LockInv'
  <2>1. ASSUME NEW q \in Procs PROVE HoldsLock(q)'
    BY SMT, <1>8 DEF HoldsLock, TypeOK, Critical, Temp, Goto
  <2>2. ASSUME NEW i \in 1..MaxInodes, flocked'[i] # NoProc
        PROVE fd'[flocked'[i]] = i /\ pc'[flocked'[i]] \in Critical \cup {"same", "unlock"}
    BY SMT, <1>8, <2>2 DEF HoldsLock, TypeOK, Critical, Temp, Goto
  <2>3. ~dir' => content' = Absent /\ lockAt' = 0 /\ temps' = {}
    BY SMT, <1>8 DEF HoldsLock, TypeOK, Critical, Temp, Goto
  <2> QED
    BY <2>1, <2>2, <2>3
<1>9. ASSUME NEW p \in Procs, Rename(p) PROVE LockInv'
  <2>1. ASSUME NEW q \in Procs PROVE HoldsLock(q)'
    BY SMT, <1>9 DEF HoldsLock, TypeOK, Critical, Rename, Ends, Goto, Calls, NoCall, Contents
  <2>2. ASSUME NEW i \in 1..MaxInodes, flocked'[i] # NoProc
        PROVE fd'[flocked'[i]] = i /\ pc'[flocked'[i]] \in Critical \cup {"same", "unlock"}
    BY SMT, <1>9, <2>2 DEF HoldsLock, TypeOK, Critical, Rename, Ends, Goto, Calls, NoCall, Contents
  <2>3. ~dir' => content' = Absent /\ lockAt' = 0 /\ temps' = {}
    BY SMT, <1>9 DEF HoldsLock, TypeOK, Critical, Rename, Ends, Goto, Calls, NoCall, Contents
  <2> QED
    BY <2>1, <2>2, <2>3
<1>10. ASSUME NEW p \in Procs, Remove(p) PROVE LockInv'
  <2>1. ASSUME NEW q \in Procs PROVE HoldsLock(q)'
    BY SMT, <1>10 DEF HoldsLock, TypeOK, Critical, Remove, Ends, Goto, Contents
  <2>2. ASSUME NEW i \in 1..MaxInodes, flocked'[i] # NoProc
        PROVE fd'[flocked'[i]] = i /\ pc'[flocked'[i]] \in Critical \cup {"same", "unlock"}
    BY SMT, <1>10, <2>2 DEF HoldsLock, TypeOK, Critical, Remove, Ends, Goto, Contents
  <2>3. ~dir' => content' = Absent /\ lockAt' = 0 /\ temps' = {}
    BY <1>10 DEF HoldsLock, TypeOK, Critical, Remove, Ends, Goto, Contents
  <2> QED
    BY <2>1, <2>2, <2>3
<1>11. ASSUME NEW p \in Procs, Unlink(p) PROVE LockInv'
  <2>1. ASSUME NEW q \in Procs PROVE HoldsLock(q)'
    BY SMT, <1>11 DEF HoldsLock, TypeOK, Critical, Unlink, Goto
  <2>2. ASSUME NEW i \in 1..MaxInodes, flocked'[i] # NoProc
        PROVE fd'[flocked'[i]] = i /\ pc'[flocked'[i]] \in Critical \cup {"same", "unlock"}
    BY SMT, <1>11, <2>2 DEF HoldsLock, TypeOK, Critical, Unlink, Goto
  <2>3. ~dir' => content' = Absent /\ lockAt' = 0 /\ temps' = {}
    BY <1>11 DEF HoldsLock, TypeOK, Critical, Unlink, Goto
  <2> QED
    BY <2>1, <2>2, <2>3
<1>12. ASSUME NEW p \in Procs, Unlock(p) PROVE LockInv'
  <2>1. ASSUME NEW q \in Procs PROVE HoldsLock(q)'
    BY SMT, <1>12 DEF HoldsLock, TypeOK, Critical, Unlock, AfterUnlock, Deletes, Close, Goto
  <2>2. ASSUME NEW i \in 1..MaxInodes, flocked'[i] # NoProc
        PROVE fd'[flocked'[i]] = i /\ pc'[flocked'[i]] \in Critical \cup {"same", "unlock"}
    BY SMT, <1>12, <2>2 DEF HoldsLock, TypeOK, Critical, Unlock, AfterUnlock, Deletes, Close, Goto
  <2>3. ~dir' => content' = Absent /\ lockAt' = 0 /\ temps' = {}
    BY <1>12 DEF HoldsLock, TypeOK, Critical, Unlock, AfterUnlock, Deletes, Close, Goto
  <2> QED
    BY <2>1, <2>2, <2>3
<1>13. ASSUME NEW p \in Procs, Rmdir(p) PROVE LockInv'
  <2>1. ASSUME NEW q \in Procs PROVE HoldsLock(q)'
    BY SMT, <1>13 DEF HoldsLock, TypeOK, Critical, Rmdir, Empty, Goto
  <2>2. ASSUME NEW i \in 1..MaxInodes, flocked'[i] # NoProc
        PROVE fd'[flocked'[i]] = i /\ pc'[flocked'[i]] \in Critical \cup {"same", "unlock"}
    BY SMT, <1>13, <2>2 DEF HoldsLock, TypeOK, Critical, Rmdir, Empty, Goto
  <2>3. ~dir' => content' = Absent /\ lockAt' = 0 /\ temps' = {}
    BY <1>13 DEF HoldsLock, TypeOK, Critical, Rmdir, Empty, Goto
  <2> QED
    BY <2>1, <2>2, <2>3
<1>14. ASSUME NEW p \in Procs, Return(p) PROVE LockInv'
  <2>1. ASSUME NEW q \in Procs PROVE HoldsLock(q)'
    BY SMT, <1>14 DEF HoldsLock, TypeOK, Critical, Return, Back, Ends, Goto, NoCall
  <2>2. ASSUME NEW i \in 1..MaxInodes, flocked'[i] # NoProc
        PROVE fd'[flocked'[i]] = i /\ pc'[flocked'[i]] \in Critical \cup {"same", "unlock"}
    BY SMT, <1>14, <2>2 DEF HoldsLock, TypeOK, Critical, Return, Back, Ends, Goto, NoCall
  <2>3. ~dir' => content' = Absent /\ lockAt' = 0 /\ temps' = {}
    BY <1>14 DEF HoldsLock, TypeOK, Critical, Return, Back, Ends, Goto, NoCall
  <2> QED
    BY <2>1, <2>2, <2>3
<1>15. ASSUME NEW p \in Procs, Fails(p) PROVE LockInv'
  <2>1. ASSUME NEW q \in Procs PROVE HoldsLock(q)'
    <3>1. CASE q = p
      <4>1. pc[p] \in {"temp", "rename", "remove"} \/ pc[p] \in {"stream", "open", "flock"}
        BY <1>15 DEF Fails
      <4>2. CASE pc[p] \in {"temp", "rename", "remove"}
        <5>1. pc'[p] = "release" /\ fd' = fd /\ lockAt' = lockAt /\ flocked' = flocked
          BY <1>15, <4>2 DEF TypeOK, Fails, Goto
        <5>2. call' = call /\ p \notin temps'
          BY <1>15 DEF Fails
        <5> QED
          BY <3>1, <4>2, <5>1, <5>2 DEF HoldsLock, Critical
      <4>3. CASE pc[p] \in {"stream", "open", "flock"}
        <5>1. pc'[p] = "return" /\ lockAt' = lockAt /\ flocked' = flocked
          BY SMT, <1>15, <4>3 DEF TypeOK, Fails, Goto
        <5>2. call' = call /\ p \notin temps'
          BY <1>15 DEF Fails
        <5> QED
          BY <3>1, <4>3, <5>1, <5>2 DEF HoldsLock, Critical
      <4> QED
        BY <4>1, <4>2, <4>3
    <3>2. CASE q # p
      BY SMT, <1>15, <3>2 DEF HoldsLock, TypeOK, Critical, Fails, Ends, Goto
    <3> QED
      BY <3>1, <3>2
  <2>2. ASSUME NEW i \in 1..MaxInodes, flocked'[i] # NoProc
        PROVE fd'[flocked'[i]] = i /\ pc'[flocked'[i]] \in Critical \cup {"same", "unlock"}
    BY SMT, <1>15, <2>2 DEF HoldsLock, TypeOK, Critical, Fails, Ends, Goto
  <2>3. ~dir' => content' = Absent /\ lockAt' = 0 /\ temps' = {}
    BY SMT, <1>15 DEF HoldsLock, TypeOK, Critical, Fails, Ends, Goto
  <2> QED
    BY <2>1, <2>2, <2>3
<1>16. ASSUME NEW p \in Procs, Dies(p) PROVE LockInv'
  <2>1. ASSUME NEW q \in Procs PROVE HoldsLock(q)'
    BY SMT, <1>16 DEF HoldsLock, TypeOK, Critical, Dies, Close, Back, Ends, Goto, NoCall
  <2>2. ASSUME NEW i \in 1..MaxInodes, flocked'[i] # NoProc
        PROVE fd'[flocked'[i]] = i /\ pc'[flocked'[i]] \in Critical \cup {"same", "unlock"}
    BY SMT, <1>16, <2>2 DEF HoldsLock, TypeOK, Critical, Dies, Close, Back, Ends, Goto, NoCall
  <2>3. ~dir' => content' = Absent /\ lockAt' = 0 /\ temps' = {}
    BY <1>16 DEF HoldsLock, TypeOK, Critical, Dies, Close, Back, Ends, Goto, NoCall
  <2> QED
    BY <2>1, <2>2, <2>3
<1>17. CASE UNCHANGED vars
  BY <1>17 DEF vars, HoldsLock
<1> QED
  BY <1>1, <1>2, <1>3, <1>4, <1>5, <1>6, <1>7, <1>8, <1>9, <1>10, <1>11, <1>12, <1>13, <1>14, <1>15, <1>16, <1>17 DEF Next, Step

\* The lock's inductive invariant: whoever is in the critical section holds the
\* flock of the very file at the lock's path (lock, release, sameFileAt).
THEOREM LockInvariant == Spec => []LockInv
<1>1. LockInv => TypeOK
  BY DEF LockInv
<1> QED
  BY <1>1, InitLock, StepType, StepLock, PTL DEF Spec

\* At most one process is in the critical section of a key (lock).
THEOREM LockExcludes == Spec => []Exclusive
<1>1. LockInv => Exclusive
  BY SMT DEF LockInv, HoldsLock, TypeOK, Exclusive
<1> QED
  BY <1>1, LockInvariant, PTL

\* A directory that rmdir removed holds no object, lock or temp file
\* (removeEmptyParents).
THEOREM DirectoriesHoldFiles == Spec => []NothingInNoDirectory
<1>1. LockInv => NothingInNoDirectory
  BY DEF LockInv, NothingInNoDirectory
<1> QED
  BY <1>1, LockInvariant, PTL

LEMMA InitAtomic == Init => Reg!CasInit
BY DEF Init, Reg!CasInit, Contents, NoCall, Reg!Contents, Reg!NoCall

LEMMA StepAtomic == LockInv /\ LockInv' /\ [Next]_vars => [Reg!CasNext]_(Reg!casVars)
<1> SUFFICES ASSUME LockInv, LockInv', [Next]_vars PROVE [Reg!CasNext]_(Reg!casVars)
  OBVIOUS
<1>1. ASSUME NEW p \in Procs, NEW c \in Calls, NEW streams \in BOOLEAN, Invoke(p, c, streams)
      PROVE c \in Reg!Calls /\ Reg!Invoke(p, c)
  BY <1>1 DEF LockInv, HoldsLock, TypeOK, Invoke, Calls, Contents, NoCall, Reg!Calls, Reg!Contents, Reg!NoCall, Reg!Invoke
<1>2. ASSUME NEW p \in Procs,
             \/ Mkdir(p) \/ Stream(p) \/ OpenLock(p) \/ Flock(p) \/ CheckInode(p)
             \/ Temp(p) \/ Unlink(p) \/ Unlock(p) \/ Rmdir(p)
      PROVE UNCHANGED Reg!casVars
  BY <1>2 DEF Mkdir, Stream, OpenLock, Flock, CheckInode, Temp, Unlink, Unlock, Rmdir, Reg!casVars
<1>3. ASSUME NEW p \in Procs, Compare(p) PROVE Reg!Refuse(p) \/ UNCHANGED Reg!casVars
  BY <1>3 DEF LockInv, HoldsLock, Compare, Ends, NoCall, Critical, Reg!Refuse, Reg!casVars, Reg!NoCall
<1>4. ASSUME NEW p \in Procs, Rename(p) \/ Remove(p) PROVE Reg!Apply(p)
  BY <1>4 DEF LockInv, HoldsLock, Rename, Remove, Ends, NoCall, Reg!Apply, Reg!NoCall
<1>5. ASSUME NEW p \in Procs, Return(p) PROVE Reg!Finish(p)
  BY <1>5 DEF LockInv, HoldsLock, Return, Back, Ends, NoCall, Reg!Finish, Reg!NoCall
<1>6. ASSUME NEW p \in Procs, Dies(p) PROVE Reg!Finish(p)
  BY <1>6 DEF LockInv, HoldsLock, Dies, Back, Ends, NoCall, Reg!Finish, Reg!NoCall
<1>7. ASSUME NEW p \in Procs, Fails(p) PROVE Reg!Abort(p)
  BY <1>7 DEF LockInv, HoldsLock, Fails, Ends, NoCall, Reg!Abort, Reg!NoCall
<1>8. CASE UNCHANGED vars
  BY <1>8 DEF vars, Reg!casVars
<1> QED
  BY <1>1, <1>2, <1>3, <1>4, <1>5, <1>6, <1>7, <1>8 DEF Next, Step, Reg!CasNext

\* The local store's conditional calls implement an atomic register: PutIf,
\* PutReaderIf and DeleteIf each take effect at one moment or never.
THEOREM LocalIsAtomic == Spec => Atomic
<1>1. Spec => Reg!CasInit /\ [][Reg!CasNext]_(Reg!casVars)
  BY InitAtomic, StepAtomic, LockInvariant, PTL DEF Spec
<1> QED
  BY <1>1 DEF Atomic, Reg!CasSpec
=============================================================================
