------------------------------ MODULE Sidecar ------------------------------
(***************************************************************************)
(* What a checkout's .sum sidecar and its shadow vouch for (ops/sidecar.go,*)
(* with the checkouts, checkpoints, refreshes and session closes that      *)
(* write them).                                                            *)
(*                                                                         *)
(* One branch, whose heads are 1, 2, ...: truth[i] is the content the store*)
(* resolves head i to.  A checkout is a database in WAL mode, the file     *)
(* beside a WAL.  Its writes keep its size, and the change counter is no   *)
(* evidence in WAL mode, so what is left of a fingerprint is the mtime.    *)
(* A tick of the clock is the granularity of mtimes, and the safety margin *)
(* of fingerprintMatches spans one tick.  A checksum and a hash tell any   *)
(* two contents apart.                                                     *)
(***************************************************************************)
EXTENDS Naturals, Sequences, TLC

CONSTANTS Procs,        \* the operations that may run at once
          Contents,     \* what a database can hold
          None,
          Broken,       \* a head whose last segment does not apply
          Unknown,      \* untrustedHash, and a checksum nobody knows
          MaxHeads, MaxWrites, MaxClock, MaxOps,
          RefreshRace,  \* the file may change between a rename and the hash of writeSum
          SlowStamp,    \* a tick may pass between a rename and StampSum's stat
          Overwrites    \* the object of a checkpoint may be replaced out of band

VARIABLES file,    \* the main file: content and mtime, or None
          wal,     \* the content the WAL adds, None when it is empty
          clock,
          truth, lease,
          sc,      \* the sidecar, or None
          shadow,  \* the content of the shadow file, or None
          pc, loc, \* where each operation is, and what it has read
          writes, ops

vars == <<file, wal, clock, truth, lease, sc, shadow, pc, loc, writes, ops>>

Sum(id, hash, sum, fp, at) ==
  [id |-> id, hash |-> hash, sum |-> sum, fp |-> fp, at |-> at, shadow |-> FALSE]

\* at: the clock before the first stat; fp: its mtime; got: what was hashed;
\* clean: the content a "clean" verdict was given for.
NoLoc == [op |-> None, ref |-> 0, rec |-> None, fp |-> None, at |-> 0,
          got |-> None, sum |-> None, seg |-> FALSE, clean |-> None]

HeadId == Len(truth)

Init ==
  /\ file = None /\ wal = None /\ clock = 0
  /\ \E c \in Contents : truth = <<c>>
  /\ lease = None /\ sc = None /\ shadow = None
  /\ pc = [p \in Procs |-> "idle"] /\ loc = [p \in Procs |-> NoLoc]
  /\ writes = 0 /\ ops = 0

Go(p, label) == pc' = [pc EXCEPT ![p] = label]

At(p, label) == pc[p] = label

End(p) == Go(p, "idle") /\ loc' = [loc EXCEPT ![p] = NoLoc]

\* What it has read is of no more use.
Fresh(p) == [loc EXCEPT ![p] = [NoLoc EXCEPT !.op = loc[p].op, !.ref = loc[p].ref]]

\* The file is as a checkout leaves it: a session goes on, all else ends.
Finish(p) ==
  IF loc[p].op = "session" THEN Go(p, "session") /\ loc' = Fresh(p) ELSE End(p)

Freed(p) == IF lease = p THEN None ELSE lease

Store == <<truth, lease>>
Local == <<file, wal, sc, shadow>>

(***************************************************************************)
(* The application, and time.                                              *)
(***************************************************************************)
Settled(p) ==
  RefreshRace \/ \A q \in Procs \ {p} : pc[q] \notin {"sum", "sumread"}

Content == IF wal = None THEN file.c ELSE wal

Write(c) ==
  /\ file # None /\ writes < MaxWrites /\ c # Content
  /\ wal' = c /\ writes' = writes + 1
  /\ UNCHANGED <<file, clock, Store, sc, shadow, pc, loc, ops>>

Folds == file' = (IF wal = None THEN file ELSE [c |-> wal, mt |-> clock]) /\ wal' = None

Fold ==
  /\ wal # None /\ Settled(None)
  /\ Folds
  /\ UNCHANGED <<clock, Store, sc, shadow, pc, loc, writes, ops>>

Tick ==
  /\ clock < MaxClock
  /\ SlowStamp \/ \A p \in Procs : pc[p] # "stamp"
  /\ clock' = clock + 1
  /\ UNCHANGED <<Local, Store, pc, loc, writes, ops>>

(***************************************************************************)
(* Beginnings.                                                             *)
(***************************************************************************)
Begins(p, op, ref, label) ==
  /\ At(p, "idle") /\ ops < MaxOps /\ ops' = ops + 1
  /\ loc' = [loc EXCEPT ![p] = [NoLoc EXCEPT !.op = op, !.ref = ref]]
  /\ Go(p, label)
  /\ UNCHANGED <<Local, clock, writes>>

\* warnIfUncheckpointed
BeginProbe(p) ==
  /\ file # None
  /\ Begins(p, "probe", HeadId, "quiesce")
  /\ UNCHANGED Store

BeginCheckout(p) ==
  /\ Begins(p, "checkout", HeadId, IF file = None THEN "place" ELSE "quiesce")
  /\ UNCHANGED Store

BeginCheckpoint(p) ==
  /\ file # None /\ lease = None
  /\ Begins(p, "checkpoint", HeadId, "quiesce")
  /\ lease' = p /\ UNCHANGED truth

\* A rollback, promote or compact that has won its write: the branch is at the
\* content of an earlier head, and no lease survives it.
BeginRepoint(p) ==
  /\ HeadId < MaxHeads
  /\ Begins(p, "repoint", HeadId + 1, IF file = None THEN "place" ELSE "quiesce")
  /\ \E i \in 1..HeadId : truth[i] # Broken /\ truth' = Append(truth, truth[i])
  /\ lease' = None

\* Open takes the lease, then checks out as CheckoutProven does.
BeginSession(p) ==
  /\ lease = None
  /\ Begins(p, "session", HeadId, IF file = None THEN "place" ELSE "quiesce")
  /\ lease' = p /\ UNCHANGED truth

\* Mutant: a busy checkout leaves the lease behind.
QuiesceHolding(p) ==
  /\ At(p, "quiesce")
  /\ \/ /\ Settled(p) /\ Folds
        /\ Go(p, CASE loc[p].op = "checkpoint" -> "plan"
                   [] loc[p].op = "repoint" -> "place"
                   [] OTHER -> "state")
        /\ UNCHANGED <<lease, loc>>
     \/ End(p) /\ UNCHANGED <<file, wal, lease>>
  /\ UNCHANGED <<clock, truth, sc, shadow, writes, ops>>

\* Busy, or replaced meanwhile: the operation ends there.
Quiesce(p) ==
  /\ At(p, "quiesce")
  /\ \/ /\ Settled(p) /\ Folds
        /\ Go(p, CASE loc[p].op = "checkpoint" -> "plan"
                   [] loc[p].op = "repoint" -> "place"
                   [] OTHER -> "state")
        /\ UNCHANGED <<lease, loc>>
     \/ End(p) /\ lease' = Freed(p) /\ UNCHANGED <<file, wal>>
  /\ UNCHANGED <<clock, truth, sc, shadow, writes, ops>>

(***************************************************************************)
(* checkoutState.                                                          *)
(***************************************************************************)
\* A checkout that is not clean is placed anew; a probe only warns.
NotClean(p) ==
  IF loc[p].op = "probe" THEN End(p) ELSE Go(p, "place") /\ loc' = Fresh(p)

ReadSidecar(p) ==
  /\ At(p, "state")
  /\ IF sc # None /\ sc.id = loc[p].ref
     THEN loc' = [loc EXCEPT ![p].rec = sc] /\ Go(p, "look")
     ELSE NotClean(p)
  /\ UNCHANGED <<Local, clock, Store, writes, ops>>


Matches(rec) == rec.fp # None /\ file.mt = rec.fp /\ rec.fp < rec.at

Look(p) ==
  /\ At(p, "look")
  /\ IF Matches(loc[p].rec)
     THEN loc' = [loc EXCEPT ![p].clean = file.c] /\ Go(p, "clean")
     ELSE loc' = [loc EXCEPT ![p].fp = file.mt, ![p].at = clock] /\ Go(p, "hash")
  /\ UNCHANGED <<Local, clock, Store, writes, ops>>

Hash(p) ==
  /\ At(p, "hash")
  /\ IF file.c = loc[p].rec.hash
     THEN loc' = [loc EXCEPT ![p].got = file.c] /\ Go(p, "restamp")
     ELSE NotClean(p)
  /\ UNCHANGED <<Local, clock, Store, writes, ops>>

\* Mutant: the record is stamped with the mtime after the hash alone.
RestampAfter(p) ==
  /\ At(p, "restamp")
  /\ sc' = [loc[p].rec EXCEPT !.fp = file.mt, !.at = clock]
  /\ loc' = [loc EXCEPT ![p].clean = loc[p].got] /\ Go(p, "clean")
  /\ UNCHANGED <<file, wal, shadow, clock, Store, writes, ops>>

\* The fingerprint is recorded only when the one before the hash still holds;
\* the rest of the record is the one that was read.
Restamp(p) ==
  /\ At(p, "restamp")
  /\ sc' = [loc[p].rec EXCEPT !.fp = IF file.mt = loc[p].fp THEN file.mt ELSE None,
                              !.at = IF file.mt = loc[p].fp THEN loc[p].at ELSE 0]
  /\ loc' = [loc EXCEPT ![p].clean = loc[p].got] /\ Go(p, "clean")
  /\ UNCHANGED <<file, wal, shadow, clock, Store, writes, ops>>

Return(p) ==
  /\ At(p, "clean") /\ Finish(p)
  /\ UNCHANGED <<Local, clock, Store, writes, ops>>

(***************************************************************************)
(* A fresh file and its stamp.                                             *)
(***************************************************************************)
\* The file is renamed over the path and stale WAL siblings are removed.  A
\* clone of a by-chain entry comes with its hash, which only CheckoutProven
\* uses.
Place(p) ==
  /\ At(p, "place") /\ Settled(p)
  /\ IF truth[loc[p].ref] = Broken
     THEN End(p) /\ lease' = Freed(p) /\ UNCHANGED <<file, wal>>
     ELSE /\ file' = [c |-> truth[loc[p].ref], mt |-> clock] /\ wal' = None
          /\ \/ loc[p].op # "repoint" /\ Go(p, "stamp")
             \/ Go(p, "sum")
          /\ UNCHANGED <<loc, lease>>
  /\ UNCHANGED <<sc, shadow, clock, truth, writes, ops>>

StampSum(p) ==
  /\ At(p, "stamp")
  /\ LET ref == loc[p].ref IN sc' = Sum(ref, truth[ref], truth[ref], file.mt, clock)
  /\ Go(p, "clone") /\ loc' = Fresh(p)
  /\ UNCHANGED <<file, wal, shadow, clock, Store, writes, ops>>

\* sandwichedSum and sandwichedSums, before and during the hash.
SumBefore(p) ==
  /\ pc[p] \in {"sum", "cksum"}
  /\ loc' = [loc EXCEPT ![p].fp = file.mt, ![p].at = clock]
  /\ Go(p, IF At(p, "sum") THEN "sumread" ELSE "cksumread")
  /\ UNCHANGED <<Local, clock, Store, writes, ops>>

\* A WAL with something in it makes the checksum of the file no evidence.
SumRead(p) ==
  /\ pc[p] \in {"sumread", "cksumread"}
  /\ loc' = [loc EXCEPT ![p].got = IF At(p, "sumread") \/ wal = None THEN file.c ELSE Unknown]
  /\ Go(p, IF At(p, "sumread") THEN "sumwrite" ELSE "ckstamp")
  /\ UNCHANGED <<Local, clock, Store, writes, ops>>

Undisturbed(p) == file.mt = loc[p].fp

WriteSum(p) ==
  /\ At(p, "sumwrite")
  /\ LET l == loc[p] IN
     sc' = IF Undisturbed(p) THEN Sum(l.ref, l.got, truth[l.ref], l.fp, l.at)
                             ELSE Sum(l.ref, l.got, truth[l.ref], None, 0)
  /\ Go(p, "clone") /\ loc' = Fresh(p)
  /\ UNCHANGED <<file, wal, shadow, clock, Store, writes, ops>>

(***************************************************************************)
(* The shadow.                                                             *)
(***************************************************************************)
DropsShadow ==
  /\ shadow' = None
  /\ sc' = IF sc = None THEN None ELSE [sc EXCEPT !.shadow = FALSE]

\* A filesystem that cannot clone drops the shadow.
CloneShadow(p) ==
  /\ At(p, "clone")
  /\ \/ shadow' = file.c /\ UNCHANGED sc /\ Go(p, "setread") /\ UNCHANGED loc
     \/ DropsShadow /\ Finish(p)
  /\ UNCHANGED <<file, wal, clock, Store, writes, ops>>

\* setSidecarShadow reads the record and writes it back.
SetRead(p) ==
  /\ At(p, "setread")
  /\ loc' = [loc EXCEPT ![p].rec = sc] /\ Go(p, "setwrite")
  /\ UNCHANGED <<Local, clock, Store, writes, ops>>

SetWrite(p) ==
  /\ At(p, "setwrite")
  /\ sc' = IF loc[p].rec.shadow THEN sc ELSE [loc[p].rec EXCEPT !.shadow = TRUE]
  /\ Finish(p)
  /\ UNCHANGED <<file, wal, shadow, clock, Store, writes, ops>>

DropShadow(p) ==
  /\ At(p, "drop")
  /\ DropsShadow /\ End(p)
  /\ UNCHANGED <<file, wal, clock, Store, writes, ops>>

(***************************************************************************)
(* checkpointLeased.                                                       *)
(***************************************************************************)
\* Mutant: a shadow is good for any head.
SegmentShadowAny(ref) == sc # None /\ sc.shadow /\ sc.sum # None /\ shadow # None

SegmentShadow(ref) ==
  sc # None /\ sc.shadow /\ sc.sum # None /\ sc.id = ref /\ shadow # None

\* A snapshot whenever the caller, the bound on the chain or the changed
\* fraction says so.
Plan(p) ==
  /\ At(p, "plan")
  /\ \/ /\ SegmentShadow(loc[p].ref)
        /\ loc' = [loc EXCEPT ![p].rec = sc] /\ Go(p, "diff")
     \/ loc' = [loc EXCEPT ![p].got = file.c] /\ Go(p, "commit")
  /\ UNCHANGED <<Local, clock, Store, writes, ops>>

\* Mutant: the shadow is not held against the checksum of its record.
DiffPagesUnverified(p) ==
  /\ At(p, "diff")
  /\ loc' = [loc EXCEPT ![p].got = file.c, ![p].seg = TRUE, ![p].sum = shadow]
  /\ Go(p, "commit")
  /\ UNCHANGED <<Local, clock, Store, writes, ops>>

\* diffPages: a shadow that is not the recorded state (errShadowDiverged), or
\* is gone, makes it a snapshot.  sum is the state the pages are a change of.
DiffPages(p) ==
  /\ At(p, "diff")
  /\ loc' = [loc EXCEPT ![p].got = file.c, ![p].seg = (shadow = loc[p].rec.sum), ![p].sum = shadow]
  /\ Go(p, "commit")
  /\ UNCHANGED <<Local, clock, Store, writes, ops>>

\* What the store resolves the new head to.
Resolved(l) ==
  IF l.seg /\ (l.rec.sum # truth[l.ref] \/ l.sum # truth[l.ref]) THEN Broken ELSE l.got

\* The put and the head write, which is refused when the lease is gone.
CommitCheckpoint(p) ==
  /\ At(p, "commit")
  /\ \/ /\ lease = p /\ HeadId < MaxHeads
        /\ \E c \in {Resolved(loc[p])} \cup (IF Overwrites THEN Contents ELSE {}) :
             truth' = Append(truth, c)
        /\ lease' = None
        /\ loc' = [loc EXCEPT ![p].ref = HeadId + 1] /\ Go(p, "verify")
     \/ End(p) /\ lease' = Freed(p) /\ UNCHANGED truth
  /\ UNCHANGED <<Local, clock, writes, ops>>

\* verifyOwnObject: the checksum of what is there now, if it can be read.
VerifyOwnObject(p) ==
  /\ At(p, "verify")
  /\ \E s \in {truth[loc[p].ref], Unknown} : loc' = [loc EXCEPT ![p].sum = s]
  /\ Go(p, "cksum")
  /\ UNCHANGED <<Local, clock, Store, writes, ops>>

\* Mutant: an undisturbed read is trusted, whatever was read.
StampCheckpointBlind(p) ==
  /\ At(p, "ckstamp")
  /\ LET l == loc[p] IN
     \/ /\ Undisturbed(p) /\ l.got # Unknown /\ l.sum # Unknown
        /\ sc' = Sum(l.ref, l.got, l.sum, l.fp, l.at) /\ Go(p, "clone")
     \/ /\ ~(Undisturbed(p) /\ l.got # Unknown /\ l.sum # Unknown)
        /\ sc' = Sum(l.ref, Unknown, None, None, 0) /\ Go(p, "drop")
  /\ loc' = Fresh(p)
  /\ UNCHANGED <<file, wal, shadow, clock, Store, writes, ops>>

\* Trusted only when the live file holds what the store resolves the head to.
StampCheckpoint(p) ==
  /\ At(p, "ckstamp")
  /\ LET l == loc[p]
         trusted == Undisturbed(p) /\ l.got # Unknown /\ l.got = l.sum
     IN \/ trusted /\ sc' = Sum(l.ref, l.got, l.sum, l.fp, l.at) /\ Go(p, "clone")
        \/ ~trusted /\ sc' = Sum(l.ref, Unknown, None, None, 0) /\ Go(p, "drop")
  /\ loc' = Fresh(p)
  /\ UNCHANGED <<file, wal, shadow, clock, Store, writes, ops>>

(***************************************************************************)
(* A daemon session: its flushes move the head and stamp nothing.          *)
(***************************************************************************)
SessionFlush(p) ==
  /\ At(p, "session") /\ lease = p /\ HeadId < MaxHeads
  /\ truth' = Append(truth, Content)
  /\ loc' = [loc EXCEPT ![p].ref = HeadId + 1]
  /\ UNCHANGED <<Local, clock, lease, pc, writes, ops>>

\* The engine's clean shutdown folds the WAL and hashes the file; with writes
\* pending, or a shutdown that is not clean, there is nothing to stamp.
SessionStops(p) ==
  /\ At(p, "session")
  /\ \/ /\ Content = truth[loc[p].ref] /\ Settled(p) /\ Folds
        /\ loc' = [loc EXCEPT ![p].got = Content] /\ Go(p, "closing")
        /\ UNCHANGED lease
     \/ End(p) /\ lease' = Freed(p) /\ UNCHANGED <<file, wal>>
  /\ UNCHANGED <<sc, shadow, clock, truth, writes, ops>>

\* commitSidecarRefresh: StampSumHashOnly, while the lease is held and the head
\* is the session's own.
SessionStamp(p) ==
  /\ At(p, "closing")
  /\ \/ /\ lease = p /\ HeadId = loc[p].ref
        /\ sc' = Sum(HeadId, loc[p].got, truth[HeadId], None, 0)
        /\ lease' = None /\ Go(p, "clone")
        /\ loc' = [Fresh(p) EXCEPT ![p].op = "close"]
     \/ /\ lease # p
        /\ End(p) /\ UNCHANGED <<sc, lease>>
  /\ UNCHANGED <<file, wal, shadow, clock, truth, writes, ops>>

Next ==
  \/ \E c \in Contents : Write(c)
  \/ Fold \/ Tick
  \/ \E p \in Procs :
       \/ BeginProbe(p) \/ BeginCheckout(p) \/ BeginCheckpoint(p)
       \/ BeginRepoint(p) \/ BeginSession(p)
       \/ Quiesce(p) \/ ReadSidecar(p) \/ Look(p) \/ Hash(p) \/ Restamp(p) \/ Return(p)
       \/ Place(p) \/ StampSum(p) \/ SumBefore(p) \/ SumRead(p) \/ WriteSum(p)
       \/ CloneShadow(p) \/ SetRead(p) \/ SetWrite(p) \/ DropShadow(p)
       \/ Plan(p) \/ DiffPages(p) \/ CommitCheckpoint(p)
       \/ VerifyOwnObject(p) \/ StampCheckpoint(p)
       \/ SessionFlush(p) \/ SessionStops(p) \/ SessionStamp(p)

Spec == Init /\ [][Next]_vars
-----------------------------------------------------------------------------
Labels == {"idle", "quiesce", "state", "look", "hash", "restamp", "clean", "place",
           "stamp", "sum", "sumread", "sumwrite", "clone", "setread", "setwrite",
           "drop", "plan", "diff", "commit", "verify", "cksum", "cksumread",
           "ckstamp", "session", "closing"}

\* Every value is of its kind, and a lease is held by an operation that is
\* still to give it up: no early return of a checkpoint or a session keeps it.
TypeOK ==
  /\ file = None \/ file \in [c : Contents, mt : 0..MaxClock]
  /\ wal \in Contents \cup {None} /\ shadow \in Contents \cup {None}
  /\ clock \in 0..MaxClock /\ HeadId \in 1..MaxHeads
  /\ truth \in Seq(Contents \cup {Broken})
  /\ sc = None \/ sc \in [id : 1..MaxHeads, hash : Contents \cup {Unknown},
                          sum : Contents \cup {None, Broken}, fp : 0..MaxClock \cup {None},
                          at : 0..MaxClock, shadow : BOOLEAN]
  /\ pc \in [Procs -> Labels]
  /\ lease # None => \/ loc[lease].op = "session"
                     \/ pc[lease] \in {"quiesce", "plan", "diff", "commit"}

\* A checkout reported clean, from its fingerprint or from its hash, held the
\* content its head resolves to when the evidence was read (checkoutState,
\* CheckoutResult.Clean): whatever was written to the file while it was placed,
\* hashed or stamped, whoever else stamped it, and whatever became of the
\* checkpoint's object.
CleanTrue ==
  \A p \in Procs : pc[p] = "clean" => loc[p].clean = truth[loc[p].ref]

\* No checkpoint makes a head whose chain does not apply: a segment is only
\* ever a change of the content of the head it follows (planSegment,
\* diffPages), though the shadow it is computed from is cloned from the file
\* after the stamp and may hold later writes.
HeadReadable == \A i \in 1..HeadId : truth[i] # Broken
=============================================================================
