----------------------------- MODULE SafetyFork -----------------------------
(***************************************************************************)
(* The safety fork of rollback and promote (ops.safetyFork): before the    *)
(* branch is moved, its head is kept under a name of its own,              *)
(* <branch>-pre-rollback or <branch>-pre-promote, in place of the fork an  *)
(* earlier call left there.                                                *)
(*                                                                         *)
(* The calls' store requests interleave with one another, with the writers *)
(* of the branch and with the users of the forks.  A ref is its lineage    *)
(* and head; every write of it leaves a content it never had (Branch has   *)
(* the rest of the ref, its edits, and lost or late answers).  A destroy   *)
(* is one step (Destroy has its claim).                                    *)
(***************************************************************************)
EXTENDS Naturals

CONSTANTS
  Rollbacks, Promotes,   \* callers of RollbackWith and of PromoteWith
  NoFork,                \* no branch of that name
  Destroys,              \* users, or the reaper, also destroy safety forks
  MaxHead, MaxLineages   \* bounds

Callers == Rollbacks \cup Promotes

\* What the constants must satisfy.
CallAssumption == Rollbacks \cap Promotes = {} /\ Destroys \in BOOLEAN

Suffixes == {"-pre-rollback", "-pre-promote"}

Suffix(c) == IF c \in Rollbacks THEN "-pre-rollback" ELSE "-pre-promote"

VARIABLES
  ref,       \* the branch's ref: its lineage and head
  lineages,  \* lineages minted
  forks,     \* the branches at the safety forks' names: whether it carries the
             \* marker (own), the ref it was forked from (at), a live lease (held)
  pc,        \* where each call is
  read,      \* the ref each call's write is conditional on
  target,    \* the head it moves the branch to
  backup,    \* has it made its safety fork
  src        \* the ref the fork it is making was read from

vars == <<ref, lineages, forks, pc, read, target, backup, src>>

callVars == <<read, target, backup, src>>

First == [lineage |-> 1, head |-> 1]

Init ==
  /\ ref = First /\ lineages = 1
  /\ forks = [s \in Suffixes |-> NoFork]
  /\ pc = [c \in Callers |-> "idle"]
  /\ read = [c \in Callers |-> First] /\ src = [c \in Callers |-> First]
  /\ target = [c \in Callers |-> 1]
  /\ backup = [c \in Callers |-> FALSE]

Goto(c, label) == pc' = [pc EXCEPT ![c] = label]

\* The call returns; what it knew is forgotten.
Returns(c) ==
  /\ Goto(c, "idle")
  /\ read' = [read EXCEPT ![c] = First] /\ src' = [src EXCEPT ![c] = First]
  /\ target' = [target EXCEPT ![c] = 1]
  /\ backup' = [backup EXCEPT ![c] = FALSE]

-----------------------------------------------------------------------------
(* RollbackWith and PromoteWith                                             *)

\* The branch's ref is read and no refusal applies.  A rollback stays within
\* its history; a promote takes another branch's head.  Promoting the
\* branch's own safety fork back, like --no-backup, makes none.
Read(c, t, skip) ==
  /\ pc[c] = "idle"
  /\ lineages < MaxLineages
  /\ c \in Rollbacks => t <= ref.head
  /\ read' = [read EXCEPT ![c] = ref]
  /\ target' = [target EXCEPT ![c] = t]
  /\ Goto(c, IF skip THEN "write" ELSE "look")
  /\ UNCHANGED <<ref, lineages, forks, backup, src>>

\* The branch at the name of c's safety fork.
Named(c) == forks[Suffix(c)]

\* Mutant of Replaceable: the marker is not looked at.
ReplaceableAny(c) == TRUE

\* The branch at the name carries this caller's marker.
Replaceable(c) == Named(c).own

\* safetyFork looks at the name: free, its own earlier fork, or a user's.
Look(c) ==
  /\ pc[c] = "look"
  /\ \/ Named(c) = NoFork /\ Goto(c, "fork") /\ UNCHANGED callVars
     \/ Named(c) # NoFork /\ Replaceable(c) /\ Goto(c, "replace") /\ UNCHANGED callVars
     \/ Named(c) # NoFork /\ ~Replaceable(c) /\ Returns(c)
  /\ UNCHANGED <<ref, lineages, forks>>

\* ... and destroys the earlier fork, unforced: a live lease refuses.
Replace(c) ==
  /\ pc[c] = "replace"
  /\ \/ /\ Named(c) # NoFork /\ ~Named(c).held
        /\ forks' = [forks EXCEPT ![Suffix(c)] = NoFork]
        /\ Goto(c, "fork")
        /\ UNCHANGED callVars
     \/ /\ Named(c) # NoFork => Named(c).held
        /\ Returns(c)
        /\ UNCHANGED forks
  /\ UNCHANGED <<ref, lineages>>

\* forkWith reads the branch's ref itself ...
ForkRead(c) ==
  /\ pc[c] = "fork"
  /\ src' = [src EXCEPT ![c] = ref]
  /\ Goto(c, "put")
  /\ UNCHANGED <<ref, lineages, forks, read, target, backup>>

\* ... and creates the fork, if the name is still free.
ForkPut(c) ==
  /\ pc[c] = "put"
  /\ \/ /\ Named(c) = NoFork
        /\ forks' = [forks EXCEPT ![Suffix(c)] = [own |-> TRUE, at |-> src[c], held |-> FALSE]]
        /\ backup' = [backup EXCEPT ![c] = TRUE]
        /\ src' = [src EXCEPT ![c] = First]
        /\ Goto(c, "write")
        /\ UNCHANGED <<read, target>>
     \/ /\ Named(c) # NoFork
        /\ Returns(c)
        /\ UNCHANGED forks
  /\ UNCHANGED <<ref, lineages>>


\* The write's condition: the ref is the one that was read.
Unmoved(c) == ref = read[c]

\* The repoint's write of the ref lands, or loses its compare-and-swap.
Write(c) ==
  /\ pc[c] = "write"
  /\ \/ /\ Unmoved(c)
        /\ lineages < MaxLineages
        /\ lineages' = lineages + 1
        /\ ref' = [lineage |-> lineages + 1, head |-> target[c]]
     \/ ~Unmoved(c) /\ UNCHANGED <<ref, lineages>>
  /\ Returns(c)
  /\ UNCHANGED forks

\* The call fails elsewhere, or its process dies.
Fail(c) ==
  /\ pc[c] # "idle"
  /\ Returns(c)
  /\ UNCHANGED <<ref, lineages, forks>>

-----------------------------------------------------------------------------
(* Writers of the branch, and users of the forks.                           *)

Commit ==
  /\ ref.head < MaxHead
  /\ ref' = [ref EXCEPT !.head = @ + 1]
  /\ UNCHANGED <<lineages, forks, pc>> /\ UNCHANGED callVars

\* A user forks the branch to one of the names.
UserFork(s) ==
  /\ forks[s] = NoFork
  /\ forks' = [forks EXCEPT ![s] = [own |-> FALSE, at |-> ref, held |-> FALSE]]
  /\ UNCHANGED <<ref, lineages, pc>> /\ UNCHANGED callVars

\* A session on a fork opens or closes.
UserLease(s) ==
  /\ forks[s] # NoFork
  /\ forks' = [forks EXCEPT ![s].held = ~@]
  /\ UNCHANGED <<ref, lineages, pc>> /\ UNCHANGED callVars

\* A fork is destroyed by a user, or reaped: their own branch at any time, a safety fork if Destroys.
UserDestroy(s) ==
  /\ forks[s] # NoFork
  /\ forks[s].own => Destroys
  /\ forks' = [forks EXCEPT ![s] = NoFork]
  /\ UNCHANGED <<ref, lineages, pc>> /\ UNCHANGED callVars

-----------------------------------------------------------------------------
Next ==
  \/ \E c \in Callers :
       \/ \E t \in 1 .. MaxHead, skip \in BOOLEAN : Read(c, t, skip)
       \/ Look(c) \/ Replace(c) \/ ForkRead(c) \/ ForkPut(c) \/ Write(c) \/ Fail(c)
  \/ Commit
  \/ \E s \in Suffixes : UserFork(s) \/ UserLease(s) \/ UserDestroy(s)

Spec == Init /\ [][Next]_vars

-----------------------------------------------------------------------------
(* Properties                                                               *)

\* The step is c's move of the branch.
Moves(c) == Write(c) /\ Unmoved(c)

\* RollbackWith: "the branch's current head is durably reachable from its own
\* safety-fork name before the repoint abandons it".  When a call that made a
\* safety fork moves the branch, the fork at the name holds the head the move
\* abandons, whatever was committed between the reads of the two.
KeepsHead ==
  \A c \in Callers : Moves(c) /\ backup[c] =>
    /\ Named(c) # NoFork
    /\ Named(c).own
    /\ Named(c).at = ref

\* safetyFork: "a user's branch that merely shares the name is never
\* destroyed": no call removes a branch without the marker.
RemovesOwn ==
  \A c \in Callers : Replace(c) /\ Named(c) # NoFork /\ forks'[Suffix(c)] = NoFork =>
    Named(c).own
=============================================================================
