----------------------------- MODULE NewBranch -----------------------------
(***************************************************************************)
(* How a branch comes into being (ops/ops.go createFromQuiesced, forkWith, *)
(* newLineageAt; store/store.go EnsureLayoutV2): the start of a fresh      *)
(* lineage is stored, the manifest raised before a base pointer is         *)
(* written, and the ref put with a create-only write, whose answer may be  *)
(* lost or wrong and which is then settled by reading the ref again.       *)
(*                                                                         *)
(* A call mints at most one lineage, which is named by the call.  Nobody   *)
(* commits to the branches here, so a shared fork of a shared fork points  *)
(* where that one points (CollapseBase).  Destroy has its own module, Gc   *)
(* too; a collection takes only what no call in flight and no late write   *)
(* can still name, which is what its grace is for.                         *)
(***************************************************************************)
EXTENDS Naturals, TLC

CONSTANTS
  Hosts,            \* processes, each with one Store; calls of one host share it
  Creates, Forks,   \* calls of Create or CreateFrom, and of Fork
  Main, Names,      \* "main"; all branch names
  NoRef,            \* no branch of that name; no base pointer; no error
  MaxFaults         \* bound: store calls that misbehave

Callers == Creates \cup Forks

\* What the constants must satisfy.
NewBranchAssumption ==
  Main \in Names /\ NoRef \notin Callers \cup Hosts /\ Creates \cap Forks = {} /\ MaxFaults \in Nat

VARIABLES
  layout,   \* the manifest's LayoutVersion, 0 while there is none
  memo,     \* hosts whose Store has layoutAtLeastV2 set
  refs,     \* the lineage each branch's ref names, or NoRef
  stored,   \* the lineages whose snapshot or base.json is in the store
  base,     \* where each lineage's base.json points, or NoRef
  made,     \* history: the lineages some ref has named
  late,     \* calls whose ref write was given up and may still be applied
  call,     \* where each call is
  faults

vars == <<layout, memo, refs, stored, base, made, late, call, faults>>

Idle == [at |-> "idle", host |-> NoRef, name |-> Main, src |-> NoRef,
         share |-> FALSE, err |-> "none", told |-> "nothing"]

Init ==
  /\ layout \in 0..2
  /\ memo = {} /\ stored = {} /\ made = {} /\ late = {} /\ faults = 0
  /\ refs = [n \in Names |-> NoRef]
  /\ base = [c \in Callers |-> NoRef]
  /\ call = [c \in Callers |-> Idle]

Exists(n) == refs[n] # NoRef

Goto(c, at) == call' = [call EXCEPT ![c].at = at]

Tell(c, what) == call' = [call EXCEPT ![c].at = "done", ![c].told = what]

Fault == faults < MaxFaults /\ faults' = faults + 1

\* A shared lineage reads its base's objects.
Readable(l) == l \in stored /\ (base[l] = NoRef \/ base[l] \in stored)

CollapseBase(l) == IF base[l] = NoRef THEN l ELSE base[l]

-----------------------------------------------------------------------------
(* The manifest.                                                            *)

\* Init of this version: a create-only put of the manifest.
InitStore ==
  /\ layout = 0
  /\ layout' = 2
  /\ UNCHANGED <<memo, refs, stored, base, made, late, call, faults>>

\* EnsureLayoutV2: nothing to do once this Store has seen the layout; otherwise
\* the manifest is read.
LayoutRead(c) ==
  /\ call[c].at = "layout"
  /\ \/ /\ call[c].host \in memo
        /\ Goto(c, "store") /\ UNCHANGED <<memo, faults>>
     \/ /\ call[c].host \notin memo /\ layout = 2
        /\ memo' = memo \cup {call[c].host}
        /\ Goto(c, "store") /\ UNCHANGED faults
     \/ /\ call[c].host \notin memo /\ layout = 1
        /\ Goto(c, "bump") /\ UNCHANGED <<memo, faults>>
     \/ /\ call[c].host \notin memo /\ Fault
        /\ Tell(c, "error") /\ UNCHANGED memo
  /\ UNCHANGED <<layout, refs, stored, base, made, late>>

\* A bump that lost its race reads again.
LostBump(c) == Goto(c, "layout")

\* Mutant: the layout is noted whatever became of the bump.
FailedBumpNoted(c) == memo' = memo \cup {call[c].host} /\ Goto(c, "store")

\* An error of another sort ends the fork.
FailedBump(c) == Tell(c, "error") /\ UNCHANGED memo

\* The conditional put of the manifest read at layout 1.
LayoutBump(c) ==
  /\ call[c].at = "bump"
  /\ \/ /\ layout = 1
        /\ layout' = 2 /\ memo' = memo \cup {call[c].host}
        /\ Goto(c, "store") /\ UNCHANGED faults
     \/ /\ layout = 2
        /\ LostBump(c) /\ UNCHANGED <<layout, memo, faults>>
     \/ /\ Fault /\ layout' \in {layout, 2}     \* lost on the way out, or back
        /\ FailedBump(c)
  /\ UNCHANGED <<refs, stored, base, made, late>>

-----------------------------------------------------------------------------
(* The calls.  One that fails in its first read has changed nothing and is  *)
(* left out.                                                                *)

\* Create: any ref of the database refuses it, whichever branch it is of.
CreateBegin(c, h) ==
  /\ call[c].at = "idle" /\ layout # 0
  /\ call' = [call EXCEPT ![c] = [Idle EXCEPT !.host = h,
                !.at = IF \E n \in Names : Exists(n) THEN "done" ELSE "store",
                !.told = IF \E n \in Names : Exists(n) THEN "exists" ELSE "nothing"]]
  /\ UNCHANGED <<layout, memo, refs, stored, base, made, late, faults>>

\* Fork reads its source; share says whether the chain is below the snapshot
\* floor.  A fork that copies looks whether the name is taken first.
ForkBegin(c, h, src, dst, share) ==
  /\ call[c].at = "idle" /\ layout # 0 /\ Exists(src)
  /\ call' = [call EXCEPT ![c] = [Idle EXCEPT !.host = h, !.name = dst, !.src = refs[src],
                !.share = share, !.at = IF share THEN "layout" ELSE "probe"]]
  /\ UNCHANGED <<layout, memo, refs, stored, base, made, late, faults>>

ForkProbe(c) ==
  /\ call[c].at = "probe"
  /\ \/ Exists(call[c].name) /\ Tell(c, "exists") /\ UNCHANGED faults
     \/ ~Exists(call[c].name) /\ Goto(c, "store") /\ UNCHANGED faults
     \/ Fault /\ Tell(c, "error")
  /\ UNCHANGED <<layout, memo, refs, stored, base, made, late>>

\* The start of the lineage: a snapshot, or a base pointer.  The put may fail,
\* having stored it or not.
Store(c) ==
  /\ call[c].at = "store"
  /\ \/ /\ stored' = stored \cup {c}
        /\ base' = [base EXCEPT ![c] = IF call[c].share THEN CollapseBase(call[c].src) ELSE NoRef]
        /\ \/ Goto(c, "put") /\ UNCHANGED faults
           \/ Fault /\ Tell(c, "error")
     \/ Fault /\ Tell(c, "error") /\ UNCHANGED <<stored, base>>
  /\ UNCHANGED <<layout, memo, refs, made, late>>

Named(c) ==
  /\ ~Exists(call[c].name)
  /\ refs' = [refs EXCEPT ![call[c].name] = c]
  /\ made' = made \cup {c}

\* The create-only ref write: done, refused, or ended with an error, having
\* landed or not, or to land later.  A retry inside the SDK that finds its own
\* first attempt is refused although the write landed.
PutRef(c) ==
  /\ call[c].at = "put"
  /\ \/ /\ Named(c)
        /\ Tell(c, "ok") /\ UNCHANGED <<late, faults>>
     \/ /\ Exists(call[c].name)
        /\ call' = [call EXCEPT ![c].at = "settle", ![c].err = "cas"]
        /\ UNCHANGED <<refs, made, late, faults>>
     \/ /\ Named(c) /\ Fault
        /\ \E e \in {"cas", "other"} : call' = [call EXCEPT ![c].at = "settle", ![c].err = e]
        /\ UNCHANGED late
     \/ /\ Fault /\ late' \in {late, late \cup {c}}
        /\ call' = [call EXCEPT ![c].at = "settle", ![c].err = "other"]
        /\ UNCHANGED <<refs, made>>
  /\ UNCHANGED <<layout, memo, stored, base>>

\* A write given up long ago is applied, if its condition holds by then.
LateLands(c) ==
  /\ c \in late
  /\ late' = late \ {c}
  /\ Named(c) \/ (Exists(call[c].name) /\ UNCHANGED <<refs, made>>)
  /\ UNCHANGED <<layout, memo, stored, base, call, faults>>


\* settleRepoint, with no previous lineage.
Verdict(c) ==
  IF refs[call[c].name] = c THEN "ok" ELSE IF call[c].err = "cas" THEN "exists" ELSE "error"

\* Mutant: the start of the lineage is removed as after a failed rollback.
LeftoverRemoved(c) == stored' = IF Verdict(c) = "ok" THEN stored ELSE stored \ {c}

\* What failed is left to GC.
Leftover(c) == UNCHANGED stored

Settle(c) ==
  /\ call[c].at = "settle"
  /\ \/ Tell(c, Verdict(c)) /\ Leftover(c) /\ UNCHANGED faults
     \/ Fault /\ Tell(c, "unread") /\ UNCHANGED stored
  /\ UNCHANGED <<layout, memo, refs, base, made, late>>

Crash(c) ==
  /\ call[c].at \notin {"idle", "done"}
  /\ Tell(c, "dead")
  /\ late' \in IF call[c].at = "put" THEN {late, late \cup {c}} ELSE {late}
  /\ UNCHANGED <<layout, memo, refs, stored, base, made, faults>>

-----------------------------------------------------------------------------
(* Others.                                                                  *)

DestroyRef(n) ==
  /\ Exists(n)
  /\ refs' = [refs EXCEPT ![n] = NoRef]
  /\ UNCHANGED <<layout, memo, stored, base, made, late, call, faults>>

\* Every lineage something may still come to read.
Protected ==
  LET ends == {refs[n] : n \in Names} \cup late
              \cup {c \in Callers : call[c].at \notin {"idle", "done"}}
              \cup {call[c].src : c \in {d \in Callers : call[d].at \notin {"idle", "done"}}}
  IN ends \cup {base[c] : c \in ends \cap Callers}

Collect(l) ==
  /\ l \in stored \ Protected
  /\ stored' = stored \ {l}
  /\ UNCHANGED <<layout, memo, refs, base, made, late, call, faults>>

Step(c) ==
  \/ LayoutRead(c) \/ LayoutBump(c) \/ ForkProbe(c) \/ Store(c) \/ PutRef(c) \/ Settle(c)

Begin ==
  \E h \in Hosts :
    \/ \E c \in Creates : CreateBegin(c, h)
    \/ \E c \in Forks, src, dst \in Names, share \in BOOLEAN : ForkBegin(c, h, src, dst, share)

Next ==
  \/ InitStore
  \/ Begin
  \/ \E c \in Callers : Step(c) \/ LateLands(c) \/ Crash(c)
  \/ \E n \in Names : DestroyRef(n)
  \/ \E l \in Callers : Collect(l)

Spec == Init /\ [][Next]_vars

-----------------------------------------------------------------------------
(* A ref, whenever its write landed, names a lineage whose start is in the  *)
(* store, the source of a shared one included: a call that fails, dies or   *)
(* misreads its answer leaves the start where it is (createFromQuiesced,    *)
(* forkWith, settleRepoint).                                                *)
RefsReadable == \A n \in Names : Exists(n) => Readable(refs[n])

(* A call is told ok only if its branch was made, and that the name was     *)
(* taken by another only if its own branch is not, and never again, what    *)
(* the name stands for (createFromQuiesced and forkWith on ErrCAS).         *)
ToldTrue ==
  \A c \in Callers :
    /\ call[c].told = "ok" => c \in made
    /\ call[c].told = "exists" => c \notin late /\ \A n \in Names : refs[n] # c

(* No base pointer is in a store that a binary of layout 1 could still      *)
(* open, whatever races and lost answers the bump met, and a Store that     *)
(* skips the check is right to (EnsureLayoutV2, layoutAtLeastV2).           *)
LayoutFirst ==
  /\ (\E l \in Callers : base[l] # NoRef) => layout = 2
  /\ memo # {} => layout = 2
=============================================================================
