--------------------------------- MODULE Gc ---------------------------------
(***************************************************************************)
(* Garbage collection (ops/gc.go, GC) against the writers, forks and       *)
(* destroys of Lineages: mark from the refs, tombstone what is unreachable, *)
(* and sweep what was tombstoned more than a grace period ago and is still *)
(* unreachable under a second mark.                                        *)
(*                                                                         *)
(* Time is the age of each stone and of each fork in flight, advanced      *)
(* together by Tick; a stone too old to matter more stops ageing.  A fork  *)
(* takes at most ForkTicks, which is what GC asks of its caller ("grace    *)
(* must exceed the maximum plausible fork duration").                      *)
(***************************************************************************)
EXTENDS Lineages

CONSTANTS Passes,          \* concurrent GC calls
          Grace, ForkTicks,
          Faults           \* whether a call of the store may fail a pass

\* What the constants must satisfy.
GraceCoversForks == ForkTicks <= Grace

VARIABLES
  stones,     \* the tombstone list: the age of the stone of each marked key
  forkAge,    \* how long each fork has been in flight
  gc          \* the passes

gcVars == <<refs, objs, ptr, minted, wr, fk, committed, stones, forkAge, gc>>

IdlePass == [at |-> "idle", todo |-> {}, live |-> {}, marked |-> {}, new |-> {}, old |-> {}, gone |-> {}]

GcInit ==
  /\ LineagesInit
  /\ stones = << >>
  /\ forkAge = [f \in Forks |-> 0]
  /\ gc = [g \in Passes |-> IdlePass]

SetPass(g, rec) == gc' = [gc EXCEPT ![g] = rec]

-----------------------------------------------------------------------------
(* reachableObjectsAndHeads: the names, then each ref, then the lineages.   *)

ListRefs(g, from, to) ==
  /\ gc[g].at = from
  /\ SetPass(g, [gc[g] EXCEPT !.at = to, !.todo = {b \in Branches : Exists(b)}, !.live = {}])
  /\ UNCHANGED <<stones, objs>>

\* A ref destroyed since it was listed is skipped.
GetRef(g, b) ==
  /\ gc[g].at \in {"mark", "remark"} /\ b \in gc[g].todo
  /\ SetPass(g, [gc[g] EXCEPT !.todo = @ \ {b}, !.live = IF Exists(b) THEN @ \cup {refs[b]} ELSE @])
  /\ UNCHANGED <<stones, objs>>

Resolves(r, t) == ResolveChain(objs, ptr, r.lin, t) # NoChain

\* Mutant: only the heads are marked.
ReachableHeads(live) ==
  UNION {ToSet(ResolveChain(objs, ptr, r.lin, r.head)) : r \in live}
    \cup UNION {{BaseKey(l) : l \in BaseSpine(objs, ptr, r.lin)} : r \in live}

\* Mutant: base pointers are marked only where the lineage holds members.
ReachableMembers(live) ==
  UNION {UNION {ToSet(ResolveChain(objs, ptr, r.lin, t)) : t \in Kept(r)} : r \in live}

Reachable(live) ==
  UNION {UNION {ToSet(ResolveChain(objs, ptr, r.lin, t)) : t \in Kept(r)} : r \in live}
    \cup UNION {{BaseKey(l) : l \in BaseSpine(objs, ptr, r.lin)} : r \in live}

\* Every ref that was read resolves, at its head and at its checkpoints; a mark
\* that met one that does not would fail the pass.
MarkCompletes(g) == \A r \in gc[g].live : \A t \in Kept(r) : Resolves(r, t)

Mark(g) ==
  /\ gc[g].at = "mark" /\ gc[g].todo = {} /\ MarkCompletes(g)
  /\ SetPass(g, [gc[g] EXCEPT !.at = "tombstone", !.marked = Reachable(gc[g].live), !.live = {}])
  /\ UNCHANGED <<stones, objs>>

-----------------------------------------------------------------------------
(* Phase 1, and the stones that phase 2 starts from                         *)

\* Mutant: every pass sets its stones anew.
TombstoneAgain(g) ==
  LET new == objs \ gc[g].marked IN
  /\ gc[g].at = "tombstone"
  /\ stones' = [k \in DOMAIN stones \cup new |-> IF k \in new THEN 0 ELSE stones[k]]
  /\ SetPass(g, [gc[g] EXCEPT !.at = "eligible", !.marked = {}, !.new = new])
  /\ UNCHANGED objs

\* tombstone merges the new stones into the list by compare-and-swap.
Tombstone(g) ==
  LET new == objs \ (gc[g].marked \cup DOMAIN stones) IN
  /\ gc[g].at = "tombstone"
  /\ stones' = [k \in DOMAIN stones \cup new |-> IF k \in new THEN 0 ELSE stones[k]]
  /\ SetPass(g, [gc[g] EXCEPT !.at = "eligible", !.marked = {}, !.new = new])
  /\ UNCHANGED objs


Eligible(g) == {k \in DOMAIN stones \ gc[g].new : stones[k] > Grace}

\* The reloaded list; without an eligible stone the pass is over.
Reload(g) ==
  /\ gc[g].at = "eligible"
  /\ SetPass(g, IF Eligible(g) = {} THEN IdlePass
                ELSE [IdlePass EXCEPT !.at = "remark", !.old = Eligible(g),
                                      !.todo = {b \in Branches : Exists(b)}])
  /\ UNCHANGED <<stones, objs>>

-----------------------------------------------------------------------------
(* Phase 2                                                                  *)

Least(S) == CHOOSE n \in S : \A m \in S : n <= m

\* Mutant: nothing above a live head is protected.
ProtectedNever(k, live) == FALSE

\* The compensating rule: above a live head in its own lineage, at an epoch a
\* current writer may still commit.
Protected(k, live) ==
  LET own == {r \in live : r.lin = k.lin} IN
  /\ IsMember(k) /\ own # {}
  /\ k.max > Least({r.head : r \in own}) /\ k.epoch >= Least({r.epoch : r \in own})

\* The second mark and listing: stones of live and of missing objects are
\* dropped, protected ones kept, and the rest is to be deleted.
Remark(g) ==
  LET reached == Reachable(gc[g].live)
      dropped == {k \in gc[g].old : k \in reached \/ k \notin objs}
  IN
  /\ gc[g].at = "remark" /\ gc[g].todo = {} /\ MarkCompletes(g)
  /\ SetPass(g, [IdlePass EXCEPT !.at = "sweep", !.gone = dropped,
       !.old = {k \in gc[g].old \ dropped : ~Protected(k, gc[g].live)}])
  /\ UNCHANGED <<stones, objs>>

\* sweepDelete, key by key.
Sweep(g, k) ==
  /\ gc[g].at = "sweep" /\ k \in gc[g].old
  /\ objs' = objs \ {k}
  /\ SetPass(g, [gc[g] EXCEPT !.old = @ \ {k}, !.gone = @ \cup {k}])
  /\ UNCHANGED stones

\* pruneTombstones drops exactly this pass's removals from the current list;
\* a failed delete gets here with the rest undone.
Prune(g) ==
  /\ gc[g].at = "sweep" /\ (gc[g].old = {} \/ Faults)
  /\ stones' = [k \in DOMAIN stones \ gc[g].gone |-> stones[k]]
  /\ SetPass(g, IdlePass)
  /\ UNCHANGED objs

\* A lost compare-and-swap of the list, an error of the store, or a mark that
\* does not complete ends the pass.
PassFails(g) ==
  /\ gc[g].at # "idle"
  /\ Faults \/ (gc[g].at \in {"mark", "remark"} /\ gc[g].todo = {} /\ ~MarkCompletes(g))
  /\ SetPass(g, IdlePass)
  /\ UNCHANGED <<stones, objs>>

Steps(g) ==
  \/ \E b \in Branches : GetRef(g, b)
  \/ Mark(g) \/ Tombstone(g) \/ Reload(g) \/ Remark(g)
  \/ \E k \in gc[g].old : Sweep(g, k)
  \/ Prune(g) \/ PassFails(g)

\* A pass changes stones and objs only.
GcNext(g) ==
  /\ ListRefs(g, "idle", "mark") \/ Steps(g)
  /\ UNCHANGED <<refs, ptr, minted, wr, fk, committed, forkAge>>

Mutate ==
  /\ LineagesNext
  /\ forkAge' = [f \in Forks |-> IF fk'[f].at = "idle" THEN 0 ELSE forkAge[f]]
  /\ UNCHANGED <<stones, gc>>

\* Mutant: every stone keeps ageing.
TickUncapped ==
  /\ stones' = [k \in DOMAIN stones |-> stones[k] + 1]
  /\ UNCHANGED <<refs, objs, ptr, minted, wr, fk, committed, gc, forkAge>>

Tick ==
  /\ \A f \in Forks : fk[f].at # "idle" => forkAge[f] < ForkTicks
  /\ stones' = [k \in DOMAIN stones |-> IF stones[k] > Grace THEN stones[k] ELSE stones[k] + 1]
  /\ forkAge' = [f \in Forks |-> IF fk[f].at = "idle" THEN 0 ELSE forkAge[f] + 1]
  /\ stones' # stones \/ forkAge' # forkAge
  /\ UNCHANGED <<refs, objs, ptr, minted, wr, fk, committed, gc>>

Next == Mutate \/ Tick \/ \E g \in Passes : GcNext(g)

Spec == GcInit /\ [][Next]_gcVars

\* Passes are started again and again (the janitor's schedule) and run on, time
\* passes, and a fork in flight comes to an end.
FairSpec ==
  /\ Spec
  /\ \A g \in Passes : WF_gcVars(GcNext(g))
  /\ WF_gcVars(Tick)
  /\ \A f \in Forks : WF_gcVars((ForkLineage(f) \/ ForkRef(f) \/ ForkStops(f)) /\ Mutate)

-----------------------------------------------------------------------------
GcTypeOK ==
  /\ LineagesTypeOK
  /\ DOMAIN stones \subseteq UNION {{BaseKey(l), Snapshot(l, e, t), Segment(l, e, t)} :
                               l \in 1..MaxLineages, e \in 1..MaxEpoch, t \in 1..MaxTxid}
  /\ \A k \in DOMAIN stones : stones[k] \in 0..Grace + 1
  /\ forkAge \in [Forks -> 0..ForkTicks]
  /\ \A g \in Passes : gc[g].at \in {"idle", "mark", "tombstone", "eligible", "remark", "sweep"}

LiveRefs == {refs[b] : b \in {b \in Branches : Exists(b)}}

\* A pass that read its refs before it lists their lineages resolves each one
\* whose branch still stands, whatever commits, forks, destroys and other passes
\* ran in between: no phantom hole fails a mark (reachableObjectsAndHeads reads
\* every ref first).
MarksComplete ==
  \A g \in Passes : gc[g].at \in {"mark", "remark"} =>
    \A r \in gc[g].live : (\E s \in LiveRefs : s.lin = r.lin) => \A t \in Kept(r) : Resolves(r, t)

\* No live ref reaches it, and no current writer may still commit it.
Garbage(k) ==
  /\ k \in objs /\ k \notin Reachable(LiveRefs)
  /\ ~\E r \in LiveRefs : r.lin = k.lin /\ IsMember(k) /\ k.max > r.head /\ k.epoch >= r.epoch

\* Garbage does not stay: an orphan of a fenced writer, of a failed fork or of a
\* destroyed branch is deleted, or is reached again (GC's two phases and the
\* epoch in its compensating rule).
GarbageGoes ==
  \A l \in 1..MaxLineages, e \in 1..MaxEpoch, t \in 1..MaxTxid :
    \A k \in {BaseKey(l), Snapshot(l, e, t), Segment(l, e, t)} : ~<>[]Garbage(k)
=============================================================================
