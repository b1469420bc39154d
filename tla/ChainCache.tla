---------------------------- MODULE ChainCache -----------------------------
(***************************************************************************)
(* The chain a checkout's sidecar records, and when it is used in place of *)
(* listing the lineage (ops/chain_cache.go), over the writers, forks and   *)
(* destroys of Lineages.                                                   *)
(*                                                                         *)
(* An at-rest checkpoint stamps its new head's chain after the head write, *)
(* when others may already have moved the branch; a session's flush stamps *)
(* nothing.  Both are writers here, so a stamp is a step that may follow a *)
(* head write that was reported.                                           *)
(***************************************************************************)
EXTENDS Lineages

CONSTANT NoRec

VARIABLES rec,     \* each branch's checkout: the identity and chain recorded
          plan,    \* the chain each writer's segment goes on top of
          due      \* the record each writer may still stamp

chainCacheVars == <<lineageVars, rec, plan, due>>

ChainCacheInit ==
  /\ LineagesInit
  /\ rec = [b \in Branches |-> NoRec]
  /\ plan = [w \in Writers |-> NoChain]
  /\ due = [w \in Writers |-> NoRec]

\* Ref.HeadEpoch: the epoch of the object the head write committed.
HeadEpoch(r) == (CHOOSE m \in committed : m.lin = r.lin /\ m.max = r.head).epoch

Identity(r, ref) == r.lin = ref.lin /\ r.epoch = HeadEpoch(ref) /\ r.txid = ref.head

\* The base spine's run, then the lineage's own, each member starting where
\* the one before it ends; the seam is at the ref's fork point.
WellFormed(c, ref) ==
  LET own == {i \in DOMAIN c : c[i].lin = ref.lin}
      seam == CHOOSE i \in own : \A j \in own : i <= j
      base == LineageBase(objs, ptr, ref.lin)
  IN /\ own # {} /\ own = seam..Len(c)
     /\ seam > 1 => /\ base # NoBase
                    /\ c[seam - 1].max = base.txid /\ c[seam].min = base.txid + 1
                    /\ c[seam - 1].lin = base.lin
                    /\ ~c[seam].snap
     /\ c[1].snap /\ c[Len(c)].max = ref.head /\ c[Len(c)].epoch = HeadEpoch(ref)
     /\ \A i \in 2..Len(c) : ~c[i].snap /\ c[i].min = c[i - 1].max + 1

\* Mutant: the record is as good as its lineage.
CachedByLineage(b) == rec[b] # NoRec /\ rec[b].lin = refs[b].lin

\* cachedChain's answer is the record.
Cached(b) ==
  rec[b] # NoRec /\ Identity(rec[b], refs[b]) /\ WellFormed(rec[b].chain, refs[b])

HeadChain(b) ==
  IF Cached(b) THEN rec[b].chain ELSE ResolveChain(objs, ptr, refs[b].lin, refs[b].head)

\* A segment is planned on the head's chain, which is resolved once.
PlanRead(w, snap) ==
  /\ FlushRead(w, snap)
  /\ plan' = [plan EXCEPT ![w] = IF snap \/ ~Holds(w) THEN NoChain ELSE HeadChain(wr[w].branch)]
  /\ UNCHANGED <<rec, due>>

\* chainKeys: the planned chain and the segment, or the snapshot alone.
NewChain(w) == IF wr[w].obj.snap THEN <<wr[w].obj>> ELSE plan[w] \o <<wr[w].obj>>

\* The head write lands; one that is reported leaves a record to stamp.
Commit(w, named, told) ==
  /\ FlushLands(w, named, told)
  /\ due' = [due EXCEPT ![w] = IF ~told THEN NoRec ELSE
       [branch |-> wr[w].branch, lin |-> wr[w].obj.lin, epoch |-> wr[w].epoch,
        txid |-> wr[w].obj.max, chain |-> NewChain(w)]]
  /\ plan' = [plan EXCEPT ![w] = NoChain]
  /\ UNCHANGED rec

\* stampCheckpoint, trusted: the record that goes with the head just written.
Stamp(w) ==
  /\ due[w] # NoRec
  /\ rec' = [rec EXCEPT ![due[w].branch] = due[w]]
  /\ due' = [due EXCEPT ![w] = NoRec]
  /\ UNCHANGED <<lineageVars, plan>>

\* A stamp that records no chain: a materialize, a distrusted checkpoint, the
\* close of a session.
Unrecord(b) ==
  /\ rec[b] # NoRec
  /\ rec' = [rec EXCEPT ![b] = NoRec]
  /\ UNCHANGED <<lineageVars, plan, due>>

\* What is left of a writer: it has no plan once it is back, and its stamp is
\* due only until it goes on.
Others(w) ==
  /\ \/ \E b \in Branches : Acquire(w, b)
     \/ FlushPut(w) \/ FlushLost(w) \/ FlushFails(w) \/ Stop(w)
  /\ plan' = IF wr'[w].at = "commit" THEN plan ELSE [plan EXCEPT ![w] = NoChain]
  /\ due' = IF wr'[w].at = "idle" THEN [due EXCEPT ![w] = NoRec] ELSE due
  /\ UNCHANGED rec

ChainCacheNext ==
  \/ \E w \in Writers :
       \/ \E snap \in BOOLEAN : PlanRead(w, snap)
       \/ \E named, told \in BOOLEAN : Commit(w, named, told)
       \/ Stamp(w) \/ Others(w)
  \/ \E b \in Branches : Unrecord(b)
  \/ /\ \/ \E f \in Forks : ForkNext(f)
        \/ \E b \in Branches : DestroyRef(b)
     /\ UNCHANGED <<rec, plan, due>>

ChainCacheSpec == ChainCacheInit /\ [][ChainCacheNext]_chainCacheVars
-----------------------------------------------------------------------------
\* A recorded chain that is accepted for a branch's head is the one that
\* resolution from the store gives (cachedChain): whatever orphans fenced
\* writers left below or above the head, whoever moved the branch since, and
\* across the base pointers of shared forks, with the base branch destroyed or
\* not.
CachedChainTrue ==
  \A b \in Branches : Exists(b) /\ Cached(b) =>
    rec[b].chain = ResolveChain(objs, ptr, refs[b].lin, refs[b].head)
=============================================================================
