------------------------------ MODULE Lineages ------------------------------
(***************************************************************************)
(* The writers, forks and destroys of a database's branches, as far as     *)
(* they put objects under lineages and make refs name them                 *)
(* (session/flush.go, ops/ops.go).  Chain says what a reader makes of the  *)
(* result.                                                                 *)
(*                                                                         *)
(* A writer holds a branch's lease at the epoch its acquire minted; another *)
(* acquire may take the branch over at any time (a lapsed lease), and the  *)
(* fenced writer goes on until a check or its compare-and-swap stops it.   *)
(* No two writes of a ref leave the same content, so a compare-and-swap    *)
(* compares refs.  Lineage IDs are random; here they are numbered as they  *)
(* are minted.                                                             *)
(***************************************************************************)
EXTENDS Naturals, Sequences, FiniteSets, SequencesExt
-----------------------------------------------------------------------------
(***************************************************************************)
(* How a reader turns the objects under a lineage's prefix into the        *)
(* members to materialise (store/store.go): the parsed keys, the collapse  *)
(* of members of one txid, the walk from a snapshot over segments, and     *)
(* base pointers into other lineages.                                      *)
(*                                                                         *)
(* O is the set of keys in the store and P what each lineage's base.json   *)
(* holds.  A key is the record ParseMemberKey makes of it; base.json,      *)
(* which parses to no member, is the one key of its lineage at epoch 0.    *)
(***************************************************************************)
CONSTANTS Lineages, NoBase

Snapshot(l, e, t) == [lin |-> l, epoch |-> e, min |-> 0, max |-> t, snap |-> TRUE]

Segment(l, e, t) == [lin |-> l, epoch |-> e, min |-> t, max |-> t, snap |-> FALSE]

BaseKey(l) == [lin |-> l, epoch |-> 0, min |-> 0, max |-> 0, snap |-> FALSE]

IsMember(k) == k.epoch > 0

\* Mutant: an epoch is no reason to prefer a member.
MoreLiveAnyEpoch(a, b) == a.snap /\ ~b.snap

\* Mutant: at one epoch the segment wins.
MoreLiveSegment(a, b) ==
  IF a.epoch # b.epoch THEN a.epoch > b.epoch ELSE b.snap /\ ~a.snap

MoreLive(a, b) ==
  IF a.epoch # b.epoch THEN a.epoch > b.epoch ELSE a.snap /\ ~b.snap

OneTxid(m) == m.snap \/ m.min = m.max

\* n evicts m: both say what the lineage is at one txid, or, for the ranges no
\* writer of this code makes, both cover the same range.
Supersedes(n, m) ==
  IF OneTxid(m)
  THEN OneTxid(n) /\ n.max = m.max /\ MoreLive(n, m)
  ELSE ~OneTxid(n) /\ n.min = m.min /\ n.max = m.max /\ n.epoch > m.epoch

KeepHighestEpoch(ms) == {m \in ms : \A n \in ms : ~Supersedes(n, m)}

\* Mutant: snapshots and segments are collapsed separately.
ListMembersByKind(O, l) ==
  LET ms == {m \in O : m.lin = l /\ IsMember(m)} IN
  KeepHighestEpoch({m \in ms : m.snap}) \cup KeepHighestEpoch({m \in ms : ~m.snap})

ListMembers(O, l) == KeepHighestEpoch({m \in O : m.lin = l /\ IsMember(m)})

Segments(ms) ==
  SetToSortSeq({m \in ms : ~m.snap},
               LAMBDA a, b : a.max < b.max \/ (a.max = b.max /\ a.min < b.min))

\* The walk over sorted segments from lo: the ones at or below lo, or if
\* skipsRead below what was read by then, are passed over, a gap ends it, and it
\* must hit hi exactly.
Walk(segs, lo, hi, skipsRead) ==
  FoldLeft(LAMBDA acc, seg :
             IF acc.end # "walking" \/ seg.max <= (IF skipsRead THEN acc.prev ELSE lo) THEN acc
             ELSE IF seg.min # acc.prev + 1 THEN [acc EXCEPT !.end = "hole"]
             ELSE [run |-> Append(acc.run, seg), prev |-> seg.max,
                   end |-> IF seg.max = hi THEN "reached"
                           ELSE IF seg.max > hi THEN "passed" ELSE "walking"],
           [run |-> <<>>, prev |-> lo, end |-> "walking"], segs)

\* A resolution that is an error.  No chain is empty.
NoChain == <<>>

Reached(walk) == IF walk.end = "reached" THEN walk.run ELSE NoChain

Anchors(ms, t) == {m \in ms : m.snap /\ m.max <= t}

\* Mutant: any snapshot below the target will do.
NewestOldest(S) == CHOOSE m \in S : \A n \in S : m.max <= n.max

Newest(S) == CHOOSE m \in S : \A n \in S : m.max >= n.max

\* resolveSelf, where some snapshot covers t (Anchors is not empty).
ResolveSelf(ms, t) ==
  LET base == Newest(Anchors(ms, t))
      rest == Reached(Walk(Segments(ms), base.max, t, TRUE))
  IN IF base.max = t THEN <<base>>
     ELSE IF rest = NoChain THEN NoChain ELSE <<base>> \o rest

ResolveRange(ms, lo, hi) ==
  Reached(Walk(Segments(ms), lo, hi, FALSE))

\* lineageBase: NoBase when there is no base.json.
LineageBase(O, P, l) == IF BaseKey(l) \in O THEN P[l] ELSE NoBase

\* The seam: both halves are resolved within their own lineage, and the lower
\* one ends at the fork point.
Join(lower, upper, at) ==
  IF lower = NoChain \/ upper = NoChain THEN NoChain
  ELSE IF lower[Len(lower)].max # at THEN NoChain ELSE lower \o upper

\* chainFrom; seen are the lineages on the way, against cycles.
ResolveChain(O, P, lineage, target) ==
  LET From[l \in Lineages, t \in Nat, seen \in SUBSET Lineages] ==
        LET base == LineageBase(O, P, l)
            ms == ListMembers(O, l)
        IN IF base = NoBase
           THEN IF Anchors(ms, t) = {} THEN NoChain ELSE ResolveSelf(ms, t)
           ELSE IF base.lin \in seen THEN NoChain
           ELSE IF t <= base.txid THEN From[base.lin, t, seen \cup {base.lin}]
           ELSE IF Anchors(ms, t) # {} THEN ResolveSelf(ms, t)
           ELSE Join(From[base.lin, base.txid, seen \cup {base.lin}],
                     ResolveRange(ms, base.txid, t), base.txid)
  IN From[lineage, target, {lineage}]

\* BaseSpine, as a set: the lineages whose base.json a resolution from here
\* may read.
BaseSpine(O, P, lineage) ==
  LET Walked[l \in Lineages, seen \in SUBSET Lineages] ==
        LET base == LineageBase(O, P, l) IN
        IF base = NoBase \/ base.lin \in seen THEN seen
        ELSE Walked[base.lin, seen \cup {base.lin}]
  IN Walked[lineage, {lineage}]

\* The nearest lineage that owns txid t: pass-through hops are skipped.
CollapseBase(O, P, lineage, t) ==
  LET Owner[l \in Lineages, seen \in SUBSET Lineages] ==
        LET base == LineageBase(O, P, l) IN
        IF base = NoBase \/ base.lin \in seen THEN l
        ELSE IF t > base.txid THEN l ELSE Owner[base.lin, seen \cup {base.lin}]
  IN Owner[lineage, {lineage}]

-----------------------------------------------------------------------------
(* The writers, forks and destroys.                                         *)

CONSTANTS
  Branches, Root,      \* names of branches; the one that exists at first
  NoRef,
  Writers, Forks,      \* sessions or checkpoint calls; calls of Fork
  ShareBound,          \* Workspace.shareBound
  MaxLineages, MaxTxid, MaxEpoch    \* bounds

VARIABLES
  refs,        \* each branch's ref, or NoRef
  objs,        \* the keys under data/
  ptr,         \* what each lineage's base.json holds
  minted,      \* how many lineages have been minted
  wr,          \* the writers
  fk,          \* the forks
  committed    \* history: objects that some ref's head or copy made live

lineageVars == <<refs, objs, ptr, minted, wr, fk, committed>>

NoHolder == "none"   \* Ref.LeaseHolder = ""

\* A ref as Create and Fork write it.
FreshRef(l, t) == [lin |-> l, epoch |-> 1, holder |-> NoHolder, head |-> t, cps |-> {t}]

IdleWriter == [at |-> "idle", branch |-> Root, epoch |-> 0, read |-> NoRef, obj |-> BaseKey(1), forced |-> FALSE]

IdleFork == [at |-> "idle", dst |-> Root, read |-> NoRef, txid |-> 0, members |-> NoChain, lin |-> 1]

\* After Create: one snapshot at txid 1, the checkpoint "init".
LineagesInit ==
  /\ refs = [b \in Branches |-> IF b = Root THEN FreshRef(1, 1) ELSE NoRef]
  /\ objs = {Snapshot(1, 1, 1)}
  /\ ptr = [l \in Lineages |-> NoBase]
  /\ minted = 1
  /\ wr = [w \in Writers |-> IdleWriter]
  /\ fk = [f \in Forks |-> IdleFork]
  /\ committed = {Snapshot(1, 1, 1)}

Exists(b) == refs[b] # NoRef

\* The txids a ref keeps readable: its head and its checkpoints.
Kept(r) == {r.head} \cup r.cps

SetWriter(w, rec) == wr' = [wr EXCEPT ![w] = rec]

SetFork(f, rec) == fk' = [fk EXCEPT ![f] = rec]

-----------------------------------------------------------------------------
(* Writers                                                                  *)

Acquire(w, b) ==
  /\ wr[w].at = "idle" /\ Exists(b) /\ refs[b].epoch < MaxEpoch
  /\ refs' = [refs EXCEPT ![b].epoch = @ + 1, ![b].holder = w]
  /\ SetWriter(w, [IdleWriter EXCEPT !.at = "held", !.branch = b, !.epoch = refs[b].epoch + 1])
  /\ UNCHANGED <<objs, ptr, minted, fk, committed>>

\* The test at the start of a flush: holder and epoch are still this lease's.
Holds(w) == LET b == wr[w].branch IN Exists(b) /\ refs[b].holder = w /\ refs[b].epoch = wr[w].epoch

\* The start of a flush: read the ref, stop if fenced, choose the kind.  A
\* first flush of a lineage at txid 1 cannot happen here (Create writes it);
\* after a failed attempt forceSnapshot makes the next one a snapshot.
FlushRead(w, snap) ==
  LET b == wr[w].branch IN
  /\ wr[w].at = "held"
  /\ \/ /\ Holds(w) /\ refs[b].head < MaxTxid
        /\ wr[w].forced => snap
        /\ SetWriter(w, [wr[w] EXCEPT !.at = "put", !.read = refs[b],
             !.obj = IF snap THEN Snapshot(refs[b].lin, wr[w].epoch, refs[b].head + 1)
                             ELSE Segment(refs[b].lin, wr[w].epoch, refs[b].head + 1)])
     \/ /\ ~Holds(w)
        /\ SetWriter(w, IdleWriter)
  /\ UNCHANGED <<refs, objs, ptr, minted, fk, committed>>

FlushPut(w) ==
  /\ wr[w].at = "put"
  /\ objs' = objs \cup {wr[w].obj}
  /\ SetWriter(w, [wr[w] EXCEPT !.at = "commit"])
  /\ UNCHANGED <<refs, ptr, minted, fk, committed>>

\* The flush is over; the next one after a failure is forced to be a snapshot.
Held(w) == [IdleWriter EXCEPT !.at = "held", !.branch = wr[w].branch, !.epoch = wr[w].epoch, !.forced = TRUE]

\* Mutant: the new head is one past the object that was written.
AdvancedPast(w, named) ==
  [wr[w].read EXCEPT !.head = wr[w].obj.max + 1,
                     !.cps = IF named THEN @ \cup {wr[w].obj.max} ELSE @]

Advanced(w, named) ==
  [wr[w].read EXCEPT !.head = wr[w].obj.max,
                     !.cps = IF named THEN @ \cup {wr[w].obj.max} ELSE @]

\* The head write lands, and is reported (the next flush is free to write a
\* segment) or is reported as failed without a verdict (it is not).
FlushLands(w, named, told) ==
  LET b == wr[w].branch IN
  /\ wr[w].at = "commit" /\ refs[b] = wr[w].read
  /\ refs' = [refs EXCEPT ![b] = Advanced(w, named)]
  /\ committed' = committed \cup {wr[w].obj}
  /\ SetWriter(w, [Held(w) EXCEPT !.forced = ~told])
  /\ UNCHANGED <<objs, ptr, minted, fk>>

\* The head write is refused: the object goes if the re-read ref shows that
\* nothing names it.
FlushLost(w) ==
  LET b == wr[w].branch
      lost == Exists(b) /\ (refs[b].lin # wr[w].read.lin \/ refs[b].head < wr[w].obj.max)
  IN
  /\ wr[w].at = "commit" /\ refs[b] # wr[w].read
  /\ objs' = IF lost THEN objs \ {wr[w].obj} ELSE objs
  /\ SetWriter(w, Held(w))
  /\ UNCHANGED <<refs, ptr, minted, fk, committed>>

\* The head write fails without a verdict and did not land: the object stays.
FlushFails(w) ==
  /\ wr[w].at = "commit"
  /\ SetWriter(w, Held(w))
  /\ UNCHANGED <<refs, objs, ptr, minted, fk, committed>>

\* The session closes, or its process dies.
Stop(w) ==
  /\ wr[w].at # "idle"
  /\ SetWriter(w, IdleWriter)
  /\ UNCHANGED <<refs, objs, ptr, minted, fk, committed>>

-----------------------------------------------------------------------------
(* Forks                                                                    *)

\* materializes
Materializes(members) == Len(members) >= ShareBound

\* Read the source, resolve the fork point; a copying fork refuses a taken name.
ForkRead(f, src, dst, t) ==
  LET members == ResolveChain(objs, ptr, refs[src].lin, t) IN
  /\ fk[f].at = "idle" /\ Exists(src) /\ t \in Kept(refs[src])
  /\ members # NoChain
  /\ Materializes(members) => ~Exists(dst)
  /\ SetFork(f, [IdleFork EXCEPT !.at = "lineage", !.dst = dst, !.read = refs[src],
                                 !.txid = t, !.members = members])
  /\ UNCHANGED <<refs, objs, ptr, minted, wr, committed>>

\* Mutant: the child points at the source's own lineage's next txid.
SharedBaseOff(f) == [lin |-> fk[f].read.lin, txid |-> fk[f].txid + 1]

SharedBase(f) == [lin |-> CollapseBase(objs, ptr, fk[f].read.lin, fk[f].txid), txid |-> fk[f].txid]

\* newLineageAt: a base pointer into the source, or a copy of the state there.
ForkLineage(f) ==
  /\ fk[f].at = "lineage" /\ minted < MaxLineages
  /\ minted' = minted + 1
  /\ \/ /\ ~Materializes(fk[f].members)
        /\ objs' = objs \cup {BaseKey(minted + 1)}
        /\ ptr' = [ptr EXCEPT ![minted + 1] = SharedBase(f)]
     \/ /\ Materializes(fk[f].members) /\ ToSet(fk[f].members) \subseteq objs
        /\ objs' = objs \cup {Snapshot(minted + 1, 1, fk[f].txid)}
        /\ UNCHANGED ptr
  /\ SetFork(f, [fk[f] EXCEPT !.at = "ref", !.lin = minted + 1])
  /\ UNCHANGED <<refs, wr, committed>>

\* The create-only ref write.  Whatever fails leaves the new lineage to GC.
ForkRef(f) ==
  /\ fk[f].at = "ref"
  /\ \/ /\ ~Exists(fk[f].dst)
        /\ refs' = [refs EXCEPT ![fk[f].dst] = FreshRef(fk[f].lin, fk[f].txid)]
        /\ committed' = committed \cup {Snapshot(fk[f].lin, 1, fk[f].txid)}
     \/ /\ Exists(fk[f].dst)
        /\ UNCHANGED <<refs, committed>>
  /\ SetFork(f, IdleFork)
  /\ UNCHANGED <<objs, ptr, minted, wr>>

\* An error on the way, or the process dies.
ForkStops(f) ==
  /\ fk[f].at # "idle"
  /\ SetFork(f, IdleFork)
  /\ UNCHANGED <<refs, objs, ptr, minted, wr, committed>>

\* The delete of a ref at the end of Destroy.
DestroyRef(b) ==
  /\ Exists(b)
  /\ refs' = [refs EXCEPT ![b] = NoRef]
  /\ UNCHANGED <<objs, ptr, minted, wr, fk, committed>>

WriterNext(w) ==
  \/ \E b \in Branches : Acquire(w, b)
  \/ \E snap \in BOOLEAN : FlushRead(w, snap)
  \/ FlushPut(w)
  \/ \E named, told \in BOOLEAN : FlushLands(w, named, told)
  \/ FlushLost(w) \/ FlushFails(w) \/ Stop(w)

ForkNext(f) ==
  \/ \E src, dst \in Branches, t \in 1..MaxTxid : ForkRead(f, src, dst, t)
  \/ ForkLineage(f) \/ ForkRef(f) \/ ForkStops(f)

LineagesNext ==
  \/ \E w \in Writers : WriterNext(w)
  \/ \E f \in Forks : ForkNext(f)
  \/ \E b \in Branches : DestroyRef(b)

LineagesSpec == LineagesInit /\ [][LineagesNext]_lineageVars

-----------------------------------------------------------------------------
LineagesTypeOK ==
  /\ \A b \in Branches : Exists(b) =>
       /\ refs[b].lin \in 1..minted /\ refs[b].epoch \in 1..MaxEpoch
       /\ refs[b].head \in 1..MaxTxid /\ refs[b].cps \subseteq 1..refs[b].head
  /\ \A k \in objs : k.lin \in 1..minted /\ k.epoch \in 0..MaxEpoch /\ k.max \in 0..MaxTxid
  /\ minted \in 1..MaxLineages
  /\ wr \in [Writers -> [at: {"idle", "held", "put", "commit"}, branch: Branches, epoch: 0..MaxEpoch,
                         read: Range(refs) \cup {wr[w].read : w \in Writers},
                         obj: {wr[w].obj : w \in Writers}, forced: BOOLEAN]]

=============================================================================
