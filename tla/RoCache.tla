------------------------------ MODULE RoCache ------------------------------
(***************************************************************************)
(* The read-only checkout cache of one database: the by-chain entries that *)
(* checkouts are cloned from (ops/chainid.go), the files CheckoutAt serves *)
(* (ops/export.go), and the two things that remove them, the prune after a *)
(* populate and the janitor's budget pass (ops/rocache.go).  No lock is    *)
(* shared by any of them.                                                  *)
(*                                                                         *)
(* A chain is its length: chain k's proper prefixes are 1..k-1, and the    *)
(* content it materializes to is k.  A directory walk is one step, and a   *)
(* companion .sum and marker are removed in one step after their file.     *)
(***************************************************************************)
EXTENDS Naturals, FiniteSets, FiniteSetsExt, TLC

CONSTANTS
  Chains,        \* 1..n
  Names,         \* the branch's checkpoint names
  Procs,
  None, Checkout,    \* no value; the destination of a writable checkout
  CanClone,      \* whether the filesystem can clone
  MaxEntries,    \* DefaultByChainMaxEntries
  Budget,        \* -ro-cache-budget
  MaxOps, MaxClock, MaxCrashes, MaxDrops, MaxDestroys    \* bounds

VARIABLES
  file,      \* each path's file: its content, whether it is read-only, its mtime
  sums,      \* the entries that have a .sum
  mark,      \* each path's .last-used mtime
  cps,       \* the ref's checkpoints: the chain at each name
  clock,
  count,     \* how often each bounded thing has happened
  loc,       \* each materialization
  ev,        \* the budget pass
  hits       \* names served since the pass began

vars == <<file, sums, mark, cps, clock, count, loc, ev, hits>>
disk == <<file, sums, mark>>

Paths == Chains \cup Names
NoLoc == [at |-> "idle", dst |-> None, chain |-> 0, base |-> 0, stage |-> None,
          got |-> 0, kind |-> None, todo |-> {}, victim |-> None]
NoPass == [at |-> "idle", start |-> 0, seen |-> <<>>, left |-> 0, victim |-> None]

Init ==
  /\ file = [p \in Paths |-> None] /\ sums = {} /\ mark = [p \in Paths |-> None]
  /\ cps \in [Names -> Chains]
  /\ clock = 0
  /\ count = [ops |-> 0, crashes |-> 0, drops |-> 0, destroys |-> 0, destroyed |-> 0]
  /\ loc = [p \in Procs |-> NoLoc] /\ ev = NoPass /\ hits = {}

At(p, a) == loc[p].at = a
Set(p, l) == loc' = [loc EXCEPT ![p] = l]
Go(p, a) == Set(p, [loc[p] EXCEPT !.at = a])
File(c, ro, t) == [c |-> c, ro |-> ro, at |-> t]
Present == {p \in Paths : file[p] # None}
Entries == Present \cap Chains

\* lruClock: the marker's mtime, or else the file's own.
LastUsed(p) == IF mark[p] # None THEN mark[p] ELSE file[p].at

Touched(p) == mark' = [mark EXCEPT ![p] = clock]

Count(what, max) == count[what] < max /\ count' = [count EXCEPT ![what] = @ + 1]
-----------------------------------------------------------------------------
\* CheckoutProven, or a rollback's, promote's or compact's refresh.
CheckoutHead(p, c) ==
  /\ At(p, "idle") /\ Count("ops", MaxOps)
  /\ Set(p, [NoLoc EXCEPT !.at = "entry", !.dst = Checkout, !.chain = c])
  /\ UNCHANGED <<disk, cps, clock, ev, hits>>

\* CheckoutAt: a file that is there is served; the ref is read otherwise.
CheckoutAt(p, n, force) ==
  /\ At(p, "idle") /\ Count("ops", MaxOps)
  /\ IF ~force /\ file[n] # None
       THEN Set(p, [NoLoc EXCEPT !.at = "hit", !.dst = n])
       ELSE Set(p, IF cps[n] = None THEN NoLoc ELSE
              [NoLoc EXCEPT !.at = "entry", !.dst = n, !.chain = cps[n]])
  /\ UNCHANGED <<disk, cps, clock, ev, hits>>

\* The served file's marker is touched.
Hit(p) ==
  /\ At(p, "hit")
  /\ Touched(loc[p].dst) /\ hits' = hits \cup {loc[p].dst}
  /\ Set(p, NoLoc)
  /\ UNCHANGED <<file, sums, cps, clock, count, ev>>

\* byChainEntry: the sidecar alone says there is an entry.
ByChainEntry(p) ==
  /\ At(p, "entry")
  /\ Go(p, IF loc[p].chain \in sums THEN "clone" ELSE "build")
  /\ UNCHANGED <<disk, cps, clock, count, ev, hits>>

\* The destination is renamed over.
Placed(p, c, ro) ==
  file' = IF loc[p].dst = Checkout THEN file
          ELSE [file EXCEPT ![loc[p].dst] = File(c, ro, clock)]

\* cloneIntoPlace from an entry that was there already.
Clone(p) ==
  /\ At(p, "clone")
  /\ LET e == loc[p].chain IN
     IF file[e] = None
       THEN Go(p, "build") /\ UNCHANGED file
       ELSE /\ Placed(p, file[e].c, TRUE)
            /\ Set(p, [loc[p] EXCEPT !.at = "touch", !.got = file[e].c, !.kind = "clone"])
  /\ UNCHANGED <<sums, mark, cps, clock, count, ev, hits>>

\* What is left once the destination is placed.
Rest(p) == IF loc[p].dst = Checkout THEN NoLoc ELSE [loc[p] EXCEPT !.at = "chmod"]

Touch(p) ==
  /\ At(p, "touch")
  /\ Touched(loc[p].chain) /\ Set(p, Rest(p))
  /\ UNCHANGED <<file, sums, cps, clock, count, ev, hits>>

\* canCloneByChain, and applyLongestPrefix's search.
Build(p) ==
  /\ At(p, "build")
  /\ LET prefixes == sums \cap 1..loc[p].chain - 1 IN
     Set(p, IF ~CanClone THEN [loc[p] EXCEPT !.at = "direct"]
            ELSE IF prefixes = {} THEN [loc[p] EXCEPT !.at = "fetch"]
            ELSE [loc[p] EXCEPT !.at = "apply", !.base = Max(prefixes)])
  /\ UNCHANGED <<disk, cps, clock, count, ev, hits>>

\* ApplySegments onto a copy of the prefix entry, whose content is taken on its
\* companion's word; a segment may fail to read.
Apply(p, ok) ==
  /\ At(p, "apply")
  /\ LET b == loc[p].base IN
     IF ok /\ file[b] # None
       THEN /\ Set(p, [loc[p] EXCEPT !.at = "publish", !.base = 0, !.kind = "clone+segments",
                                     !.stage = File(IF file[b].c = b THEN loc[p].chain ELSE 0, TRUE, clock)])
            /\ Touched(b)
       ELSE /\ Set(p, [loc[p] EXCEPT !.at = "fetch", !.base = 0])
            /\ UNCHANGED mark
  /\ UNCHANGED <<file, sums, cps, clock, count, ev, hits>>

\* materializeMembersAt into the stage file.
Fetch(p, ok) ==
  /\ At(p, "fetch")
  /\ Set(p, IF ~ok THEN [loc[p] EXCEPT !.at = "direct"] ELSE
       [loc[p] EXCEPT !.at = "publish", !.kind = "materialize",
                      !.stage = File(loc[p].chain, TRUE, clock)])
  /\ UNCHANGED <<disk, cps, clock, count, ev, hits>>

\* Mutant: the entry is written under its own name.
PublishInPlace(p) ==
  /\ At(p, "publish")
  /\ LET e == loc[p].chain
         begun == file[e] # None /\ file[e].c = 0
     IN /\ file' = [file EXCEPT ![e] = IF begun THEN loc[p].stage ELSE File(0, TRUE, clock)]
        /\ Set(p, IF begun THEN [loc[p] EXCEPT !.at = "stamp", !.stage = None] ELSE loc[p])
  /\ UNCHANGED <<sums, mark, cps, clock, count, ev, hits>>

\* The stage file, complete, read-only and hashed, becomes the entry.
Publish(p) ==
  /\ At(p, "publish")
  /\ file' = [file EXCEPT ![loc[p].chain] = loc[p].stage]
  /\ Set(p, [loc[p] EXCEPT !.at = "stamp", !.stage = None])
  /\ UNCHANGED <<sums, mark, cps, clock, count, ev, hits>>

\* StampSum stats the entry first.
StampStat(p) ==
  /\ At(p, "stamp")
  /\ Go(p, IF file[loc[p].chain] = None THEN "direct" ELSE "sum")
  /\ UNCHANGED <<disk, cps, clock, count, ev, hits>>

StampSum(p) ==
  /\ At(p, "sum")
  /\ sums' = sums \cup {loc[p].chain} /\ Go(p, "place")
  /\ UNCHANGED <<file, mark, cps, clock, count, ev, hits>>

\* cloneIntoPlace from the entry just built.
ClonePlace(p) ==
  /\ At(p, "place")
  /\ LET e == loc[p].chain IN
     IF file[e] = None
       THEN Go(p, "direct") /\ UNCHANGED file
       ELSE /\ Placed(p, file[e].c, TRUE)
            /\ Set(p, [loc[p] EXCEPT !.at = "prune", !.got = file[e].c])
  /\ UNCHANGED <<sums, mark, cps, clock, count, ev, hits>>

\* The last resort, whose file is 0600; only its errors are returned.
Direct(p, ok) ==
  /\ At(p, "direct")
  /\ IF ok
       THEN /\ Placed(p, loc[p].chain, FALSE)
            /\ Set(p, [loc[p] EXCEPT !.at = "prune", !.got = loc[p].chain, !.kind = "materialize"])
       ELSE Set(p, NoLoc) /\ UNCHANGED file
  /\ UNCHANGED <<sums, mark, cps, clock, count, ev, hits>>

\* Mutant: only an entry made from the store is followed by a prune.
PruneListFetched(p) ==
  /\ At(p, "prune")
  /\ \E v \in SUBSET Entries :
       /\ Cardinality(v) = IF loc[p].kind = "materialize" /\ Cardinality(Entries) > MaxEntries
                             THEN Cardinality(Entries) - MaxEntries ELSE 0
       /\ \A c \in v, d \in Entries \ v : LastUsed(c) <= LastUsed(d)
       /\ Set(p, IF v = {} THEN Rest(p) ELSE [loc[p] EXCEPT !.at = "remove", !.todo = v])
  /\ UNCHANGED <<disk, cps, clock, count, ev, hits>>

\* pruneByChain: the least recently used, down to the bound.
PruneList(p) ==
  /\ At(p, "prune")
  /\ \E v \in SUBSET Entries :
       /\ Cardinality(v) = IF Cardinality(Entries) > MaxEntries
                             THEN Cardinality(Entries) - MaxEntries ELSE 0
       /\ \A c \in v, d \in Entries \ v : LastUsed(c) <= LastUsed(d)
       /\ Set(p, IF v = {} THEN Rest(p) ELSE [loc[p] EXCEPT !.at = "remove", !.todo = v])
  /\ UNCHANGED <<disk, cps, clock, count, ev, hits>>

PruneRemove(p) ==
  /\ At(p, "remove")
  /\ \E c \in loc[p].todo :
       /\ file' = [file EXCEPT ![c] = None]
       /\ Set(p, [loc[p] EXCEPT !.at = "companions", !.victim = c])
  /\ UNCHANGED <<sums, mark, cps, clock, count, ev, hits>>

PruneCompanions(p) ==
  /\ At(p, "companions")
  /\ LET c == loc[p].victim
         left == loc[p].todo \ {c}
     IN /\ sums' = sums \ {c} /\ mark' = [mark EXCEPT ![c] = None]
        /\ Set(p, IF left = {} THEN [Rest(p) EXCEPT !.todo = {}, !.victim = None]
                  ELSE [loc[p] EXCEPT !.at = "remove", !.todo = left, !.victim = None])
  /\ UNCHANGED <<file, cps, clock, count, ev, hits>>

\* Mutant: a file whose mode could not be set is left.
ChmodKeeps(p, ok) ==
  /\ At(p, "chmod")
  /\ LET n == loc[p].dst IN
     file' = IF file[n] = None \/ ~ok THEN file ELSE [file EXCEPT ![n].ro = TRUE]
  /\ Set(p, NoLoc)
  /\ UNCHANGED <<sums, mark, cps, clock, count, ev, hits>>

\* CheckoutAt marks whatever is at its path read-only, or removes it.
Chmod(p, ok) ==
  /\ At(p, "chmod")
  /\ LET n == loc[p].dst IN
     file' = IF file[n] = None THEN file
             ELSE IF ok THEN [file EXCEPT ![n].ro = TRUE] ELSE [file EXCEPT ![n] = None]
  /\ Set(p, NoLoc)
  /\ UNCHANGED <<sums, mark, cps, clock, count, ev, hits>>

\* The process is killed.
Crash(p) ==
  /\ ~At(p, "idle") /\ Count("crashes", MaxCrashes)
  /\ Set(p, NoLoc)
  /\ UNCHANGED <<disk, cps, clock, ev, hits>>
-----------------------------------------------------------------------------
\* A chain's size in bytes.
Bytes(c) == c
Usage == MapThenSumSet(LAMBDA p : Bytes(file[p].c), Present)

\* EvictROCache takes its start time before it looks.
EvictStart ==
  /\ ev.at = "idle"
  /\ ev' = [NoPass EXCEPT !.at = "list", !.start = clock]
  /\ hits' = {}
  /\ UNCHANGED <<disk, cps, clock, count, loc>>

\* roCacheEntries, once for the whole pass.
EvictList ==
  /\ ev.at = "list"
  /\ ev' = IF Usage <= Budget THEN NoPass ELSE
       [ev EXCEPT !.at = "next", !.left = Usage,
          !.seen = [p \in Present |-> [used |-> LastUsed(p), bytes |-> Bytes(file[p].c)]]]
  /\ UNCHANGED <<disk, cps, clock, count, loc, hits>>

Seen(ps) == [p \in ps |-> ev.seen[p]]
Oldest == {p \in DOMAIN ev.seen : \A q \in DOMAIN ev.seen : ev.seen[p].used <= ev.seen[q].used}

\* Mutant: the guard goes by what the walk saw.
SparedAsSeen(p) == ev.seen[p].used >= ev.start /\ mark[p] # None

\* Mutant: an entry that was ever served is spared.
SparedMarked(p) == mark[p] # None

\* The marker was touched at or after the pass began.
Spared(p) == mark[p] # None /\ mark[p] >= ev.start

\* The next-oldest candidate is looked at again before it is removed.
EvictNext ==
  /\ ev.at = "next"
  /\ IF ev.left <= Budget \/ DOMAIN ev.seen = {} THEN ev' = NoPass ELSE
     \E p \in Oldest :
       ev' = IF Spared(p) THEN [ev EXCEPT !.seen = Seen(DOMAIN ev.seen \ {p})]
             ELSE [ev EXCEPT !.at = "remove", !.victim = p]
  /\ UNCHANGED <<disk, cps, clock, count, loc, hits>>

EvictRemove ==
  /\ ev.at = "remove"
  /\ file' = [file EXCEPT ![ev.victim] = None]
  /\ ev' = [ev EXCEPT !.at = "companions"]
  /\ UNCHANGED <<sums, mark, cps, clock, count, loc, hits>>

EvictCompanions ==
  /\ ev.at = "companions"
  /\ mark' = [mark EXCEPT ![ev.victim] = None] /\ sums' = sums \ {ev.victim}
  /\ ev' = [ev EXCEPT !.at = "next", !.left = @ - ev.seen[ev.victim].bytes, !.victim = None,
                      !.seen = Seen(DOMAIN ev.seen \ {ev.victim})]
  /\ UNCHANGED <<file, cps, clock, count, loc, hits>>
-----------------------------------------------------------------------------
\* A rollback, a promote or a prune drops a name, and a checkpoint may take it.
Drop(n) ==
  /\ cps[n] # None /\ Count("drops", MaxDrops)
  /\ cps' = [cps EXCEPT ![n] = None]
  /\ UNCHANGED <<disk, clock, loc, ev, hits>>

Checkpoint(n, c) ==
  /\ cps[n] = None
  /\ cps' = [cps EXCEPT ![n] = c]
  /\ UNCHANGED <<disk, clock, count, loc, ev, hits>>

\* Destroy deletes the ref and then this branch's files.
DestroyRef ==
  /\ count.destroys = count.destroyed /\ Count("destroys", MaxDestroys)
  /\ cps' = [n \in Names |-> None]
  /\ UNCHANGED <<disk, clock, loc, ev, hits>>

DestroyFiles ==
  /\ Count("destroyed", count.destroys)
  /\ file' = [p \in Paths |-> IF p \in Names THEN None ELSE file[p]]
  /\ mark' = [p \in Paths |-> IF p \in Names THEN None ELSE mark[p]]
  /\ UNCHANGED <<sums, cps, clock, loc, ev, hits>>

\* The last tick is kept for after the last operation.
Tick ==
  /\ clock < MaxClock
  /\ clock < MaxClock - 1 \/ (count.ops = MaxOps /\ \A p \in Procs : At(p, "idle"))
  /\ clock' = clock + 1
  /\ UNCHANGED <<disk, cps, count, loc, ev, hits>>

Step(p) ==
  \/ Hit(p) \/ ByChainEntry(p) \/ Clone(p) \/ Touch(p) \/ Build(p)
  \/ \E ok \in BOOLEAN : Apply(p, ok) \/ Fetch(p, ok) \/ Direct(p, ok) \/ Chmod(p, ok)
  \/ Publish(p) \/ StampStat(p) \/ StampSum(p) \/ ClonePlace(p)
  \/ PruneList(p) \/ PruneRemove(p) \/ PruneCompanions(p)

Evict == EvictStart \/ EvictList \/ EvictNext \/ EvictRemove \/ EvictCompanions

Next ==
  \/ \E p \in Procs :
       \/ \E c \in Chains : CheckoutHead(p, c)
       \/ \E n \in Names, force \in BOOLEAN : CheckoutAt(p, n, force)
       \/ Step(p) \/ Crash(p)
  \/ Evict
  \/ \E n \in Names : Drop(n) \/ \E c \in Chains : Checkpoint(n, c)
  \/ DestroyRef \/ DestroyFiles
  \/ Tick

Spec == Init /\ [][Next]_vars
FairSpec == Spec /\ WF_vars(Evict) /\ WF_vars(Tick) /\ \A p \in Procs : WF_vars(Step(p))
-----------------------------------------------------------------------------
TypeOK ==
  /\ \A p \in Paths : file[p] # None =>
       file[p].c \in Chains /\ file[p].ro \in BOOLEAN /\ file[p].at \in 0..clock
  /\ sums \subseteq Chains
  /\ \A p \in Paths : mark[p] # None => mark[p] \in 0..clock
  /\ cps \in [Names -> Chains \cup {None}]
  /\ \A p \in Procs : /\ loc[p].got \in Chains \cup {0} /\ loc[p].base < loc[p].chain + 1
                      /\ loc[p].todo \subseteq Chains
  /\ ev.victim \in Paths \cup {None} /\ ev.left \in Nat

\* An entry is the content its name says, read-only, and so is what any
\* checkout was given (buildByChainEntry, materializeFromChain): whatever was
\* removed, rebuilt, left behind by a crash or stamped meanwhile.
PlacedTrue ==
  /\ \A c \in Entries : file[c].c = c /\ file[c].ro
  /\ \A p \in Procs : loc[p].got # 0 => loc[p].got = loc[p].chain

\* A pass does not pick a name for removal that was served since it began
\* (EvictROCache's guard).
RemovesNoHit == ev'.at = "remove" /\ ev.at = "next" => ev'.victim \notin hits

\* With no materialization running and none killed, the by-chain area is
\* within its bound (pruneByChain), whoever built and pruned at once.
BoundedAtRest ==
  (\A p \in Procs : At(p, "idle")) /\ count.crashes = 0 => Cardinality(Entries) <= MaxEntries

\* A file that CheckoutAt would serve is read-only, once nobody is still
\* about to set its mode, and nobody was killed when about to (CheckoutAt).
ReadOnly ==
  \A n \in Names : file[n] # None /\ count.crashes = 0 =>
    file[n].ro \/ \E p \in Procs : loc[p].dst = n /\ loc[p].got # 0

\* Once the checkouts stop, the budget passes get the cache within its budget
\* and leave it there (EvictROCache: a pass that spared too much heals itself
\* in the next one).
WithinBudget == <>[](Usage <= Budget)
=============================================================================
