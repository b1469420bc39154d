------------------------------ MODULE MCChains ------------------------------
(***************************************************************************)
(* A database's way into the store and what is kept of it there: the engine *)
(* that reads SQLite's log (Capture, CaptureLag), the replica and its       *)
(* flushes (Replica), the chain of objects and its record in a checkout     *)
(* (ChainCache, with two writers on one branch and with a fork), and the    *)
(* collector (Gc, likewise).  The models share no state, so a behaviour     *)
(* runs one of them, and one run checks them all.                           *)
(***************************************************************************)
EXTENDS Naturals, TLC

CONSTANTS Values, Nil

VARIABLES
  part,     \* the part that runs
  refs, objs, ptr, minted, wr, fk, committed, rec, plan, due, stones, forkAge, gc,
  db, txns, main, wal, folded, gen, gens, size, lock, pc, up, closing, reader, replica,
  saved, dirty, captured, expectRestart, copied, target, req, captureDue,
  frames, lagSize, restarts, seen, consumed, deadTail, storing, at, floor, most, lag,
  phase, replicaMain, stamp, head, txid, trailing, sound, replicaReplica, checksum, pages,
  noApply, flushChecksum, forceSnapshot, rebaseGen, flushedRebaseGen, appliedGen,
  flushedGen, seeded, sinceSnapshot, atOpen, durable, lastErr, fl, loop, before, recent,
  refresh, steps, fails, opens, calls

chainVars == <<refs, objs, ptr, minted, wr, fk, committed, rec, plan, due, stones, forkAge, gc>>

chainRests ==
  /\ refs = Nil /\ objs = Nil /\ ptr = Nil /\ minted = Nil /\ wr = Nil /\ fk = Nil
  /\ committed = Nil /\ rec = Nil /\ plan = Nil /\ due = Nil /\ stones = Nil
  /\ forkAge = Nil /\ gc = Nil

captureVars ==
  <<db, txns, main, wal, folded, gen, gens, size, lock, pc, up, closing, reader, replica,
    saved, dirty, captured, expectRestart, copied, target, req, captureDue>>

captureRests ==
  /\ db = Nil /\ txns = Nil /\ main = Nil /\ wal = Nil /\ folded = Nil /\ gen = Nil
  /\ gens = Nil /\ size = Nil /\ lock = Nil /\ pc = Nil /\ up = Nil /\ closing = Nil
  /\ reader = Nil /\ replica = Nil /\ saved = Nil /\ dirty = Nil /\ captured = Nil
  /\ expectRestart = Nil /\ copied = Nil /\ target = Nil /\ req = Nil /\ captureDue = Nil

lagVars ==
  <<frames, lagSize, restarts, seen, consumed, deadTail, storing, at, floor, most, lag>>

lagRests ==
  /\ frames = Nil /\ lagSize = Nil /\ restarts = Nil /\ seen = Nil /\ consumed = Nil
  /\ deadTail = Nil /\ storing = Nil /\ at = Nil /\ floor = Nil /\ most = Nil /\ lag = Nil

replicaVars ==
  <<phase, replicaMain, stamp, head, txid, trailing, sound, replicaReplica, checksum, pages,
    noApply, flushChecksum, forceSnapshot, rebaseGen, flushedRebaseGen, appliedGen,
    flushedGen, seeded, sinceSnapshot, atOpen, durable, lastErr, fl, loop, before, recent,
    refresh, steps, fails, opens, calls>>

replicaRests ==
  /\ phase = Nil /\ replicaMain = Nil /\ stamp = Nil /\ head = Nil /\ txid = Nil
  /\ trailing = Nil /\ sound = Nil /\ replicaReplica = Nil /\ checksum = Nil /\ pages = Nil
  /\ noApply = Nil /\ flushChecksum = Nil /\ forceSnapshot = Nil /\ rebaseGen = Nil
  /\ flushedRebaseGen = Nil /\ appliedGen = Nil /\ flushedGen = Nil /\ seeded = Nil
  /\ sinceSnapshot = Nil /\ atOpen = Nil /\ durable = Nil /\ lastErr = Nil /\ fl = Nil
  /\ loop = Nil /\ before = Nil /\ recent = Nil /\ refresh = Nil /\ steps = Nil
  /\ fails = Nil /\ opens = Nil /\ calls = Nil

Cw == INSTANCE ChainCache WITH
  NoRef <- Nil, NoBase <- Nil, NoRec <- Nil, Branches <- {"b1"}, Root <- "b1",
  Writers <- {"w1", "w2"}, Forks <- {}, Lineages <- {1}, ShareBound <- 2, MaxLineages <- 1,
  MaxTxid <- 3, MaxEpoch <- 3

Cf == INSTANCE ChainCache WITH
  NoRef <- Nil, NoBase <- Nil, NoRec <- Nil, Branches <- {"b1", "b2"}, Root <- "b1",
  Writers <- {"w1"}, Forks <- {"f1"}, Lineages <- {1, 2}, ShareBound <- 2, MaxLineages <- 2,
  MaxTxid <- 2, MaxEpoch <- 2

Gw == INSTANCE Gc WITH
  NoRef <- Nil, NoBase <- Nil, Branches <- {"b1"}, Root <- "b1", Writers <- {"w1", "w2"},
  Forks <- {}, Passes <- {"g1"}, Lineages <- {1}, ShareBound <- 2, MaxLineages <- 1,
  MaxTxid <- 2, MaxEpoch <- 2, Grace <- 0, ForkTicks <- 0, Faults <- FALSE

Gf == INSTANCE Gc WITH
  NoRef <- Nil, NoBase <- Nil, Branches <- {"b1", "b2"}, Root <- "b1", Writers <- {},
  Forks <- {"f1"}, Passes <- {"g1", "g2"}, Lineages <- {1, 2}, ShareBound <- 2,
  MaxLineages <- 2, MaxTxid <- 2, MaxEpoch <- 2, Grace <- 1, ForkTicks <- 1, Faults <- TRUE

Ca == INSTANCE Capture WITH
  Pages <- {"p", "q"}, MaxTxns <- 3, Faults <- TRUE, Windows <- {}, due <- captureDue

La == INSTANCE CaptureLag WITH
  MaxFrames <- 3, MaxRestarts <- 2, Overlap <- FALSE, size <- lagSize

Re == INSTANCE Replica WITH
  Values <- Values, MaxPages <- 2, SnapshotEvery <- 2, MaxSteps <- 2, MaxFails <- 1,
  MaxOpens <- 1, MaxCalls <- 1, main <- replicaMain, replica <- replicaReplica

Rs == INSTANCE Replica WITH
  Values <- Values, MaxPages <- 1, SnapshotEvery <- 2, MaxSteps <- 3, MaxFails <- 1,
  MaxOpens <- 2, MaxCalls <- 0, main <- replicaMain, replica <- replicaReplica

allVars == <<part, chainVars, captureVars, lagVars, replicaVars>>

\* One part is chosen; the others rest.
MCInit ==
  /\ part \in {"writers", "forks", "gcWriters", "gcForks", "capture", "lag", "replica", "sessions"}
  /\ IF part = "writers" THEN Cw!ChainCacheInit /\ stones = Nil /\ forkAge = Nil /\ gc = Nil
     ELSE IF part = "forks" THEN Cf!ChainCacheInit /\ stones = Nil /\ forkAge = Nil /\ gc = Nil
     ELSE IF part = "gcWriters" THEN Gw!GcInit /\ rec = Nil /\ plan = Nil /\ due = Nil
     ELSE IF part = "gcForks" THEN Gf!GcInit /\ rec = Nil /\ plan = Nil /\ due = Nil
     ELSE chainRests
  /\ IF part = "capture" THEN Ca!Init ELSE captureRests
  /\ IF part = "lag" THEN La!Init ELSE lagRests
  /\ IF part = "replica" THEN Re!Init ELSE IF part = "sessions" THEN Rs!Init ELSE replicaRests

MCNext ==
  /\ UNCHANGED part
  /\ \/ /\ part = "writers" /\ Cw!ChainCacheNext
        /\ UNCHANGED <<captureVars, lagVars, replicaVars, stones, forkAge, gc>>
     \/ /\ part = "forks" /\ Cf!ChainCacheNext
        /\ UNCHANGED <<captureVars, lagVars, replicaVars, stones, forkAge, gc>>
     \/ /\ part = "gcWriters" /\ Gw!Next
        /\ UNCHANGED <<captureVars, lagVars, replicaVars, rec, plan, due>>
     \/ /\ part = "gcForks" /\ Gf!Next
        /\ UNCHANGED <<captureVars, lagVars, replicaVars, rec, plan, due>>
     \/ part = "capture" /\ Ca!Next /\ UNCHANGED <<chainVars, lagVars, replicaVars>>
     \/ part = "lag" /\ La!Next /\ UNCHANGED <<chainVars, captureVars, replicaVars>>
     \/ part = "replica" /\ Re!Next /\ UNCHANGED <<chainVars, captureVars, lagVars>>
     \/ part = "sessions" /\ Rs!Next /\ UNCHANGED <<chainVars, captureVars, lagVars>>

MCSpec == MCInit /\ [][MCNext]_allVars

Symmetry == Permutations(Values)

ASSUME Gw!GraceCoversForks /\ Gf!GraceCoversForks

-----------------------------------------------------------------------------
(* Properties *)


\* A recorded chain that is accepted for a branch's head is the one that
\* resolution from the store gives (cachedChain).
CachedChainTrue ==
  /\ part = "writers" => Cw!CachedChainTrue
  /\ part = "forks" => Cf!CachedChainTrue


=============================================================================
