------------------------------ MODULE MCFiles ------------------------------
(***************************************************************************)
(* The parts of offshoot that keep files on one host: the local store's     *)
(* compare-and-swap (LocalCas), the table of open database files (DbFile,   *)
(* where inode numbers are used again, and where they are not for Verify),  *)
(* the cache of read-only checkouts (RoCache, with two processes, and with  *)
(* one for longer) and the checkouts' sidecars (Sidecar).  They share no    *)
(* state, so a behaviour runs one of them, and one run checks them all.     *)
(***************************************************************************)
EXTENDS LocalCas, TLC

CONSTANTS proc1, proc2, data1, data2, name1, Nil, Bad, Unsure, Writable

VARIABLES
  part,     \* the part that runs
  file, ever, dbFd, lru, hold, read, sweep, uses, lost,
  roFile, sums, mark, cps, clock, count, loc, ev, hits,
  sidecarFile, wal, sidecarClock, truth, lease, sc, shadow, sidecarPc, sidecarLoc, writes,
  ops

dbVars == <<file, ever, dbFd, lru, hold, read, sweep, uses, lost>>

dbRests ==
  /\ file = Nil /\ ever = Nil /\ dbFd = Nil /\ lru = Nil /\ hold = Nil /\ read = Nil
  /\ sweep = Nil /\ uses = Nil /\ lost = Nil

roVars == <<roFile, sums, mark, cps, clock, count, loc, ev, hits>>

roRests ==
  /\ roFile = Nil /\ sums = Nil /\ mark = Nil /\ cps = Nil /\ clock = Nil /\ count = Nil
  /\ loc = Nil /\ ev = Nil /\ hits = Nil

sidecarVars ==
  <<sidecarFile, wal, sidecarClock, truth, lease, sc, shadow, sidecarPc, sidecarLoc, writes,
    ops>>

sidecarRests ==
  /\ sidecarFile = Nil /\ wal = Nil /\ sidecarClock = Nil /\ truth = Nil /\ lease = Nil
  /\ sc = Nil /\ shadow = Nil /\ sidecarPc = Nil /\ sidecarLoc = Nil /\ writes = Nil
  /\ ops = Nil

Db == INSTANCE DbFile WITH
  Paths <- {"p"}, Inodes <- {1, 2, 3}, Holders <- {"c1", "c2"}, Readers <- {"r1"},
  Sweepers <- {"v1"}, MaxFds <- 3, MaxUses <- 2, Keep <- 0, Reuse <- TRUE, fd <- dbFd

Verify == INSTANCE DbFile WITH
  Paths <- {"p", "q"}, Inodes <- {1, 2, 3}, Holders <- {"c1"}, Readers <- {"r1"},
  Sweepers <- {"v1"}, MaxFds <- 2, MaxUses <- 2, Keep <- 1, Reuse <- FALSE, fd <- dbFd

Ro == INSTANCE RoCache WITH
  None <- Nil, Checkout <- Writable, Names <- {name1}, Procs <- Procs, Chains <- {1, 2},
  CanClone <- TRUE, MaxEntries <- 1, Budget <- 2, MaxOps <- 2, MaxClock <- 1,
  MaxCrashes <- 1, MaxDrops <- 1, MaxDestroys <- 0, file <- roFile

Hits == INSTANCE RoCache WITH
  None <- Nil, Checkout <- Writable, Names <- {name1}, Procs <- {"p"}, Chains <- {1, 2},
  CanClone <- TRUE, MaxEntries <- 1, Budget <- 2, MaxOps <- 3, MaxClock <- 2,
  MaxCrashes <- 0, MaxDrops <- 0, MaxDestroys <- 0, file <- roFile

Sc == INSTANCE Sidecar WITH
  None <- Nil, Broken <- Bad, Unknown <- Unsure, Procs <- Procs, Contents <- Values,
  MaxHeads <- 2, MaxWrites <- 1, MaxClock <- 1, MaxOps <- 2, RefreshRace <- FALSE,
  SlowStamp <- FALSE, Overwrites <- FALSE, file <- sidecarFile, clock <- sidecarClock,
  pc <- sidecarPc, loc <- sidecarLoc

allVars == <<part, vars, dbVars, roVars, sidecarVars>>

\* One part is chosen; the others rest.
MCInit ==
  /\ part \in {"cas", "db", "verify", "ro", "hits", "sidecar"}
  /\ Init /\ (part # "cas" => content = Absent)
  /\ IF part = "db" THEN Db!Init ELSE IF part = "verify" THEN Verify!Init ELSE dbRests
  /\ IF part = "ro" THEN Ro!Init ELSE IF part = "hits" THEN Hits!Init ELSE roRests
  /\ IF part = "sidecar" THEN Sc!Init ELSE sidecarRests

MCNext ==
  /\ UNCHANGED part
  /\ \/ part = "cas" /\ Next /\ UNCHANGED <<dbVars, roVars, sidecarVars>>
     \/ part = "db" /\ Db!Next /\ UNCHANGED <<vars, roVars, sidecarVars>>
     \/ part = "verify" /\ Verify!Next /\ UNCHANGED <<vars, roVars, sidecarVars>>
     \/ part = "ro" /\ Ro!Next /\ UNCHANGED <<vars, dbVars, sidecarVars>>
     \/ part = "hits" /\ Hits!Next /\ UNCHANGED <<vars, dbVars, sidecarVars>>
     \/ part = "sidecar" /\ Sc!Next /\ UNCHANGED <<vars, dbVars, roVars>>

MCSpec == MCInit /\ [][MCNext]_allVars

\* Processes are interchangeable.
Symmetry == Permutations(Procs)

-----------------------------------------------------------------------------
(* Properties *)

\* No close of a database file drops the locks of a connection this process
\* has open, and a Section reads from an open descriptor on a file that its
\* path named between the call and the return (dbfile.Table).
DescriptorsSafe == part = "db" => Db!TypeOK /\ Db!LocksKept /\ Db!SectionsSound

\* A cached entry is the content its name says, read-only, and so is what any
\* checkout was given, whatever was removed, rebuilt or left behind by a crash
\* (buildByChainEntry, materializeFromChain).  With no materialization running
\* and none killed, the by-chain area is within its bound, whoever built and
\* pruned at once (pruneByChain), and what CheckoutAt would serve is read-only.
CacheTrue == part = "ro" => Ro!TypeOK /\ Ro!PlacedTrue /\ Ro!BoundedAtRest /\ Ro!ReadOnly


=============================================================================
