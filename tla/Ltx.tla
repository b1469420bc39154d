-------------------------------- MODULE Ltx --------------------------------
(***************************************************************************)
(* A branch's chain as the code writes and reads it (ltxio/segment.go,     *)
(* ltxio.go): a snapshot and segments of changed pages, each with the      *)
(* checksum of the database before and after it.  A session makes segments *)
(* from the transactions it captured (session/session.go recordApply,      *)
(* pages.go), an at-rest checkpoint from a comparison of two files         *)
(* (ops/checkpoint_delta.go diffPages).  A reader applies them page by     *)
(* page and keeps its own checksum as it goes.                             *)
(*                                                                         *)
(* A database is a sequence of pages.  A checksum is the set of numbered   *)
(* pages that went into it: the code's is the exclusive or of one hash for *)
(* each page, which takes a page out the way it puts it in; hashes do not  *)
(* collide here.  Page LockPgno (the page of SQLite's lock bytes, at 1 GiB) *)
(* never holds data, is in no segment and in no checksum.  Objects are     *)
(* immutable, so readers need no interleaving with writers: one reads when *)
(* nothing is pending.                                                     *)
(***************************************************************************)
EXTENDS Integers, Sequences, FiniteSets, Folds

CONSTANTS
  Values, Zero,     \* what a page holds; what a hole in a file reads as
  LockPgno,
  MaxPages,         \* bound: the size of a database
  BlockPages,       \* pages in one block of a streamed checksum
  MaxTxns,          \* bound: transactions
  MaxSegments       \* bound: segments written, and read at a time

ASSUME LtxAssumption ==
  /\ Zero \in Values /\ MaxPages \in Nat \ {0} /\ BlockPages \in Nat \ {0}
  /\ LockPgno \in Nat \ {0, 1} /\ MaxTxns \in Nat /\ MaxSegments \in Nat

VARIABLES
  db, sum,          \* the replica, and its running checksum
  carry, since,     \* the pages written since the last member, and the checksum then
  txns,
  segs,             \* the segments after the snapshot
  hist,             \* the database each member was made of, the snapshot's first
  phase,            \* writing; refused: a transaction ended the session; unencodable: a segment was refused
  rd                \* the reader

writer == <<db, sum, carry, since, txns, segs, hist, phase>>

vars == <<writer, rd>>

Pgnos == 1..MaxPages

\* SQLite never ends a database at the lock page.
Sizes == Pgnos \ {LockPgno}

Contents == UNION {[1..n -> Values] : n \in Sizes}

Xor(a, b) == (a \ b) \cup (b \ a)

\* ChecksumDatabase
Sum(c) == {<<i, c[i]>> : i \in DOMAIN c \ {LockPgno}}

\* UpdateChecksum over a set of pages: what they were goes out, what they are
\* goes in.
Updated(s, old, new) == Xor(Xor(s, old), new)

\* The same database, whatever its lock page holds.
Same(a, b) == DOMAIN a = DOMAIN b /\ \A i \in DOMAIN a \ {LockPgno} : a[i] = b[i]

Idle == [at |-> "idle", file |-> <<>>, commit |-> 0, txid |-> 0, running |-> {}, todo |-> <<>>,
         left |-> {}, touched |-> {}]

Init ==
  /\ db \in Contents /\ sum = Sum(db) /\ carry = <<>> /\ since = Sum(db)
  /\ txns = 0 /\ segs = <<>> /\ hist = <<db>> /\ phase = "writing" /\ rd = Idle

-----------------------------------------------------------------------------
(* Writing. *)

\* A bug: growth of one page more than is carried passes.
GrowthOKLoose(commit, prev, carried) ==
  \/ commit <= prev
  \/ Cardinality({i \in carried : prev < i /\ i <= commit /\ i # LockPgno}) + 1
       >= commit - prev - (IF prev < LockPgno /\ LockPgno <= commit THEN 1 ELSE 0)

\* A bug: the lock page is asked for.
GrowthOKLock(commit, prev, carried) ==
  \/ commit <= prev
  \/ Cardinality({i \in carried : prev < i /\ i <= commit}) = commit - prev

\* checkGrowth: a commit grows the database by pages it carries.
GrowthOK(commit, prev, carried) ==
  \/ commit <= prev
  \/ Cardinality({i \in carried : prev < i /\ i <= commit /\ i # LockPgno})
       = commit - prev - (IF prev < LockPgno /\ LockPgno <= commit THEN 1 ELSE 0)

\* A transaction writes pages and leaves a size.  One that grows the database
\* by a page it does not carry is here as well: the code guards against it.
Txns == [writes: UNION {[d -> Values] : d \in (SUBSET (Pgnos \ {LockPgno})) \ {{}}}, commit: Sizes]

At(c, i) == IF i \in DOMAIN c THEN c[i] ELSE Zero

\* A file after pages were written to it and it was cut or extended to a size.
Written(c, writes, size) ==
  [i \in 1..size |-> IF i \in DOMAIN writes THEN writes[i] ELSE At(c, i)]

Pairs(c, pgnos) == {<<i, c[i]>> : i \in pgnos \ {LockPgno}}

\* A bug: the fold takes out a lock page that a shrink drops.
RecordedSumLock(t) ==
  LET wrote == DOMAIN t.writes
      prev == Len(db) IN
  Xor(Updated(sum, Pairs(db, wrote \cap 1..prev), Pairs(t.writes, wrote \cap 1..t.commit)),
      {<<i, db[i]>> : i \in (t.commit + 1)..prev \ wrote})

\* recordApply's checksum: each page written, old out and new in if it is
\* within the new size; then the pages a shrink drops unwritten.
RecordedSum(t) ==
  LET wrote == DOMAIN t.writes
      prev == Len(db) IN
  Xor(Updated(sum, Pairs(db, wrote \cap 1..prev), Pairs(t.writes, wrote \cap 1..t.commit)),
      Pairs(db, (t.commit + 1)..prev \ wrote))

\* A bug: a shrink leaves the pages above it in the set.
RecordedAbove(t) ==
  [i \in DOMAIN carry \cup DOMAIN t.writes |-> IF i \in DOMAIN t.writes THEN t.writes[i] ELSE carry[i]]

\* pageSet.record, then dropAbove
Recorded(t) ==
  [i \in (DOMAIN carry \cup DOMAIN t.writes) \cap 1..t.commit |->
     IF i \in DOMAIN t.writes THEN t.writes[i] ELSE carry[i]]

\* replicaSink.Apply: a transaction that grows past its pages ends the session.
Txn(t) ==
  /\ rd = Idle /\ phase = "writing" /\ Len(segs) < MaxSegments /\ txns < MaxTxns /\ txns' = txns + 1
  /\ IF GrowthOK(t.commit, Len(db), DOMAIN t.writes)
       THEN /\ db' = Written(db, t.writes, t.commit)
            /\ sum' = RecordedSum(t) /\ carry' = Recorded(t) /\ UNCHANGED phase
       ELSE phase' = "refused" /\ carry' = <<>> /\ UNCHANGED <<db, sum>>
  /\ UNCHANGED <<since, segs, hist, rd>>

\* A bug: numbered as the member before it.
SegmentBehind(commit, pre, post, pages) ==
  LET txid == Len(hist) IN
  [min |-> txid, max |-> txid, commit |-> commit, pre |-> pre, post |-> post,
   pages |-> [i \in DOMAIN pages \ {LockPgno} |-> pages[i]]]

\* EncodeSegment
Segment(commit, pre, post, pages) ==
  LET txid == Len(hist) + 1 IN
  [min |-> txid, max |-> txid, commit |-> commit, pre |-> pre, post |-> post,
   pages |-> [i \in DOMAIN pages \ {LockPgno} |-> pages[i]]]

\* A flush that is a segment: drain and EncodeSegment, which takes no page past
\* the size it declares.
Flush ==
  /\ rd = Idle /\ phase = "writing" /\ Len(segs) < MaxSegments
  /\ IF DOMAIN carry \subseteq DOMAIN db
       THEN /\ segs' = Append(segs, Segment(Len(db), since, sum, carry))
            /\ hist' = Append(hist, db) /\ since' = sum /\ UNCHANGED phase
       ELSE phase' = "unencodable" /\ UNCHANGED <<segs, hist, since>>
  /\ carry' = <<>>
  /\ UNCHANGED <<db, sum, txns, rd>>

\* A bug: pages past the shadow's end are not compared.
DiffWithin(cur, shadow) ==
  [i \in {j \in DOMAIN cur \ {LockPgno} : j \in DOMAIN shadow /\ cur[j] # shadow[j]} |-> cur[i]]

\* diffPages: what the segment carries, and the checksum after it.
Diff(cur, shadow) ==
  [i \in {j \in DOMAIN cur \ {LockPgno} : j \in DOMAIN shadow => cur[j] # shadow[j]} |-> cur[i]]

DiffSum(cur, shadow, pre) ==
  LET carried == DOMAIN Diff(cur, shadow) IN
  Xor(Updated(pre, Pairs(shadow, carried \cap DOMAIN shadow), Pairs(cur, carried)),
      Pairs(shadow, DOMAIN shadow \ DOMAIN cur))

\* A checkpoint of a database at rest against a shadow file, which must have
\* the checksum that is recorded for it.
Delta(cur, shadow) ==
  /\ rd = Idle /\ phase = "writing" /\ carry = <<>> /\ db = hist[Len(hist)]
  /\ Len(segs) < MaxSegments /\ Sum(shadow) = since
  /\ segs' = Append(segs, Segment(Len(cur), since, DiffSum(cur, shadow, since), Diff(cur, shadow)))
  /\ hist' = Append(hist, cur) /\ db' = cur
  /\ sum' = Sum(cur) /\ since' = Sum(cur)
  /\ UNCHANGED <<carry, txns, phase, rd>>

-----------------------------------------------------------------------------
(* Reading. *)

Reader(file, txid, running, todo) ==
  [at |-> "header", file |-> file, commit |-> Len(file), txid |-> txid, running |-> running,
   todo |-> todo, left |-> {}, touched |-> {}]

\* Members as a caller may hand them over: some lost, repeated or out of order.
Lists == UNION {[1..n -> 1..Len(segs)] : n \in 0..Len(segs)}

\* decodeSnapshot: a snapshot's pages, which leave the lock page a hole.
Decoded(c) == [i \in DOMAIN c |-> IF i = LockPgno THEN Zero ELSE c[i]]

MaterializeChain(todo) ==
  /\ rd = Idle /\ carry = <<>>
  /\ rd' = Reader(Decoded(hist[1]), 1, Sum(hist[1]), todo)
  /\ UNCHANGED writer

\* ApplySegments on a copy of a file that some member was made of, with the
\* checksum that is recorded for it; its txid is not known.
ApplySegments(k, todo) ==
  /\ rd = Idle /\ carry = <<>> /\ todo # <<>>
  /\ rd' = Reader(hist[k], 0, Sum(hist[k]), todo)
  /\ UNCHANGED writer

Seg == segs[Head(rd.todo)]

\* The chain goes on where it was, in number and in content.
HeaderOK == (rd.txid = 0 \/ Seg.min = rd.txid + 1) /\ Seg.pre = rd.running

Header ==
  /\ rd.at = "header" /\ rd.todo # <<>>
  /\ rd' = IF HeaderOK THEN [rd EXCEPT !.at = "page", !.left = DOMAIN Seg.pages, !.txid = Seg.min - 1]
                       ELSE [rd EXCEPT !.at = "failed"]
  /\ UNCHANGED writer

\* UpdateChecksum with what the page was and, if it stays, what it is.
PageSum(i) ==
  Updated(rd.running, IF i <= rd.commit /\ i # LockPgno THEN {<<i, rd.file[i]>>} ELSE {},
          IF i <= Seg.commit /\ i # LockPgno THEN {<<i, Seg.pages[i]>>} ELSE {})

\* Pages come in the order of their numbers; one past the end extends the file.
Page(i) ==
  /\ rd.at = "page" /\ i \in rd.left /\ \A j \in rd.left : i <= j
  /\ rd' = [rd EXCEPT !.running = PageSum(i), !.left = rd.left \ {i}, !.touched = rd.touched \cup {i},
                      !.file = [j \in 1..(IF i > Len(rd.file) THEN i ELSE Len(rd.file)) |->
                                  IF j = i THEN Seg.pages[i] ELSE At(rd.file, j)]]
  /\ UNCHANGED writer

\* A bug: the pages a shrink drops stay in the checksum.
DroppedNone == {}

\* The pages a shrink drops that the segment did not write.
Dropped == ((Seg.commit + 1)..rd.commit) \ rd.touched

\* A bug: the file keeps its length.
CutNever == rd.file

\* Truncate
Cut == [i \in 1..Seg.commit |-> At(rd.file, i)]

\* The segment's end: the growth is carried, the dropped pages come out, the
\* file gets its size, and the checksum is the one declared.
Finish ==
  /\ rd.at = "page" /\ rd.left = {}
  /\ LET running == Xor(rd.running, Pairs(rd.file, Dropped)) IN
     rd' = IF GrowthOK(Seg.commit, rd.commit, rd.touched) /\ running = Seg.post
             THEN [rd EXCEPT !.at = "header", !.file = Cut, !.commit = Seg.commit, !.txid = Seg.max,
                             !.running = running, !.todo = Tail(rd.todo), !.touched = {}]
             ELSE [rd EXCEPT !.at = "failed"]
  /\ UNCHANGED writer

\* The file is renamed into its place, or the temporary file removed.
Leave ==
  /\ rd.at = "failed" \/ (rd.at = "header" /\ rd.todo = <<>>)
  /\ rd' = Idle /\ UNCHANGED writer

Next ==
  \/ \E t \in Txns : Txn(t)
  \/ Flush \/ \E cur \in Contents, shadow \in Contents : Delta(cur, shadow)
  \/ \E todo \in Lists : MaterializeChain(todo) \/ \E k \in DOMAIN hist : ApplySegments(k, todo)
  \/ Header \/ (\E i \in Pgnos : Page(i)) \/ Finish \/ Leave

Spec == Init /\ [][Next]_vars

-----------------------------------------------------------------------------
(* Streamed checksums. *)

Pick(f, from, to) == {<<i, f[i]>> : i \in (from..to) \ {LockPgno}}

\* A bug: the upper half is numbered from the block's first page.
BlockSumFirst(f, first, k) ==
  LET mid == k \div 2 IN
  Xor(Pick(f, first, first + mid - 1),
      {<<i - mid, f[i]>> : i \in {j \in first + mid..first + k - 1 : j - mid # LockPgno}})

\* foldPages of a block's two halves
BlockSum(f, first, k) ==
  LET mid == k \div 2 IN
  Xor(Pick(f, first, first + mid - 1), Pick(f, first + mid, first + k - 1))

\* StreamChecksum of a file that has at least the pages its header says: in
\* blocks, and nothing past the last page.
StreamChecksum(f, nPages) ==
  LET blocks == 0..(Len(f) \div BlockPages)
      k(b) == LET left == nPages - b * BlockPages IN
              IF left < 0 THEN 0 ELSE IF left < BlockPages THEN left ELSE BlockPages
  IN MapThenFoldSet(Xor, {}, LAMBDA b : BlockSum(f, b * BlockPages + 1, k(b)),
                    LAMBDA S : CHOOSE b \in S : TRUE, blocks)

-----------------------------------------------------------------------------
(* Properties. *)

\* What each variable holds.
TypeOK ==
  /\ db \in Contents /\ since = Sum(hist[Len(hist)]) /\ Len(hist) = Len(segs) + 1
  /\ \A k \in DOMAIN hist : hist[k] \in Contents
  /\ \A k \in DOMAIN segs : segs[k].min = k + 1 /\ segs[k].max = k + 1 /\ segs[k].commit \in Sizes
  /\ phase \in {"writing", "refused", "unencodable"} /\ txns \in 0..MaxTxns
  /\ rd.at \in {"idle", "header", "page", "failed"}

\* recordApply's running checksum is the checksum of the replica, whatever
\* grew and shrank, and across the lock page; and a flush can always encode
\* the pages that were recorded.
WriterTrue == sum = Sum(db) /\ phase # "unencodable"

\* Between segments the checksum that applySegments keeps page by page is the
\* one that ChecksumDatabase would compute over the file.
RunningTrue == rd.at = "header" => rd.running = Sum(rd.file) /\ rd.commit = Len(rd.file)

\* Whatever list of members a reader is handed, if it accepts it then the file
\* is the database that the last of them was made of.
Rebuilds ==
  rd.at = "header" /\ rd.txid # 0 => Same(rd.file, hist[rd.txid])

\* A reader refuses a member of a chain that a session and the checkpoints
\* wrote at its header only: when it is not the next one or, for the first of
\* ApplySegments, the file is not the database before it.  applySegments never
\* fails later, in the growth or the declared checksum ("no segment this repo
\* writes can trip it").
AcceptsChain ==
  [][rd'.at = "failed" =>
       /\ rd.at = "header"
       /\ IF rd.txid = 0 THEN ~Same(rd.file, hist[Head(rd.todo)]) ELSE Head(rd.todo) # rd.txid]_rd

\* StreamChecksum of a database file, in any blocks and with anything after its
\* last page, is the checksum of the database.
StreamTrue ==
  rd.at \in {"header", "page"} =>
    \A n \in 1..Len(rd.file) : StreamChecksum(rd.file, n) = Sum(SubSeq(rd.file, 1, n))

-----------------------------------------------------------------------------
(* The inductive invariant. *)

\* Pages that turn database a into database b.
Carries(a, b, pages) ==
  /\ DOMAIN pages \subseteq DOMAIN b
  /\ \A i \in DOMAIN b \ {LockPgno} :
       IF i \in DOMAIN pages THEN b[i] = pages[i] ELSE i \in DOMAIN a /\ b[i] = a[i]

PageSets == UNION {[d -> Values] : d \in SUBSET Pgnos}

Checksums == SUBSET (Pgnos \X Values)

Segments == [min: Nat, max: Nat, commit: Sizes, pre: Checksums, post: Checksums, pages: PageSets]

\* Segment k leads from the database of member k to that of member k + 1.
Links(k) ==
  LET s == segs[k] IN
  /\ s.min = k + 1 /\ s.max = k + 1 /\ s.commit = Len(hist[k + 1])
  /\ s.pre = Sum(hist[k]) /\ s.post = Sum(hist[k + 1])
  /\ Carries(hist[k], hist[k + 1], s.pages)

WriterInv ==
  /\ db \in Contents /\ sum = Sum(db) /\ carry \in PageSets /\ phase \in {"writing", "refused"}
  /\ segs \in Seq(Segments)
  /\ hist \in Seq(Contents) /\ Len(hist) = Len(segs) + 1 /\ since = Sum(hist[Len(hist)])
  /\ \A k \in 1..Len(segs) : Links(k)
  /\ phase = "writing" => Carries(hist[Len(hist)], db, carry)

\* Between two members.
AtHeader ==
  /\ rd.file \in Contents /\ rd.commit = Len(rd.file) /\ rd.running = Sum(rd.file)
  /\ rd.todo \in Seq(1..Len(segs)) /\ rd.touched = {}
  /\ rd.txid \in 0..Len(hist) /\ (rd.txid # 0 => Same(rd.file, hist[rd.txid]))

\* In a member: the pages read so far are in the file, the others are those of
\* the database before it, and the checksum is of both.
AtPage ==
  /\ rd.todo \in Seq(1..Len(segs)) /\ rd.todo # <<>>
  /\ rd.commit = Len(hist[Head(rd.todo)])
  /\ rd.file \in Seq(Values) /\ rd.commit <= Len(rd.file)
  /\ rd.touched \cup rd.left = DOMAIN Seg.pages /\ rd.touched \cap rd.left = {}
  /\ rd.touched \subseteq DOMAIN rd.file
  /\ \A i \in rd.touched : rd.file[i] = Seg.pages[i]
  /\ \A i \in (1..rd.commit) \ (rd.touched \cup {LockPgno}) : rd.file[i] = hist[Head(rd.todo)][i]
  /\ rd.running = Pairs(rd.file, rd.touched \cup 1..rd.commit)

\* What a writer and a reader keep up between them: every member leads from one
\* database of the history to the next, and a reader in the middle of
\* applySegments has the checksum of what its file holds.
ChainInv ==
  /\ WriterInv
  /\ rd.at \in {"idle", "header", "page", "failed"}
  /\ rd = [at |-> rd.at, file |-> rd.file, commit |-> rd.commit, txid |-> rd.txid,
           running |-> rd.running, todo |-> rd.todo, left |-> rd.left, touched |-> rd.touched]
  /\ (rd.at = "header" => AtHeader) /\ (rd.at = "page" => AtPage)

=============================================================================
