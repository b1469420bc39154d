----------------------------- MODULE FrameGuard -----------------------------
(***************************************************************************)
(* The reader between an LTX object's bytes and their decoder              *)
(* (ltxio/guard.go): each field that says how much is to be read next is   *)
(* checked before the decoder sees it, and everything else passes through. *)
(*                                                                         *)
(* An object is a row of items: fields of FieldSize bytes, each sound or   *)
(* not, and the data they announce, whose length is what the field before  *)
(* says.  It may be cut short anywhere, and both the reads from below and  *)
(* those of the decoder may take any number of bytes.  A byte is its place *)
(* in the object.                                                          *)
(***************************************************************************)
EXTENDS Naturals, Sequences, FiniteSets, SequencesExt

CONSTANTS
  FieldSize,    \* bytes of a field
  DataSizes,    \* bound: bytes of a page's data, and of what follows the pages
  MaxPages,     \* bound
  BufferSizes   \* bound: how much the decoder asks for

\* What the constants must satisfy.
GuardAssumption ==
  FieldSize \in Nat \ {0} /\ DataSizes \subseteq Nat /\ MaxPages \in Nat /\ BufferSizes \subseteq Nat \ {0}

Field(kind, good, data) == [kind |-> kind, len |-> FieldSize, good |-> good, data |-> data]

Data(kind, n, good) == [kind |-> kind, len |-> n, good |-> good, data |-> 0]

\* A page in the block format, and one in the LZ4 frame format.
Sized == {<<Field("sized", TRUE, 0), Field("size", g, n), Data("payload", n, TRUE)>> :
            g \in BOOLEAN, n \in DataSizes}

Framed == {<<Field("framed", TRUE, 0), Field("frameHeader", g[1], 0), Field("frameBlock", g[2], n),
             Data("block", n, g[3]), Field("frameEnd", g[4], 0)>> :
             g \in [1..4 -> BOOLEAN], n \in DataSizes \ {0}}

\* Nothing is read after an item that is not sound, so one of them is enough.
Objects ==
  LET All == {<<Field("header", g, 0)>> \o FlattenSeq(ps)
                \o <<Field("zero", TRUE, 0), Data("rest", r, TRUE)>> :
                g \in BOOLEAN, ps \in SeqOf(Sized \cup Framed, MaxPages), r \in DataSizes}
  IN {o \in All : Cardinality({i \in 1..Len(o) : ~o[i].good}) <= 1}

\* Where each item of an object begins.
Start(o, i) == FoldLeft(LAMBDA n, item : n + item.len, 0, SubSeq(o, 1, i - 1))

ByteCount(o) == Start(o, Len(o) + 1)

VARIABLES
  object, cut,   \* the object, and how many of its bytes there are
  pos,           \* bytes read from below
  pending,       \* checked bytes the decoder has not taken
  payload,       \* bytes to pass through before the next field
  state,         \* what is parsed next
  err,           \* the error that is kept
  out, told      \* what the decoder got, and the error it was told

vars == <<object, cut, pos, pending, payload, state, err, out, told>>

Init ==
  /\ object \in Objects
  /\ cut \in 0..ByteCount(object)
  /\ pos = 0 /\ payload = 0
  /\ pending = <<>> /\ out = <<>>
  /\ state = "header" /\ err = "none" /\ told = "none"

Bytes(a, b) == [i \in 1..(b - a) |-> a + i]

\* The item that begins n bytes from here; out of step there is only garbage.
Item(n) ==
  LET at == {i \in 1..Len(object) : Start(object, i) = pos + n /\ object[i].len > 0}
  IN IF at = {} THEN Field("garbage", FALSE, 0) ELSE object[CHOOSE i \in at : TRUE]

-----------------------------------------------------------------------------
(* step.                                                                    *)

\* field, of an object that ends too early: what there is is passed on.
Short(before) == pending' = before \o Bytes(pos, cut) /\ err' = "short"

Fails ==
  /\ err' = "refused"
  /\ UNCHANGED <<pending, payload, state>>

\* The states that follow a field.
After(item) ==
  CASE item.kind \in {"header", "frameEnd"} -> "page"
    [] item.kind = "size" -> "page"
    [] item.kind = "sized" -> "size"
    [] item.kind = "framed" -> "frameHeader"
    [] item.kind = "frameHeader" -> "frameBlock"
    [] OTHER -> "rest"

\* A field, which is checked and queued.
ParseField ==
  /\ state \notin {"rest", "frameBlock"}
  /\ \/ /\ cut - pos < FieldSize
        /\ Short(<<>>)
        /\ pos' = cut /\ UNCHANGED <<payload, state>>
     \/ /\ cut - pos >= FieldSize
        /\ pos' = pos + FieldSize
        /\ \/ /\ Item(0).good
              /\ pending' = Bytes(pos, pos + FieldSize)
              /\ payload' = IF state = "size" THEN Item(0).data ELSE 0
              /\ state' = After(Item(0))
              /\ UNCHANGED err
           \/ ~Item(0).good /\ Fails

\* Mutant: the size of a block whose data are cut short is dropped.
ShortBlockDropped == pending' = Bytes(pos + FieldSize, cut) /\ err' = "short"

\* The size was read before, and goes before what there is of the data.
ShortBlock == pending' = Bytes(pos, pos + FieldSize) \o Bytes(pos + FieldSize, cut) /\ err' = "short"

\* Mutant: the data are passed on without being tried.
BlockSoundSize == TRUE

\* The data are one page, as they are or decompressed.
BlockSound == Item(FieldSize).good

\* frameBlock: a size, and the data it announces, queued together.
ParseBlock ==
  /\ state = "frameBlock"
  /\ \/ /\ cut - pos < FieldSize
        /\ Short(<<>>)
        /\ pos' = cut /\ UNCHANGED <<payload, state>>
     \/ /\ cut - pos >= FieldSize /\ ~Item(0).good
        /\ pos' = pos + FieldSize /\ Fails
     \/ /\ cut - pos >= FieldSize /\ Item(0).good
        /\ LET n == FieldSize + Item(0).data IN
           \/ /\ cut - pos < n
              /\ ShortBlock
              /\ pos' = cut /\ UNCHANGED <<payload, state>>
           \/ /\ cut - pos >= n /\ BlockSound
              /\ pos' = pos + n
              /\ pending' = Bytes(pos, pos + n)
              /\ state' = "frameEnd"
              /\ UNCHANGED <<payload, err>>
           \/ /\ cut - pos >= n /\ ~BlockSound
              /\ pos' = pos + n /\ Fails

Busy == told = "none" /\ pending = <<>> /\ err = "none"

Step ==
  /\ Busy /\ payload = 0
  /\ ParseField \/ ParseBlock
  /\ UNCHANGED <<object, cut, out, told>>

-----------------------------------------------------------------------------
(* Read.                                                                    *)

TakePending(n) ==
  /\ told = "none" /\ pending # <<>>
  /\ LET k == IF n < Len(pending) THEN n ELSE Len(pending) IN
     /\ out' = out \o SubSeq(pending, 1, k)
     /\ pending' = SubSeq(pending, k + 1, Len(pending))
  /\ UNCHANGED <<object, cut, pos, payload, state, err, told>>

TakeError ==
  /\ told = "none" /\ pending = <<>> /\ err # "none"
  /\ told' = err
  /\ UNCHANGED <<object, cut, pos, pending, payload, state, err, out>>

\* Mutant: the decoder's buffer is filled past the payload.
RoomAny(n) == n

\* What may be read from below for a buffer of n bytes.
Room(n) == IF state = "rest" \/ n < payload THEN n ELSE payload

PassThrough(n) ==
  /\ Busy /\ (payload > 0 \/ state = "rest")
  /\ \/ \E k \in 1..Room(n) :
          /\ pos + k <= cut
          /\ pos' = pos + k
          /\ out' = out \o Bytes(pos, pos + k)
          /\ payload' = IF state = "rest" \/ payload < k THEN 0 ELSE payload - k
          /\ UNCHANGED told
     \/ /\ pos = cut
        /\ told' = "eof"
        /\ UNCHANGED <<pos, out, payload>>
  /\ UNCHANGED <<object, cut, pending, state, err>>

Read == TakeError \/ \E n \in BufferSizes : TakePending(n) \/ PassThrough(n)

Next == Step \/ Read

Spec == Init /\ [][Next]_vars

-----------------------------------------------------------------------------
(* The decoder gets the object's bytes from the first one on, each once and *)
(* in order, however reads are cut ("bytes reach the decoder unchanged and  *)
(* in order", frameGuard).                                                  *)
InOrder == out \o pending = Bytes(0, Len(out) + Len(pending))

(* No byte of a field or block that is there and not sound, nor any after   *)
(* it, reaches the decoder ("only ever after the field that governs them    *)
(* has been checked", frameGuard).                                          *)
CheckedFirst ==
  \A i \in 1..Len(object) :
    ~object[i].good /\ Start(object, i + 1) <= cut => Len(out) + Len(pending) <= Start(object, i)

(* A sound object passes whole: the decoder has every byte there is when it *)
(* is told of the end ("a well-formed object decodes exactly as it would    *)
(* without the guard", frameGuard).                                         *)
PassesWhole ==
  told # "none" /\ (\A i \in 1..Len(object) : object[i].good) =>
    Len(out) = cut /\ told \in {"short", "eof"}
=============================================================================
