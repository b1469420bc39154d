------------------------------ MODULE Multipart ------------------------------
(***************************************************************************)
(* Large objects on S3 (store/s3_multipart.go): putMultipart with its pool *)
(* of workers, its one-part-at-a-time path for readers that cannot seek,   *)
(* and the server-side copy.  An upload is created, its parts sent, and    *)
(* the upload completed, which makes the object, or aborted.               *)
(*                                                                         *)
(* Every request has a deadline: the caller gives up on it, and S3 may     *)
(* still carry it out later, or have done so already.  Calls write one key *)
(* beside other writers of it.  A path that sends one part at a time is a  *)
(* pool of one worker that is handed nothing after a failure.  An object's *)
(* ETag is the writer that made it.                                        *)
(***************************************************************************)
EXTENDS Integers, Sequences

CONSTANTS
  Calls,                    \* calls of PutReader, PutReaderIf and CopyObject
  Kinds, Conditions,        \* where their parts come from; what they are conditional on
  Other, NoObject,          \* another writer of the key; no object there
  Size,                     \* bytes to write
  Base,                     \* the reader's position in its file
  DefaultPart, MinPart,     \* defaultPartSize, minPartSize
  MaxParts, Concurrency     \* maxParts, multipartConcurrency

ASSUME MultipartAssumption ==
  /\ Kinds \subseteq {"readerAt", "stream", "copy"}
  /\ Conditions \subseteq {"overwrite", "create", "match"}
  /\ Other \notin Calls /\ NoObject \notin Calls \cup {Other}
  /\ {Size, DefaultPart, MinPart, MaxParts, Concurrency} \subseteq Nat \ {0}
  /\ Base \in Nat

\* A copy is unconditional.
Jobs == {j \in [kind: Kinds, cond: Conditions] : j.kind = "copy" => j.cond = "overwrite"}

Lesser(a, b) == IF a < b THEN a ELSE b

Greater(a, b) == IF a > b THEN a ELSE b

PartSizeFor(size) ==
  Greater(MinPart, Greater(DefaultPart, (size + MaxParts - 1) \div MaxParts))

PartSize == PartSizeFor(Size)

NumParts == (Size + PartSize - 1) \div PartSize

Parts == 1 .. NumParts

Offset(p) == (p - 1) * PartSize

\* partLen: the last part is what remains.
PartLen(p) == Lesser(Size - Offset(p), PartSize)

\* The caller's file; what is to be written starts at Base.
File == [i \in 1 .. Base + Size |-> i]

Wanted == SubSeq(File, Base + 1, Base + Size)

\* Mutant of PartBytes: ReadAt from the start of the file.
PartBytesAbsolute(p) == SubSeq(File, Offset(p) + 1, Offset(p) + PartLen(p))

\* A section of the file, the next bytes of the stream, or a range of the
\* source object with both ends included.
PartBytes(p) == SubSeq(File, Base + Offset(p) + 1, Base + Offset(p) + PartLen(p))

\* S3 joins the parts of an upload in the order of their numbers.
Joined ==
  LET upto[p \in 0 .. NumParts] == IF p = 0 THEN <<>> ELSE upto[p - 1] \o PartBytes(p)
  IN  upto[NumParts]

Pool(job) == IF job.kind = "readerAt" THEN 1 .. Lesser(Concurrency, NumParts) ELSE {1}

VARIABLES
  object,   \* NoObject, or [by, bytes]
  job,      \* what each call was asked to do
  pc,       \* where it is
  result,   \* what it returned: "ok", "cas" (ErrCAS) or "error"
  orphan,   \* the error says that the abort failed, or the process died
  next,     \* the part the producer hands out next
  closed,   \* the producer has closed the channel
  worker,   \* per worker: the part it is sending, 0 when it waits, -1 when gone
  failed,   \* firstErr is set, and the context cancelled
  filled,   \* entries of the list of completed parts
  upload,   \* S3: the call's upload
  stored,   \* S3: the parts it holds for it
  late,     \* part requests given up that S3 may still carry out
  comp      \* the request to complete the upload

clientVars == <<job, pc, result, orphan, next, closed, worker, failed, filled>>

vars == <<object, clientVars, upload, stored, late, comp>>

AllWorkers == 1 .. Concurrency

Init ==
  /\ object \in {NoObject, [by |-> Other, bytes |-> Wanted]}
  /\ job \in [Calls -> Jobs]
  /\ pc = [c \in Calls |-> "idle"]
  /\ result = [c \in Calls |-> "none"]
  /\ orphan = [c \in Calls |-> FALSE]
  /\ next = [c \in Calls |-> 1]
  /\ closed = [c \in Calls |-> FALSE]
  /\ worker = [c \in Calls |-> [w \in AllWorkers |-> IF w \in Pool(job[c]) THEN 0 ELSE -1]]
  /\ failed = [c \in Calls |-> FALSE]
  /\ filled = [c \in Calls |-> {}]
  /\ upload = [c \in Calls |-> "none"]
  /\ stored = [c \in Calls |-> {}]
  /\ late = [c \in Calls |-> {}]
  /\ comp = [c \in Calls |-> "none"]

Goto(c, label) == pc' = [pc EXCEPT ![c] = label]

Result(c, r) == result' = [result EXCEPT ![c] = r]

Return(c, r) == Goto(c, "done") /\ Result(c, r)

pool == <<next, closed, worker, failed, filled>>

server == <<object, upload, stored, late, comp>>

-----------------------------------------------------------------------------
(* The call, up to its parts                                                *)

Begin(c) ==
  /\ pc[c] = "idle"
  /\ Goto(c, IF job[c].cond = "create" THEN "preflight" ELSE "create")
  /\ UNCHANGED <<job, result, orphan, pool, server>>

\* A create-only write looks for the object first; any error is no answer.
Preflight(c) ==
  /\ pc[c] = "preflight"
  /\ \/ object # NoObject /\ Return(c, "cas")
     \/ Goto(c, "create") /\ UNCHANGED result
  /\ UNCHANGED <<job, orphan, pool, server>>

\* CreateMultipartUpload.  When it fails, S3 may have made an upload whose
\* name the caller never learns.
Create(c) ==
  /\ pc[c] = "create"
  /\ \/ /\ upload' = [upload EXCEPT ![c] = "open"]
        /\ Goto(c, "parts")
        /\ UNCHANGED result
     \/ /\ upload' = [upload EXCEPT ![c] = "unknown"]
        /\ Return(c, "error")
     \/ /\ Return(c, "error")
        /\ UNCHANGED upload
  /\ UNCHANGED <<job, orphan, pool, object, stored, late, comp>>

-----------------------------------------------------------------------------
(* concurrentPartUpload: a producer, an unbuffered channel, a pool          *)

\* Parts read from a stream go one by one, up to the first that fails ...
StreamLoop(c) == job[c].kind = "stream" => ~failed[c]

\* ... and so do the ranges that S3 is to copy.
CopyLoop(c) == job[c].kind = "copy" => ~failed[c]

\* A part number goes to a waiting worker.  After a failure both branches of
\* the producer's select are ready, and either may be taken.
Hand(c, w) ==
  /\ pc[c] = "parts"
  /\ ~closed[c] /\ next[c] <= NumParts /\ worker[c][w] = 0
  /\ StreamLoop(c) /\ CopyLoop(c)
  /\ worker' = [worker EXCEPT ![c][w] = next[c]]
  /\ next' = [next EXCEPT ![c] = @ + 1]
  /\ UNCHANGED <<job, pc, result, orphan, closed, failed, filled, server>>

\* Mutant of Stopping: the producer leaves on a failure without a close.
StoppingAtEnd(c) == next[c] > NumParts

Stopping(c) == next[c] > NumParts \/ failed[c]

\* The producer has handed out every part, or sees the context cancelled.
Close(c) ==
  /\ pc[c] = "parts"
  /\ ~closed[c] /\ Stopping(c)
  /\ closed' = [closed EXCEPT ![c] = TRUE]
  /\ UNCHANGED <<job, pc, result, orphan, next, worker, failed, filled, server>>

Sending(c, w) == worker[c][w] > 0

\* S3 stores the part a worker is sending.
PartLands(c, w) ==
  /\ Sending(c, w)
  /\ worker[c][w] \notin stored[c]
  /\ upload[c] = "open"
  /\ stored' = [stored EXCEPT ![c] = @ \cup {worker[c][w]}]
  /\ UNCHANGED <<clientVars, object, upload, late, comp>>

\* Mutant of PartSent: the part's number is the one handed out last.
PartSentLast(c, w) ==
  /\ Sending(c, w)
  /\ worker[c][w] \in stored[c]
  /\ filled' = [filled EXCEPT ![c] = @ \cup {next[c]}]
  /\ worker' = [worker EXCEPT ![c][w] = 0]
  /\ UNCHANGED <<job, pc, result, orphan, next, closed, failed, server>>

\* The worker writes its entry of the list.
PartSent(c, w) ==
  /\ Sending(c, w)
  /\ worker[c][w] \in stored[c]
  /\ filled' = [filled EXCEPT ![c] = @ \cup {worker[c][w]}]
  /\ worker' = [worker EXCEPT ![c][w] = 0]
  /\ UNCHANGED <<job, pc, result, orphan, next, closed, failed, server>>

\* Reading or sending the part fails, its deadline passes or the context is
\* cancelled.  S3 may still carry out what it was sent.
PartFails(c, w) ==
  /\ Sending(c, w)
  /\ failed' = [failed EXCEPT ![c] = TRUE]
  /\ worker' = [worker EXCEPT ![c][w] = 0]
  /\ late' = [late EXCEPT ![c] = @ \cup {worker[c][w]}]
  /\ UNCHANGED <<job, pc, result, orphan, next, closed, filled, object, upload, stored, comp>>

\* ... even after an abort, which does not undo it.
PartLandsLate(c, p) ==
  /\ p \in late[c]
  /\ late' = [late EXCEPT ![c] = @ \ {p}]
  /\ stored' = IF upload[c] \in {"open", "aborted"}
               THEN [stored EXCEPT ![c] = @ \cup {p}] ELSE stored
  /\ UNCHANGED <<clientVars, object, upload, comp>>

\* A worker finds the channel closed.
Exit(c, w) ==
  /\ pc[c] = "parts"
  /\ closed[c] /\ worker[c][w] = 0
  /\ worker' = [worker EXCEPT ![c][w] = -1]
  /\ UNCHANGED <<job, pc, result, orphan, next, closed, failed, filled, server>>

\* Mutant of Gone: nothing waits for the workers after a failure.
GoneUnlessFailed(c) == failed[c] \/ \A w \in AllWorkers : worker[c][w] = -1

Gone(c) == \A w \in AllWorkers : worker[c][w] = -1

\* Mutant of Sound: the first error is dropped.
SoundAlways(c) == TRUE

Sound(c) == ~failed[c]

\* The pool is waited for; without an error the upload is to be completed.
Wait(c) ==
  /\ pc[c] = "parts" /\ Gone(c)
  /\ \/ /\ Sound(c)
        /\ Goto(c, "complete")
        /\ comp' = [comp EXCEPT ![c] = "sent"]
        /\ UNCHANGED result
     \/ /\ ~Sound(c)
        /\ Goto(c, "abort")
        /\ Result(c, "error")
        /\ UNCHANGED comp
  /\ UNCHANGED <<job, orphan, pool, object, upload, stored, late>>

-----------------------------------------------------------------------------
(* CompleteMultipartUpload and AbortMultipartUpload                         *)

\* Mutant of Meets: a create-only write relies on the preflight.
MeetsPreflight(c) == job[c].cond = "match" => object # NoObject /\ object.by = Other

\* The condition of the request: none, no object, or the object whose ETag
\* the caller holds.
Meets(c) ==
  /\ job[c].cond = "create" => object = NoObject
  /\ job[c].cond = "match" => object # NoObject /\ object.by = Other

\* The request lists every part, and S3 holds them.
Listed(c) == filled[c] = Parts /\ filled[c] \subseteq stored[c]

\* What S3 asks of the parts: listed and held, none but the last below the
\* least size, no more than the most, and as long together as announced.
Acceptable(c) ==
  /\ Listed(c)
  /\ \A p \in Parts : PartLen(p) >= MinPart \/ p = NumParts
  /\ NumParts <= MaxParts
  /\ Len(Joined) = Size

\* S3 makes the object: at once, or late, while the upload is there.
CompleteLands(c) ==
  /\ comp[c] = "sent" /\ upload[c] = "open"
  /\ Acceptable(c) /\ Meets(c)
  /\ object' = [by |-> c, bytes |-> Joined]
  /\ upload' = [upload EXCEPT ![c] = "completed"]
  /\ stored' = [stored EXCEPT ![c] = {}]
  /\ comp' = [comp EXCEPT ![c] = "landed"]
  /\ UNCHANGED <<clientVars, late>>

CompleteRefused(c) ==
  /\ comp[c] = "sent" /\ pc[c] = "complete"
  /\ ~(Acceptable(c) /\ Meets(c))
  /\ comp' = [comp EXCEPT ![c] = IF Acceptable(c) THEN "unmet" ELSE "invalid"]
  /\ UNCHANGED <<clientVars, object, upload, stored, late>>

\* The answer.  The SDK may have sent the request again, whose condition the
\* first one's object then fails; or give up on it, answered or not.
Completed(c) ==
  /\ pc[c] = "complete"
  /\ \/ comp[c] = "landed" /\ Return(c, "ok")
     \/ /\ comp[c] = "unmet" \/ (comp[c] = "landed" /\ job[c].cond # "overwrite")
        /\ Goto(c, "abort") /\ Result(c, "cas")
     \/ Goto(c, "abort") /\ Result(c, "error")
  /\ UNCHANGED <<job, orphan, pool, server>>

\* Mutant of Aborts: the abort shares the failed request's context.
AbortsUnlessFailed(c) == ~failed[c]

\* The abort has a context of its own, and so is sent whatever went wrong.
Aborts(c) == TRUE

\* abortUnlessCompleted: an upload that was completed after all is not found;
\* an abort that fails may have been carried out.
Abort(c) ==
  /\ pc[c] = "abort"
  /\ Goto(c, "done")
  /\ \/ /\ Aborts(c) /\ upload[c] = "open"
        /\ upload' = [upload EXCEPT ![c] = "aborted"]
        /\ stored' = [stored EXCEPT ![c] = {}]
        /\ orphan' \in {orphan, [orphan EXCEPT ![c] = TRUE]}
     \/ /\ orphan' = [orphan EXCEPT ![c] = Aborts(c)]
        /\ UNCHANGED <<upload, stored>>
  /\ UNCHANGED <<job, result, pool, object, late, comp>>

-----------------------------------------------------------------------------
\* The process dies.
Crash(c) ==
  /\ pc[c] \notin {"idle", "done"}
  /\ Return(c, "error")
  /\ orphan' = [orphan EXCEPT ![c] = TRUE]
  /\ late' = [late EXCEPT ![c] = @ \cup {worker[c][w] : w \in {v \in AllWorkers : Sending(c, v)}}]
  /\ worker' = [worker EXCEPT ![c] = [w \in AllWorkers |-> -1]]
  /\ UNCHANGED <<job, next, closed, failed, filled, object, upload, stored, comp>>

\* Another writer of the key.
OtherWrites ==
  /\ object' \in {NoObject, [by |-> Other, bytes |-> Wanted]}
  /\ object' # object
  /\ UNCHANGED <<clientVars, upload, stored, late, comp>>

Step(c) ==
  \/ Begin(c) \/ Preflight(c) \/ Create(c) \/ Close(c) \/ Wait(c)
  \/ Completed(c) \/ Abort(c)
  \/ \E w \in AllWorkers : Hand(c, w) \/ PartSent(c, w) \/ PartFails(c, w) \/ Exit(c, w)

ServerStep(c) ==
  \/ CompleteLands(c) \/ CompleteRefused(c)
  \/ \E w \in AllWorkers : PartLands(c, w)
  \/ \E p \in Parts : PartLandsLate(c, p)

Next ==
  \/ \E c \in Calls : Step(c) \/ ServerStep(c) \/ Crash(c)
  \/ OtherWrites

Spec == Init /\ [][Next]_vars

\* Goroutines run, and every request ends by its deadline if not before; S3
\* need not answer.
FairSpec == Spec /\ \A c \in Calls : WF_vars(Step(c) /\ pc[c] # "idle")

-----------------------------------------------------------------------------
(* Properties                                                               *)

TypeOK ==
  /\ job \in [Calls -> Jobs]
  /\ pc \in [Calls -> {"idle", "preflight", "create", "parts", "complete", "abort", "done"}]
  /\ result \in [Calls -> {"none", "ok", "cas", "error"}]
  /\ orphan \in [Calls -> BOOLEAN]
  /\ next \in [Calls -> 1 .. NumParts + 1]
  /\ closed \in [Calls -> BOOLEAN]
  /\ worker \in [Calls -> [AllWorkers -> {-1, 0} \cup Parts]]
  /\ failed \in [Calls -> BOOLEAN]
  /\ filled \in [Calls -> SUBSET Parts]
  /\ upload \in [Calls -> {"none", "open", "unknown", "completed", "aborted"}]
  /\ stored \in [Calls -> SUBSET Parts]
  /\ late \in [Calls -> SUBSET Parts]
  /\ comp \in [Calls -> {"none", "sent", "landed", "unmet", "invalid"}]

\* Where the parts of a call are: a part handed out is listed or with a worker
\* unless one failed, the channel is closed before the first worker goes, and
\* the upload is open from its creation to its completion or abort.
CallInv(c) ==
  /\ pc[c] \in {"idle", "preflight", "create"} =>
       /\ upload[c] = "none" /\ comp[c] = "none" /\ next[c] = 1 /\ filled[c] = {}
       /\ worker[c][1] = 0 /\ ~closed[c] /\ ~failed[c]
       /\ \A w \in AllWorkers : ~Sending(c, w)
  /\ pc[c] = "parts" =>
       /\ upload[c] = "open" /\ comp[c] = "none"
       /\ worker[c][1] = -1 => closed[c]
       /\ ~failed[c] => \A p \in 1 .. next[c] - 1 :
                          p \in filled[c] \/ \E w \in AllWorkers : worker[c][w] = p
       /\ closed[c] /\ ~failed[c] => next[c] = NumParts + 1
  /\ pc[c] \in {"complete", "abort", "done"} => \A w \in AllWorkers : ~Sending(c, w)
  /\ pc[c] = "complete" => filled[c] = Parts
  /\ pc[c] \in {"complete", "abort"} => upload[c] \in {"open", "completed"}
  /\ pc[c] = "done" /\ ~orphan[c] => upload[c] # "open"
  /\ pc[c] # "done" => ~orphan[c]
  /\ upload[c] = "open" => filled[c] \subseteq stored[c]
  /\ stored[c] # {} => upload[c] \in {"open", "aborted"}
  /\ stored[c] # {} /\ upload[c] = "aborted" => failed[c] \/ orphan[c]
  /\ late[c] # {} => failed[c] \/ orphan[c]
  /\ comp[c] = "sent" => pc[c] \in {"complete", "abort", "done"}
  /\ comp[c] = "landed" => upload[c] = "completed"
  /\ result[c] = "ok" => upload[c] = "completed"

\* The inductive invariant behind the properties below.
UploadInv == TypeOK /\ \A c \in Calls : CallInv(c)

\* Whoever reads the key finds no object or all the bytes that were to be
\* written, in order: putMultipart's sections, stream reads and copied ranges.
Whole == object # NoObject => object.bytes = Wanted

\* concurrentPartUpload: "no risk of the eventual CompleteMultipartUpload
\* seeing gaps": a request to complete lists every part, and S3 has them all;
\* partSizeFor's sizes and counts are ones it takes.
CompleteFull ==
  \A c \in Calls : pc[c] = "complete" /\ upload[c] = "open" => Acceptable(c)

\* "putMultipart's caller never issues AbortMultipartUpload while this GO
\* PROCESS still has an UploadPart call outstanding", nor completes under one.
AbortsAlone ==
  \A c \in Calls : pc[c] \in {"complete", "abort", "done"} => \A w \in AllWorkers : ~Sending(c, w)

\* abortUnlessCompleted: when a call that learned its upload's name has
\* returned, no upload is left open unless its error says so, and parts are
\* left only where a part failed, whose request S3 carried out late.
NothingLeft ==
  \A c \in Calls : pc[c] = "done" /\ ~orphan[c] =>
    /\ upload[c] # "open"
    /\ stored[c] # {} => failed[c]

\* Together: what an upload that is over has left behind.
UploadsTidy == AbortsAlone /\ NothingLeft

\* The step makes c's object.
Makes(c) == CompleteLands(c)

\* A call that has returned does not change the key any more, unless its
\* error says that the abort failed or its process died; one that returned ok
\* has written it, and a create-only write never replaces an object.
StaysOut ==
  [][\A c \in Calls :
       /\ Makes(c) => pc[c] \in {"complete", "abort"} \/ orphan[c]
       /\ Makes(c) /\ job[c].cond = "create" => object = NoObject
       /\ result'[c] = "ok" => upload'[c] = "completed"]_vars

\* Every call returns, though S3 may never answer: "so no single stalled
\* response can wedge the upload".
Returns == \A c \in Calls : pc[c] = "preflight" \/ pc[c] = "create" ~> pc[c] = "done"
=============================================================================
