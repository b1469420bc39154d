-------------------------------- MODULE Mcp --------------------------------
(***************************************************************************)
(* The MCP server's loop (mcp/server.go): a goroutine that reads lines of  *)
(* bounded length through a fixed buffer, and Serve, which takes them from *)
(* it, dispatches them one at a time and writes the answers, until the     *)
(* input ends, a write fails or its context is cancelled.                  *)
(*                                                                         *)
(* A line is its length and what it asks for: a request, which is          *)
(* answered, a notification or a blank line, which are not, or bytes that  *)
(* do not parse, which are answered with an error.  The client may stop in *)
(* mid-line, and finish the line later or never.                           *)
(***************************************************************************)
EXTENDS Naturals, Sequences, SequencesExt

CONSTANTS
  BufferSize,     \* readBufferSize
  MaxLineSize,    \* maxLineSize
  Lengths,        \* bound: how long lines are
  MaxLines,       \* bound: how many lines the client writes
  Unterminated    \* whether the input may end without a newline

\* What the constants must satisfy.
McpAssumption == BufferSize \in Nat \ {0} /\ MaxLineSize \in Nat /\ Lengths \subseteq Nat

LineKinds == {"request", "notification", "blank", "malformed"}

VARIABLES
  lines,    \* history: the lines the client wrote
  open,     \* the last of them has no newline yet
  eof,      \* the client closed its end
  ctx,      \* the context is cancelled
  rd,       \* the goroutine: the line it is at, the bytes of it not read yet, the bytes kept
  sv,       \* Serve: where it is, and the answer it is writing
  out       \* what was written to the client

vars == <<lines, open, eof, ctx, rd, sv, out>>

NoLine == [line |-> 0, tooLong |-> FALSE, err |-> FALSE]

Init ==
  /\ lines = <<>> /\ out = <<>>
  /\ open = FALSE /\ eof = FALSE /\ ctx = FALSE
  /\ rd = [at |-> "read", line |-> 1, done |-> 0, kept |-> 0, tooLong |-> FALSE, item |-> NoLine]
  /\ sv = [at |-> "select", answer |-> <<0, "none">>]

-----------------------------------------------------------------------------
(* The client, and whoever cancels.                                         *)

WriteLine(n, k, whole) ==
  /\ ~open /\ ~eof /\ Len(lines) < MaxLines
  /\ k = "blank" <=> n = 0
  /\ lines' = Append(lines, [len |-> n, kind |-> k])
  /\ open' = ~whole
  /\ UNCHANGED <<eof, ctx, rd, sv, out>>

FinishLine ==
  /\ open /\ ~eof
  /\ open' = FALSE
  /\ UNCHANGED <<lines, eof, ctx, rd, sv, out>>

Close ==
  /\ ~eof /\ (open => Unterminated)
  /\ eof' = TRUE
  /\ UNCHANGED <<lines, open, ctx, rd, sv, out>>

Cancel ==
  /\ ~ctx
  /\ ctx' = TRUE
  /\ UNCHANGED <<lines, open, eof, rd, sv, out>>

-----------------------------------------------------------------------------
(* The reading goroutine.                                                   *)

Left == lines[rd.line].len - rd.done

Terminated == rd.line < Len(lines) \/ ~open

Begun == rd.line <= Len(lines)

\* bufio.Reader.ReadLine: a full buffer is handed out as a prefix; what ends in
\* a newline, or at the end of the input, as the rest of the line.
Prefix == Begun /\ Left >= BufferSize

Rest == Begun /\ Left < BufferSize /\ (Terminated \/ (eof /\ Left > 0))

Ended == eof /\ (Begun => ~Terminated /\ Left = 0)

TooLong(n) == rd.tooLong \/ rd.kept + n > MaxLineSize

\* Mutant: a line that is too long is reported at once, and its rest taken for
\* the next one.
FragmentCut ==
  IF TooLong(BufferSize)
  THEN [rd EXCEPT !.done = @ + BufferSize, !.kept = 0, !.at = "send",
                  !.item = [NoLine EXCEPT !.line = rd.line, !.tooLong = TRUE]]
  ELSE [rd EXCEPT !.done = @ + BufferSize, !.kept = @ + BufferSize]

\* A fragment is kept, or, of a line that is too long, dropped.
Fragment ==
  [rd EXCEPT !.done = @ + BufferSize, !.tooLong = TooLong(BufferSize),
             !.kept = IF TooLong(BufferSize) THEN 0 ELSE @ + BufferSize]

ReadPrefix ==
  /\ rd.at = "read" /\ Prefix
  /\ rd' = Fragment
  /\ UNCHANGED <<lines, open, eof, ctx, sv, out>>

ReadRest ==
  /\ rd.at = "read" /\ Rest
  /\ rd' = [rd EXCEPT !.at = "send", !.line = @ + 1, !.done = 0, !.kept = 0, !.tooLong = FALSE,
                      !.item = [NoLine EXCEPT !.line = rd.line, !.tooLong = TooLong(Left)]]
  /\ UNCHANGED <<lines, open, eof, ctx, sv, out>>

\* The end of the input, also in the middle of a line.
ReadEnd ==
  /\ rd.at = "read" /\ Ended
  /\ rd' = [rd EXCEPT !.at = "send", !.item = [NoLine EXCEPT !.err = TRUE]]
  /\ UNCHANGED <<lines, open, eof, ctx, sv, out>>

\* Mutant: the goroutine waits for Serve to take its line, whatever happens.
LetsGoNever == FALSE

LetsGo == ctx

\* The goroutine's own select.
ReaderStops ==
  /\ rd.at = "send" /\ LetsGo
  /\ rd' = [rd EXCEPT !.at = "gone"]
  /\ UNCHANGED <<lines, open, eof, ctx, sv, out>>

Reader == ReadPrefix \/ ReadRest \/ ReadEnd \/ ReaderStops

-----------------------------------------------------------------------------
(* Serve.                                                                   *)

\* Mutant: notifications are answered as well.
AnswersAll(kind) == kind # "blank"

\* dispatch: notifications are never answered.
Answers(kind) == kind \in {"request", "malformed"}

\* Serve takes an item: the end, a line that is too long, or a line to dispatch.
Take ==
  /\ sv.at = "select" /\ rd.at = "send"
  /\ LET i == rd.item IN
     /\ rd' = [rd EXCEPT !.at = IF i.err THEN "gone" ELSE "read", !.item = NoLine]
     /\ sv' = [sv EXCEPT !.at = IF i.err THEN "eof"
                                ELSE IF i.tooLong \/ Answers(lines[i.line].kind) THEN "write"
                                ELSE "select",
                         !.answer = <<i.line, IF i.tooLong THEN "too long" ELSE "answer">>]
  /\ UNCHANGED <<lines, open, eof, ctx, out>>

Answer ==
  /\ sv.at = "write"
  /\ \/ /\ sv' = [sv EXCEPT !.at = "select"]
        /\ out' = Append(out, sv.answer)
     \/ /\ sv' = [sv EXCEPT !.at = "failed"]
        /\ UNCHANGED out
  /\ UNCHANGED <<lines, open, eof, ctx, rd>>

\* Mutant: the context is looked at when a line has come.
NoticesBetween == ctx /\ rd.at = "send"

Notices == ctx

Cancelled ==
  /\ sv.at = "select" /\ Notices
  /\ sv' = [sv EXCEPT !.at = "cancelled"]
  /\ UNCHANGED <<lines, open, eof, ctx, rd, out>>

Serve == Take \/ Answer \/ Cancelled

Client ==
  \/ \E n \in Lengths, k \in LineKinds, whole \in BOOLEAN : WriteLine(n, k, whole)
  \/ FinishLine \/ Close \/ Cancel

Next == Client \/ Reader \/ Serve

Spec == Init /\ [][Next]_vars

\* Goroutines run; the client owes nothing.
FairSpec == Spec /\ WF_vars(Reader) /\ WF_vars(Serve)

-----------------------------------------------------------------------------
Returned == sv.at \in {"eof", "failed", "cancelled"}

\* What the client is owed for the lines so far.
Owed ==
  LET Reply(i) ==
        IF lines[i].len > MaxLineSize THEN << <<i, "too long">> >>
        ELSE IF lines[i].kind \in {"request", "malformed"} THEN << <<i, "answer">> >>
        ELSE <<>>
  IN FlattenSeq([i \in 1..Len(lines) |-> Reply(i)])

(* The answers are, in order and one each, those to the client's requests,  *)
(* lines that do not parse and lines that are too long, however the buffer  *)
(* cuts the lines: a line too long costs the session nothing else (Serve,   *)
(* readBoundedLine).                                                        *)
AnswersInOrder == IsPrefix(out, Owed)

(* When Serve returns because the input ended, everything before the end    *)
(* has been answered, a last line without a newline included ("returning a  *)
(* final unterminated line (if any) before EOF", readBoundedLine).          *)
AllAnswered == sv.at = "eof" => out = Owed

(* Serve returns once the input has ended or its context is cancelled, even *)
(* if a read is blocked in the middle of a line (Serve).                    *)
Returns == eof \/ ctx ~> Returned

(* After a cancellation the goroutine ends too, once its Read returns ("it  *)
(* exits on its own once that happens", Serve).                             *)
ReaderEnds == ctx /\ eof ~> rd.at = "gone"
=============================================================================
