------------------------------ MODULE LineBuffer ------------------------------
(***************************************************************************)
(* LineBuffer of line-buffer.ts, over the MessageBuffer of                 *)
(* stream-limits.ts: how the bytes that come in chunks are split in lines, *)
(* none of which may be longer than a limit.  The bytes are told apart as  *)
(* far as the splitting and the parser of the lines do.                    *)
(***************************************************************************)
EXTENDS Integers, SequencesExt

CONSTANT MaxMessageBytes    \* the limit, without the end of the line

\* A byte of a JSON value, one that is in none, a carriage return, a newline.
Bytes == {"json", "bad", "CR", "LF"}

(* Faulty: a carriage return before the newline counts.                    *)
CountsAll(line) == Len(line) > MaxMessageBytes

(* #checkLine, with the pending bytes in the line. *)
TooLong(line) ==
    Len(line) - (IF line # <<>> /\ Last(line) = "CR" THEN 1 ELSE 0) > MaxMessageBytes

StripCarriageReturn(line) ==
    IF line # <<>> /\ Last(line) = "CR" THEN Front(line) ELSE line

HasLine(chunk) == Contains(chunk, "LF")

(* The line that the pending bytes and the next ones of a chunk are (one   *)
(* without an end, when the chunk has no newline), and what remains.       *)
NextLine(pending, chunk) ==
    pending \o (IF HasLine(chunk) THEN SubSeq(chunk, 1, SelectInSeq(chunk, LAMBDA b : b = "LF") - 1)
                ELSE chunk)

AfterLine(chunk) ==
    IF HasLine(chunk)
    THEN SubSeq(chunk, SelectInSeq(chunk, LAMBDA b : b = "LF") + 1, Len(chunk))
    ELSE <<>>
=============================================================================
