------------------------------- MODULE Lines --------------------------------
(***************************************************************************)
(* internal/bundle/lines.go, and the loop of a caller that reads a file    *)
(* with it to its end (walk.go, declarations.go, sigilsign.go).  A line is *)
(* put together from the chunks a bufio.Reader hands out, whose ends fall  *)
(* at a LF, at the end of its buffer, or wherever the file stopped; the    *)
(* reader underneath may return any number of bytes at a time.             *)
(***************************************************************************)
EXTENDS LineText

CONSTANTS MaxLineBytes, Files,
          BufferSize        \* of the bufio.Reader, 64 KiB in NewLines

ASSUME BufferAssumption == BufferSize \in Nat \ {0} /\ MaxLineBytes \in Nat
ASSUME FilesAssumption == Files \subseteq Seq(Bytes)

VARIABLES unread, intact,   \* the file underneath, and how reading it ends
          buffer,           \* the bytes the bufio.Reader holds
          line, number, done,
          calling,          \* control is in Next, not in its caller
          outcome,          \* what the caller made of Next's false
          delivered         \* history: what Line() was after each true

vars == <<unread, intact, buffer, line, number, done, calling, outcome, delivered>>
file == <<unread, intact>>

Init ==
    /\ unread \in Files
    /\ intact \in BOOLEAN
    /\ buffer = <<>>
    /\ line = <<>> /\ number = 0 - 1 /\ done = FALSE
    /\ calling = FALSE
    /\ outcome = Open
    /\ delivered = <<>>

\* The caller's `for lines.Next()`: a reader that is done returns false at
\* once and has no error to show; otherwise the last line's room is reused.
Call ==
    /\ outcome = Open /\ ~calling
    /\ IF done
       THEN outcome' = Ended /\ UNCHANGED <<line, calling>>
       ELSE line' = <<>> /\ calling' = TRUE /\ UNCHANGED outcome
    /\ UNCHANGED <<file, buffer, number, done, delivered>>

-----------------------------------------------------------------------------
(* bufio.Reader.ReadSlice('\n'), as lines.go meets it: it fills its buffer *)
(* until there is a LF in it, the buffer is full, or the file has stopped. *)

Fill ==
    /\ calling
    /\ ~HasLF(buffer) /\ Len(buffer) < BufferSize /\ unread # <<>>
    /\ \E n \in 1..Min({BufferSize - Len(buffer), Len(unread)}) :
          /\ buffer' = buffer \o SubSeq(unread, 1, n)
          /\ unread' = SubSeq(unread, n + 1, Len(unread))
    /\ UNCHANGED <<intact, line, number, done, calling, outcome, delivered>>

ChunkReady == HasLF(buffer)
ChunkFull == ~HasLF(buffer) /\ Len(buffer) = BufferSize
ChunkLast == ~HasLF(buffer) /\ unread = <<>>

Chunk == FirstLine(buffer)      \* all of it when there is no LF
Longer == line \o Chunk

\* A plausible bug, for the mutation runs: the chunk alone is held against the
\* limit, not the line so far.
FitsChunkOnly == Len(Chunk) <= MaxLineBytes

Fits == Len(Longer) <= MaxLineBytes

-----------------------------------------------------------------------------
(* Next's loop, one action per way a chunk can end.                        *)

Take == calling /\ Fits /\ buffer' = AfterLine(buffer) /\ UNCHANGED file

Return ==
    /\ line' = Strip(Longer)
    /\ number' = number + 1
    /\ delivered' = Append(delivered, Strip(Longer))
    /\ calling' = FALSE
    /\ UNCHANGED outcome

EndLine == ChunkReady /\ Take /\ Return /\ UNCHANGED done

\* A plausible bug, for the mutation runs: bufio.ErrBufferFull is taken for the
\* end of the line.
ContinueEndsLine == ChunkFull /\ Take /\ Return /\ UNCHANGED done

Continue ==
    /\ ChunkFull /\ Take
    /\ line' = Longer
    /\ UNCHANGED <<number, done, calling, outcome, delivered>>

\* io.EOF: what has been read is the last line, unless it is nothing.
EndOfFile ==
    /\ ChunkLast /\ intact /\ Take
    /\ done' = TRUE
    /\ IF Longer = <<>>
       THEN /\ outcome' = Ended /\ calling' = FALSE
            /\ UNCHANGED <<line, number, delivered>>
       ELSE Return

GiveUp(why) ==
    /\ done' = TRUE
    /\ outcome' = why
    /\ calling' = FALSE
    /\ UNCHANGED <<number, delivered>>

ReadError ==
    /\ ChunkLast /\ ~intact /\ Take
    /\ line' = Longer
    /\ GiveUp(Unreadable)

\* ErrLineTooLong, checked before the chunk is kept and before the error
\* that came with it is looked at.  The caller names line number() + 2.
TooLongLine ==
    /\ calling /\ ~Fits
    /\ ChunkReady \/ ChunkFull \/ ChunkLast
    /\ GiveUp(TooLong(number + 2))
    /\ buffer' = AfterLine(buffer)
    /\ UNCHANGED <<file, line>>

Next ==
    \/ Call \/ Fill
    \/ EndLine \/ Continue \/ EndOfFile \/ ReadError \/ TooLongLine

\* One thread runs the loop and a read of a file returns.
Spec == Init /\ [][Next]_vars /\ WF_vars(Next)

-----------------------------------------------------------------------------
\* A line can never need more memory than the limit allows, whatever the
\* file, and what the reader keeps while it decides is the limit plus one
\* buffer ("Memory is bounded by MaxLineBytes rather than by the file").
TypeOK ==
    /\ unread \in Seq(Bytes) /\ buffer \in Seq(Bytes) /\ line \in Seq(Bytes)
    /\ Len(buffer) <= BufferSize /\ Len(line) <= MaxLineBytes
    /\ intact \in BOOLEAN /\ done \in BOOLEAN /\ calling \in BOOLEAN
    /\ number \in Int /\ number = Len(delivered) - 1
    /\ delivered \in Seq(Seq(Bytes))

\* The bytes still to come, in the abstract reader's eyes.
Rest ==
    IF outcome # Open THEN <<>>
    ELSE (IF calling THEN line ELSE <<>>) \o buffer \o unread

Splitter == INSTANCE LineSplitter WITH rest <- Rest

\* Next returns the lines of the file whatever the buffer's size and wherever
\* the reads fall, refuses a line for its length alone and names the right
\* one, and every file is in the end read through or refused.
SplitsLines == Splitter!Spec
=============================================================================
