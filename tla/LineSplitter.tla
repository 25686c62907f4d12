---------------------------- MODULE LineSplitter ----------------------------
(***************************************************************************)
(* What internal/bundle/lines.go promises its callers: the lines of a file *)
(* in order, each without its line ending, until the file ends, cannot be  *)
(* read any further, or has a line longer than the verifier accepts.  No   *)
(* buffer and no read appear here: where the reads happen to fall must not *)
(* show in what the caller is given.                                       *)
(***************************************************************************)
EXTENDS LineText

CONSTANTS MaxLineBytes,     \* the longest line accepted, its LF included
          Files             \* the files a reader is opened on

VARIABLES rest,             \* the bytes not yet returned as lines
          intact,           \* reading ends at the end of the file, not in an error
          delivered,        \* the lines returned so far
          outcome           \* Open, or why there are no more lines

vars == <<rest, intact, delivered, outcome>>

Init ==
    /\ rest \in Files
    /\ intact \in BOOLEAN
    /\ delivered = <<>>
    /\ outcome = Open

Fits == LineLength(rest) <= MaxLineBytes

\* The last line needs no LF, but it needs a byte.
Deliver ==
    /\ outcome = Open /\ Fits
    /\ HasLF(rest) \/ (intact /\ rest # <<>>)
    /\ delivered' = Append(delivered, Strip(FirstLine(rest)))
    /\ rest' = AfterLine(rest)
    /\ UNCHANGED <<intact, outcome>>

Stop(why) ==
    /\ outcome = Open
    /\ outcome' = why
    /\ rest' = <<>>
    /\ UNCHANGED <<intact, delivered>>

End == intact /\ rest = <<>> /\ Stop(Ended)
Fail == ~intact /\ ~HasLF(rest) /\ Fits /\ Stop(Unreadable)

\* The line refused is the one after those delivered, counted from one.
Refuse == ~Fits /\ Stop(TooLong(Len(delivered) + 1))

Next == Deliver \/ End \/ Fail \/ Refuse

\* What may happen, and that it goes on until there are no more lines.
Safe == Init /\ [][Next]_vars
Spec == Safe /\ WF_vars(Next)
=============================================================================
