------------------------------ MODULE LineText ------------------------------
(***************************************************************************)
(* Bytes and lines as lines.go tells them apart: LF ends a line, CR and LF *)
(* are stripped from its end, every other byte is content.                 *)
(***************************************************************************)
EXTENDS Naturals, Sequences, FiniteSetsExt

Bytes == {"x", "CR", "LF"}

HasLF(s) == \E i \in 1..Len(s) : s[i] = "LF"

\* How much of s the line at its head takes: up to and including the first
\* LF, or all of s when there is none.
LineLength(s) ==
    IF HasLF(s) THEN Min({i \in 1..Len(s) : s[i] = "LF"}) ELSE Len(s)

FirstLine(s) == SubSeq(s, 1, LineLength(s))
AfterLine(s) == SubSeq(s, LineLength(s) + 1, Len(s))

\* rtrim($line, "\r\n"): every CR and LF at the end goes.
Strip(s) ==
    SubSeq(s, 1, Max({0} \cup {i \in 1..Len(s) : s[i] \notin {"CR", "LF"}}))

\* What the caller is left with once Next has returned false.
Open == [kind |-> "open", line |-> 0]
Ended == [kind |-> "ended", line |-> 0]
Unreadable == [kind |-> "unreadable", line |-> 0]
TooLong(n) == [kind |-> "too long", line |-> n]
=============================================================================
