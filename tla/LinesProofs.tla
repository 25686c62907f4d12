---------------------------- MODULE LinesProofs -----------------------------
(***************************************************************************)
(* The line reader implements its promise for every file, every limit and  *)
(* every buffer: each step of Lines is a step of LineSplitter or stutters. *)
(***************************************************************************)
EXTENDS Lines, SequenceTheorems, WellFoundedInduction, TLAPS

-----------------------------------------------------------------------------
(* Where a line ends.                                                      *)

\* A set of naturals that is not empty has a smallest element.
LEMMA SmallestExists ==
  ASSUME NEW T, T \subseteq Nat, T # {}
  PROVE  /\ Min(T) \in T
         /\ \A y \in T : Min(T) <= y
<1>1. PICK x \in T : \A y \in T : ~ (<<y, x>> \in OpToRel(<, Nat))
  BY NatLessThanWellFounded, WFMin
<1>2. \A y \in T : x <= y
  <2> TAKE y \in T
  <2>1. x \in Nat /\ y \in Nat
    OBVIOUS
  <2>2. ~ (y < x)
    BY <1>1, <2>1 DEF OpToRel
  <2> QED BY <2>1, <2>2
<1> QED BY <1>2 DEF Min

\* So does one that is bounded have a largest, which strip looks for.
LEMMA LargestExists ==
  ASSUME NEW n \in Nat, NEW T, T \subseteq 0..n, T # {}
  PROVE  Max(T) \in T
<1> DEFINE U == {n - y : y \in T}
<1>1. U \subseteq Nat /\ U # {}
  OBVIOUS
<1>2. /\ Min(U) \in U
      /\ \A u \in U : Min(U) <= u
  BY <1>1, SmallestExists
<1>3. PICK x \in T : Min(U) = n - x
  BY <1>2
<1>4. \A y \in T : x >= y
  <2> TAKE y \in T
  <2>1. n - y \in U
    OBVIOUS
  <2>2. n - x <= n - y
    BY <1>2, <1>3, <2>1
  <2>3. x \in Int /\ y \in Int
    OBVIOUS
  <2> QED BY <2>2, <2>3
<1> HIDE DEF U
<1> QED BY <1>4 DEF Max

\* A line is no longer than what it is read from, and ends with the first LF.
LEMMA LineLengthBounds ==
  ASSUME NEW s \in Seq(Bytes)
  PROVE  /\ LineLength(s) \in 0..Len(s)
         /\ HasLF(s) => /\ LineLength(s) >= 1
                        /\ s[LineLength(s)] = "LF"
                        /\ \A i \in 1..Len(s) : s[i] = "LF" => LineLength(s) <= i
         /\ ~HasLF(s) => LineLength(s) = Len(s)
<1>1. Len(s) \in Nat
  OBVIOUS
<1>2. CASE ~HasLF(s)
  BY <1>1, <1>2 DEF LineLength
<1>3. CASE HasLF(s)
  <2> DEFINE T == {i \in 1..Len(s) : s[i] = "LF"}
  <2>1. T \subseteq Nat /\ T # {}
    BY <1>1, <1>3 DEF HasLF
  <2>2. Min(T) \in T /\ \A y \in T : Min(T) <= y
    BY <2>1, SmallestExists
  <2>3. LineLength(s) = Min(T)
    BY <1>3 DEF LineLength
  <2> QED BY <1>1, <1>3, <2>2, <2>3
<1> QED BY <1>2, <1>3

\* The length of a line is known by its first LF.
LEMMA LineLengthIs ==
  ASSUME NEW s \in Seq(Bytes), NEW n \in 1..Len(s), s[n] = "LF",
         \A i \in 1..(n - 1) : s[i] # "LF"
  PROVE  HasLF(s) /\ LineLength(s) = n
<1>1. HasLF(s)
  BY DEF HasLF
<1>2. /\ LineLength(s) \in 1..Len(s) /\ LineLength(s) <= n
      /\ s[LineLength(s)] = "LF"
  BY <1>1, LineLengthBounds
<1>3. ~ (LineLength(s) < n)
  BY <1>2
<1> QED BY <1>1, <1>2, <1>3

\* The first line and what comes after it make up the whole.
LEMMA PartsAreSequences ==
  ASSUME NEW s \in Seq(Bytes)
  PROVE  /\ FirstLine(s) \in Seq(Bytes) /\ Len(FirstLine(s)) = LineLength(s)
         /\ AfterLine(s) \in Seq(Bytes) /\ Len(AfterLine(s)) = Len(s) - LineLength(s)
         /\ FirstLine(s) \o AfterLine(s) = s
<1>1. LineLength(s) \in 0..Len(s) /\ Len(s) \in Nat
  BY LineLengthBounds
<1>2. \A i \in 1..Len(s) : s[i] \in Bytes
  OBVIOUS
<1>3. FirstLine(s) \in Seq(Bytes) /\ Len(FirstLine(s)) = LineLength(s)
  BY <1>1, <1>2, SubSeqProperties DEF FirstLine
<1>4. AfterLine(s) \in Seq(Bytes) /\ Len(AfterLine(s)) = Len(s) - LineLength(s)
  BY <1>1, <1>2, SubSeqProperties DEF AfterLine
<1>5. FirstLine(s) \o AfterLine(s) = SubSeq(s, 1, Len(s))
  <2> DEFINE n == LineLength(s)
  <2>1. 1 \in 1..(Len(s) + 1) /\ n \in (1 - 1)..Len(s) /\ Len(s) \in n..Len(s)
    BY <1>1
  <2> HIDE DEF n
  <2>2. SubSeq(s, 1, n) \o SubSeq(s, n + 1, Len(s)) = SubSeq(s, 1, Len(s))
    BY <2>1, ConcatAdjacentSubSeq
  <2> QED BY <2>2 DEF n, FirstLine, AfterLine
<1> QED BY <1>3, <1>4, <1>5, SubSeqFull

\* Taking CR and LF off the end leaves bytes, and no more of them.
LEMMA StripShortens ==
  ASSUME NEW s \in Seq(Bytes)
  PROVE  Strip(s) \in Seq(Bytes) /\ Len(Strip(s)) <= Len(s)
<1> DEFINE T == {0} \cup {i \in 1..Len(s) : s[i] \notin {"CR", "LF"}}
<1>1. Len(s) \in Nat /\ T \subseteq 0..Len(s) /\ T # {}
  OBVIOUS
<1>2. Max(T) \in 0..Len(s)
  BY <1>1, LargestExists
<1>3. Strip(s) = SubSeq(s, 1, Max(T))
  BY DEF Strip
<1>4. \A i \in 1..Max(T) : s[i] \in Bytes
  BY <1>1, <1>2
<1> HIDE DEF T
<1> QED BY <1>1, <1>2, <1>3, <1>4, SubSeqProperties

-----------------------------------------------------------------------------
(* Lines of what is put together from pieces.                              *)

\* What comes after the first LF does not matter.
LEMMA LineOfHead ==
  ASSUME NEW s \in Seq(Bytes), NEW r \in Seq(Bytes), HasLF(s)
  PROVE  /\ HasLF(s \o r)
         /\ LineLength(s \o r) = LineLength(s)
<1> DEFINE n == LineLength(s)
<1>1. /\ n \in 1..Len(s) /\ s[n] = "LF"
      /\ \A i \in 1..Len(s) : s[i] = "LF" => n <= i
      /\ Len(s) \in Nat /\ Len(r) \in Nat
  BY LineLengthBounds
<1> HIDE DEF n
<1>2. /\ s \o r \in Seq(Bytes) /\ Len(s \o r) = Len(s) + Len(r)
      /\ \A i \in 1..Len(s) : (s \o r)[i] = s[i]
  BY <1>1, ConcatProperties
<1>3. n \in 1..Len(s \o r) /\ (s \o r)[n] = "LF"
  BY <1>1, <1>2
<1>4. \A i \in 1..(n - 1) : (s \o r)[i] # "LF"
  BY <1>1, <1>2
<1>5. HasLF(s \o r) /\ LineLength(s \o r) = n
  BY <1>2, <1>3, <1>4, LineLengthIs
<1> QED BY <1>5 DEF n

\* What comes before it and has none is a part of the line.
LEMMA LineOfTail ==
  ASSUME NEW s \in Seq(Bytes), NEW r \in Seq(Bytes), ~HasLF(s)
  PROVE  /\ HasLF(s \o r) <=> HasLF(r)
         /\ LineLength(s \o r) = Len(s) + LineLength(r)
<1>1. /\ s \o r \in Seq(Bytes) /\ Len(s \o r) = Len(s) + Len(r)
      /\ \A i \in 1..Len(s) + Len(r) :
           (s \o r)[i] = IF i <= Len(s) THEN s[i] ELSE r[i - Len(s)]
      /\ Len(s) \in Nat /\ Len(r) \in Nat
  BY ConcatProperties
<1>2. \A i \in 1..Len(s) : s[i] # "LF"
  BY DEF HasLF
<1>3. CASE HasLF(r)
  <2> DEFINE n == LineLength(r)
  <2>1. /\ n \in 1..Len(r) /\ r[n] = "LF"
        /\ \A i \in 1..Len(r) : r[i] = "LF" => n <= i
    BY <1>3, <1>1, LineLengthBounds
  <2> HIDE DEF n
  <2>2. Len(s) + n \in 1..Len(s \o r) /\ (s \o r)[Len(s) + n] = "LF"
    <3>1. Len(s) + n \in 1..Len(s \o r) /\ ~(Len(s) + n <= Len(s))
      BY <1>1, <2>1
    <3>2. (s \o r)[Len(s) + n] = r[(Len(s) + n) - Len(s)]
      BY <1>1, <3>1
    <3>3. (Len(s) + n) - Len(s) = n
      BY <1>1, <2>1
    <3> QED BY <3>1, <3>2, <3>3, <2>1
  <2>3. ASSUME NEW i \in 1..((Len(s) + n) - 1)
        PROVE  (s \o r)[i] # "LF"
    <3>1. i \in 1..(Len(s) + Len(r))
      BY <1>1, <2>1
    <3>2. CASE i <= Len(s)
      BY <3>1, <3>2, <1>1, <1>2
    <3>3. CASE ~(i <= Len(s))
      <4>1. (s \o r)[i] = r[i - Len(s)]
        BY <3>1, <3>3, <1>1
      <4>2. i - Len(s) \in 1..Len(r) /\ ~(n <= i - Len(s))
        BY <3>1, <3>3, <1>1, <2>1
      <4> QED BY <4>1, <4>2, <2>1
    <3> QED BY <3>2, <3>3
  <2>4. HasLF(s \o r) /\ LineLength(s \o r) = Len(s) + n
    BY <1>1, <2>2, <2>3, LineLengthIs
  <2> QED BY <1>3, <2>4 DEF n
<1>4. CASE ~HasLF(r)
  <2>1. \A i \in 1..Len(r) : r[i] # "LF"
    BY <1>4 DEF HasLF
  <2>2. ASSUME NEW i \in 1..Len(s \o r)
        PROVE  (s \o r)[i] # "LF"
    <3>1. CASE i <= Len(s)
      BY <3>1, <1>1, <1>2
    <3>2. CASE ~(i <= Len(s))
      <4>1. (s \o r)[i] = r[i - Len(s)] /\ i - Len(s) \in 1..Len(r)
        BY <3>2, <1>1
      <4> QED BY <4>1, <2>1
    <3> QED BY <3>1, <3>2
  <2>3. ~HasLF(s \o r)
    BY <2>2 DEF HasLF
  <2>4. LineLength(s \o r) = Len(s) + Len(r) /\ LineLength(r) = Len(r)
    BY <2>3, <1>4, <1>1 DEF LineLength
  <2> QED BY <2>3, <2>4, <1>4
<1> QED BY <1>3, <1>4

\* What a concatenation is, element by element.
LEMMA ConcatOfBytes ==
  \A a, b \in Seq(Bytes) :
    /\ Len(a \o b) = Len(a) + Len(b)
    /\ \A i \in 1..(Len(a) + Len(b)) :
         (a \o b)[i] = IF i <= Len(a) THEN a[i] ELSE b[i - Len(a)]
BY ConcatProperties

\* Two ways to cut a sequence at one place are the same.
LEMMA SamePieces ==
  ASSUME NEW a \in Seq(Bytes), NEW b \in Seq(Bytes), NEW c \in Seq(Bytes),
         NEW d \in Seq(Bytes), Len(a) = Len(c), a \o b = c \o d
  PROVE  a = c /\ b = d
<1>1. \A x, y \in Seq(Bytes) : \A i \in 1..Len(x) : x[i] = (x \o y)[i]
  BY ConcatProperties
<1>2. a = c
  <2>1. \A i \in 1..Len(a) : a[i] = (a \o b)[i] /\ c[i] = (c \o d)[i]
    BY <1>1, Zenon
  <2> QED BY <2>1, SeqEqual
<1>3. /\ Len(a) \in Nat /\ Len(b) \in Nat
      /\ Len(a \o b) = Len(a) + Len(b)
      /\ \A i \in 1..(Len(a) + Len(b)) :
           (a \o b)[i] = IF i <= Len(a) THEN a[i] ELSE b[i - Len(a)]
  <2>1. Len(a) \in Nat /\ Len(b) \in Nat
    OBVIOUS
  <2>2. /\ Len(a \o b) = Len(a) + Len(b)
        /\ \A i \in 1..(Len(a) + Len(b)) :
             (a \o b)[i] = IF i <= Len(a) THEN a[i] ELSE b[i - Len(a)]
    BY ConcatOfBytes, Zenon
  <2> QED BY <2>1, <2>2
<1>4. /\ Len(d) \in Nat
      /\ Len(a \o d) = Len(a) + Len(d)
      /\ \A i \in 1..(Len(a) + Len(d)) :
           (a \o d)[i] = IF i <= Len(a) THEN a[i] ELSE d[i - Len(a)]
  <2>1. Len(d) \in Nat
    OBVIOUS
  <2>2. /\ Len(a \o d) = Len(a) + Len(d)
        /\ \A i \in 1..(Len(a) + Len(d)) :
             (a \o d)[i] = IF i <= Len(a) THEN a[i] ELSE d[i - Len(a)]
    BY ConcatOfBytes, Zenon
  <2> QED BY <2>1, <2>2
<1>5. a \o b = a \o d /\ Len(b) = Len(d)
  BY <1>2, <1>3, <1>4
<1>6. ASSUME NEW i \in 1..Len(b)
      PROVE  b[i] = d[i]
  <2>1. /\ Len(a) + i \in 1..(Len(a) + Len(b)) /\ ~(Len(a) + i <= Len(a))
        /\ (Len(a) + i) - Len(a) = i
    BY <1>3
  <2>2. (a \o b)[Len(a) + i] = b[i] /\ (a \o d)[Len(a) + i] = d[i]
    BY <1>3, <1>4, <1>5, <2>1
  <2> QED BY <1>5, <2>2
<1>7. b = d
  BY <1>5, <1>6, SeqEqual
<1> QED BY <1>2, <1>7

\* Concatenation is associative.
LEMMA Regroup ==
  \A a, b, c \in Seq(Bytes) : (a \o b) \o c = a \o (b \o c)
BY ConcatAssociative

\* And of four, the one in the middle taken apart.
LEMMA RegroupFour ==
  ASSUME NEW a \in Seq(Bytes), NEW b \in Seq(Bytes),
         NEW c \in Seq(Bytes), NEW d \in Seq(Bytes)
  PROVE  (a \o (b \o c)) \o d = (a \o b) \o (c \o d)
<1> DEFINE e == a \o b
<1>1. a \o (b \o c) = e \o c
  BY Regroup
<1>2. e \in Seq(Bytes)
  BY ConcatProperties
<1>3. (e \o c) \o d = e \o (c \o d)
  <2> HIDE DEF e
  <2> QED BY <1>2, Regroup
<1> QED BY <1>1, <1>3

\* The line being put together, the buffer with its end, and what follows.
LEMMA LineAcross ==
  ASSUME NEW l \in Seq(Bytes), NEW b \in Seq(Bytes), NEW u \in Seq(Bytes),
         ~HasLF(l), HasLF(b)
  PROVE  /\ HasLF(l \o b \o u)
         /\ LineLength(l \o b \o u) = Len(l) + LineLength(b)
         /\ FirstLine(l \o b \o u) = l \o FirstLine(b)
         /\ AfterLine(l \o b \o u) = AfterLine(b) \o u
<1> DEFINE s == l \o b \o u
           n == Len(l) + LineLength(b)
<1>1. l \o b \in Seq(Bytes) /\ s \in Seq(Bytes)
  BY ConcatProperties
<1>2. HasLF(l \o b) /\ LineLength(l \o b) = n
  BY LineOfTail
<1>3. HasLF(s) /\ LineLength(s) = n
  BY <1>1, <1>2, LineOfHead
<1>4. /\ FirstLine(b) \in Seq(Bytes) /\ Len(FirstLine(b)) = LineLength(b)
      /\ AfterLine(b) \in Seq(Bytes) /\ FirstLine(b) \o AfterLine(b) = b
  BY PartsAreSequences
<1>5. l \o FirstLine(b) \in Seq(Bytes) /\ AfterLine(b) \o u \in Seq(Bytes)
      /\ Len(l \o FirstLine(b)) = n
  BY <1>4, ConcatProperties
<1>6. s = (l \o FirstLine(b)) \o (AfterLine(b) \o u)
  <2> HIDE DEF s, n
  <2> DEFINE Same(x, y, z, w) == (x \o (y \o z)) \o w = (x \o y) \o (z \o w)
  <2>1. \A x, y, z, w \in Seq(Bytes) : Same(x, y, z, w)
    BY RegroupFour
  <2>2. Same(l, FirstLine(b), AfterLine(b), u)
    <3> HIDE DEF Same
    <3> QED BY <2>1, <1>4, Zenon
  <2>3. (l \o b) \o u = (l \o FirstLine(b)) \o (AfterLine(b) \o u)
    BY <2>2, <1>4, Zenon
  <2> QED BY <2>3 DEF s
<1>7. /\ FirstLine(s) \in Seq(Bytes) /\ Len(FirstLine(s)) = n
      /\ AfterLine(s) \in Seq(Bytes) /\ FirstLine(s) \o AfterLine(s) = s
  BY <1>1, <1>3, PartsAreSequences
<1>8. FirstLine(s) = l \o FirstLine(b) /\ AfterLine(s) = AfterLine(b) \o u
  <2> HIDE DEF s
  <2> QED BY <1>5, <1>6, <1>7, SamePieces
<1> QED BY <1>3, <1>8

-----------------------------------------------------------------------------
(* The reader keeps to its types, and while it is in Next there is no LF   *)
(* in what it has put together; when it is done and its caller has not     *)
(* heard yet, there is nothing left.                                       *)

Mid == calling => ~HasLF(line) /\ ~done /\ outcome = Open
NothingLeft == done /\ outcome = Open => intact /\ buffer = <<>> /\ unread = <<>>

IInv == TypeOK /\ Mid /\ NothingLeft

\* The chunk is the line at the head of the buffer, all of it without a LF.
LEMMA ChunkFacts ==
  ASSUME TypeOK
  PROVE  /\ Chunk \in Seq(Bytes) /\ Len(Chunk) = LineLength(buffer)
         /\ Longer \in Seq(Bytes) /\ Len(Longer) = Len(line) + LineLength(buffer)
         /\ AfterLine(buffer) \in Seq(Bytes)
         /\ Len(AfterLine(buffer)) = Len(buffer) - LineLength(buffer)
         /\ Len(AfterLine(buffer)) <= BufferSize
         /\ LineLength(buffer) \in 0..Len(buffer)
         /\ ~HasLF(buffer) => Chunk = buffer /\ AfterLine(buffer) = <<>>
<1>1. /\ buffer \in Seq(Bytes) /\ line \in Seq(Bytes) /\ Len(buffer) <= BufferSize
      /\ Len(buffer) \in Nat
  BY DEF TypeOK
<1>2. /\ Chunk \in Seq(Bytes) /\ Len(Chunk) = LineLength(buffer)
      /\ AfterLine(buffer) \in Seq(Bytes)
      /\ Len(AfterLine(buffer)) = Len(buffer) - LineLength(buffer)
      /\ LineLength(buffer) \in 0..Len(buffer)
  BY <1>1, PartsAreSequences, LineLengthBounds DEF Chunk
<1>3. Longer \in Seq(Bytes) /\ Len(Longer) = Len(line) + Len(Chunk)
  BY <1>1, <1>2, ConcatProperties DEF Longer
<1>4. Len(AfterLine(buffer)) <= BufferSize
  BY <1>1, <1>2, BufferAssumption
<1>5. ASSUME ~HasLF(buffer)
      PROVE  Chunk = buffer /\ AfterLine(buffer) = <<>>
  <2>1. LineLength(buffer) = Len(buffer)
    BY <1>5 DEF LineLength
  <2>2. Chunk = buffer
    BY <1>1, <2>1, SubSeqFull DEF Chunk, FirstLine
  <2>3. AfterLine(buffer) = <<>>
    BY <1>1, <2>1, SubSeqEmpty DEF AfterLine
  <2> QED BY <2>2, <2>3
<1> QED BY <1>2, <1>3, <1>4, <1>5

\* A read takes no more than there is, and than there is room for.
LEMMA RoomBounds ==
  ASSUME NEW m \in Nat, NEW k \in Nat, NEW n \in 1..Min({k, m})
  PROVE  n \in 1..m /\ n <= k
<1>1. Min({k, m}) \in {k, m} /\ \A y \in {k, m} : Min({k, m}) <= y
  BY SmallestExists
<1> QED BY <1>1

\* A read moves the head of the file to the end of the buffer.
LEMMA ReadPieces ==
  ASSUME NEW b \in Seq(Bytes), NEW u \in Seq(Bytes), NEW n \in 1..Len(u)
  PROVE  /\ b \o SubSeq(u, 1, n) \in Seq(Bytes)
         /\ Len(b \o SubSeq(u, 1, n)) = Len(b) + n
         /\ SubSeq(u, 1, n) \in Seq(Bytes)
         /\ SubSeq(u, n + 1, Len(u)) \in Seq(Bytes)
         /\ SubSeq(u, 1, n) \o SubSeq(u, n + 1, Len(u)) = u
<1>1. Len(u) \in Nat /\ \A i \in 1..Len(u) : u[i] \in Bytes
  OBVIOUS
<1>2. SubSeq(u, 1, n) \in Seq(Bytes) /\ Len(SubSeq(u, 1, n)) = n
  BY <1>1, SubSeqProperties
<1>3. SubSeq(u, n + 1, Len(u)) \in Seq(Bytes)
  BY <1>1, SubSeqProperties
<1>4. SubSeq(u, 1, n) \o SubSeq(u, n + 1, Len(u)) = SubSeq(u, 1, Len(u))
  BY <1>1, ConcatAdjacentSubSeq
<1> QED BY <1>2, <1>3, <1>4, SubSeqFull, ConcatProperties

\* The reader starts with nothing read.
LEMMA InitIInv == Init => IInv
<1> SUFFICES ASSUME Init PROVE IInv
  OBVIOUS
<1>1. <<>> \in Seq(Bytes) /\ <<>> \in Seq(Seq(Bytes)) /\ Len(<<>>) = 0
  BY EmptySeq
<1>2. unread \in Seq(Bytes) /\ buffer \in Seq(Bytes) /\ line \in Seq(Bytes)
  BY <1>1, FilesAssumption DEF Init
<1>3. Len(buffer) <= BufferSize /\ Len(line) <= MaxLineBytes
  BY <1>1, BufferAssumption DEF Init
<1>4. number \in Int /\ number = Len(delivered) - 1 /\ delivered \in Seq(Seq(Bytes))
  BY <1>1 DEF Init
<1>5. intact \in BOOLEAN /\ done \in BOOLEAN /\ calling \in BOOLEAN /\ ~done /\ ~calling
  BY DEF Init
<1> QED
  BY <1>2, <1>3, <1>4, <1>5 DEF IInv, TypeOK, Mid, NothingLeft

\* What Next returns is kept, and is not longer than what was read.
LEMMA ReturnTypes ==
  ASSUME TypeOK, Fits, Return
  PROVE  /\ line' \in Seq(Bytes) /\ Len(line') <= MaxLineBytes
         /\ number' \in Int /\ number' = Len(delivered') - 1
         /\ delivered' \in Seq(Seq(Bytes))
         /\ ~calling' /\ calling' \in BOOLEAN
<1>1. Longer \in Seq(Bytes) /\ Len(Longer) \in Nat /\ Len(Longer) <= MaxLineBytes
  BY ChunkFacts DEF Fits
<1>2. Strip(Longer) \in Seq(Bytes) /\ Len(Strip(Longer)) <= MaxLineBytes
  <2>1. Strip(Longer) \in Seq(Bytes) /\ Len(Strip(Longer)) <= Len(Longer)
    BY <1>1, StripShortens
  <2> QED BY <1>1, <2>1, BufferAssumption
<1>3. /\ delivered \in Seq(Seq(Bytes)) /\ number \in Int /\ number = Len(delivered) - 1
      /\ Len(delivered) \in Nat
  BY DEF TypeOK
<1>4. /\ Append(delivered, Strip(Longer)) \in Seq(Seq(Bytes))
      /\ Len(Append(delivered, Strip(Longer))) = Len(delivered) + 1
  BY <1>2, <1>3
<1>5. /\ line' = Strip(Longer) /\ number' = number + 1
      /\ delivered' = Append(delivered, Strip(Longer))
  BY DEF Return
<1>6. ~calling' /\ calling' \in BOOLEAN
  BY DEF Return
<1>7. number' \in Int /\ number' = Len(delivered') - 1
  BY <1>3, <1>4, <1>5
<1> QED BY <1>2, <1>4, <1>5, <1>6, <1>7

\* Each way a chunk can end keeps the invariant.
LEMMA NextIInv == IInv /\ [Next]_vars => IInv'
<1> SUFFICES ASSUME IInv, [Next]_vars PROVE IInv'
  OBVIOUS
<1> USE DEF IInv, Mid, NothingLeft
<1>t. /\ unread \in Seq(Bytes) /\ buffer \in Seq(Bytes) /\ line \in Seq(Bytes)
      /\ Len(buffer) <= BufferSize /\ Len(line) <= MaxLineBytes
      /\ intact \in BOOLEAN /\ done \in BOOLEAN /\ calling \in BOOLEAN
      /\ number \in Int /\ number = Len(delivered) - 1
      /\ delivered \in Seq(Seq(Bytes))
  BY DEF TypeOK
<1>c. /\ Longer \in Seq(Bytes) /\ AfterLine(buffer) \in Seq(Bytes)
      /\ Len(AfterLine(buffer)) <= BufferSize
      /\ ~HasLF(buffer) => Chunk = buffer /\ AfterLine(buffer) = <<>>
  BY ChunkFacts
<1>e. <<>> \in Seq(Bytes) /\ Len(<<>>) = 0
  BY EmptySeq
<1>o. Open # Ended /\ Open # Unreadable /\ \A n \in Int : Open # TooLong(n)
  BY DEF Open, Ended, Unreadable, TooLong
<1>1. CASE Call
  <2>1. ~calling /\ outcome = Open /\ UNCHANGED <<unread, intact, buffer, number, done, delivered>>
    BY <1>1 DEF Call, file
  <2>2. CASE done
    <3>1. outcome' = Ended /\ UNCHANGED <<line, calling>>
      BY <1>1, <2>2 DEF Call
    <3>2. TypeOK'
      BY <1>t, <2>1, <3>1 DEF TypeOK
    <3> QED BY <1>o, <2>1, <3>1, <3>2
  <2>3. CASE ~done
    <3>1. line' = <<>> /\ calling' = TRUE /\ UNCHANGED outcome
      BY <1>1, <2>3 DEF Call
    <3>2. line' \in Seq(Bytes) /\ Len(line') <= MaxLineBytes /\ ~HasLF(line')
      BY <1>e, <3>1, BufferAssumption DEF HasLF
    <3>3. TypeOK'
      BY <1>t, <2>1, <3>1, <3>2 DEF TypeOK
    <3> QED BY <2>1, <2>3, <3>1, <3>2, <3>3
  <2> QED BY <2>2, <2>3
<1>2. CASE Fill
  <2>1. /\ calling /\ unread # <<>> /\ Len(buffer) < BufferSize
        /\ UNCHANGED <<intact, line, number, done, calling, outcome, delivered>>
    BY <1>2 DEF Fill
  <2>2. PICK n \in 1..Min({BufferSize - Len(buffer), Len(unread)}) :
          /\ buffer' = buffer \o SubSeq(unread, 1, n)
          /\ unread' = SubSeq(unread, n + 1, Len(unread))
    BY <1>2 DEF Fill
  <2>3. n \in 1..Len(unread) /\ n <= BufferSize - Len(buffer)
    <3>1. BufferSize - Len(buffer) \in Nat /\ Len(unread) \in Nat
      BY <1>t, BufferAssumption
    <3> QED BY <3>1, RoomBounds
  <2>4. buffer' \in Seq(Bytes) /\ Len(buffer') = Len(buffer) + n /\ unread' \in Seq(Bytes)
    BY <1>t, <2>2, <2>3, ReadPieces
  <2>5. Len(buffer') <= BufferSize
    BY <1>t, <2>3, <2>4, BufferAssumption
  <2>6. TypeOK'
    BY <1>t, <2>1, <2>4, <2>5 DEF TypeOK
  <2> QED BY <2>1, <2>6
<1>3. CASE EndLine
  <2>1. /\ Fits /\ Return /\ buffer' = AfterLine(buffer) /\ calling
        /\ UNCHANGED <<unread, intact, done, outcome>>
    BY <1>3 DEF EndLine, Take, Return, file
  <2>2. TypeOK'
    BY <1>t, <1>c, <2>1, ReturnTypes DEF TypeOK
  <2> QED BY <2>1, <2>2 DEF Return
<1>4. CASE Continue
  <2>1. /\ Fits /\ buffer' = AfterLine(buffer) /\ calling /\ ~HasLF(buffer)
        /\ line' = Longer
        /\ UNCHANGED <<unread, intact, number, done, calling, outcome, delivered>>
    BY <1>4 DEF Continue, ChunkFull, Take, file
  <2>2. TypeOK'
    BY <1>t, <1>c, <2>1 DEF TypeOK, Fits
  <2>3. ~HasLF(Longer)
    BY <1>t, <1>c, <2>1, LineOfTail DEF Longer
  <2>4. ~HasLF(line')
    BY <2>1, <2>3
  <2> QED BY <2>1, <2>2, <2>4
<1>5. CASE EndOfFile
  <2>1. /\ Fits /\ buffer' = <<>> /\ calling /\ intact /\ unread = <<>> /\ done'
        /\ done' \in BOOLEAN
        /\ UNCHANGED <<unread, intact>>
    BY <1>5, <1>c DEF EndOfFile, ChunkLast, Take, file
  <2>2. CASE Longer = <<>>
    <3>1. outcome' = Ended /\ ~calling' /\ calling' \in BOOLEAN
          /\ UNCHANGED <<line, number, delivered>>
      BY <1>5, <2>2 DEF EndOfFile
    <3>2. TypeOK'
      BY <1>t, <1>e, <2>1, <3>1, BufferAssumption DEF TypeOK
    <3> QED BY <1>o, <2>1, <3>1, <3>2
  <2>3. CASE Longer # <<>>
    <3>1. Return
      BY <1>5, <2>3 DEF EndOfFile
    <3>2. TypeOK'
      BY <1>t, <1>e, <2>1, <3>1, ReturnTypes, BufferAssumption DEF TypeOK
    <3> QED BY <2>1, <3>1, <3>2 DEF Return
  <2> QED BY <2>2, <2>3
<1>6. CASE ReadError
  <2>1. /\ Fits /\ buffer' = AfterLine(buffer) /\ line' = Longer /\ ~calling'
        /\ calling' \in BOOLEAN /\ done' \in BOOLEAN /\ outcome' = Unreadable
        /\ UNCHANGED <<unread, intact, number, delivered>>
    BY <1>6 DEF ReadError, Take, GiveUp, file
  <2>2. TypeOK'
    BY <1>t, <1>c, <2>1 DEF TypeOK, Fits
  <2> QED BY <1>o, <2>1, <2>2
<1>7. CASE TooLongLine
  <2>1. /\ buffer' = AfterLine(buffer) /\ ~calling' /\ calling' \in BOOLEAN
        /\ done' \in BOOLEAN /\ outcome' = TooLong(number + 2)
        /\ UNCHANGED <<unread, intact, line, number, delivered>>
    BY <1>7 DEF TooLongLine, GiveUp, file
  <2>2. TypeOK'
    BY <1>t, <1>c, <2>1 DEF TypeOK
  <2>3. outcome' # Open
    BY <1>t, <1>o, <2>1
  <2> QED BY <2>1, <2>2, <2>3
<1>8. CASE UNCHANGED vars
  BY <1>8 DEF vars, TypeOK
<1> QED BY <1>1, <1>2, <1>3, <1>4, <1>5, <1>6, <1>7, <1>8 DEF Next

\* A line never takes more memory than the limit, whatever the file and however
\* its reads fall (internal/bundle/lines.go).
THEOREM TypeCorrect == Spec => []TypeOK
<1>1. IInv => TypeOK
  BY DEF IInv
<1> QED BY <1>1, InitIInv, NextIInv, PTL DEF Spec

-----------------------------------------------------------------------------
(* The reader and its promise.                                             *)

\* The abstract reader means the same by a line.
LEMMA SplitterText ==
  /\ \A s : /\ Splitter!HasLF(s) = HasLF(s)
            /\ Splitter!LineLength(s) = LineLength(s)
            /\ Splitter!FirstLine(s) = FirstLine(s)
            /\ Splitter!AfterLine(s) = AfterLine(s)
            /\ Splitter!Strip(s) = Strip(s)
  /\ Splitter!Open = Open /\ Splitter!Ended = Ended /\ Splitter!Unreadable = Unreadable
  /\ \A n : Splitter!TooLong(n) = TooLong(n)
<1>1. \A s : Splitter!HasLF(s) = HasLF(s)
  BY DEF Splitter!HasLF, HasLF
<1>2. \A S : Splitter!Min(S) = Min(S) /\ Splitter!Max(S) = Max(S)
  BY DEF Splitter!Min, Min, Splitter!Max, Max
<1>3. \A s : Splitter!LineLength(s) = LineLength(s)
  BY <1>1, <1>2, Zenon DEF Splitter!LineLength, LineLength
<1>4. \A s : /\ Splitter!FirstLine(s) = FirstLine(s)
             /\ Splitter!AfterLine(s) = AfterLine(s)
  BY <1>3 DEF Splitter!FirstLine, FirstLine, Splitter!AfterLine, AfterLine
<1>5. \A s : Splitter!Strip(s) = Strip(s)
  BY <1>2, Zenon DEF Splitter!Strip, Strip
<1>6. /\ Splitter!Open = Open /\ Splitter!Ended = Ended /\ Splitter!Unreadable = Unreadable
      /\ \A n : Splitter!TooLong(n) = TooLong(n)
  BY DEF Splitter!Open, Open, Splitter!Ended, Ended, Splitter!Unreadable, Unreadable,
         Splitter!TooLong, TooLong
<1> QED BY <1>1, <1>3, <1>4, <1>5, <1>6

\* Opened, the reader has the whole file before it.
LEMMA InitImplements == Init => Splitter!Init
<1> SUFFICES ASSUME Init PROVE Splitter!Init
  OBVIOUS
<1>1. unread \in Seq(Bytes) /\ unread \in Files
  BY FilesAssumption DEF Init
<1>2. (<<>> \o <<>>) \o unread = unread
  BY <1>1, ConcatEmptySeq, EmptySeq
<1>3. Rest = unread
  BY <1>2 DEF Rest, Init
<1>4. intact \in BOOLEAN /\ delivered = <<>> /\ outcome = Open
  BY DEF Init
<1> QED BY <1>1, <1>3, <1>4, SplitterText DEF Splitter!Init

\* In the middle of a line: what is there, what the chunk completes.
LEMMA MidLine ==
  ASSUME IInv, calling
  PROVE  /\ Rest = line \o buffer \o unread /\ Rest \in Seq(Bytes)
         /\ HasLF(buffer) =>
              /\ HasLF(Rest) /\ LineLength(Rest) = Len(Longer)
              /\ FirstLine(Rest) = Longer /\ AfterLine(Rest) = AfterLine(buffer) \o unread
         /\ ~HasLF(buffer) =>
              /\ Rest = Longer \o unread /\ ~HasLF(Longer)
              /\ LineLength(Rest) = Len(Longer) + LineLength(unread)
<1>1. /\ unread \in Seq(Bytes) /\ buffer \in Seq(Bytes) /\ line \in Seq(Bytes)
      /\ ~HasLF(line) /\ outcome = Open
  BY DEF IInv, Mid, TypeOK
<1>2. Rest = line \o buffer \o unread
  BY <1>1 DEF Rest
<1>3. line \o buffer \in Seq(Bytes) /\ Rest \in Seq(Bytes)
  BY <1>1, <1>2, ConcatProperties
<1>4. Longer \in Seq(Bytes) /\ Len(Longer) = Len(line) + LineLength(buffer)
      /\ (~HasLF(buffer) => Chunk = buffer)
  BY ChunkFacts DEF IInv
<1>5. ASSUME HasLF(buffer)
      PROVE  /\ HasLF(Rest) /\ LineLength(Rest) = Len(Longer)
             /\ FirstLine(Rest) = Longer /\ AfterLine(Rest) = AfterLine(buffer) \o unread
  BY <1>1, <1>2, <1>4, <1>5, LineAcross DEF Longer, Chunk
<1>6. ASSUME ~HasLF(buffer)
      PROVE  /\ Rest = Longer \o unread /\ ~HasLF(Longer)
             /\ LineLength(Rest) = Len(Longer) + LineLength(unread)
  <2>1. Longer = line \o buffer
    BY <1>4, <1>6 DEF Longer
  <2>2. ~HasLF(Longer)
    BY <1>1, <1>6, <2>1, LineOfTail
  <2>3. LineLength(Longer \o unread) = Len(Longer) + LineLength(unread)
    BY <1>1, <1>4, <2>2, LineOfTail
  <2> QED BY <1>2, <2>1, <2>2, <2>3
<1> QED BY <1>2, <1>3, <1>5, <1>6

\* The chunk ends the file.
LEMMA LastLine ==
  ASSUME IInv, calling, ChunkLast
  PROVE  /\ Rest = Longer /\ ~HasLF(Rest) /\ LineLength(Rest) = Len(Longer)
         /\ FirstLine(Rest) = Longer /\ AfterLine(Rest) = <<>>
         /\ AfterLine(buffer) = <<>> /\ unread = <<>>
<1>1. ~HasLF(buffer) /\ unread = <<>>
  BY DEF ChunkLast
<1>2. Longer \in Seq(Bytes) /\ AfterLine(buffer) = <<>>
  BY <1>1, ChunkFacts DEF IInv
<1>3. Rest = Longer /\ ~HasLF(Longer)
  BY <1>1, <1>2, MidLine, ConcatEmptySeq
<1>4. LineLength(Longer) = Len(Longer)
  BY <1>3 DEF LineLength
<1>5. Len(Longer) \in Nat
  BY <1>2
<1>6. FirstLine(Longer) = Longer
  BY <1>2, <1>4, SubSeqFull DEF FirstLine
<1>7. AfterLine(Longer) = <<>>
  BY <1>4, <1>5, SubSeqEmpty DEF AfterLine
<1> QED BY <1>1, <1>2, <1>3, <1>4, <1>6, <1>7

\* What the abstract reader sees of a step that only moves bytes.
LEMMA BetweenLines ==
  ASSUME IInv, ~calling, outcome = Open
  PROVE  Rest = buffer \o unread
<1>1. buffer \in Seq(Bytes)
  BY DEF IInv, TypeOK
<1>2. <<>> \o buffer = buffer
  BY <1>1, ConcatEmptySeq
<1> QED BY <1>2 DEF Rest

\* A step that ends a line, the file or the run is the step of the promise; a read
\* and a chunk that only makes the line longer are not seen.
LEMMA NextImplements ==
  ASSUME IInv, [Next]_vars
  PROVE  [Splitter!Next]_(Splitter!vars)
<1>i. IInv'
  BY NextIInv
<1>t. /\ unread \in Seq(Bytes) /\ buffer \in Seq(Bytes) /\ line \in Seq(Bytes)
      /\ number \in Int /\ number = Len(delivered) - 1 /\ Len(delivered) \in Nat
  BY DEF IInv, TypeOK
<1>o. Open # Ended /\ Open # Unreadable /\ \A n \in Int : Open # TooLong(n)
  BY DEF Open, Ended, Unreadable, TooLong
<1>c. Longer \in Seq(Bytes) /\ Len(Longer) \in Nat
  BY ChunkFacts DEF IInv
<1>s. ASSUME UNCHANGED <<Rest, intact, delivered, outcome>>
      PROVE  [Splitter!Next]_(Splitter!vars)
  BY <1>s DEF Splitter!vars
<1>d. ASSUME /\ outcome = Open /\ LineLength(Rest) <= MaxLineBytes
             /\ HasLF(Rest) \/ (intact /\ Rest # <<>>)
             /\ delivered' = Append(delivered, Strip(FirstLine(Rest)))
             /\ Rest' = AfterLine(Rest)
             /\ UNCHANGED <<intact, outcome>>
      PROVE  [Splitter!Next]_(Splitter!vars)
  BY <1>d, SplitterText DEF Splitter!Next, Splitter!Deliver, Splitter!Fits
<1>r. outcome' # Open => Rest' = <<>>
  BY DEF Rest
<1>1. CASE Call
  <2>1. /\ ~calling /\ outcome = Open
        /\ UNCHANGED <<unread, intact, buffer, number, done, delivered>>
    BY <1>1 DEF Call, file
  <2>2. CASE done
    <3>1. outcome' = Ended /\ intact /\ buffer = <<>> /\ unread = <<>>
      BY <1>1, <2>1, <2>2 DEF Call, IInv, NothingLeft
    <3>2. Rest = <<>> /\ Rest' = <<>>
      <4>1. <<>> \o <<>> = <<>>
        BY EmptySeq, ConcatEmptySeq
      <4> QED BY <1>o, <1>r, <2>1, <3>1, <4>1, BetweenLines
    <3> QED BY <2>1, <3>1, <3>2, SplitterText
            DEF Splitter!Next, Splitter!End, Splitter!Stop
  <2>3. CASE ~done
    <3>1. line' = <<>> /\ calling' = TRUE /\ UNCHANGED outcome
      BY <1>1, <2>3 DEF Call
    <3>2. Rest' = (<<>> \o buffer) \o unread
      BY <2>1, <3>1 DEF Rest
    <3>3. Rest' = Rest
      BY <1>t, <2>1, <3>2, BetweenLines, ConcatEmptySeq
    <3> QED BY <1>s, <2>1, <3>1, <3>3
  <2> QED BY <2>2, <2>3
<1>2. CASE Fill
  <2>1. /\ calling /\ unread # <<>> /\ Len(buffer) < BufferSize
        /\ UNCHANGED <<intact, line, number, done, calling, outcome, delivered>>
    BY <1>2 DEF Fill
  <2>2. PICK n \in 1..Min({BufferSize - Len(buffer), Len(unread)}) :
          /\ buffer' = buffer \o SubSeq(unread, 1, n)
          /\ unread' = SubSeq(unread, n + 1, Len(unread))
    BY <1>2 DEF Fill
  <2>3. n \in 1..Len(unread)
    <3>1. BufferSize - Len(buffer) \in Nat /\ Len(unread) \in Nat
      BY <1>t, <2>1, BufferAssumption
    <3> QED BY <3>1, RoomBounds
  <2>4. /\ SubSeq(unread, 1, n) \in Seq(Bytes) /\ unread' \in Seq(Bytes)
        /\ SubSeq(unread, 1, n) \o unread' = unread
        /\ buffer' \in Seq(Bytes)
    BY <1>t, <2>2, <2>3, ReadPieces
  <2>5. buffer' \o unread' = buffer \o unread
    <3>1. (buffer \o SubSeq(unread, 1, n)) \o unread'
            = buffer \o (SubSeq(unread, 1, n) \o unread')
      BY <1>t, <2>4, Regroup, Zenon
    <3> QED BY <2>2, <2>4, <3>1
  <2>6. Rest = line \o buffer \o unread /\ Rest' = line \o buffer' \o unread'
    BY <2>1 DEF Rest, IInv, Mid
  <2>7. Rest' = Rest
    <3>1. line \o buffer \o unread = line \o (buffer \o unread)
      BY <1>t, Regroup
    <3>2. line \o buffer' \o unread' = line \o (buffer' \o unread')
      BY <1>t, <2>4, Regroup
    <3> QED BY <2>5, <2>6, <3>1, <3>2
  <2> QED BY <1>s, <2>1, <2>7
<1>3. CASE EndLine
  <2>1. /\ HasLF(buffer) /\ calling /\ Fits /\ buffer' = AfterLine(buffer)
        /\ delivered' = Append(delivered, Strip(Longer)) /\ ~calling'
        /\ UNCHANGED <<unread, intact, outcome>>
    BY <1>3 DEF EndLine, ChunkReady, Take, Return, file
  <2>2. outcome = Open
    BY <2>1 DEF IInv, Mid
  <2>3. /\ HasLF(Rest) /\ LineLength(Rest) = Len(Longer)
        /\ FirstLine(Rest) = Longer /\ AfterLine(Rest) = AfterLine(buffer) \o unread
    BY <2>1, MidLine
  <2>4. buffer' \in Seq(Bytes) /\ unread' = unread
    BY <1>i, <2>1 DEF IInv, TypeOK
  <2>5. Rest' = (<<>> \o buffer') \o unread'
    BY <2>1, <2>2 DEF Rest
  <2>6. Rest' = AfterLine(Rest)
    BY <2>1, <2>3, <2>4, <2>5, ConcatEmptySeq
  <2> QED BY <1>d, <2>1, <2>2, <2>3, <2>6 DEF Fits
<1>4. CASE Continue
  <2>1. /\ buffer' = AfterLine(buffer) /\ calling /\ ~HasLF(buffer) /\ line' = Longer
        /\ UNCHANGED <<unread, intact, number, done, calling, outcome, delivered>>
    BY <1>4 DEF Continue, ChunkFull, Take, file
  <2>2. buffer' = <<>>
    BY <2>1, ChunkFacts DEF IInv
  <2>3. Rest' = (Longer \o <<>>) \o unread
    BY <2>1, <2>2 DEF Rest, IInv, Mid
  <2>4. Rest' = Rest
    BY <1>c, <2>1, <2>3, MidLine, ConcatEmptySeq
  <2> QED BY <1>s, <2>1, <2>4
<1>5. CASE EndOfFile
  <2>1. /\ ChunkLast /\ Fits /\ buffer' = AfterLine(buffer) /\ calling /\ intact
        /\ UNCHANGED <<unread, intact>>
    BY <1>5 DEF EndOfFile, Take, file
  <2>2. outcome = Open
    BY <2>1 DEF IInv, Mid
  <2>3. /\ Rest = Longer /\ LineLength(Rest) = Len(Longer) /\ FirstLine(Rest) = Longer
        /\ AfterLine(Rest) = <<>> /\ AfterLine(buffer) = <<>> /\ unread = <<>>
    BY <2>1, LastLine
  <2>4. CASE Longer = <<>>
    <3>1. outcome' = Ended /\ UNCHANGED delivered
      BY <1>5, <2>4 DEF EndOfFile
    <3>2. Rest = <<>> /\ Rest' = <<>>
      BY <1>o, <1>r, <2>3, <2>4, <3>1
    <3> QED BY <2>1, <2>2, <3>1, <3>2, SplitterText
            DEF Splitter!Next, Splitter!End, Splitter!Stop
  <2>5. CASE Longer # <<>>
    <3>1. /\ delivered' = Append(delivered, Strip(Longer)) /\ ~calling'
          /\ UNCHANGED outcome
      BY <1>5, <2>5 DEF EndOfFile, Return
    <3>2. Rest' = (<<>> \o <<>>) \o <<>>
      BY <2>1, <2>2, <2>3, <3>1 DEF Rest
    <3>3. Rest' = AfterLine(Rest)
      BY <2>3, <3>2, EmptySeq, ConcatEmptySeq
    <3> QED BY <1>d, <2>1, <2>2, <2>3, <2>5, <3>1, <3>3 DEF Fits
  <2> QED BY <2>4, <2>5
<1>6. CASE ReadError
  <2>1. /\ ChunkLast /\ ~intact /\ Fits /\ calling /\ outcome' = Unreadable
        /\ UNCHANGED <<intact, delivered>>
    BY <1>6 DEF ReadError, Take, GiveUp, file
  <2>2. outcome = Open
    BY <2>1 DEF IInv, Mid
  <2>3. ~HasLF(Rest) /\ LineLength(Rest) <= MaxLineBytes
    BY <2>1, LastLine DEF Fits
  <2>4. Rest' = <<>>
    BY <1>o, <1>r, <2>1
  <2> QED BY <2>1, <2>2, <2>3, <2>4, SplitterText
          DEF Splitter!Next, Splitter!Fail, Splitter!Stop, Splitter!Fits
<1>7. CASE TooLongLine
  <2>1. /\ calling /\ ~Fits /\ outcome' = TooLong(number + 2)
        /\ UNCHANGED <<intact, delivered>>
    BY <1>7 DEF TooLongLine, GiveUp, file
  <2>2. outcome = Open
    BY <2>1 DEF IInv, Mid
  <2>3. ~(LineLength(Rest) <= MaxLineBytes)
    <3>1. CASE HasLF(buffer)
      BY <2>1, <3>1, MidLine DEF Fits
    <3>2. CASE ~HasLF(buffer)
      <4>1. LineLength(Rest) = Len(Longer) + LineLength(unread)
        BY <2>1, <3>2, MidLine
      <4>2. LineLength(unread) \in Nat
        BY <1>t, LineLengthBounds
      <4> QED BY <1>c, <2>1, <4>1, <4>2, BufferAssumption DEF Fits
    <3> QED BY <3>1, <3>2
  <2>4. number + 2 = Len(delivered) + 1 /\ number + 2 \in Int
    BY <1>t
  <2>5. Rest' = <<>>
    BY <1>o, <1>r, <2>1, <2>4
  <2> QED BY <2>1, <2>2, <2>3, <2>4, <2>5, SplitterText
          DEF Splitter!Next, Splitter!Refuse, Splitter!Stop, Splitter!Fits
<1>8. CASE UNCHANGED vars
  <2>1. UNCHANGED <<Rest, intact, delivered, outcome>>
    BY <1>8 DEF vars, Rest
  <2> QED BY <1>s, <2>1
<1> QED BY <1>1, <1>2, <1>3, <1>4, <1>5, <1>6, <1>7, <1>8 DEF Next

\* Next and Line (internal/bundle/lines.go) give a caller the lines of the file in
\* order and nothing else, and refuse the first one over the limit by its number,
\* whatever the file, the limit and the buffer's size and wherever the reads fall.
THEOREM LinesSplit == Spec => Splitter!Safe
<1>1. IInv /\ [Next]_vars => [Splitter!Next]_(Splitter!vars)
  BY NextImplements
<1> QED BY <1>1, InitIInv, NextIInv, InitImplements, PTL DEF Spec, Splitter!Safe
=============================================================================
