------------------------- MODULE VerifierRunProofs -------------------------
(***************************************************************************)
(* What the operators of Merkle compute, for trees of every size; the      *)
(* trees that a walk streams; and the run that compares them, for every    *)
(* command line, every bundle and every log.                               *)
(***************************************************************************)
EXTENDS VerifierRun, MerkleStream, VerdictProofs, SequenceTheorems, FiniteSetTheorems

\* The first n members of a sequence.
LEMMA FirstMembers ==
  ASSUME NEW S, NEW s \in Seq(S), NEW n \in Nat, n <= Len(s)
  PROVE  /\ SubSeq(s, 1, n) \in Seq(S) /\ Len(SubSeq(s, 1, n)) = n
         /\ \A i \in 1..n : SubSeq(s, 1, n)[i] = s[i]
<1>1. \A i \in 1..n : s[i] \in S
  OBVIOUS
<1>2. /\ SubSeq(s, 1, n) \in Seq(S)
      /\ Len(SubSeq(s, 1, n)) = IF 1 <= n THEN n - 1 + 1 ELSE 0
      /\ \A i \in 1..(n - 1 + 1) : SubSeq(s, 1, n)[i] = s[1 + i - 1]
  BY <1>1, SubSeqProperties
<1> QED BY <1>2

-----------------------------------------------------------------------------
(* Powers of two.                                                          *)

IsPower(f, n) == \A k \in 0..n : f[k] = IF k = 0 THEN 1 ELSE 2 * f[k - 1]

\* Up to any number there is one function that doubles from 1 on.
LEMMA PowerExists == \A n \in Nat : \E f : IsPower(f, n)
<1> DEFINE T == {n \in Nat : \E f : IsPower(f, n)}
<1>1. 0 \in T
  <2> DEFINE f == [k \in 0..0 |-> 1]
  <2>1. IsPower(f, 0)
    BY DEF IsPower
  <2> QED BY <2>1
<1>2. ASSUME NEW n \in Nat, n \in T PROVE n + 1 \in T
  <2>1. PICK f : IsPower(f, n)
    BY <1>2
  <2> DEFINE g == [k \in 0..(n + 1) |-> IF k <= n THEN f[k] ELSE 2 * f[n]]
  <2>2. \A k \in 0..(n + 1) : g[k] = IF k = 0 THEN 1 ELSE 2 * g[k - 1]
    BY <2>1 DEF IsPower
  <2>3. IsPower(g, n + 1)
    BY <2>2 DEF IsPower
  <2> QED BY <2>3
<1> HIDE DEF T
<1>3. \A n \in Nat : n \in T
  BY <1>1, <1>2, StepInduction
<1> QED BY <1>3 DEF T

LEMMA PowerUnique ==
  ASSUME NEW m \in Nat, NEW n \in Nat, m <= n, NEW f, IsPower(f, m), NEW g, IsPower(g, n)
  PROVE  \A k \in 0..m : f[k] = g[k]
<1> DEFINE T == {k \in Nat : k <= m => f[k] = g[k]}
<1>1. 0 \in T
  BY DEF IsPower
<1>2. ASSUME NEW k \in Nat, k \in T PROVE k + 1 \in T
  <2> SUFFICES ASSUME k + 1 <= m PROVE f[k + 1] = g[k + 1]
    OBVIOUS
  <2>1. f[k] = g[k]
    BY <1>2
  <2>2. f[k + 1] = 2 * f[k] /\ g[k + 1] = 2 * g[k]
    BY DEF IsPower
  <2> QED BY <2>1, <2>2
<1> HIDE DEF T
<1>3. \A k \in Nat : k \in T
  BY <1>1, <1>2, StepInduction
<1> QED BY <1>3 DEF T

LEMMA PowerDef == \A k \in Nat : Power[k] = IF k = 0 THEN 1 ELSE 2 * Power[k - 1]
<1> DEFINE P(n) == CHOOSE f : IsPower(f, n)
           p == [k \in Nat |-> P(k)[k]]
           Doubles(f) == f = [k \in Nat |-> IF k = 0 THEN 1 ELSE 2 * f[k - 1]]
<1>1. \A n \in Nat : IsPower(P(n), n)
  BY PowerExists
<1> HIDE DEF P
<1>2. \A k \in Nat : p[k] = IF k = 0 THEN 1 ELSE 2 * p[k - 1]
  <2> TAKE k \in Nat
  <2>1. CASE k = 0
    BY <1>1, <2>1 DEF IsPower
  <2>2. CASE k # 0
    <3>1. k - 1 \in Nat /\ k - 1 <= k
      BY <2>2
    <3>2. P(k)[k] = 2 * P(k)[k - 1]
      BY <1>1, <2>2 DEF IsPower
    <3>3. P(k - 1)[k - 1] = P(k)[k - 1]
      BY <1>1, <3>1, PowerUnique
    <3> QED BY <2>2, <3>1, <3>2, <3>3
  <2> QED BY <2>1, <2>2
<1>3. Doubles(p)
  BY <1>2
<1>4. Power = CHOOSE f : Doubles(f)
  BY DEF Power
<1> HIDE DEF Doubles, p
<1>5. Doubles(Power)
  BY <1>3, <1>4
<1> QED BY <1>5 DEF Doubles

Powers == {Power[k] : k \in Nat}

LEMMA PowerGrows == \A k \in Nat : Power[k] \in Nat /\ k < Power[k]
<1> DEFINE T == {k \in Nat : Power[k] \in Nat /\ k < Power[k]}
<1>1. 0 \in T
  BY PowerDef
<1>2. ASSUME NEW k \in Nat, k \in T PROVE k + 1 \in T
  <2>1. Power[k] \in Nat /\ k < Power[k]
    BY <1>2
  <2>2. Power[k + 1] = 2 * Power[k]
    BY PowerDef
  <2> QED BY <2>1, <2>2
<1> HIDE DEF T
<1>3. \A k \in Nat : k \in T
  BY <1>1, <1>2, StepInduction
<1> QED BY <1>3 DEF T

LEMMA PowersDouble ==
  /\ Powers \subseteq Nat \ {0} /\ 1 \in Powers
  /\ \A p \in Powers : 2 * p \in Powers
  /\ \A p \in Powers : p = 1 \/ \E q \in Powers : p = 2 * q
<1>1. Powers \subseteq Nat \ {0}
  BY PowerGrows DEF Powers
<1>2. 1 \in Powers
  <2>1. Power[0] = 1 /\ 0 \in Nat
    BY PowerDef
  <2> QED BY <2>1 DEF Powers
<1>3. ASSUME NEW p \in Powers PROVE 2 * p \in Powers
  <2>1. PICK k \in Nat : p = Power[k]
    BY DEF Powers
  <2>2. Power[k + 1] = 2 * Power[k] /\ k + 1 \in Nat
    BY PowerDef
  <2> QED BY <2>1, <2>2 DEF Powers
<1>4. ASSUME NEW p \in Powers, p # 1 PROVE \E q \in Powers : p = 2 * q
  <2>1. PICK k \in Nat : p = Power[k]
    BY DEF Powers
  <2>2. k # 0 /\ k - 1 \in Nat
    BY <1>4, <2>1, PowerDef
  <2>3. Power[k] = 2 * Power[k - 1]
    BY <2>2, PowerDef
  <2> QED BY <2>1, <2>2, <2>3 DEF Powers
<1> QED BY <1>1, <1>2, <1>3, <1>4

\* A power of two that is larger than another is at least twice as large.
LEMMA PowersGap == \A p, q \in Powers : p < q => 2 * p <= q
<1> DEFINE T == {p \in Nat : p \in Powers => \A q \in Powers : p < q => 2 * p <= q}
<1>1. ASSUME NEW p \in Nat, \A m \in Nat : m < p => m \in T PROVE p \in T
  <2> SUFFICES ASSUME p \in Powers, NEW q \in Powers, p < q PROVE 2 * p <= q
    OBVIOUS
  <2>1. p \in Nat \ {0} /\ q \in Nat \ {0}
    BY PowersDouble
  <2>2. CASE p = 1
    BY <2>1, <2>2
  <2>3. CASE p # 1
    <3>1. PICK r \in Powers : p = 2 * r
      BY <2>3, PowersDouble
    <3>2. PICK s \in Powers : q = 2 * s
      BY <2>1, <2>3, PowersDouble
    <3>3. r \in Nat \ {0} /\ s \in Nat \ {0}
      BY PowersDouble
    <3>4. r < p /\ r < s
      BY <3>1, <3>2, <3>3
    <3>5. r \in T
      BY <1>1, <3>3, <3>4
    <3>6. 2 * r <= s
      BY <3>4, <3>5
    <3> QED BY <3>1, <3>2, <3>3, <3>6
  <2> QED BY <2>2, <2>3
<1> HIDE DEF T
<1>2. \A p \in Nat : p \in T
  BY <1>1, Induction
<1> QED BY <1>2, PowersDouble DEF T

\* SplitPoint is the power of two of its comment, and the only one.
LEMMA SplitPointIsPower ==
  ASSUME NEW n \in Nat, n > 1
  PROVE  /\ SplitPoint(n) \in Powers
         /\ SplitPoint(n) < n /\ n <= 2 * SplitPoint(n)
<1> DEFINE T == {k \in Nat : Power[k] >= n}
<1>1. T \subseteq Nat /\ n \in T
  BY PowerGrows
<1>2. PICK k \in T : \A m \in T : k <= m
  BY <1>1, Smallest
<1>3. k \in Nat /\ Power[k] >= n /\ k <= n
  BY <1>1, <1>2
<1>4. k # 0
  BY <1>3, PowerDef
<1>5. k - 1 \in 0..n /\ k - 1 \in Nat
  BY <1>3, <1>4
<1>6. Power[k - 1] < n
  BY <1>2, <1>5, PowerGrows
<1>7. 2 * Power[k - 1] >= n
  BY <1>3, <1>4, PowerDef
<1>8. \E s \in {Power[j] : j \in 0..n} : s < n /\ 2 * s >= n
  BY <1>5, <1>6, <1>7
<1>9. /\ SplitPoint(n) \in {Power[j] : j \in 0..n}
      /\ SplitPoint(n) < n /\ 2 * SplitPoint(n) >= n
  BY <1>8 DEF SplitPoint
<1>10. SplitPoint(n) \in Powers
  BY <1>9 DEF Powers
<1> QED BY <1>9, <1>10, PowersDouble

LEMMA SplitPointOnly ==
  ASSUME NEW n \in Nat, n > 1, NEW s \in Powers, s < n, n <= 2 * s
  PROVE  SplitPoint(n) = s
<1>1. /\ SplitPoint(n) \in Powers
      /\ SplitPoint(n) < n /\ n <= 2 * SplitPoint(n)
  BY SplitPointIsPower
<1>2. s \in Nat /\ SplitPoint(n) \in Nat
  BY <1>1, PowersDouble
<1>3. ~ (s < SplitPoint(n)) /\ ~ (SplitPoint(n) < s)
  BY <1>1, <1>2, PowersGap
<1> QED BY <1>2, <1>3

LEMMA IsPowerOfTwoIsPower == \A n \in Nat : IsPowerOfTwo(n) <=> n \in Powers
<1> SUFFICES ASSUME NEW n \in Nat, NEW k \in Nat, n = Power[k] PROVE k \in 0..n
  BY DEF IsPowerOfTwo, Powers
<1> QED BY PowerGrows

-----------------------------------------------------------------------------
(* The root of a run of leaves.                                            *)

\* A run of two leaves or more is cut into two that are not empty, the left one
\* of a power of two leaves and the right one no longer.
LEMMA Halves ==
  ASSUME NEW n \in Nat, NEW r \in Spans(n), Size(r) > 1
  PROVE  /\ LeftHalf(r) \in Spans(n) /\ RightHalf(r) \in Spans(n)
         /\ Size(LeftHalf(r)) = SplitPoint(Size(r))
         /\ Size(RightHalf(r)) = Size(r) - SplitPoint(Size(r))
         /\ SplitPoint(Size(r)) \in Powers /\ SplitPoint(Size(r)) \in 1..(Size(r) - 1)
         /\ Size(r) <= 2 * SplitPoint(Size(r))
         /\ r.from \in Nat /\ r.to \in Nat /\ Cut(r) \in Nat /\ r.from < Cut(r) /\ Cut(r) < r.to
         /\ LeftHalf(r).from = r.from /\ LeftHalf(r).to = Cut(r)
         /\ RightHalf(r).from = Cut(r) /\ RightHalf(r).to = r.to
<1>1. r.from \in 0..n /\ r.to \in 0..n
  BY DEF Spans
<1>2. Size(r) \in Nat /\ Size(r) = r.to - r.from
  BY <1>1 DEF Size
<1>3. /\ SplitPoint(Size(r)) \in Powers
      /\ SplitPoint(Size(r)) < Size(r) /\ Size(r) <= 2 * SplitPoint(Size(r))
  BY <1>2, SplitPointIsPower
<1>4. SplitPoint(Size(r)) \in Nat \ {0}
  BY <1>3, PowersDouble
<1>5. Cut(r) \in 0..n /\ r.from < Cut(r) /\ Cut(r) < r.to /\ Cut(r) = r.from + SplitPoint(Size(r))
  BY <1>1, <1>2, <1>3, <1>4 DEF Cut
<1>6. /\ LeftHalf(r) \in Spans(n) /\ RightHalf(r) \in Spans(n)
      /\ LeftHalf(r).from = r.from /\ LeftHalf(r).to = Cut(r)
      /\ RightHalf(r).from = Cut(r) /\ RightHalf(r).to = r.to
  BY <1>1, <1>5 DEF LeftHalf, RightHalf, Span, Spans
<1>7. /\ Size(LeftHalf(r)) = SplitPoint(Size(r))
      /\ Size(RightHalf(r)) = Size(r) - SplitPoint(Size(r))
  BY <1>1, <1>2, <1>4, <1>5, <1>6 DEF Size
<1> QED BY <1>1, <1>2, <1>3, <1>4, <1>5, <1>6, <1>7

LEMMA SpanIn ==
  ASSUME NEW n \in Nat, NEW r \in Spans(n)
  PROVE  r.from \in 0..n /\ r.to \in 0..n /\ Size(r) \in Int /\ Size(r) <= n
         /\ r = Span(r.from, r.to)
BY DEF Spans, Span, Size

RootBody(log, f, r) ==
  IF Size(r) <= 1 THEN LeafHash(log[r.to])
  ELSE NodeHash(f[LeftHalf(r)], f[RightHalf(r)])

\* The recursion of root is well-founded: the halves are shorter than the run.
LEMMA RootsExist ==
  ASSUME NEW log, Len(log) \in Nat
  PROVE  \E f : f = [r \in Spans(Len(log)) |-> RootBody(log, f, r)]
<1> DEFINE N == Len(log)
           Solves(f, n) == \A r \in Spans(N) : Size(r) <= n => f[r] = RootBody(log, f, r)
           T == {n \in Nat : \E f : Solves(f, n)}
<1>1. 0 \in T
  <2> DEFINE f == [r \in Spans(N) |-> LeafHash(log[r.to])]
  <2>1. ASSUME NEW r \in Spans(N), Size(r) <= 0 PROVE f[r] = RootBody(log, f, r)
    BY <2>1, SpanIn DEF RootBody
  <2> QED BY <2>1
<1>2. ASSUME NEW n \in Nat, n \in T PROVE n + 1 \in T
  <2>1. PICK f : Solves(f, n)
    BY <1>2
  <2> DEFINE g == [r \in Spans(N) |-> IF Size(r) <= n THEN f[r] ELSE RootBody(log, f, r)]
  <2>2. ASSUME NEW r \in Spans(N), Size(r) <= n + 1 PROVE g[r] = RootBody(log, g, r)
    <3>1. RootBody(log, f, r) = RootBody(log, g, r)
      <4>1. CASE Size(r) <= 1
        BY <4>1 DEF RootBody
      <4>2. CASE ~ (Size(r) <= 1)
        <5>1. Size(r) > 1
          BY <4>2, SpanIn
        <5>2. /\ LeftHalf(r) \in Spans(N) /\ RightHalf(r) \in Spans(N)
              /\ Size(LeftHalf(r)) <= n /\ Size(RightHalf(r)) <= n
          BY <2>2, <5>1, SpanIn, Halves
        <5>3. g[LeftHalf(r)] = f[LeftHalf(r)] /\ g[RightHalf(r)] = f[RightHalf(r)]
          BY <5>2
        <5> QED BY <5>3 DEF RootBody
      <4> QED BY <4>1, <4>2
    <3>2. g[r] = RootBody(log, f, r)
      BY <2>1
    <3> QED BY <3>1, <3>2
  <2> HIDE DEF g
  <2>3. Solves(g, n + 1)
    BY <2>2
  <2> HIDE DEF Solves
  <2> QED BY <2>3
<1> HIDE DEF T
<1>3. N \in T
  BY <1>1, <1>2, StepInduction
<1>4. PICK f : Solves(f, N)
  BY <1>3 DEF T
<1> DEFINE h == [r \in Spans(N) |-> f[r]]
<1>5. ASSUME NEW r \in Spans(N) PROVE h[r] = RootBody(log, h, r)
  <2>1. f[r] = RootBody(log, f, r)
    BY <1>4, SpanIn
  <2>2. CASE Size(r) <= 1
    BY <2>1, <2>2 DEF RootBody
  <2>3. CASE ~ (Size(r) <= 1)
    <3>1. LeftHalf(r) \in Spans(N) /\ RightHalf(r) \in Spans(N)
      BY <2>3, SpanIn, Halves
    <3> QED BY <2>1, <3>1 DEF RootBody
  <2> QED BY <2>2, <2>3
<1>6. h = [r \in Spans(N) |-> RootBody(log, h, r)]
  <2>1. h = [r \in Spans(N) |-> h[r]]
    OBVIOUS
  <2> HIDE DEF h
  <2> QED BY <1>5, <2>1
<1> QED BY <1>6

LEMMA RootsDef ==
  ASSUME NEW log, Len(log) \in Nat, NEW r \in Spans(Len(log))
  PROVE  Roots(log)[r] = RootBody(log, Roots(log), r)
<1>1. Roots(log) = [s \in Spans(Len(log)) |-> RootBody(log, Roots(log), s)]
  BY RootsExist DEF Roots, RootBody
<1> QED BY <1>1

SameLeaves(a, r, b, q) ==
  Size(r) = Size(q) /\ \A i \in 1..Size(r) : a[r.from + i] = b[q.from + i]

\* The halves of two runs have the same leaves when and only when the runs have.
LEMMA HalvesSame ==
  ASSUME NEW a, Len(a) \in Nat, NEW b, Len(b) \in Nat,
         NEW r \in Spans(Len(a)), NEW q \in Spans(Len(b)), Size(r) = Size(q), Size(r) > 1
  PROVE  SameLeaves(a, r, b, q) <=> /\ SameLeaves(a, LeftHalf(r), b, LeftHalf(q))
                                    /\ SameLeaves(a, RightHalf(r), b, RightHalf(q))
<1> DEFINE s == SplitPoint(Size(r))
<1>1. /\ Size(r) \in Nat /\ s \in 1..(Size(r) - 1)
      /\ Size(LeftHalf(r)) = s /\ Size(LeftHalf(q)) = s
      /\ Size(RightHalf(r)) = Size(r) - s /\ Size(RightHalf(q)) = Size(r) - s
  BY Halves, SpanIn
<1>2. /\ r.from \in Nat /\ q.from \in Nat
      /\ LeftHalf(r).from = r.from /\ LeftHalf(q).from = q.from
      /\ RightHalf(r).from = r.from + s /\ RightHalf(q).from = q.from + s
  BY Halves DEF Cut
<1> HIDE DEF s
<1>3. ASSUME SameLeaves(a, r, b, q)
      PROVE  /\ SameLeaves(a, LeftHalf(r), b, LeftHalf(q))
             /\ SameLeaves(a, RightHalf(r), b, RightHalf(q))
  <2>1. \A i \in 1..Size(r) : a[r.from + i] = b[q.from + i]
    BY <1>3 DEF SameLeaves
  <2>2. \A i \in 1..s : a[r.from + i] = b[q.from + i]
    BY <1>1, <2>1
  <2>3. \A i \in 1..(Size(r) - s) : a[(r.from + s) + i] = b[(q.from + s) + i]
    <3> TAKE i \in 1..(Size(r) - s)
    <3>1. s + i \in 1..Size(r)
      BY <1>1
    <3>2. r.from + (s + i) = (r.from + s) + i /\ q.from + (s + i) = (q.from + s) + i
      BY <1>1, <1>2
    <3> QED BY <2>1, <3>1, <3>2
  <2> QED BY <1>1, <1>2, <2>2, <2>3 DEF SameLeaves
<1>4. ASSUME SameLeaves(a, LeftHalf(r), b, LeftHalf(q)),
             SameLeaves(a, RightHalf(r), b, RightHalf(q))
      PROVE  SameLeaves(a, r, b, q)
  <2>1. \A i \in 1..s : a[r.from + i] = b[q.from + i]
    BY <1>1, <1>2, <1>4 DEF SameLeaves
  <2>2. \A i \in 1..(Size(r) - s) : a[(r.from + s) + i] = b[(q.from + s) + i]
    BY <1>1, <1>2, <1>4 DEF SameLeaves
  <2>3. ASSUME NEW i \in 1..Size(r), ~ (i <= s) PROVE a[r.from + i] = b[q.from + i]
    <3>1. i - s \in 1..(Size(r) - s)
      BY <1>1, <2>3
    <3>2. (r.from + s) + (i - s) = r.from + i /\ (q.from + s) + (i - s) = q.from + i
      BY <1>1, <1>2
    <3> QED BY <2>2, <3>1, <3>2
  <2>4. \A i \in 1..Size(r) : i <= s => i \in 1..s
    BY <1>1
  <2> QED BY <2>1, <2>3, <2>4 DEF SameLeaves
<1> QED BY <1>3, <1>4

\* SHA-256 without collisions: two runs of the same size have the same root when
\* and only when they have the same leaves.
LEMMA SameRoot ==
  ASSUME NEW a, Len(a) \in Nat, NEW b, Len(b) \in Nat,
         NEW r \in Spans(Len(a)), NEW q \in Spans(Len(b)), Size(r) = Size(q), Size(r) >= 1
  PROVE  Roots(a)[r] = Roots(b)[q] <=> SameLeaves(a, r, b, q)
<1> DEFINE T == {n \in Nat : \A x \in Spans(Len(a)), y \in Spans(Len(b)) :
                   Size(x) = n /\ Size(y) = n /\ n >= 1 =>
                     (Roots(a)[x] = Roots(b)[y] <=> SameLeaves(a, x, b, y))}
<1>1. ASSUME NEW n \in Nat, \A m \in Nat : m < n => m \in T PROVE n \in T
  <2> SUFFICES ASSUME NEW x \in Spans(Len(a)), NEW y \in Spans(Len(b)),
                      Size(x) = n, Size(y) = n, n >= 1
               PROVE  Roots(a)[x] = Roots(b)[y] <=> SameLeaves(a, x, b, y)
    OBVIOUS
  <2>1. CASE n = 1
    <3>1. Roots(a)[x] = LeafHash(a[x.to]) /\ Roots(b)[y] = LeafHash(b[y.to])
      BY <2>1, RootsDef DEF RootBody
    <3>2. x.to = x.from + 1 /\ y.to = y.from + 1
      BY SMTT(30), <2>1, SpanIn DEF Size
    <3> QED BY <2>1, <3>1, <3>2 DEF SameLeaves, LeafHash
  <2>2. CASE n > 1
    <3>1. /\ Roots(a)[x] = NodeHash(Roots(a)[LeftHalf(x)], Roots(a)[RightHalf(x)])
          /\ Roots(b)[y] = NodeHash(Roots(b)[LeftHalf(y)], Roots(b)[RightHalf(y)])
      BY <2>2, RootsDef DEF RootBody
    <3>2. /\ LeftHalf(x) \in Spans(Len(a)) /\ RightHalf(x) \in Spans(Len(a))
          /\ LeftHalf(y) \in Spans(Len(b)) /\ RightHalf(y) \in Spans(Len(b))
          /\ Size(LeftHalf(x)) = Size(LeftHalf(y)) /\ Size(RightHalf(x)) = Size(RightHalf(y))
          /\ Size(LeftHalf(x)) \in 1..(n - 1) /\ Size(RightHalf(x)) \in 1..(n - 1)
      BY <2>2, Halves
    <3>3. /\ Roots(a)[LeftHalf(x)] = Roots(b)[LeftHalf(y)]
               <=> SameLeaves(a, LeftHalf(x), b, LeftHalf(y))
          /\ Roots(a)[RightHalf(x)] = Roots(b)[RightHalf(y)]
               <=> SameLeaves(a, RightHalf(x), b, RightHalf(y))
      BY <1>1, <3>2
    <3>4. SameLeaves(a, x, b, y) <=> /\ SameLeaves(a, LeftHalf(x), b, LeftHalf(y))
                                     /\ SameLeaves(a, RightHalf(x), b, RightHalf(y))
      BY <2>2, HalvesSame
    <3> QED BY <3>1, <3>3, <3>4 DEF NodeHash
  <2> QED BY <2>1, <2>2
<1> HIDE DEF T
<1>2. \A n \in Nat : n \in T
  BY <1>1, Induction
<1>3. Size(r) \in T
  BY <1>2, SpanIn
<1> QED BY <1>3 DEF T

\* The root of a run of the leaves is that of the sequence of them alone.
LEMMA RootOfSubSeq ==
  ASSUME NEW S, NEW log \in Seq(S), NEW m \in Nat, NEW n \in Nat, m < n, n <= Len(log)
  PROVE  MerkleRoot(SubSeq(log, m + 1, n)) = Roots(log)[Span(m, n)]
<1> DEFINE part == SubSeq(log, m + 1, n)
<1>1. /\ part \in Seq(S) /\ Len(part) = n - m
      /\ \A i \in 1..(n - m) : part[i] = log[m + i]
  BY SubSeqProperties
<1>2. /\ Span(0, n - m) \in Spans(Len(part)) /\ Span(m, n) \in Spans(Len(log))
      /\ Size(Span(0, n - m)) = n - m /\ Size(Span(m, n)) = n - m
      /\ Span(0, n - m).from = 0 /\ Span(m, n).from = m
  BY <1>1 DEF Span, Spans, Size
<1>3. SameLeaves(part, Span(0, n - m), log, Span(m, n))
  BY <1>1, <1>2 DEF SameLeaves
<1> HIDE DEF part
<1>4. Roots(part)[Span(0, n - m)] = Roots(log)[Span(m, n)]
  <2>1. /\ Len(part) \in Nat /\ Len(log) \in Nat
        /\ Size(Span(0, n - m)) = Size(Span(m, n)) /\ Size(Span(0, n - m)) >= 1
    BY <1>1, <1>2
  <2> QED BY <1>2, <1>3, <2>1, SameRoot
<1> QED BY <1>1, <1>4 DEF MerkleRoot, part

-----------------------------------------------------------------------------
(* The stack.  It holds the leaves of L from place from + 1 to place to;   *)
(* start says where each of its subtrees begins.                           *)

Subtrees(L) == [size : Powers, hash : {Roots(L)[r] : r \in Spans(Len(L))}]

Holds(stack, L, from, to, start) ==
  /\ stack \in Seq(Subtrees(L))
  /\ from \in Nat /\ to \in 0..Len(L)
  /\ start \in [1..(Len(stack) + 1) -> Nat]
  /\ start[1] = from /\ start[Len(stack) + 1] = to
  /\ \A i \in 1..Len(stack) : /\ start[i + 1] = start[i] + stack[i].size
                              /\ stack[i].hash = Roots(L)[Span(start[i], start[i + 1])]

Descending(stack) == \A i \in 1..(Len(stack) - 1) : stack[i].size > stack[i + 1].size

\* All but the last two, which may be of one size.
NearlyDescending(stack) ==
  \A i \in 1..(Len(stack) - 1) :
    /\ stack[i].size >= stack[i + 1].size
    /\ i < Len(stack) - 1 => stack[i].size > stack[i + 1].size

IsStackOf(stack, L, from, to) ==
  Descending(stack) /\ \E start : Holds(stack, L, from, to, start)

LEMMA SizesArePowers ==
  ASSUME NEW L, NEW stack \in Seq(Subtrees(L))
  PROVE  \A i \in 1..Len(stack) : stack[i].size \in Powers /\ stack[i].size \in Nat \ {0}
<1> TAKE i \in 1..Len(stack)
<1>1. stack[i] \in Subtrees(L)
  OBVIOUS
<1>2. stack[i].size \in Powers
  BY <1>1 DEF Subtrees
<1> QED BY <1>2, PowersDouble

\* Two perfect trees of one size, side by side, are one of twice the size.
LEMMA PerfectTrees ==
  ASSUME NEW L, Len(L) \in Nat, NEW s \in Powers, NEW a \in Nat, a + 2 * s <= Len(L)
  PROVE  NodeHash(Roots(L)[Span(a, a + s)], Roots(L)[Span(a + s, a + 2 * s)])
           = Roots(L)[Span(a, a + 2 * s)]
<1> DEFINE r == Span(a, a + 2 * s)
<1>1. s \in Nat \ {0}
  BY PowersDouble
<1>2. r \in Spans(Len(L)) /\ Size(r) = 2 * s /\ r.from = a /\ r.to = a + 2 * s
  BY <1>1 DEF Span, Spans, Size
<1> HIDE DEF r
<1>3. SplitPoint(2 * s) = s
  BY <1>1, SplitPointOnly
<1>4. LeftHalf(r) = Span(a, a + s) /\ RightHalf(r) = Span(a + s, a + 2 * s)
  BY <1>2, <1>3 DEF LeftHalf, RightHalf, Cut
<1>5. Roots(L)[r] = NodeHash(Roots(L)[LeftHalf(r)], Roots(L)[RightHalf(r)])
  BY <1>1, <1>2, RootsDef DEF RootBody
<1> QED BY <1>4, <1>5 DEF r

\* The two subtrees at the top, if they are of one size, become one.
LEMMA MergeTopHolds ==
  ASSUME NEW L, Len(L) \in Nat, NEW from, NEW to, NEW stack, NEW start,
         Holds(stack, L, from, to, start), NearlyDescending(stack), Len(stack) >= 1
  PROVE  /\ \E p : Holds(MergeTop(stack), L, from, to, p)
         /\ NearlyDescending(MergeTop(stack))
         /\ \/ MergeTop(stack) = stack /\ Descending(stack)
            \/ Len(MergeTop(stack)) = Len(stack) - 1 /\ Len(stack) > 1
<1> DEFINE top == Len(stack)
           s == stack[top].size
<1>1. stack \in Seq(Subtrees(L)) /\ top \in Nat /\ top >= 1
  BY DEF Holds
<1>4. \A i \in 1..top : stack[i].size \in Powers /\ stack[i].size \in Nat \ {0}
  BY <1>1, SizesArePowers
<1>5. \A i \in 1..top : start[i + 1] = start[i] + stack[i].size
  BY DEF Holds
<1>6. start \in [1..(top + 1) -> Nat] /\ start[top + 1] = to /\ to \in 0..Len(L)
  BY DEF Holds
<1>2. CASE ~ (top > 1 /\ stack[top - 1].size = s)
  <2>1. MergeTop(stack) = stack
    BY <1>2 DEF MergeTop
  <2>2. Descending(stack)
    <3> SUFFICES ASSUME NEW i \in 1..(top - 1) PROVE stack[i].size > stack[i + 1].size
      BY DEF Descending
    <3>1. CASE i < top - 1
      BY <3>1 DEF NearlyDescending
    <3>2. CASE i = top - 1
      <4>1. i \in 1..top /\ i + 1 \in 1..top /\ i + 1 = top
        BY <1>1, <3>2
      <4>2. stack[i].size \in Nat /\ stack[i + 1].size \in Nat
        BY <1>4, <4>1
      <4>3. stack[i].size >= stack[i + 1].size
        BY DEF NearlyDescending
      <4>4. stack[i].size # stack[i + 1].size
        BY <1>1, <1>2, <3>2, <4>1
      <4> QED BY <4>2, <4>3, <4>4
    <3> QED BY <1>1, <3>1, <3>2
  <2> QED BY <2>1, <2>2
<1>3. CASE top > 1 /\ stack[top - 1].size = s
  <2> DEFINE new == [size |-> 2 * s, hash |-> NodeHash(stack[top - 1].hash, stack[top].hash)]
             rest == SubSeq(stack, 1, top - 2)
             m == Append(rest, new)
             a == start[top - 1]
             p == [i \in 1..top |-> IF i = top THEN to ELSE start[i]]
  <2>1. MergeTop(stack) = m
    BY <1>3 DEF MergeTop
  <2>2. s \in Powers /\ s \in Nat \ {0} /\ 2 * s \in Powers
    BY <1>1, <1>4, PowersDouble
  <2>3. top - 1 \in 1..top /\ top \in 1..top /\ (top - 1) + 1 = top
    BY <1>1, <1>3
  <2>4. a \in Nat /\ start[top] = a + s /\ to = (a + s) + s /\ to \in 0..Len(L)
    <3>1. start[top] = start[top - 1] + stack[top - 1].size /\ start[top + 1] = start[top] + s
      BY <1>5, <2>3
    <3>2. top - 1 \in 1..(top + 1)
      BY <1>1, <1>3
    <3> QED BY <1>3, <1>6, <2>3, <3>1, <3>2
  <2>5. /\ stack[top - 1].hash = Roots(L)[Span(a, a + s)]
        /\ stack[top].hash = Roots(L)[Span(a + s, a + 2 * s)]
    <3>1. stack[top - 1].hash = Roots(L)[Span(a, start[top])]
      BY <2>3 DEF Holds
    <3>2. stack[top].hash = Roots(L)[Span(start[top], start[top + 1])]
      BY <2>3 DEF Holds
    <3>3. start[top + 1] = a + 2 * s
      BY <2>2, <2>4 DEF Holds
    <3> QED BY <2>4, <3>1, <3>2, <3>3
  <2>6. a + 2 * s = to /\ new.hash = Roots(L)[Span(a, to)]
    BY <2>2, <2>4, <2>5, PerfectTrees
  <2>7. Span(a, to) \in Spans(Len(L))
    BY <2>2, <2>4 DEF Span, Spans
  <2>8. new \in Subtrees(L)
    BY <2>2, <2>6, <2>7 DEF Subtrees
  <2>9. /\ rest \in Seq(Subtrees(L)) /\ Len(rest) = top - 2
        /\ \A i \in 1..(top - 2) : rest[i] = stack[i]
    <3>1. top - 2 \in Nat /\ top - 2 <= Len(stack)
      BY <1>1, <1>3
    <3> QED BY <1>1, <3>1, FirstMembers
  <2> HIDE DEF rest, new
  <2>10. /\ m \in Seq(Subtrees(L)) /\ Len(m) = top - 1 /\ m[top - 1] = new
         /\ \A i \in 1..(top - 2) : m[i] = stack[i]
    BY <2>8, <2>9
  <2> HIDE DEF m
  <2>11. Holds(m, L, from, to, p)
    <3>1. p \in [1..(Len(m) + 1) -> Nat]
      BY <1>1, <2>4, <2>10 DEF Holds
    <3>2. p[1] = from /\ p[Len(m) + 1] = to
      BY <1>1, <1>3, <2>10 DEF Holds
    <3>3. ASSUME NEW i \in 1..(top - 1)
          PROVE  p[i + 1] = p[i] + m[i].size /\ m[i].hash = Roots(L)[Span(p[i], p[i + 1])]
      <4>1. CASE i = top - 1
        <5>1. p[i] = a /\ p[i + 1] = to /\ m[i] = new
          BY <1>1, <1>3, <2>10, <4>1
        <5>2. new.size = 2 * s
          BY DEF new
        <5> QED BY <2>6, <5>1, <5>2
      <4>2. CASE i # top - 1
        <5>1. i \in 1..(top - 2) /\ i \in 1..top /\ i + 1 \in 1..top /\ i # top /\ i + 1 # top
          BY <1>1, <4>2
        <5>2. p[i] = start[i] /\ p[i + 1] = start[i + 1] /\ m[i] = stack[i]
          BY <2>10, <5>1
        <5>3. /\ start[i + 1] = start[i] + stack[i].size
              /\ stack[i].hash = Roots(L)[Span(start[i], start[i + 1])]
          BY <5>1 DEF Holds
        <5> QED BY <5>2, <5>3
      <4> QED BY <4>1, <4>2
    <3>4. from \in Nat /\ to \in 0..Len(L)
      BY DEF Holds
    <3> HIDE DEF p
    <3> QED BY <2>10, <3>1, <3>2, <3>3, <3>4 DEF Holds
  <2>12. NearlyDescending(m)
    <3> SUFFICES ASSUME NEW i \in 1..(top - 2)
                 PROVE  /\ m[i].size >= m[i + 1].size
                        /\ i < top - 2 => m[i].size > m[i + 1].size
      BY <2>10 DEF NearlyDescending
    <3>1. i \in 1..(top - 1) /\ i < top - 1 /\ m[i] = stack[i]
      BY <2>10
    <3>2. stack[i].size > stack[i + 1].size
      BY <3>1 DEF NearlyDescending
    <3>3. CASE i < top - 2
      <4>1. i + 1 \in 1..(top - 2) /\ i \in 1..top /\ i + 1 \in 1..top
        BY <1>1, <3>3
      <4>2. m[i + 1] = stack[i + 1] /\ stack[i].size \in Nat /\ stack[i + 1].size \in Nat
        BY <1>4, <2>10, <4>1
      <4> QED BY <3>1, <3>2, <4>2
    <3>4. CASE i = top - 2
      <4>1. m[i + 1].size = 2 * s /\ stack[i + 1].size = s
        BY <1>1, <1>3, <2>10, <3>4 DEF new
      <4>2. stack[i].size \in Powers
        BY <1>1, <1>4, <3>1
      <4>3. 2 * s <= stack[i].size
        BY <2>2, <3>2, <4>1, <4>2, PowersGap
      <4> QED BY <2>2, <3>1, <3>4, <4>1, <4>2, <4>3, PowersDouble
    <3> QED BY <1>1, <3>3, <3>4
  <2> QED BY <1>3, <2>1, <2>10, <2>11, <2>12
<1> QED BY <1>2, <1>3

\* The rounds of Merge, one after the other.
LEMMA MergeRounds ==
  ASSUME NEW stack, Len(stack) \in Nat
  PROVE  \E m : /\ m[0] = stack
                /\ \A k \in 0..(Len(stack) - 1) : m[k + 1] = MergeTop(m[k])
                /\ Merge(stack) = m[Len(stack)]
<1> DEFINE N == Len(stack)
           Solves(f) == f = [k \in 0..N |-> IF k = 0 THEN stack ELSE MergeTop(f[k - 1])]
           Up(f, n) == \A k \in 0..n : f[k] = IF k = 0 THEN stack ELSE MergeTop(f[k - 1])
           T == {n \in Nat : \E f : Up(f, n)}
<1>1. 0 \in T
  <2> DEFINE f == [k \in 0..0 |-> stack]
  <2>1. Up(f, 0)
    OBVIOUS
  <2> QED BY <2>1
<1>2. ASSUME NEW n \in Nat, n \in T PROVE n + 1 \in T
  <2>1. PICK f : Up(f, n)
    BY <1>2
  <2> DEFINE g == [k \in 0..(n + 1) |-> IF k <= n THEN f[k] ELSE MergeTop(f[n])]
  <2>2. Up(g, n + 1)
    BY <2>1
  <2> HIDE DEF g, Up
  <2> QED BY <2>2
<1> HIDE DEF T
<1>3. N \in T
  BY <1>1, <1>2, StepInduction
<1>4. PICK f : Up(f, N)
  BY <1>3 DEF T
<1> DEFINE h == [k \in 0..N |-> f[k]]
<1>5. \A k \in 0..N : h[k] = IF k = 0 THEN stack ELSE MergeTop(h[k - 1])
  BY <1>4
<1>6. Solves(h)
  <2>1. h = [k \in 0..N |-> h[k]]
    OBVIOUS
  <2> HIDE DEF h
  <2> QED BY <1>5, <2>1
<1> DEFINE m == CHOOSE g : Solves(g)
<1>7. Merge(stack) = m[N]
  BY DEF Merge
<1> HIDE DEF h
<1>8. Solves(m)
  <2> HIDE DEF Solves
  <2> QED BY <1>6
<1> HIDE DEF m
<1>9. \A k \in 0..N : m[k] = IF k = 0 THEN stack ELSE MergeTop(m[k - 1])
  BY <1>8
<1>10. m[0] = stack
  BY <1>9
<1>11. \A k \in 0..(N - 1) : m[k + 1] = MergeTop(m[k])
  BY <1>9
<1> QED BY <1>7, <1>10, <1>11

\* However many equal pairs there are, the rounds suffice to merge them all.
LEMMA MergeHolds ==
  ASSUME NEW L, Len(L) \in Nat, NEW from, NEW to, NEW stack, NEW start,
         Holds(stack, L, from, to, start), NearlyDescending(stack), Len(stack) >= 1
  PROVE  IsStackOf(Merge(stack), L, from, to)
<1> DEFINE N == Len(stack)
<1>1. N \in Nat
  BY DEF Holds
<1>2. PICK m : /\ m[0] = stack
               /\ \A k \in 0..(N - 1) : m[k + 1] = MergeTop(m[k])
               /\ Merge(stack) = m[N]
  BY <1>1, MergeRounds
<1> DEFINE Good(k) == /\ \E p : Holds(m[k], L, from, to, p)
                      /\ NearlyDescending(m[k]) /\ Len(m[k]) >= 1
                      /\ Descending(m[k]) \/ Len(m[k]) <= N - k
           T == {k \in Nat : k <= N => Good(k)}
<1>3. 0 \in T
  BY <1>1, <1>2
<1>4. ASSUME NEW k \in Nat, k \in T PROVE k + 1 \in T
  <2> SUFFICES ASSUME k + 1 <= N PROVE Good(k + 1)
    OBVIOUS
  <2>1. Good(k)
    BY <1>1, <1>4
  <2>2. m[k + 1] = MergeTop(m[k])
    BY <1>1, <1>2
  <2>3. PICK p : Holds(m[k], L, from, to, p)
    BY <2>1
  <2>4. Len(m[k]) \in Nat
    BY <2>3 DEF Holds
  <2> HIDE DEF Good
  <2>5. NearlyDescending(m[k]) /\ Len(m[k]) >= 1
    BY <2>1 DEF Good
  <2>6. /\ \E q : Holds(m[k + 1], L, from, to, q)
        /\ NearlyDescending(m[k + 1])
        /\ \/ m[k + 1] = m[k] /\ Descending(m[k])
           \/ Len(m[k + 1]) = Len(m[k]) - 1 /\ Len(m[k]) > 1
    BY <2>2, <2>3, <2>5, MergeTopHolds
  <2>7. CASE m[k + 1] = m[k] /\ Descending(m[k])
    BY <2>5, <2>6, <2>7 DEF Good
  <2>8. CASE Len(m[k + 1]) = Len(m[k]) - 1 /\ Len(m[k]) > 1
    <3>1. CASE Descending(m[k])
      <4>1. MergeTop(m[k]) = m[k]
        <5> DEFINE top == Len(m[k])
        <5>1. top - 1 \in 1..(top - 1) /\ (top - 1) + 1 = top
          BY <2>4, <2>8
        <5>2. m[k][top - 1].size > m[k][top].size
          BY <3>1, <5>1 DEF Descending
        <5>3. m[k][top - 1].size # m[k][top].size
          <6>1. m[k][top].size \in Nat
            BY <2>3, <2>4, <2>5, SizesArePowers DEF Holds
          <6> QED BY <5>2, <6>1
        <5> QED BY <5>3 DEF MergeTop
      <4> QED BY <2>2, <2>4, <2>8, <4>1
    <3>2. CASE Len(m[k]) <= N - k
      BY <1>1, <2>4, <2>6, <2>8, <3>2 DEF Good
    <3> QED BY <2>1, <3>1, <3>2 DEF Good
  <2> QED BY <2>6, <2>7, <2>8
<1> HIDE DEF T
<1>5. N \in T
  BY <1>1, <1>3, <1>4, StepInduction
<1>6. Good(N)
  BY <1>1, <1>5 DEF T
<1>7. Descending(m[N])
  <2>1. PICK p : Holds(m[N], L, from, to, p)
    BY <1>6
  <2>2. Len(m[N]) \in Nat
    BY <2>1 DEF Holds
  <2> QED BY <1>1, <1>6, <2>2
<1> QED BY <1>2, <1>6, <1>7 DEF IsStackOf

LEMMA EmptyStackHolds ==
  ASSUME NEW L, Len(L) \in Nat, NEW from \in 0..Len(L)
  PROVE  IsStackOf(EmptyStack, L, from, from)
<1> DEFINE start == [i \in 1..1 |-> from]
<1>1. EmptyStack \in Seq(Subtrees(L)) /\ Len(EmptyStack) = 0
  BY DEF EmptyStack
<1>2. start \in [1..(Len(EmptyStack) + 1) -> Nat] /\ start[1] = from /\ start[Len(EmptyStack) + 1] = from
  BY <1>1
<1> HIDE DEF start
<1>3. Holds(EmptyStack, L, from, from, start)
  BY <1>1, <1>2 DEF Holds
<1>4. Descending(EmptyStack)
  BY <1>1 DEF Descending
<1> QED BY <1>3, <1>4 DEF IsStackOf

\* Stack.Append: a stack of some leaves, given the next one, is a stack of those.
LEMMA StackAppendHolds ==
  ASSUME NEW L, Len(L) \in Nat, NEW from, NEW to, NEW stack,
         IsStackOf(stack, L, from, to), to < Len(L)
  PROVE  IsStackOf(StackAppend(stack, L[to + 1]), L, from, to + 1)
<1>1. PICK start : Holds(stack, L, from, to, start)
  BY DEF IsStackOf
<1> DEFINE N == Len(stack)
           new == [size |-> 1, hash |-> LeafHash(L[to + 1])]
           pushed == Append(stack, new)
           p == [i \in 1..(N + 2) |-> IF i = N + 2 THEN to + 1 ELSE start[i]]
<1>2. /\ stack \in Seq(Subtrees(L)) /\ N \in Nat /\ from \in Nat /\ to \in 0..Len(L)
      /\ start \in [1..(N + 1) -> Nat] /\ start[1] = from /\ start[N + 1] = to
  BY <1>1 DEF Holds
<1>3. Span(to, to + 1) \in Spans(Len(L)) /\ new.hash = Roots(L)[Span(to, to + 1)]
  <2>1. Span(to, to + 1) \in Spans(Len(L))
    BY <1>2 DEF Span, Spans
  <2>2. Size(Span(to, to + 1)) = 1 /\ Span(to, to + 1).to = to + 1
    BY <1>2 DEF Span, Size
  <2> QED BY <2>1, <2>2, RootsDef DEF RootBody
<1>4. new \in Subtrees(L) /\ new.size = 1
  BY <1>3, PowersDouble DEF Subtrees
<1> HIDE DEF new
<1>5. /\ pushed \in Seq(Subtrees(L)) /\ Len(pushed) = N + 1 /\ pushed[N + 1] = new
      /\ \A i \in 1..N : pushed[i] = stack[i]
  BY <1>2, <1>4
<1> HIDE DEF pushed
<1>6. Holds(pushed, L, from, to + 1, p)
  <2>1. p \in [1..(Len(pushed) + 1) -> Nat]
    BY <1>2, <1>5
  <2>2. p[1] = from /\ p[Len(pushed) + 1] = to + 1
    BY <1>2, <1>5
  <2>3. ASSUME NEW i \in 1..(N + 1)
        PROVE  p[i + 1] = p[i] + pushed[i].size /\ pushed[i].hash = Roots(L)[Span(p[i], p[i + 1])]
    <3>1. CASE i = N + 1
      <4>1. p[i] = to /\ p[i + 1] = to + 1 /\ pushed[i] = new
        BY <1>2, <1>5, <3>1
      <4> QED BY <1>3, <1>4, <4>1
    <3>2. CASE i # N + 1
      <4>1. i \in 1..N /\ p[i] = start[i] /\ p[i + 1] = start[i + 1] /\ pushed[i] = stack[i]
        BY <1>2, <1>5, <3>2
      <4>2. start[i + 1] = start[i] + stack[i].size /\ stack[i].hash = Roots(L)[Span(start[i], start[i + 1])]
        BY <1>1, <4>1 DEF Holds
      <4> QED BY <4>1, <4>2
    <3> QED BY <3>1, <3>2
  <2>4. from \in Nat /\ to + 1 \in 0..Len(L)
    BY <1>2
  <2> HIDE DEF p
  <2> QED BY <1>5, <2>1, <2>2, <2>3, <2>4 DEF Holds
<1>7. NearlyDescending(pushed)
  <2> SUFFICES ASSUME NEW i \in 1..N
               PROVE  /\ pushed[i].size >= pushed[i + 1].size
                      /\ i < N => pushed[i].size > pushed[i + 1].size
    BY <1>2, <1>5 DEF NearlyDescending
  <2>1. stack[i].size \in Nat \ {0} /\ pushed[i] = stack[i]
    BY <1>2, <1>5, SizesArePowers
  <2>2. CASE i < N
    <3>1. i \in 1..(N - 1) /\ i + 1 \in 1..N
      BY <1>2, <2>2
    <3>2. stack[i].size > stack[i + 1].size /\ pushed[i + 1] = stack[i + 1]
      BY <1>5, <3>1 DEF IsStackOf, Descending
    <3>3. stack[i + 1].size \in Nat
      BY <1>2, <3>1, SizesArePowers
    <3> QED BY <2>1, <3>2, <3>3
  <2>3. CASE ~ (i < N)
    <3>1. i = N
      BY <1>2, <2>3
    <3> QED BY <1>4, <1>5, <2>1, <3>1
  <2> QED BY <2>2, <2>3
<1>8. StackAppend(stack, L[to + 1]) = Merge(pushed)
  BY DEF StackAppend, Pushed, pushed, new
<1>9. Len(pushed) >= 1
  BY <1>2, <1>5
<1> QED BY <1>6, <1>7, <1>8, <1>9, MergeHolds

\* The fold of StackRoot, from the last subtree to the first.
LEMMA StackFolds ==
  ASSUME NEW stack, Len(stack) \in Nat, Len(stack) >= 1
  PROVE  \E f : /\ StackRoot(stack) = f[1] /\ f[Len(stack)] = stack[Len(stack)].hash
                /\ \A i \in 1..(Len(stack) - 1) : f[i] = NodeHash(stack[i].hash, f[i + 1])
<1> DEFINE N == Len(stack)
           Body(f, i) == IF i = N THEN stack[i].hash ELSE NodeHash(stack[i].hash, f[i + 1])
           Solves(f) == f = [i \in 1..N |-> Body(f, i)]
           Down(f, n) == \A i \in 1..N : N - i <= n => f[i] = Body(f, i)
           T == {n \in Nat : \E f : Down(f, n)}
<1>1. 0 \in T
  <2> DEFINE f == [i \in 1..N |-> stack[N].hash]
  <2>1. Down(f, 0)
    OBVIOUS
  <2> HIDE DEF f, Down
  <2> QED BY <2>1
<1>2. ASSUME NEW n \in Nat, n \in T PROVE n + 1 \in T
  <2>1. PICK f : Down(f, n)
    BY <1>2
  <2> DEFINE g == [i \in 1..N |-> IF N - i <= n THEN f[i] ELSE Body(f, i)]
  <2>2. ASSUME NEW i \in 1..N, N - i <= n + 1 PROVE g[i] = Body(g, i)
    <3>1. CASE i = N
      BY <2>1, <3>1
    <3>2. CASE i # N
      <4>1. i + 1 \in 1..N /\ N - (i + 1) <= n
        BY <2>2, <3>2
      <4>2. g[i + 1] = f[i + 1]
        BY <4>1
      <4>3. g[i] = Body(f, i)
        BY <2>1
      <4> QED BY <3>2, <4>2, <4>3
    <3> QED BY <3>1, <3>2
  <2> HIDE DEF g, Body
  <2>3. Down(g, n + 1)
    BY <2>2
  <2> HIDE DEF Down
  <2> QED BY <2>3
<1> HIDE DEF T
<1>3. N \in T
  BY <1>1, <1>2, StepInduction
<1>4. PICK f : Down(f, N)
  BY <1>3 DEF T
<1> DEFINE h == [i \in 1..N |-> f[i]]
<1>5. \A i \in 1..N : h[i] = Body(h, i)
  <2> SUFFICES ASSUME NEW i \in 1..N PROVE h[i] = Body(h, i)
    OBVIOUS
  <2>1. f[i] = Body(f, i)
    <3> HIDE DEF Body
    <3> QED BY <1>4
  <2>2. CASE i = N
    BY <2>1, <2>2
  <2>3. CASE i # N
    <3>1. i + 1 \in 1..N
      BY <2>3
    <3> QED BY <2>1, <2>3, <3>1
  <2> QED BY <2>2, <2>3
<1>6. Solves(h)
  <2>1. h = [i \in 1..N |-> h[i]]
    OBVIOUS
  <2> HIDE DEF h, Body
  <2> QED BY <1>5, <2>1
<1> DEFINE m == CHOOSE g : Solves(g)
<1>7. StackRoot(stack) = m[1]
  BY DEF StackRoot
<1> HIDE DEF h
<1>8. Solves(m)
  <2> HIDE DEF Solves
  <2> QED BY <1>6
<1> HIDE DEF m
<1>9. \A i \in 1..N : m[i] = Body(m, i)
  <2> HIDE DEF Body
  <2> QED BY <1>8
<1>10. m[N] = stack[N].hash
  BY <1>9
<1>11. \A i \in 1..(N - 1) : m[i] = NodeHash(stack[i].hash, m[i + 1])
  BY <1>9
<1> QED BY <1>7, <1>10, <1>11

\* Stack.Root: the fold over the subtrees is the root of all their leaves.
LEMMA StackRootIs ==
  ASSUME NEW L, Len(L) \in Nat, NEW from, NEW to, NEW stack,
         IsStackOf(stack, L, from, to), from < to
  PROVE  StackRoot(stack) = Roots(L)[Span(from, to)]
<1>1. PICK start : Holds(stack, L, from, to, start)
  BY DEF IsStackOf
<1> DEFINE N == Len(stack)
<1>2. /\ stack \in Seq(Subtrees(L)) /\ N \in Nat /\ from \in Nat /\ to \in 0..Len(L)
      /\ start \in [1..(N + 1) -> Nat] /\ start[1] = from /\ start[N + 1] = to
  BY <1>1 DEF Holds
<1>3. N >= 1
  BY <1>2
<1>4. PICK f : /\ StackRoot(stack) = f[1] /\ f[N] = stack[N].hash
               /\ \A i \in 1..(N - 1) : f[i] = NodeHash(stack[i].hash, f[i + 1])
  BY <1>2, <1>3, StackFolds
<1>5. \A i \in 1..N : /\ start[i + 1] = start[i] + stack[i].size
                      /\ stack[i].hash = Roots(L)[Span(start[i], start[i + 1])]
  BY <1>1 DEF Holds
<1> DEFINE Folded(i) == /\ start[i] < to /\ to < start[i] + 2 * stack[i].size
                        /\ f[i] = Roots(L)[Span(start[i], to)]
           T == {n \in Nat : n < N => Folded(N - n)}
<1>6. 0 \in T
  <2>1. stack[N].size \in Nat \ {0}
    BY <1>2, <1>3, SizesArePowers
  <2>2. start[N] \in Nat /\ N \in 1..N
    BY <1>2, <1>3
  <2>3. start[N + 1] = start[N] + stack[N].size /\ stack[N].hash = Roots(L)[Span(start[N], to)]
    BY <1>2, <1>5, <2>2
  <2>4. Folded(N)
    <3>1. start[N] < to /\ to < start[N] + 2 * stack[N].size
      BY <1>2, <2>1, <2>2, <2>3
    <3>2. f[N] = Roots(L)[Span(start[N], to)]
      BY <1>4, <2>3
    <3> QED BY <3>1, <3>2
  <2> HIDE DEF Folded
  <2>5. N - 0 = N
    BY <1>2
  <2> QED BY <2>4, <2>5
<1>7. ASSUME NEW n \in Nat, n \in T PROVE n + 1 \in T
  <2> SUFFICES ASSUME n + 1 < N PROVE Folded(N - (n + 1))
    OBVIOUS
  <2> DEFINE i == N - (n + 1)
             s == stack[i].size
  <2>1. i \in 1..(N - 1) /\ i \in 1..N /\ i + 1 \in 1..N /\ i + 1 = N - n
    BY <1>2
  <2>2. Folded(i + 1)
    BY <1>2, <1>7, <2>1
  <2> HIDE DEF i, T
  <2>3. s \in Powers /\ stack[i + 1].size \in Powers /\ s \in Nat \ {0} /\ stack[i + 1].size \in Nat
    BY <1>2, <2>1, SizesArePowers
  <2>4. 2 * stack[i + 1].size <= s
    BY <2>1, <2>3, PowersGap DEF IsStackOf, Descending
  <2>5. start[i] \in Nat /\ start[i + 1] = start[i] + s /\ start[i + 1] < to /\ to \in Nat
    <3>1. i \in 1..(N + 1)
      BY <1>2, <2>1
    <3>2. start[i] \in Nat
      BY <1>2, <3>1
    <3>3. to \in Nat
      BY <1>2
    <3> QED BY <1>5, <2>1, <2>2, <3>2, <3>3
  <2>6. to < start[i] + 2 * s
    <3>1. to < start[i + 1] + 2 * stack[i + 1].size
      BY <2>2
    <3> HIDE DEF s
    <3> QED BY SMTT(30), <2>3, <2>4, <2>5, <3>1
  <2> DEFINE r == Span(start[i], to)
  <2>7. r \in Spans(Len(L)) /\ Size(r) = to - start[i] /\ r.from = start[i] /\ r.to = to
    BY <1>2, <2>3, <2>5 DEF Span, Spans, Size
  <2>8. SplitPoint(Size(r)) = s
    <3> HIDE DEF s
    <3>1. to - start[i] \in Nat /\ to - start[i] > 1 /\ s < to - start[i] /\ to - start[i] <= 2 * s
      BY SMTT(30), <2>3, <2>5, <2>6
    <3> QED BY <2>3, <2>7, <3>1, SplitPointOnly
  <2>9. LeftHalf(r) = Span(start[i], start[i + 1]) /\ RightHalf(r) = Span(start[i + 1], to)
    BY <2>5, <2>7, <2>8 DEF LeftHalf, RightHalf, Cut
  <2> HIDE DEF r, s
  <2>10. Size(r) > 1 /\ ~ (Size(r) <= 1)
    BY <2>3, <2>5, <2>7
  <2>11. Roots(L)[r] = NodeHash(Roots(L)[LeftHalf(r)], Roots(L)[RightHalf(r)])
    BY <2>7, <2>10, RootsDef DEF RootBody
  <2>12. f[i] = Roots(L)[r]
    BY <1>4, <1>5, <2>1, <2>2, <2>9, <2>11
  <2>13. Folded(i)
    BY SMTT(30), <1>2, <2>3, <2>5, <2>6, <2>12 DEF r, s
  <2> QED BY <2>13 DEF i
<1> HIDE DEF T
<1>8. N - 1 \in T
  BY SMTT(30), <1>2, <1>3, <1>6, <1>7, StepInduction
<1>9. Folded(1)
  <2>1. N - (N - 1) = 1 /\ N - 1 < N
    BY <1>2
  <2> QED BY <1>8, <2>1 DEF T
<1> QED BY <1>2, <1>4, <1>9

\* Each subtree is larger than all that follow it, not only than the next.
LEMMA DescendingAll ==
  ASSUME NEW L, NEW stack \in Seq(Subtrees(L)), Descending(stack)
  PROVE  \A i, j \in 1..Len(stack) : i < j => stack[i].size > stack[j].size
<1> DEFINE N == Len(stack)
           T == {d \in Nat : \A i, j \in 1..N : j = i + d + 1 => stack[i].size > stack[j].size}
<1>1. N \in Nat /\ \A i \in 1..N : stack[i].size \in Nat
  BY SizesArePowers
<1>2. \A i \in 1..(N - 1) : stack[i].size > stack[i + 1].size
  BY DEF Descending
<1> HIDE DEF N
<1>3. 0 \in T
  BY <1>1, <1>2
<1>4. ASSUME NEW d \in Nat, d \in T PROVE d + 1 \in T
  <2>1. ASSUME NEW i \in 1..N, NEW j \in 1..N, j = i + (d + 1) + 1
        PROVE  stack[i].size > stack[j].size
    <3>1. i + 1 \in 1..N /\ i \in 1..(N - 1) /\ j = (i + 1) + d + 1
      BY <1>1, <2>1
    <3>2. stack[i + 1].size > stack[j].size
      BY <1>4, <3>1
    <3>3. stack[i].size > stack[i + 1].size
      BY <1>2, <3>1
    <3> QED BY <1>1, <3>1, <3>2, <3>3
  <2> QED BY <1>1, <2>1
<1>5. \A d \in Nat : d \in T
  <2> HIDE DEF T
  <2> QED BY <1>3, <1>4, StepInduction
<1>6. ASSUME NEW i \in 1..N, NEW j \in 1..N, i < j PROVE stack[i].size > stack[j].size
  <2>1. j - i - 1 \in Nat /\ j = i + (j - i - 1) + 1
    BY <1>6
  <2> QED BY <1>5, <2>1
<1> QED BY <1>6 DEF N

\* The sizes of the subtrees add up to the number of leaves.
LEMMA SizesTotal ==
  ASSUME NEW L, NEW from, NEW to, NEW stack, IsStackOf(stack, L, from, to)
  PROVE  LET total[i \in 0..Len(stack)] == IF i = 0 THEN 0 ELSE total[i - 1] + stack[i].size
         IN total[Len(stack)] = to - from
<1> DEFINE N == Len(stack)
           Solves(f) == f = [i \in 0..N |-> IF i = 0 THEN 0 ELSE f[i - 1] + stack[i].size]
           total == CHOOSE f : Solves(f)
<1> SUFFICES total[N] = to - from
  OBVIOUS
<1>1. PICK start : Holds(stack, L, from, to, start)
  BY DEF IsStackOf
<1>2. /\ N \in Nat /\ from \in Nat /\ to \in Nat
      /\ start \in [1..(N + 1) -> Nat] /\ start[1] = from /\ start[N + 1] = to
      /\ \A i \in 1..N : start[i + 1] = start[i] + stack[i].size
  BY <1>1 DEF Holds
<1>3. \A i \in 1..N : stack[i].size \in Nat
  BY <1>1, SizesArePowers DEF Holds
<1> DEFINE sum == [i \in 0..N |-> start[i + 1] - from]
<1>4. Solves(sum)
  <2>1. ASSUME NEW i \in 0..N
        PROVE  sum[i] = IF i = 0 THEN 0 ELSE sum[i - 1] + stack[i].size
    <3>1. CASE i = 0
      BY <1>2, <3>1
    <3>2. CASE i # 0
      <4>1. i \in 1..N /\ i - 1 \in 0..N /\ (i - 1) + 1 = i /\ i \in 1..(N + 1)
        BY <1>2, <3>2
      <4>2. sum[i] = start[i + 1] - from /\ sum[i - 1] = start[i] - from
        BY <4>1
      <4>3. start[i] \in Nat /\ stack[i].size \in Nat /\ start[i + 1] = start[i] + stack[i].size
        BY <1>2, <1>3, <4>1
      <4> QED BY <1>2, <3>2, <4>2, <4>3
    <3> QED BY <3>1, <3>2
  <2>2. sum = [i \in 0..N |-> sum[i]]
    OBVIOUS
  <2> HIDE DEF sum
  <2> QED BY <2>1, <2>2
<1>5. Solves(total)
  <2> HIDE DEF Solves, sum
  <2> QED BY <1>4
<1> HIDE DEF total
<1> DEFINE T == {i \in Nat : i <= N => total[i] = start[i + 1] - from}
<1>6. 0 \in T
  <2>1. total[0] = 0
    BY <1>2, <1>5
  <2> QED BY <1>2, <2>1
<1>7. ASSUME NEW i \in Nat, i \in T PROVE i + 1 \in T
  <2> SUFFICES ASSUME i + 1 <= N PROVE total[i + 1] = start[(i + 1) + 1] - from
    OBVIOUS
  <2>1. i + 1 \in 0..N /\ i + 1 \in 1..N /\ i + 1 # 0 /\ (i + 1) - 1 = i /\ i + 1 \in 1..(N + 1)
    BY <1>2
  <2>2. total[i] = start[i + 1] - from
    BY <1>2, <1>7
  <2>3. total[i + 1] = total[i] + stack[i + 1].size
    BY <1>5, <2>1
  <2>4. start[(i + 1) + 1] = start[i + 1] + stack[i + 1].size
    BY <1>2, <2>1
  <2>5. start[i + 1] \in Nat /\ stack[i + 1].size \in Nat
    BY <1>2, <1>3, <2>1
  <2> QED BY <1>2, <2>2, <2>3, <2>4, <2>5
<1> HIDE DEF T
<1>8. N \in T
  BY <1>2, <1>6, <1>7, StepInduction
<1> QED BY <1>2, <1>8 DEF T

\* A stack has no more subtrees than leaves, and one that is empty has none.
LEMMA StackFits ==
  ASSUME NEW L, NEW from, NEW to, NEW stack, IsStackOf(stack, L, from, to)
  PROVE  /\ stack \in Seq(Subtrees(L)) /\ Len(stack) \in Nat /\ from \in Nat /\ to \in Nat
         /\ to \in 0..Len(L) /\ Len(stack) <= to - from
         /\ stack = EmptyStack <=> from = to
<1>1. PICK start : Holds(stack, L, from, to, start)
  BY DEF IsStackOf
<1> DEFINE N == Len(stack)
<1>2. /\ N \in Nat /\ from \in Nat /\ to \in Nat /\ stack \in Seq(Subtrees(L))
      /\ start \in [1..(N + 1) -> Nat] /\ start[1] = from /\ start[N + 1] = to
      /\ \A i \in 1..N : start[i + 1] = start[i] + stack[i].size
  BY <1>1 DEF Holds
<1>3. \A i \in 1..N : stack[i].size \in Nat \ {0}
  BY <1>2, SizesArePowers
<1> DEFINE T == {i \in Nat : i <= N => from + i <= start[i + 1]}
<1>4. 0 \in T
  BY <1>2
<1>5. ASSUME NEW i \in Nat, i \in T PROVE i + 1 \in T
  <2>1. ASSUME i + 1 <= N PROVE from + (i + 1) <= start[(i + 1) + 1]
    <3>1. i + 1 \in 1..N /\ i + 1 \in 1..(N + 1)
      BY <1>2, <2>1
    <3>2. start[(i + 1) + 1] = start[i + 1] + stack[i + 1].size
      BY <1>2, <3>1
    <3>3. start[i + 1] \in Nat /\ stack[i + 1].size \in Nat \ {0}
      BY <1>2, <1>3, <3>1
    <3> QED BY <1>2, <1>5, <2>1, <3>2, <3>3
  <2> QED BY <2>1
<1> HIDE DEF T
<1>6. N \in T
  BY <1>2, <1>4, <1>5, StepInduction
<1>7. from + N <= to
  BY <1>2, <1>6 DEF T
<1>8. to \in 0..Len(L)
  BY <1>1 DEF Holds
<1>9. stack = EmptyStack <=> N = 0
  BY <1>2 DEF EmptyStack
<1> QED BY <1>2, <1>7, <1>8, <1>9

-----------------------------------------------------------------------------
(* The verification of a consistency proof: the walk over the nodes of the *)
(* path, by induction on the tree.                                         *)

Half(p) == <<p[1] \div 2, p[2] \div 2>>

LEMMA HalfIs ==
  ASSUME NEW p \in Nat \X Nat
  PROVE  Half(p) \in Nat \X Nat /\ p[1] \in Nat /\ p[2] \in Nat
         /\ (p[1] # 0 => Half(p)[1] < p[1])
BY DEF Half

ShiftBody(C, f, p) == IF p[1] \in C THEN f[Half(p)] ELSE p
Shifts(C, f, n)    == \A p \in Nat \X Nat : p[1] <= n => f[p] = ShiftBody(C, f, p)

\* A loop that shifts both numbers while the first one is in C.
LEMMA ShiftExists ==
  ASSUME NEW C, 0 \notin C
  PROVE  \A n \in Nat : \E f : Shifts(C, f, n)
<1> DEFINE T == {n \in Nat : \E f : Shifts(C, f, n)}
<1>1. 0 \in T
  <2> DEFINE f == [p \in Nat \X Nat |-> p]
  <2>1. Shifts(C, f, 0)
    BY DEF Shifts, ShiftBody
  <2> HIDE DEF f
  <2> QED BY <2>1
<1>2. ASSUME NEW n \in Nat, n \in T PROVE n + 1 \in T
  <2>1. PICK f : Shifts(C, f, n)
    BY <1>2
  <2> DEFINE g == [p \in Nat \X Nat |-> ShiftBody(C, f, p)]
  <2>2. ASSUME NEW p \in Nat \X Nat, p[1] <= n + 1 PROVE g[p] = ShiftBody(C, g, p)
    <3>1. CASE p[1] \in C
      <4>1. Half(p) \in Nat \X Nat /\ Half(p)[1] <= n /\ p[1] \in Nat
        BY <1>2, <2>2, <3>1, HalfIs
      <4>2. f[Half(p)] = ShiftBody(C, f, Half(p))
        BY <2>1, <4>1 DEF Shifts
      <4>3. g[Half(p)] = f[Half(p)]
        BY <4>1, <4>2
      <4>4. g[p] = f[Half(p)]
        BY <3>1 DEF ShiftBody
      <4> HIDE DEF g
      <4> QED BY <3>1, <4>3, <4>4 DEF ShiftBody
    <3>2. CASE p[1] \notin C
      BY <3>2 DEF ShiftBody
    <3> QED BY <3>1, <3>2
  <2> HIDE DEF g
  <2>3. Shifts(C, g, n + 1)
    BY <2>2 DEF Shifts
  <2> QED BY <2>3
<1> HIDE DEF T
<1>3. \A n \in Nat : n \in T
  BY <1>1, <1>2, StepInduction
<1> QED BY <1>3 DEF T

LEMMA ShiftUnique ==
  ASSUME NEW C, 0 \notin C, NEW m \in Nat, NEW f, Shifts(C, f, m),
         NEW n \in Nat, NEW g, Shifts(C, g, n),
         NEW q \in Nat \X Nat, q[1] <= m, q[1] <= n
  PROVE  f[q] = g[q]
<1> DEFINE T == {k \in Nat : \A p \in Nat \X Nat : p[1] = k /\ k <= m /\ k <= n => f[p] = g[p]}
<1>1. ASSUME NEW k \in Nat, \A j \in Nat : j < k => j \in T PROVE k \in T
  <2>1. ASSUME NEW p \in Nat \X Nat, p[1] = k, k <= m, k <= n PROVE f[p] = g[p]
    <3>1. f[p] = ShiftBody(C, f, p) /\ g[p] = ShiftBody(C, g, p)
      BY <2>1 DEF Shifts
    <3>2. CASE p[1] \in C
      <4>1. Half(p) \in Nat \X Nat /\ Half(p)[1] \in Nat /\ Half(p)[1] < k
        BY <2>1, <3>2, HalfIs
      <4>2. f[Half(p)] = g[Half(p)]
        BY <1>1, <2>1, <4>1
      <4> QED BY <3>1, <3>2, <4>2 DEF ShiftBody
    <3>3. CASE p[1] \notin C
      BY <3>1, <3>3 DEF ShiftBody
    <3> QED BY <3>2, <3>3
  <2> QED BY <2>1
<1> HIDE DEF T
<1>2. \A k \in Nat : k \in T
  BY <1>1, Induction
<1>3. q[1] \in T
  BY <1>2, HalfIs
<1> QED BY <1>3 DEF T

LEMMA ShiftLoop ==
  ASSUME NEW C, 0 \notin C
  PROVE  \E f : f = [p \in Nat \X Nat |-> IF p[1] \in C THEN f[<<p[1] \div 2, p[2] \div 2>>] ELSE p]
<1> DEFINE F(n) == CHOOSE f : Shifts(C, f, n)
           g == [p \in Nat \X Nat |-> F(p[1])[p]]
<1>1. \A n \in Nat : Shifts(C, F(n), n)
  BY ShiftExists
<1> HIDE DEF F
<1>2. ASSUME NEW p \in Nat \X Nat PROVE g[p] = ShiftBody(C, g, p)
  <2>1. p[1] \in Nat /\ Shifts(C, F(p[1]), p[1])
    BY <1>1, HalfIs
  <2>2. F(p[1])[p] = ShiftBody(C, F(p[1]), p)
    BY <2>1 DEF Shifts
  <2>3. CASE p[1] \in C
    <3>1. Half(p) \in Nat \X Nat /\ Half(p)[1] \in Nat /\ Half(p)[1] < p[1]
      BY <2>3, HalfIs
    <3>2. F(p[1])[Half(p)] = F(Half(p)[1])[Half(p)]
      <4> DEFINE h == Half(p)
                 f == F(p[1])
                 e == F(h[1])
                 a == p[1]
                 b == h[1]
      <4>1. Shifts(C, f, p[1]) /\ Shifts(C, e, h[1])
        BY <1>1, <2>1, <3>1
      <4>2. h \in Nat \X Nat /\ h[1] \in Nat /\ h[1] <= p[1] /\ h[1] <= h[1]
        BY <2>1, <3>1
      <4> HIDE DEF f, e, h
      <4>3. a \in Nat /\ b \in Nat /\ Shifts(C, f, a) /\ Shifts(C, e, b) /\ h[1] <= a /\ h[1] <= b
        BY <2>1, <4>1, <4>2
      <4> HIDE DEF a, b
      <4>4. f[h] = e[h]
        BY <4>2, <4>3, ShiftUnique
      <4> QED BY <4>4 DEF f, e, h
    <3>3. g[p] = F(p[1])[Half(p)]
      BY <2>2, <2>3 DEF ShiftBody
    <3>4. g[Half(p)] = F(Half(p)[1])[Half(p)]
      BY <3>1
    <3> HIDE DEF g
    <3> QED BY <2>3, <3>2, <3>3, <3>4 DEF ShiftBody
  <2>4. CASE p[1] \notin C
    BY <2>2, <2>4 DEF ShiftBody
  <2> QED BY <2>3, <2>4
<1>3. g = [p \in Nat \X Nat |-> g[p]]
  OBVIOUS
<1> HIDE DEF g
<1>4. g = [p \in Nat \X Nat |-> IF p[1] \in C THEN g[<<p[1] \div 2, p[2] \div 2>>] ELSE p]
  BY <1>2, <1>3 DEF ShiftBody, Half
<1> QED BY <1>4

LEMMA AfterOnesIs ==
  \A x, y \in Nat : AfterOnes[<<x, y>>]
    = IF Odd(x) THEN AfterOnes[<<x \div 2, y \div 2>>] ELSE <<x, y>>
<1> DEFINE C == {x \in Nat : Odd(x)}
           Solves(f) == f = [p \in Nat \X Nat |->
                               IF Odd(p[1]) THEN f[<<p[1] \div 2, p[2] \div 2>>] ELSE p]
<1>1. 0 \notin C
  BY DEF Odd
<1>2. \A p \in Nat \X Nat : p[1] \in C <=> Odd(p[1])
  OBVIOUS
<1> HIDE DEF C
<1>3. \E f : Solves(f)
  BY <1>1, <1>2, ShiftLoop
<1>4. AfterOnes = CHOOSE f : Solves(f)
  BY DEF AfterOnes
<1>5. Solves(AfterOnes)
  <2> HIDE DEF Solves
  <2> QED BY <1>3, <1>4
<1> SUFFICES ASSUME NEW x \in Nat, NEW y \in Nat
             PROVE  AfterOnes[<<x, y>>]
                      = IF Odd(x) THEN AfterOnes[<<x \div 2, y \div 2>>] ELSE <<x, y>>
  OBVIOUS
<1>6. <<x, y>> \in Nat \X Nat /\ <<x, y>>[1] = x /\ <<x, y>>[2] = y
  OBVIOUS
<1> QED BY <1>5, <1>6

LEMMA AfterZerosIs ==
  \A x, y \in Nat : AfterZeros[<<x, y>>]
    = IF x # 0 /\ ~Odd(x) THEN AfterZeros[<<x \div 2, y \div 2>>] ELSE <<x, y>>
<1> DEFINE C == {x \in Nat : x # 0 /\ ~Odd(x)}
           Solves(f) == f = [p \in Nat \X Nat |->
                               IF p[1] # 0 /\ ~Odd(p[1])
                               THEN f[<<p[1] \div 2, p[2] \div 2>>] ELSE p]
<1>1. 0 \notin C
  OBVIOUS
<1>2. \A p \in Nat \X Nat : p[1] \in C <=> p[1] # 0 /\ ~Odd(p[1])
  OBVIOUS
<1> HIDE DEF C
<1>3. \E f : Solves(f)
  BY <1>1, <1>2, ShiftLoop
<1>4. AfterZeros = CHOOSE f : Solves(f)
  BY DEF AfterZeros
<1>5. Solves(AfterZeros)
  <2> HIDE DEF Solves
  <2> QED BY <1>3, <1>4
<1> SUFFICES ASSUME NEW x \in Nat, NEW y \in Nat
             PROVE  AfterZeros[<<x, y>>]
                      = IF x # 0 /\ ~Odd(x) THEN AfterZeros[<<x \div 2, y \div 2>>] ELSE <<x, y>>
  OBVIOUS
<1>6. <<x, y>> \in Nat \X Nat /\ <<x, y>>[1] = x /\ <<x, y>>[2] = y
  OBVIOUS
<1> QED BY <1>5, <1>6

\* The walk before its second node.
Start(m, n, x) ==
  LET start == AfterOnes[<<m - 1, n - 1>>]
  IN [fn |-> start[1], sn |-> start[2], ok |-> TRUE, fr |-> x, sr |-> x]

LEMMA WalkRounds ==
  ASSUME NEW m, NEW n, NEW c, Len(c) \in Nat, Len(c) >= 1
  PROVE  \E w : /\ Walk(m, n, c) = w[Len(c)] /\ w[1] = Start(m, n, c[1])
                /\ \A i \in 1..(Len(c) - 1) : w[i + 1] = VerifyNode(w[i], c[i + 1])
<1> DEFINE N == Len(c)
           Body(f, i) == IF i = 1 THEN Start(m, n, c[1]) ELSE VerifyNode(f[i - 1], c[i])
           Solves(f) == f = [i \in 1..N |-> Body(f, i)]
           Up(f, k) == \A i \in 1..N : i <= k => f[i] = Body(f, i)
           T == {k \in Nat : \E f : Up(f, k)}
<1>1. 0 \in T
  <2> DEFINE f == [i \in 1..N |-> i]
  <2>1. Up(f, 0)
    OBVIOUS
  <2> HIDE DEF f, Up
  <2> QED BY <2>1
<1>2. ASSUME NEW k \in Nat, k \in T PROVE k + 1 \in T
  <2>1. PICK f : Up(f, k)
    BY <1>2
  <2> DEFINE g == [i \in 1..N |-> IF i <= k THEN f[i] ELSE Body(f, i)]
  <2>2. ASSUME NEW i \in 1..N, i <= k + 1 PROVE g[i] = Body(g, i)
    <3>1. CASE i = 1
      BY <2>1, <3>1
    <3>2. CASE i # 1
      <4>1. i - 1 \in 1..N /\ i - 1 <= k
        BY <2>2, <3>2
      <4>2. g[i - 1] = f[i - 1]
        BY <4>1
      <4>3. g[i] = Body(f, i)
        <5> HIDE DEF Body
        <5> QED BY <2>1
      <4> QED BY <3>2, <4>2, <4>3
    <3> QED BY <3>1, <3>2
  <2> HIDE DEF g, Body
  <2>3. Up(g, k + 1)
    BY <2>2
  <2> HIDE DEF Up
  <2> QED BY <2>3
<1> HIDE DEF T
<1>3. N \in T
  BY <1>1, <1>2, StepInduction
<1>4. PICK f : Up(f, N)
  BY <1>3 DEF T
<1> DEFINE h == [i \in 1..N |-> f[i]]
<1>5. \A i \in 1..N : h[i] = Body(h, i)
  <2> SUFFICES ASSUME NEW i \in 1..N PROVE h[i] = Body(h, i)
    OBVIOUS
  <2>1. f[i] = Body(f, i)
    <3> HIDE DEF Body
    <3> QED BY <1>4
  <2>2. CASE i = 1
    BY <2>1, <2>2
  <2>3. CASE i # 1
    <3>1. i - 1 \in 1..N
      BY <2>3
    <3> QED BY <2>1, <2>3, <3>1
  <2> QED BY <2>2, <2>3
<1>6. Solves(h)
  <2>1. h = [i \in 1..N |-> h[i]]
    OBVIOUS
  <2> HIDE DEF h, Body
  <2> QED BY <1>5, <2>1
<1> DEFINE w == CHOOSE g : Solves(g)
<1>7. Walk(m, n, c) = w[N]
  BY DEF Walk, Start
<1> HIDE DEF h
<1>8. Solves(w)
  <2> HIDE DEF Solves
  <2> QED BY <1>6
<1> HIDE DEF w
<1>9. \A i \in 1..N : w[i] = Body(w, i)
  <2> HIDE DEF Body
  <2> QED BY <1>8
<1>10. w[1] = Start(m, n, c[1])
  BY <1>9
<1>11. \A i \in 1..(N - 1) : w[i + 1] = VerifyNode(w[i], c[i + 1])
  <2> TAKE i \in 1..(N - 1)
  <2>1. i + 1 \in 1..N /\ i + 1 # 1 /\ (i + 1) - 1 = i
    OBVIOUS
  <2> QED BY <1>9, <2>1
<1> QED BY <1>7, <1>10, <1>11

LEMMA WalkOne ==
  ASSUME NEW m, NEW n, NEW S, NEW c \in Seq(S), Len(c) = 1
  PROVE  Walk(m, n, c) = Start(m, n, c[1])
<1>1. Len(c) \in Nat /\ Len(c) >= 1
  OBVIOUS
<1>2. PICK w : Walk(m, n, c) = w[Len(c)] /\ w[1] = Start(m, n, c[1])
  BY <1>1, WalkRounds
<1> QED BY <1>2

\* One node more is one round of the loop more.
LEMMA WalkAppend ==
  ASSUME NEW m, NEW n, NEW S, NEW c \in Seq(S), Len(c) >= 1, NEW y \in S
  PROVE  Walk(m, n, Append(c, y)) = VerifyNode(Walk(m, n, c), y)
<1> DEFINE N == Len(c)
           d == Append(c, y)
<1>1. N \in Nat /\ Len(d) = N + 1 /\ d[N + 1] = y /\ \A i \in 1..N : d[i] = c[i]
  OBVIOUS
<1> HIDE DEF d
<1>2. PICK w : /\ Walk(m, n, c) = w[N] /\ w[1] = Start(m, n, c[1])
               /\ \A i \in 1..(N - 1) : w[i + 1] = VerifyNode(w[i], c[i + 1])
  BY <1>1, WalkRounds
<1>3. PICK v : /\ Walk(m, n, d) = v[N + 1] /\ v[1] = Start(m, n, d[1])
               /\ \A i \in 1..N : v[i + 1] = VerifyNode(v[i], d[i + 1])
  <2>1. Len(d) - 1 = N /\ Len(d) \in Nat /\ Len(d) >= 1
    BY <1>1
  <2>2. \E v : /\ Walk(m, n, d) = v[Len(d)] /\ v[1] = Start(m, n, d[1])
               /\ \A i \in 1..(Len(d) - 1) : v[i + 1] = VerifyNode(v[i], d[i + 1])
    BY <2>1, WalkRounds
  <2> QED BY <1>1, <2>1, <2>2
<1> DEFINE T == {k \in Nat : k + 1 <= N => v[k + 1] = w[k + 1]}
<1>4. 0 \in T
  BY <1>1, <1>2, <1>3
<1>5. ASSUME NEW k \in Nat, k \in T PROVE k + 1 \in T
  <2> SUFFICES ASSUME (k + 1) + 1 <= N PROVE v[(k + 1) + 1] = w[(k + 1) + 1]
    OBVIOUS
  <2>1. k + 1 \in 1..(N - 1) /\ k + 1 \in 1..N /\ (k + 1) + 1 \in 1..N
    BY <1>1
  <2>2. v[k + 1] = w[k + 1] /\ d[(k + 1) + 1] = c[(k + 1) + 1]
    BY <1>1, <1>5, <2>1
  <2> QED BY <1>2, <1>3, <2>1, <2>2
<1> HIDE DEF T
<1>6. N - 1 \in T
  <2>1. N - 1 \in Nat
    BY <1>1
  <2>2. \A k \in Nat : k \in T
    BY <1>4, <1>5, StepInduction
  <2> HIDE DEF N
  <2> QED BY <2>1, <2>2
<1>7. v[N] = w[N]
  BY <1>1, <1>6 DEF T
<1>8. v[N + 1] = VerifyNode(v[N], d[N + 1])
  BY <1>1, <1>3
<1> QED BY <1>1, <1>2, <1>3, <1>7, <1>8 DEF d

\* A sequence of several members is one with its last member put to the rest.
LEMMA LastIsApart ==
  ASSUME NEW S, NEW c \in Seq(S), Len(c) > 1
  PROVE  \E d \in Seq(S), y \in S : c = Append(d, y) /\ Len(d) = Len(c) - 1
<1> DEFINE N == Len(c)
           d == SubSeq(c, 1, N - 1)
<1>1. N \in Nat /\ N - 1 \in Nat /\ c[N] \in S
  OBVIOUS
<1>2. d \in Seq(S) /\ Len(d) = N - 1 /\ \A i \in 1..(N - 1) : d[i] = c[i]
  BY <1>1, FirstMembers
<1> HIDE DEF d
<1>3. /\ Append(d, c[N]) \in Seq(S) /\ Len(Append(d, c[N])) = N
      /\ \A i \in 1..N : Append(d, c[N])[i] = c[i]
  BY <1>1, <1>2
<1>4. Append(d, c[N]) = c
  BY <1>1, <1>3
<1> QED BY <1>1, <1>2, <1>4

\* A statement about the sequences that are not empty, from one member on.
LEMMA SequenceInduction ==
  ASSUME NEW S, NEW T, \A x \in S : <<x>> \in T,
         \A c \in Seq(S), y \in S : Len(c) >= 1 /\ c \in T => Append(c, y) \in T
  PROVE  \A c \in Seq(S) : Len(c) >= 1 => c \in T
<1> DEFINE P == {n \in Nat : \A c \in Seq(S) : Len(c) = n + 1 => c \in T}
<1>1. 0 \in P
  <2> SUFFICES ASSUME NEW c \in Seq(S), Len(c) = 1 PROVE c \in T
    OBVIOUS
  <2>1. c = <<c[1]>> /\ c[1] \in S
    OBVIOUS
  <2> QED BY <2>1
<1>2. ASSUME NEW n \in Nat, n \in P PROVE n + 1 \in P
  <2> SUFFICES ASSUME NEW c \in Seq(S), Len(c) = (n + 1) + 1 PROVE c \in T
    OBVIOUS
  <2>1. PICK d \in Seq(S), y \in S : c = Append(d, y) /\ Len(d) = n + 1
    BY LastIsApart
  <2>2. d \in T
    BY <1>2, <2>1
  <2> QED BY <2>1, <2>2
<1> HIDE DEF P
<1>3. \A n \in Nat : n \in P
  BY <1>1, <1>2, StepInduction
<1> SUFFICES ASSUME NEW c \in Seq(S), Len(c) >= 1 PROVE c \in T
  OBVIOUS
<1>4. Len(c) - 1 \in Nat /\ Len(c) = (Len(c) - 1) + 1
  OBVIOUS
<1> QED BY <1>3, <1>4 DEF P

-----------------------------------------------------------------------------
(* Two walks side by side: that in a tree and that in the half of it which *)
(* the old tree's last leaf is in.  d, a power of two, is how many leaves  *)
(* the left half still has at the level the walks have come to.            *)

\* A power of two that is not 1 is even, and its half is a power of two.
LEMMA HalvesOfPowers ==
  ASSUME NEW d \in Powers
  PROVE  /\ d \in Nat \ {0}
         /\ d # 1 => \E q \in Powers : d = 2 * q /\ q \in Nat \ {0} /\ q < d
<1>1. d \in Nat \ {0}
  BY PowersDouble
<1>2. ASSUME d # 1 PROVE \E q \in Powers : d = 2 * q /\ q \in Nat \ {0} /\ q < d
  <2>1. PICK q \in Powers : d = 2 * q
    BY <1>2, PowersDouble
  <2>2. q \in Nat \ {0}
    BY PowersDouble
  <2> QED BY <2>1, <2>2
<1> QED BY <1>1, <1>2

LEMMA OnesComplete == \A d \in Powers : AfterOnes[<<d - 1, d - 1>>] = <<0, 0>>
<1> DEFINE T == {x \in Nat : \A d \in Powers : x = d - 1 => AfterOnes[<<x, x>>] = <<0, 0>>}
<1>1. ASSUME NEW x \in Nat, \A m \in Nat : m < x => m \in T PROVE x \in T
  <2>1. ASSUME NEW d \in Powers, x = d - 1 PROVE AfterOnes[<<x, x>>] = <<0, 0>>
    <3>1. d \in Nat \ {0} /\ (d # 1 => \E q \in Powers : d = 2 * q /\ q \in Nat \ {0} /\ q < d)
      BY HalvesOfPowers
    <3>2. AfterOnes[<<x, x>>]
            = IF Odd(x) THEN AfterOnes[<<x \div 2, x \div 2>>] ELSE <<x, x>>
      BY AfterOnesIs
    <3>3. CASE d = 1
      BY <2>1, <3>2, <3>3 DEF Odd
    <3>4. CASE d # 1
      <4>1. PICK q \in Powers : d = 2 * q /\ q \in Nat \ {0} /\ q < d
        BY <3>1, <3>4
      <4>2. Odd(x) /\ x \div 2 = q - 1 /\ q - 1 \in Nat /\ q - 1 < x
        BY <2>1, <4>1 DEF Odd
      <4>3. AfterOnes[<<q - 1, q - 1>>] = <<0, 0>>
        BY <1>1, <4>2
      <4> QED BY <3>2, <4>2, <4>3
    <3> QED BY <3>3, <3>4
  <2> QED BY <2>1
<1> HIDE DEF T
<1>2. \A x \in Nat : x \in T
  BY <1>1, Induction
<1> SUFFICES ASSUME NEW d \in Powers PROVE AfterOnes[<<d - 1, d - 1>>] = <<0, 0>>
  OBVIOUS
<1>3. d - 1 \in Nat
  BY HalvesOfPowers
<1> QED BY <1>2, <1>3 DEF T

\* In the left half, the old tree's last leaf is where it is in the tree.
OnesOfLeft(x, d, z) ==
  \E e \in Powers, u, v \in Nat :
    /\ AfterOnes[<<x, d - 1>>] = <<u, e - 1>> /\ AfterOnes[<<x, z>>] = <<u, v>>
    /\ u < e /\ e <= v /\ v < 2 * e

LEMMA OnesLeft ==
  \A x \in Nat : \A d \in Powers, z \in Nat :
    x < d /\ d <= z /\ z < 2 * d => OnesOfLeft(x, d, z)
<1> DEFINE T == {x \in Nat : \A d \in Powers, z \in Nat :
                   x < d /\ d <= z /\ z < 2 * d => OnesOfLeft(x, d, z)}
<1>1. ASSUME NEW x \in Nat, \A m \in Nat : m < x => m \in T PROVE x \in T
  <2>1. ASSUME NEW d \in Powers, NEW z \in Nat, x < d, d <= z, z < 2 * d PROVE OnesOfLeft(x, d, z)
    <3>1. d \in Nat \ {0} /\ (d # 1 => \E q \in Powers : d = 2 * q /\ q \in Nat \ {0} /\ q < d)
      BY HalvesOfPowers
    <3>2. d - 1 \in Nat
      BY <3>1
    <3>3. /\ AfterOnes[<<x, d - 1>>]
               = IF Odd(x) THEN AfterOnes[<<x \div 2, (d - 1) \div 2>>] ELSE <<x, d - 1>>
          /\ AfterOnes[<<x, z>>]
               = IF Odd(x) THEN AfterOnes[<<x \div 2, z \div 2>>] ELSE <<x, z>>
      BY <3>2, AfterOnesIs
    <3>4. CASE ~Odd(x)
      BY <2>1, <3>3, <3>4 DEF OnesOfLeft
    <3>5. CASE Odd(x)
      <4>1. d # 1 /\ x # 0
        BY <2>1, <3>5 DEF Odd
      <4>2. PICK q \in Powers : d = 2 * q /\ q \in Nat \ {0} /\ q < d
        BY <3>1, <4>1
      <4>3. /\ (d - 1) \div 2 = q - 1 /\ x \div 2 \in Nat /\ z \div 2 \in Nat
            /\ x \div 2 < x /\ x \div 2 < q /\ q <= z \div 2 /\ z \div 2 < 2 * q
        BY <2>1, <4>1, <4>2
      <4>4. OnesOfLeft(x \div 2, q, z \div 2)
        <5>1. x \div 2 \in T
          BY <1>1, <4>3
        <5> QED BY <4>3, <5>1
      <4> QED BY <3>3, <3>5, <4>3, <4>4 DEF OnesOfLeft
    <3> QED BY <3>4, <3>5
  <2> QED BY <2>1
<1>2. \A x \in Nat : x \in T
  <2> HIDE DEF T
  <2> QED BY <1>1, Induction
<1> QED BY <1>2

\* In the right half, both sizes lack the leaves of the left one.
OnesOfRight(x, d, y) ==
  \E e \in Powers, u, v \in Nat :
    /\ AfterOnes[<<x, y>>] = <<u, v>> /\ AfterOnes[<<x + d, y + d>>] = <<u + e, v + e>>
    /\ u < v /\ v < e

LEMMA OnesRight ==
  \A x \in Nat : \A d \in Powers, y \in Nat : x < y /\ y < d => OnesOfRight(x, d, y)
<1> DEFINE T == {x \in Nat : \A d \in Powers, y \in Nat : x < y /\ y < d => OnesOfRight(x, d, y)}
<1>1. ASSUME NEW x \in Nat, \A m \in Nat : m < x => m \in T PROVE x \in T
  <2>1. ASSUME NEW d \in Powers, NEW y \in Nat, x < y, y < d PROVE OnesOfRight(x, d, y)
    <3>1. d \in Nat \ {0} /\ d # 1
      BY <2>1, HalvesOfPowers
    <3>2. PICK q \in Powers : d = 2 * q /\ q \in Nat \ {0} /\ q < d
      BY <3>1, HalvesOfPowers
    <3>3. x + d \in Nat /\ y + d \in Nat
      BY <3>1
    <3>4. /\ AfterOnes[<<x, y>>]
               = IF Odd(x) THEN AfterOnes[<<x \div 2, y \div 2>>] ELSE <<x, y>>
          /\ AfterOnes[<<x + d, y + d>>]
               = IF Odd(x + d) THEN AfterOnes[<<(x + d) \div 2, (y + d) \div 2>>]
                 ELSE <<x + d, y + d>>
      BY <3>3, AfterOnesIs
    <3>5. /\ Odd(x + d) <=> Odd(x)
          /\ (x + d) \div 2 = x \div 2 + q /\ (y + d) \div 2 = y \div 2 + q
      BY <3>2 DEF Odd
    <3>6. CASE ~Odd(x)
      BY <2>1, <3>4, <3>5, <3>6 DEF OnesOfRight
    <3>7. CASE Odd(x)
      <4>1. /\ x \div 2 \in Nat /\ y \div 2 \in Nat /\ x \div 2 < x
            /\ x \div 2 < y \div 2 /\ y \div 2 < q
        BY <2>1, <3>2, <3>7 DEF Odd
      <4>2. OnesOfRight(x \div 2, q, y \div 2)
        <5>1. x \div 2 \in T
          BY <1>1, <4>1
        <5> QED BY <3>2, <4>1, <5>1
      <4> QED BY <3>4, <3>5, <3>7, <4>2 DEF OnesOfRight
    <3> QED BY <3>6, <3>7
  <2> QED BY <2>1
<1>2. \A x \in Nat : x \in T
  <2> HIDE DEF T
  <2> QED BY <1>1, Induction
<1> QED BY <1>2

\* The zeros that a node of the right half closes are the same in both trees.
ZerosOfRight(x, d, y) ==
  \E e \in Powers, u, v \in Nat :
    /\ AfterZeros[<<x, y>>] = <<u, v>> /\ AfterZeros[<<x + d, y + d>>] = <<u + e, v + e>>
    /\ u # 0 /\ u <= v /\ v < e

LEMMA ZerosTogether ==
  \A x \in Nat : \A d \in Powers, y \in Nat :
    x # 0 /\ x <= y /\ y < d /\ (Odd(x) \/ x = y) => ZerosOfRight(x, d, y)
<1> DEFINE T == {x \in Nat : \A d \in Powers, y \in Nat :
                   x # 0 /\ x <= y /\ y < d /\ (Odd(x) \/ x = y) => ZerosOfRight(x, d, y)}
<1>1. ASSUME NEW x \in Nat, \A m \in Nat : m < x => m \in T PROVE x \in T
  <2>1. ASSUME NEW d \in Powers, NEW y \in Nat, x # 0, x <= y, y < d, Odd(x) \/ x = y
        PROVE  ZerosOfRight(x, d, y)
    <3>1. d \in Nat \ {0} /\ d # 1
      BY <2>1, HalvesOfPowers
    <3>2. PICK q \in Powers : d = 2 * q /\ q \in Nat \ {0} /\ q < d
      BY <3>1, HalvesOfPowers
    <3>3. x + d \in Nat /\ y + d \in Nat /\ x + d # 0
      BY <3>1
    <3>4. /\ AfterZeros[<<x, y>>]
               = IF ~Odd(x) THEN AfterZeros[<<x \div 2, y \div 2>>] ELSE <<x, y>>
          /\ AfterZeros[<<x + d, y + d>>]
               = IF ~Odd(x + d) THEN AfterZeros[<<(x + d) \div 2, (y + d) \div 2>>]
                 ELSE <<x + d, y + d>>
      BY <2>1, <3>3, AfterZerosIs
    <3>5. /\ Odd(x + d) <=> Odd(x)
          /\ (x + d) \div 2 = x \div 2 + q /\ (y + d) \div 2 = y \div 2 + q
      BY <3>2 DEF Odd
    <3>6. CASE Odd(x)
      BY <2>1, <3>4, <3>5, <3>6 DEF ZerosOfRight
    <3>7. CASE ~Odd(x)
      <4>1. /\ x \div 2 \in Nat /\ y \div 2 \in Nat /\ x \div 2 < x
            /\ x \div 2 # 0 /\ x \div 2 = y \div 2 /\ y \div 2 < q
        BY <2>1, <3>2, <3>7 DEF Odd
      <4>2. ZerosOfRight(x \div 2, q, y \div 2)
        <5>1. x \div 2 \in T
          BY <1>1, <4>1
        <5>2. x \div 2 <= y \div 2
          BY <4>1
        <5> QED BY <3>2, <4>1, <5>1, <5>2
      <4> QED BY <3>4, <3>5, <3>7, <4>2 DEF ZerosOfRight
    <3> QED BY <3>6, <3>7
  <2> QED BY <2>1
<1>2. \A x \in Nat : x \in T
  <2> HIDE DEF T
  <2> QED BY <1>1, Induction
<1> QED BY <1>2

LEMMA ZerosOfPower == \A d \in Powers : AfterZeros[<<d, d>>] = <<1, 1>>
<1> DEFINE T == {x \in Nat : x \in Powers => AfterZeros[<<x, x>>] = <<1, 1>>}
<1>1. ASSUME NEW x \in Nat, \A m \in Nat : m < x => m \in T PROVE x \in T
  <2>1. ASSUME x \in Powers PROVE AfterZeros[<<x, x>>] = <<1, 1>>
    <3>1. AfterZeros[<<x, x>>]
            = IF x # 0 /\ ~Odd(x) THEN AfterZeros[<<x \div 2, x \div 2>>] ELSE <<x, x>>
      BY AfterZerosIs
    <3>2. CASE x = 1
      BY <3>1, <3>2 DEF Odd
    <3>3. CASE x # 1
      <4>1. PICK q \in Powers : x = 2 * q /\ q \in Nat \ {0} /\ q < x
        BY <2>1, <3>3, HalvesOfPowers
      <4>2. x # 0 /\ ~Odd(x) /\ x \div 2 = q /\ q \in Nat
        BY <4>1 DEF Odd
      <4>3. AfterZeros[<<q, q>>] = <<1, 1>>
        BY <1>1, <4>1, <4>2
      <4> QED BY <3>1, <4>2, <4>3
    <3> QED BY <3>2, <3>3
  <2> QED BY <2>1
<1> HIDE DEF T
<1>2. \A x \in Nat : x \in T
  BY <1>1, Induction
<1> SUFFICES ASSUME NEW d \in Powers PROVE AfterZeros[<<d, d>>] = <<1, 1>>
  OBVIOUS
<1>3. d \in Nat
  BY HalvesOfPowers
<1> QED BY <1>2, <1>3 DEF T

IsState(s) ==
  /\ s = [fn |-> s.fn, sn |-> s.sn, ok |-> s.ok, fr |-> s.fr, sr |-> s.sr]
  /\ s.ok \in BOOLEAN

\* What one node does to a state.
LEMMA VerifyNodeIs ==
  ASSUME NEW s, IsState(s), NEW y
  PROVE  /\ IsState(VerifyNode(s, y))
         /\ ~s.ok \/ s.sn = 0 => ~VerifyNode(s, y).ok
         /\ s.ok /\ s.sn # 0 /\ (Odd(s.fn) \/ s.fn = s.sn) =>
              VerifyNode(s, y) = [fn |-> AfterZeros[<<s.fn, s.sn>>][1] \div 2,
                                  sn |-> AfterZeros[<<s.fn, s.sn>>][2] \div 2, ok |-> TRUE,
                                  fr |-> NodeHash(y, s.fr), sr |-> NodeHash(y, s.sr)]
         /\ s.ok /\ s.sn # 0 /\ ~(Odd(s.fn) \/ s.fn = s.sn) =>
              VerifyNode(s, y) = [fn |-> s.fn \div 2, sn |-> s.sn \div 2, ok |-> TRUE,
                                  fr |-> s.fr, sr |-> NodeHash(s.sr, y)]
<1> DEFINE F == s.fn
           N == s.sn
           A == s.fr
           B == s.sr
<1>1. CASE ~s.ok \/ s.sn = 0
  <2>1. VerifyNode(s, y) = [fn |-> F, sn |-> N, ok |-> FALSE, fr |-> A, sr |-> B]
    BY <1>1 DEF VerifyNode, IsState
  <2> QED BY <1>1, <2>1 DEF IsState
<1>2. CASE s.ok /\ s.sn # 0 /\ (Odd(s.fn) \/ s.fn = s.sn)
  <2>1. VerifyNode(s, y) = [fn |-> AfterZeros[<<F, N>>][1] \div 2,
                            sn |-> AfterZeros[<<F, N>>][2] \div 2, ok |-> TRUE,
                            fr |-> NodeHash(y, A), sr |-> NodeHash(y, B)]
    BY <1>2 DEF VerifyNode
  <2> QED BY <1>2, <2>1 DEF IsState
<1>3. CASE s.ok /\ s.sn # 0 /\ ~(Odd(s.fn) \/ s.fn = s.sn)
  <2>1. VerifyNode(s, y) = [fn |-> F \div 2, sn |-> N \div 2, ok |-> TRUE,
                            fr |-> A, sr |-> NodeHash(B, y)]
    BY <1>3 DEF VerifyNode, IsState
  <2> QED BY <1>3, <2>1 DEF IsState
<1> QED BY <1>1, <1>2, <1>3 DEF IsState

\* The state of a walk in a tree, and that of the walk with the same nodes in the
\* half of it.
InLeftHalf(whole, half, d) ==
  /\ whole.fn = half.fn /\ half.fn < d
  /\ half.sn = d - 1 /\ d <= whole.sn /\ whole.sn < 2 * d

InRightHalf(whole, half, d) ==
  /\ whole.fn = half.fn + d /\ half.fn <= half.sn
  /\ half.sn < d /\ whole.sn = half.sn + d

Beside(left, whole, half, d) ==
  /\ IsState(whole) /\ IsState(half) /\ whole.ok /\ half.ok
  /\ whole.fr = half.fr /\ whole.sr = half.sr
  /\ whole.fn \in Nat /\ half.fn \in Nat /\ whole.sn \in Nat /\ half.sn \in Nat
  /\ IF left THEN InLeftHalf(whole, half, d) ELSE InRightHalf(whole, half, d)

OldJoined(left, fr, y) == IF left THEN fr ELSE NodeHash(y, fr)
NewJoined(left, sr, y) == IF left THEN NodeHash(sr, y) ELSE NodeHash(y, sr)

\* As long as the half goes on, the tree goes on as it does.
LEMMA BesideGoesOn ==
  ASSUME NEW left \in BOOLEAN, NEW whole, NEW half, NEW d \in Powers,
         Beside(left, whole, half, d), half.sn # 0, NEW y
  PROVE  \E e \in Powers : Beside(left, VerifyNode(whole, y), VerifyNode(half, y), e)
<1>1. /\ IsState(whole) /\ IsState(half) /\ whole.ok /\ half.ok
      /\ whole.fr = half.fr /\ whole.sr = half.sr
      /\ whole.fn \in Nat /\ half.fn \in Nat /\ whole.sn \in Nat /\ half.sn \in Nat
  BY DEF Beside
<1> DEFINE W == VerifyNode(whole, y)
           H == VerifyNode(half, y)
<1>2. d \in Nat \ {0} /\ d # 1
  BY <1>1, HalvesOfPowers DEF Beside, InLeftHalf, InRightHalf
<1>3. PICK q \in Powers : d = 2 * q /\ q \in Nat \ {0} /\ q < d
  BY <1>2, HalvesOfPowers
<1>4. whole.sn # 0
  BY <1>1, <1>2 DEF Beside, InLeftHalf, InRightHalf
<1>5. /\ Odd(whole.fn) <=> Odd(half.fn)
      /\ (Odd(whole.fn) \/ whole.fn = whole.sn) <=> (Odd(half.fn) \/ half.fn = half.sn)
  BY <1>1, <1>3 DEF Beside, InLeftHalf, InRightHalf, Odd
<1>6. CASE ~(Odd(half.fn) \/ half.fn = half.sn)
  <2>1. /\ H = [fn |-> half.fn \div 2, sn |-> half.sn \div 2, ok |-> TRUE,
                fr |-> half.fr, sr |-> NodeHash(half.sr, y)]
        /\ W = [fn |-> whole.fn \div 2, sn |-> whole.sn \div 2, ok |-> TRUE,
                fr |-> whole.fr, sr |-> NodeHash(whole.sr, y)]
    BY <1>1, <1>4, <1>5, <1>6, VerifyNodeIs
  <2>2. /\ half.fn \div 2 \in Nat /\ half.sn \div 2 \in Nat
        /\ whole.fn \div 2 \in Nat /\ whole.sn \div 2 \in Nat
    BY <1>1
  <2> HIDE DEF H, W
  <2>3. CASE left
    <3>1. InLeftHalf(whole, half, d)
      BY <2>3 DEF Beside
    <3>2. InLeftHalf(W, H, q)
      BY <1>1, <1>3, <2>1, <3>1 DEF InLeftHalf
    <3> QED BY <1>1, <2>1, <2>2, <2>3, <3>2 DEF Beside, IsState, H, W
  <2>4. CASE ~left
    <3>1. InRightHalf(whole, half, d)
      BY <2>4 DEF Beside
    <3>2. InRightHalf(W, H, q)
      BY <1>1, <1>3, <2>1, <3>1 DEF InRightHalf
    <3> QED BY <1>1, <2>1, <2>2, <2>4, <3>2 DEF Beside, IsState, H, W
  <2> QED BY <2>3, <2>4
<1>7. CASE Odd(half.fn) \/ half.fn = half.sn
  <2> DEFINE hz == AfterZeros[<<half.fn, half.sn>>]
             wz == AfterZeros[<<whole.fn, whole.sn>>]
  <2>1. /\ H = [fn |-> hz[1] \div 2, sn |-> hz[2] \div 2, ok |-> TRUE,
                fr |-> NodeHash(y, half.fr), sr |-> NodeHash(y, half.sr)]
        /\ W = [fn |-> wz[1] \div 2, sn |-> wz[2] \div 2, ok |-> TRUE,
                fr |-> NodeHash(y, whole.fr), sr |-> NodeHash(y, whole.sr)]
    BY <1>1, <1>4, <1>5, <1>7, VerifyNodeIs
  <2>2. CASE left
    <3>1. InLeftHalf(whole, half, d)
      BY <2>2 DEF Beside
    <3>2. Odd(half.fn) /\ Odd(whole.fn)
      BY <1>1, <1>3, <1>5, <1>7, <3>1 DEF InLeftHalf, Odd
    <3>3. hz = <<half.fn, half.sn>> /\ wz = <<whole.fn, whole.sn>>
      BY <1>1, <3>2, AfterZerosIs
    <3> HIDE DEF H, W, hz, wz
    <3>4. /\ H.fn = half.fn \div 2 /\ H.sn = half.sn \div 2
          /\ W.fn = whole.fn \div 2 /\ W.sn = whole.sn \div 2
      BY <2>1, <3>3
    <3>5. InLeftHalf(W, H, q)
      BY <1>1, <1>3, <3>1, <3>4 DEF InLeftHalf
    <3>6. H.fn \in Nat /\ H.sn \in Nat /\ W.fn \in Nat /\ W.sn \in Nat
      BY <1>1, <3>4
    <3> QED BY <1>1, <2>1, <2>2, <3>5, <3>6 DEF Beside, IsState, H, W
  <2>3. CASE ~left
    <3>1. InRightHalf(whole, half, d)
      BY <2>3 DEF Beside
    <3>2. half.fn # 0
      BY <1>1, <1>7, <3>1 DEF InRightHalf, Odd
    <3>3. ZerosOfRight(half.fn, d, half.sn)
      BY <1>1, <1>7, <3>1, <3>2, ZerosTogether DEF InRightHalf
    <3>4. PICK e \in Powers, u, v \in Nat :
            hz = <<u, v>> /\ wz = <<u + e, v + e>> /\ u # 0 /\ u <= v /\ v < e
      BY <3>1, <3>3 DEF ZerosOfRight, InRightHalf
    <3>5. PICK p \in Powers : e = 2 * p /\ p \in Nat \ {0}
      BY <3>4, HalvesOfPowers
    <3> HIDE DEF H, W, hz, wz
    <3>6. /\ H.fn = u \div 2 /\ H.sn = v \div 2
          /\ W.fn = (u + e) \div 2 /\ W.sn = (v + e) \div 2
      BY <2>1, <3>4
    <3>7. InRightHalf(W, H, p)
      BY <3>4, <3>5, <3>6 DEF InRightHalf
    <3>8. H.fn \in Nat /\ H.sn \in Nat /\ W.fn \in Nat /\ W.sn \in Nat
      BY <3>4, <3>5, <3>6
    <3> QED BY <1>1, <2>1, <2>3, <3>7, <3>8 DEF Beside, IsState, H, W
  <2> QED BY <2>2, <2>3
<1> QED BY <1>6, <1>7

\* When the half is complete one node more joins it with the other half, and that
\* completes the tree.
LEMMA BesideEnds ==
  ASSUME NEW left \in BOOLEAN, NEW whole, NEW half, NEW d \in Powers,
         Beside(left, whole, half, d), half.sn = 0, NEW y
  PROVE  /\ ~VerifyNode(half, y).ok
         /\ VerifyNode(whole, y) = [fn |-> 0, sn |-> 0, ok |-> TRUE,
                                    fr |-> OldJoined(left, half.fr, y),
                                    sr |-> NewJoined(left, half.sr, y)]
<1>1. /\ IsState(whole) /\ IsState(half) /\ whole.ok /\ half.ok
      /\ whole.fr = half.fr /\ whole.sr = half.sr
      /\ whole.fn \in Nat /\ half.fn \in Nat /\ whole.sn \in Nat /\ half.sn \in Nat
  BY DEF Beside
<1>2. d \in Nat \ {0}
  BY HalvesOfPowers
<1>3. ~VerifyNode(half, y).ok
  BY <1>1, VerifyNodeIs
<1>4. CASE left
  <2>1. whole.fn = 0 /\ whole.sn = 1
    BY <1>1, <1>2, <1>4 DEF Beside, InLeftHalf
  <2>2. ~(Odd(whole.fn) \/ whole.fn = whole.sn)
    BY <2>1 DEF Odd
  <2>3. VerifyNode(whole, y) = [fn |-> whole.fn \div 2, sn |-> whole.sn \div 2, ok |-> TRUE,
                                fr |-> whole.fr, sr |-> NodeHash(whole.sr, y)]
    BY <1>1, <2>1, <2>2, VerifyNodeIs
  <2>4. whole.fn \div 2 = 0 /\ whole.sn \div 2 = 0
    BY <2>1
  <2> QED BY <1>1, <1>3, <1>4, <2>3, <2>4 DEF OldJoined, NewJoined
<1>5. CASE ~left
  <2>1. whole.fn = d /\ whole.sn = d
    BY <1>1, <1>2, <1>5 DEF Beside, InRightHalf
  <2>2. AfterZeros[<<whole.fn, whole.sn>>] = <<1, 1>>
    BY <2>1, ZerosOfPower
  <2>3. VerifyNode(whole, y) = [fn |-> AfterZeros[<<whole.fn, whole.sn>>][1] \div 2,
                                sn |-> AfterZeros[<<whole.fn, whole.sn>>][2] \div 2, ok |-> TRUE,
                                fr |-> NodeHash(y, whole.fr), sr |-> NodeHash(y, whole.sr)]
    BY <1>1, <1>2, <2>1, VerifyNodeIs
  <2>4. VerifyNode(whole, y) = [fn |-> 0, sn |-> 0, ok |-> TRUE,
                                fr |-> NodeHash(y, whole.fr), sr |-> NodeHash(y, whole.sr)]
    <3>1. <<1, 1>>[1] \div 2 = 0 /\ <<1, 1>>[2] \div 2 = 0
      OBVIOUS
    <3> QED BY <2>2, <2>3, <3>1
  <2> QED BY <1>1, <1>3, <1>5, <2>4 DEF OldJoined, NewJoined
<1> QED BY <1>4, <1>5

\* The tree of n leaves cut at its split point: which half the m-th leaf is in,
\* which leaf of that half it is, and how many the half has.
GoesLeft(m, n)  == m <= SplitPoint(n)
HalfOld(m, n)   == IF GoesLeft(m, n) THEN m ELSE m - SplitPoint(n)
HalfNew(m, n)   == IF GoesLeft(m, n) THEN SplitPoint(n) ELSE n - SplitPoint(n)

Together(left, whole, half) ==
  \/ \E d \in Powers : Beside(left, whole, half, d)
  \/ IsState(whole) /\ IsState(half) /\ ~half.ok /\ (whole.ok => whole.sn = 0)

LEMMA StartIs ==
  \A m, n, x : /\ IsState(Start(m, n, x)) /\ Start(m, n, x).ok
               /\ Start(m, n, x).fn = AfterOnes[<<m - 1, n - 1>>][1]
               /\ Start(m, n, x).sn = AfterOnes[<<m - 1, n - 1>>][2]
               /\ Start(m, n, x).fr = x /\ Start(m, n, x).sr = x
BY DEF Start, IsState

LEMMA StartTogether ==
  ASSUME NEW m \in Nat \ {0}, NEW n \in Nat, m < n, NEW x
  PROVE  Together(GoesLeft(m, n), Start(m, n, x), Start(HalfOld(m, n), HalfNew(m, n), x))
<1> DEFINE k == SplitPoint(n)
<1>1. k \in Powers /\ k < n /\ n <= 2 * k
  BY SplitPointIsPower
<1>2. k \in Nat \ {0} /\ m - 1 \in Nat /\ n - 1 \in Nat
  BY <1>1, HalvesOfPowers
<1> HIDE DEF k
<1>3. CASE m <= k
  <2>1. GoesLeft(m, n) /\ HalfOld(m, n) = m /\ HalfNew(m, n) = k
    BY <1>3 DEF GoesLeft, HalfOld, HalfNew, k
  <2>2. m - 1 < k /\ k <= n - 1 /\ n - 1 < 2 * k
    BY <1>1, <1>2, <1>3
  <2> DEFINE a == m - 1
             z == n - 1
             s == Start(m, n, x)
             t == Start(m, k, x)
  <2>a. OnesOfLeft(a, k, z)
    <3>1. a \in Nat /\ z \in Nat /\ a < k /\ k <= z /\ z < 2 * k
      BY <1>2, <2>2
    <3> HIDE DEF a, z
    <3> QED BY <1>1, <3>1, OnesLeft
  <2>3. PICK e \in Powers, u, v \in Nat :
          /\ AfterOnes[<<m - 1, k - 1>>] = <<u, e - 1>>
          /\ AfterOnes[<<m - 1, n - 1>>] = <<u, v>>
          /\ u < e /\ e <= v /\ v < 2 * e
    BY <2>a DEF OnesOfLeft
  <2>4. /\ IsState(s) /\ s.ok /\ s.fn = u /\ s.sn = v /\ s.fr = x /\ s.sr = x
        /\ IsState(t) /\ t.ok /\ t.fn = u /\ t.sn = e - 1 /\ t.fr = x /\ t.sr = x
    <3>2. /\ IsState(s) /\ s.ok /\ s.fr = x /\ s.sr = x
          /\ IsState(t) /\ t.ok /\ t.fr = x /\ t.sr = x
      BY StartIs
    <3>3. s.fn = AfterOnes[<<m - 1, n - 1>>][1] /\ s.sn = AfterOnes[<<m - 1, n - 1>>][2]
      BY DEF Start
    <3>4. t.fn = AfterOnes[<<m - 1, k - 1>>][1] /\ t.sn = AfterOnes[<<m - 1, k - 1>>][2]
      BY DEF Start
    <3> HIDE DEF s, t
    <3> QED BY <2>3, <3>2, <3>3, <3>4
  <2> HIDE DEF s, t
  <2>5. e - 1 \in Nat
    BY <2>3, HalvesOfPowers
  <2>6. InLeftHalf(s, t, e)
    BY <2>3, <2>4 DEF InLeftHalf
  <2>7. Beside(TRUE, s, t, e)
    BY <2>3, <2>4, <2>5, <2>6 DEF Beside
  <2>8. Beside(GoesLeft(m, n), s, t, e)
    BY <2>1, <2>7 DEF Beside
  <2> QED BY <2>1, <2>3, <2>8 DEF Together, s, t
<1>4. CASE ~ (m <= k)
  <2>1. ~GoesLeft(m, n) /\ HalfOld(m, n) = m - k /\ HalfNew(m, n) = n - k
    BY <1>4 DEF GoesLeft, HalfOld, HalfNew, k
  <2> DEFINE a == m - k - 1
             b == n - k - 1
  <2>2. /\ a \in Nat /\ b \in Nat /\ a < b /\ b < k /\ a + k = m - 1 /\ b + k = n - 1
        /\ (m - k) - 1 = a /\ (n - k) - 1 = b
    BY <1>1, <1>2, <1>4
  <2> HIDE DEF a, b
  <2>3. OnesOfRight(a, k, b)
    BY <1>1, <2>2, OnesRight
  <2>4. PICK e \in Powers, u, v \in Nat :
          /\ AfterOnes[<<a, b>>] = <<u, v>>
          /\ AfterOnes[<<m - 1, n - 1>>] = <<u + e, v + e>>
          /\ u < v /\ v < e
    BY <2>2, <2>3 DEF OnesOfRight
  <2> DEFINE s == Start(m, n, x)
             t == Start(m - k, n - k, x)
  <2>5. /\ IsState(s) /\ s.ok /\ s.fn = u + e /\ s.sn = v + e /\ s.fr = x /\ s.sr = x
        /\ IsState(t) /\ t.ok /\ t.fn = u /\ t.sn = v /\ t.fr = x /\ t.sr = x
    <3>1. AfterOnes[<<(m - k) - 1, (n - k) - 1>>] = <<u, v>>
      BY <2>2, <2>4
    <3>2. AfterOnes[<<m - 1, n - 1>>] = <<u + e, v + e>>
      BY <2>4
    <3>3. /\ IsState(s) /\ s.ok /\ s.fr = x /\ s.sr = x
          /\ IsState(t) /\ t.ok /\ t.fr = x /\ t.sr = x
      BY StartIs
    <3>4. s.fn = AfterOnes[<<m - 1, n - 1>>][1] /\ s.sn = AfterOnes[<<m - 1, n - 1>>][2]
      BY DEF Start
    <3>5. /\ t.fn = AfterOnes[<<(m - k) - 1, (n - k) - 1>>][1]
          /\ t.sn = AfterOnes[<<(m - k) - 1, (n - k) - 1>>][2]
      BY DEF Start
    <3> HIDE DEF s, t
    <3> QED BY <3>1, <3>2, <3>3, <3>4, <3>5
  <2> HIDE DEF s, t
  <2>6. e \in Nat
    BY <2>4, HalvesOfPowers
  <2>7. InRightHalf(s, t, e)
    BY <2>4, <2>5, <2>6 DEF InRightHalf
  <2>8. Beside(GoesLeft(m, n), s, t, e)
    BY <2>1, <2>4, <2>5, <2>6, <2>7 DEF Beside
  <2> QED BY <2>1, <2>4, <2>8 DEF Together, s, t
<1> QED BY <1>3, <1>4

LEMMA StepTogether ==
  ASSUME NEW left \in BOOLEAN, NEW whole, NEW half, Together(left, whole, half), NEW y
  PROVE  Together(left, VerifyNode(whole, y), VerifyNode(half, y))
<1>1. CASE \E d \in Powers : Beside(left, whole, half, d)
  <2>1. PICK d \in Powers : Beside(left, whole, half, d)
    BY <1>1
  <2>2. CASE half.sn # 0
    <3>1. \E e \in Powers : Beside(left, VerifyNode(whole, y), VerifyNode(half, y), e)
      BY <2>1, <2>2, BesideGoesOn
    <3> QED BY <3>1 DEF Together
  <2>3. CASE half.sn = 0
    <3>1. /\ ~VerifyNode(half, y).ok
          /\ VerifyNode(whole, y) = [fn |-> 0, sn |-> 0, ok |-> TRUE,
                                     fr |-> OldJoined(left, half.fr, y),
                                     sr |-> NewJoined(left, half.sr, y)]
      BY <2>1, <2>3, BesideEnds
    <3>2. IsState(VerifyNode(whole, y)) /\ IsState(VerifyNode(half, y))
      BY <2>1, VerifyNodeIs DEF Beside
    <3>3. VerifyNode(whole, y).sn = 0
      BY <3>1
    <3> QED BY <3>1, <3>2, <3>3 DEF Together
  <2> QED BY <2>2, <2>3
<1>2. CASE IsState(whole) /\ IsState(half) /\ ~half.ok /\ (whole.ok => whole.sn = 0)
  <2>1. /\ IsState(VerifyNode(whole, y)) /\ IsState(VerifyNode(half, y))
        /\ ~VerifyNode(half, y).ok /\ ~VerifyNode(whole, y).ok
    BY <1>2, VerifyNodeIs
  <2> QED BY <2>1 DEF Together
<1> QED BY <1>1, <1>2 DEF Together

LEMMA WalkTogether ==
  ASSUME NEW m \in Nat \ {0}, NEW n \in Nat, m < n, NEW S, NEW c \in Seq(S), Len(c) >= 1
  PROVE  Together(GoesLeft(m, n), Walk(m, n, c), Walk(HalfOld(m, n), HalfNew(m, n), c))
<1> DEFINE left == GoesLeft(m, n)
           p == HalfOld(m, n)
           q == HalfNew(m, n)
           T == {d \in Seq(S) : Together(left, Walk(m, n, d), Walk(p, q, d))}
<1>1. left \in BOOLEAN
  BY DEF GoesLeft
<1>2. \A x \in S : Together(left, Start(m, n, x), Start(p, q, x))
  BY StartTogether
<1> HIDE DEF left, p, q
<1>3. \A x \in S : <<x>> \in T
  <2> TAKE x \in S
  <2>1. <<x>> \in Seq(S) /\ Len(<<x>>) = 1 /\ <<x>>[1] = x
    OBVIOUS
  <2>2. Walk(m, n, <<x>>) = Start(m, n, x) /\ Walk(p, q, <<x>>) = Start(p, q, x)
    BY <2>1, WalkOne
  <2> QED BY <1>2, <2>1, <2>2
<1>4. ASSUME NEW d \in Seq(S), NEW y \in S, Len(d) >= 1, d \in T PROVE Append(d, y) \in T
  <2>1. /\ Walk(m, n, Append(d, y)) = VerifyNode(Walk(m, n, d), y)
        /\ Walk(p, q, Append(d, y)) = VerifyNode(Walk(p, q, d), y)
    BY <1>4, WalkAppend
  <2>2. Together(left, Walk(m, n, d), Walk(p, q, d))
    BY <1>4
  <2>3. Together(left, VerifyNode(Walk(m, n, d), y), VerifyNode(Walk(p, q, d), y))
    BY <1>1, <2>2, StepTogether
  <2>4. Append(d, y) \in Seq(S)
    OBVIOUS
  <2> QED BY <2>1, <2>3, <2>4
<1> HIDE DEF T
<1>5. c \in T
  BY <1>3, <1>4, SequenceInduction
<1> QED BY <1>5 DEF T, left, p, q

\* The walk gets exactly to the root of the new tree, with these two roots.
Ends(m, n, c, fr, sr) ==
  LET end == Walk(m, n, c) IN end.ok /\ end.sn = 0 /\ end.fr = fr /\ end.sr = sr

\* It does not with one node only, and the last node of several joins the two
\* halves of the tree.
LEMMA EndsByHalves ==
  ASSUME NEW m \in Nat \ {0}, NEW n \in Nat, m < n, NEW S, NEW c \in Seq(S), Len(c) >= 1
  PROVE  /\ Len(c) = 1 => \A fr, sr : ~Ends(m, n, c, fr, sr)
         /\ \A y \in S : \A fr, sr : Ends(m, n, Append(c, y), fr, sr) <=>
              \E hf, hs : /\ Ends(HalfOld(m, n), HalfNew(m, n), c, hf, hs)
                          /\ fr = OldJoined(GoesLeft(m, n), hf, y)
                          /\ sr = NewJoined(GoesLeft(m, n), hs, y)
<1> DEFINE left == GoesLeft(m, n)
           p == HalfOld(m, n)
           q == HalfNew(m, n)
           whole == Walk(m, n, c)
           half == Walk(p, q, c)
<1>1. left \in BOOLEAN
  BY DEF GoesLeft
<1>2. Together(left, whole, half)
  BY WalkTogether
<1>3. ASSUME Len(c) = 1, NEW fr, NEW sr PROVE ~Ends(m, n, c, fr, sr)
  <2>1. whole = Start(m, n, c[1]) /\ half = Start(p, q, c[1])
    BY <1>3, WalkOne
  <2>2. half.ok
    BY <2>1 DEF Start
  <2>3. PICK d \in Powers : Beside(left, whole, half, d)
    BY <1>2, <2>2 DEF Together
  <2>4. d \in Nat \ {0}
    BY HalvesOfPowers
  <2> HIDE DEF whole, half, left
  <2>5. whole.sn # 0
    BY <2>3, <2>4 DEF Beside, InLeftHalf, InRightHalf
  <2> QED BY <2>5 DEF Ends, whole
<1>4. ASSUME NEW y \in S, NEW fr, NEW sr
      PROVE  Ends(m, n, Append(c, y), fr, sr) <=>
               \E hf, hs : /\ Ends(p, q, c, hf, hs)
                           /\ fr = OldJoined(left, hf, y) /\ sr = NewJoined(left, hs, y)
  <2> DEFINE W == Walk(m, n, Append(c, y))
  <2>1. W = VerifyNode(whole, y)
    BY WalkAppend
  <2> HIDE DEF W, whole, left, p, q, half
  <2>2. Ends(m, n, Append(c, y), fr, sr) <=> W.ok /\ W.sn = 0 /\ W.fr = fr /\ W.sr = sr
    BY DEF Ends, W
  <2>3. (\E hf, hs : /\ Ends(p, q, c, hf, hs)
                     /\ fr = OldJoined(left, hf, y) /\ sr = NewJoined(left, hs, y))
          <=> half.ok /\ half.sn = 0 /\ fr = OldJoined(left, half.fr, y)
                /\ sr = NewJoined(left, half.sr, y)
    BY DEF Ends, half
  <2>4. CASE \E d \in Powers : Beside(left, whole, half, d)
    <3>1. PICK d \in Powers : Beside(left, whole, half, d)
      BY <2>4
    <3>2. CASE half.sn # 0
      <4>1. PICK e \in Powers : Beside(left, W, VerifyNode(half, y), e)
        BY <1>1, <2>1, <3>1, <3>2, BesideGoesOn
      <4>2. e \in Nat \ {0}
        BY HalvesOfPowers
      <4>3. W.sn # 0
        BY <4>1, <4>2 DEF Beside, InLeftHalf, InRightHalf
      <4> QED BY <2>2, <2>3, <3>2, <4>3
    <3>3. CASE half.sn = 0
      <4>1. W = [fn |-> 0, sn |-> 0, ok |-> TRUE, fr |-> OldJoined(left, half.fr, y),
                 sr |-> NewJoined(left, half.sr, y)]
        BY <1>1, <2>1, <3>1, <3>3, BesideEnds
      <4>2. half.ok
        BY <3>1 DEF Beside
      <4>3. W.ok /\ W.sn = 0 /\ W.fr = OldJoined(left, half.fr, y)
              /\ W.sr = NewJoined(left, half.sr, y)
        BY <4>1
      <4> QED BY <2>2, <2>3, <3>3, <4>2, <4>3
    <3> QED BY <3>2, <3>3
  <2>5. CASE IsState(whole) /\ IsState(half) /\ ~half.ok /\ (whole.ok => whole.sn = 0)
    <3>1. ~W.ok
      BY <2>1, <2>5, VerifyNodeIs
    <3> QED BY <2>2, <2>3, <2>5, <3>1
  <2> QED BY <1>2, <2>4, <2>5 DEF Together
<1> QED BY <1>3, <1>4

\* Between a complete tree and itself: one node, which is its root.
LEMMA EndsComplete ==
  ASSUME NEW n \in Powers, NEW S, NEW c \in Seq(S), Len(c) >= 1, NEW fr, NEW sr
  PROVE  Ends(n, n, c, fr, sr) <=> Len(c) = 1 /\ fr = c[1] /\ sr = c[1]
<1> DEFINE P(d) == LET end == Walk(n, n, d)
                   IN IsState(end) /\ IF Len(d) = 1 THEN end.sn = 0 ELSE ~end.ok
           T == {d \in Seq(S) : P(d)}
<1>1. \A x : /\ IsState(Start(n, n, x)) /\ Start(n, n, x).ok /\ Start(n, n, x).sn = 0
             /\ Start(n, n, x).fr = x /\ Start(n, n, x).sr = x
  <2>1. AfterOnes[<<n - 1, n - 1>>] = <<0, 0>>
    BY OnesComplete
  <2> QED BY <2>1, StartIs
<1>2. \A x \in S : <<x>> \in T
  <2> TAKE x \in S
  <2>1. <<x>> \in Seq(S) /\ Len(<<x>>) = 1 /\ <<x>>[1] = x
    OBVIOUS
  <2>2. Walk(n, n, <<x>>) = Start(n, n, x)
    BY <2>1, WalkOne
  <2>3. P(<<x>>)
    BY <1>1, <2>1, <2>2
  <2> HIDE DEF P
  <2> QED BY <2>1, <2>3
<1>3. ASSUME NEW d \in Seq(S), NEW y \in S, Len(d) >= 1, d \in T PROVE Append(d, y) \in T
  <2>1. Walk(n, n, Append(d, y)) = VerifyNode(Walk(n, n, d), y)
    BY <1>3, WalkAppend
  <2>a. P(d)
    <3> HIDE DEF P
    <3> QED BY <1>3
  <2>2. IsState(Walk(n, n, d)) /\ (~Walk(n, n, d).ok \/ Walk(n, n, d).sn = 0)
    BY <2>a
  <2>3. IsState(Walk(n, n, Append(d, y))) /\ ~Walk(n, n, Append(d, y)).ok
    BY <2>1, <2>2, VerifyNodeIs
  <2>4. Append(d, y) \in Seq(S) /\ Len(Append(d, y)) > 1
    BY <1>3
  <2>5. P(Append(d, y))
    BY <2>3, <2>4
  <2> HIDE DEF P
  <2> QED BY <2>4, <2>5
<1>4. P(c)
  <2> HIDE DEF P
  <2>1. c \in T
    <3> HIDE DEF T
    <3> QED BY <1>2, <1>3, SequenceInduction
  <2> QED BY <2>1
<1>5. CASE Len(c) = 1
  <2>1. Walk(n, n, c) = Start(n, n, c[1])
    BY <1>5, WalkOne
  <2> QED BY <1>1, <1>5, <2>1 DEF Ends
<1>6. CASE Len(c) # 1
  <2>1. ~Walk(n, n, c).ok
    BY <1>4, <1>6
  <2> QED BY <1>6, <2>1 DEF Ends
<1> QED BY <1>5, <1>6

-----------------------------------------------------------------------------
(* The proof itself: the nodes of a run asked about, value[r] being what   *)
(* is given for a run r, its root or its place.                            *)

ProofBody(value, f, q) ==
  IF q.old >= Size(q.of) THEN IF q.complete THEN <<>> ELSE <<value[q.of]>>
  ELSE IF InLeft(q) THEN Append(f[LeftAsked(q)], value[RightHalf(q.of)])
  ELSE Append(f[RightAsked(q)], value[LeftHalf(q.of)])

\* A question about a part of a run leads to one about the half it ends in.
LEMMA QuestionHalves ==
  ASSUME NEW n \in Nat, NEW q \in Questions(n), q.old < Size(q.of)
  PROVE  /\ Size(q.of) \in Nat /\ Size(q.of) > 1 /\ q.old \in Nat \ {0} /\ q.of \in Spans(n)
         /\ LeftHalf(q.of) \in Spans(n) /\ RightHalf(q.of) \in Spans(n)
         /\ InLeft(q) => LeftAsked(q) \in Questions(n)
                         /\ Size(LeftAsked(q).of) \in Nat /\ Size(LeftAsked(q).of) < Size(q.of)
         /\ ~InLeft(q) => RightAsked(q) \in Questions(n)
                          /\ Size(RightAsked(q).of) \in Nat /\ Size(RightAsked(q).of) < Size(q.of)
<1>1. q.old \in 1..n /\ q.of \in Spans(n) /\ q.complete \in BOOLEAN
  BY DEF Questions
<1>2. Size(q.of) \in Int
  BY <1>1, SpanIn
<1>3. Size(q.of) > 1 /\ Size(q.of) \in Nat
  BY <1>1, <1>2
<1> DEFINE k == SplitPoint(Size(q.of))
<1>4. /\ LeftHalf(q.of) \in Spans(n) /\ RightHalf(q.of) \in Spans(n)
      /\ Size(LeftHalf(q.of)) = k /\ Size(RightHalf(q.of)) = Size(q.of) - k
      /\ k \in 1..(Size(q.of) - 1)
  BY <1>1, <1>3, Halves
<1> HIDE DEF k
<1>5. ASSUME InLeft(q)
      PROVE  LeftAsked(q) \in Questions(n) /\ LeftAsked(q).of = LeftHalf(q.of)
  BY <1>1, <1>4 DEF LeftAsked, Asked, Questions
<1>6. ASSUME ~InLeft(q)
      PROVE  RightAsked(q) \in Questions(n) /\ RightAsked(q).of = RightHalf(q.of)
  <2>1. q.old - k \in 1..n
    BY <1>1, <1>4, <1>6 DEF InLeft, k
  <2> QED BY <1>4, <2>1 DEF RightAsked, Asked, Questions, k
<1> QED BY <1>1, <1>3, <1>4, <1>5, <1>6

LEMMA ProofExists ==
  ASSUME NEW n \in Nat, NEW value
  PROVE  \E f : f = [q \in Questions(n) |-> ProofBody(value, f, q)]
<1> DEFINE Solves(f, z) == \A q \in Questions(n) : Size(q.of) <= z => f[q] = ProofBody(value, f, q)
           T == {z \in Nat : \E f : Solves(f, z)}
<1>1. \A q \in Questions(n) : q.old \in Nat \ {0} /\ Size(q.of) \in Int /\ Size(q.of) <= n
  <2> TAKE q \in Questions(n)
  <2>1. q.old \in 1..n /\ q.of \in Spans(n)
    BY DEF Questions
  <2> QED BY <2>1, SpanIn
<1>2. 0 \in T
  <2> DEFINE f == [q \in Questions(n) |-> ProofBody(value, 0, q)]
  <2>1. ASSUME NEW q \in Questions(n), Size(q.of) <= 0 PROVE f[q] = ProofBody(value, f, q)
    <3>1. q.old >= Size(q.of)
      BY <1>1, <2>1
    <3>2. f[q] = ProofBody(value, 0, q)
      OBVIOUS
    <3> HIDE DEF f
    <3> QED BY <3>1, <3>2 DEF ProofBody
  <2> HIDE DEF f
  <2>2. Solves(f, 0)
    BY <2>1
  <2> HIDE DEF Solves
  <2> QED BY <2>2
<1>3. ASSUME NEW z \in Nat, z \in T PROVE z + 1 \in T
  <2>1. PICK f : Solves(f, z)
    BY <1>3
  <2> DEFINE g == [q \in Questions(n) |-> ProofBody(value, f, q)]
  <2>2. ASSUME NEW p \in Questions(n), Size(p.of) <= z PROVE g[p] = f[p]
    <3> HIDE DEF g
    <3>1. g[p] = ProofBody(value, f, p)
      BY DEF g
    <3> QED BY <2>1, <2>2, <3>1
  <2>3. ASSUME NEW q \in Questions(n), Size(q.of) <= z + 1 PROVE g[q] = ProofBody(value, g, q)
    <3>1. g[q] = ProofBody(value, f, q)
      OBVIOUS
    <3> HIDE DEF g
    <3>2. CASE q.old >= Size(q.of)
      BY <3>1, <3>2 DEF ProofBody
    <3>3. CASE q.old < Size(q.of) /\ InLeft(q)
      <4>1. /\ LeftAsked(q) \in Questions(n) /\ Size(LeftAsked(q).of) \in Nat
            /\ Size(LeftAsked(q).of) < Size(q.of) /\ Size(q.of) \in Nat /\ q.old \in Nat
        BY <3>3, QuestionHalves
      <4>2. g[LeftAsked(q)] = f[LeftAsked(q)]
        BY <2>2, <2>3, <4>1
      <4>3. ~(q.old >= Size(q.of))
        BY <3>3, <4>1
      <4> QED BY <3>1, <3>3, <4>2, <4>3 DEF ProofBody
    <3>4. CASE q.old < Size(q.of) /\ ~InLeft(q)
      <4>1. /\ RightAsked(q) \in Questions(n) /\ Size(RightAsked(q).of) \in Nat
            /\ Size(RightAsked(q).of) < Size(q.of) /\ Size(q.of) \in Nat /\ q.old \in Nat
        BY <3>4, QuestionHalves
      <4>2. g[RightAsked(q)] = f[RightAsked(q)]
        BY <2>2, <2>3, <4>1
      <4>3. ~(q.old >= Size(q.of))
        BY <3>4, <4>1
      <4> QED BY <3>1, <3>4, <4>2, <4>3 DEF ProofBody
    <3> QED BY <1>1, <3>2, <3>3, <3>4
  <2> HIDE DEF g
  <2>4. Solves(g, z + 1)
    BY <2>3
  <2> HIDE DEF Solves
  <2> QED BY <2>4
<1>4. n \in T
  <2> HIDE DEF T
  <2> QED BY <1>2, <1>3, StepInduction
<1>5. PICK f : Solves(f, n)
  BY <1>4
<1> DEFINE g == [q \in Questions(n) |-> f[q]]
<1>6. ASSUME NEW q \in Questions(n) PROVE g[q] = ProofBody(value, g, q)
  <2>1. g[q] = f[q] /\ f[q] = ProofBody(value, f, q)
    BY <1>1, <1>5
  <2>2. \A p \in Questions(n) : g[p] = f[p]
    OBVIOUS
  <2> HIDE DEF g
  <2>3. CASE q.old >= Size(q.of)
    BY <2>1, <2>3 DEF ProofBody
  <2>4. CASE ~(q.old >= Size(q.of))
    <3>1. q.old < Size(q.of)
      BY <1>1, <2>4
    <3>2. /\ InLeft(q) => LeftAsked(q) \in Questions(n)
          /\ ~InLeft(q) => RightAsked(q) \in Questions(n)
      BY <3>1, QuestionHalves
    <3> QED BY <2>1, <2>2, <2>4, <3>2 DEF ProofBody
  <2> QED BY <2>3, <2>4
<1>7. g = [q \in Questions(n) |-> g[q]]
  OBVIOUS
<1> HIDE DEF g
<1> QED BY <1>6, <1>7

LEMMA SubproofsDef ==
  ASSUME NEW log, Len(log) \in Nat, NEW q \in Questions(Len(log))
  PROVE  Subproofs(log)[q] = ProofBody(Roots(log), Subproofs(log), q)
<1>1. Subproofs(log) = [p \in Questions(Len(log)) |->
                             ProofBody(Roots(log), Subproofs(log), p)]
  BY ProofExists DEF Subproofs, ProofBody
<1> QED BY <1>1

\* The root of the first leaves of a run, when they are more than its left half.
LEMMA FirstLeavesRoot ==
  ASSUME NEW log, Len(log) \in Nat, NEW r \in Spans(Len(log)), NEW m \in Nat,
         Size(r) > 1, SplitPoint(Size(r)) < m, m <= Size(r)
  PROVE  /\ Span(r.from, r.from + m) \in Spans(Len(log))
         /\ Roots(log)[Span(r.from, r.from + m)]
              = NodeHash(Roots(log)[LeftHalf(r)],
                         Roots(log)[Span(Cut(r), Cut(r) + (m - SplitPoint(Size(r)))) ])
<1> DEFINE k == SplitPoint(Size(r))
           s == Span(r.from, r.from + m)
<1>1. /\ k \in Powers /\ k \in 1..(Size(r) - 1) /\ Size(r) <= 2 * k
      /\ r.from \in Nat /\ r.to \in Nat /\ Cut(r) = r.from + k /\ Size(r) = r.to - r.from
      /\ r.to <= Len(log)
  <2>1. r.to \in 0..Len(log)
    BY SpanIn
  <2> QED BY <2>1, Halves DEF Cut, Size
<1> HIDE DEF k
<1>a. k < m
  BY DEF k
<1>2. /\ s \in Spans(Len(log)) /\ Size(s) = m /\ s.from = r.from /\ s.to = r.from + m
  BY <1>1, <1>a DEF Spans, Span, Size
<1> HIDE DEF s
<1>3. SplitPoint(m) = k
  BY <1>1, <1>a, SplitPointOnly
<1>4. Cut(s) = Cut(r)
  BY <1>1, <1>2, <1>3 DEF Cut
<1>5. LeftHalf(s) = LeftHalf(r) /\ RightHalf(s) = Span(Cut(r), Cut(r) + (m - k))
  BY <1>1, <1>2, <1>4 DEF LeftHalf, RightHalf, Span
<1>6. ~(Size(s) <= 1)
  BY <1>1, <1>a, <1>2
<1>7. Roots(log)[s] = NodeHash(Roots(log)[LeftHalf(s)], Roots(log)[RightHalf(s)])
  BY <1>2, <1>6, RootsDef DEF RootBody
<1> QED BY <1>2, <1>5, <1>7 DEF s, k

Hashes(log)       == {Roots(log)[r] : r \in Spans(Len(log))}
PathOf(log, m, r) == Subproofs(log)[Asked(m, r, FALSE)]

\* The walk over the path ends in the roots of the first m leaves of the run and of
\* all of them, and no other sequence over S leads to the root of the run.
LeadsToRoot(log, m, r) ==
  /\ PathOf(log, m, r) \in Seq(Hashes(log)) /\ Len(PathOf(log, m, r)) >= 1
  /\ Ends(m, Size(r), PathOf(log, m, r),
          Roots(log)[Span(r.from, r.from + m)], Roots(log)[r])

NoOtherDoes(log, S, m, r) ==
  \A c \in Seq(S) : \A fr :
    Len(c) >= 1 /\ Ends(m, Size(r), c, fr, Roots(log)[r]) => c = PathOf(log, m, r)

TruePath(log, S, m, r) == LeadsToRoot(log, m, r) /\ NoOtherDoes(log, S, m, r)

LEMMA CompletePath ==
  ASSUME NEW S, NEW log, Len(log) \in Nat, NEW r \in Spans(Len(log)),
         Size(r) \in Powers
  PROVE  PathOf(log, Size(r), r) = <<Roots(log)[r]>> /\ TruePath(log, S, Size(r), r)
<1> DEFINE n == Size(r)
           x == Roots(log)[r]
           q == Asked(n, r, FALSE)
<1>1. /\ n \in Nat \ {0} /\ n <= Len(log) /\ n = r.to - r.from
      /\ r.from \in 0..Len(log) /\ r.to \in 0..Len(log) /\ r = Span(r.from, r.to)
  BY HalvesOfPowers, SpanIn DEF Size
<1>2. q \in Questions(Len(log)) /\ q.old = n /\ q.of = r /\ ~q.complete
  BY <1>1 DEF Questions, Asked
<1>3. Subproofs(log)[q] = <<x>>
  <2> HIDE DEF q
  <2>1. Subproofs(log)[q] = ProofBody(Roots(log), Subproofs(log), q)
    BY <1>2, SubproofsDef
  <2>2. q.old >= Size(q.of)
    BY <1>1, <1>2
  <2> QED BY <1>2, <2>1, <2>2 DEF ProofBody
<1>4. PathOf(log, n, r) = <<x>>
  BY <1>3 DEF PathOf
<1>5. Span(r.from, r.from + n) = r
  BY <1>1 DEF Span
<1>6. x \in Hashes(log) /\ <<x>> \in Seq(Hashes(log)) /\ Len(<<x>>) = 1 /\ <<x>>[1] = x
  BY DEF Hashes
<1> HIDE DEF x
<1>7. Ends(n, n, <<x>>, x, x)
  <2> DEFINE c == <<x>>
  <2>1. c \in Seq(Hashes(log)) /\ Len(c) = 1 /\ c[1] = x /\ n \in Powers
    BY <1>6
  <2> HIDE DEF c, n
  <2>2. Ends(n, n, c, x, x)
    BY <2>1, EndsComplete
  <2> QED BY <2>2 DEF c
<1>8. LeadsToRoot(log, n, r)
  BY <1>4, <1>5, <1>6, <1>7 DEF LeadsToRoot, x
<1>9. ASSUME NEW c \in Seq(S), NEW fr, Len(c) >= 1, Ends(n, n, c, fr, x)
      PROVE  c = <<x>>
  <2>1. Len(c) = 1 /\ x = c[1]
    BY <1>9, EndsComplete
  <2> QED BY <2>1
<1>10. NoOtherDoes(log, S, n, r)
  BY <1>4, <1>9 DEF NoOtherDoes, x
<1> QED BY <1>4, <1>8, <1>10 DEF TruePath, x

\* The path of a part of a run is that of the half it ends in, and the root of the
\* other half.
LEMMA PathByHalves ==
  ASSUME NEW log, Len(log) \in Nat, NEW r \in Spans(Len(log)),
         NEW m \in Nat \ {0}, m < Size(r)
  PROVE  LET left  == GoesLeft(m, Size(r))
             half  == IF left THEN LeftHalf(r) ELSE RightHalf(r)
             other == IF left THEN RightHalf(r) ELSE LeftHalf(r)
             p     == HalfOld(m, Size(r))
         IN /\ left \in BOOLEAN /\ half \in Spans(Len(log)) /\ other \in Spans(Len(log))
            /\ Size(half) = HalfNew(m, Size(r)) /\ Size(half) \in Nat /\ Size(half) < Size(r)
            /\ p \in Nat \ {0}
            /\ p < Size(half) \/ (p = Size(half) /\ p \in Powers)
            /\ PathOf(log, m, r) = Append(PathOf(log, p, half), Roots(log)[other])
            /\ Roots(log)[r] = NewJoined(left, Roots(log)[half], Roots(log)[other])
            /\ Roots(log)[Span(r.from, r.from + m)]
                 = OldJoined(left, Roots(log)[Span(half.from, half.from + p)],
                             Roots(log)[other])
<1> DEFINE n == Size(r)
           k == SplitPoint(n)
           left == GoesLeft(m, n)
           half == IF left THEN LeftHalf(r) ELSE RightHalf(r)
           other == IF left THEN RightHalf(r) ELSE LeftHalf(r)
           p == HalfOld(m, n)
           q == Asked(m, r, FALSE)
<1>1. n \in Nat /\ n > 1 /\ n <= Len(log)
  BY SpanIn
<1>2. /\ LeftHalf(r) \in Spans(Len(log)) /\ RightHalf(r) \in Spans(Len(log))
      /\ Size(LeftHalf(r)) = k /\ Size(RightHalf(r)) = n - k
      /\ k \in Powers /\ k \in 1..(n - 1) /\ n <= 2 * k
      /\ LeftHalf(r).from = r.from /\ RightHalf(r).from = Cut(r)
  BY <1>1, Halves DEF RightHalf, Span
<1> HIDE DEF k
<1>3. left \in BOOLEAN
  BY DEF GoesLeft
<1>4. Size(half) = HalfNew(m, n) /\ Size(half) \in Nat /\ Size(half) < n
  BY <1>1, <1>2 DEF HalfNew, k
<1>5. p \in Nat \ {0} /\ (p < Size(half) \/ (p = Size(half) /\ p \in Powers))
  BY <1>1, <1>2 DEF HalfOld, GoesLeft, k
<1>6. q \in Questions(Len(log)) /\ q.old = m /\ q.of = r /\ ~q.complete
      /\ q.complete = FALSE
  BY <1>1 DEF Questions, Asked
<1>7. PathOf(log, m, r) = Append(PathOf(log, p, half), Roots(log)[other])
  <2> HIDE DEF q
  <2>1. Subproofs(log)[q] = ProofBody(Roots(log), Subproofs(log), q)
    BY <1>6, SubproofsDef
  <2>2. ~(q.old >= Size(q.of))
    BY <1>1, <1>6
  <2>3. InLeft(q) <=> left
    BY <1>6 DEF InLeft, GoesLeft
  <2>4. CASE left
    <3>1. LeftAsked(q) = Asked(p, half, FALSE)
      BY <1>6, <2>4 DEF LeftAsked, HalfOld
    <3> QED BY <1>6, <2>1, <2>2, <2>3, <2>4, <3>1 DEF ProofBody, PathOf, q
  <2>5. CASE ~left
    <3>1. RightAsked(q) = Asked(p, half, FALSE)
      BY <1>6, <2>5 DEF RightAsked, HalfOld
    <3> QED BY <1>6, <2>1, <2>2, <2>3, <2>5, <3>1 DEF ProofBody, PathOf, q
  <2> QED BY <2>4, <2>5
<1>8. Roots(log)[r] = NewJoined(left, Roots(log)[half], Roots(log)[other])
  <2>1. Roots(log)[r] = NodeHash(Roots(log)[LeftHalf(r)], Roots(log)[RightHalf(r)])
    BY <1>1, RootsDef DEF RootBody
  <2> QED BY <2>1 DEF NewJoined
<1>9. Roots(log)[Span(r.from, r.from + m)]
        = OldJoined(left, Roots(log)[Span(half.from, half.from + p)], Roots(log)[other])
  <2>1. CASE left
    BY <1>2, <2>1 DEF OldJoined, HalfOld
  <2>2. CASE ~left
    <3>1. k < m /\ p = m - k
      BY <1>2, <2>2 DEF GoesLeft, HalfOld, k
    <3>2. Roots(log)[Span(r.from, r.from + m)]
            = NodeHash(Roots(log)[LeftHalf(r)], Roots(log)[Span(Cut(r), Cut(r) + (m - k))])
      BY <1>1, <3>1, FirstLeavesRoot DEF k
    <3> QED BY <1>2, <2>2, <3>1, <3>2 DEF OldJoined
  <2> QED BY <2>1, <2>2
<1>10. half \in Spans(Len(log)) /\ other \in Spans(Len(log))
  BY <1>2
<1> QED BY <1>3, <1>4, <1>5, <1>7, <1>8, <1>9, <1>10

LEMMA TruePaths ==
  ASSUME NEW S, NEW log, Len(log) \in Nat
  PROVE  \A r \in Spans(Len(log)), m \in Nat \ {0} :
           m < Size(r) \/ (m = Size(r) /\ m \in Powers) => TruePath(log, S, m, r)
<1> DEFINE Good(m, r) == m < Size(r) \/ (m = Size(r) /\ m \in Powers)
           T == {n \in Nat : \A r \in Spans(Len(log)), m \in Nat \ {0} :
                   Size(r) = n /\ Good(m, r) => TruePath(log, S, m, r)}
<1>1. ASSUME NEW n \in Nat, \A j \in Nat : j < n => j \in T PROVE n \in T
  <2>1. ASSUME NEW r \in Spans(Len(log)), NEW m \in Nat \ {0}, Size(r) = n, Good(m, r)
        PROVE  TruePath(log, S, m, r)
    <3>1. CASE m = Size(r)
      BY <2>1, <3>1, CompletePath
    <3>2. CASE m # Size(r)
      <4> DEFINE left == GoesLeft(m, n)
                 half == IF left THEN LeftHalf(r) ELSE RightHalf(r)
                 other == IF left THEN RightHalf(r) ELSE LeftHalf(r)
                 p == HalfOld(m, n)
                 y == Roots(log)[other]
                 x == Roots(log)[half]
                 old == Roots(log)[Span(half.from, half.from + p)]
                 path == PathOf(log, p, half)
                 H == Hashes(log)
      <4>1. m < n
        BY <2>1, <3>2
      <4>2. /\ left \in BOOLEAN /\ half \in Spans(Len(log)) /\ other \in Spans(Len(log))
            /\ Size(half) = HalfNew(m, n) /\ Size(half) \in Nat /\ Size(half) < n
            /\ p \in Nat \ {0} /\ Good(p, half)
            /\ PathOf(log, m, r) = Append(path, y)
            /\ Roots(log)[r] = NewJoined(left, x, y)
            /\ Roots(log)[Span(r.from, r.from + m)] = OldJoined(left, old, y)
        BY <2>1, <4>1, PathByHalves
      <4> HIDE DEF left, half, other, p
      <4>3. TruePath(log, S, p, half)
        <5>1. Size(half) \in T
          BY <1>1, <4>2
        <5> HIDE DEF Good
        <5> QED BY <4>2, <5>1
      <4>4. /\ path \in Seq(H) /\ Len(path) >= 1
            /\ Ends(p, HalfNew(m, n), path, old, x)
            /\ NoOtherDoes(log, S, p, half)
        BY <4>2, <4>3 DEF TruePath, LeadsToRoot
      <4>5. y \in H
        BY <4>2 DEF Hashes
      <4> HIDE DEF path, old, x, y, H, Good
      <4>6. Append(path, y) \in Seq(H) /\ Len(Append(path, y)) >= 1
        BY <4>4, <4>5
      <4>7. Ends(m, n, Append(path, y), OldJoined(left, old, y), NewJoined(left, x, y))
        BY <1>1, <4>1, <4>4, <4>5, EndsByHalves DEF left, p
      <4>8. LeadsToRoot(log, m, r)
        BY <2>1, <4>2, <4>6, <4>7 DEF LeadsToRoot, H
      <4>9. ASSUME NEW c \in Seq(S), NEW fr, Len(c) >= 1,
                   Ends(m, n, c, fr, NewJoined(left, x, y))
            PROVE  c = Append(path, y)
        <5>1. Len(c) # 1
          BY <1>1, <4>1, <4>9, EndsByHalves
        <5>a. Len(c) > 1
          <6> DEFINE N == Len(c)
          <6>1. N \in Nat /\ N >= 1 /\ N # 1
            BY <4>9, <5>1
          <6> HIDE DEF N
          <6>2. N > 1
            BY <6>1
          <6> QED BY <6>2 DEF N
        <5>2. PICK d \in Seq(S), z \in S : c = Append(d, z) /\ Len(d) = Len(c) - 1
          BY <5>a, LastIsApart
        <5>3. Len(d) >= 1
          BY <4>9, <5>1, <5>2
        <5>4. PICK hf, hs : /\ Ends(p, HalfNew(m, n), d, hf, hs)
                            /\ NewJoined(left, x, y) = NewJoined(left, hs, z)
          BY <1>1, <4>1, <4>9, <5>2, <5>3, EndsByHalves DEF left, p
        <5>5. x = hs /\ y = z
          BY <5>4 DEF NewJoined, NodeHash
        <5>6. d = path
          BY <4>2, <4>4, <5>3, <5>4, <5>5 DEF NoOtherDoes, path, x
        <5> QED BY <5>2, <5>5, <5>6
      <4>10. NoOtherDoes(log, S, m, r)
        BY <2>1, <4>2, <4>9 DEF NoOtherDoes
      <4> QED BY <4>8, <4>10 DEF TruePath
    <3> QED BY <3>1, <3>2
  <2> HIDE DEF Good
  <2> QED BY <2>1
<1>2. \A n \in Nat : n \in T
  <2> HIDE DEF T
  <2> QED BY <1>1, Induction
<1> SUFFICES ASSUME NEW r \in Spans(Len(log)), NEW m \in Nat \ {0}, Good(m, r)
             PROVE  TruePath(log, S, m, r)
  OBVIOUS
<1>3. Size(r) \in Nat
  BY SpanIn
<1> HIDE DEF Good
<1> QED BY <1>2, <1>3

-----------------------------------------------------------------------------
(* What ConsistencyVerify accepts.                                         *)

ProofOf(log, m, r)   == Subproofs(log)[Asked(m, r, TRUE)]
FirstRoot(log, m, r) == Roots(log)[Span(r.from, r.from + m)]

\* The path is the proof, after the old root when that is the root of a complete
\* tree and therefore no node of the proof.
PathIsProof(log, m, r) ==
  /\ ProofOf(log, m, r) \in Seq(Hashes(log))
  /\ m < Size(r) => ProofOf(log, m, r) # <<>>
  /\ m = Size(r) => ProofOf(log, m, r) = <<>>
  /\ m < Size(r) \/ m \in Powers =>
       PathOf(log, m, r) = IF m \in Powers
                              THEN <<FirstRoot(log, m, r)>> \o ProofOf(log, m, r)
                              ELSE ProofOf(log, m, r)

LEMMA PathsAreProofs ==
  ASSUME NEW log, Len(log) \in Nat
  PROVE  \A r \in Spans(Len(log)), m \in Nat \ {0} : m <= Size(r) => PathIsProof(log, m, r)
<1> DEFINE H == Hashes(log)
           T == {n \in Nat : \A r \in Spans(Len(log)), m \in Nat \ {0} :
                   Size(r) = n /\ m <= n => PathIsProof(log, m, r)}
<1>1. \A r \in Spans(Len(log)) : Roots(log)[r] \in H
  BY DEF Hashes
<1> HIDE DEF H
<1>2. ASSUME NEW n \in Nat, \A j \in Nat : j < n => j \in T PROVE n \in T
  <2>1. ASSUME NEW r \in Spans(Len(log)), NEW m \in Nat \ {0}, Size(r) = n, m <= n
        PROVE  PathIsProof(log, m, r)
    <3> DEFINE q == Asked(m, r, TRUE)
    <3>1. q \in Questions(Len(log)) /\ q.old = m /\ q.of = r /\ q.complete = TRUE
      <4>1. n <= Len(log)
        BY <2>1, SpanIn
      <4> QED BY <2>1, <4>1 DEF Questions, Asked
    <3> HIDE DEF q
    <3>2. Subproofs(log)[q] = ProofBody(Roots(log), Subproofs(log), q)
      BY <3>1, SubproofsDef
    <3>3. CASE m = n
      <4>1. q.old >= Size(q.of)
        BY <2>1, <3>1, <3>3
      <4>2. ProofOf(log, m, r) = <<>>
        BY <3>1, <3>2, <4>1 DEF ProofBody, ProofOf, q
      <4>3. <<>> \in Seq(H) /\ \A x : <<x>> \o <<>> = <<x>>
        OBVIOUS
      <4>4. ASSUME m \in Powers
            PROVE  PathOf(log, m, r) = <<FirstRoot(log, m, r)>> \o ProofOf(log, m, r)
        <5>1. PathOf(log, m, r) = <<Roots(log)[r]>>
          BY <2>1, <3>3, <4>4, CompletePath
        <5>2. Span(r.from, r.from + m) = r
          BY <2>1, <3>3, SpanIn DEF Span, Size
        <5> QED BY <4>2, <4>3, <5>1, <5>2 DEF FirstRoot
      <4> QED BY <2>1, <3>3, <4>2, <4>3, <4>4 DEF PathIsProof, H
    <3>4. CASE m < n
      <4> DEFINE left == GoesLeft(m, n)
                 half == IF left THEN LeftHalf(r) ELSE RightHalf(r)
                 other == IF left THEN RightHalf(r) ELSE LeftHalf(r)
                 p == HalfOld(m, n)
                 y == Roots(log)[other]
      <4>1. /\ left \in BOOLEAN /\ half \in Spans(Len(log)) /\ other \in Spans(Len(log))
            /\ Size(half) \in Nat /\ Size(half) < n /\ p \in Nat \ {0} /\ p <= Size(half)
            /\ p < Size(half) \/ p \in Powers
            /\ PathOf(log, m, r) = Append(PathOf(log, p, half), y)
            /\ FirstRoot(log, m, r) = OldJoined(left, FirstRoot(log, p, half), y)
        BY SMTT(30), <2>1, <3>4, PathByHalves DEF FirstRoot
      <4>2. y \in H
        BY <1>1, <4>1
      <4>3. ~(q.old >= Size(q.of))
        BY <2>1, <3>1, <3>4
      <4>4. InLeft(q) <=> left
        BY <2>1, <3>1 DEF InLeft, GoesLeft
      <4>5. CASE left
        <5>1. half = LeftHalf(r) /\ other = RightHalf(r) /\ p = m
          BY <4>5 DEF HalfOld
        <5>2. LeftAsked(q) = Asked(m, half, TRUE)
          BY <2>1, <3>1, <5>1 DEF LeftAsked
        <5> DEFINE proof == ProofOf(log, m, half)
                   x == FirstRoot(log, m, half)
        <5>3. ProofOf(log, m, r) = Append(proof, y)
          BY <3>1, <3>2, <4>3, <4>4, <4>5, <5>1, <5>2 DEF ProofBody, ProofOf, q
        <5>4. PathIsProof(log, m, half)
          <6>1. Size(half) \in T
            BY <1>2, <4>1
          <6> HIDE DEF half, p
          <6> QED BY <4>1, <5>1, <6>1
        <5>5. FirstRoot(log, m, r) = x
          BY <4>1, <4>5, <5>1 DEF OldJoined
        <5>6. x \in H
          <6>1. Span(half.from, half.from + m) \in Spans(Len(log))
            BY SMTT(30), <4>1, <5>1, SpanIn DEF Spans, Span, Size
          <6> QED BY <1>1, <6>1 DEF FirstRoot
        <5> HIDE DEF left, half, other, p, y, x, proof
        <5>7. proof \in Seq(H)
          BY <5>4 DEF PathIsProof, H, proof
        <5>8. Append(proof, y) \in Seq(H) /\ Append(proof, y) # <<>>
          BY <4>2, <5>7, AppendProperties
        <5>9. Append(<<x>> \o proof, y) = <<x>> \o Append(proof, y)
          <6>1. <<x>> \in Seq(H) /\ <<y>> \in Seq(H) /\ <<x>> \o proof \in Seq(H)
            BY <4>2, <5>6, <5>7
          <6>2. /\ Append(<<x>> \o proof, y) = (<<x>> \o proof) \o <<y>>
                /\ Append(proof, y) = proof \o <<y>>
            BY <4>2, <5>7, <6>1, AppendIsConcat
          <6>3. (<<x>> \o proof) \o <<y>> = <<x>> \o (proof \o <<y>>)
            BY <5>7, <6>1, ConcatAssociative
          <6> QED BY <6>2, <6>3
        <5>10. PathOf(log, m, half) = IF m \in Powers THEN <<x>> \o proof ELSE proof
          BY <4>1, <5>1, <5>4 DEF PathIsProof, x, proof
        <5>11. PathOf(log, m, r) = IF m \in Powers THEN <<x>> \o Append(proof, y)
                                      ELSE Append(proof, y)
          BY <4>1, <5>1, <5>9, <5>10
        <5> QED BY <2>1, <3>4, <5>3, <5>5, <5>8, <5>11 DEF PathIsProof, H
      <4>6. CASE ~left
        <5>1. half = RightHalf(r) /\ other = LeftHalf(r) /\ p = m - SplitPoint(n)
          BY <4>6 DEF HalfOld
        <5>2. RightAsked(q) = Asked(p, half, FALSE)
          BY <2>1, <3>1, <5>1 DEF RightAsked
        <5>3. ProofOf(log, m, r) = Append(PathOf(log, p, half), y)
          BY <3>1, <3>2, <4>3, <4>4, <4>6, <5>1, <5>2 DEF ProofBody, ProofOf, PathOf, q
        <5>4. m \notin Powers
          <6>1. SplitPoint(n) \in Powers /\ n <= 2 * SplitPoint(n)
            BY <2>1, <3>4, SplitPointIsPower
          <6>2. SplitPoint(n) \in Nat /\ SplitPoint(n) < m
            BY <4>6, <6>1, HalvesOfPowers DEF GoesLeft
          <6> QED BY <3>4, <6>1, <6>2, PowersGap
        <5>5. PathOf(log, p, half) \in Seq(H)
          <6>1. TruePath(log, {}, p, half)
            BY <4>1, TruePaths
          <6> QED BY <6>1 DEF TruePath, LeadsToRoot, H
        <5> HIDE DEF left, half, other, p, y
        <5>6. /\ Append(PathOf(log, p, half), y) \in Seq(H)
              /\ Append(PathOf(log, p, half), y) # <<>>
          BY <4>2, <5>5
        <5> QED BY <2>1, <3>4, <4>1, <5>3, <5>4, <5>6 DEF PathIsProof, H
      <4> QED BY <4>1, <4>5, <4>6
    <3> QED BY <2>1, <3>3, <3>4
  <2> QED BY <2>1
<1> HIDE DEF T
<1>3. \A n \in Nat : n \in T
  BY <1>2, Induction
<1> SUFFICES ASSUME NEW r \in Spans(Len(log)), NEW m \in Nat \ {0}, m <= Size(r)
             PROVE  PathIsProof(log, m, r)
  OBVIOUS
<1>4. Size(r) \in Nat
  BY SpanIn
<1> QED BY <1>3, <1>4 DEF T

\* From m leaves to all of them, exactly one proof verifies, and that for exactly
\* one old root: the proof of consistency, and the root of the first m leaves.
THEOREM OnlyTheProofVerifies ==
  ASSUME NEW log, Len(log) \in Nat \ {0}, NEW m \in 1..Len(log),
         NEW S, NEW proof \in Seq(S), NEW oldRoot
  PROVE  ConsistencyVerify(m, Len(log), oldRoot, MerkleRoot(log), proof)
           <=> /\ oldRoot = Roots(log)[Span(0, m)]
               /\ proof = ConsistencyProof(log, m)
<1> DEFINE n == Len(log)
           r == Span(0, n)
           root == Roots(log)[r]
           true == ProofOf(log, m, r)
           old == Roots(log)[Span(0, m)]
           H == Hashes(log)
           path == PathOf(log, m, r)
<1>1. /\ r \in Spans(n) /\ Size(r) = n /\ r.from = 0 /\ n \in Nat /\ n >= 1
      /\ m \in Nat \ {0} /\ m <= n /\ Span(0, m) \in Spans(n)
  BY DEF Spans, Span, Size
<1>2. MerkleRoot(log) = root /\ ConsistencyProof(log, m) = true
  BY DEF MerkleRoot, ConsistencyProof, ProofOf
<1>3. FirstRoot(log, m, r) = old
  BY <1>1 DEF FirstRoot
<1>4. old \in H /\ root \in H
  BY <1>1 DEF Hashes
<1>5. PathIsProof(log, m, r)
  BY <1>1, PathsAreProofs
<1> HIDE DEF n, r, root, true, old, H, path
<1>6. true \in Seq(H)
  BY <1>5 DEF PathIsProof, true, H
<1>7. CASE m = n
  <2>1. true = <<>>
    BY <1>1, <1>5, <1>7 DEF PathIsProof, true
  <2>2. old = root
    BY <1>7 DEF old, root, r
  <2>3. ConsistencyVerify(m, n, oldRoot, root, proof) <=> proof = <<>> /\ oldRoot = root
    BY <1>1, <1>7 DEF ConsistencyVerify
  <2> QED BY <1>2, <2>1, <2>2, <2>3 DEF n, old
<1>8. CASE m < n
  <2> DEFINE U == S \cup H \cup {oldRoot}
             route == Path(m, oldRoot, proof)
  <2>1. TruePath(log, U, m, r)
    <3>1. m < Size(r) /\ r \in Spans(Len(log)) /\ Len(log) \in Nat
      BY <1>1, <1>8 DEF n
    <3> HIDE DEF U
    <3> QED BY <1>1, <3>1, TruePaths
  <2>2. Ends(m, n, path, old, root)
    BY <1>1, <1>3, <2>1 DEF TruePath, LeadsToRoot, path, old, root, FirstRoot
  <2>3. \A c \in Seq(U) : \A fr : Len(c) >= 1 /\ Ends(m, n, c, fr, root) => c = path
    BY <1>1, <2>1 DEF TruePath, NoOtherDoes, path, root
  <2>4. IsPowerOfTwo(m) <=> m \in Powers
    BY <1>1, IsPowerOfTwoIsPower
  <2>5. true # <<>> /\ path = IF m \in Powers THEN <<old>> \o true ELSE true
    BY <1>1, <1>3, <1>5, <1>8 DEF PathIsProof, true, path
  <2>6. /\ proof \in Seq(U) /\ <<oldRoot>> \in Seq(U)
        /\ <<oldRoot>> \o proof \in Seq(U) /\ Len(<<oldRoot>> \o proof) = Len(proof) + 1
        /\ Len(proof) \in Nat /\ (proof # <<>> => Len(proof) >= 1)
    <3>1. proof \in Seq(U) /\ <<oldRoot>> \in Seq(U) /\ Len(<<oldRoot>>) = 1
      OBVIOUS
    <3>2. <<oldRoot>> \o proof \in Seq(U) /\ Len(<<oldRoot>> \o proof) = 1 + Len(proof)
      BY <3>1, ConcatProperties
    <3>3. Len(proof) \in Nat /\ (proof # <<>> => Len(proof) >= 1)
      OBVIOUS
    <3> QED BY <3>1, <3>2, <3>3
  <2>7. route = IF m \in Powers THEN <<oldRoot>> \o proof ELSE proof
    BY <2>4 DEF Path
  <2>8. ConsistencyVerify(m, n, oldRoot, root, proof)
          <=> proof # <<>> /\ Ends(m, n, route, oldRoot, root)
    <3>1. ~(m < 1) /\ ~(n < m) /\ m # n
      BY <1>1, <1>8
    <3> HIDE DEF route
    <3>2. ConsistencyVerify(m, n, oldRoot, root, proof)
            <=> proof # <<>> /\ LET end == Walk(m, n, route)
                                IN end.ok /\ end.sn = 0 /\ oldRoot = end.fr /\ root = end.sr
      BY <3>1 DEF ConsistencyVerify, route
    <3> QED BY <3>2 DEF Ends
  <2>9. ASSUME proof # <<>>, Ends(m, n, route, oldRoot, root)
        PROVE  oldRoot = old /\ proof = true
    <3>1. route \in Seq(U) /\ Len(route) >= 1
      <4>1. Len(proof) + 1 >= 1 /\ Len(proof) >= 1
        BY <2>6, <2>9
      <4> HIDE DEF route, U
      <4>2. CASE m \in Powers
        BY <2>6, <2>7, <4>1, <4>2
      <4>3. CASE m \notin Powers
        BY <2>6, <2>7, <4>1, <4>3
      <4> QED BY <4>2, <4>3
    <3>2. route = path
      <4> HIDE DEF route, U
      <4> QED BY <2>3, <2>9, <3>1
    <3>3. oldRoot = old
      BY <2>2, <2>9, <3>2 DEF Ends
    <3>4. proof = true
      <4>1. CASE m \in Powers
        <5>1. <<old>> \o proof = <<old>> \o true
          BY <2>5, <2>7, <3>2, <3>3, <4>1
        <5>2. true \in Seq(U) /\ <<old>> \in Seq(U)
          BY <1>4, <1>6
        <5> HIDE DEF U, route
        <5> QED BY <2>6, <5>1, <5>2, ConcatSimplifications
      <4>2. CASE m \notin Powers
        BY <2>5, <2>7, <3>2, <4>2
      <4> QED BY <4>1, <4>2
    <3> QED BY <3>3, <3>4
  <2>10. ASSUME oldRoot = old, proof = true
         PROVE  proof # <<>> /\ Ends(m, n, route, oldRoot, root)
    <3>1. route = path
      BY <2>5, <2>7, <2>10
    <3> QED BY <2>2, <2>5, <2>10, <3>1
  <2> QED BY <1>2, <2>8, <2>9, <2>10 DEF n, old
<1> QED BY <1>1, <1>7, <1>8

\* A proof is a sequence of roots of its tree.
LEMMA ProofIsHashes ==
  ASSUME NEW log, Len(log) \in Nat \ {0}, NEW m \in 1..Len(log)
  PROVE  ConsistencyProof(log, m) \in Seq(Hashes(log))
<1> DEFINE n == Len(log)
<1>1. m \in Nat \ {0} /\ n \in Nat /\ m <= n
  OBVIOUS
<1>2. Span(0, n) \in Spans(n) /\ Size(Span(0, n)) = n
  BY DEF Spans, Span, Size
<1>3. PathIsProof(log, m, Span(0, n))
  BY <1>1, <1>2, PathsAreProofs
<1> QED BY <1>3 DEF PathIsProof, ProofOf, ConsistencyProof

\* Nor does the true proof lead to any other new root.
LEMMA OnlyTheRootIsReached ==
  ASSUME NEW log, Len(log) \in Nat \ {0}, NEW m \in 1..Len(log), NEW newRoot,
         ConsistencyVerify(m, Len(log), Roots(log)[Span(0, m)], newRoot,
                           ConsistencyProof(log, m))
  PROVE  newRoot = MerkleRoot(log)
<1> DEFINE n == Len(log)
           old == Roots(log)[Span(0, m)]
           proof == ConsistencyProof(log, m)
           end == Walk(m, n, Path(m, old, proof))
           Ok(root) == IF m = n THEN proof = <<>> /\ old = root
                       ELSE /\ proof # <<>>
                            /\ end.ok /\ end.sn = 0 /\ old = end.fr /\ root = end.sr
<1>1. m \in Nat \ {0} /\ n \in Nat /\ m <= n
  OBVIOUS
<1>2. proof \in Seq(Hashes(log))
  BY ProofIsHashes
<1>3. ConsistencyVerify(m, n, old, MerkleRoot(log), proof)
  BY <1>2, OnlyTheProofVerifies
<1> HIDE DEF n, old, proof
<1>4. \A root : ConsistencyVerify(m, n, old, root, proof) <=> Ok(root)
  BY <1>1 DEF ConsistencyVerify
<1>5. Ok(newRoot) /\ Ok(MerkleRoot(log))
  <2> HIDE DEF Ok
  <2> QED BY <1>3, <1>4 DEF n, old, proof
<1> QED BY <1>5

-----------------------------------------------------------------------------
(* The ranges of a proof and the collector that fills them.                *)

LEMMA SubrangesDef ==
  ASSUME NEW n \in Nat, NEW q \in Questions(n)
  PROVE  Subranges(n)[q] = ProofBody([r \in Spans(n) |-> r], Subranges(n), q)
<1> DEFINE same == [r \in Spans(n) |-> r]
           Body(f, p) == IF p.old >= Size(p.of) THEN IF p.complete THEN <<>> ELSE <<p.of>>
                         ELSE IF InLeft(p) THEN Append(f[LeftAsked(p)], RightHalf(p.of))
                         ELSE Append(f[RightAsked(p)], LeftHalf(p.of))
           Solves(f) == f = [p \in Questions(n) |-> Body(f, p)]
<1>1. ASSUME NEW f, NEW p \in Questions(n) PROVE ProofBody(same, f, p) = Body(f, p)
  <2>1. p.of \in Spans(n) /\ p.old \in Nat /\ Size(p.of) \in Int
    <3>1. p.of \in Spans(n) /\ p.old \in 1..n
      BY DEF Questions
    <3> QED BY <3>1, SpanIn
  <2>2. CASE p.old >= Size(p.of)
    BY <2>1, <2>2 DEF ProofBody
  <2>3. CASE ~(p.old >= Size(p.of))
    <3>1. LeftHalf(p.of) \in Spans(n) /\ RightHalf(p.of) \in Spans(n)
      BY <2>1, <2>3, QuestionHalves
    <3>2. same[LeftHalf(p.of)] = LeftHalf(p.of) /\ same[RightHalf(p.of)] = RightHalf(p.of)
      BY <3>1
    <3> HIDE DEF same
    <3> QED BY <2>3, <3>2 DEF ProofBody
  <2> QED BY <2>2, <2>3
<1>2. PICK f : f = [p \in Questions(n) |-> ProofBody(same, f, p)]
  BY ProofExists
<1> HIDE DEF Body, same
<1>3. Solves(f)
  BY <1>1, <1>2
<1>4. Subranges(n) = CHOOSE g : Solves(g)
  BY DEF Subranges, Body
<1>5. Solves(Subranges(n))
  <2> HIDE DEF Solves
  <2> QED BY <1>3, <1>4
<1>6. Subranges(n)[q] = Body(Subranges(n), q)
  BY <1>5
<1> QED BY <1>1, <1>6 DEF same

Ordered(ranges, order) ==
  /\ order \in [1..Len(ranges) -> 1..Len(ranges)]
  /\ \A i, j \in 1..Len(ranges) : i < j => ranges[order[i]].from < ranges[order[j]].from

\* The ranges lie in a run, none is empty and no two have a leaf in common.
Apart(n, ranges, r) ==
  /\ ranges \in Seq(Spans(n))
  /\ \A i \in 1..Len(ranges) : /\ r.from <= ranges[i].from /\ ranges[i].from < ranges[i].to
                               /\ ranges[i].to <= r.to
  /\ \A i, j \in 1..Len(ranges) :
       i # j => ranges[i].to <= ranges[j].from \/ ranges[j].to <= ranges[i].from

Arranged(n, ranges, r) == Apart(n, ranges, r) /\ \E order : Ordered(ranges, order)

\* The nodes are the roots of the ranges.
RootsOf(log, nodes, ranges) ==
  /\ nodes \in Seq(Hashes(log)) /\ Len(nodes) = Len(ranges)
  /\ \A i \in 1..Len(ranges) : nodes[i] = Roots(log)[ranges[i]]

\* One more range, all of it after the others or all of it before them.
LEMMA OneMoreRange ==
  ASSUME NEW n \in Nat, NEW r \in Spans(n), Size(r) > 1, NEW left \in BOOLEAN, NEW ranges,
         Arranged(n, ranges, IF left THEN LeftHalf(r) ELSE RightHalf(r))
  PROVE  Arranged(n, Append(ranges, IF left THEN RightHalf(r) ELSE LeftHalf(r)), r)
<1> DEFINE half == IF left THEN LeftHalf(r) ELSE RightHalf(r)
           other == IF left THEN RightHalf(r) ELSE LeftHalf(r)
           k == Len(ranges)
           more == Append(ranges, other)
<1>1. PICK order : Ordered(ranges, order)
  BY DEF Arranged
<1>2. /\ r.from \in Nat /\ r.to \in Nat /\ Cut(r) \in Nat /\ r.from < Cut(r) /\ Cut(r) < r.to
      /\ LeftHalf(r).from = r.from /\ LeftHalf(r).to = Cut(r)
      /\ RightHalf(r).from = Cut(r) /\ RightHalf(r).to = r.to
      /\ other \in Spans(n)
  BY Halves DEF RightHalf, Span
<1>3. /\ ranges \in Seq(Spans(n)) /\ k \in Nat
      /\ \A i \in 1..k : /\ half.from <= ranges[i].from /\ ranges[i].from < ranges[i].to
                         /\ ranges[i].to <= half.to
      /\ \A i, j \in 1..k :
           i # j => ranges[i].to <= ranges[j].from \/ ranges[j].to <= ranges[i].from
  BY DEF Arranged, Apart
<1>4. \A i \in 1..k : ranges[i].from \in Nat /\ ranges[i].to \in Nat
  BY <1>3, SpanIn
<1>5. /\ other.from < other.to /\ r.from <= other.from /\ other.to <= r.to
      /\ other.from \in Nat /\ other.to \in Nat
      /\ r.from <= half.from /\ half.to <= r.to /\ half.from \in Nat /\ half.to \in Nat
      /\ IF left THEN half.to <= other.from ELSE other.to <= half.from
  BY <1>2
<1> HIDE DEF half, other
<1>6. /\ more \in Seq(Spans(n)) /\ Len(more) = k + 1 /\ more[k + 1] = other
      /\ \A i \in 1..k : more[i] = ranges[i]
  BY <1>2, <1>3
<1> HIDE DEF more
<1>7. \A i \in 1..k : IF left THEN ranges[i].to <= other.from ELSE other.to <= ranges[i].from
  BY <1>3, <1>4, <1>5
<1>8. Apart(n, more, r)
  <2>1. ASSUME NEW i \in 1..(k + 1)
        PROVE  r.from <= more[i].from /\ more[i].from < more[i].to /\ more[i].to <= r.to
    <3>1. CASE i = k + 1
      BY <1>5, <1>6, <3>1
    <3>2. CASE i # k + 1
      <4>1. i \in 1..k
        BY <1>3, <3>2
      <4> QED BY SMTT(30), <1>2, <1>3, <1>4, <1>5, <1>6, <4>1
    <3> QED BY <3>1, <3>2
  <2>2. ASSUME NEW i \in 1..(k + 1), NEW j \in 1..(k + 1), i # j
        PROVE  more[i].to <= more[j].from \/ more[j].to <= more[i].from
    <3>1. CASE i \in 1..k /\ j \in 1..k
      BY <1>3, <1>6, <2>2, <3>1
    <3>2. CASE i = k + 1 /\ j \in 1..k
      BY <1>6, <1>7, <3>2
    <3>3. CASE j = k + 1 /\ i \in 1..k
      BY <1>6, <1>7, <3>3
    <3> QED BY <1>3, <2>2, <3>1, <3>2, <3>3
  <2> QED BY <1>6, <2>1, <2>2 DEF Apart
<1>9. \E o : Ordered(more, o)
  <2>1. /\ order \in [1..k -> 1..k]
        /\ \A i, j \in 1..k : i < j => ranges[order[i]].from < ranges[order[j]].from
    BY <1>1 DEF Ordered
  <2>2. CASE left
    <3> DEFINE o == [i \in 1..(k + 1) |-> IF i = k + 1 THEN k + 1 ELSE order[i]]
    <3>1. \A i \in 1..k : o[i] = order[i] /\ order[i] \in 1..k /\ more[o[i]] = ranges[order[i]]
      BY SMTT(30), <1>3, <1>6, <2>1
    <3>2. o[k + 1] = k + 1
      BY <1>3
    <3>3. o \in [1..(k + 1) -> 1..(k + 1)]
      BY <1>3, <2>1
    <3> HIDE DEF o
    <3>4. ASSUME NEW i \in 1..(k + 1), NEW j \in 1..(k + 1), i < j
          PROVE  more[o[i]].from < more[o[j]].from
      <4>1. i \in 1..k
        BY <1>3, <3>4
      <4>2. CASE j \in 1..k
        BY <2>1, <3>1, <3>4, <4>1, <4>2
      <4>3. CASE j = k + 1
        <5>1. more[o[j]] = other /\ more[o[i]] = ranges[order[i]] /\ order[i] \in 1..k
          BY <1>6, <3>1, <3>2, <4>1, <4>3
        <5> DEFINE x == ranges[order[i]]
        <5>2. x.from \in Nat /\ x.to \in Nat
          BY <1>4, <5>1
        <5>3. x.from < x.to
          BY <1>3, <5>1
        <5>4. x.to <= other.from
          BY <1>7, <2>2, <5>1
        <5>5. other.from \in Nat
          BY <1>5
        <5> HIDE DEF x
        <5>6. x.from < other.from
          BY <5>2, <5>3, <5>4, <5>5
        <5> QED BY <5>1, <5>6 DEF x
      <4> QED BY <1>3, <4>2, <4>3
    <3> QED BY <1>6, <3>3, <3>4 DEF Ordered
  <2>3. CASE ~left
    <3> DEFINE o == [i \in 1..(k + 1) |-> IF i = 1 THEN k + 1 ELSE order[i - 1]]
    <3>1. \A i \in 2..(k + 1) : /\ o[i] = order[i - 1] /\ order[i - 1] \in 1..k
                                /\ more[o[i]] = ranges[order[i - 1]]
      <4> TAKE i \in 2..(k + 1)
      <4>1. i - 1 \in 1..k /\ i \in 1..(k + 1) /\ i # 1
        BY <1>3
      <4>2. o[i] = order[i - 1] /\ order[i - 1] \in 1..k
        BY <2>1, <4>1
      <4> QED BY <1>6, <4>2
    <3>2. o[1] = k + 1 /\ more[o[1]] = other
      BY <1>3, <1>6
    <3>3. o \in [1..(k + 1) -> 1..(k + 1)]
      <4>1. ASSUME NEW i \in 1..(k + 1) PROVE o[i] \in 1..(k + 1)
        <5>1. CASE i = 1
          BY <1>3, <3>2, <5>1
        <5>2. CASE i # 1
          <6>1. i \in 2..(k + 1)
            BY <1>3, <5>2
          <6> HIDE DEF o
          <6> QED BY <1>3, <3>1, <6>1
        <5> QED BY <5>1, <5>2
      <4> QED BY <4>1
    <3> HIDE DEF o
    <3>4. ASSUME NEW i \in 1..(k + 1), NEW j \in 1..(k + 1), i < j
          PROVE  more[o[i]].from < more[o[j]].from
      <4>1. j \in 2..(k + 1) /\ j - 1 \in 1..k
        BY <1>3, <3>4
      <4>2. CASE i = 1
        <5>1. more[o[j]] = ranges[order[j - 1]] /\ order[j - 1] \in 1..k
          BY <3>1, <4>1
        <5> QED BY SMTT(30), <1>4, <1>5, <1>7, <2>3, <3>2, <4>2, <5>1
      <4>3. CASE i # 1
        <5>1. i \in 2..(k + 1) /\ i - 1 \in 1..k /\ i - 1 < j - 1
          BY <1>3, <3>4, <4>3
        <5> QED BY <2>1, <3>1, <4>1, <5>1
      <4> QED BY <4>2, <4>3
    <3> QED BY <1>6, <3>3, <3>4 DEF Ordered
  <2> QED BY <2>2, <2>3
<1> QED BY <1>8, <1>9 DEF Arranged, more, other

\* ConsistencyProof and ProofRanges recurse alike: node by node the proof holds the
\* roots of the ranges, which lie apart from one another.
LEMMA ProofsHoldRoots ==
  ASSUME NEW log, Len(log) \in Nat
  PROVE  \A q \in Questions(Len(log)) : q.old <= Size(q.of) =>
           /\ Arranged(Len(log), Subranges(Len(log))[q], q.of)
           /\ RootsOf(log, Subproofs(log)[q], Subranges(Len(log))[q])
<1> DEFINE n == Len(log)
           value == [r \in Spans(n) |-> r]
           ranges(q) == Subranges(n)[q]
           nodes(q) == Subproofs(log)[q]
           Good(q) == Arranged(n, ranges(q), q.of) /\ RootsOf(log, nodes(q), ranges(q))
           T == {z \in Nat : \A q \in Questions(n) : Size(q.of) = z /\ q.old <= z => Good(q)}
<1>1. \A r \in Spans(n) : value[r] = r /\ Roots(log)[r] \in Hashes(log)
  BY DEF Hashes
<1>2. \A q \in Questions(n) : /\ ranges(q) = ProofBody(value, Subranges(n), q)
                              /\ nodes(q) = ProofBody(Roots(log), Subproofs(log), q)
  BY SubrangesDef, SubproofsDef
<1> HIDE DEF value, ranges, nodes
<1>3. ASSUME NEW q \in Questions(n), q.old = Size(q.of)
      PROVE  Good(q)
  <2>1. q.of \in Spans(n) /\ q.old \in Nat /\ q.old >= 1 /\ q.complete \in BOOLEAN
    <3>1. q.old \in 1..n
      BY DEF Questions
    <3> QED BY <3>1 DEF Questions
  <2>2. /\ q.of.from \in Nat /\ q.of.to \in Nat /\ q.of.from < q.of.to
    BY <1>3, <2>1, SpanIn DEF Size
  <2>3. CASE q.complete
    <3>1. ranges(q) = <<>> /\ nodes(q) = <<>>
      BY <1>2, <1>3, <2>1, <2>3 DEF ProofBody
    <3>2. RootsOf(log, <<>>, <<>>)
      BY DEF RootsOf
    <3>3. Apart(n, <<>>, q.of)
      BY DEF Apart
    <3>4. \E order : Ordered(<<>>, order)
      <4>1. Ordered(<<>>, [i \in 1..0 |-> i])
        BY DEF Ordered
      <4> QED BY <4>1
    <3> QED BY <3>1, <3>2, <3>3, <3>4 DEF Arranged
  <2>4. CASE ~q.complete
    <3> DEFINE r == q.of
               h == Roots(log)[r]
    <3>1. ranges(q) = <<r>> /\ nodes(q) = <<h>> /\ h \in Hashes(log)
      BY <1>1, <1>2, <1>3, <2>1, <2>4 DEF ProofBody
    <3> HIDE DEF r
    <3>2. RootsOf(log, <<h>>, <<r>>)
      BY <3>1 DEF RootsOf
    <3>3. Apart(n, <<r>>, r)
      <4>1. r \in Spans(n) /\ r.from \in Nat /\ r.to \in Nat /\ r.from < r.to
        BY <2>1, <2>2 DEF r
      <4>2. <<r>> \in Seq(Spans(n)) /\ Len(<<r>>) = 1 /\ <<r>>[1] = r
        BY <4>1
      <4> QED BY <4>1, <4>2 DEF Apart
    <3>4. \E order : Ordered(<<r>>, order)
      <4>1. Ordered(<<r>>, [i \in 1..1 |-> i])
        BY DEF Ordered
      <4> QED BY <4>1
    <3> QED BY <3>1, <3>2, <3>3, <3>4 DEF Arranged, r
  <2> QED BY <2>1, <2>3, <2>4
<1>4. ASSUME NEW a \in Spans(n), NEW x, NEW y,
             RootsOf(log, y, x), x \in Seq(Spans(n))
      PROVE  RootsOf(log, Append(y, Roots(log)[a]), Append(x, a))
  <2> DEFINE k == Len(x)
             xs == Append(x, a)
             h == Roots(log)[a]
             ys == Append(y, h)
  <2>1. /\ y \in Seq(Hashes(log)) /\ Len(y) = k /\ k \in Nat
        /\ \A i \in 1..k : y[i] = Roots(log)[x[i]]
    BY <1>4 DEF RootsOf
  <2>2. h \in Hashes(log)
    BY <1>1
  <2>3. /\ ys \in Seq(Hashes(log)) /\ Len(ys) = k + 1 /\ ys[k + 1] = h
        /\ \A i \in 1..k : ys[i] = y[i]
    <3> HIDE DEF h
    <3> QED BY <2>1, <2>2
  <2>4. Len(xs) = k + 1 /\ xs[k + 1] = a /\ \A i \in 1..k : xs[i] = x[i]
    BY <1>4
  <2> HIDE DEF xs, ys
  <2>5. \A i \in 1..(k + 1) : ys[i] = Roots(log)[xs[i]]
    <3> TAKE i \in 1..(k + 1)
    <3>1. CASE i \in 1..k
      BY <2>1, <2>3, <2>4, <3>1
    <3>2. CASE i = k + 1
      BY <2>3, <2>4, <3>2 DEF h
    <3> QED BY <2>1, <3>1, <3>2
  <2>6. RootsOf(log, ys, xs)
    BY <2>3, <2>4, <2>5 DEF RootsOf
  <2> QED BY <2>6 DEF xs, ys, h
<1>5. ASSUME NEW z \in Nat, \A j \in Nat : j < z => j \in T PROVE z \in T
  <2>1. ASSUME NEW q \in Questions(n), Size(q.of) = z, q.old < z
        PROVE  Good(q)
    <3> DEFINE b == IF InLeft(q) THEN LeftAsked(q) ELSE RightAsked(q)
               a == IF InLeft(q) THEN RightHalf(q.of) ELSE LeftHalf(q.of)
    <3>1. /\ Size(q.of) > 1 /\ q.old \in Nat \ {0} /\ q.of \in Spans(n)
          /\ b \in Questions(n) /\ Size(b.of) \in Nat /\ Size(b.of) < z /\ a \in Spans(n)
      BY <2>1, QuestionHalves
    <3>2. b.of = (IF InLeft(q) THEN LeftHalf(q.of) ELSE RightHalf(q.of)) /\ b.old <= Size(b.of)
      <4> DEFINE k == SplitPoint(Size(q.of))
      <4>1. /\ Size(LeftHalf(q.of)) = k /\ Size(RightHalf(q.of)) = Size(q.of) - k
            /\ k \in Nat /\ Size(q.of) \in Nat
        BY <2>1, <3>1, Halves
      <4>2. CASE InLeft(q)
        BY <4>1, <4>2 DEF InLeft, LeftAsked, Asked
      <4>3. CASE ~InLeft(q)
        <5>1. b.of = RightHalf(q.of) /\ b.old = q.old - k
          BY <4>3 DEF RightAsked, Asked
        <5> HIDE DEF k, b
        <5> QED BY <2>1, <3>1, <4>1, <4>3, <5>1
      <4> QED BY <4>2, <4>3
    <3>3. ~(q.old >= Size(q.of))
      BY <2>1, <3>1
    <3>4. ranges(q) = Append(ranges(b), a)
      BY <1>1, <1>2, <3>1, <3>3 DEF ProofBody, ranges
    <3>5. nodes(q) = Append(nodes(b), Roots(log)[a])
      BY <1>2, <3>3 DEF ProofBody, nodes
    <3>6. Good(b)
      <4> HIDE DEF b
      <4> QED BY <1>5, <3>1, <3>2
    <3>7. Arranged(n, ranges(q), q.of)
      <4>1. CASE InLeft(q)
        <5>1. Arranged(n, ranges(b), LeftHalf(q.of))
          BY <3>2, <3>6, <4>1
        <5>2. Arranged(n, Append(ranges(b), RightHalf(q.of)), q.of)
          <6> HIDE DEF b
          <6>1. Arranged(n, ranges(b), IF TRUE THEN LeftHalf(q.of) ELSE RightHalf(q.of))
            BY <5>1
          <6>2. Arranged(n, Append(ranges(b), IF TRUE THEN RightHalf(q.of) ELSE LeftHalf(q.of)), q.of)
            BY <3>1, <6>1, OneMoreRange
          <6> QED BY <6>2
        <5> QED BY <3>4, <4>1, <5>2
      <4>2. CASE ~InLeft(q)
        <5>1. Arranged(n, ranges(b), RightHalf(q.of))
          BY <3>2, <3>6, <4>2
        <5>2. Arranged(n, Append(ranges(b), LeftHalf(q.of)), q.of)
          <6> HIDE DEF b
          <6>1. Arranged(n, ranges(b), IF FALSE THEN LeftHalf(q.of) ELSE RightHalf(q.of))
            BY <5>1
          <6>2. Arranged(n, Append(ranges(b), IF FALSE THEN RightHalf(q.of) ELSE LeftHalf(q.of)), q.of)
            BY <3>1, <6>1, OneMoreRange
          <6> QED BY <6>2
        <5> QED BY <3>4, <4>2, <5>2
      <4> QED BY <4>1, <4>2
    <3>8. RootsOf(log, nodes(q), ranges(q))
      <4>1. ranges(b) \in Seq(Spans(n)) /\ RootsOf(log, nodes(b), ranges(b))
        BY <3>6 DEF Arranged, Apart
      <4> HIDE DEF b, a
      <4> QED BY <1>4, <3>1, <3>4, <3>5, <4>1
    <3> QED BY <3>7, <3>8
  <2>2. ASSUME NEW q \in Questions(n), Size(q.of) = z, q.old <= z PROVE Good(q)
    <3>1. q.old \in 1..n
      BY DEF Questions
    <3> HIDE DEF Good
    <3>2. q.old = z \/ q.old < z
      BY <2>2, <3>1
    <3> QED BY <1>3, <2>1, <2>2, <3>2
  <2> HIDE DEF Good
  <2> QED BY <2>2
<1> HIDE DEF T
<1>6. \A z \in Nat : z \in T
  BY <1>5, Induction
<1>7. ASSUME NEW q \in Questions(n), q.old <= Size(q.of) PROVE Good(q)
  <2>1. q.of \in Spans(n) /\ q.old \in Nat
    <3>1. q.old \in 1..n /\ q.of \in Spans(n)
      BY DEF Questions
    <3> QED BY <3>1
  <2>2. Size(q.of) \in Nat
    BY <1>7, <2>1, SpanIn
  <2> HIDE DEF Good
  <2> QED BY <1>6, <1>7, <2>2 DEF T
<1> QED BY <1>7 DEF ranges, nodes

\* In their order each range ends before the next begins, and all occur in it.
InOrder(ranges, order) ==
  /\ \A i, j \in 1..Len(ranges) : i < j => ranges[order[i]].to <= ranges[order[j]].from
  /\ \A i \in 1..Len(ranges) : \E j \in 1..Len(ranges) : order[j] = i

LEMMA RangesInOrder ==
  ASSUME NEW n \in Nat, NEW r, NEW ranges, NEW order, Apart(n, ranges, r), Ordered(ranges, order)
  PROVE  InOrder(ranges, order)
<1> DEFINE k == Len(ranges)
           K == 1..k
<1>1. /\ k \in Nat /\ order \in [K -> K]
      /\ \A i, j \in K : i < j => ranges[order[i]].from < ranges[order[j]].from
  BY DEF Ordered, Apart
<1>2. \A i \in K : /\ ranges[i].from \in Nat /\ ranges[i].to \in Nat
                   /\ ranges[i].from < ranges[i].to
  <2> TAKE i \in K
  <2>1. ranges[i] \in Spans(n) /\ ranges[i].from < ranges[i].to
    BY DEF Apart
  <2> QED BY <2>1, SpanIn
<1>3. \A i, j \in K : i # j => ranges[i].to <= ranges[j].from \/ ranges[j].to <= ranges[i].from
  BY DEF Apart
<1> HIDE DEF K
<1>4. ASSUME NEW i \in K, NEW j \in K, i < j PROVE ranges[order[i]].to <= ranges[order[j]].from
  <2> DEFINE a == order[i]
             b == order[j]
  <2>1. a \in K /\ b \in K /\ ranges[a].from < ranges[b].from
    BY <1>1, <1>4
  <2> HIDE DEF a, b
  <2>2. a # b
    BY <1>2, <2>1
  <2> QED BY <1>2, <1>3, <2>1, <2>2 DEF a, b
<1>5. order \in Injection(K, K)
  <2>1. ASSUME NEW i \in K, NEW j \in K, order[i] = order[j] PROVE i = j
    <3>1. i \in Int /\ j \in Int
      BY DEF K
    <3>2. ranges[order[i]].from \in Nat
      BY <1>1, <1>2
    <3> QED BY <1>1, <2>1, <3>1, <3>2
  <2> QED BY <1>1, <2>1 DEF Injection, IsInjective
<1>6. IsFiniteSet(K)
  BY <1>1, FS_Interval DEF K
<1>7. order \in Surjection(K, K)
  BY <1>5, <1>6, FS_Injection
<1>8. \A i \in K : \E j \in K : order[j] = i
  BY <1>7 DEF Surjection
<1> QED BY <1>4, <1>8 DEF K, InOrder

\* The leaves of a range that are among the first t.
Reached(r, t) == IF t <= r.from THEN r.from ELSE IF t <= r.to THEN t ELSE r.to

\* A collector of the ranges that was given the first t leaves of L.
CollectorOf(c, n, ranges, order, L, t) ==
  /\ c = [newSize |-> n, ranges |-> ranges, order |-> order, stacks |-> c.stacks,
          cursor |-> c.cursor, count |-> t]
  /\ c.cursor \in 1..(Len(ranges) + 1)
  /\ \A j \in 1..Len(ranges) : j < c.cursor => ranges[order[j]].to <= t
  /\ c.stacks = [i \in 1..Len(ranges) |-> c.stacks[i]]
  /\ \A i \in 1..Len(ranges) : IsStackOf(c.stacks[i], L, ranges[i].from, Reached(ranges[i], t))

\* One leaf more, when a range is open and when none is.
LEMMA ReachedNext ==
  ASSUME NEW from \in Nat, NEW to \in Nat, from < to, NEW t \in Nat
  PROVE  LET r == Span(from, to) IN
         /\ Reached(r, t) \in from..to
         /\ t < from \/ to <= t => Reached(r, t + 1) = Reached(r, t)
         /\ from <= t /\ t < to => Reached(r, t) = t /\ Reached(r, t + 1) = t + 1
         /\ to <= t => Reached(r, t) = to
         /\ Reached(r, 0) = from
BY DEF Reached, Span

\* Collector.Append: the leaf goes to the range it lies in, if there is one.
LEMMA CollectorAppendHolds ==
  ASSUME NEW L, Len(L) \in Nat, NEW n \in 0..Len(L), NEW t \in Nat, t < Len(L),
         NEW r, NEW ranges, NEW order, NEW c,
         Apart(n, ranges, r), Ordered(ranges, order), CollectorOf(c, n, ranges, order, L, t)
  PROVE  CollectorOf(CollectorAppend(c, L[t + 1]), n, ranges, order, L, t + 1)
<1>0. InOrder(ranges, order)
  <2>1. n \in Nat
    OBVIOUS
  <2> QED BY <2>1, RangesInOrder
<1> DEFINE k == Len(ranges)
           K == 1..k
<1>1. /\ k \in Nat /\ order \in [K -> K] /\ n \in Nat
      /\ ranges \in Seq(Spans(n))
  BY DEF Ordered, Apart
<1>2. Len(order) = k
  BY <1>1
<1>3. \A i \in K : /\ ranges[i].from \in Nat /\ ranges[i].to \in Nat
                   /\ ranges[i].from < ranges[i].to
                   /\ ranges[i] = Span(ranges[i].from, ranges[i].to)
  <2> TAKE i \in K
  <2>1. ranges[i] \in Spans(n) /\ ranges[i].from < ranges[i].to
    BY DEF Apart
  <2> QED BY <1>1, <2>1, SpanIn
<1>4. /\ \A i, j \in K : i < j => ranges[order[i]].to <= ranges[order[j]].from
      /\ \A i \in K : \E j \in K : order[j] = i
  <2> HIDE DEF K
  <2>1. /\ \A i, j \in 1..k : i < j => ranges[order[i]].to <= ranges[order[j]].from
        /\ \A i \in 1..k : \E j \in 1..k : order[j] = i
    BY <1>0 DEF InOrder
  <2> QED BY <2>1 DEF K
<1>5. /\ c = [newSize |-> n, ranges |-> ranges, order |-> order, stacks |-> c.stacks,
              cursor |-> c.cursor, count |-> t]
      /\ c.cursor \in 1..(k + 1)
      /\ \A j \in K : j < c.cursor => ranges[order[j]].to <= t
      /\ c.stacks = [i \in K |-> c.stacks[i]]
      /\ \A i \in K : IsStackOf(c.stacks[i], L, ranges[i].from, Reached(ranges[i], t))
  BY DEF CollectorOf
<1> DEFINE over(j) == j > Len(c.order) \/ c.count < c.ranges[c.order[j]].to
           cursor == CHOOSE x \in c.cursor..(Len(c.order) + 1) :
                        over(x) /\ \A j \in c.cursor..(x - 1) : ~over(j)
           stacks == IF cursor > Len(c.order)
                        \/ c.count < c.ranges[c.order[cursor]].from THEN c.stacks
                     ELSE [c.stacks EXCEPT ![c.order[cursor]] = StackAppend(@, L[t + 1])]
           past(j) == j > k \/ t < ranges[order[j]].to
           open == ~(cursor > k \/ t < ranges[order[cursor]].from)
           d == CollectorAppend(c, L[t + 1])
<1>a. c.count = t /\ c.order = order /\ c.ranges = ranges /\ Len(c.order) = k
  BY <1>2, <1>5
<1>b. \A j : over(j) <=> past(j)
  BY <1>a
<1>6. d = [newSize |-> n, ranges |-> ranges, order |-> order, stacks |-> stacks,
           cursor |-> cursor, count |-> t + 1]
  <2>1. d = [c EXCEPT !.count = @ + 1, !.cursor = cursor, !.stacks = stacks]
    BY DEF CollectorAppend
  <2>2. ASSUME NEW s, NEW x, NEW y, NEW z,
               c = [newSize |-> n, ranges |-> ranges, order |-> order, stacks |-> s,
                    cursor |-> x, count |-> t]
        PROVE  [c EXCEPT !.count = @ + 1, !.cursor = y, !.stacks = z]
                 = [newSize |-> n, ranges |-> ranges, order |-> order, stacks |-> z,
                    cursor |-> y, count |-> t + 1]
    <3> DEFINE e == [newSize |-> n, ranges |-> ranges, order |-> order, stacks |-> s,
                     cursor |-> x, count |-> t + 1]
               f == [newSize |-> n, ranges |-> ranges, order |-> order, stacks |-> s,
                     cursor |-> y, count |-> t + 1]
    <3>1. [c EXCEPT !.count = @ + 1] = e
      BY <2>2
    <3>2. [e EXCEPT !.cursor = y] = f
      OBVIOUS
    <3>3. [f EXCEPT !.stacks = z] = [newSize |-> n, ranges |-> ranges, order |-> order,
                                      stacks |-> z, cursor |-> y, count |-> t + 1]
      OBVIOUS
    <3> HIDE DEF e, f
    <3> QED BY <3>1, <3>2, <3>3
  <2> HIDE DEF d, cursor, stacks
  <2> QED BY <1>5, <2>1, <2>2
<1>7. /\ cursor \in c.cursor..(k + 1) /\ past(cursor)
      /\ \A j \in c.cursor..(cursor - 1) : ~past(j)
  <2> DEFINE X == {x \in c.cursor..(k + 1) : past(x)}
  <2>1. X \subseteq Nat /\ k + 1 \in X
    BY <1>1, <1>5
  <2>2. PICK x \in X : \A y \in X : x <= y
    <3> HIDE DEF X
    <3> QED BY <2>1, Smallest
  <2>3. x \in c.cursor..(k + 1) /\ past(x)
    OBVIOUS
  <2>4. \A j \in c.cursor..(x - 1) : ~past(j)
    <3> TAKE j \in c.cursor..(x - 1)
    <3>1. j \in c.cursor..(k + 1) /\ j \in Int /\ x \in Int /\ j < x
      BY <1>1, <1>5, <2>3
    <3>2. j \notin X
      <4> HIDE DEF X
      <4> QED BY <2>2, <3>1
    <3> QED BY <3>1, <3>2
  <2>5. /\ x \in c.cursor..(Len(c.order) + 1) /\ over(x)
        /\ \A j \in c.cursor..(x - 1) : ~over(j)
    <3> HIDE DEF over, past, X
    <3> QED BY <1>a, <1>b, <2>3, <2>4
  <2>6. /\ cursor \in c.cursor..(Len(c.order) + 1) /\ over(cursor)
        /\ \A j \in c.cursor..(cursor - 1) : ~over(j)
    <3> HIDE DEF over, past, X
    <3> QED BY <2>5
  <2> HIDE DEF over, past, X, cursor
  <2> QED BY <1>a, <1>b, <2>6
<1> HIDE DEF d, cursor
<1>c. stacks = IF ~open THEN c.stacks
               ELSE [c.stacks EXCEPT ![order[cursor]] = StackAppend(@, L[t + 1])]
  BY <1>a
<1> HIDE DEF stacks
<1>8. cursor \in 1..(k + 1) /\ \A j \in K : j < cursor => ranges[order[j]].to <= t
  <2>1. cursor \in 1..(k + 1)
    BY <1>1, <1>5, <1>7
  <2>2. ASSUME NEW j \in K, j < cursor PROVE ranges[order[j]].to <= t
    <3>1. CASE j < c.cursor
      BY <1>5, <3>1
    <3>2. CASE ~(j < c.cursor)
      <4>1. j \in c.cursor..(cursor - 1)
        BY <1>1, <1>5, <2>1, <2>2, <3>2
      <4>2. ~(t < ranges[order[j]].to)
        BY <1>7, <4>1
      <4>3. ranges[order[j]].to \in Nat
        BY <1>1, <1>3
      <4> QED BY <4>2, <4>3
    <3> QED BY <3>1, <3>2
  <2> QED BY <2>1, <2>2
<1>9. open => cursor \in K /\ ranges[order[cursor]].from <= t /\ t < ranges[order[cursor]].to
  <2> HAVE open
  <2>1. cursor \in K
    BY <1>1, <1>8
  <2>2. ranges[order[cursor]].from \in Nat
    BY <1>1, <1>3, <2>1
  <2> QED BY <1>1, <1>7, <2>1, <2>2
<1>10. ASSUME NEW j \in K, ~open \/ j # cursor
       PROVE  t < ranges[order[j]].from \/ ranges[order[j]].to <= t
  <2>1. CASE j < cursor
    BY <1>8, <2>1
  <2>2. CASE ~(j < cursor)
    <3>1. cursor \in K /\ cursor <= j /\ ~(cursor > k)
      BY <1>1, <1>8, <2>2
    <3> DEFINE a == ranges[order[cursor]]
               b == ranges[order[j]]
    <3>2. /\ a.from \in Nat /\ a.to \in Nat /\ a.from < a.to
          /\ b.from \in Nat /\ b.to \in Nat /\ b.from < b.to
      BY <1>1, <1>3, <3>1
    <3>3. open <=> ~(t < a.from)
      BY <3>1
    <3>4. cursor # j => a.to <= b.from
      BY <1>4, <3>1
    <3>5. open => t < a.to
      BY <1>9
    <3>6. cursor = j => a = b
      OBVIOUS
    <3> HIDE DEF a, b, open
    <3>7. t < b.from
      BY <1>10, <3>1, <3>2, <3>3, <3>4, <3>5, <3>6
    <3> QED BY <3>7 DEF b
  <2> QED BY <2>1, <2>2
<1>11. stacks = [i \in K |-> stacks[i]]
  BY <1>5, <1>c
<1>12. ASSUME NEW i \in K PROVE IsStackOf(stacks[i], L, ranges[i].from, Reached(ranges[i], t + 1))
  <2>1. PICK j \in K : order[j] = i
    BY <1>4
  <2> DEFINE from == ranges[i].from
             to == ranges[i].to
  <2>2. /\ from \in Nat /\ to \in Nat /\ from < to /\ ranges[i] = Span(from, to)
        /\ IsStackOf(c.stacks[i], L, from, Reached(ranges[i], t))
    BY <1>3, <1>5
  <2> HIDE DEF from, to
  <2>3. CASE open /\ j = cursor
    <3>1. from <= t /\ t < to
      BY <1>9, <2>1, <2>3 DEF from, to
    <3>2. Reached(ranges[i], t) = t /\ Reached(ranges[i], t + 1) = t + 1
      <4>1. /\ Reached(Span(from, to), t) = t
            /\ Reached(Span(from, to), t + 1) = t + 1
        BY <2>2, <3>1 DEF Reached, Span
      <4> QED BY <2>2, <4>1
    <3>3. IsStackOf(StackAppend(c.stacks[i], L[t + 1]), L, from, t + 1)
      BY <2>2, <3>2, StackAppendHolds
    <3>4. stacks[i] = StackAppend(c.stacks[i], L[t + 1])
      BY <1>5, <1>c, <2>1, <2>3
    <3> QED BY <3>2, <3>3, <3>4 DEF from
  <2>4. CASE ~(open /\ j = cursor)
    <3>1. t < from \/ to <= t
      BY <1>10, <2>1, <2>4 DEF from, to
    <3>2. Reached(ranges[i], t + 1) = Reached(ranges[i], t)
      <4>1. Reached(Span(from, to), t + 1) = Reached(Span(from, to), t)
        BY <2>2, <3>1 DEF Reached, Span
      <4> QED BY <2>2, <4>1
    <3>3. stacks[i] = c.stacks[i]
      <4>1. CASE ~open
        BY <1>c, <4>1
      <4>2. CASE open
        <5>1. cursor \in K /\ cursor # j /\ order[cursor] # i
          <6>1. cursor \in K /\ cursor # j
            BY <1>9, <2>4, <4>2
          <6>2. ranges[order[cursor]].from <= t /\ t < ranges[order[cursor]].to
            BY <1>9, <4>2
          <6> QED BY <2>2, <3>1, <6>1, <6>2 DEF from, to
        <5> QED BY <1>5, <1>c, <4>2, <5>1
      <4> QED BY <4>1, <4>2
    <3> QED BY <2>2, <3>2, <3>3 DEF from
  <2> QED BY <2>3, <2>4
<1>13. \A j \in K : j < cursor => ranges[order[j]].to <= t + 1
  <2> TAKE j \in K
  <2>1. ranges[order[j]].to \in Nat
    BY <1>1, <1>3
  <2> QED BY <1>8, <2>1
<1>14. d.stacks = stacks /\ d.cursor = cursor
  BY <1>6
<1>15. CollectorOf(d, n, ranges, order, L, t + 1)
  BY <1>6, <1>8, <1>11, <1>12, <1>13, <1>14 DEF CollectorOf
<1> QED BY <1>15 DEF d

\* The collector of the proof from m leaves to n, given the first t leaves of L.
Collects(c, m, n, L, t) ==
  CollectorOf(c, n, ProofRanges(m, n), ByFrom(ProofRanges(m, n)), L, t)

LEMMA RangesOfProof ==
  ASSUME NEW n \in Nat \ {0}, NEW m \in 1..n
  PROVE  /\ Apart(n, ProofRanges(m, n), Span(0, n))
         /\ Ordered(ProofRanges(m, n), ByFrom(ProofRanges(m, n)))
<1> DEFINE ranges == ProofRanges(m, n)
           K == 1..Len(ranges)
           q == Asked(m, Span(0, n), TRUE)
           any == [i \in 1..n |-> i]
           Sorted(o) == \A i, j \in DOMAIN ranges :
                          i < j => ranges[o[i]].from < ranges[o[j]].from
<1>1. Len(any) = n
  OBVIOUS
<1>2. q \in Questions(n) /\ q.of = Span(0, n) /\ q.old <= Size(q.of)
  BY DEF Questions, Asked, Span, Spans, Size
<1>3. Arranged(n, Subranges(n)[q], Span(0, n))
  <2> HIDE DEF any, q
  <2> QED BY <1>1, <1>2, ProofsHoldRoots
<1>4. Apart(n, ranges, Span(0, n)) /\ \E order : Ordered(ranges, order)
  BY <1>3 DEF Arranged, ProofRanges
<1> HIDE DEF ranges
<1>5. DOMAIN ranges = K
  BY <1>4 DEF Apart
<1>6. \E o \in [DOMAIN ranges -> DOMAIN ranges] : Sorted(o)
  BY <1>4, <1>5 DEF Ordered
<1>7. ByFrom(ranges) = CHOOSE o \in [DOMAIN ranges -> DOMAIN ranges] : Sorted(o)
  BY DEF ByFrom
<1>8. ByFrom(ranges) \in [DOMAIN ranges -> DOMAIN ranges] /\ Sorted(ByFrom(ranges))
  <2> HIDE DEF Sorted
  <2> QED BY <1>6, <1>7
<1>9. Ordered(ranges, ByFrom(ranges))
  BY <1>5, <1>8 DEF Ordered
<1> QED BY <1>4, <1>9 DEF ranges

\* NewCollector: no leaf was given and every stack is empty.
LEMMA NewCollectorHolds ==
  ASSUME NEW L, Len(L) \in Nat, NEW n \in 1..Len(L), NEW m \in 1..n
  PROVE  Collects(NewCollector(m, n), m, n, L, 0)
<1> DEFINE ranges == ProofRanges(m, n)
           order == ByFrom(ranges)
           k == Len(ranges)
           stacks == [i \in 1..k |-> EmptyStack]
           c == NewCollector(m, n)
<1>1. n \in Nat \ {0}
  OBVIOUS
<1>2. Apart(n, ranges, Span(0, n)) /\ Ordered(ranges, order)
  BY <1>1, RangesOfProof
<1>3. /\ ranges \in Seq(Spans(n)) /\ k \in Nat /\ DOMAIN ranges = 1..k
  BY <1>2 DEF Apart
<1>4. c = [newSize |-> n, ranges |-> ranges, order |-> order, stacks |-> stacks,
           cursor |-> 1, count |-> 0]
  BY <1>3 DEF NewCollector
<1> HIDE DEF c, ranges, order
<1>5. c.stacks = stacks /\ c.cursor = 1
  BY <1>4
<1>6. \A i \in 1..k : IsStackOf(stacks[i], L, ranges[i].from, Reached(ranges[i], 0))
  <2> TAKE i \in 1..k
  <2>1. /\ ranges[i].from \in 0..n /\ ranges[i].to \in 0..n /\ ranges[i].from < ranges[i].to
        /\ ranges[i] = Span(ranges[i].from, ranges[i].to)
    <3>1. ranges[i] \in Spans(n) /\ ranges[i].from < ranges[i].to
      BY <1>2 DEF Apart
    <3> QED BY <1>1, <3>1, SpanIn
  <2>2. Reached(ranges[i], 0) = ranges[i].from /\ ranges[i].from \in 0..Len(L)
    BY <2>1 DEF Reached
  <2> QED BY <2>2, EmptyStackHolds
<1>7. stacks = [i \in 1..k |-> stacks[i]] /\ 1 \in 1..(k + 1)
  BY <1>3
<1> HIDE DEF stacks
<1>8. \A j \in 1..k : j < 1 => ranges[order[j]].to <= 0
  OBVIOUS
<1>9. CollectorOf(c, n, ranges, order, L, 0)
  BY <1>4, <1>5, <1>6, <1>7, <1>8 DEF CollectorOf
<1> QED BY <1>9 DEF Collects, c, ranges, order

LEMMA CollectsAppend ==
  ASSUME NEW L, Len(L) \in Nat, NEW n \in 1..Len(L), NEW m \in 1..n, NEW t \in Nat, t < Len(L),
         NEW c, Collects(c, m, n, L, t)
  PROVE  Collects(CollectorAppend(c, L[t + 1]), m, n, L, t + 1)
<1> DEFINE ranges == ProofRanges(m, n)
           order == ByFrom(ranges)
           r == Span(0, n)
<1>1. Apart(n, ranges, r) /\ Ordered(ranges, order) /\ n \in 0..Len(L)
  <2>1. n \in Nat \ {0}
    OBVIOUS
  <2> QED BY <2>1, RangesOfProof
<1>2. CollectorOf(c, n, ranges, order, L, t)
  BY DEF Collects
<1> HIDE DEF ranges, order, r
<1>3. CollectorOf(CollectorAppend(c, L[t + 1]), n, ranges, order, L, t + 1)
  BY <1>1, <1>2, CollectorAppendHolds
<1> QED BY <1>3 DEF Collects, ranges, order

\* Nodes: once the n leaves are in, the roots of the ranges are ConsistencyProof of
\* the tree of those leaves, and before that there is no answer.
LEMMA CollectedNodes ==
  ASSUME NEW L, Len(L) \in Nat, NEW log, Len(log) \in 1..Len(L),
         \A i \in 1..Len(log) : log[i] = L[i],
         NEW m \in 1..Len(log), NEW t \in Nat, NEW c, Collects(c, m, Len(log), L, t)
  PROVE  /\ c.newSize = Len(log)
         /\ Complete(c) <=> t >= Len(log)
         /\ Complete(c) => Nodes(c) = ConsistencyProof(log, m)
<1> DEFINE n == Len(log)
           ranges == ProofRanges(m, n)
           order == ByFrom(ranges)
           k == Len(ranges)
           K == 1..k
           proof == ConsistencyProof(log, m)
           q == Asked(m, Span(0, n), TRUE)
<1>1. /\ n \in Nat \ {0} /\ m \in 1..n /\ n <= Len(L)
      /\ \A i \in 1..n : log[i] = L[i]
  OBVIOUS
<1>2. RootsOf(log, proof, ranges)
  <2>1. q \in Questions(n) /\ q.of = Span(0, n) /\ q.old <= Size(q.of)
    BY <1>1 DEF Questions, Asked, Span, Spans, Size
  <2> HIDE DEF q
  <2>2. RootsOf(log, Subproofs(log)[q], Subranges(n)[q])
    BY <1>1, <2>1, ProofsHoldRoots
  <2> QED BY <2>2 DEF ConsistencyProof, ProofRanges, q
<1>3. Apart(n, ranges, Span(0, n))
  BY <1>1, RangesOfProof
<1>4. /\ c = [newSize |-> n, ranges |-> ranges, order |-> order, stacks |-> c.stacks,
              cursor |-> c.cursor, count |-> t]
      /\ c.stacks = [i \in K |-> c.stacks[i]]
      /\ \A i \in K : IsStackOf(c.stacks[i], L, ranges[i].from, Reached(ranges[i], t))
  BY DEF Collects, CollectorOf
<1> HIDE DEF n, ranges, order, proof
<1>5. /\ c.newSize = n /\ c.ranges = ranges /\ c.count = t /\ DOMAIN c.stacks = K
  BY <1>4
<1>6. k \in Nat /\ DOMAIN ranges = K /\ ranges \in Seq(Spans(n))
  BY <1>3 DEF Apart
<1>7. ASSUME NEW i \in K, t >= n
      PROVE  c.stacks[i] # <<>> /\ StackRoot(c.stacks[i]) = proof[i]
  <2> DEFINE from == ranges[i].from
             to == ranges[i].to
             stack == c.stacks[i]
  <2>1. /\ from \in Nat /\ to \in Nat /\ from < to /\ to <= n
        /\ ranges[i] = Span(from, to) /\ ranges[i] \in Spans(n)
    <3>1. ranges[i] \in Spans(n) /\ ranges[i].from < ranges[i].to
      BY <1>3 DEF Apart
    <3> QED BY <1>1, <3>1, SpanIn
  <2>2. IsStackOf(stack, L, from, Reached(ranges[i], t))
    BY <1>4
  <2> HIDE DEF from, to, stack
  <2>3. Reached(ranges[i], t) = to
    <3>1. to <= t
      BY <1>1, <1>7, <2>1
    <3>2. Reached(Span(from, to), t) = to
      BY <2>1, <3>1, ReachedNext
    <3> QED BY <2>1, <3>2
  <2>4. StackRoot(stack) = Roots(L)[Span(from, to)]
    BY <1>1, <2>1, <2>2, <2>3, StackRootIs
  <2>5. stack # <<>>
    BY <2>1, <2>2, <2>3, StackFits DEF EmptyStack
  <2>6. Roots(L)[Span(from, to)] = Roots(log)[Span(from, to)]
    <3> DEFINE s == Span(from, to)
    <3>1. s \in Spans(Len(log)) /\ s \in Spans(Len(L)) /\ Size(s) = to - from
          /\ s.from = from /\ Size(s) >= 1
      BY <1>1, <2>1 DEF Span, Spans, Size, n
    <3> HIDE DEF s
    <3>2. SameLeaves(L, s, log, s)
      BY <1>1, <2>1, <3>1 DEF SameLeaves
    <3>3. Len(log) \in Nat
      BY <1>1 DEF n
    <3> QED BY <3>1, <3>2, <3>3, SameRoot DEF s
  <2>7. proof[i] = Roots(log)[Span(from, to)]
    BY <1>2, <2>1 DEF RootsOf
  <2> QED BY <2>4, <2>5, <2>6, <2>7 DEF stack
<1>8. Complete(c) <=> t >= n
  BY <1>5, <1>7 DEF Complete
<1>9. ASSUME t >= n PROVE Nodes(c) = proof
  <2>1. Nodes(c) = [i \in K |-> StackRoot(c.stacks[i])]
    BY <1>5, <1>6 DEF Nodes
  <2>2. proof = [i \in K |-> proof[i]]
    BY <1>2 DEF RootsOf
  <2> QED BY <1>7, <1>9, <2>1, <2>2
<1> QED BY <1>5, <1>8, <1>9 DEF n, proof

-----------------------------------------------------------------------------
(* The trees of the walk on their own, leaf by leaf (MerkleStream).         *)

\* All the leaves there can be, and where the open checkpoint begins.
Log == [i \in 1..MaxLeaves |-> i]
Begun == Len(leaves) - Len(sinceReset)

StreamInv ==
  /\ leaves \in Seq(Nat) /\ Len(leaves) <= MaxLeaves
  /\ sinceReset \in Seq(Nat) /\ Len(sinceReset) <= Len(leaves)
  /\ \A i \in 1..Len(leaves) : leaves[i] = i
  /\ \A i \in 1..Len(sinceReset) : sinceReset[i] = Begun + i
  /\ IsStackOf(cumulativeStack, Log, 0, Len(leaves))
  /\ IsStackOf(checkpointStack, Log, Begun, Len(leaves))
  /\ proofCollector.newSize \in 1..MaxLeaves /\ oldSize \in 1..proofCollector.newSize
  /\ Collects(proofCollector, oldSize, proofCollector.newSize, Log, Len(leaves))

LEMMA LogLength == Len(Log) = MaxLeaves /\ \A i \in 1..MaxLeaves : Log[i] = i
BY MerkleStreamAssumption DEF Log

LEMMA StreamStarts ==
  ASSUME StreamInit PROVE StreamInv
<1> USE MerkleStreamAssumption
<1>1. /\ cumulativeStack = EmptyStack /\ checkpointStack = EmptyStack
      /\ leaves = <<>> /\ sinceReset = <<>>
  BY DEF StreamInit
<1>2. Len(leaves) = 0 /\ Len(sinceReset) = 0 /\ Begun = 0
  BY <1>1 DEF Begun
<1>3. IsStackOf(EmptyStack, Log, 0, 0)
  BY LogLength, EmptyStackHolds
<1>4. PICK new \in 1..MaxLeaves : \E old \in 1..new :
        oldSize = old /\ proofCollector = NewCollector(old, new)
  BY DEF StreamInit
<1>5. oldSize \in 1..new /\ proofCollector = NewCollector(oldSize, new)
  BY <1>4
<1>6. Collects(proofCollector, oldSize, new, Log, 0)
  BY <1>5, LogLength, NewCollectorHolds
<1>7. proofCollector.newSize = new
  BY <1>5 DEF NewCollector
<1> QED BY <1>1, <1>2, <1>3, <1>5, <1>6, <1>7 DEF StreamInv

LEMMA StreamStep ==
  ASSUME StreamInv, [StreamNext]_streamVars PROVE StreamInv'
<1> USE MerkleStreamAssumption
<1> DEFINE n == Len(leaves)
           m == Len(sinceReset)
<1>1. n \in Nat /\ m \in Nat /\ m <= n /\ n <= MaxLeaves /\ Begun = n - m
  BY DEF StreamInv, Begun
<1>2. CASE AppendLeaf
  <2> DEFINE data == n + 1
  <2>1. /\ n < MaxLeaves
        /\ cumulativeStack' = StackAppend(cumulativeStack, data)
        /\ checkpointStack' = StackAppend(checkpointStack, data)
        /\ leaves' = Append(leaves, data)
        /\ sinceReset' = Append(sinceReset, data)
        /\ proofCollector' = CollectorAppend(proofCollector, data) /\ oldSize' = oldSize
    BY <1>2 DEF AppendLeaf
  <2>2. /\ leaves' \in Seq(Nat) /\ Len(leaves') = n + 1
        /\ sinceReset' \in Seq(Nat) /\ Len(sinceReset') = m + 1
        /\ \A i \in 1..(n + 1) : leaves'[i] = i
        /\ \A i \in 1..(m + 1) : sinceReset'[i] = (n - m) + i
    <3>1. /\ leaves \in Seq(Nat) /\ sinceReset \in Seq(Nat)
          /\ \A i \in 1..n : leaves[i] = i
          /\ \A i \in 1..m : sinceReset[i] = (n - m) + i
      BY <1>1 DEF StreamInv
    <3>2. ASSUME NEW s \in Seq(Nat), NEW x \in Nat
          PROVE  /\ Append(s, x) \in Seq(Nat) /\ Len(Append(s, x)) = Len(s) + 1
                 /\ \A i \in 1..(Len(s) + 1) :
                      Append(s, x)[i] = IF i = Len(s) + 1 THEN x ELSE s[i]
      OBVIOUS
    <3> DEFINE grown == Append(leaves, data)
               since == Append(sinceReset, data)
    <3>3. /\ grown \in Seq(Nat) /\ Len(grown) = n + 1
          /\ \A i \in 1..(n + 1) : grown[i] = IF i = n + 1 THEN data ELSE leaves[i]
      BY <1>1, <3>1, <3>2
    <3>4. /\ since \in Seq(Nat) /\ Len(since) = m + 1
          /\ \A i \in 1..(m + 1) : since[i] = IF i = m + 1 THEN data ELSE sinceReset[i]
      BY <1>1, <3>1, <3>2
    <3> HIDE DEF grown, since
    <3>5. \A i \in 1..(n + 1) : grown[i] = i
      <4> TAKE i \in 1..(n + 1)
      <4> HIDE DEF n, m
      <4>1. i = n + 1 \/ i \in 1..n
        BY <1>1
      <4> QED BY <3>1, <3>3, <4>1
    <3>6. \A i \in 1..(m + 1) : since[i] = (n - m) + i
      <4> TAKE i \in 1..(m + 1)
      <4> HIDE DEF n, m
      <4>1. i = m + 1 \/ i \in 1..m
        BY <1>1
      <4>2. data = (n - m) + (m + 1)
        BY <1>1
      <4> HIDE DEF data
      <4> QED BY <3>1, <3>4, <4>1, <4>2
    <3>7. leaves' = grown /\ sinceReset' = since
      BY <2>1 DEF grown, since
    <3> QED BY <3>3, <3>4, <3>5, <3>6, <3>7
  <2>3. Begun' = n - m
    BY <1>1, <2>2 DEF Begun
  <2>4. Log[n + 1] = data /\ n < Len(Log) /\ Len(Log) \in Nat
    BY <1>1, <2>1, LogLength
  <2>5. IsStackOf(cumulativeStack', Log, 0, n + 1)
    BY <2>1, <2>4, StackAppendHolds DEF StreamInv
  <2>6. IsStackOf(checkpointStack', Log, n - m, n + 1)
    BY <1>1, <2>1, <2>4, StackAppendHolds DEF StreamInv
  <2> HIDE DEF data
  <2>7. Len(leaves') <= MaxLeaves /\ Len(sinceReset') <= Len(leaves')
    BY <1>1, <2>1, <2>2
  <2>8. proofCollector'.newSize = proofCollector.newSize
    BY <2>1 DEF CollectorAppend, StreamInv, Collects, CollectorOf
  <2>9. Collects(proofCollector', oldSize, proofCollector.newSize, Log, n + 1)
    BY <1>1, <2>1, <2>4, LogLength, CollectsAppend DEF StreamInv
  <2> QED BY <2>1, <2>2, <2>3, <2>5, <2>6, <2>7, <2>8, <2>9 DEF StreamInv
<1>3. CASE CloseCheckpoint
  <2>1. /\ checkpointStack' = EmptyStack /\ sinceReset' = <<>>
        /\ UNCHANGED <<leaves, cumulativeStack, proofCollector, oldSize>>
    BY <1>3 DEF CloseCheckpoint, Reset
  <2>2. Len(sinceReset') = 0 /\ Begun' = n
    BY <1>1, <2>1 DEF Begun
  <2>3. IsStackOf(EmptyStack, Log, n, n)
    BY <1>1, LogLength, EmptyStackHolds
  <2> QED BY <1>1, <2>1, <2>2, <2>3 DEF StreamInv
<1>4. CASE UNCHANGED streamVars
  BY <1>4 DEF streamVars, StreamInv, Begun
<1> QED BY <1>2, <1>3, <1>4 DEF StreamNext

LEMMA StreamInvariant == StreamSpec => []StreamInv
BY StreamStarts, StreamStep, PTL DEF StreamSpec

\* The root of a stack of leaves counted from begun + 1 on.
LEMMA RootOfNumbered ==
  ASSUME NEW data \in Seq(Nat), NEW begun \in Nat, NEW stack,
         begun + Len(data) <= MaxLeaves, \A i \in 1..Len(data) : data[i] = begun + i,
         IsStackOf(stack, Log, begun, begun + Len(data))
  PROVE  IsRootOf(stack, data)
<1> USE MerkleStreamAssumption
<1> DEFINE n == Len(data)
           r == Span(0, n)
           q == Span(begun, begun + n)
<1>1. n \in Nat /\ Len(Log) = MaxLeaves
  BY LogLength
<1>2. CASE data = <<>>
  <2>1. n = 0 /\ begun + n = begun
    BY <1>2
  <2>2. stack = EmptyStack
    BY <1>1, <2>1, StackFits
  <2> QED BY <1>2, <2>2 DEF IsRootOf
<1>3. CASE data # <<>>
  <2>1. n >= 1 /\ begun < begun + n
    BY <1>1, <1>3
  <2>2. StackRoot(stack) = Roots(Log)[q]
    BY <1>1, <2>1, StackRootIs
  <2>3. r \in Spans(Len(data)) /\ q \in Spans(Len(Log)) /\ Size(r) = n /\ Size(q) = n
    BY <1>1 DEF Span, Spans, Size
  <2>4. SameLeaves(data, r, Log, q)
    <3>1. ASSUME NEW i \in 1..n PROVE data[i] = Log[begun + i]
      BY <1>1, LogLength
    <3>2. r.from = 0 /\ q.from = begun
      BY DEF Span
    <3> HIDE DEF r, q
    <3> QED BY <2>3, <3>1, <3>2 DEF SameLeaves
  <2> HIDE DEF r, q
  <2>5. Roots(data)[r] = Roots(Log)[q]
    BY <1>1, <2>1, <2>3, <2>4, SameRoot
  <2> QED BY <1>3, <2>2, <2>5 DEF IsRootOf, MerkleRoot, r
<1> QED BY <1>2, <1>3

\* The streamed roots are those of the trees of the leaves (merkle.go, "that fold
\* is byte-identical to Root over the same leaves"), for logs of every length.
THEOREM StreamedRoots == StreamSpec => []StreamedRootIsTreeRoot
<1>1. StreamInv => StreamedRootIsTreeRoot
  <2> SUFFICES ASSUME StreamInv PROVE StreamedRootIsTreeRoot
    OBVIOUS
  <2>1. Begun \in Nat /\ Begun + Len(sinceReset) = Len(leaves)
    BY DEF StreamInv, Begun
  <2>2. IsRootOf(cumulativeStack, leaves)
    <3>1. /\ 0 + Len(leaves) = Len(leaves)
          /\ \A i \in 1..Len(leaves) : leaves[i] = 0 + i
      BY DEF StreamInv
    <3> QED BY <3>1, RootOfNumbered DEF StreamInv
  <2>3. IsRootOf(checkpointStack, sinceReset)
    BY <2>1, RootOfNumbered DEF StreamInv
  <2> QED BY <2>2, <2>3 DEF StreamedRootIsTreeRoot
<1> QED BY <1>1, StreamInvariant, PTL

\* A stack holds one subtree per set bit of the leaf count (merkle.go, Stack): the
\* sizes are powers of two, strictly descending, and they add up to it.
THEOREM OneSubtreePerSetBit == StreamSpec => []OneSubtreePerBit
<1> DEFINE Bits(stack, n) ==
             /\ \A i \in DOMAIN stack : IsPowerOfTwo(stack[i].size)
             /\ \A i, j \in DOMAIN stack : i < j => stack[i].size > stack[j].size
             /\ LET total[i \in 0..Len(stack)] ==
                      IF i = 0 THEN 0 ELSE total[i - 1] + stack[i].size
                IN total[Len(stack)] = n
<1>1. ASSUME NEW from, NEW to, NEW stack, IsStackOf(stack, Log, from, to)
      PROVE  Bits(stack, to - from)
  <2>1. stack \in Seq(Subtrees(Log)) /\ DOMAIN stack = 1..Len(stack)
    BY <1>1, StackFits
  <2>2. ASSUME NEW i \in DOMAIN stack PROVE IsPowerOfTwo(stack[i].size)
    <3>1. stack[i].size \in Powers /\ stack[i].size \in Nat
      BY <2>1, SizesArePowers
    <3> QED BY <3>1, IsPowerOfTwoIsPower
  <2>3. \A i, j \in DOMAIN stack : i < j => stack[i].size > stack[j].size
    BY <1>1, <2>1, DescendingAll DEF IsStackOf
  <2>4. LET total[i \in 0..Len(stack)] ==
                      IF i = 0 THEN 0 ELSE total[i - 1] + stack[i].size
                IN total[Len(stack)] = to - from
    BY <1>1, SizesTotal
  <2> QED BY <2>2, <2>3, <2>4
<1>2. StreamInv => OneSubtreePerBit
  <2> SUFFICES ASSUME StreamInv PROVE OneSubtreePerBit
    OBVIOUS
  <2>1. Len(leaves) - Begun = Len(sinceReset) /\ Len(leaves) - 0 = Len(leaves)
    BY DEF StreamInv, Begun
  <2> HIDE DEF Bits
  <2>2. Bits(cumulativeStack, Len(leaves)) /\ Bits(checkpointStack, Len(sinceReset))
    <3>1. Bits(cumulativeStack, Len(leaves) - 0) /\ Bits(checkpointStack, Len(leaves) - Begun)
      BY <1>1 DEF StreamInv
    <3> QED BY <2>1, <3>1
  <2>3. \A p \in {<<cumulativeStack, leaves>>, <<checkpointStack, sinceReset>>} : Bits(p[1], Len(p[2]))
    BY <2>2
  <2> QED BY Zenon, <2>3 DEF Bits, OneSubtreePerBit
<1> QED BY <1>2, StreamInvariant, PTL

\* Collector.Nodes (consistency.go) returns the nodes "in the order ConsistencyProof
\* would return them" when the new tree is complete and never before, for any sizes.
THEOREM CollectedProofs == StreamSpec => []CollectedProofIsTheProof
<1>1. StreamInv => CollectedProofIsTheProof
  <2> SUFFICES ASSUME StreamInv PROVE CollectedProofIsTheProof
    OBVIOUS
  <2> DEFINE n == proofCollector.newSize
             t == Len(leaves)
             data == SubSeq(Log, 1, n)
  <2>1. /\ n \in 1..MaxLeaves /\ oldSize \in 1..n /\ t \in Nat
        /\ Collects(proofCollector, oldSize, n, Log, t)
        /\ leaves \in Seq(Nat) /\ \A i \in 1..t : leaves[i] = i
    BY DEF StreamInv
  <2>2. Log \in Seq(Nat) /\ Len(Log) = MaxLeaves /\ \A i \in 1..MaxLeaves : Log[i] = i
    BY LogLength, MerkleStreamAssumption DEF Log
  <2> HIDE DEF n, t
  <2>3. data \in Seq(Nat) /\ Len(data) = n /\ \A i \in 1..n : data[i] = Log[i]
    BY <2>1, <2>2, FirstMembers
  <2> HIDE DEF data
  <2>4. /\ Complete(proofCollector) <=> t >= n
        /\ Complete(proofCollector) => Nodes(proofCollector) = ConsistencyProof(data, oldSize)
    <3>1. /\ Len(data) \in 1..Len(Log) /\ Len(Log) \in Nat /\ oldSize \in 1..Len(data)
          /\ Collects(proofCollector, oldSize, Len(data), Log, t)
          /\ \A i \in 1..Len(data) : data[i] = Log[i]
      BY <2>1, <2>2, <2>3
    <3>2. /\ Complete(proofCollector) <=> t >= Len(data)
          /\ Complete(proofCollector) => Nodes(proofCollector) = ConsistencyProof(data, oldSize)
      BY <2>1, <3>1, CollectedNodes
    <3> QED BY <2>3, <3>2
  <2>5. t >= n => Collected = data
    <3> HAVE t >= n
    <3>1. SubSeq(leaves, 1, n) \in Seq(Nat) /\ Len(SubSeq(leaves, 1, n)) = n
          /\ \A i \in 1..n : SubSeq(leaves, 1, n)[i] = leaves[i]
      BY <2>1, FirstMembers DEF t
    <3>2. \A i \in 1..n : leaves[i] = Log[i]
      BY <2>1, <2>2
    <3>3. SubSeq(leaves, 1, n) = data
      BY SMTT(30), <2>1, <2>3, <3>1, <3>2
    <3> QED BY <3>3 DEF Collected, n
  <2> QED BY <2>4, <2>5 DEF CollectedProofIsTheProof, n, t
<1> QED BY <1>1, StreamInvariant, PTL

\* Whatever is done to the nodes of a proof, they remain a sequence of hashes.
LEMMA AlteredIsSequence ==
  ASSUME NEW S, NEW proof \in Seq(S), LeafHash(0) \in S, NEW p \in Altered(proof)
  PROVE  p \in Seq(S)
<1> DEFINE h == LeafHash(0)
<1>1. Len(proof) \in Nat /\ DOMAIN proof = 1..Len(proof) /\ h \in S
  OBVIOUS
<1>2. LeafHash(0) = h
  BY Zenon DEF LeafHash, LeafHash
<1> HIDE DEF h
<1>3. \/ \E i \in DOMAIN proof : p = [proof EXCEPT ![i] = h]
      \/ \E i, j \in DOMAIN proof : p = [proof EXCEPT ![i] = proof[j], ![j] = proof[i]]
      \/ \E i \in DOMAIN proof : p = RemoveAt(proof, i)
      \/ \E i \in 1..(Len(proof) + 1) : p = InsertAt(proof, i, h)
  BY <1>2 DEF Altered
<1>4. CASE \E i \in DOMAIN proof : p = [proof EXCEPT ![i] = h]
  BY <1>1, <1>4
<1>5. CASE \E i, j \in DOMAIN proof : p = [proof EXCEPT ![i] = proof[j], ![j] = proof[i]]
  BY <1>1, <1>5
<1>6. CASE \E i \in DOMAIN proof : p = RemoveAt(proof, i)
  BY <1>1, <1>6 DEF RemoveAt
<1>7. CASE \E i \in 1..(Len(proof) + 1) : p = InsertAt(proof, i, h)
  <2>1. PICK i \in 1..(Len(proof) + 1) : p = InsertAt(proof, i, h)
    BY <1>7
  <2>2. SubSeq(proof, 1, i - 1) \in Seq(S) /\ SubSeq(proof, i, Len(proof)) \in Seq(S)
        /\ <<h>> \in Seq(S)
    BY <1>1
  <2> QED BY <2>1, <2>2 DEF InsertAt
<1> QED BY <1>3, <1>4, <1>5, <1>6, <1>7

\* ConsistencyVerify (consistency.go): of all old roots, new roots and altered
\* proofs only the true ones are accepted, for any two sizes.
THEOREM OnlyTruePrefixes == StreamSpec => []OnlyATruePrefixVerifies
<1>1. StreamInv => OnlyATruePrefixVerifies
  <2> SUFFICES ASSUME StreamInv, Len(leaves) = proofCollector.newSize
               PROVE  OnlyATruePrefixVerifies
    BY DEF OnlyATruePrefixVerifies
  <2> DEFINE n == Len(leaves)
             m == oldSize
             proof == ConsistencyProof(leaves, m)
             old == MerkleRoot(SubSeq(leaves, 1, m))
             new == MerkleRoot(leaves)
             S == Hashes(leaves) \cup {LeafHash(0)}
  <2>1. leaves \in Seq(Nat) /\ n \in Nat \ {0} /\ m \in 1..n /\ n = proofCollector.newSize
    BY DEF StreamInv
  <2>2. old = Roots(leaves)[Span(0, m)]
    BY <2>1, RootOfSubSeq
  <2>3. proof \in Seq(S)
    <3>1. PathIsProof(leaves, m, Span(0, n))
      <4>1. Span(0, n) \in Spans(n) /\ Size(Span(0, n)) = n
        BY <2>1 DEF Spans, Span, Size
      <4> QED BY <2>1, <4>1, PathsAreProofs
    <3>2. proof \in Seq(Hashes(leaves))
      BY <3>1 DEF PathIsProof, ProofOf, ConsistencyProof
    <3> HIDE DEF proof
    <3> QED BY <3>2
  <2>4. \A r, p : p \in Seq(S) => (ConsistencyVerify(m, n, r, new, p) <=> r = old /\ p = proof)
    <3> TAKE r, p
    <3> HAVE p \in Seq(S)
    <3> HIDE DEF S
    <3> QED BY <2>1, <2>2, OnlyTheProofVerifies
  <2>5. \A r : ConsistencyVerify(m, n, old, r, proof) => r = new
    BY <2>1, <2>2, OnlyTheRootIsReached
  <2>6. \A p \in Altered(proof) : p \in Seq(S)
    <3> HIDE DEF proof
    <3> QED BY <2>3, AlteredIsSequence
  <2> HIDE DEF n, m, proof, old, new, S
  <2>7. /\ ConsistencyVerify(m, n, old, new, proof)
        /\ \A r : r # old => ~ConsistencyVerify(m, n, r, new, proof)
        /\ \A r : r # new => ~ConsistencyVerify(m, n, old, r, proof)
        /\ \A p \in Altered(proof) \ {proof} : ~ConsistencyVerify(m, n, old, new, p)
    BY <2>3, <2>4, <2>5, <2>6
  <2>8. /\ MerkleRoot(SubSeq(leaves, 1, oldSize)) = old
        /\ MerkleRoot(leaves) = new
        /\ ConsistencyProof(leaves, oldSize) = proof
    BY DEF old, new, proof, m
  <2>9. n = proofCollector.newSize /\ m = oldSize
    BY <2>1 DEF m
  <2> QED BY Zenon, <2>7, <2>8, <2>9 DEF OnlyATruePrefixVerifies
<1> QED BY <1>1, StreamInvariant, PTL

-----------------------------------------------------------------------------
(* The run: what is known of the bundle being walked and of those before.  *)

Active == {"open", "walk", "sigilsign", "consistency.json"}
Walking == {"walk", "sigilsign", "consistency.json"}
Modes  == {"verify", "consistency-bundles", "consistency-recorded-root"}

Clean(b) == b.trouble \in {"none", "unconfirmed"}
Failed   == results["content_integrity"] = "fail"

\* A captured root is that of the events up to its size.
CapturedOf(b, captured) ==
  /\ DOMAIN captured \subseteq {b.events[j].seq : j \in DOMAIN b.events}
  /\ Clean(b) => \A size \in DOMAIN captured :
       /\ b.from = 1 /\ size \in 1..b.to
       /\ captured[size] = Roots(Entries(b))[Span(0, size)]

\* What remains of a bundle that was walked: a fault found in it has failed.
WalkedOf(b, w, failed) ==
  /\ w.stream = b.stream /\ w.from = b.from /\ w.to = b.to
  /\ CapturedOf(b, w.roots)
  /\ b.trouble # "error" /\ (b.trouble = "fail" => failed)
  /\ SigilSignProblem(b) => failed
  /\ ConsistencyFileProblem(b.consistency, b.from, b.to, w.roots) => failed

PhaseInv ==
  /\ args \in Invocations
  /\ results \in Verdicts
  /\ phase \in {"start", "elsewhere", "end"} \cup Active \cup Modes
  /\ exitCode \in {NotEnded, ExitPass, ExitFail, ExitError, ExitUnconfirmed}
  /\ phase # "end" => exitCode = NotEnded
  /\ phase = "start" => walked = <<>>
  /\ Len(walked) \in Nat /\ DOMAIN walked = 1..Len(walked)
  /\ Len(walked) <= Len(args.targets)
  /\ phase \in Active => Len(walked) < Len(args.targets) /\ Mode(args) \in Modes
  /\ phase \in Active \cup Modes => ~args.help
  /\ phase \in Modes => phase = Mode(args) /\ Len(walked) = Len(args.targets)

WalkedInv == \A i \in 1..Len(walked) : WalkedOf(args.targets[i], walked[i], Failed)

\* Only when the walk is over are its findings results.
BundleInv ==
  /\ phase \in Walking =>
       /\ at \in 0..Len(Bundle.events)
       /\ IsStackOf(cumulative, Entries(Bundle), 0, at)
       /\ CapturedOf(Bundle, roots)
  /\ phase \in {"sigilsign", "consistency.json"} =>
       /\ at = Len(Bundle.events)
       /\ Bundle.trouble # "error" /\ (Bundle.trouble = "fail" => Failed)
  /\ phase = "consistency.json" => (SigilSignProblem(Bundle) => Failed)

\* A run that is not refuted has compared everything and failed nothing.
EndInv ==
  /\ offered # None => offered.size \in Nat
  /\ Held =>
       /\ Mode(args) \in Modes /\ Len(walked) = Len(args.targets)
       /\ ~Some(results, "fail")
       /\ Mode(args) = "consistency-bundles" =>
            ~ConsistencyProblem(walked[1], walked[2], FALSE)
       /\ Mode(args) = "consistency-recorded-root" =>
            ~RecordedStateProblem(walked[1], args.size, args.root)

RunInv == PhaseInv /\ WalkedInv /\ BundleInv /\ EndInv

LEMMA EntriesOf ==
  ASSUME NEW b, IsSequence(b.events)
  PROVE  /\ Len(b.events) \in Nat /\ DOMAIN b.events = 1..Len(b.events)
         /\ Len(Entries(b)) = Len(b.events)
         /\ \A i \in 1..Len(b.events) : Entries(b)[i] = b.events[i].entry
         /\ Entries(b) \in Seq({b.events[i].entry : i \in DOMAIN b.events})
<1>1. Len(b.events) \in Nat /\ DOMAIN b.events = 1..Len(b.events)
  BY DEF IsSequence
<1>2. Entries(b) = [i \in 1..Len(b.events) |-> b.events[i].entry]
  BY <1>1 DEF Entries
<1> QED BY <1>1, <1>2

\* A failure stays: nothing a step does to the results takes it back.
LEMMA FailureStays ==
  ASSUME NEW r \in Verdicts, NEW problem
  PROVE  /\ FailIf(problem, r, "content_integrity") \in Verdicts
         /\ r["content_integrity"] = "fail" =>
              FailIf(problem, r, "content_integrity")["content_integrity"] = "fail"
         /\ problem => FailIf(problem, r, "content_integrity")["content_integrity"] = "fail"
<1>1. "content_integrity" \in Results
  BY DEF Results
<1>2. FailIf(problem, r, "content_integrity") \in Verdicts
  BY <1>1, FailIfType
<1>3. CASE problem
  BY <1>1, <1>2, <1>3, ReportFails DEF FailIf
<1>4. CASE ~problem
  BY <1>2, <1>4 DEF FailIf
<1> QED BY <1>3, <1>4

LEMMA RunInit == Init => RunInv
<1> SUFFICES ASSUME Init PROVE RunInv
  OBVIOUS
<1>1. /\ args \in Invocations /\ phase = "start" /\ walked = <<>> /\ results = NewResults
      /\ exitCode = NotEnded /\ offered = None /\ Len(walked) = 0
  BY DEF Init
<1>2. results \in Verdicts
  BY <1>1 DEF NewResults, Verdicts, States
<1>3. Len(args.targets) \in Nat
  BY <1>1, InvocationAssumption DEF IsSequence
<1>4. PhaseInv
  BY <1>1, <1>2, <1>3 DEF PhaseInv, Active, Modes
<1>5. WalkedInv /\ BundleInv
  BY <1>1 DEF WalkedInv, BundleInv, Walking
<1>6. EndInv
  BY <1>1 DEF EndInv, Held, NotEnded, ExitPass, ExitUnconfirmed
<1> QED BY <1>4, <1>5, <1>6 DEF RunInv

\* What each mode says of the command line.
LEMMA ModeIs ==
  ASSUME NEW a \in Invocations
  PROVE  /\ Len(a.targets) \in Nat /\ DOMAIN a.targets = 1..Len(a.targets)
         /\ \A i \in 1..Len(a.targets) : BundleShape(a.targets[i])
         /\ Mode(a) \in {"receipt", "reconcile", "usage"} \cup Modes
         /\ Mode(a) = "verify" => Len(a.targets) = 1 /\ ~a.consistency
         /\ Mode(a) = "consistency-bundles" => Len(a.targets) = 2 /\ a.consistency
         /\ Mode(a) = "consistency-recorded-root" =>
              /\ Len(a.targets) = 1 /\ a.consistency
              /\ a.root # None /\ a.size # None /\ a.size \in Int
<1>1. /\ Len(a.targets) \in Nat /\ DOMAIN a.targets = 1..Len(a.targets)
      /\ \A i \in 1..Len(a.targets) : BundleShape(a.targets[i])
      /\ {a.help, a.loads, a.receipt, a.reconcile, a.consistency} \subseteq BOOLEAN
      /\ a.size \in Int \cup {None}
  <2>1. /\ IsSequence(a.targets) /\ \A i \in DOMAIN a.targets : BundleShape(a.targets[i])
        /\ {a.help, a.loads, a.receipt, a.reconcile, a.consistency} \subseteq BOOLEAN
        /\ a.size \in Int \cup {None}
    BY InvocationAssumption
  <2>2. Len(a.targets) \in Nat /\ DOMAIN a.targets = 1..Len(a.targets)
    BY <2>1 DEF IsSequence
  <2> QED BY <2>1, <2>2
<1>2. /\ a.receipt \in BOOLEAN /\ a.reconcile \in BOOLEAN /\ a.consistency \in BOOLEAN
  BY <1>1
<1>3. Mode(a) \in {"receipt", "reconcile", "usage"} \cup Modes
  BY <1>2 DEF Mode, Modes
<1>4. Mode(a) = "verify" => Len(a.targets) = 1 /\ ~a.consistency
  BY <1>2 DEF Mode
<1>5. Mode(a) = "consistency-bundles" => Len(a.targets) = 2 /\ a.consistency
  BY <1>2 DEF Mode
<1>6. Mode(a) = "consistency-recorded-root" =>
        Len(a.targets) = 1 /\ a.consistency /\ a.root # None /\ a.size # None
  BY <1>2 DEF Mode
<1> QED BY <1>1, <1>3, <1>4, <1>5, <1>6

\* The bundle being walked is one of those named.
LEMMA BundleIs ==
  ASSUME PhaseInv, phase \in Active
  PROVE  /\ Len(walked) + 1 \in 1..Len(args.targets)
         /\ BundleShape(Bundle) /\ IsSequence(Bundle.events)
<1>1. Len(walked) + 1 \in 1..Len(args.targets)
  BY ModeIs DEF PhaseInv
<1> QED BY <1>1, ModeIs DEF PhaseInv, Bundle, BundleShape

\* What was found of the bundles walked before stays found.
LEMMA WalkedStays ==
  ASSUME WalkedInv, UNCHANGED <<args, walked>>, Failed => Failed'
  PROVE  WalkedInv'
<1>1. ASSUME NEW b, NEW w, WalkedOf(b, w, Failed) PROVE WalkedOf(b, w, Failed')
  BY <1>1 DEF WalkedOf
<1> QED BY <1>1 DEF WalkedInv

\* Before the end nothing is held.
LEMMA NotHeld ==
  ASSUME EndInv, UNCHANGED offered,
         args'.help \/ exitCode' \notin {ExitPass, ExitUnconfirmed}
  PROVE  EndInv'
BY DEF EndInv, Held

LEMMA DispatchKeeps ==
  ASSUME RunInv, Dispatch
  PROVE  RunInv'
<1>1. /\ phase = "start" /\ walked = <<>> /\ args \in Invocations
      /\ UNCHANGED <<args, walked, walk, results, offered>>
  BY DEF RunInv, PhaseInv, Dispatch
<1>2. args.help \in BOOLEAN /\ args.loads \in BOOLEAN
  BY <1>1, InvocationAssumption
<1>3. \/ phase' = "end" /\ exitCode' \in {ExitPass, ExitError}
         /\ (exitCode' = ExitPass => args.help)
      \/ /\ ~args.help /\ Mode(args) # "usage" /\ exitCode' = exitCode
         /\ phase' = IF Mode(args) \in {"receipt", "reconcile"} THEN "elsewhere" ELSE "open"
  BY <1>2 DEF Dispatch, End, ExitPass, ExitError
<1>4. PhaseInv'
  <2>1. Mode(args)' = Mode(args)
    BY <1>1 DEF Mode
  <2>2. CASE phase' = "end" /\ exitCode' \in {ExitPass, ExitError}
    BY <1>1, <2>2 DEF RunInv, PhaseInv, Active, Modes
  <2>3. CASE phase' = "elsewhere" /\ exitCode' = exitCode
    BY <1>1, <2>3 DEF RunInv, PhaseInv, Active, Modes
  <2>4. CASE phase' = "open" /\ exitCode' = exitCode /\ ~args.help /\ Mode(args) \in Modes
    <3>1. Len(args.targets) \in Nat /\ Len(args.targets) >= 1
      BY SMTT(30), <1>1, <2>4, ModeIs DEF Modes
    <3> QED BY <1>1, <2>1, <2>4, <3>1 DEF RunInv, PhaseInv, Active, Modes
  <2> QED BY <1>1, <1>3, <2>2, <2>3, <2>4, ModeIs
<1>5. WalkedInv'
  BY <1>1, WalkedStays DEF RunInv, Failed
<1>6. BundleInv'
  BY <1>3 DEF BundleInv, Walking
<1>7. EndInv'
  <2>1. args'.help \/ exitCode' \notin {ExitPass, ExitUnconfirmed}
    BY <1>1, <1>3 DEF RunInv, PhaseInv, NotEnded, ExitPass, ExitError, ExitUnconfirmed
  <2> QED BY <1>1, <2>1, NotHeld DEF RunInv
<1> QED BY <1>4, <1>5, <1>6, <1>7 DEF RunInv

LEMMA OpenKeeps ==
  ASSUME RunInv, Open
  PROVE  RunInv'
<1>1. /\ phase = "open" /\ phase' = "walk" /\ at' = 0 /\ cumulative' = EmptyStack /\ roots' = <<>>
      /\ UNCHANGED <<args, walked, results, exitCode, offered>>
  BY DEF Open, Begin
<1>2. PhaseInv'
  <2>1. Mode(args)' = Mode(args)
    BY <1>1 DEF Mode
  <2> QED BY <1>1, <2>1 DEF RunInv, PhaseInv, Active, Modes
<1>3. WalkedInv'
  BY <1>1, WalkedStays DEF RunInv, Failed
<1>4. Bundle' = Bundle
  BY <1>1 DEF Bundle
<1>5. BundleInv'
  <2>1. IsSequence(Bundle.events)
    BY <1>1, BundleIs DEF RunInv, Active
  <2>2. Len(Bundle.events) \in Nat /\ Len(Entries(Bundle)) = Len(Bundle.events)
    BY <2>1, EntriesOf
  <2>3. IsStackOf(EmptyStack, Entries(Bundle), 0, 0)
    BY <2>2, EmptyStackHolds
  <2>4. CapturedOf(Bundle, <<>>)
    BY DEF CapturedOf
  <2> QED BY <1>1, <1>4, <2>2, <2>3, <2>4 DEF BundleInv, Walking
<1>6. EndInv'
  BY <1>1, NotHeld DEF RunInv, PhaseInv, NotEnded, ExitPass, ExitUnconfirmed
<1> QED BY <1>2, <1>3, <1>5, <1>6 DEF RunInv

LEMMA StopKeeps ==
  ASSUME RunInv, Stop
  PROVE  RunInv'
<1>1. /\ phase' = "end" /\ exitCode' \in {ExitFail, ExitError}
      /\ UNCHANGED <<args, walked, walk, results, offered>>
  BY DEF Stop, End
<1>2. PhaseInv'
  BY <1>1 DEF RunInv, PhaseInv, Active, Modes
<1>3. WalkedInv'
  BY <1>1, WalkedStays DEF RunInv, Failed
<1>4. BundleInv'
  BY <1>1 DEF BundleInv, Walking
<1>5. EndInv'
  BY <1>1, NotHeld DEF RunInv, ExitPass, ExitUnconfirmed, ExitFail, ExitError
<1> QED BY <1>2, <1>3, <1>4, <1>5 DEF RunInv

\* One more event has gone past: its root may be captured.
LEMMA WalkEventKeeps ==
  ASSUME RunInv, WalkEvent
  PROVE  RunInv'
<1> DEFINE b == Bundle
           L == Entries(Bundle)
           event == Bundle.events[at + 1]
<1>1. /\ phase = "walk" /\ at < Len(b.events) /\ at' = at + 1
      /\ cumulative' = StackAppend(cumulative, event.entry)
      /\ \/ roots' = roots
         \/ b.from = 1 /\ roots' = Recorded(event.seq, StackRoot(cumulative'))
      /\ UNCHANGED <<args, phase, walked, results, exitCode, offered>>
  BY DEF WalkEvent
<1>2. PhaseInv'
  <2>1. Mode(args)' = Mode(args)
    BY <1>1 DEF Mode
  <2> QED BY <1>1, <2>1 DEF RunInv, PhaseInv, Active, Modes
<1>3. WalkedInv'
  BY <1>1, WalkedStays DEF RunInv, Failed
<1>4. b' = b
  BY <1>1 DEF Bundle
<1>5. BundleShape(b) /\ IsSequence(b.events)
  BY <1>1, BundleIs DEF RunInv, Active
<1>6. /\ Len(b.events) \in Nat /\ Len(L) = Len(b.events)
      /\ DOMAIN b.events = 1..Len(b.events) /\ \A i \in 1..Len(b.events) : L[i] = b.events[i].entry
  BY <1>5, EntriesOf
<1>7. /\ at \in 0..Len(b.events) /\ IsStackOf(cumulative, L, 0, at) /\ CapturedOf(b, roots)
  BY <1>1 DEF RunInv, BundleInv, Walking
<1>8. at + 1 \in 1..Len(b.events) /\ at < Len(L) /\ L[at + 1] = event.entry
  BY <1>1, <1>6, <1>7
<1>9. IsStackOf(cumulative', L, 0, at + 1)
  BY <1>1, <1>6, <1>7, <1>8, StackAppendHolds
<1>10. StackRoot(cumulative') = Roots(L)[Span(0, at + 1)]
  BY <1>6, <1>8, <1>9, StackRootIs
<1>11. CapturedOf(b, roots')
  <2>1. CASE roots' = roots
    BY <1>7, <2>1
  <2>2. CASE b.from = 1 /\ roots' = Recorded(event.seq, StackRoot(cumulative'))
    <3>1. /\ DOMAIN roots' = DOMAIN roots \cup {event.seq}
          /\ roots'[event.seq] = StackRoot(cumulative')
          /\ \A n \in DOMAIN roots : n # event.seq => roots'[n] = roots[n]
      BY <2>2 DEF Recorded
    <3>2. DOMAIN roots' \subseteq {b.events[j].seq : j \in DOMAIN b.events}
      BY <1>6, <1>7, <1>8, <3>1 DEF CapturedOf
    <3>3. ASSUME Clean(b), NEW n \in DOMAIN roots'
          PROVE  /\ b.from = 1 /\ n \in 1..b.to
                 /\ roots'[n] = Roots(Entries(b))[Span(0, n)]
      <4>1. /\ Len(b.events) = b.to - b.from + 1 /\ b.to \in Int /\ b.from \in Int
            /\ \A i \in DOMAIN b.events : b.events[i].seq = b.from + i - 1
        BY <1>5, <3>3 DEF BundleShape, Clean
      <4>2. event.seq = at + 1
        <5>1. at + 1 \in DOMAIN b.events /\ at \in Nat
          BY <1>6, <1>7, <1>8
        <5>2. event.seq = b.from + (at + 1) - 1
          BY <4>1, <5>1
        <5> QED BY <2>2, <5>1, <5>2
      <4>3. CASE n = event.seq
        BY <1>7, <1>8, <1>10, <2>2, <3>1, <4>1, <4>2, <4>3
      <4>4. CASE n # event.seq
        BY <1>7, <3>1, <3>3, <4>4 DEF CapturedOf
      <4> QED BY <4>3, <4>4
    <3> QED BY <3>2, <3>3 DEF CapturedOf
  <2> QED BY <1>1, <2>1, <2>2
<1>12. BundleInv'
  BY <1>1, <1>4, <1>8, <1>9, <1>11 DEF BundleInv, Walking
<1>13. EndInv'
  BY <1>1, NotHeld DEF RunInv, PhaseInv, NotEnded, ExitPass, ExitUnconfirmed
<1> QED BY <1>2, <1>3, <1>12, <1>13 DEF RunInv

\* A step that only adds a finding to the results, on the way to another phase.
LEMMA EndWalkKeeps ==
  ASSUME RunInv, EndWalk
  PROVE  RunInv'
<1>1. /\ phase = "walk" /\ at = Len(Bundle.events) /\ Bundle.trouble # "error"
      /\ phase' = "sigilsign" /\ UNCHANGED <<args, walked, walk, exitCode, offered>>
  BY DEF EndWalk
<1>2. Bundle.trouble \in {"none", "unconfirmed", "fail"} /\ results \in Verdicts
  BY <1>1, BundleIs DEF RunInv, PhaseInv, Active, BundleShape
<1>3. \/ Bundle.trouble = "none" /\ results' = results
      \/ Bundle.trouble = "unconfirmed" /\ results' = Unconfirmed(results, "signing_identity")
      \/ Bundle.trouble = "fail" /\ results' = Report(results, "content_integrity")
  BY <1>2 DEF EndWalk
<1>4. "content_integrity" \in Results /\ "signing_identity" \in Results /\ "unconfirmed" \in States
  BY DEF Results, States
<1>5. /\ results' \in Verdicts /\ (Failed => Failed')
      /\ (Bundle.trouble = "fail" => Failed')
  <2>1. CASE Bundle.trouble = "none" /\ results' = results
    BY <1>2, <2>1 DEF Failed
  <2>2. CASE Bundle.trouble = "unconfirmed" /\ results' = Unconfirmed(results, "signing_identity")
    <3>1. results' \in Verdicts
      BY <1>2, <1>4, <2>2, DemoteType DEF Unconfirmed
    <3>2. results'["content_integrity"] = results["content_integrity"]
      BY <1>2, <1>4, <2>2 DEF Unconfirmed, Demote, Verdicts
    <3> QED BY <2>2, <3>1, <3>2 DEF Failed
  <2>3. CASE Bundle.trouble = "fail" /\ results' = Report(results, "content_integrity")
    BY <1>2, <1>4, <2>3, ReportFails DEF Failed
  <2> QED BY <1>3, <2>1, <2>2, <2>3
<1>6. PhaseInv'
  <2>1. Mode(args)' = Mode(args)
    BY <1>1 DEF Mode
  <2> QED BY <1>1, <1>5, <2>1 DEF RunInv, PhaseInv, Active, Modes
<1>7. WalkedInv'
  BY <1>1, <1>5, WalkedStays DEF RunInv
<1>8. BundleInv'
  <2>1. Bundle' = Bundle
    BY <1>1 DEF Bundle
  <2>2. UNCHANGED <<at, cumulative, roots>>
    BY <1>1 DEF walk
  <2> QED BY <1>1, <1>5, <2>1, <2>2 DEF RunInv, BundleInv, Walking
<1>9. EndInv'
  BY <1>1, NotHeld DEF RunInv, PhaseInv, NotEnded, ExitPass, ExitUnconfirmed
<1> QED BY <1>6, <1>7, <1>8, <1>9 DEF RunInv

LEMMA CheckSigilSignKeeps ==
  ASSUME RunInv, CheckSigilSign
  PROVE  RunInv'
<1>1. /\ phase = "sigilsign" /\ phase' = "consistency.json"
      /\ results' = FailIf(SigilSignProblem(Bundle), results, "content_integrity")
      /\ UNCHANGED <<args, walked, walk, exitCode, offered>>
  BY DEF CheckSigilSign
<1>2. /\ results' \in Verdicts /\ (Failed => Failed')
      /\ (SigilSignProblem(Bundle) => Failed')
  BY <1>1, FailureStays DEF RunInv, PhaseInv, Failed
<1>3. PhaseInv'
  <2>1. Mode(args)' = Mode(args)
    BY <1>1 DEF Mode
  <2> QED BY <1>1, <1>2, <2>1 DEF RunInv, PhaseInv, Active, Modes
<1>4. WalkedInv'
  BY <1>1, <1>2, WalkedStays DEF RunInv
<1>5. BundleInv'
  <2>1. Bundle' = Bundle
    BY <1>1 DEF Bundle
  <2>2. UNCHANGED <<at, cumulative, roots>>
    BY <1>1 DEF walk
  <2> QED BY <1>1, <1>2, <2>1, <2>2 DEF RunInv, BundleInv, Walking
<1>6. EndInv'
  BY <1>1, NotHeld DEF RunInv, PhaseInv, NotEnded, ExitPass, ExitUnconfirmed
<1> QED BY <1>3, <1>4, <1>5, <1>6 DEF RunInv

\* The bundle is done with: what remains of it is as WalkedOf says.
LEMMA CheckConsistencyFileKeeps ==
  ASSUME RunInv, CheckConsistencyFile
  PROVE  RunInv'
<1> DEFINE b == Bundle
           n == Len(walked)
           nodes == IF collector # NoCollector /\ Complete(collector) THEN Nodes(collector) ELSE None
           w == [stream |-> b.stream, from |-> b.from, to |-> b.to, roots |-> roots,
                 nodes |-> nodes]
           problem == ConsistencyFileProblem(b.consistency, b.from, b.to, roots)
<1>1. /\ phase = "consistency.json" /\ results' = FailIf(problem, results, "content_integrity")
      /\ walked' = Append(walked, w)
      /\ phase' = IF Len(walked') < Len(args.targets) THEN "open" ELSE Mode(args)
      /\ UNCHANGED <<args, walk, exitCode, offered>>
  BY DEF CheckConsistencyFile
<1>2. results' \in Verdicts /\ (Failed => Failed') /\ (problem => Failed')
  <2> HIDE DEF problem
  <2> QED BY <1>1, FailureStays DEF RunInv, PhaseInv, Failed
<1>3. /\ n \in Nat /\ n + 1 \in 1..Len(args.targets) /\ Len(args.targets) \in Nat
      /\ Mode(args) \in Modes /\ ~args.help /\ args \in Invocations
  BY <1>1, BundleIs, ModeIs DEF RunInv, PhaseInv, Active
<1> HIDE DEF nodes
<1>4. /\ w.stream = b.stream /\ w.from = b.from /\ w.to = b.to /\ w.roots = roots
  OBVIOUS
<1> HIDE DEF w
<1>5. /\ Len(walked') = n + 1 /\ walked'[n + 1] = w /\ DOMAIN walked' = 1..Len(walked')
      /\ \A i \in 1..n : walked'[i] = walked[i]
  BY <1>1, <1>3
<1>6. PhaseInv'
  <2>1. Mode(args)' = Mode(args)
    BY <1>1 DEF Mode
  <2>2. CASE n + 1 < Len(args.targets)
    BY <1>1, <1>2, <1>3, <1>5, <2>1, <2>2 DEF RunInv, PhaseInv, Active, Modes
  <2>3. CASE n + 1 = Len(args.targets)
    BY <1>1, <1>2, <1>3, <1>5, <2>1, <2>3 DEF RunInv, PhaseInv, Active, Modes
  <2> QED BY <1>3, <2>2, <2>3
<1>7. WalkedInv'
  <2>1. WalkedOf(b, w, Failed')
    <3>1. /\ b.trouble # "error" /\ (b.trouble = "fail" => Failed)
          /\ (SigilSignProblem(b) => Failed) /\ CapturedOf(b, roots)
      BY <1>1 DEF RunInv, BundleInv, Walking
    <3> QED BY <1>2, <1>4, <3>1 DEF WalkedOf
  <2>2. ASSUME NEW i \in 1..n PROVE WalkedOf(args.targets[i], walked[i], Failed')
    <3>1. WalkedOf(args.targets[i], walked[i], Failed)
      BY DEF RunInv, WalkedInv
    <3> QED BY <1>2, <3>1 DEF WalkedOf
  <2>3. b = args.targets[n + 1]
    BY DEF Bundle
  <2>4. ASSUME NEW i \in 1..(n + 1) PROVE WalkedOf(args.targets[i], walked'[i], Failed')
    <3>1. CASE i = n + 1
      <4> HIDE DEF b
      <4> QED BY <1>5, <2>1, <2>3, <3>1
    <3>2. CASE i # n + 1
      BY <1>3, <1>5, <2>2, <3>2
    <3> QED BY <3>1, <3>2
  <2> QED BY <1>1, <1>5, <2>4 DEF WalkedInv
<1>8. BundleInv'
  BY <1>1, <1>3 DEF BundleInv, Walking, Modes
<1>9. EndInv'
  BY <1>1, NotHeld DEF RunInv, PhaseInv, NotEnded, ExitPass, ExitUnconfirmed
<1> QED BY <1>6, <1>7, <1>8, <1>9 DEF RunInv

\* What the end of a mode leaves.
LEMMA Finishes ==
  ASSUME RunInv, phase \in Modes, NEW problem, FinishWith(problem),
         offered' # None => offered'.size \in Nat
  PROVE  /\ PhaseInv' /\ WalkedInv' /\ BundleInv'
         /\ UNCHANGED <<args, walked>>
         /\ Held' => /\ Mode(args) \in Modes /\ Len(walked) = Len(args.targets)
                     /\ ~problem /\ results' = results
                     /\ ~Some(results, "fail")
<1>1. /\ results' = FailIf(problem, results, "content_integrity")
      /\ phase' = "end" /\ exitCode' = ExitCode(results')
      /\ UNCHANGED <<args, walked, walk>>
  BY DEF FinishWith, End
<1>2. results' \in Verdicts /\ (Failed => Failed') /\ (problem => Failed')
  BY <1>1, FailureStays DEF RunInv, PhaseInv, Failed
<1>3. exitCode' \in {ExitPass, ExitFail, ExitUnconfirmed}
  BY <1>1 DEF ExitCode
<1>4. PhaseInv'
  BY <1>1, <1>2, <1>3 DEF RunInv, PhaseInv, Active, Modes
<1>5. WalkedInv'
  BY <1>1, <1>2, WalkedStays DEF RunInv
<1>6. BundleInv'
  BY <1>1 DEF BundleInv, Walking
<1>7. ASSUME Held'
      PROVE  /\ Mode(args) \in Modes /\ Len(walked) = Len(args.targets)
             /\ ~problem /\ results' = results /\ ~Some(results, "fail")
  <2>1. exitCode' # ExitFail
    BY <1>7 DEF Held, ExitPass, ExitFail, ExitUnconfirmed
  <2>2. ~Some(results', "fail")
    BY <1>1, <2>1 DEF ExitCode
  <2>3. ~problem
    BY <1>2, <2>2 DEF Failed, Some, Results
  <2>4. results' = results
    BY <1>1, <2>3 DEF FailIf
  <2> QED BY <2>2, <2>3, <2>4 DEF RunInv, PhaseInv
<1> QED BY <1>1, <1>4, <1>5, <1>6, <1>7

\* OfferedState: an offered size is one whose root was captured.
LEMMA VerifyKeeps ==
  ASSUME RunInv, Verify
  PROVE  RunInv'
<1>1. /\ phase = "verify" /\ FinishWith(FALSE) /\ offered' = OfferedState(walked[1], results)
  BY DEF Verify
<1>2. /\ Mode(args) = "verify" /\ Len(walked) = Len(args.targets) /\ args \in Invocations
      /\ results \in Verdicts
  BY <1>1 DEF RunInv, PhaseInv, Modes
<1>3. Len(walked) = 1 /\ WalkedOf(args.targets[1], walked[1], Failed) /\ BundleShape(args.targets[1])
  BY <1>2, ModeIs DEF RunInv, WalkedInv
<1>4. ASSUME offered' # None PROVE offered'.size \in Nat
  <2>1. /\ ExitCode(results) # ExitFail /\ walked[1].to \in DOMAIN walked[1].roots
        /\ offered'.size = walked[1].to
    BY <1>1, <1>4 DEF OfferedState, RootAt
  <2>2. ~Failed
    <3>1. "content_integrity" \in Results
      BY DEF Results
    <3> QED BY <1>2, <2>1, <3>1, FailureDecidesExitCode DEF Failed
  <2>3. Clean(args.targets[1])
    BY <1>3, <2>2 DEF WalkedOf, BundleShape, Clean
  <2> QED BY <1>3, <2>1, <2>3 DEF WalkedOf, CapturedOf, BundleShape
<1>5. /\ PhaseInv' /\ WalkedInv' /\ BundleInv' /\ UNCHANGED <<args, walked>>
      /\ Held' => Len(walked) = Len(args.targets) /\ results' = results /\ ~Some(results, "fail")
  BY <1>1, <1>4, Finishes DEF Modes
<1>6. Mode(args)' = "verify"
  BY <1>2, <1>5 DEF Mode
<1>7. EndInv'
  BY <1>4, <1>5, <1>6 DEF EndInv, Modes
<1> QED BY <1>5, <1>7 DEF RunInv

LEMMA ConsistencyBundlesKeeps ==
  ASSUME RunInv, ConsistencyBundles
  PROVE  RunInv'
<1> DEFINE problem == ConsistencyProblem(walked[1], walked[2], Some(results, "fail"))
<1>1. /\ phase = "consistency-bundles" /\ FinishWith(problem) /\ offered' = offered
  BY DEF ConsistencyBundles
<1>2. offered' # None => offered'.size \in Nat
  BY <1>1 DEF RunInv, EndInv
<1>3. /\ PhaseInv' /\ WalkedInv' /\ BundleInv' /\ UNCHANGED <<args, walked>>
      /\ Held' => /\ Len(walked) = Len(args.targets) /\ ~problem /\ results' = results
                  /\ ~Some(results, "fail")
  <2> HIDE DEF problem
  <2> QED BY <1>1, <1>2, Finishes DEF Modes
<1>4. Mode(args)' = "consistency-bundles"
  BY <1>1, <1>3 DEF RunInv, PhaseInv, Mode, Modes
<1>5. Held' => ~ConsistencyProblem(walked[1], walked[2], FALSE)
  BY <1>3 DEF ConsistencyProblem
<1>6. EndInv'
  BY <1>2, <1>3, <1>4, <1>5 DEF EndInv, Modes
<1> QED BY <1>3, <1>6 DEF RunInv

LEMMA ConsistencyRecordedKeeps ==
  ASSUME RunInv, ConsistencyRecorded
  PROVE  RunInv'
<1> DEFINE problem == RecordedStateProblem(walked[1], args.size, args.root)
<1>1. /\ phase = "consistency-recorded-root" /\ FinishWith(problem) /\ offered' = offered
  BY DEF ConsistencyRecorded
<1>2. offered' # None => offered'.size \in Nat
  BY <1>1 DEF RunInv, EndInv
<1>3. /\ PhaseInv' /\ WalkedInv' /\ BundleInv' /\ UNCHANGED <<args, walked>>
      /\ Held' => /\ Len(walked) = Len(args.targets) /\ ~problem /\ results' = results
                  /\ ~Some(results, "fail")
  <2> HIDE DEF problem
  <2> QED BY <1>1, <1>2, Finishes DEF Modes
<1>4. Mode(args)' = "consistency-recorded-root"
  BY <1>1, <1>3 DEF RunInv, PhaseInv, Mode, Modes
<1>5. EndInv'
  BY <1>2, <1>3, <1>4 DEF EndInv, Modes
<1> QED BY <1>3, <1>5 DEF RunInv

LEMMA RunStep == RunInv /\ [Next]_vars => RunInv'
<1> SUFFICES ASSUME RunInv, [Next]_vars PROVE RunInv'
  OBVIOUS
<1>1. CASE UNCHANGED vars
  <2>1. /\ UNCHANGED <<args, phase, walked, at, cumulative, roots, results, exitCode, offered>>
    BY <1>1 DEF vars, walk
  <2>2. Mode(args)' = Mode(args) /\ Bundle' = Bundle
    BY <2>1 DEF Mode, Bundle
  <2>3. PhaseInv'
    BY <2>1, <2>2 DEF RunInv, PhaseInv
  <2>4. BundleInv'
    BY <2>1, <2>2 DEF RunInv, BundleInv, Failed
  <2>5. EndInv'
    BY <2>1, <2>2 DEF RunInv, EndInv, Held
  <2>6. WalkedInv'
    BY <2>1, WalkedStays DEF RunInv, Failed
  <2> QED BY <2>3, <2>4, <2>5, <2>6 DEF RunInv
<1> QED BY <1>1, DispatchKeeps, OpenKeeps, StopKeeps, WalkEventKeeps, EndWalkKeeps,
           CheckSigilSignKeeps, CheckConsistencyFileKeeps, VerifyKeeps,
           ConsistencyBundlesKeeps, ConsistencyRecordedKeeps DEF Next

\* What verifyBundle and runConsistency have to go on: what is kept of each bundle
\* is its own, a captured root is that of the events up to its size, and what was
\* found to be wrong with a bundle has failed the run.
THEOREM RunInvariant == Spec => []RunInv
BY RunInit, RunStep, PTL DEF Spec

\* What is kept of a walked bundle is its own (verifyBundle's locals), and a state
\* is offered only with a size (main.go).
THEOREM RunTypeCorrect == Spec => []TypeOK
<1>1. RunInv => TypeOK
  <2> SUFFICES ASSUME RunInv PROVE TypeOK
    OBVIOUS
  <2>1. /\ results \in Verdicts
        /\ exitCode \in {NotEnded, ExitPass, ExitFail, ExitError, ExitUnconfirmed}
        /\ Len(walked) <= Len(args.targets)
    BY DEF RunInv, PhaseInv
  <2>2. DOMAIN walked = 1..Len(walked)
    BY DEF RunInv, PhaseInv
  <2>3. ASSUME NEW i \in 1..Len(walked)
        PROVE  LET b == args.targets[i] IN
               /\ walked[i].from = b.from /\ walked[i].to = b.to
               /\ DOMAIN walked[i].roots \subseteq {b.events[j].seq : j \in DOMAIN b.events}
    BY DEF RunInv, WalkedInv, WalkedOf, CapturedOf
  <2>4. phase = "walk" => at \in 0..Len(Bundle.events)
    BY DEF RunInv, BundleInv, Walking
  <2>5. offered # None => offered.size \in Nat
    BY DEF RunInv, EndInv
  <2> QED BY <2>1, <2>2, <2>3, <2>4, <2>5 DEF TypeOK
<1> QED BY <1>1, RunInvariant, PTL

\* The root of a prefix of a bundle, as its walk captured it.
LEMMA PrefixRoot ==
  ASSUME NEW b, IsSequence(b.events), NEW size \in 1..Len(b.events)
  PROVE  MerkleRoot(Prefix(b, size)) = Roots(Entries(b))[Span(0, size)]
<1>1. Entries(b) \in Seq({b.events[i].entry : i \in DOMAIN b.events}) /\ size <= Len(Entries(b))
  BY EntriesOf
<1>2. MerkleRoot(SubSeq(Entries(b), 0 + 1, size)) = Roots(Entries(b))[Span(0, size)]
  BY <1>1, RootOfSubSeq
<1> QED BY <1>2 DEF Prefix

\* Roots of one size are the same exactly when the events up to it are.
LEMMA SamePrefix ==
  ASSUME NEW b, NEW newer, IsSequence(b.events), IsSequence(newer.events),
         Len(b.events) = b.to, Len(newer.events) = newer.to, b.to \in 1..newer.to
  PROVE  Roots(Entries(b))[Span(0, b.to)] = Roots(Entries(newer))[Span(0, b.to)]
           <=> Entries(b) = Prefix(newer, b.to)
<1> DEFINE a == Entries(b)
           c == Entries(newer)
           m == b.to
           n == newer.to
           r == Span(0, m)
           S == {b.events[i].entry : i \in DOMAIN b.events}
           T == {newer.events[i].entry : i \in DOMAIN newer.events}
<1>1. /\ Len(a) = m /\ Len(c) = n /\ a \in Seq(S) /\ c \in Seq(T)
      /\ n \in Nat /\ m \in 1..n
  BY EntriesOf
<1>2. Prefix(newer, m) = SubSeq(c, 1, m)
  BY DEF Prefix
<1> HIDE DEF a, c, m, n, S, T
<1>3. r \in Spans(m) /\ r \in Spans(n) /\ Size(r) = m /\ r.from = 0
  BY <1>1 DEF Span, Spans, Size
<1> HIDE DEF r
<1>4. Roots(a)[r] = Roots(c)[r] <=> SameLeaves(a, r, c, r)
  BY <1>1, <1>3, SameRoot
<1>5. SameLeaves(a, r, c, r) <=> \A i \in 1..m : a[i] = c[i]
  <2>1. \A i \in 1..m : r.from + i = i
    BY <1>3
  <2> QED BY <1>3, <2>1 DEF SameLeaves
<1>6. /\ SubSeq(c, 1, m) \in Seq(T) /\ Len(SubSeq(c, 1, m)) = m
      /\ \A i \in 1..m : SubSeq(c, 1, m)[i] = c[i]
  BY <1>1, FirstMembers
<1>7. a = SubSeq(c, 1, m) <=> \A i \in 1..m : a[i] = c[i]
  BY <1>1, <1>6
<1> QED BY <1>2, <1>4, <1>5, <1>7 DEF a, c, m, r

\* Of a run that is not refuted: every bundle was walked and found without fault.
LEMMA HeldWalked ==
  ASSUME RunInv, Held
  PROVE  \A i \in 1..Len(args.targets) :
           LET b == args.targets[i] IN
           /\ WalkedOf(b, walked[i], FALSE) /\ Clean(b) /\ BundleShape(b)
<1>1. ~Failed
  BY DEF RunInv, EndInv, Some, Failed, Results
<1> SUFFICES ASSUME NEW i \in 1..Len(args.targets)
             PROVE  LET b == args.targets[i] IN
                    /\ WalkedOf(b, walked[i], FALSE) /\ Clean(b) /\ BundleShape(b)
  OBVIOUS
<1> DEFINE b == args.targets[i]
<1>2. WalkedOf(b, walked[i], Failed) /\ BundleShape(b)
  BY ModeIs DEF RunInv, WalkedInv, EndInv, PhaseInv
<1>3. WalkedOf(b, walked[i], FALSE)
  BY <1>1, <1>2 DEF WalkedOf
<1> QED BY <1>2, <1>3 DEF WalkedOf, BundleShape, Clean

\* "Proves one export extends another" (consistency.go), for exports of every
\* length: comparing the two captured roots of one size is enough.
THEOREM ExtensionProved == Spec => []ExtensionIsProved
<1>1. RunInv => ExtensionIsProved
  <2> SUFFICES ASSUME RunInv, Held, args.consistency PROVE ExtensionIsProved
    BY DEF ExtensionIsProved
  <2> DEFINE b == args.targets[1]
             newer == args.targets[2]
             n == Len(args.targets)
  <2>1. /\ args \in Invocations /\ n \in Nat /\ DOMAIN args.targets = 1..n
        /\ Mode(args) \in {"consistency-bundles", "consistency-recorded-root"}
    BY ModeIs DEF RunInv, PhaseInv, EndInv, Modes
  <2>2. \A i \in 1..n : args.targets[i].trouble # "fail"
    BY HeldWalked DEF Clean
  <2>3. 1 \in 1..n
    <3>1. n = 1 \/ n = 2
      BY <2>1, ModeIs
    <3> QED BY <3>1
  <2>4. WalkedOf(b, walked[1], FALSE) /\ Clean(b) /\ BundleShape(b)
    BY <2>3, HeldWalked
  <2>5. CASE Mode(args) = "consistency-bundles"
    <3>1. n = 2 /\ ~ConsistencyProblem(walked[1], walked[2], FALSE)
      BY <2>1, <2>5, ModeIs DEF RunInv, EndInv
    <3>2. WalkedOf(newer, walked[2], FALSE) /\ Clean(newer) /\ BundleShape(newer)
      <4>1. 2 \in 1..n
        BY <3>1
      <4> QED BY <4>1, HeldWalked
    <3>3. /\ ~OrderProblem(walked[1], walked[2]) /\ Extends(walked[1], walked[2])
      BY <3>1 DEF ConsistencyProblem
    <3>4. /\ newer.stream = b.stream /\ b.from = 1 /\ newer.from = 1 /\ ~(b.to > newer.to)
      BY <2>4, <3>2, <3>3 DEF OrderProblem, WalkedOf
    <3>5. b.to \in Int /\ newer.to \in Int /\ b.to <= newer.to
      BY <2>4, <3>2, <3>4 DEF BundleShape
    <3>6. /\ b.to \in DOMAIN walked[1].roots /\ b.to \in DOMAIN walked[2].roots
          /\ walked[1].roots[b.to] = walked[2].roots[b.to]
      BY <2>4, <3>3 DEF Extends, Captured, RootAt, WalkedOf
    <3>7. /\ b.to \in 1..b.to
          /\ Roots(Entries(b))[Span(0, b.to)] = Roots(Entries(newer))[Span(0, b.to)]
      BY <2>4, <3>2, <3>6 DEF WalkedOf, CapturedOf
    <3>8. /\ IsSequence(b.events) /\ IsSequence(newer.events)
          /\ Len(b.events) = b.to /\ Len(newer.events) = newer.to
      BY <2>4, <3>2, <3>4, <3>5 DEF BundleShape, Clean
    <3>9. b.to \in 1..newer.to
      BY <3>5, <3>7
    <3> HIDE DEF b, newer
    <3>10. Entries(b) = Prefix(newer, b.to)
      BY <3>7, <3>8, <3>9, SamePrefix
    <3> USE DEF b, newer
    <3> QED BY <2>1, <2>2, <3>1, <3>4, <3>5, <3>10 DEF ExtensionIsProved
  <2>6. CASE Mode(args) = "consistency-recorded-root"
    <3>1. /\ n = 1 /\ args.root # None /\ args.size \in Int
          /\ ~RecordedStateProblem(walked[1], args.size, args.root)
      BY <2>1, <2>6, ModeIs DEF RunInv, EndInv
    <3>2. /\ b.from = 1 /\ b.to \in Int /\ args.size \in 1..b.to
          /\ args.root = RootAt(walked[1].roots, args.size)
      BY <2>4, <3>1 DEF RecordedStateProblem, WalkedOf, BundleShape
    <3>3. args.root = Roots(Entries(b))[Span(0, args.size)]
      BY <2>4, <3>1, <3>2 DEF RootAt, WalkedOf, CapturedOf
    <3>4. IsSequence(b.events) /\ Len(b.events) = b.to
      BY <2>4, <3>2 DEF BundleShape, Clean
    <3>5. args.root = MerkleRoot(Prefix(b, args.size))
      BY <3>2, <3>3, <3>4, PrefixRoot
    <3> QED BY <2>1, <2>2, <3>1, <3>2, <3>5 DEF ExtensionIsProved
  <2> QED BY <2>1, <2>5, <2>6
<1> QED BY <1>1, RunInvariant, PTL

-----------------------------------------------------------------------------
(* The stated facts of documents.json, signatures.json and links.json.     *)

\* The last of some events is one of them.
LEMMA LastIs ==
  ASSUME NEW n \in Nat, NEW places \in SUBSET (1..n), places # {}
  PROVE  Max(places) \in places
<1> DEFINE T == {n - x : x \in places}
<1>1. T \subseteq Nat /\ T # {}
  <2>1. \A x \in places : n - x \in Nat
    OBVIOUS
  <2> QED BY <2>1
<1>2. PICK t \in T : \A y \in T : t <= y
  BY <1>1, Smallest
<1>3. PICK x \in places : t = n - x
  BY <1>2
<1>4. \A y \in places : x >= y
  <2> TAKE y \in places
  <2>1. n - y \in T
    OBVIOUS
  <2>2. t <= n - y /\ x \in Nat /\ y \in Nat
    BY <1>2, <2>1
  <2> QED BY <1>3, <2>2
<1> QED BY <1>3, <1>4 DEF Max

\* What VersionProblem and FactProblem rule out.
LEMMA NumberedIs ==
  ASSUME NEW events, IsSequence(events), NEW sequence, EventNumbered(events, sequence) # None
  PROVE  \E k \in DOMAIN events :
           events[k] = EventNumbered(events, sequence) /\ events[k].seq = sequence
<1> DEFINE places == {i \in DOMAIN events : events[i].seq = sequence}
<1>1. Len(events) \in Nat /\ DOMAIN events = 1..Len(events)
  BY DEF IsSequence
<1>2. places # {} /\ EventNumbered(events, sequence) = events[Max(places)]
  BY DEF EventNumbered
<1>3. Max(places) \in places
  <2>1. places \in SUBSET (1..Len(events))
    BY <1>1
  <2> HIDE DEF places
  <2> QED BY <1>1, <1>2, <2>1, LastIs
<1> QED BY <1>2, <1>3

\* The payload LastBy returns is that of the signer's last signature.
LEMMA SignedIs ==
  ASSUME NEW b, IsSequence(b.events), NEW record, NEW email, email # None
  PROVE  IF SigningsOf(b, record, email) = {} THEN Signed(record, email, b.events) = None
         ELSE /\ Signed(record, email, b.events)
                   = b.events[Max(SigningsOf(b, record, email))].payload
              /\ Signed(record, email, b.events) # None
              /\ email \in Emails(b.events)
<1> DEFINE places == SigningsOf(b, record, email)
<1>1. Len(b.events) \in Nat /\ DOMAIN b.events = 1..Len(b.events)
  BY DEF IsSequence
<1>2. Signed(record, email, b.events)
        = IF places = {} THEN None ELSE b.events[Max(places)].payload
  BY DEF Signed, LastBy, SigningsOf
<1>3. CASE places # {}
  <2>1. Max(places) \in places
    <3>1. places \in SUBSET (1..Len(b.events))
      BY <1>1 DEF SigningsOf
    <3> HIDE DEF places
    <3> QED BY <1>1, <1>3, <3>1, LastIs
  <2>2. b.events[Max(places)].payload # None /\ b.events[Max(places)].payload.email = email
    BY <2>1 DEF SigningsOf
  <2>3. email \in Emails(b.events)
    BY <2>1 DEF Emails, SigningsOf
  <2> QED BY <1>2, <1>3, <2>2, <2>3
<1> QED BY <1>2, <1>3

Carried(b, seq, action, sha) ==
  \E k \in DOMAIN b.events :
    /\ b.events[k].seq = seq /\ b.events[k].action = action
    /\ b.events[k].payload # None /\ sha # None => b.events[k].payload.sha = sha

\* What a record of links.json says is in the events.
LinkCarried(b, link) ==
  /\ Carried(b, link.linked, "document.linked", link.sha)
  /\ link.unlinked # None => Carried(b, link.unlinked, "document.unlinked", link.sha)

\* A signature record without a problem: SignatureProblem and its parts.
LEMMA RecordHolds ==
  ASSUME NEW b, IsSequence(b.events), NEW record, ~SignatureProblem(record, b.events)
  PROVE  \A k \in DOMAIN record.signers : record.signers[k].status = "signed" =>
           LET email == Stated(record.signers[k].email)
               signed == SigningsOf(b, record, email)
           IN /\ signed # {}
              /\ record.sha # None => b.events[Max(signed)].payload.sha = record.sha
              /\ \A e \in Emails(b.events) :
                   Viewed(record, e, b.events) # None /\ record.sha # None
                     /\ SigningsOf(b, record, e) # {}
                   => Viewed(record, e, b.events).sha = record.sha
<1>1. ASSUME NEW e \in Emails(b.events), SigningsOf(b, record, e) # {}
      PROVE  /\ Signed(record, e, b.events) # None
             /\ Signed(record, e, b.events)
                  = b.events[Max(SigningsOf(b, record, e))].payload
             /\ record.sha # None => Signed(record, e, b.events).sha = record.sha
             /\ Viewed(record, e, b.events) # None =>
                  Viewed(record, e, b.events).sha = Signed(record, e, b.events).sha
  <2>1. e # None
    BY DEF Emails
  <2>2. /\ Signed(record, e, b.events) # None
        /\ Signed(record, e, b.events) = b.events[Max(SigningsOf(b, record, e))].payload
    BY <1>1, <2>1, SignedIs
  <2>3. ~SignedOtherwise(record, e, b.events)
    BY DEF SignatureProblem
  <2> QED BY <2>2, <2>3 DEF SignedOtherwise
<1>2. SUFFICES ASSUME NEW k \in DOMAIN record.signers, record.signers[k].status = "signed"
               PROVE  LET email == Stated(record.signers[k].email)
                          signed == SigningsOf(b, record, email)
                      IN /\ signed # {}
                         /\ record.sha # None => b.events[Max(signed)].payload.sha = record.sha
                         /\ \A e \in Emails(b.events) :
                              Viewed(record, e, b.events) # None /\ record.sha # None
                                /\ SigningsOf(b, record, e) # {}
                              => Viewed(record, e, b.events).sha = record.sha
  OBVIOUS
<1> DEFINE email == Stated(record.signers[k].email)
<1>3. Signed(record, email, b.events) # None
  BY <1>2 DEF SignatureProblem, ClaimProblem
<1>4. email # None
  BY <1>3 DEF Signed, LastBy
<1>5. SigningsOf(b, record, email) # {} /\ email \in Emails(b.events)
  BY <1>3, <1>4, SignedIs
<1> HIDE DEF email
<1>6. record.sha # None =>
        b.events[Max(SigningsOf(b, record, email))].payload.sha = record.sha
  BY <1>1, <1>5
<1>7. \A e \in Emails(b.events) :
        Viewed(record, e, b.events) # None /\ record.sha # None
          /\ SigningsOf(b, record, e) # {}
        => Viewed(record, e, b.events).sha = record.sha
  BY <1>1
<1> QED BY <1>5, <1>6, <1>7 DEF email

\* A bundle whose files have no problem: each of their facts is in its events.
LEMMA FactsHold ==
  ASSUME NEW b, IsSequence(b.events), ~SigilSignProblem(b)
  PROVE  /\ b.documents # None => \A j \in DOMAIN b.documents :
              Carried(b, b.documents[j].sequence, "document.published", b.documents[j].sha)
         /\ b.signatures # None => \A j \in DOMAIN b.signatures :
              ~SignatureProblem(b.signatures[j], b.events)
         /\ b.links # None => \A j \in DOMAIN b.links : LinkCarried(b, b.links[j])
<1>1. /\ b.documents # None => \A j \in DOMAIN b.documents :
           ~VersionProblem(b.documents[j], b.events)
      /\ b.signatures # None => \A j \in DOMAIN b.signatures :
           ~SignatureProblem(b.signatures[j], b.events)
      /\ b.links # None => \A j \in DOMAIN b.links :
           ~LinkFactProblem(b.links[j], b.events)
  BY DEF SigilSignProblem, ListProblem
<1>2. ASSUME NEW version, ~VersionProblem(version, b.events)
      PROVE  Carried(b, version.sequence, "document.published", version.sha)
  <2> DEFINE published == EventNumbered(b.events, version.sequence)
  <2>1. /\ published # None /\ published.action = "document.published"
        /\ ~OtherHash(published, version.sha)
    BY <1>2 DEF VersionProblem
  <2>2. PICK k \in DOMAIN b.events : b.events[k] = published /\ b.events[k].seq = version.sequence
    BY <2>1, NumberedIs
  <2> HIDE DEF published
  <2> QED BY <2>1, <2>2 DEF Carried, OtherHash
<1>3. ASSUME NEW link, NEW sequence, NEW action, ~FactProblem(link, sequence, action, b.events)
      PROVE  Carried(b, sequence, action, link.sha)
  <2> DEFINE event == EventNumbered(b.events, sequence)
  <2>1. /\ event # None /\ event.action = action
        /\ link.sha # None => ~OtherHash(event, link.sha)
    BY <1>3 DEF FactProblem
  <2>2. PICK k \in DOMAIN b.events : b.events[k] = event /\ b.events[k].seq = sequence
    BY <2>1, NumberedIs
  <2> HIDE DEF event
  <2> QED BY <2>1, <2>2 DEF Carried, OtherHash
<1>4. ASSUME NEW link, ~LinkFactProblem(link, b.events)
      PROVE  LinkCarried(b, link)
  BY <1>3, <1>4 DEF LinkFactProblem, LinkCarried
<1> QED BY <1>1, <1>2, <1>4

\* "Every stated fact is cross-checked against the events themselves and a
\* contradiction fails the bundle" (sigilsign.go), for any number of events.
THEOREM StatedFacts == Spec => []StatedFactsAreInTheChain
<1>1. RunInv => StatedFactsAreInTheChain
  <2> SUFFICES ASSUME RunInv, Held PROVE StatedFactsAreInTheChain
    BY DEF StatedFactsAreInTheChain
  <2>1. DOMAIN args.targets = 1..Len(args.targets)
    BY ModeIs DEF RunInv, PhaseInv
  <2>2. ASSUME NEW i \in DOMAIN args.targets
        PROVE  IsSequence(args.targets[i].events) /\ ~SigilSignProblem(args.targets[i])
    BY <2>1, HeldWalked DEF WalkedOf, BundleShape
  <2>3. ASSUME NEW i \in DOMAIN args.targets
        PROVE  LET b == args.targets[i] IN
               /\ b.documents # None => \A j \in DOMAIN b.documents :
                    Carried(b, b.documents[j].sequence, "document.published", b.documents[j].sha)
               /\ b.signatures # None => \A j \in DOMAIN b.signatures :
                    LET record == b.signatures[j] IN
                    \A k \in DOMAIN record.signers : record.signers[k].status = "signed" =>
                      LET email == Stated(record.signers[k].email)
                          signed == SigningsOf(b, record, email)
                      IN /\ signed # {}
                         /\ record.sha # None => b.events[Max(signed)].payload.sha = record.sha
                         /\ \A e \in Emails(b.events) :
                              Viewed(record, e, b.events) # None /\ record.sha # None
                                /\ SigningsOf(b, record, e) # {}
                              => Viewed(record, e, b.events).sha = record.sha
               /\ b.links # None => \A j \in DOMAIN b.links : LinkCarried(b, b.links[j])
    <3> DEFINE b == args.targets[i]
    <3>1. IsSequence(b.events) /\ ~SigilSignProblem(b)
      BY <2>2
    <3> HIDE DEF b
    <3>2. /\ b.documents # None => \A j \in DOMAIN b.documents :
               Carried(b, b.documents[j].sequence, "document.published", b.documents[j].sha)
          /\ b.signatures # None => \A j \in DOMAIN b.signatures :
               ~SignatureProblem(b.signatures[j], b.events)
          /\ b.links # None => \A j \in DOMAIN b.links : LinkCarried(b, b.links[j])
      BY <3>1, FactsHold
    <3> QED BY <3>1, <3>2, RecordHolds DEF b
  <2> QED BY Zenon, <2>3 DEF StatedFactsAreInTheChain, Carried, LinkCarried
<1> QED BY <1>1, RunInvariant, PTL

-----------------------------------------------------------------------------
(* What a walk captures: the roots and the proof it is asked for, once it  *)
(* is past them.                                                           *)

AskedSizes(a, i) ==
  {a.targets[i].to} \cup TreeSizes(a.targets[i].consistency)
    \cup (CASE Mode(a) = "consistency-recorded-root" -> {a.size}
            [] Mode(a) = "consistency-bundles" /\ i > 1 -> {a.targets[1].to}
            [] OTHER -> {})

ProofAsked(a, i) ==
  /\ Mode(a) = "consistency-bundles" /\ i > 1
  /\ ProvableFrom(a.targets[1].to, a.targets[i])

AllCaptured(a, i, captured, n) ==
  Clean(a.targets[i]) /\ a.targets[i].from = 1 =>
    \A size \in AskedSizes(a, i) : size \in 1..n => size \in DOMAIN captured

Collecting(a, i, c, n) ==
  Clean(a.targets[i]) /\ ProofAsked(a, i) =>
    Collects(c, a.targets[1].to, a.targets[i].to, Entries(a.targets[i]), n)

ProofTaken(a, i, nodes) ==
  Clean(a.targets[i]) /\ ProofAsked(a, i) =>
    nodes = ConsistencyProof(Entries(a.targets[i]), a.targets[1].to)

CaptureInv ==
  /\ phase \in Walking =>
       /\ AllCaptured(args, Len(walked) + 1, roots, at)
       /\ Collecting(args, Len(walked) + 1, collector, at)
  /\ \A i \in 1..Len(walked) :
       /\ AllCaptured(args, i, walked[i].roots, args.targets[i].to)
       /\ ProofTaken(args, i, walked[i].nodes)

\* A clean log from its beginning has as many events as its range.
LEMMA CleanLog ==
  ASSUME NEW b, BundleShape(b), Clean(b), b.from = 1
  PROVE  /\ IsSequence(b.events) /\ Len(b.events) = b.to /\ b.to \in Nat \ {0}
         /\ Len(Entries(b)) = b.to
         /\ \A i \in 1..b.to : b.events[i].seq = i
<1>1. /\ IsSequence(b.events) /\ b.to \in Int /\ b.events # <<>>
      /\ Len(b.events) = b.to - b.from + 1
      /\ \A i \in DOMAIN b.events : b.events[i].seq = b.from + i - 1
  BY DEF BundleShape, Clean
<1>2. /\ Len(b.events) \in Nat /\ DOMAIN b.events = 1..Len(b.events)
      /\ Len(Entries(b)) = Len(b.events)
  BY <1>1, EntriesOf
<1>3. Len(b.events) # 0
  BY <1>1 DEF IsSequence
<1>4. Len(b.events) = b.to
  BY <1>1, <1>2
<1>5. b.to \in Nat \ {0}
  BY <1>2, <1>3, <1>4
<1>6. \A i \in 1..b.to : b.events[i].seq = i
  <2> TAKE i \in 1..b.to
  <2>1. i \in DOMAIN b.events /\ i \in Int
    BY <1>2, <1>4
  <2>2. b.events[i].seq = 1 + i - 1
    BY <1>1, <2>1
  <2> QED BY <2>1, <2>2
<1> QED BY <1>1, <1>2, <1>4, <1>5, <1>6

\* When the proof is asked for, it is from a size that the log has.
LEMMA AskedIsProvable ==
  ASSUME args \in Invocations, NEW i \in 1..Len(args.targets), ProofAsked(args, i),
         Clean(args.targets[i])
  PROVE  LET b == args.targets[i] IN
         /\ BundleShape(b) /\ b.from = 1 /\ IsSequence(b.events)
         /\ Len(b.events) = b.to /\ Len(Entries(b)) = b.to
         /\ b.to \in Nat /\ b.to \in 1..b.to /\ args.targets[1].to \in 1..b.to
<1> DEFINE b == args.targets[i]
           m == args.targets[1].to
<1>1. BundleShape(b) /\ m \in Int
  <2>1. 1 \in 1..Len(args.targets)
    BY ModeIs
  <2> QED BY <2>1, ModeIs DEF BundleShape
<1>2. m > 0 /\ b.from = 1 /\ m <= b.to
  BY DEF ProofAsked, ProvableFrom
<1>3. /\ IsSequence(b.events) /\ Len(b.events) = b.to /\ b.to \in Nat \ {0}
      /\ Len(Entries(b)) = b.to
  BY <1>1, <1>2, CleanLog
<1> HIDE DEF b, m
<1>4. b.to \in 1..b.to /\ m \in 1..b.to
  BY <1>1, <1>2, <1>3
<1> QED BY <1>1, <1>2, <1>3, <1>4 DEF b, m

\* Steps that leave the walk and the walked bundles alone.
LEMMA CaptureStays ==
  ASSUME CaptureInv, UNCHANGED <<args, walked>>,
         phase' \notin Walking \/ (phase \in Walking /\ UNCHANGED walk)
  PROVE  CaptureInv'
BY DEF CaptureInv, walk

\* A collector that collects is not the one that is missing.
LEMMA CollectsSomething ==
  ASSUME NEW c, NEW m, NEW n, NEW L, NEW t, Collects(c, m, n, L, t)
  PROVE  c # NoCollector
<1>1. c = [newSize |-> c.newSize, ranges |-> c.ranges, order |-> c.order,
           stacks |-> c.stacks, cursor |-> c.cursor, count |-> c.count]
  BY DEF Collects, CollectorOf
<1>2. "newSize" \in DOMAIN c
  BY <1>1
<1>3. DOMAIN NoCollector = {}
  BY DEF NoCollector
<1> QED BY <1>2, <1>3

LEMMA OpenCaptures ==
  ASSUME RunInv, CaptureInv, Open
  PROVE  CaptureInv'
<1> DEFINE i == Len(walked) + 1
           b == args.targets[i]
           m == args.targets[1].to
<1>1. /\ phase = "open" /\ phase' = "walk" /\ at' = 0 /\ roots' = <<>>
      /\ collector' = IF /\ Mode(args) = "consistency-bundles" /\ walked # <<>>
                         /\ ProvableFrom(walked[1].to, b)
                      THEN NewCollector(walked[1].to, b.to) ELSE NoCollector
      /\ UNCHANGED <<args, walked>>
  BY DEF Open, Begin, Bundle
<1>2. /\ i \in 1..Len(args.targets) /\ Len(walked) \in Nat /\ args \in Invocations
  BY <1>1, BundleIs DEF RunInv, PhaseInv, Active
<1>3. AllCaptured(args, i, <<>>, 0)
  BY DEF AllCaptured
<1>4. ASSUME Clean(b), ProofAsked(args, i) PROVE Collects(collector', m, b.to, Entries(b), 0)
  <2>1. /\ Len(Entries(b)) = b.to /\ b.to \in Nat /\ b.to \in 1..b.to /\ m \in 1..b.to
    BY <1>2, <1>4, AskedIsProvable
  <2>2. Mode(args) = "consistency-bundles" /\ i > 1 /\ ProvableFrom(m, b)
    BY <1>4 DEF ProofAsked
  <2>3. 1 \in 1..Len(walked) /\ walked # <<>>
    BY <1>2, <2>2
  <2>4. walked[1].to = m
    BY <2>3 DEF RunInv, WalkedInv, WalkedOf
  <2>5. collector' = NewCollector(m, b.to)
    BY <1>1, <2>2, <2>3, <2>4
  <2> HIDE DEF b, m
  <2> QED BY <2>1, <2>5, NewCollectorHolds
<1>5. Collecting(args, i, collector', 0)
  BY <1>4 DEF Collecting
<1>6. /\ i = Len(walked') + 1
      /\ AllCaptured(args', i, roots', at') /\ Collecting(args', i, collector', at')
  BY <1>1, <1>3, <1>5
<1> QED BY <1>1, <1>6 DEF CaptureInv

LEMMA WalkEventCaptures ==
  ASSUME RunInv, CaptureInv, WalkEvent
  PROVE  CaptureInv'
<1> DEFINE i == Len(walked) + 1
           b == args.targets[i]
           m == args.targets[1].to
           event == b.events[at + 1]
<1>1. /\ phase = "walk" /\ phase' = phase /\ at < Len(b.events) /\ at' = at + 1
      /\ collector' = IF collector = NoCollector THEN NoCollector
                      ELSE CollectorAppend(collector, event.entry)
      /\ roots' = IF b.from = 1 /\ event.seq \in RootSizes
                  THEN Recorded(event.seq, StackRoot(cumulative')) ELSE roots
      /\ UNCHANGED <<args, walked>>
  BY DEF WalkEvent, Bundle
<1>2. /\ i \in 1..Len(args.targets) /\ Len(walked) \in Nat /\ args \in Invocations
      /\ BundleShape(b) /\ IsSequence(b.events) /\ at \in 0..Len(b.events)
  BY <1>1, BundleIs DEF RunInv, PhaseInv, BundleInv, Active, Walking, Bundle
<1>3. /\ Len(b.events) \in Nat /\ Len(Entries(b)) = Len(b.events)
      /\ \A j \in 1..Len(b.events) : Entries(b)[j] = b.events[j].entry
  BY <1>2, EntriesOf
<1>4. AllCaptured(args, i, roots, at) /\ Collecting(args, i, collector, at)
  BY <1>1 DEF CaptureInv, Walking
<1>5. at + 1 \in 1..Len(b.events) /\ at \in Nat
  BY <1>1, <1>2, <1>3
<1>6. ASSUME Clean(b), b.from = 1, NEW size \in AskedSizes(args, i), size \in 1..(at + 1)
      PROVE  size \in DOMAIN roots'
  <2>1. event.seq = at + 1
    BY <1>2, <1>5, <1>6, CleanLog
  <2>2. DOMAIN roots \subseteq DOMAIN roots'
    BY <1>1 DEF Recorded
  <2>3. CASE size \in 1..at
    BY <1>4, <1>6, <2>2, <2>3 DEF AllCaptured
  <2>4. CASE size = at + 1
    <3>1. size \in RootSizes
      <4>1. CASE size \in {b.to} \cup TreeSizes(b.consistency)
        BY <4>1 DEF RootSizes, Bundle
      <4>2. CASE Mode(args) = "consistency-recorded-root" /\ size = args.size
        BY <4>2 DEF RootSizes, Wanted
      <4>3. CASE Mode(args) = "consistency-bundles" /\ i > 1 /\ size = m
        <5>1. 1 \in 1..Len(walked) /\ walked # <<>>
          BY <1>2, <4>3
        <5>2. walked[1].to = m
          BY <5>1 DEF RunInv, WalkedInv, WalkedOf
        <5> QED BY <4>3, <5>1, <5>2 DEF RootSizes, Wanted
      <4> QED BY <1>6, <4>1, <4>2, <4>3 DEF AskedSizes
    <3>2. roots' = Recorded(event.seq, StackRoot(cumulative'))
      BY <1>1, <1>6, <2>1, <2>4, <3>1
    <3> QED BY <2>1, <2>4, <3>2 DEF Recorded
  <2> QED BY <1>5, <1>6, <2>3, <2>4
<1>7. ASSUME Clean(b), ProofAsked(args, i) PROVE Collects(collector', m, b.to, Entries(b), at + 1)
  <2>1. /\ Len(Entries(b)) = b.to /\ b.to \in Nat /\ b.to \in 1..b.to /\ m \in 1..b.to
    BY <1>2, <1>7, AskedIsProvable
  <2>2. Collects(collector, m, b.to, Entries(b), at)
    BY <1>4, <1>7 DEF Collecting
  <2>3. collector # NoCollector
    BY <2>2, CollectsSomething
  <2>4. Entries(b)[at + 1] = event.entry
    BY <1>3, <1>5
  <2>5. collector' = CollectorAppend(collector, Entries(b)[at + 1])
    BY <1>1, <2>3, <2>4
  <2>6. at < Len(Entries(b)) /\ Len(Entries(b)) \in Nat
    BY <1>1, <1>3
  <2> HIDE DEF b, m
  <2> QED BY <1>5, <2>1, <2>2, <2>5, <2>6, CollectsAppend
<1> HIDE DEF event
<1>8. AllCaptured(args, i, roots', at + 1) /\ Collecting(args, i, collector', at + 1)
  BY <1>6, <1>7 DEF AllCaptured, Collecting
<1>9. /\ i = Len(walked') + 1
      /\ AllCaptured(args', i, roots', at') /\ Collecting(args', i, collector', at')
  BY <1>1, <1>8
<1>10. \A j \in 1..Len(walked) :
         /\ AllCaptured(args, j, walked[j].roots, args.targets[j].to)
         /\ ProofTaken(args, j, walked[j].nodes)
  BY DEF CaptureInv
<1> QED BY <1>1, <1>9, <1>10 DEF CaptureInv

LEMMA CheckConsistencyFileCaptures ==
  ASSUME RunInv, CaptureInv, CheckConsistencyFile
  PROVE  CaptureInv'
<1> DEFINE n == Len(walked)
           i == n + 1
           b == args.targets[i]
           m == args.targets[1].to
           nodes == IF collector # NoCollector /\ Complete(collector) THEN Nodes(collector) ELSE None
           w == [stream |-> b.stream, from |-> b.from, to |-> b.to, roots |-> roots,
                 nodes |-> nodes]
<1>1. /\ phase = "consistency.json" /\ walked' = Append(walked, w)
      /\ phase' = IF Len(walked') < Len(args.targets) THEN "open" ELSE Mode(args)
      /\ UNCHANGED args
  BY DEF CheckConsistencyFile, Bundle
<1>2. /\ i \in 1..Len(args.targets) /\ n \in Nat /\ args \in Invocations
      /\ BundleShape(b) /\ Mode(args) \in Modes /\ at = Len(b.events)
  BY <1>1, BundleIs DEF RunInv, PhaseInv, BundleInv, Active, Bundle
<1>3. phase' \notin Walking
  BY <1>1, <1>2 DEF Walking, Modes
<1>4. AllCaptured(args, i, roots, at) /\ Collecting(args, i, collector, at)
  BY <1>1 DEF CaptureInv, Walking
<1>5. AllCaptured(args, i, roots, b.to)
  <2>1. ASSUME Clean(b), b.from = 1 PROVE at = b.to
    BY <1>2, <2>1, CleanLog
  <2> QED BY <1>4, <2>1 DEF AllCaptured
<1>6. ProofTaken(args, i, nodes)
  <2>1. ASSUME Clean(b), ProofAsked(args, i) PROVE nodes = ConsistencyProof(Entries(b), m)
    <3> DEFINE L == Entries(b)
    <3>1. /\ Len(L) = b.to /\ b.to \in Nat /\ b.to \in 1..b.to /\ m \in 1..b.to
          /\ Len(b.events) = b.to
      BY <1>2, <2>1, AskedIsProvable
    <3>2. Collects(collector, m, b.to, L, at)
      BY <1>4, <2>1 DEF Collecting
    <3>3. collector # NoCollector
      BY <3>2, CollectsSomething
    <3>4. /\ Complete(collector) <=> at >= Len(L)
          /\ Complete(collector) => Nodes(collector) = ConsistencyProof(L, m)
      <4>1. /\ Len(L) \in Nat /\ Len(L) \in 1..Len(L) /\ m \in 1..Len(L) /\ at \in Nat
            /\ Collects(collector, m, Len(L), L, at)
        BY <1>2, <3>1, <3>2
      <4> HIDE DEF L, m
      <4> QED BY <4>1, CollectedNodes
    <3>5. at >= Len(L)
      BY <1>2, <3>1
    <3> QED BY <3>3, <3>4, <3>5
  <2> HIDE DEF nodes
  <2> QED BY <2>1 DEF ProofTaken
<1> HIDE DEF nodes
<1>7. w.roots = roots /\ w.nodes = nodes
  OBVIOUS
<1> HIDE DEF w
<1>8. /\ Len(walked') = i /\ walked'[i] = w
      /\ \A j \in 1..n : walked'[j] = walked[j]
  BY <1>1, <1>2
<1>9. ASSUME NEW j \in 1..i
      PROVE  /\ AllCaptured(args, j, walked'[j].roots, args.targets[j].to)
             /\ ProofTaken(args, j, walked'[j].nodes)
  <2>1. CASE j = i
    BY <1>5, <1>6, <1>7, <1>8, <2>1
  <2>2. CASE j # i
    <3>1. j \in 1..n
      BY <1>2, <2>2
    <3> QED BY <1>8, <3>1 DEF CaptureInv
  <2> QED BY <2>1, <2>2
<1>10. \A j \in 1..Len(walked') :
         /\ AllCaptured(args', j, walked'[j].roots, args'.targets[j].to)
         /\ ProofTaken(args', j, walked'[j].nodes)
  BY <1>1, <1>8, <1>9
<1> QED BY <1>3, <1>10 DEF CaptureInv

\* What a walk is asked for is captured, whatever the bundle.
LEMMA CaptureInvariant == Spec => []CaptureInv
<1>1. Init => CaptureInv
  BY DEF Init, CaptureInv, Walking
<1>2. RunInv /\ CaptureInv /\ [Next]_vars => CaptureInv'
  <2> SUFFICES ASSUME RunInv, CaptureInv, [Next]_vars PROVE CaptureInv'
    OBVIOUS
  <2>1. CASE Dispatch
    <3>1. phase' \notin Walking /\ UNCHANGED <<args, walked>>
      BY <2>1 DEF Dispatch, End, Walking
    <3> QED BY <3>1, CaptureStays
  <2>2. CASE Open
    BY <2>2, OpenCaptures
  <2>3. CASE Stop
    <3>1. phase' \notin Walking /\ UNCHANGED <<args, walked>>
      BY <2>3 DEF Stop, End, Walking
    <3> QED BY <3>1, CaptureStays
  <2>4. CASE WalkEvent
    BY <2>4, WalkEventCaptures
  <2>5. CASE EndWalk
    BY <2>5, CaptureStays DEF EndWalk, Walking
  <2>6. CASE CheckSigilSign
    BY <2>6, CaptureStays DEF CheckSigilSign, Walking
  <2>7. CASE CheckConsistencyFile
    BY <2>7, CheckConsistencyFileCaptures
  <2>8. CASE Verify \/ ConsistencyBundles \/ ConsistencyRecorded
    <3>1. phase' \notin Walking /\ UNCHANGED <<args, walked>>
      BY <2>8 DEF Verify, ConsistencyBundles, ConsistencyRecorded, FinishWith, End, Walking
    <3> QED BY <3>1, CaptureStays
  <2>9. CASE UNCHANGED vars
    BY <2>9, CaptureStays DEF vars
  <2> QED BY <2>1, <2>2, <2>3, <2>4, <2>5, <2>6, <2>7, <2>8, <2>9 DEF Next
<1> QED BY <1>1, <1>2, RunInvariant, PTL DEF Spec

\* A clean log walked from its beginning, with all that its files ask about.
WalkedFromStart(b, captured) ==
  /\ BundleShape(b) /\ Clean(b) /\ b.from = 1
  /\ CapturedOf(b, captured)
  /\ \A size \in {b.to} \cup TreeSizes(b.consistency) :
       size \in 1..b.to => size \in DOMAIN captured

\* What consistency.json states of a log from its beginning is so.
FileIsTrue(b) ==
  LET file == b.consistency IN
  /\ file.root = MerkleRoot(Entries(b))
  /\ \A j \in DOMAIN file.states :
       /\ file.states[j].size \in 1..b.to
       /\ file.states[j].root = MerkleRoot(Prefix(b, file.states[j].size))
  /\ file.proof # None =>
       /\ file.proof.from \in 1..b.to /\ file.proof.to = b.to
       /\ file.proof.nodes = ConsistencyProof(Entries(b), file.proof.from)

\* The whole log is the last of its prefixes.
LEMMA WholeLog ==
  ASSUME NEW b, BundleShape(b), Clean(b), b.from = 1
  PROVE  b.to \in 1..b.to /\ Prefix(b, b.to) = Entries(b)
<1>1. /\ IsSequence(b.events) /\ Len(b.events) = b.to /\ b.to \in Nat \ {0}
  BY CleanLog
<1>2. /\ Entries(b) \in Seq({b.events[i].entry : i \in DOMAIN b.events})
      /\ Len(Entries(b)) = b.to
  BY <1>1, EntriesOf
<1> DEFINE a == Entries(b)
           S == {b.events[i].entry : i \in DOMAIN b.events}
           n == b.to
<1> HIDE DEF a, S, n
<1>3. a \in Seq(S) /\ Len(a) = n /\ n \in Nat \ {0}
  BY <1>1, <1>2 DEF a, S, n
<1>4. SubSeq(a, 1, n) = a
  BY <1>3
<1> QED BY <1>1, <1>4 DEF Prefix, a, n

\* A captured root is the root of a prefix, and none of a hash that is missing.
LEMMA CapturedRoot ==
  ASSUME NEW b, NEW captured, BundleShape(b), Clean(b), b.from = 1, CapturedOf(b, captured),
         NEW size \in DOMAIN captured
  PROVE  /\ size \in 1..b.to
         /\ captured[size] = MerkleRoot(Prefix(b, size))
         /\ captured[size] = Roots(Entries(b))[Span(0, size)]
         /\ captured[size] \notin {None, Malformed}
<1>1. size \in 1..b.to /\ captured[size] = Roots(Entries(b))[Span(0, size)]
  BY DEF CapturedOf
<1>2. IsSequence(b.events) /\ Len(b.events) = b.to
  BY CleanLog
<1>3. size \in 1..Len(b.events) /\ size \in DOMAIN b.events
  BY <1>1, <1>2, EntriesOf
<1>4. captured[size] = MerkleRoot(Prefix(b, size))
  BY <1>1, <1>2, <1>3, PrefixRoot
<1> QED BY <1>1, <1>3, <1>4 DEF BundleShape

\* checkConsistencyFile finds a problem exactly when the file says what is not so.
LEMMA FileHolds ==
  ASSUME NEW b, NEW captured, WalkedFromStart(b, captured),
         b.consistency \notin {None, Malformed}
  PROVE  ~ConsistencyFileProblem(b.consistency, b.from, b.to, captured) <=> FileIsTrue(b)
<1> DEFINE file == b.consistency
           states == file.states
           p == file.proof
           Root(size) == MerkleRoot(Prefix(b, size))
<1>1. /\ BundleShape(b) /\ Clean(b) /\ b.from = 1 /\ CapturedOf(b, captured)
      /\ \A size \in {b.to} \cup TreeSizes(file) : size \in 1..b.to => size \in DOMAIN captured
  BY DEF WalkedFromStart
<1>2. b.to \in 1..b.to /\ Prefix(b, b.to) = Entries(b) /\ b.to \in Int
  BY <1>1, WholeLog DEF BundleShape
<1>3. \A size \in DOMAIN captured :
        /\ size \in 1..b.to /\ captured[size] = Root(size)
        /\ captured[size] = Roots(Entries(b))[Span(0, size)] /\ captured[size] # None
  BY <1>1, CapturedRoot
<1>4. b.to \in DOMAIN captured /\ captured[b.to] = MerkleRoot(Entries(b))
  <2>1. b.to \in DOMAIN captured
    BY <1>1, <1>2
  <2> QED BY <1>2, <1>3, <2>1
<1>5. ConsistencyFileProblem(file, b.from, b.to, captured)
        <=> \/ file.root # captured[b.to]
            \/ \E i \in DOMAIN states : StateProblem(states[i], b.to, captured)
            \/ p # None /\ RecordedProofProblem(p, b.to, captured)
  BY <1>1, <1>3, <1>4 DEF ConsistencyFileProblem, RootAt
<1>6. /\ \A i \in DOMAIN states : states[i].size \in Int \cup {None}
      /\ p # None => p.from \in Int /\ p.to \in Int /\ IsSequence(p.nodes)
  BY <1>1 DEF BundleShape, FileShape
<1>7. ASSUME NEW i \in DOMAIN states
      PROVE  ~StateProblem(states[i], b.to, captured)
               <=> states[i].size \in 1..b.to /\ states[i].root = Root(states[i].size)
  <2> DEFINE s == states[i].size
  <2>1. s \in TreeSizes(file)
    BY <1>7 DEF TreeSizes
  <2>2. s \in Int \cup {None} /\ None \notin Int
    BY <1>6, InvocationAssumption
  <2> HIDE DEF s, states, Root
  <2>3. s \in 1..b.to => s \in DOMAIN captured /\ RootAt(captured, s) = Root(s)
    BY <1>1, <1>3, <2>1 DEF RootAt
  <2>4. s \in 1..b.to <=> ~(s = None \/ s < 1 \/ s > b.to)
    BY <1>2, <2>2
  <2> QED BY <2>3, <2>4 DEF StateProblem, s
<1>8. ASSUME p # None
      PROVE  ~RecordedProofProblem(p, b.to, captured)
               <=> /\ p.from \in 1..b.to /\ p.to = b.to
                   /\ p.nodes = ConsistencyProof(Entries(b), p.from)
  <2> DEFINE L == Entries(b)
             m == p.from
             S == {p.nodes[i] : i \in DOMAIN p.nodes}
  <2>1. m \in TreeSizes(file)
    BY <1>8 DEF TreeSizes
  <2>2. m \in Int /\ p.nodes \in Seq(S)
    BY <1>6, <1>8 DEF IsSequence
  <2>3. Len(L) = b.to /\ b.to \in Nat \ {0}
    BY <1>1, CleanLog
  <2> HIDE DEF L, m, S, p, Root
  <2>4. m >= 1 /\ RootAt(captured, m) # None <=> m \in 1..b.to
    BY <1>1, <1>2, <1>3, <2>1, <2>2 DEF RootAt
  <2>5. ASSUME m \in 1..b.to
        PROVE  ConsistencyVerify(m, b.to, captured[m], captured[b.to], p.nodes)
                 <=> p.nodes = ConsistencyProof(L, m)
    <3>1. captured[m] = Roots(L)[Span(0, m)] /\ captured[b.to] = MerkleRoot(L)
      BY <1>1, <1>3, <1>4, <2>1, <2>5 DEF L
    <3>2. ConsistencyVerify(m, Len(L), captured[m], MerkleRoot(L), p.nodes)
            <=> /\ captured[m] = Roots(L)[Span(0, m)]
                /\ p.nodes = ConsistencyProof(L, m)
      BY <2>2, <2>3, <2>5, OnlyTheProofVerifies
    <3> QED BY <2>3, <3>1, <3>2
  <2> QED BY <2>4, <2>5 DEF RecordedProofProblem, L, m
<1> HIDE DEF file, states, p, Root
<1>9. ~ConsistencyFileProblem(file, b.from, b.to, captured)
        <=> /\ file.root = captured[b.to]
            /\ \A i \in DOMAIN states :
                 states[i].size \in 1..b.to /\ states[i].root = Root(states[i].size)
            /\ p # None => /\ p.from \in 1..b.to /\ p.to = b.to
                           /\ p.nodes = ConsistencyProof(Entries(b), p.from)
  BY <1>5, <1>7, <1>8
<1> QED BY <1>4, <1>9 DEF FileIsTrue, file, states, p, Root

\* What is known of a walked bundle without fault that is of a log from its beginning.
LEMMA WalkedBundle ==
  ASSUME CaptureInv, NEW i \in 1..Len(walked), NEW failed,
         WalkedOf(args.targets[i], walked[i], failed), BundleShape(args.targets[i]),
         Clean(args.targets[i]), args.targets[i].from = 1
  PROVE  WalkedFromStart(args.targets[i], walked[i].roots)
<1>1. AllCaptured(args, i, walked[i].roots, args.targets[i].to)
  BY DEF CaptureInv
<1> QED BY <1>1 DEF AllCaptured, AskedSizes, WalkedFromStart, WalkedOf

\* "The cumulative tree states the exporter recorded" (consistency.go): for every
\* bundle of a run that is not refuted, whatever its length and whatever sizes its
\* consistency.json names, they are the states of its own log and the recorded
\* proof is the one between them.
THEOREM RecordedStates == Spec => []RecordedStatesAreTrue
<1>1. ASSUME RunInv, CaptureInv, Held PROVE RecordedStatesAreTrue
  <2>1. ASSUME NEW i \in DOMAIN args.targets,
               args.targets[i].consistency \notin {None, Malformed}, args.targets[i].from = 1
        PROVE  FileIsTrue(args.targets[i])
    <3> DEFINE b == args.targets[i]
    <3>1. DOMAIN args.targets = 1..Len(args.targets) /\ Len(walked) = Len(args.targets)
      BY <1>1, ModeIs DEF RunInv, PhaseInv, EndInv
    <3>2. WalkedOf(b, walked[i], FALSE) /\ Clean(b) /\ BundleShape(b)
      BY <1>1, <2>1, <3>1, HeldWalked
    <3>3. WalkedFromStart(b, walked[i].roots)
      BY <1>1, <2>1, <3>1, <3>2, WalkedBundle
    <3>4. ~ConsistencyFileProblem(b.consistency, b.from, b.to, walked[i].roots)
      BY <3>2 DEF WalkedOf
    <3> HIDE DEF b
    <3> QED BY <2>1, <3>3, <3>4, FileHolds DEF b
  <2> QED BY <2>1 DEF RecordedStatesAreTrue, FileIsTrue
<1>2. RunInv /\ CaptureInv => RecordedStatesAreTrue
  BY <1>1 DEF RecordedStatesAreTrue
<1> QED BY <1>2, RunInvariant, CaptureInvariant, PTL

-----------------------------------------------------------------------------
(* Honest bundles: nothing that is checked fails on the way, so the answer *)
(* is the comparison's alone.                                              *)

HonestRun ==
  args.loads /\ ~args.help /\ \A i \in DOMAIN args.targets : Honest(args.targets[i])

\* What the end of each mode looks at.
EndProblem ==
  CASE Mode(args) = "consistency-bundles" -> ConsistencyProblem(walked[1], walked[2], FALSE)
    [] Mode(args) = "consistency-recorded-root" ->
         RecordedStateProblem(walked[1], args.size, args.root)
    [] OTHER -> FALSE

HonestEnd ==
  /\ Len(walked) = Len(args.targets)
  /\ exitCode = ExitPass <=> ~EndProblem
  /\ Mode(args) = "verify" => offered = OfferedState(walked[1], NewResults)

HonestInv ==
  HonestRun =>
    /\ phase # "end" => results = NewResults
    /\ phase = "end" /\ Mode(args) \in Modes => HonestEnd

\* With nothing failed before, the exit code is that of the comparison.
LEMMA FirstFailure ==
  ASSUME NEW problem
  PROVE  /\ ~Some(NewResults, "fail") /\ ExitCode(NewResults) = ExitPass
         /\ ExitCode(FailIf(problem, NewResults, "content_integrity")) = ExitPass <=> ~problem
<1>1. ~Some(NewResults, "fail") /\ ExitCode(NewResults) = ExitPass
  BY DEF Some, NewResults, ExitCode
<1>2. NewResults \in Verdicts /\ "content_integrity" \in Results
  BY DEF NewResults, Verdicts, States, Results
<1>3. ASSUME problem
      PROVE  ExitCode(FailIf(problem, NewResults, "content_integrity")) = ExitFail
  <2> DEFINE r == FailIf(problem, NewResults, "content_integrity")
  <2>1. r \in Verdicts /\ r["content_integrity"] = "fail"
    BY <1>2, <1>3, FailureStays
  <2> HIDE DEF r
  <2> QED BY <1>2, <2>1, FailureDecidesExitCode DEF r
<1>4. ASSUME ~problem PROVE FailIf(problem, NewResults, "content_integrity") = NewResults
  BY <1>4 DEF FailIf
<1>5. ExitFail # ExitPass
  BY DEF ExitFail, ExitPass
<1> QED BY <1>1, <1>3, <1>4, <1>5

\* The honest bundle being walked, and the end of its walk.
LEMMA HonestBundle ==
  ASSUME RunInv, HonestRun, phase \in Active
  PROVE  Honest(Bundle) /\ Clean(Bundle) /\ Bundle.trouble = "none" /\ BundleShape(Bundle)
<1>1. /\ Len(walked) + 1 \in 1..Len(args.targets) /\ BundleShape(Bundle)
      /\ DOMAIN args.targets = 1..Len(args.targets)
  BY BundleIs, ModeIs DEF RunInv, PhaseInv
<1>2. Honest(Bundle)
  BY <1>1 DEF HonestRun, Bundle
<1> QED BY <1>1, <1>2 DEF Honest, Clean

LEMMA HonestFile ==
  ASSUME RunInv, CaptureInv, HonestRun, phase = "consistency.json"
  PROVE  ~ConsistencyFileProblem(Bundle.consistency, Bundle.from, Bundle.to, roots)
<1> DEFINE i == Len(walked) + 1
           b == args.targets[i]
<1>1. b = Bundle
  BY DEF Bundle
<1> HIDE DEF b
<1>2. Honest(b) /\ Clean(b) /\ BundleShape(b) /\ b.from = 1
  BY <1>1, HonestBundle DEF Active, Honest
<1>3. CapturedOf(b, roots) /\ at = Len(b.events)
  BY <1>1 DEF RunInv, BundleInv, Walking
<1>4. at = b.to
  BY <1>2, <1>3, CleanLog
<1>5. AllCaptured(args, i, roots, at)
  BY DEF CaptureInv, Walking
<1>6. WalkedFromStart(b, roots)
  BY <1>2, <1>3, <1>4, <1>5 DEF AllCaptured, AskedSizes, WalkedFromStart, b
<1>7. CASE b.consistency \in {None, Malformed}
  BY <1>1, <1>7 DEF ConsistencyFileProblem
<1>8. CASE b.consistency \notin {None, Malformed}
  <2>1. FileIsTrue(b)
    BY <1>2, <1>8 DEF Honest, FileIsTrue
  <2> QED BY <1>1, <1>6, <1>8, <2>1, FileHolds
<1> QED BY <1>7, <1>8

LEMMA HonestStep ==
  ASSUME RunInv, CaptureInv, HonestInv, [Next]_vars
  PROVE  HonestInv'
<1> SUFFICES ASSUME HonestRun'
             PROVE  /\ phase' # "end" => results' = NewResults
                    /\ phase' = "end" /\ Mode(args)' \in Modes => HonestEnd'
  BY DEF HonestInv
<1>1. args' = args
  BY DEF Next, Dispatch, Open, Begin, Stop, WalkEvent, EndWalk, CheckSigilSign,
     CheckConsistencyFile, Verify, ConsistencyBundles, ConsistencyRecorded, FinishWith, vars
<1>2. /\ HonestRun /\ Mode(args)' = Mode(args)
      /\ walked' = walked => EndProblem' = EndProblem
  <2>1. HonestRun
    BY <1>1 DEF HonestRun
  <2>2. Mode(args)' = Mode(args)
    BY <1>1 DEF Mode
  <2> QED BY <1>1, <2>1, <2>2 DEF EndProblem
<1>3. /\ phase # "end" => results = NewResults
      /\ phase = "end" /\ Mode(args) \in Modes => HonestEnd
  BY <1>2 DEF HonestInv
<1>4. ASSUME phase = Mode(args), Mode(args) \in Modes
      PROVE  results = NewResults /\ Len(walked) = Len(args.targets)
  BY <1>3, <1>4 DEF RunInv, PhaseInv, Modes
<1>5. ASSUME FinishWith(EndProblem), phase = Mode(args), Mode(args) \in Modes,
             Mode(args) = "verify" => offered' = OfferedState(walked[1], results)
      PROVE  phase' = "end" /\ HonestEnd'
  <2>1. /\ results' = FailIf(EndProblem, NewResults, "content_integrity")
        /\ phase' = "end" /\ exitCode' = ExitCode(results') /\ walked' = walked
    BY <1>4, <1>5 DEF FinishWith, End
  <2>2. Len(walked') = Len(args.targets') /\ EndProblem' = EndProblem
    BY <1>1, <1>2, <1>4, <1>5, <2>1
  <2>3. Mode(args)' = "verify" => offered' = OfferedState(walked'[1], NewResults)
    BY <1>2, <1>4, <1>5, <2>1
  <2>4. exitCode' = ExitPass <=> ~EndProblem
    BY <2>1, FirstFailure
  <2> QED BY <2>1, <2>2, <2>3, <2>4 DEF HonestEnd
<1>6. CASE Dispatch
  <2>1. phase = "start" /\ results' = results
    BY <1>6 DEF Dispatch
  <2>2. ASSUME phase' = "end" PROVE Mode(args)' \notin Modes
    <3>1. ~args.help /\ args.loads
      BY <1>2 DEF HonestRun
    <3>2. Mode(args) = "usage"
      BY <1>6, <2>2, <3>1 DEF Dispatch
    <3> QED BY <1>2, <3>2 DEF Modes
  <2> QED BY <1>3, <2>1, <2>2
<1>7. CASE Open
  BY <1>3, <1>7 DEF Open, Begin
<1>8. CASE Stop
  BY <1>2, <1>8, HonestBundle DEF Stop, Active
<1>9. CASE WalkEvent
  BY <1>3, <1>9 DEF WalkEvent
<1>10. CASE EndWalk
  <2>1. phase = "walk" /\ phase' = "sigilsign" /\ Bundle.trouble = "none"
    BY <1>2, <1>10, HonestBundle DEF EndWalk, Active
  <2>2. results' = results
    BY <1>10, <2>1 DEF EndWalk
  <2> QED BY <1>3, <2>1, <2>2
<1>11. CASE CheckSigilSign
  <2>1. phase = "sigilsign" /\ phase' = "consistency.json" /\ ~SigilSignProblem(Bundle)
    BY <1>2, <1>11, HonestBundle DEF CheckSigilSign, Active, Honest
  <2>2. results' = results
    BY <1>11, <2>1 DEF CheckSigilSign, FailIf
  <2> QED BY <1>3, <2>1, <2>2
<1>12. CASE CheckConsistencyFile
  <2>1. /\ phase = "consistency.json"
        /\ ~ConsistencyFileProblem(Bundle.consistency, Bundle.from, Bundle.to, roots)
    BY <1>2, <1>12, HonestFile DEF CheckConsistencyFile
  <2>2. results' = results
    BY <1>12, <2>1 DEF CheckConsistencyFile, FailIf
  <2>3. phase' \in {"open", Mode(args)} /\ Mode(args) \in Modes
    BY <1>12, <2>1 DEF CheckConsistencyFile, RunInv, PhaseInv, Active
  <2> QED BY <1>3, <2>1, <2>2, <2>3 DEF Modes
<1>13. CASE Verify
  <2>1. phase = "verify" /\ FinishWith(FALSE) /\ offered' = OfferedState(walked[1], results)
    BY <1>13 DEF Verify
  <2>2. phase = Mode(args) /\ Mode(args) \in Modes /\ EndProblem = FALSE
    BY <2>1 DEF RunInv, PhaseInv, Modes, EndProblem
  <2> QED BY <1>5, <2>1, <2>2
<1>14. CASE ConsistencyBundles
  <2>1. /\ phase = "consistency-bundles"
        /\ FinishWith(ConsistencyProblem(walked[1], walked[2], Some(results, "fail")))
    BY <1>14 DEF ConsistencyBundles
  <2>2. phase = Mode(args) /\ Mode(args) \in Modes
    BY <2>1 DEF RunInv, PhaseInv, Modes
  <2>3. Some(results, "fail") = FALSE
    <3>1. ~Some(results, "fail")
      BY <1>4, <2>2, FirstFailure
    <3> QED BY <3>1 DEF Some
  <2>4. FinishWith(EndProblem)
    BY <2>1, <2>2, <2>3 DEF EndProblem
  <2> QED BY <1>5, <2>1, <2>2, <2>4
<1>15. CASE ConsistencyRecorded
  <2>1. /\ phase = "consistency-recorded-root"
        /\ FinishWith(RecordedStateProblem(walked[1], args.size, args.root))
    BY <1>15 DEF ConsistencyRecorded
  <2>2. phase = Mode(args) /\ Mode(args) \in Modes
    BY <2>1 DEF RunInv, PhaseInv, Modes
  <2>3. FinishWith(EndProblem)
    BY <2>1, <2>2 DEF EndProblem
  <2> QED BY <1>5, <2>1, <2>2, <2>3
<1>16. CASE UNCHANGED vars
  <2>1. UNCHANGED <<phase, results, walked, exitCode, offered>>
    BY <1>16 DEF vars
  <2>2. HonestEnd' <=> HonestEnd
    BY <1>1, <2>1 DEF HonestEnd, EndProblem, Mode
  <2> QED BY <1>2, <1>3, <2>1, <2>2
<1> QED BY <1>6, <1>7, <1>8, <1>9, <1>10, <1>11, <1>12, <1>13, <1>14, <1>15, <1>16 DEF Next

LEMMA HonestInvariant == Spec => []HonestInv
<1>1. Init => HonestInv
  BY DEF Init, HonestInv
<1>2. RunInv /\ CaptureInv /\ HonestInv /\ [Next]_vars => HonestInv'
  BY HonestStep
<1> QED BY <1>1, <1>2, RunInvariant, CaptureInvariant, PTL DEF Spec

\* A walk of a clean log from its beginning has the root of the whole log.
LEMMA WalkedRoot ==
  ASSUME NEW b, NEW captured, WalkedFromStart(b, captured)
  PROVE  /\ b.to \in DOMAIN captured /\ b.to \in 1..b.to
         /\ captured[b.to] = MerkleRoot(Entries(b)) /\ captured[b.to] # None
<1>1. /\ BundleShape(b) /\ Clean(b) /\ b.from = 1 /\ CapturedOf(b, captured)
  BY DEF WalkedFromStart
<1>2. b.to \in 1..b.to /\ Prefix(b, b.to) = Entries(b)
  BY <1>1, WholeLog
<1>3. b.to \in DOMAIN captured
  BY <1>2 DEF WalkedFromStart
<1> QED BY <1>1, <1>2, <1>3, CapturedRoot

\* --consistency with two bundles of logs from their beginning, the second of which
\* was asked for the root and the proof of the size of the first: the comparison
\* says whether one extends the other.
LEMMA ComparisonDecides ==
  ASSUME NEW b, NEW newer, NEW old, NEW new,
         WalkedFromStart(b, old.roots), WalkedFromStart(newer, new.roots),
         old.stream = b.stream, old.from = b.from, old.to = b.to,
         new.stream = newer.stream, new.from = newer.from, new.to = newer.to,
         b.to \in 1..newer.to =>
           b.to \in DOMAIN new.roots /\ new.nodes = ConsistencyProof(Entries(newer), b.to)
  PROVE  ~ConsistencyProblem(old, new, FALSE)
           <=> /\ b.stream = newer.stream /\ b.to <= newer.to
               /\ Entries(b) = Prefix(newer, b.to)
<1> DEFINE m == b.to
           n == newer.to
           c == Entries(newer)
           proof == ConsistencyProof(c, m)
           shorter == Roots(Entries(b))[Span(0, m)]
           prefix == Roots(c)[Span(0, m)]
<1>1. /\ BundleShape(b) /\ Clean(b) /\ b.from = 1 /\ CapturedOf(b, old.roots)
      /\ BundleShape(newer) /\ Clean(newer) /\ newer.from = 1 /\ CapturedOf(newer, new.roots)
  BY DEF WalkedFromStart
<1>2. /\ IsSequence(b.events) /\ Len(b.events) = m /\ m \in Nat \ {0}
      /\ IsSequence(newer.events) /\ Len(newer.events) = n /\ n \in Nat \ {0}
      /\ Len(c) = n
  BY <1>1, CleanLog
<1>3. /\ m \in DOMAIN old.roots /\ old.roots[m] # None /\ old.roots[m] = shorter
      /\ n \in DOMAIN new.roots /\ new.roots[n] = MerkleRoot(c)
  BY <1>1, WalkedRoot, CapturedRoot
<1>4. CASE m > n
  <2>1. OrderProblem(old, new)
    BY <1>4 DEF OrderProblem
  <2>2. ~(m <= n)
    BY <1>2, <1>4
  <2> QED BY <2>1, <2>2 DEF ConsistencyProblem
<1>5. CASE m <= n
  <2>1. m \in 1..n
    BY <1>2, <1>5
  <2>2. m \in DOMAIN new.roots /\ new.nodes = proof /\ new.roots[m] = prefix
    BY <1>1, <2>1, CapturedRoot
  <2>3. proof # None
    <3>1. m \in DOMAIN newer.events
      BY <1>2, <2>1, EntriesOf
    <3> QED BY <1>1, <3>1 DEF BundleShape
  <2>4. Captured(old, new)
    BY <1>3, <2>2, <2>3 DEF Captured, RootAt
  <2>5. prefix = shorter => ConsistencyVerify(m, n, shorter, MerkleRoot(c), proof)
    <3>1. /\ Len(c) \in Nat \ {0} /\ m \in 1..Len(c) /\ proof \in Seq(Hashes(c))
      BY <1>2, <2>1, ProofIsHashes
    <3> HIDE DEF c, m, proof
    <3>2. ConsistencyVerify(m, Len(c), prefix, MerkleRoot(c), proof)
      BY <3>1, OnlyTheProofVerifies DEF proof
    <3> QED BY <1>2, <3>2 DEF c, m
  <2>6. Extends(old, new) <=> shorter = prefix
    <3> HIDE DEF prefix, shorter, proof, m, n
    <3>1. old.to = m /\ new.to = n
      BY DEF m, n
    <3> QED BY <1>3, <2>2, <2>4, <2>5, <3>1 DEF Extends
  <2>7. shorter = prefix <=> Entries(b) = Prefix(newer, m)
    BY <1>2, <2>1, SamePrefix
  <2>8. OrderProblem(old, new) <=> b.stream # newer.stream
    BY <1>1, <1>2, <1>5 DEF OrderProblem
  <2>9. ~ConsistencyProblem(old, new, FALSE) <=> ~OrderProblem(old, new) /\ Extends(old, new)
    BY DEF ConsistencyProblem
  <2> QED BY <1>5, <2>6, <2>7, <2>8, <2>9
<1>6. m > n \/ m <= n
  BY <1>2
<1> QED BY Zenon, <1>4, <1>5, <1>6

\* Of two honest exports of one log the newer one is found to extend the older one,
\* at any two sizes - the "internal error" of a root or a proof that was not
\* captured (consistency.go) never comes - and what one run offers to be recorded
\* (main.go) a later one finds in every longer export; and no others.
THEOREM HonestExtension == Spec => []HonestExtensionHolds
<1>1. ASSUME RunInv, CaptureInv, HonestInv, HonestRun, phase = "end", Mode(args) \in Modes
      PROVE  HonestExtensionHolds
  <2> DEFINE b == args.targets[1]
             newer == args.targets[2]
             n == Len(args.targets)
  <2>1. /\ args \in Invocations /\ HonestEnd /\ Len(walked) = n
        /\ n \in Nat /\ DOMAIN args.targets = 1..n
    BY <1>1, ModeIs DEF HonestInv, HonestEnd, RunInv, PhaseInv
  <2>2. ASSUME NEW i \in 1..n
        PROVE  /\ WalkedFromStart(args.targets[i], walked[i].roots)
               /\ walked[i].stream = args.targets[i].stream
               /\ walked[i].from = args.targets[i].from /\ walked[i].to = args.targets[i].to
               /\ BundleShape(args.targets[i]) /\ Clean(args.targets[i])
               /\ args.targets[i].from = 1
               /\ AllCaptured(args, i, walked[i].roots, args.targets[i].to)
               /\ ProofTaken(args, i, walked[i].nodes)
    <3>1. WalkedOf(args.targets[i], walked[i], Failed) /\ BundleShape(args.targets[i])
      BY <1>1, <2>1, ModeIs DEF RunInv, WalkedInv
    <3>2. Clean(args.targets[i]) /\ args.targets[i].from = 1
      BY <1>1, <2>1 DEF HonestRun, Honest, Clean
    <3>3. WalkedFromStart(args.targets[i], walked[i].roots)
      BY <1>1, <2>1, <3>1, <3>2, WalkedBundle
    <3>4. /\ AllCaptured(args, i, walked[i].roots, args.targets[i].to)
          /\ ProofTaken(args, i, walked[i].nodes)
      BY <1>1, <2>1 DEF CaptureInv
    <3> QED BY <3>1, <3>2, <3>3, <3>4 DEF WalkedOf
  <2>3. CASE Mode(args) = "verify"
    <3>1. 1 \in 1..n
      BY <2>1, <2>3, ModeIs
    <3>2. exitCode = ExitPass /\ offered = OfferedState(walked[1], NewResults)
      BY <2>1, <2>3 DEF HonestEnd, EndProblem
    <3>3. ExitCode(NewResults) # ExitFail
      BY FirstFailure DEF ExitPass, ExitFail
    <3>4. /\ walked[1].from = 1 /\ walked[1].to = b.to
          /\ b.to \in DOMAIN walked[1].roots
          /\ walked[1].roots[b.to] = MerkleRoot(Entries(b)) /\ walked[1].roots[b.to] # None
      BY <2>2, <3>1, WalkedRoot
    <3>5. offered = [size |-> b.to, root |-> MerkleRoot(Entries(b))]
      BY <3>2, <3>3, <3>4 DEF OfferedState, RootAt
    <3> QED BY <2>3, <3>2, <3>5 DEF HonestExtensionHolds
  <2>4. CASE Mode(args) = "consistency-bundles"
    <3>1. n = 2 /\ 1 \in 1..n /\ 2 \in 1..n
      BY <2>1, <2>4, ModeIs
    <3>2. (exitCode = ExitPass) <=> ~ConsistencyProblem(walked[1], walked[2], FALSE)
      BY <2>1, <2>4 DEF HonestEnd, EndProblem
    <3>3. ASSUME b.to \in 1..newer.to
          PROVE  /\ b.to \in DOMAIN walked[2].roots
                 /\ walked[2].nodes = ConsistencyProof(Entries(newer), b.to)
      <4>1. newer.from = 1 /\ Clean(newer) /\ b.to > 0 /\ b.to <= newer.to
        BY <2>2, <3>1, <3>3
      <4>2. ProofAsked(args, 2) /\ b.to \in AskedSizes(args, 2)
        BY <2>4, <4>1 DEF ProofAsked, AskedSizes, ProvableFrom
      <4> QED BY <2>2, <3>1, <3>3, <4>1, <4>2 DEF AllCaptured, ProofTaken
    <3>4. ~ConsistencyProblem(walked[1], walked[2], FALSE)
            <=> /\ b.stream = newer.stream /\ b.to <= newer.to
                /\ Entries(b) = Prefix(newer, b.to)
      <4>1. /\ WalkedFromStart(b, walked[1].roots) /\ WalkedFromStart(newer, walked[2].roots)
            /\ walked[1].stream = b.stream /\ walked[1].from = b.from /\ walked[1].to = b.to
            /\ walked[2].stream = newer.stream /\ walked[2].from = newer.from
            /\ walked[2].to = newer.to
        BY <2>2, <3>1
      <4> HIDE DEF b, newer
      <4> QED BY ZenonT(30), <3>3, <4>1, ComparisonDecides
    <3> QED BY <2>4, <3>2, <3>4 DEF HonestExtensionHolds
  <2>5. CASE Mode(args) = "consistency-recorded-root"
    <3> DEFINE size == args.size
               captured == walked[1].roots
    <3>1. /\ n = 1 /\ 1 \in 1..n /\ size \in Int
      <4>1. n = 1 /\ args.size \in Int
        BY <2>1, <2>5, ModeIs
      <4> QED BY <4>1
    <3>2. (exitCode = ExitPass) <=> ~RecordedStateProblem(walked[1], size, args.root)
      BY <2>1, <2>5 DEF HonestEnd, EndProblem
    <3>3. /\ BundleShape(b) /\ Clean(b) /\ b.from = 1 /\ CapturedOf(b, captured)
          /\ walked[1].from = 1 /\ walked[1].to = b.to /\ b.to \in Int
      BY <2>2, <3>1 DEF WalkedFromStart, BundleShape
    <3>4. size \in AskedSizes(args, 1)
      BY <2>5 DEF AskedSizes
    <3>5. ASSUME size \in 1..b.to
          PROVE  /\ RootAt(captured, size) = MerkleRoot(Prefix(b, size))
                 /\ RootAt(captured, size) # Malformed
      <4>1. size \in DOMAIN captured
        BY <2>2, <3>1, <3>4, <3>5 DEF AllCaptured
      <4> QED BY <3>3, <4>1, CapturedRoot DEF RootAt
    <3>6. ~RecordedStateProblem(walked[1], size, args.root)
            <=> size \in 1..b.to /\ args.root = MerkleRoot(Prefix(b, size))
      <4> HIDE DEF b, size, captured
      <4>1. ~(size < 1 \/ size > b.to) <=> size \in 1..b.to
        BY <3>1, <3>3
      <4> QED BY <3>3, <3>5, <4>1 DEF RecordedStateProblem, captured
    <3> QED BY <2>5, <3>2, <3>6 DEF HonestExtensionHolds
  <2> QED BY <1>1, <2>3, <2>4, <2>5 DEF Modes
<1>2. RunInv /\ CaptureInv /\ HonestInv => HonestExtensionHolds
  <2>1. ASSUME Mode(args) \notin Modes PROVE HonestExtensionHolds
    BY <2>1 DEF HonestExtensionHolds, Modes
  <2>2. ASSUME ~HonestRun \/ phase # "end" PROVE HonestExtensionHolds
    BY <2>2 DEF HonestExtensionHolds, HonestRun
  <2> QED BY <1>1, <2>1, <2>2
<1> QED BY <1>2, RunInvariant, CaptureInvariant, HonestInvariant, PTL
=============================================================================
