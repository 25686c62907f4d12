---------------------------- MODULE VerdictProofs ----------------------------
(***************************************************************************)
(* What the demotion of a result guarantees, for every sequence of checks, *)
(* and the induction over the natural numbers the other proofs use.        *)
(***************************************************************************)
EXTENDS Verdict, Sequences, TLAPS, WellFoundedInduction

\* Every state has a rank of its own: no two states are equally bad (report.go,
\* resultOrder).
LEMMA RankTotal ==
  ASSUME NEW s \in States
  PROVE  /\ Rank[s] \in 0..3
         /\ s = "pass" <=> Rank[s] = 0
         /\ s = "not_checked" <=> Rank[s] = 1
         /\ s = "unconfirmed" <=> Rank[s] = 2
         /\ s = "fail" <=> Rank[s] = 3
  BY DEF States, Rank

\* demote leaves one of the four states under each of the five results.
LEMMA DemoteType ==
  ASSUME NEW r \in Verdicts, NEW n \in Results, NEW s \in States
  PROVE  Demote(r, n, s) \in Verdicts
  BY DEF Demote, Verdicts

\* "Nothing ever raises one" (report.go): no demotion improves any result.
THEOREM DemoteNeverRaises ==
  ASSUME NEW r \in Verdicts, NEW n \in Results, NEW s \in States
  PROVE  AtLeastAsBad(Demote(r, n, s), r)
  <1> SUFFICES ASSUME NEW m \in Results
               PROVE  Rank[Demote(r, n, s)[m]] >= Rank[r[m]]
    BY DEF AtLeastAsBad
  <1>1. r[m] \in States /\ Rank[r[m]] \in 0..3 /\ Rank[s] \in 0..3
    BY RankTotal DEF Verdicts
  <1>2. QED
    BY <1>1 DEF Demote, Verdicts

\* "So the order of checks cannot change the verdict" (report.go): any two
\* demotions commute, whether they are of one result or of two.
THEOREM DemotionsCommute ==
  ASSUME NEW r \in Verdicts, NEW n \in Results, NEW s \in States,
         NEW m \in Results, NEW t \in States
  PROVE  Demote(Demote(r, n, s), m, t) = Demote(Demote(r, m, t), n, s)
  <1>1. /\ Demote(Demote(r, n, s), m, t) \in Verdicts
        /\ Demote(Demote(r, m, t), n, s) \in Verdicts
    BY DemoteType
  <1>2. ASSUME NEW k \in Results
        PROVE  Demote(Demote(r, n, s), m, t)[k] = Demote(Demote(r, m, t), n, s)[k]
    <2>1. r[k] \in States
      BY DEF Verdicts
    <2>2. \A a, b \in States : Rank[a] \in 0..3 /\ (Rank[a] = Rank[b] => a = b)
      BY RankTotal
    <2>3. QED
      BY <2>1, <2>2 DEF Demote, Verdicts
  <1>3. QED
    BY <1>1, <1>2 DEF Verdicts

\* Exit code 0 or 3 can only follow when no result has failed: with
\* DemoteNeverRaises, a failure found by any check decides the exit code.
THEOREM FailureDecidesExitCode ==
  ASSUME NEW r \in Verdicts, NEW n \in Results, r[n] = "fail"
  PROVE  ExitCode(r) = ExitFail
  BY DEF ExitCode, Some

\* What a check that passes says: the result was not failed and stays as it was.
LEMMA FailIfPasses ==
  ASSUME NEW r \in Verdicts, NEW n \in Results, NEW problem,
         FailIf(problem, r, n)[n] = "pass"
  PROVE  ~problem /\ r[n] = "pass" /\ FailIf(problem, r, n) = r
  <1>1. r[n] \in States /\ Rank[r[n]] \in 0..3 /\ "fail" \in States /\ Rank["fail"] = 3
    BY RankTotal DEF Verdicts, States
  <1>2. CASE problem
    <2>1. Demote(r, n, "fail")[n] = IF 3 > Rank[r[n]] THEN "fail" ELSE r[n]
      BY <1>1 DEF Demote, Verdicts
    <2>2. r[n] # "pass" => Rank[r[n]] # 0
      BY <1>1, RankTotal
    <2>3. Demote(r, n, "fail")[n] = "fail"
      BY <1>1, <2>1, RankTotal
    <2>4. QED
      BY <1>2, <2>3 DEF FailIf, Report
  <1>3. CASE ~problem
    BY <1>3 DEF FailIf
  <1>4. QED
    BY <1>2, <1>3

\* A result that was demoted is no pass, whatever it was before.
LEMMA DemotedIsNoPass ==
  ASSUME NEW r \in Verdicts, NEW n \in Results, NEW s \in States, s # "pass"
  PROVE  Demote(r, n, s)[n] # "pass"
  <1>1. r[n] \in States /\ Demote(r, n, s)[n] = IF Rank[s] > Rank[r[n]] THEN s ELSE r[n]
    BY DEF Demote, Verdicts
  <1>2. Rank[s] > 0 /\ (r[n] = "pass" => Rank[r[n]] = 0)
    BY <1>1, RankTotal
  <1>3. QED
    BY <1>1, <1>2

\* Reporting a problem, or not having one, leaves a verdict.
LEMMA FailIfType ==
  ASSUME NEW r \in Verdicts, NEW n \in Results, NEW problem
  PROVE  FailIf(problem, r, n) \in Verdicts
  BY DemoteType DEF FailIf, Report, States

\* A check speaks of one result and leaves the other four alone.
LEMMA FailIfOther ==
  ASSUME NEW r \in Verdicts, NEW n \in Results, NEW m \in Results, m # n,
         NEW problem
  PROVE  FailIf(problem, r, n)[m] = r[m]
  BY DEF FailIf, Report, Demote, Verdicts

\* report leaves its result failed, whatever it was.
LEMMA ReportFails ==
  ASSUME NEW r \in Verdicts, NEW n \in Results
  PROVE  Report(r, n) \in Verdicts /\ Report(r, n)[n] = "fail"
  <1>1. r[n] \in States /\ Rank[r[n]] \in 0..3 /\ "fail" \in States /\ Rank["fail"] = 3
    BY RankTotal DEF Verdicts, States
  <1>2. QED
    BY <1>1, DemoteType, RankTotal DEF Report, Demote, Verdicts
-----------------------------------------------------------------------------
(* Induction over the natural numbers, for a set of them.                  *)

\* Every set of naturals that is not empty has a smallest element.
LEMMA Smallest ==
  ASSUME NEW T, T \subseteq Nat, T # {}
  PROVE  \E x \in T : \A y \in T : x <= y
<1>1. PICK x \in T : \A y \in T : ~ (<<y, x>> \in OpToRel(<, Nat))
  BY NatLessThanWellFounded, WFMin
<1>2. \A y \in T : x <= y
  <2> TAKE y \in T
  <2>1. x \in Nat /\ y \in Nat
    OBVIOUS
  <2>2. ~ (y < x)
    BY <1>1, <2>1 DEF OpToRel
  <2> QED BY <2>1, <2>2
<1> QED BY <1>2

\* Course-of-values induction: what holds of n when it holds below n always holds.
LEMMA Induction ==
  ASSUME NEW T, \A n \in Nat : (\A m \in Nat : m < n => m \in T) => n \in T
  PROVE  \A n \in Nat : n \in T
<1> DEFINE B == {n \in Nat : n \notin T}
<1> SUFFICES ASSUME B # {} PROVE FALSE
  OBVIOUS
<1>1. PICK x \in B : \A y \in B : x <= y
  BY Smallest
<1>2. x \in Nat /\ x \notin T
  OBVIOUS
<1>3. \A m \in Nat : m < x => m \in T
  BY <1>1, <1>2
<1> QED BY <1>2, <1>3

\* Induction step by step.
LEMMA StepInduction ==
  ASSUME NEW T, 0 \in T, \A n \in Nat : n \in T => n + 1 \in T
  PROVE  \A n \in Nat : n \in T
<1>1. \A n \in Nat : (\A m \in Nat : m < n => m \in T) => n \in T
  <2> TAKE n \in Nat
  <2> HAVE \A m \in Nat : m < n => m \in T
  <2>1. CASE n = 0
    BY <2>1
  <2>2. CASE n # 0
    <3>1. n - 1 \in Nat /\ n - 1 < n /\ n = (n - 1) + 1
      BY <2>2
    <3>2. n - 1 \in T
      BY <3>1
    <3> QED BY <3>1, <3>2
  <2> QED BY <2>1, <2>2
<1> QED BY <1>1, Induction
-----------------------------------------------------------------------------
(* Sequences, whatever is in them.                                         *)

IsList(s) == s \in Seq({s[i] : i \in DOMAIN s})

\* The places of a sequence are numbered from 1.
LEMMA ListFacts ==
  ASSUME NEW s, IsList(s)
  PROVE  Len(s) \in Nat /\ DOMAIN s = 1..Len(s)
  BY DEF IsList

\* A sequence with one more element.
LEMMA OneMore ==
  ASSUME NEW s, IsList(s), NEW e
  PROVE  /\ Len(s) \in Nat /\ DOMAIN s = 1..Len(s)
         /\ Len(Append(s, e)) = Len(s) + 1 /\ DOMAIN Append(s, e) = 1..(Len(s) + 1)
         /\ Append(s, e)[Len(s) + 1] = e
         /\ \A i \in 1..Len(s) : Append(s, e)[i] = s[i]
         /\ IsList(Append(s, e))
  <1> DEFINE S == {s[i] : i \in DOMAIN s}
             t == Append(s, e)
             T == {t[i] : i \in DOMAIN t}
  <1>1. s \in Seq(S)
    BY DEF IsList
  <1>2. Len(s) \in Nat /\ DOMAIN s = 1..Len(s) /\ t \in Seq(S \cup {e})
        /\ Len(t) = Len(s) + 1 /\ DOMAIN t = 1..(Len(s) + 1) /\ t[Len(s) + 1] = e
        /\ \A i \in 1..Len(s) : t[i] = s[i]
    <2> HIDE DEF S
    <2> QED BY <1>1
  <1>3. t = [i \in 1..Len(t) |-> t[i]]
    <2> HIDE DEF S, t
    <2> QED BY <1>2
  <1>4. t \in Seq(T)
    <2> HIDE DEF S
    <2>1. \A i \in 1..Len(t) : t[i] \in T
      BY <1>2
    <2> HIDE DEF t, T
    <2> QED BY <1>2, <1>3, <2>1
  <1> QED BY <1>2, <1>4 DEF IsList
=============================================================================
