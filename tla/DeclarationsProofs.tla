------------------------- MODULE DeclarationsProofs -------------------------
(***************************************************************************)
(* What the declaration check guarantees, for every bundle and every       *)
(* declarations.ndjson: no absence passes that Sigilbase did not declare,  *)
(* and none that it did declare is refused.                                *)
(***************************************************************************)
EXTENDS Declarations, VerdictProofs

Redactions == results["redactions"] = "pass"

TypeOK ==
  /\ bundle \in Bundles
  /\ phase \in {"lines", "absences", "done", "hard"}
  /\ results \in Verdicts
  /\ read \in Seq(bundle.lines)
  /\ judged \in 0..Len(bundle.absent)
  /\ phase = "lines" => authenticated \in Seq(bundle.lines) /\ judged = 0
  /\ DOMAIN authenticated \subseteq Nat

\* Every declaration kept is a record of the file with its own hash; after the
\* end of the file it is sealed; and no absence judged so far was a problem.
KeptInv ==
  /\ \A i \in DOMAIN authenticated :
       /\ authenticated[i] \in Read /\ authenticated[i].kind = "record"
       /\ ~SelfProblem(authenticated[i])
  /\ phase \in {"absences", "done"} /\ Redactions =>
       /\ \A i \in DOMAIN authenticated : ~SealProblem(authenticated[i])
       /\ \A j \in 1..judged : ~AbsenceProblem(bundle.absent[j])
  /\ phase = "done" /\ Redactions => judged = Len(bundle.absent)

\* What an assumption on the constants says of one bundle.
LEMMA BundleFacts ==
  ASSUME NEW b \in Bundles
  PROVE  /\ b.from \in Int /\ b.to \in Int /\ b.format \in Int
         /\ \A l \in b.lines : l.kind = "record" => IsDeclaration(l)
         /\ b.absent \in Seq(Absences)
         /\ Len(b.absent) \in Nat /\ DOMAIN b.absent = 1..Len(b.absent)
         /\ \A i \in 1..Len(b.absent) : b.absent[i].seq \in Int
  <1>1. /\ b.from \in Int /\ b.to \in Int /\ b.format \in Int
        /\ \A l \in b.lines : l.kind = "record" => IsDeclaration(l)
        /\ b.absent \in Seq(Absences)
    BY DeclarationAssumption
  <1>2. Len(b.absent) \in Nat /\ DOMAIN b.absent = 1..Len(b.absent)
    BY <1>1
  <1>3. ASSUME NEW i \in 1..Len(b.absent)
        PROVE  b.absent[i].seq \in Int
    <2>1. b.absent[i] \in Absences
      BY <1>1
    <2>2. QED
      BY <2>1 DEF Absences
  <1>4. QED
    BY <1>1, <1>2, <1>3

\* A declaration's entry hash leaves nothing of it open.
LEMMA SameEntry ==
  ASSUME NEW d, NEW e, IsDeclaration(d), IsDeclaration(e),
         ~SelfProblem(d), ~SelfProblem(e), d.entry = e.entry
  PROVE  d = e
  <1>1. DeclarationHash(d) = DeclarationHash(e)
    BY DEF SelfProblem
  <1>2. /\ d.stream = e.stream /\ d.seq = e.seq /\ d.action = e.action
        /\ d.targets = e.targets /\ d.original = e.original
    BY <1>1 DEF DeclarationHash
  <1>3. QED
    BY <1>2 DEF IsDeclaration

\* A kept declaration is one of the file's records.
LEMMA KeptFacts ==
  ASSUME TypeOK, KeptInv, NEW i \in DOMAIN authenticated
  PROVE  /\ authenticated[i] \in Read /\ authenticated[i] \in bundle.lines
         /\ authenticated[i].kind = "record" /\ IsDeclaration(authenticated[i])
         /\ ~SelfProblem(authenticated[i])
  <1>1. /\ authenticated[i] \in Read /\ authenticated[i].kind = "record"
        /\ ~SelfProblem(authenticated[i])
    BY DEF KeptInv
  <1>2. Read \subseteq bundle.lines
    BY DEF TypeOK, Read
  <1>3. QED
    BY <1>1, <1>2, BundleFacts DEF TypeOK

\* What no problem was found with is sealed; and genuine, if by trusted keys.
LEMMA SealedDeclaration ==
  ASSUME bundle \in Bundles, NEW d \in bundle.lines, d.kind = "record",
         ~SelfProblem(d), ~SealProblem(d)
  PROVE  Sealed(d) /\ (SealedByTrusted(d) => d \in Genuine)
  <1>1. IsDeclaration(d)
    BY BundleFacts
  <1>2. CASE InRange(bundle, d)
    <2>1. d.seq \in DOMAIN bundle.chain /\ bundle.chain[d.seq] = d.entry
      BY <1>2 DEF SealProblem, ChainProblem, Walked
    <2>2. Vouched(bundle) => d \in Genuine
      BY <2>1, ChainAssumption
    <2>3. QED
      BY <1>2, <2>1, <2>2 DEF Sealed, SealedByTrusted
  <1>3. CASE ~InRange(bundle, d)
    <2>1. PICK proof : proof = bundle.proofs[d.entry]
      OBVIOUS
    <2>2. d.entry \in DOMAIN bundle.proofs /\ SignedSeal(d.entry, proof)
      BY <1>3, <2>1 DEF SealProblem, ProofProblem, SignedSeal
    <2>3. ASSUME proof.checkpoint.key \in DOMAIN TrustedKeys
          PROVE  d \in Genuine
      <3>1. TrustedSeal(d.entry, proof)
        BY <1>3, <2>1, <2>2, <2>3 DEF SealProblem, ProofProblem, TrustedSeal
      <3>2. PICK g \in Genuine : g.entry = d.entry
        BY <2>1, <2>2, <3>1, ChainAssumption
      <3>3. IsDeclaration(g) /\ ~SelfProblem(g)
        BY DeclarationAssumption
      <3>4. g = d
        BY <1>1, <3>2, <3>3, SameEntry
      <3>5. QED
        BY <3>4
    <2>4. QED
      BY <1>3, <2>1, <2>2, <2>3 DEF Sealed, SealedByTrusted
  <1>4. QED
    BY <1>2, <1>3

\* An absence that is no problem was declared gone by declarations that were kept.
LEMMA NoProblemIsDeclared ==
  ASSUME TypeOK, KeptInv, NEW absence, absence.seq \in Int, ~AbsenceProblem(absence),
         NEW S, \A i \in DOMAIN authenticated : authenticated[i] \in S
  PROVE  DeclaredGone(absence, S)
  <1>1. PICK i \in DOMAIN authenticated : Matches(authenticated[i], absence)
    BY DEF AbsenceProblem
  <1>2. PICK d : d = authenticated[i]
    OBVIOUS
  <1>3. d \in S /\ IsDeclaration(d)
    BY <1>2, KeptFacts
  <1>4. \E t \in d.targets : /\ t.stream = bundle.stream
                             /\ absence.seq \in t.from..t.to
    <2>1. PICK t \in d.targets : /\ t.stream = bundle.stream
                                 /\ t.from <= absence.seq /\ absence.seq <= t.to
      BY <1>1, <1>2 DEF Matches, Covers
    <2>2. t.from \in Int /\ t.to \in Int
      BY <1>3 DEF IsDeclaration
    <2>3. QED
      BY <2>1, <2>2
  <1>5. d.stream = bundle.stream /\ d.seq # None => d.seq > absence.seq
    <2>1. ~Early(d, absence.seq)
      BY <1>1, <1>2 DEF Matches
    <2>2. d.seq # None => d.seq \in Int
      BY <1>3 DEF IsDeclaration
    <2>3. QED
      BY <2>1, <2>2 DEF Early
  <1>6. ~Alone(d) /\ Declares(d, Wanted(absence))
    BY <1>1, <1>2 DEF Matches
  <1>7. \E o \in S : /\ o.action = Wanted(absence)
                     /\ d = o \/ (d.action = "declaration.supplemented"
                                    /\ d.original = o.entry)
    <2>1. CASE IsSupplement(d)
      <3>1. PICK j \in DOMAIN authenticated :
              /\ authenticated[j].entry = d.original
              /\ authenticated[j].action = Wanted(absence)
        BY <1>6, <2>1 DEF Declares, Originals
      <3>2. QED
        BY <2>1, <3>1 DEF IsSupplement
    <2>2. CASE ~IsSupplement(d)
      BY <1>3, <1>6, <2>2 DEF Declares
    <2>3. QED
      BY <2>1, <2>2
  <1>8. QED
    BY <1>3, <1>4, <1>5, <1>7 DEF DeclaredGone
-----------------------------------------------------------------------------
(* Nothing unsealed passes.                                                *)

\* The check starts with nothing read and nothing kept.
LEMMA InitType == Init => TypeOK
  <1> SUFFICES ASSUME Init PROVE TypeOK
    OBVIOUS
  <1>1. results \in Verdicts
    BY DeclarationAssumption DEF Init
  <1>2. bundle \in Bundles /\ judged = 0 /\ Len(bundle.absent) \in Nat
    BY BundleFacts DEF Init
  <1>3. /\ read \in Seq(bundle.lines) /\ authenticated \in Seq(bundle.lines)
        /\ DOMAIN authenticated \subseteq Nat
    BY DEF Init
  <1>4. QED
    BY <1>1, <1>2, <1>3 DEF Init, TypeOK

\* Adding a declaration keeps those there were, and adds nothing else.
LEMMA AddToFacts ==
  ASSUME NEW S, NEW set \in Seq(S), NEW d \in S
  PROVE  /\ AddTo(set, d) \in Seq(S)
         /\ \A i \in DOMAIN AddTo(set, d) :
              AddTo(set, d)[i] = d \/ \E j \in DOMAIN set : AddTo(set, d)[i] = set[j]
         /\ \A j \in DOMAIN set :
              j \in DOMAIN AddTo(set, d) /\ AddTo(set, d)[j] = set[j]
  <1>1. CASE \E i \in DOMAIN set : set[i].entry = d.entry
    BY <1>1 DEF AddTo
  <1>2. CASE ~\E i \in DOMAIN set : set[i].entry = d.entry
    <2>1. AddTo(set, d) = Append(set, d)
      BY <1>2 DEF AddTo
    <2>2. /\ Append(set, d) \in Seq(S) /\ Len(set) \in Nat
          /\ Len(Append(set, d)) = Len(set) + 1
          /\ Append(set, d)[Len(set) + 1] = d
          /\ \A i \in 1..Len(set) : Append(set, d)[i] = set[i]
      OBVIOUS
    <2>3. /\ DOMAIN set = 1..Len(set)
          /\ DOMAIN Append(set, d) = 1..(Len(set) + 1)
      BY <2>2
    <2>4. \A i \in 1..(Len(set) + 1) : i \in 1..Len(set) \/ i = Len(set) + 1
      BY <2>2
    <2>5. \A i \in 1..Len(set) : i \in 1..(Len(set) + 1)
      BY <2>2
    <2>6. QED
      BY <2>1, <2>2, <2>3, <2>4, <2>5
  <1>3. QED
    BY <1>1, <1>2

\* One more line of the file.
LEMMA ReadFacts ==
  ASSUME TypeOK, NEW l \in bundle.lines, read' = Append(read, l)
  PROVE  read' \in Seq(bundle.lines) /\ Read' = Read \cup {l}
  <1>1. /\ read \in Seq(bundle.lines) /\ Len(read) \in Nat
        /\ read' \in Seq(bundle.lines) /\ Len(read') = Len(read) + 1
        /\ read'[Len(read) + 1] = l
        /\ \A i \in 1..Len(read) : read'[i] = read[i]
    BY DEF TypeOK
  <1>2. DOMAIN read = 1..Len(read) /\ DOMAIN read' = 1..(Len(read) + 1)
    BY <1>1
  <1>3. 1..(Len(read) + 1) = 1..Len(read) \cup {Len(read) + 1}
    BY <1>1
  <1>4. QED
    BY <1>1, <1>2, <1>3 DEF Read

\* What the end of the file leaves: the sealed ones, in their places.
LEMMA SealedFacts ==
  ASSUME SealDeclarations
  PROVE  /\ DOMAIN authenticated' = {i \in DOMAIN authenticated : ~SealProblem(authenticated[i])}
         /\ \A i \in DOMAIN authenticated' : authenticated'[i] = authenticated[i]
  BY DEF SealDeclarations, RestrictValues, Restrict

\* Every step keeps the types.
LEMMA NextType == TypeOK /\ [Next]_vars => TypeOK'
  <1> SUFFICES ASSUME TypeOK, [Next]_vars PROVE TypeOK'
    OBVIOUS
  <1>1. /\ bundle \in Bundles /\ results \in Verdicts /\ Len(bundle.absent) \in Nat
        /\ "redactions" \in Results /\ "fail" \in States
    BY BundleFacts DEF TypeOK, Results, States
  <1>2. \A problem : FailIf(problem, results, "redactions") \in Verdicts
    BY <1>1, FailIfType
  <1>3. Report(results, "redactions") \in Verdicts
    BY <1>1, DemoteType DEF Report
  <1>4. CASE Refuse
    BY <1>3, <1>4 DEF Refuse, TypeOK
  <1>5. ASSUME NEW l \in bundle.lines, ReadGarbage(l)
        PROVE  TypeOK'
    BY <1>3, <1>5, ReadFacts DEF ReadGarbage, TypeOK
  <1>6. ASSUME NEW l \in bundle.lines, ReadDeclaration(l)
        PROVE  TypeOK'
    <2>1. /\ phase = "lines" /\ bundle' = bundle /\ phase' = phase /\ judged' = judged
          /\ results' \in Verdicts /\ read' = Append(read, l)
      BY <1>2, <1>6 DEF ReadDeclaration, Reading
    <2>2. authenticated \in Seq(bundle.lines)
      BY <2>1 DEF TypeOK
    <2>3. authenticated' \in Seq(bundle.lines)
      BY <1>6, <2>2, AddToFacts DEF ReadDeclaration
    <2>4. DOMAIN authenticated' \subseteq Nat
      BY <2>3
    <2>5. QED
      BY <2>1, <2>3, <2>4, ReadFacts DEF TypeOK
  <1>7. CASE ReadFails
    BY <1>7 DEF ReadFails, TypeOK
  <1>8. CASE SealDeclarations
    <2>1. DOMAIN authenticated' \subseteq Nat
      BY <1>8, SealedFacts DEF TypeOK
    <2>2. /\ phase' = "absences" /\ UNCHANGED <<bundle, judged, read>>
          /\ results' \in Verdicts
      BY <1>2, <1>8 DEF SealDeclarations
    <2>3. QED
      BY <2>1, <2>2 DEF TypeOK
  <1>9. CASE JudgeAbsence
    <2>1. /\ phase = "absences" /\ judged < Len(bundle.absent) /\ judged' = judged + 1
          /\ UNCHANGED <<bundle, phase, authenticated, read>> /\ results' \in Verdicts
      BY <1>2, <1>9 DEF JudgeAbsence
    <2>2. judged' \in 0..Len(bundle.absent)
      BY <1>1, <2>1 DEF TypeOK
    <2>3. QED
      BY <2>1, <2>2 DEF TypeOK
  <1>10. CASE Finish
    BY <1>10 DEF Finish, TypeOK
  <1>11. CASE UNCHANGED vars
    BY <1>11 DEF vars, TypeOK
  <1>12. QED
    BY <1>4, <1>5, <1>6, <1>7, <1>8, <1>9, <1>10, <1>11 DEF Next

\* A check that leaves redactions standing found no problem.
LEMMA StandingRedactions ==
  ASSUME TypeOK, NEW problem, results' = FailIf(problem, results, "redactions"),
         Redactions'
  PROVE  ~problem /\ Redactions
  BY FailIfPasses DEF Redactions, TypeOK, Results

\* A problem reported is one that redactions do not survive.
LEMMA ReportedRedactions ==
  ASSUME TypeOK, results' = Report(results, "redactions")
  PROVE  ~Redactions'
  BY ReportFails DEF Redactions, TypeOK, Results

\* Whether a declaration is sealed, and an absence a problem, is a matter of the
\* bundle and of what was kept.
LEMMA SameProblems ==
  ASSUME UNCHANGED <<bundle, authenticated>>
  PROVE  /\ \A d : SealProblem(d)' <=> SealProblem(d)
         /\ \A absence : AbsenceProblem(absence)' <=> AbsenceProblem(absence)
  BY DEF SealProblem, ChainProblem, ProofProblem, Walked, Retained, InRange,
         AbsenceProblem, Matches, Contradicts, Covers, Alone, Declares, Originals,
         IsSupplement, Early

\* Every step keeps what was kept true.
LEMMA NextKeptInv == TypeOK /\ KeptInv /\ [Next]_vars => KeptInv'
  <1> SUFFICES ASSUME TypeOK, KeptInv, [Next]_vars PROVE KeptInv'
    OBVIOUS
  <1>1. bundle \in Bundles /\ judged \in Nat /\ Len(bundle.absent) \in Nat
    BY BundleFacts DEF TypeOK
  <1>2. CASE Refuse
    <2>1. ~Redactions'
      BY <1>2, ReportedRedactions DEF Refuse
    <2>2. UNCHANGED <<authenticated, read>>
      BY <1>2 DEF Refuse
    <2>3. QED
      BY <2>1, <2>2 DEF KeptInv, Read, SelfProblem
  <1>3. ASSUME NEW l \in bundle.lines, ReadGarbage(l)
        PROVE  KeptInv'
    <2>1. phase' = "lines" /\ authenticated' = authenticated /\ Read' = Read \cup {l}
      BY <1>3, ReadFacts DEF ReadGarbage, Reading
    <2>2. QED
      BY <2>1 DEF KeptInv, SelfProblem
  <1>4. ASSUME NEW l \in bundle.lines, ReadDeclaration(l)
        PROVE  KeptInv'
    <2>1. /\ phase = "lines" /\ phase' = "lines" /\ Read' = Read \cup {l}
          /\ l.kind = "record"
      BY <1>4, ReadFacts DEF ReadDeclaration, Reading
    <2>2. CASE SelfProblem(l)
      BY <1>4, <2>1, <2>2 DEF ReadDeclaration, KeptInv, SelfProblem
    <2>3. CASE ~SelfProblem(l)
      <3>1. authenticated \in Seq(bundle.lines) /\ authenticated' = AddTo(authenticated, l)
        BY <1>4, <2>1, <2>3 DEF ReadDeclaration, TypeOK
      <3>2. \A i \in DOMAIN authenticated' :
              \/ authenticated'[i] = l
              \/ \E j \in DOMAIN authenticated : authenticated'[i] = authenticated[j]
        BY <3>1, AddToFacts
      <3>3. ASSUME NEW i \in DOMAIN authenticated'
            PROVE  /\ authenticated'[i] \in Read' /\ authenticated'[i].kind = "record"
                   /\ ~SelfProblem(authenticated'[i])
        BY <2>1, <2>3, <3>2 DEF KeptInv
      <3>4. QED
        BY <2>1, <3>3 DEF KeptInv, SelfProblem
    <2>4. QED
      BY <2>2, <2>3
  <1>5. CASE ReadFails
    BY <1>5 DEF ReadFails, KeptInv, Read, SelfProblem
  <1>6. CASE SealDeclarations
    <2>1. /\ DOMAIN authenticated' \subseteq DOMAIN authenticated
          /\ \A i \in DOMAIN authenticated' : /\ authenticated'[i] = authenticated[i]
                                              /\ ~SealProblem(authenticated[i])
      BY <1>6, SealedFacts
    <2>2. /\ phase = "lines" /\ phase' = "absences" /\ UNCHANGED <<bundle, judged, read>>
      BY <1>6 DEF SealDeclarations
    <2>3. judged' = 0
      BY <2>2 DEF TypeOK
    <2>4. \A d : SealProblem(d)' <=> SealProblem(d)
      BY <2>2 DEF SealProblem, ChainProblem, ProofProblem, Walked, Retained, InRange
    <2>5. 1..0 = {} /\ phase' # "done"
      BY <2>2
    <2>6. QED
      BY <2>1, <2>2, <2>3, <2>4, <2>5 DEF KeptInv, Read, SelfProblem
  <1>7. CASE JudgeAbsence
    <2>1. /\ phase = "absences" /\ judged' = judged + 1
          /\ UNCHANGED <<bundle, phase, authenticated, read>>
          /\ results' = FailIf(AbsenceProblem(bundle.absent[judged + 1]), results, "redactions")
      BY <1>7 DEF JudgeAbsence
    <2>2. Redactions' => Redactions /\ ~AbsenceProblem(bundle.absent[judged + 1])
      BY <2>1, StandingRedactions
    <2>3. 1..(judged + 1) = 1..judged \cup {judged + 1}
      BY <1>1
    <2>4. Redactions' => \A j \in 1..judged' : ~AbsenceProblem(bundle.absent[j])
      BY <2>1, <2>2, <2>3 DEF KeptInv
    <2>5. QED
      BY <2>1, <2>2, <2>4, SameProblems DEF KeptInv, Read, SelfProblem
  <1>8. CASE Finish
    <2>1. /\ phase = "absences" /\ phase' = "done" /\ judged = Len(bundle.absent)
          /\ UNCHANGED <<bundle, results, authenticated, judged, read>>
      BY <1>8 DEF Finish
    <2>2. QED
      BY <2>1, SameProblems DEF KeptInv, Read, SelfProblem, Redactions
  <1>9. CASE UNCHANGED vars
    <2>1. UNCHANGED <<bundle, phase, results, authenticated, judged, read>>
      BY <1>9 DEF vars
    <2>2. QED
      BY <2>1, SameProblems DEF KeptInv, Read, SelfProblem, Redactions
  <1>10. QED
    BY <1>2, <1>3, <1>4, <1>5, <1>6, <1>7, <1>8, <1>9 DEF Next

\* The check starts with nothing kept.
LEMMA InitKeptInv == Init => KeptInv
  BY DEF Init, KeptInv

\* The inductive invariant of the check (declarations.go): what is kept are the
\* file's own records, sealed once the file has ended, and every absence judged so
\* far was named by them.
THEOREM KeptInvariant == Spec => [](TypeOK /\ KeptInv)
  <1>1. QED
    BY InitType, NextType, InitKeptInv, NextKeptInv, PTL DEF Spec

\* "Absence must be declared, never implied" (declarations.go): when redactions
\* pass, every absent payload was declared gone by a record of the file that is
\* itself sealed, and that Sigilbase made wherever trusted keys did the sealing.
THEOREM AbsencesDeclared == Spec => []AbsencesAreDeclared
  <1>1. ASSUME TypeOK, KeptInv, Accepted, NEW i \in DOMAIN bundle.absent
        PROVE  DeclaredGone(bundle.absent[i], Admissible)
    <2>1. bundle \in Bundles /\ i \in 1..Len(bundle.absent) /\ bundle.absent[i].seq \in Int
      BY <1>1, BundleFacts DEF TypeOK
    <2>2. ~AbsenceProblem(bundle.absent[i])
      BY <1>1, <2>1 DEF KeptInv, Accepted, Redactions
    <2>3. ASSUME NEW k \in DOMAIN authenticated
          PROVE  authenticated[k] \in Admissible
      <3>1. ~SealProblem(authenticated[k])
        BY <1>1 DEF KeptInv, Accepted, Redactions
      <3>2. QED
        BY <1>1, <2>1, <3>1, KeptFacts, SealedDeclaration DEF Admissible
    <2>4. QED
      BY <1>1, <2>1, <2>2, <2>3, NoProblemIsDeclared
  <1>2. TypeOK /\ KeptInv => AbsencesAreDeclared
    BY <1>1 DEF AbsencesAreDeclared
  <1>3. QED
    BY <1>2, KeptInvariant, PTL

\* Trusted keys sealed all that redactions may rest on: the range, as the walk
\* left the results, and every checkpoint that a proof of this bundle carries.
AllSealedByTrusted ==
  /\ Vouched(bundle)
  /\ \A d \in Read : Sealed(d) /\ ~InRange(bundle, d) =>
       bundle.proofs[d.entry].checkpoint.key \in DOMAIN TrustedKeys

\* Where no other key sealed anything the promise is the whole one: a bundle whose
\* content, signing identity and scope pass, and whose proofs are all under trusted
\* keys, has redactions pass only if Sigilbase declared every absence.
TrustedAbsencesAreGenuine ==
  Accepted /\ AllSealedByTrusted =>
    \A i \in DOMAIN bundle.absent : DeclaredGone(bundle.absent[i], Read \cap Genuine)

\* What declarations.go promises of a bundle that trusted keys sealed throughout:
\* no absence passes that Sigilbase did not declare.
THEOREM TrustedAbsences == Spec => []TrustedAbsencesAreGenuine
  <1>1. ASSUME AllSealedByTrusted
        PROVE  Admissible \subseteq Read \cap Genuine
    BY <1>1 DEF AllSealedByTrusted, Admissible, SealedByTrusted
  <1>2. ASSUME NEW absence, NEW S, NEW T, S \subseteq T, DeclaredGone(absence, S)
        PROVE  DeclaredGone(absence, T)
    BY <1>2 DEF DeclaredGone
  <1>3. AbsencesAreDeclared => TrustedAbsencesAreGenuine
    BY <1>1, <1>2 DEF AbsencesAreDeclared, TrustedAbsencesAreGenuine
  <1>4. QED
    BY <1>3, AbsencesDeclared, PTL
-----------------------------------------------------------------------------
(* Nothing sealed is refused.                                              *)

\* The file so far holds nothing but sealed declarations, of a bundle that can.
Sound ==
  /\ bundle.format >= 5 /\ bundle.hasFile
  /\ \A d \in Read : d.kind = "record" /\ d \in Genuine /\ ~SealProblem(d)

HonestExport ==
  /\ bundle.format >= 5 /\ bundle.hasFile
  /\ \A d \in Read : d.kind = "record" /\ HonestDeclaration(d)
  /\ \A i \in DOMAIN bundle.absent : DeclaredGone(bundle.absent[i], Read)

Kept == {authenticated[i] : i \in DOMAIN authenticated}

\* While the file is sound all of it is kept, and nothing is reported before the
\* absences are judged, nor then if the export is honest.
SoundInv ==
  /\ phase \in {"lines", "absences", "done"} /\ Sound => Kept = Read
  /\ phase = "lines" /\ Sound => Redactions
  /\ phase \in {"absences", "done"} /\ HonestExport => Redactions

\* An honest declaration is sealed: the walk kept the entry hash of its place, or
\* its proof is good.
LEMMA HonestIsSealed ==
  ASSUME TypeOK, NEW d \in Read, d.kind = "record", HonestDeclaration(d)
  PROVE  d \in Genuine /\ ~SealProblem(d)
  <1>1. d \in bundle.lines /\ bundle \in Bundles
    BY DEF TypeOK, Read
  <1>2. CASE InRange(bundle, d)
    <2>1. d.seq \in DOMAIN bundle.chain /\ bundle.chain[d.seq] = d.entry
      BY <1>2 DEF HonestDeclaration
    <2>2. d.seq \in Retained(bundle)
      BY <1>1, <1>2 DEF Retained
    <2>3. d.seq \in DOMAIN Walked(bundle) /\ Walked(bundle)[d.seq] = d.entry
      BY <2>1, <2>2 DEF Walked
    <2>4. QED
      BY <1>2, <2>3 DEF SealProblem, ChainProblem, HonestDeclaration
  <1>3. CASE ~InRange(bundle, d)
    BY <1>3 DEF SealProblem, ProofProblem, HonestDeclaration, TrustedSeal, SignedSeal
  <1>4. QED
    BY <1>2, <1>3

LEMMA HonestIsSound == TypeOK /\ HonestExport => Sound
  BY HonestIsSealed DEF HonestExport, Sound

\* An absence that the declarations kept declare gone is no problem.
LEMMA DeclaredIsNoProblem ==
  ASSUME TypeOK, Kept = Read, HonestExport, NEW k \in 1..Len(bundle.absent)
  PROVE  ~AbsenceProblem(bundle.absent[k])
  <1>1. PICK absence : absence = bundle.absent[k]
    OBVIOUS
  <1>2. /\ bundle \in Bundles /\ absence.seq \in Int /\ DeclaredGone(absence, Read)
    BY <1>1, BundleFacts DEF TypeOK, HonestExport
  <1>3. PICK d \in Read, o \in Read :
          /\ \E t \in d.targets : /\ t.stream = bundle.stream
                                  /\ absence.seq \in t.from..t.to
          /\ o.action = Wanted(absence)
          /\ d = o \/ (d.action = "declaration.supplemented" /\ d.original = o.entry)
          /\ d.stream = bundle.stream /\ d.seq # None => d.seq > absence.seq
    BY <1>2 DEF DeclaredGone
  <1>4. ASSUME NEW r \in Read
        PROVE  /\ IsDeclaration(r) /\ HonestDeclaration(r)
               /\ \E i \in DOMAIN authenticated : authenticated[i] = r
    <2>1. r \in bundle.lines /\ r.kind = "record" /\ HonestDeclaration(r)
      BY DEF TypeOK, Read, HonestExport
    <2>2. r \in Kept
      OBVIOUS
    <2>3. QED
      BY <1>2, <2>1, <2>2, BundleFacts DEF Kept
  <1>5. ASSUME NEW r \in Read, IsSupplement(r)
        PROVE  ~Alone(r)
    BY <1>4, <1>5 DEF HonestDeclaration, IsSupplement, Alone, Originals
  <1>6. ASSUME NEW r \in Read
        PROVE  ~Alone(r)
    BY <1>5 DEF Alone
  <1>7. ASSUME NEW r \in Read
        PROVE  ~Contradicts(r, absence)
    <2>1. SUFFICES ASSUME Covers(r, bundle.stream, absence.seq), Early(r, absence.seq)
                   PROVE  FALSE
      BY <1>6 DEF Contradicts
    <2>2. PICK t \in r.targets : /\ t.stream = bundle.stream
                                 /\ t.from <= absence.seq /\ absence.seq <= t.to
      BY <2>1 DEF Covers
    <2>3. r.stream = bundle.stream /\ r.seq # None /\ r.seq <= absence.seq
      BY <2>1 DEF Early
    <2>4. t.to \in Int /\ r.seq \in Int
      BY <1>4, <2>3 DEF IsDeclaration
    <2>5. t.to < r.seq
      BY <1>4, <2>2, <2>3 DEF HonestDeclaration
    <2>6. QED
      BY <1>2, <2>2, <2>3, <2>4, <2>5
  <1>8. Covers(d, bundle.stream, absence.seq)
    <2>1. PICK t \in d.targets : t.stream = bundle.stream /\ absence.seq \in t.from..t.to
      BY <1>3
    <2>2. t.from \in Int /\ t.to \in Int
      BY <1>4 DEF IsDeclaration
    <2>3. QED
      BY <1>2, <2>1, <2>2 DEF Covers
  <1>9. Declares(d, Wanted(absence))
    <2>1. CASE d.action = "declaration.supplemented"
      <3>1. d # o
        BY <1>3, <2>1 DEF Wanted
      <3>2. PICK i \in DOMAIN authenticated : authenticated[i] = o
        BY <1>4
      <3>3. i \in Originals(d) /\ authenticated[i].action = Wanted(absence)
        BY <1>3, <3>1, <3>2 DEF Originals
      <3>4. QED
        BY <2>1, <3>3 DEF Declares, IsSupplement
    <2>2. CASE d.action # "declaration.supplemented"
      BY <1>3, <2>2 DEF Declares, IsSupplement
    <2>3. QED
      BY <2>1, <2>2
  <1>10. ~Early(d, absence.seq)
    <2>1. d.seq # None => d.seq \in Int
      BY <1>4 DEF IsDeclaration
    <2>2. QED
      BY <1>2, <1>3, <2>1 DEF Early
  <1>11. Matches(d, absence)
    BY <1>6, <1>8, <1>9, <1>10 DEF Matches
  <1>12. PICK i \in DOMAIN authenticated : authenticated[i] = d
    BY <1>4
  <1>13. \A j \in DOMAIN authenticated : authenticated[j] \in Read
    BY DEF Kept
  <1>14. QED
    BY <1>1, <1>7, <1>11, <1>12, <1>13 DEF AbsenceProblem

\* The check starts with nothing to hold against an honest export.
LEMMA InitSoundInv == Init => SoundInv
  BY DeclarationAssumption DEF Init, SoundInv, Kept, Read, Redactions

\* A step after which the same was read and kept.
LEMMA SameSoundness ==
  ASSUME UNCHANGED <<bundle, authenticated, read>>
  PROVE  (Sound' <=> Sound) /\ (HonestExport' <=> HonestExport) /\ Kept' = Kept
  BY DEF Sound, HonestExport, Kept, Read, SealProblem, ChainProblem, ProofProblem, Walked,
         Retained, InRange, HonestDeclaration, DeclaredGone

\* A file that is sound with one more line was sound without it.
LEMMA SoundBefore ==
  ASSUME TypeOK, NEW l \in bundle.lines, bundle' = bundle, Read' = Read \cup {l}, Sound'
  PROVE  Sound /\ l.kind = "record" /\ l \in Genuine
  BY DEF Sound, SealProblem, ChainProblem, ProofProblem, Walked, Retained, InRange

\* One more sealed declaration is kept, unless it was there already.
LEMMA ReadDeclarationSoundInv ==
  ASSUME TypeOK, KeptInv, SoundInv, NEW l \in bundle.lines, ReadDeclaration(l)
  PROVE  SoundInv'
  <1>1. /\ phase = "lines" /\ phase' = "lines" /\ bundle' = bundle
        /\ Read' = Read \cup {l} /\ l.kind = "record"
        /\ authenticated \in Seq(bundle.lines) /\ bundle \in Bundles
    BY ReadFacts DEF ReadDeclaration, Reading, TypeOK
  <1>2. SUFFICES ASSUME Sound'
                 PROVE  Kept' = Read' /\ Redactions'
    BY <1>1 DEF SoundInv
  <1>3. Sound /\ l \in Genuine /\ Kept = Read /\ Redactions
    BY <1>1, <1>2, SoundBefore DEF SoundInv
  <1>4. ~SelfProblem(l) /\ IsDeclaration(l)
    BY <1>3, DeclarationAssumption
  <1>5. results' = results /\ authenticated' = AddTo(authenticated, l)
    BY <1>4 DEF ReadDeclaration, FailIf
  <1>6. /\ \A i \in DOMAIN authenticated' :
             \/ authenticated'[i] = l
             \/ \E j \in DOMAIN authenticated : authenticated'[i] = authenticated[j]
        /\ \A j \in DOMAIN authenticated :
             j \in DOMAIN authenticated' /\ authenticated'[j] = authenticated[j]
        /\ \/ \E i \in DOMAIN authenticated' : authenticated'[i] = l
           \/ \E i \in DOMAIN authenticated : authenticated[i].entry = l.entry
    <2>1. authenticated \in Seq(bundle.lines) /\ authenticated' = AddTo(authenticated, l)
      BY <1>1, <1>5
    <2>2. \A i \in DOMAIN authenticated' :
            authenticated'[i] = l \/ \E j \in DOMAIN authenticated : authenticated'[i] = authenticated[j]
      BY <2>1, AddToFacts
    <2>3. \A j \in DOMAIN authenticated :
            j \in DOMAIN authenticated' /\ authenticated'[j] = authenticated[j]
      BY <2>1, AddToFacts
    <2>4. \/ \E i \in DOMAIN authenticated' : authenticated'[i] = l
          \/ \E i \in DOMAIN authenticated : authenticated[i].entry = l.entry
      <3>1. SUFFICES ASSUME ~\E i \in DOMAIN authenticated : authenticated[i].entry = l.entry
                     PROVE  \E i \in DOMAIN authenticated' : authenticated'[i] = l
        OBVIOUS
      <3>2. authenticated' = Append(authenticated, l)
        BY <2>1, <3>1 DEF AddTo
      <3>3. Len(authenticated) + 1 \in DOMAIN authenticated'
            /\ authenticated'[Len(authenticated) + 1] = l
        BY <2>1, <3>2
      <3>4. QED
        BY <3>3
    <2>5. QED
      BY <2>2, <2>3, <2>4
  <1>7. l \in Kept'
    <2>1. CASE \E i \in DOMAIN authenticated' : authenticated'[i] = l
      BY <2>1 DEF Kept
    <2>2. ASSUME NEW i \in DOMAIN authenticated, authenticated[i].entry = l.entry
          PROVE  l \in Kept'
      <3>1. authenticated[i] = l
        BY <1>4, <2>2, KeptFacts, SameEntry
      <3>2. QED
        BY <1>6, <3>1 DEF Kept
    <2>3. QED
      BY <1>6, <2>1, <2>2
  <1>8. Kept \subseteq Kept' /\ Kept' \subseteq Kept \cup {l}
    BY <1>6 DEF Kept
  <1>9. QED
    BY <1>1, <1>3, <1>5, <1>7, <1>8 DEF Redactions

\* Every step keeps an honest export unblamed.
LEMMA NextSoundInv == TypeOK /\ KeptInv /\ SoundInv /\ [Next]_vars => SoundInv'
  <1> SUFFICES ASSUME TypeOK, KeptInv, SoundInv, [Next]_vars PROVE SoundInv'
    OBVIOUS
  <1>1. bundle \in Bundles /\ bundle.format \in Int /\ Len(bundle.absent) \in Nat
        /\ judged \in Nat
    BY BundleFacts DEF TypeOK
  <1>2. CASE Refuse
    <2>1. ~Sound /\ ~HonestExport /\ UNCHANGED <<bundle, authenticated, read>>
      BY <1>1, <1>2 DEF Refuse, Undeclared, Sound, HonestExport
    <2>2. QED
      BY <2>1, SameSoundness DEF SoundInv
  <1>3. ASSUME NEW l \in bundle.lines, ReadGarbage(l)
        PROVE  SoundInv'
    <2>1. /\ phase' = "lines" /\ Read' = Read \cup {l} /\ l.kind = "garbage"
          /\ bundle' = bundle
      BY <1>3, ReadFacts DEF ReadGarbage, Reading
    <2>2. ~Sound'
      BY <2>1, SoundBefore
    <2>3. QED
      BY <2>1, <2>2 DEF SoundInv
  <1>4. ASSUME NEW l \in bundle.lines, ReadDeclaration(l)
        PROVE  SoundInv'
    BY <1>4, ReadDeclarationSoundInv
  <1>5. CASE ReadFails
    BY <1>5 DEF ReadFails, SoundInv
  <1>6. CASE SealDeclarations
    <2>1. /\ phase = "lines" /\ phase' = "absences" /\ UNCHANGED <<bundle, read>>
          /\ results' = FailIf(\E i \in DOMAIN authenticated : SealProblem(authenticated[i]),
                               results, "redactions")
      BY <1>6 DEF SealDeclarations
    <2>2. (Sound' => Sound) /\ (HonestExport' => HonestExport)
      <3>1. Read' = Read
        BY <2>1 DEF Read
      <3>2. ASSUME NEW d
            PROVE  SealProblem(d)' <=> SealProblem(d)
        BY <2>1 DEF SealProblem, ChainProblem, ProofProblem, Walked, Retained, InRange
      <3>3. ASSUME NEW d
            PROVE  HonestDeclaration(d)' <=> HonestDeclaration(d)
        BY <2>1, <3>1 DEF HonestDeclaration, InRange
      <3>4. Sound' => Sound
        BY <2>1, <3>1, <3>2 DEF Sound
      <3>5. HonestExport' => HonestExport
        BY <2>1, <3>1, <3>3 DEF HonestExport, DeclaredGone
      <3>6. QED
        BY <3>4, <3>5
    <2>3. ASSUME Sound
          PROVE  Kept' = Read' /\ Redactions'
      <3>1. Kept = Read /\ Redactions
        BY <2>1, <2>3 DEF SoundInv
      <3>2. \A i \in DOMAIN authenticated : ~SealProblem(authenticated[i])
        BY <2>3, <3>1 DEF Sound, Kept
      <3>3. results' = results
        BY <2>1, <3>2 DEF FailIf
      <3>4. /\ DOMAIN authenticated' = DOMAIN authenticated
            /\ \A i \in DOMAIN authenticated : authenticated'[i] = authenticated[i]
        BY <1>6, <3>2, SealedFacts
      <3>5. QED
        BY <2>1, <3>1, <3>3, <3>4 DEF Kept, Read, Redactions
    <2>4. QED
      BY <2>1, <2>2, <2>3, HonestIsSound DEF SoundInv
  <1>7. CASE JudgeAbsence
    <2>1. /\ phase = "absences" /\ judged + 1 \in 1..Len(bundle.absent)
          /\ UNCHANGED <<bundle, phase, authenticated, read>>
          /\ results' = FailIf(AbsenceProblem(bundle.absent[judged + 1]), results, "redactions")
      BY <1>1, <1>7 DEF JudgeAbsence
    <2>2. ASSUME HonestExport
          PROVE  Redactions'
      <3>1. Kept = Read /\ Redactions
        BY <2>1, <2>2, HonestIsSound DEF SoundInv
      <3>2. ~AbsenceProblem(bundle.absent[judged + 1])
        BY <2>1, <2>2, <3>1, DeclaredIsNoProblem
      <3>3. QED
        BY <2>1, <3>1, <3>2 DEF FailIf, Redactions
    <2>3. Read' = Read
      BY <2>1 DEF Read
    <2>4. QED
      BY <2>1, <2>2, <2>3, SameSoundness DEF SoundInv
  <1>8. CASE Finish
    <2>1. /\ phase = "absences" /\ phase' = "done"
          /\ UNCHANGED <<bundle, results, authenticated, read>>
      BY <1>8 DEF Finish
    <2>2. Read' = Read /\ (Redactions' <=> Redactions)
      BY <2>1 DEF Read, Redactions
    <2>3. QED
      BY <2>1, <2>2, SameSoundness DEF SoundInv
  <1>9. CASE UNCHANGED vars
    <2>1. UNCHANGED <<bundle, phase, results, authenticated, read>>
      BY <1>9 DEF vars
    <2>2. Read' = Read /\ (Redactions' <=> Redactions)
      BY <2>1 DEF Read, Redactions
    <2>3. QED
      BY <2>1, <2>2, SameSoundness DEF SoundInv
  <1>10. QED
    BY <1>2, <1>3, <1>4, <1>5, <1>6, <1>7, <1>8, <1>9 DEF Next

\* No false alarm (declarations.go, checkDeclarations): declarations that Sigilbase
\* sealed, in whatever order the export lists them and however they are sealed,
\* let every absence pass that they name.
THEOREM HonestAbsences == Spec => []HonestAbsencesPass
  <1>1. SoundInv => HonestAbsencesPass
    BY DEF SoundInv, HonestExport, HonestAbsencesPass, Redactions
  <1>2. QED
    BY <1>1, InitSoundInv, NextSoundInv, KeptInvariant, PTL DEF Spec
=============================================================================
