---------------------------- MODULE Declarations ----------------------------
(***************************************************************************)
(* checkDeclarations (src/verify/declarations.go): from format 1.5 on, a   *)
(* payload that is absent is accepted only against a declaration that      *)
(* names the event and is itself sealed - in the exported range by the     *)
(* chain already walked, outside it by an audit path to a signed           *)
(* checkpoint.  It runs after the walk, on the absences and the entry      *)
(* hashes the walk kept, and reads declarations.ndjson for a second time.  *)
(*                                                                         *)
(* The entry hash of a declaration is the record of its hashed fields.     *)
(* The v of a proof's checkpoint is folded into its root.                  *)
(***************************************************************************)
EXTENDS Verdict, Seals, MerkleHash

CONSTANTS
  Bundles,   \* a bundle: what the walk left behind, and the declaration files
  Genuine,   \* the declarations that Sigilbase sealed, in any stream
  MaxLines   \* bound: the lines of declarations.ndjson

DeclarationHash(d) ==
  [stream |-> d.stream, seq |-> d.seq, action |-> d.action, targets |-> d.targets,
   original |-> d.original]

\* declarationSelfProblems: payload_hash over the payload, entry_hash over it all.
SelfProblem(d) == d.entry # DeclarationHash(d)

\* A place of this bundle's own stream and range.
InRange(b, d) == d.stream = b.stream /\ d.seq # None /\ b.from <= d.seq /\ d.seq <= b.to

\* Leaves out a declaration that is the last event of the range.
RetainedBeforeEnd(b) ==
  {d.seq : d \in {l \in b.lines : l.kind = "record" /\ InRange(b, l) /\ l.seq < b.to}}

\* declarationSequencesInRange: read before the walk, so that the walk keeps the
\* entry hashes of the events that are declarations.
Retained(b) == {d.seq : d \in {l \in b.lines : l.kind = "record" /\ InRange(b, l)}}

\* The entry hashes the walk kept, of the events it found there.
Walked(b) == [seq \in Retained(b) \cap DOMAIN b.chain |-> b.chain[seq]]

\* The fields of a declaration, and no others; a place and a target are integers.
IsDeclaration(d) ==
  /\ d = [kind |-> "record", stream |-> d.stream, seq |-> d.seq, action |-> d.action,
          targets |-> d.targets, original |-> d.original, entry |-> d.entry]
  /\ d.seq \in Int \cup {None}
  /\ \A t \in d.targets : t.from \in Int /\ t.to \in Int

Absences == [seq : Int, kind : {"redacted", "erased"}]

ASSUME DeclarationAssumption ==
  /\ MaxLines \in Nat
  /\ \A d \in Genuine : IsDeclaration(d) /\ ~SelfProblem(d)
  /\ \A b \in Bundles :
       /\ b.from \in Int /\ b.to \in Int /\ b.format \in Int
       /\ \A l \in b.lines : l.kind = "record" => IsDeclaration(l)
       /\ b.absent \in Seq(Absences)
       /\ b.walked \in Verdicts /\ b.walked["redactions"] = "pass"

\* An audit path from the hash to a checkpoint that is signed, by whatever key.
SignedSeal(hash, proof) ==
  LET cp == proof.checkpoint IN
  /\ cp # None /\ proof.path # Malformed
  /\ SignatureValid(cp)
  /\ cp.hash = CheckpointHash(cp.stream, cp)
  /\ cp.root = AuditPath(hash, proof.path)

\* One that a trusted key signed inside its window.
TrustedSeal(hash, proof) ==
  LET cp == proof.checkpoint IN
  /\ SignedSeal(hash, proof)
  /\ cp.key \in DOMAIN TrustedKeys
  /\ ~WindowProblem(TrustedKeys[cp.key], cp.created_at)

\* The walk found the chain whole, and sealed by trusted keys over all of the
\* range: its events are Sigilbase's then (VerifiedIsSealed of SealedRange).
Vouched(b) ==
  \A n \in {"content_integrity", "signing_identity", "scope"} : b.walked[n] = "pass"

\* What is in a chain the walk vouches for, or under a root that a trusted key
\* sealed, is genuine.  Of a chain that any other key sealed nothing is assumed.
ASSUME ChainAssumption ==
  \A b \in Bundles :
    /\ Vouched(b) =>
         \A seq \in DOMAIN b.chain : \A l \in b.lines :
           l.kind = "record" /\ l.entry = b.chain[seq] /\ ~SelfProblem(l) => l \in Genuine
    /\ \A hash \in DOMAIN b.proofs :
         TrustedSeal(hash, b.proofs[hash]) => \E d \in Genuine : d.entry = hash

VARIABLES
  bundle,         \* the bundle
  phase,          \* "lines", "absences", "done" or "hard"
  results,        \* run.results
  authenticated,  \* the declarations that hold, by their place in the file's order
  judged,         \* how many absences have been judged
  read            \* auxiliary: the lines of declarations.ndjson read so far

vars == <<bundle, phase, results, authenticated, judged, read>>

\* The walk has judged the chain and its seals; of absences it has said nothing.
Init ==
  /\ bundle \in Bundles
  /\ phase = "lines"
  /\ results = bundle.walked
  /\ authenticated = <<>>
  /\ judged = 0
  /\ read = <<>>
-----------------------------------------------------------------------------
(* declarations.ndjson.                                                    *)

\* A format without declarations, or a bundle without the file.
Undeclared == bundle.format < 5 \/ ~bundle.hasFile

Refuse ==
  /\ phase = "lines" /\ Undeclared
  /\ results' = Report(results, "redactions")
  /\ phase' = "done"
  /\ UNCHANGED <<bundle, authenticated, judged, read>>

Reading == phase = "lines" /\ ~Undeclared /\ Len(read) < MaxLines

ReadGarbage(l) ==
  /\ Reading
  /\ l.kind = "garbage"
  /\ results' = Report(results, "redactions")
  /\ read' = Append(read, l)
  /\ UNCHANGED <<bundle, phase, authenticated, judged>>

\* A set in the order of first insertion; equal entry hashes are one member.
AddTo(set, d) ==
  IF \E i \in DOMAIN set : set[i].entry = d.entry THEN set ELSE Append(set, d)

ReadDeclaration(l) ==
  /\ Reading
  /\ l.kind = "record"
  /\ results' = FailIf(SelfProblem(l), results, "redactions")
  /\ authenticated' = IF SelfProblem(l) THEN authenticated ELSE AddTo(authenticated, l)
  /\ read' = Append(read, l)
  /\ UNCHANGED <<bundle, phase, judged>>

\* A line over the cap (exit 2), a file that cannot be read.
ReadFails ==
  /\ phase = "lines" /\ ~Undeclared
  /\ phase' = "hard"
  /\ UNCHANGED <<bundle, results, authenticated, judged, read>>
-----------------------------------------------------------------------------
(* Sealing.                                                                *)

\* Any root will do.
ProofProblemAnyRoot(d) ==
  \/ d.entry \notin DOMAIN bundle.proofs
  \/ LET proof == bundle.proofs[d.entry] IN
     \/ proof.checkpoint = None \/ proof.path = Malformed
     \/ ~SignatureValid(proof.checkpoint)

\* declarationProofProblem.  A key outside the trusted set is no problem here.
ProofProblem(d) ==
  \/ d.entry \notin DOMAIN bundle.proofs
  \/ LET proof == bundle.proofs[d.entry]
         cp == proof.checkpoint
     IN \/ cp = None \/ proof.path = Malformed
        \/ cp.root # AuditPath(d.entry, proof.path)
        \/ cp.hash # CheckpointHash(cp.stream, cp)
        \/ ~SignatureValid(cp)
        \/ cp.key \in DOMAIN TrustedKeys /\ WindowProblem(TrustedKeys[cp.key], cp.created_at)

\* The event the walk found at that place is another one, or there was none.
ChainProblem(d) == d.seq \notin DOMAIN Walked(bundle) \/ Walked(bundle)[d.seq] # d.entry

SealProblem(d) == IF InRange(bundle, d) THEN ChainProblem(d) ELSE ProofProblem(d)

\* End of file: what is not sealed is reported and removed; its place stays empty.
SealDeclarations ==
  /\ phase = "lines" /\ ~Undeclared
  /\ phase' = "absences"
  /\ authenticated' = RestrictValues(authenticated, LAMBDA d : ~SealProblem(d))
  /\ results' = FailIf(\E i \in DOMAIN authenticated : SealProblem(authenticated[i]),
                       results, "redactions")
  /\ UNCHANGED <<bundle, judged, read>>
-----------------------------------------------------------------------------
(* The absences, one by one.                                               *)

Covers(d, stream, seq) ==
  \E t \in d.targets : t.stream = stream /\ t.from <= seq /\ seq <= t.to

Wanted(absence) ==
  IF absence.kind = "erased" THEN "pii.subject_erased" ELSE "payload.redacted"

IsSupplement(d) == d.action = "declaration.supplemented"

Originals(d) == {i \in DOMAIN authenticated : authenticated[i].entry = d.original}

\* A supplement counts only beside its authenticated original.
Alone(d) == IsSupplement(d) /\ Originals(d) = {}

\* What a declaration declares: a supplement, what its original does.
Declares(d, action) ==
  IF IsSupplement(d) THEN \E i \in Originals(d) : authenticated[i].action = action
  ELSE d.action = action

\* In the event's own stream a declaration comes after it.
Early(d, seq) == d.stream = bundle.stream /\ d.seq # None /\ d.seq <= seq

Matches(d, absence) ==
  /\ Covers(d, bundle.stream, absence.seq)
  /\ ~Alone(d) /\ Declares(d, Wanted(absence)) /\ ~Early(d, absence.seq)

Contradicts(d, absence) ==
  /\ Covers(d, bundle.stream, absence.seq)
  /\ Alone(d) \/ (Declares(d, Wanted(absence)) /\ Early(d, absence.seq))

\* The first declaration that matches settles it; those before it are held
\* against the bundle where they contradict it, those after it are not looked at.
AbsenceProblem(absence) ==
  LET matching == {i \in DOMAIN authenticated : Matches(authenticated[i], absence)} IN
  \/ matching = {}
  \/ \E i \in DOMAIN authenticated : /\ Contradicts(authenticated[i], absence)
                                     /\ \A j \in matching : i < j

JudgeAbsence ==
  /\ phase = "absences" /\ judged < Len(bundle.absent)
  /\ results' = FailIf(AbsenceProblem(bundle.absent[judged + 1]), results, "redactions")
  /\ judged' = judged + 1
  /\ UNCHANGED <<bundle, phase, authenticated, read>>

Finish ==
  /\ phase = "absences" /\ judged = Len(bundle.absent)
  /\ phase' = "done"
  /\ UNCHANGED <<bundle, results, authenticated, judged, read>>

Next ==
  \/ Refuse
  \/ \E l \in bundle.lines : ReadGarbage(l) \/ ReadDeclaration(l)
  \/ ReadFails
  \/ SealDeclarations
  \/ JudgeAbsence
  \/ Finish

Spec == Init /\ [][Next]_vars
-----------------------------------------------------------------------------
Accepted == phase = "done" /\ results["redactions"] = "pass"

\* The declarations of the file.
Read == {read[i] : i \in DOMAIN read}

\* A record of the file that is sealed, by whatever key: its fields are those
\* hashed, and the hash is the walked event's at its place, or one with a proof.
Sealed(d) ==
  /\ d.kind = "record" /\ ~SelfProblem(d)
  /\ IF InRange(bundle, d) THEN d.seq \in DOMAIN bundle.chain /\ bundle.chain[d.seq] = d.entry
     ELSE d.entry \in DOMAIN bundle.proofs /\ SignedSeal(d.entry, bundle.proofs[d.entry])

\* Trusted keys did the sealing: of the chain, or of the checkpoint of its proof.
SealedByTrusted(d) ==
  IF InRange(bundle, d) THEN Vouched(bundle)
  ELSE bundle.proofs[d.entry].checkpoint.key \in DOMAIN TrustedKeys

\* The declarations that may account for an absence: sealed, and genuine where it
\* was a trusted key that sealed them.
Admissible == {d \in Read : Sealed(d) /\ (SealedByTrusted(d) => d \in Genuine)}

\* The event of that absence was declared gone: by one of the declarations given,
\* or by one of them that supplements another of them, and after it was there.
DeclaredGone(absence, declarations) ==
  \E d, o \in declarations :
    /\ \E t \in d.targets : /\ t.stream = bundle.stream
                            /\ absence.seq \in t.from..t.to
    /\ o.action = Wanted(absence)
    /\ d = o \/ (d.action = "declaration.supplemented" /\ d.original = o.entry)
    /\ d.stream = bundle.stream /\ d.seq # None => d.seq > absence.seq

\* "Absence must be declared, never implied" (declarations.go): when redactions
\* pass, every absent payload was declared gone, by the ceremony the absence names
\* and after the event, by a declaration that is itself sealed - and where trusted
\* keys sealed it, by one that Sigilbase made.  Of what other keys sealed it takes
\* the word: that is for signing identity to say.
AbsencesAreDeclared ==
  Accepted =>
    \A i \in DOMAIN bundle.absent : DeclaredGone(bundle.absent[i], Admissible)

\* A declaration as an honest export carries it: sealed, in its place in the
\* chain or with the proof of it, with its original, naming nothing after itself.
HonestDeclaration(d) ==
  /\ d \in Genuine
  /\ IF InRange(bundle, d) THEN d.seq \in DOMAIN bundle.chain /\ bundle.chain[d.seq] = d.entry
     ELSE d.entry \in DOMAIN bundle.proofs /\ TrustedSeal(d.entry, bundle.proofs[d.entry])
  /\ d.action = "declaration.supplemented" => \E o \in Read : o.entry = d.original
  /\ d.stream = bundle.stream =>
       \A t \in d.targets : t.stream = bundle.stream => t.to < d.seq

\* No false alarm: in whatever order an honest export lists them, declarations
\* that name every absent event let redactions pass, however they were sealed.
HonestAbsencesPass ==
  /\ phase = "done" /\ bundle.format >= 5 /\ bundle.hasFile
  /\ \A d \in Read : d.kind = "record" /\ HonestDeclaration(d)
  /\ \A i \in DOMAIN bundle.absent : DeclaredGone(bundle.absent[i], Read)
  => results["redactions"] = "pass"

\* "A key the signing identity result already carries once for the bundle"
\* (declarations.go): when redactions, signing identity, content integrity and
\* scope all pass, every absence was declared gone by Sigilbase.
IdentityCarriesEveryKey ==
  /\ Accepted
  /\ \A n \in {"content_integrity", "signing_identity", "scope"} : results[n] = "pass"
  => \A i \in DOMAIN bundle.absent : DeclaredGone(bundle.absent[i], Read \cap Genuine)
=============================================================================
