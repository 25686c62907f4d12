---------------------------- MODULE VerifierRun ----------------------------
(***************************************************************************)
(* A run from the command line to the exit code (cmd/sigilbase-verify,     *)
(* src/verify/verify.go and consistency.go): the arguments choose a mode,  *)
(* its bundles are walked one after the other, each with its own trees and *)
(* all with the same results, and what the walks leave is compared.        *)
(*                                                                         *)
(* A bundle is [stream, from, to, events, seals, trouble] with the files   *)
(* of BundleFiles, SigilSign and Consistency; seals is the set of the ends *)
(* of its checkpoints.  What the other checks of verifyBundle make of it   *)
(* is its trouble: "none", "unconfirmed", "fail", or "error" when the run  *)
(* stops.  An event's entry is its entry hash.                             *)
(***************************************************************************)
EXTENDS SigilSign, Consistency

CONSTANT Invocations    \* the command lines, as options in main.go holds them

IsSequence(s) == s \in Seq({s[i] : i \in DOMAIN s})

Entries(b) == [i \in DOMAIN b.events |-> b.events[i].entry]
Prefix(b, size) == SubSeq(Entries(b), 1, size)

\* Of consistency.json the casts to int and the list of nodes that are hashes.
FileShape(file) ==
  file \notin {None, Malformed} =>
    /\ \A i \in DOMAIN file.states : file.states[i].size \in Int \cup {None}
    /\ file.proof # None => /\ file.proof.from \in Int /\ file.proof.to \in Int
                            /\ IsSequence(file.proof.nodes)

\* When the other checks find no fault with a bundle, it has events and they are
\* those of its range, one by one (CleanWalkIsOneChain of BundleWalk).
BundleShape(b) ==
  /\ b.from \in Int /\ b.to \in Int
  /\ IsSequence(b.events) /\ \A i \in DOMAIN b.events : b.events[i].seq \in Int
  /\ b.trouble \in {"none", "unconfirmed", "fail", "error"}
  /\ b.trouble \in {"none", "unconfirmed"} =>
       /\ b.events # <<>> /\ Len(b.events) = b.to - b.from + 1
       /\ \A i \in DOMAIN b.events : b.events[i].seq = b.from + i - 1
  /\ FileShape(b.consistency)
  /\ \A n \in DOMAIN b.events : /\ MerkleRoot(Prefix(b, n)) \notin {None, Malformed}
                                /\ ConsistencyProof(Entries(b), n) # None

\* What is missing is no number, and no root or proof of a bundle.
ASSUME InvocationAssumption ==
  /\ None \notin Int
  /\ \A a \in Invocations :
       /\ {a.help, a.loads, a.receipt, a.reconcile, a.consistency} \subseteq BOOLEAN
       /\ a.size \in Int \cup {None}
       /\ IsSequence(a.targets) /\ \A i \in DOMAIN a.targets : BundleShape(a.targets[i])

VARIABLES
  args,         \* [help, loads, receipt, reconcile, consistency, root, size, targets]
  phase,
  walked,       \* the bundles walked so far, as Consistency has them
  at,           \* how many events of the bundle being walked have gone past
  cumulative,   \* its cumulativeStack
  collector,    \* the collector of a proof, or NoCollector
  roots,        \* cumulativeRootAt
  results,
  exitCode,     \* NotEnded until the run ends
  offered       \* the state a verification offers, or None

walk == <<at, cumulative, collector, roots>>
vars == <<args, phase, walked, walk, results, exitCode, offered>>

NotEnded == -1
NoCollector == <<>>

\* Only in the last two cases are --root and --size looked at.
Mode(a) ==
  LET n == Len(a.targets)
      registry == a.receipt \/ a.reconcile
  IN CASE a.receipt /\ ~a.reconcile /\ ~a.consistency /\ n <= 2 -> "receipt"
       [] a.reconcile /\ ~a.receipt /\ ~a.consistency /\ n = 2 -> "reconcile"
       [] ~registry /\ ~a.consistency /\ n = 1 -> "verify"
       [] ~registry /\ a.consistency /\ n = 2 /\ a.root = None /\ a.size = None ->
            "consistency-bundles"
       [] ~registry /\ a.consistency /\ n = 1 /\ a.root # None /\ a.size # None ->
            "consistency-recorded-root"
       [] OTHER -> "usage"

Init ==
  /\ args \in Invocations
  /\ phase = "start"
  /\ walked = <<>>
  /\ at = 0 /\ cumulative = EmptyStack /\ collector = NoCollector /\ roots = <<>>
  /\ results = NewResults
  /\ exitCode = NotEnded
  /\ offered = None

End(code) == phase' = "end" /\ exitCode' = code

\* --help comes before everything, key files before the mode; the registry's
\* modes are the business of RegistryAudit.
Dispatch ==
  /\ phase = "start"
  /\ CASE args.help -> End(ExitPass)
       [] ~args.help /\ (~args.loads \/ Mode(args) = "usage") -> End(ExitError)
       [] OTHER -> /\ phase' = IF Mode(args) \in {"receipt", "reconcile"}
                               THEN "elsewhere" ELSE "open"
                   /\ UNCHANGED exitCode
  /\ UNCHANGED <<args, walked, walk, results, offered>>

-----------------------------------------------------------------------------
(* verifyBundle, as far as trees and the files above are concerned.        *)

Bundle == args.targets[Len(walked) + 1]

\* wantedRootSizes and proofFrom: the second bundle is asked about the size of
\* the first, a single one about the recorded size.
Wanted ==
  CASE Mode(args) = "consistency-recorded-root" -> {args.size}
    [] Mode(args) = "consistency-bundles" /\ walked # <<>> -> {walked[1].to}
    [] OTHER -> {}

\* A plausible bug: no proof is asked for when nothing was added.
ProvableFromSmaller(size, b) == size > 0 /\ b.from = 1 /\ size < b.to

ProvableFrom(size, b) == size > 0 /\ b.from = 1 /\ size <= b.to

Begin ==
  /\ phase = "open" /\ phase' = "walk"
  /\ at' = 0 /\ cumulative' = EmptyStack
  /\ collector' = IF /\ Mode(args) = "consistency-bundles" /\ walked # <<>>
                     /\ ProvableFrom(walked[1].to, Bundle)
                  THEN NewCollector(walked[1].to, Bundle.to) ELSE NoCollector
  /\ UNCHANGED <<args, walked, results, exitCode, offered>>

\* A plausible bug: the map of roots outlives the bundle it was made for.
OpenOnOldRoots == Begin /\ UNCHANGED roots

Open == Begin /\ roots' = <<>>

\* A hard error, anywhere in the walk: finishHard.
Stop ==
  /\ phase = "walk" /\ Bundle.trouble = "error"
  /\ \E code \in {ExitFail, ExitError} : End(code)
  /\ UNCHANGED <<args, walked, walk, results, offered>>

RootSizes == {Bundle.to} \cup Bundle.seals \cup Wanted \cup TreeSizes(Bundle.consistency)

Recorded(size, root) ==
  [n \in DOMAIN roots \cup {size} |-> IF n = size THEN root ELSE roots[n]]

WalkEvent ==
  /\ phase = "walk" /\ at < Len(Bundle.events) /\ at' = at + 1
  /\ LET event == Bundle.events[at + 1] IN
       /\ cumulative' = StackAppend(cumulative, event.entry)
       /\ collector' = IF collector = NoCollector THEN NoCollector
                       ELSE CollectorAppend(collector, event.entry)
       /\ roots' = IF Bundle.from = 1 /\ event.seq \in RootSizes
                   THEN Recorded(event.seq, StackRoot(cumulative')) ELSE roots
  /\ UNCHANGED <<args, phase, walked, results, exitCode, offered>>

\* The end of the walk, and the checks that are not modelled here.
EndWalk ==
  /\ phase = "walk" /\ at = Len(Bundle.events) /\ Bundle.trouble # "error"
  /\ phase' = "sigilsign"
  /\ results' = CASE Bundle.trouble = "none" -> results
                  [] Bundle.trouble = "unconfirmed" -> Unconfirmed(results, "signing_identity")
                  [] Bundle.trouble = "fail" -> Report(results, "content_integrity")
  /\ UNCHANGED <<args, walked, walk, exitCode, offered>>

CheckSigilSign ==
  /\ phase = "sigilsign" /\ phase' = "consistency.json"
  /\ results' = FailIf(SigilSignProblem(Bundle), results, "content_integrity")
  /\ UNCHANGED <<args, walked, walk, exitCode, offered>>

CheckConsistencyFile ==
  /\ phase = "consistency.json"
  /\ results' = FailIf(ConsistencyFileProblem(Bundle.consistency, Bundle.from,
                                              Bundle.to, roots),
                       results, "content_integrity")
  /\ walked' = Append(walked,
        [stream |-> Bundle.stream, from |-> Bundle.from, to |-> Bundle.to, roots |-> roots,
         nodes |-> IF collector # NoCollector /\ Complete(collector) THEN Nodes(collector)
                   ELSE None])
  /\ phase' = IF Len(walked') < Len(args.targets) THEN "open" ELSE Mode(args)
  /\ UNCHANGED <<args, walk, exitCode, offered>>

-----------------------------------------------------------------------------
(* The end of each mode.                                                   *)

FinishWith(problem) ==
  /\ results' = FailIf(problem, results, "content_integrity")
  /\ End(ExitCode(results'))
  /\ UNCHANGED <<args, walked, walk>>

Verify ==
  /\ phase = "verify"
  /\ offered' = OfferedState(walked[1], results)
  /\ FinishWith(FALSE)

ConsistencyBundles ==
  /\ phase = "consistency-bundles"
  /\ FinishWith(ConsistencyProblem(walked[1], walked[2], Some(results, "fail")))
  /\ UNCHANGED offered

ConsistencyRecorded ==
  /\ phase = "consistency-recorded-root"
  /\ FinishWith(RecordedStateProblem(walked[1], args.size, args.root))
  /\ UNCHANGED offered

Next ==
  \/ Dispatch \/ Open \/ Stop \/ WalkEvent \/ EndWalk
  \/ CheckSigilSign \/ CheckConsistencyFile
  \/ Verify \/ ConsistencyBundles \/ ConsistencyRecorded

Spec == Init /\ [][Next]_vars

-----------------------------------------------------------------------------
\* The stack, the roots and the place in the file are those of the bundle being
\* walked, and what was kept of each bundle is its own: nothing of the first
\* walk is taken over by the second (verifyBundle's locals).
TypeOK ==
  /\ results \in Verdicts
  /\ exitCode \in {NotEnded, ExitPass, ExitFail, ExitError, ExitUnconfirmed}
  /\ Len(walked) <= Len(args.targets)
  /\ \A i \in DOMAIN walked :
       LET b == args.targets[i] IN
       /\ walked[i].from = b.from /\ walked[i].to = b.to
       /\ DOMAIN walked[i].roots \subseteq {b.events[j].seq : j \in DOMAIN b.events}
  /\ phase = "walk" => at \in 0..Len(Bundle.events)
  /\ offered # None => offered.size \in Nat

\* Not refuted: the run answered with a pass, or with what is unconfirmed.
Held == ~args.help /\ exitCode \in {ExitPass, ExitUnconfirmed}

\* "Proves one export extends another" (consistency.go): a run with --consistency
\* that is not refuted was given two exports of one stream from its beginning,
\* the older one's events being the first of the newer one's, entry by entry; or
\* an export whose first size events have the recorded root, and no others.
ExtensionIsProved ==
  Held /\ args.consistency =>
    LET b == args.targets[1] IN
    /\ \A i \in DOMAIN args.targets : args.targets[i].trouble # "fail"
    /\ b.from = 1
    /\ IF Len(args.targets) = 2
       THEN LET newer == args.targets[2] IN
            /\ newer.from = 1 /\ newer.stream = b.stream
            /\ b.to <= newer.to /\ Entries(b) = Prefix(newer, b.to)
       ELSE /\ args.size \in 1..b.to
            /\ args.root = MerkleRoot(Prefix(b, args.size))

\* What a bundle says in its files is as it should be.
Honest(b) ==
  /\ b.trouble = "none" /\ b.from = 1
  /\ ~SigilSignProblem(b)
  /\ b.consistency \notin {None, Malformed} =>
       /\ b.consistency.root = MerkleRoot(Entries(b))
       /\ \A i \in DOMAIN b.consistency.states :
            LET s == b.consistency.states[i] IN
            s.size \in 1..b.to /\ s.root = MerkleRoot(Prefix(b, s.size))
       /\ LET p == b.consistency.proof IN
          p # None => /\ p.from \in 1..b.to /\ p.to = b.to
                      /\ p.nodes = ConsistencyProof(Entries(b), p.from)

\* The converse: of two honest exports of one log the newer one is found to
\* extend the older one, at any two sizes - the "internal error" of a root or a
\* proof that was not captured never comes - and the state offered by one run,
\* recorded and given to a later one, is found in every longer export.
HonestExtensionHolds ==
  phase = "end" /\ args.loads /\ ~args.help
    /\ (\A i \in DOMAIN args.targets : Honest(args.targets[i])) =>
    LET b == args.targets[1]
        Precedes(other) == /\ b.stream = other.stream /\ b.to <= other.to
                           /\ Entries(b) = Prefix(other, b.to)
    IN CASE Mode(args) = "verify" ->
              /\ exitCode = ExitPass
              /\ offered = [size |-> b.to, root |-> MerkleRoot(Entries(b))]
         [] Mode(args) = "consistency-bundles" ->
              (exitCode = ExitPass) <=> Precedes(args.targets[2])
         [] Mode(args) = "consistency-recorded-root" ->
              (exitCode = ExitPass) <=> /\ args.size \in 1..b.to
                                        /\ args.root = MerkleRoot(Prefix(b, args.size))
         [] OTHER -> TRUE

\* "The cumulative tree states the exporter recorded" (consistency.go): every
\* state in the consistency.json of a bundle that is not refuted is that of its
\* own first events, and the recorded proof is the one from a prefix to the
\* whole log, under the sizes it names.
RecordedStatesAreTrue ==
  Held =>
    \A i \in DOMAIN args.targets :
      LET b == args.targets[i]
          file == b.consistency
      IN file \notin {None, Malformed} /\ b.from = 1 =>
           /\ file.root = MerkleRoot(Entries(b))
           /\ \A j \in DOMAIN file.states :
                /\ file.states[j].size \in 1..b.to
                /\ file.states[j].root = MerkleRoot(Prefix(b, file.states[j].size))
           /\ file.proof # None =>
                /\ file.proof.from \in 1..b.to /\ file.proof.to = b.to
                /\ file.proof.nodes = ConsistencyProof(Entries(b), file.proof.from)

\* The events of a bundle in which a signer signs, under any record.
SigningsOf(b, record, email) ==
  {i \in DOMAIN b.events : /\ b.events[i].signing = record.id
                           /\ b.events[i].action = "signature.signed"
                           /\ b.events[i].payload # None
                           /\ b.events[i].payload.email = email}

\* "Every stated fact is cross-checked against the events themselves and a
\* contradiction fails the bundle" (sigilsign.go): when a bundle is not refuted,
\* each signer a record says signed did, last of all, sign the very document the
\* record states, having viewed that one if any; and a document stated in
\* documents.json, linked or unlinked in links.json is the one its event carries.
StatedFactsAreInTheChain ==
  Held =>
    \A i \in DOMAIN args.targets :
      LET b == args.targets[i]
          Carries(seq, action, sha) ==
            \E k \in DOMAIN b.events :
              /\ b.events[k].seq = seq /\ b.events[k].action = action
              /\ b.events[k].payload # None /\ sha # None => b.events[k].payload.sha = sha
      IN /\ b.documents # None => \A j \in DOMAIN b.documents :
              Carries(b.documents[j].sequence, "document.published", b.documents[j].sha)
         /\ b.signatures # None => \A j \in DOMAIN b.signatures :
              LET record == b.signatures[j] IN
              \A k \in DOMAIN record.signers : record.signers[k].status = "signed" =>
                LET email == Stated(record.signers[k].email)
                    signed == SigningsOf(b, record, email)
                IN /\ signed # {}
                   /\ record.sha # None => b.events[Max(signed)].payload.sha = record.sha
                   /\ \A e \in Emails(b.events) :
                        Viewed(record, e, b.events) # None /\ record.sha # None
                          /\ SigningsOf(b, record, e) # {}
                        => Viewed(record, e, b.events).sha = record.sha
         /\ b.links # None => \A j \in DOMAIN b.links :
              LET link == b.links[j] IN
              /\ Carries(link.linked, "document.linked", link.sha)
              /\ link.unlinked # None => Carries(link.unlinked, "document.unlinked", link.sha)
=============================================================================
