------------------------------ MODULE Anchors ------------------------------
(***************************************************************************)
(* checkAnchors and checkCertificates (src/verify/anchors.go) with the     *)
(* chain walk of Validate (src/internal/tst/validate.go): the RFC 3161     *)
(* tokens over checkpoint hashes, each judged against roots this verifier  *)
(* carries or, failing those, roots the bundle supplied, and the files     *)
(* the manifest lists as certificates of evidence.                         *)
(***************************************************************************)
EXTENDS Verdict, CertChain, FiniteSets

CONSTANT Bundles   \* a bundle's anchors and certificates, and the run's roots

\* An anchor without a token, and a set of roots that is not there, are None.
BundleShape(b) ==
  /\ b.anchors \in Seq(ToSet(b.anchors))
  /\ b.trusted = None \/ AreCertificates(b.trusted)
  /\ \A anchor \in ToSet(b.anchors) : /\ anchor.token = None \/ IsToken(anchor.token)
                                      /\ anchor.ca = None \/ AreCertificates(anchor.ca)

ASSUME AnchorsAssumption == None \notin Int /\ \A b \in Bundles : BundleShape(b)

VARIABLES
  bundle,    \* the bundle
  phase,     \* "start", "anchors", "chain", "certificates", "done" or "hard"
  results,   \* run.results
  judged,    \* how many anchors have been judged
  walk,      \* the chain walk of the anchor at hand
  latest,    \* latestAnchorAt: a genTime, None when no anchor is trusted
  looked     \* how many certificates of evidence have been looked at

vars == <<bundle, phase, results, judged, walk, latest, looked>>

NoWalk == [cert |-> None, seen |-> {}, sound |-> FALSE]

\* The walk has found the chain of events sound, or not.
Init ==
  /\ bundle \in Bundles
  /\ phase = "start"
  /\ results \in {NewResults, Report(NewResults, "content_integrity")}
  /\ judged = 0
  /\ walk = NoWalk
  /\ latest = None
  /\ looked = 0

\* No anchors, or none to be looked at: not checked, which is not sound.
SkipAnchors ==
  /\ phase = "start" /\ (bundle.anchors = <<>> \/ bundle.skipAnchors)
  /\ phase' = "certificates"
  /\ results' = NotChecked(results, "timestamps")
  /\ UNCHANGED <<bundle, judged, walk, latest, looked>>

BeginAnchors ==
  /\ phase = "start" /\ bundle.anchors # <<>> /\ ~bundle.skipAnchors
  /\ phase' = "anchors"
  /\ UNCHANGED <<bundle, results, judged, walk, latest, looked>>

\* anchors.json, or a listed certificate that is there, cannot be read.
ReadFails ==
  /\ \/ phase = "start"
     \/ /\ phase = "certificates" /\ looked < Len(bundle.certificates)
        /\ bundle.certificates[looked + 1].safePath
        /\ bundle.certificates[looked + 1].file \in DOMAIN bundle.files
  /\ phase' = "hard"
  /\ UNCHANGED <<bundle, results, judged, walk, latest, looked>>
-----------------------------------------------------------------------------
(* One anchor.                                                             *)

Anchor == bundle.anchors[judged + 1]
Token  == Anchor.token
More   == phase = "anchors" /\ judged < Len(bundle.anchors)

\* The bundle's own roots come first.
RootsBundleFirst ==
  IF Anchor.ca # None THEN Anchor.ca ELSE bundle.trusted

\* Trust roots come from this verifier; the bundle's stand in when it has none.
Roots == IF bundle.trusted # None THEN bundle.trusted ELSE Anchor.ca

\* Not over a checkpoint of this bundle, or no token that parses: the anchor is
\* held against the content and its token is not validated.
Misplaced == Anchor.checkpoint \notin bundle.checkpoints \/ Token = None

RefuseAnchor ==
  /\ More /\ Misplaced
  /\ results' = Report(results, "content_integrity")
  /\ judged' = judged + 1
  /\ UNCHANGED <<bundle, phase, walk, latest, looked>>

\* Validate returned: a problem fails the timestamps; a token without one that
\* no root of this verifier vouches for leaves them unconfirmed.
Unvouched(rs) == IF bundle.trusted = None THEN Unconfirmed(rs, "timestamps") ELSE rs

Latest(sound) ==
  IF sound /\ bundle.trusted # None /\ (latest = None \/ Token.genTime > latest)
  THEN Token.genTime ELSE latest

Settle(sound) ==
  /\ phase' = "anchors"
  /\ results' = Unvouched(FailIf(~sound, results, "timestamps"))
  /\ latest' = Latest(sound)
  /\ judged' = judged + 1
  /\ walk' = NoWalk
  /\ UNCHANGED <<bundle, looked>>

\* No chain to walk: Validate gives up, there are no roots, or the PEM is empty.
JudgeToken ==
  /\ More /\ ~Misplaced
  /\ GivesUp(Token) \/ Roots \in {None, <<>>}
  /\ Settle(~GivesUp(Token) /\ ~HeadProblem(Token, Anchor.checkpoint) /\ Roots = None)

BeginChain ==
  /\ More /\ ~Misplaced
  /\ ~GivesUp(Token) /\ Roots \notin {None, <<>>}
  /\ phase' = "chain"
  /\ walk' = [cert |-> SignerCert(Token), seen |-> {},
              sound |-> ~HeadProblem(Token, Anchor.checkpoint)]
  /\ UNCHANGED <<bundle, results, judged, latest, looked>>
-----------------------------------------------------------------------------
(* The chain, a certificate at a time.                                     *)

Pool   == Token.certs \o Roots
Depth  == Cardinality(walk.seen)
Issuer == IssuerOf(walk.cert, Pool)

\* Mutant: the walk goes on to a root however often it has been here.
ClimbingToARoot == phase = "chain"

\* One more certificate to look at, that the walk has not seen.
Climbing == phase = "chain" /\ Depth < MaxDepth /\ walk.cert \notin walk.seen

\* "Loops", "too deep".
EndlessChain ==
  /\ phase = "chain" /\ ~Climbing
  /\ Settle(FALSE)

\* A self-issued certificate ends the chain, well if it is one of the roots.
EndChain ==
  /\ Climbing /\ SelfIssued(walk.cert)
  /\ Settle(walk.sound /\ walk.cert \in ToSet(Roots))

\* The first issuer in the pool signed this certificate, and may have.
IssuerAccepted ==
  Issuer # None /\ SignedBy(walk.cert, Issuer) /\ ~IssuerProblem(Issuer, Token.genTime, Depth)

BreakChain ==
  /\ Climbing /\ ~SelfIssued(walk.cert) /\ ~IssuerAccepted
  /\ Settle(FALSE)

ClimbChain ==
  /\ Climbing /\ ~SelfIssued(walk.cert) /\ IssuerAccepted
  /\ walk' = [walk EXCEPT !.cert = Issuer, !.seen = @ \cup {walk.cert}]
  /\ UNCHANGED <<bundle, phase, results, judged, latest, looked>>
-----------------------------------------------------------------------------
EndAnchors ==
  /\ phase = "anchors" /\ judged = Len(bundle.anchors)
  /\ phase' = "certificates"
  /\ UNCHANGED <<bundle, results, judged, walk, latest, looked>>

\* A path outside certificates/, a file that is missing or has another hash.
CertificateProblem(record) ==
  ~record.safePath \/ record.file \notin DOMAIN bundle.files
    \/ bundle.files[record.file] # record.hash

LookAtCertificate ==
  /\ phase = "certificates" /\ looked < Len(bundle.certificates)
  /\ results' = FailIf(CertificateProblem(bundle.certificates[looked + 1]), results,
                       "content_integrity")
  /\ looked' = looked + 1
  /\ UNCHANGED <<bundle, phase, judged, walk, latest>>

Finish ==
  /\ phase = "certificates" /\ looked = Len(bundle.certificates)
  /\ phase' = "done"
  /\ UNCHANGED <<bundle, results, judged, walk, latest, looked>>

Next ==
  \/ SkipAnchors \/ BeginAnchors \/ ReadFails
  \/ RefuseAnchor \/ JudgeToken \/ BeginChain
  \/ EndlessChain \/ EndChain \/ BreakChain \/ ClimbChain
  \/ EndAnchors \/ LookAtCertificate \/ Finish

\* One thread, and every read and every check of a certificate returns.
Spec == Init /\ [][Next]_vars /\ WF_vars(Next)
-----------------------------------------------------------------------------
\* An authority under the given roots stamped one of the checkpoints.
Attested(anchor, checkpoints, roots) ==
  LET token  == anchor.token
      signer == SignerCert(token)
  IN /\ anchor.checkpoint \in checkpoints
     /\ token # None /\ token.algorithmsKnown /\ signer # None
     /\ token.imprint = anchor.checkpoint /\ token.attributesSound
     /\ signer.decodes /\ token.signature = signer.key
     /\ signer.timeStamping /\ ValidAt(signer, token.genTime)
     /\ Chained(signer, ToSet(token.certs \o roots), ToSet(roots), token.genTime)

\* The anchors of a bundle that the roots this verifier carries vouch for.
AttestedIn(b) ==
  {i \in DOMAIN b.anchors :
     b.trusted # None /\ Attested(b.anchors[i], b.checkpoints, b.trusted)}

\* Those of them whose certificates have a name each: there is one issuer to find.
PlainlyAttestedIn(b) ==
  {i \in AttestedIn(b) :
     \A c, d \in ToSet(b.anchors[i].token.certs \o b.trusted) :
       c.subject = d.subject => c = d}

\* "Timestamping authorities whose roots this verifier carries attested the
\* checkpoints existed at the recorded times" (README.md): a run that passes with
\* its timestamps checked has an anchor, and every anchor is a token over a
\* checkpoint of this bundle with a chain to a root this verifier carries.
PassIsAttested ==
  phase = "done" /\ ExitCode(results) = ExitPass /\ results["timestamps"] = "pass" =>
    bundle.anchors # <<>> /\ AttestedIn(bundle) = DOMAIN bundle.anchors

\* "A root that travels inside the bundle never establishes trust on its own"
\* (README.md): the time handed on, after which the bundle was exported, is the
\* latest of those that a root this verifier carries vouches for, or none.
LatestIsTheLatestAttested ==
  LET Time(i) == bundle.anchors[i].token.genTime
  IN /\ latest # None => \E i \in (1..judged) \cap AttestedIn(bundle) : latest = Time(i)
     /\ \A i \in (1..judged) \cap PlainlyAttestedIn(bundle) : latest # None /\ Time(i) <= latest

\* No false alarm: in whatever order a token embeds its certificates, anchors with
\* chains to the roots this verifier carries let the timestamps pass.
AttestedAnchorsPass ==
  /\ phase = "done" /\ ~bundle.skipAnchors /\ bundle.anchors # <<>>
  /\ PlainlyAttestedIn(bundle) = DOMAIN bundle.anchors
  => results["timestamps"] = "pass"

\* Certificates name their issuers as whoever made them likes, in circles too. The
\* chain walk (tst/validate.go, "loops", "too deep") still ends for each anchor,
\* every anchor is judged, every listed certificate looked at, and the run has its
\* verdict - unless a file cannot be read.
VerdictIsReached ==
  <>(\/ phase = "hard"
     \/ /\ phase = "done" /\ looked = Len(bundle.certificates)
        /\ bundle.skipAnchors \/ judged = Len(bundle.anchors))
=============================================================================
