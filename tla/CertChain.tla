----------------------------- MODULE CertChain -----------------------------
(***************************************************************************)
(* The certificates behind an RFC 3161 token (src/internal/tst/cert.go,    *)
(* validate.go): what makes one the issuer of the next, which issuer the   *)
(* chain walk takes, and what the token itself must hold.                  *)
(*                                                                         *)
(* A certificate is a record of what the walk reads of it; a signature is  *)
(* the key that made it, or None when it is over something else.  A        *)
(* certificate whose names do not parse has parses FALSE, one whose        *)
(* key, validity or extensions do not decode has decodes FALSE.            *)
(***************************************************************************)
EXTENDS Integers, Sequences, SequencesExt

CONSTANTS
  None,       \* an optional field that is absent
  MaxDepth    \* the certificates the walk looks at: 8 in the code

ASSUME DepthAssumption == MaxDepth \in Nat \ {0}

\* What the fields that are compared may be.
IsCertificate(cert) ==
  /\ cert # None
  /\ cert.from \in Int /\ cert.to \in Int /\ cert.pathLength \in Int \cup {None}

AreCertificates(certs) ==
  certs \in Seq(ToSet(certs)) /\ \A cert \in ToSet(certs) : IsCertificate(cert)

IsToken(token) == token.genTime \in Int /\ AreCertificates(token.certs)

ValidAt(cert, genTime) == cert.from <= genTime /\ genTime <= cert.to

SelfIssued(cert) == cert.issuer = cert.subject

\* certificateSignatureValid, with a key that can be read.
SignedBy(cert, issuer) == issuer.decodes /\ cert.signature = issuer.key

\* Takes the certificate itself for an intermediate below its issuer.
IssuerProblemCountsSelf(issuer, genTime, below) ==
  \/ ~issuer.decodes
  \/ ~ValidAt(issuer, genTime)
  \/ ~issuer.ca
  \/ issuer.pathLength # None /\ below + 1 > issuer.pathLength
  \/ ~issuer.certSign

\* IssuerProblems: valid at genTime, a CA, allowed to sign certificates, with no
\* more intermediates below it than its pathLenConstraint allows.
IssuerProblem(issuer, genTime, below) ==
  \/ ~issuer.decodes
  \/ ~ValidAt(issuer, genTime)
  \/ ~issuer.ca
  \/ issuer.pathLength # None /\ below > issuer.pathLength
  \/ ~issuer.certSign

\* The first certificate of the pool with the subject that cert names.
Candidates(cert, pool) ==
  {i \in DOMAIN pool : pool[i].parses /\ pool[i].subject = cert.issuer}

FirstOf(places) == CHOOSE i \in places : \A j \in places : i <= j

IssuerOf(cert, pool) ==
  IF Candidates(cert, pool) = {} THEN None ELSE pool[FirstOf(Candidates(cert, pool))]
-----------------------------------------------------------------------------
(* The token.                                                              *)

\* The embedded certificate that the signer info names.
SignerCert(token) ==
  LET places == {i \in DOMAIN token.certs : /\ token.certs[i].parses
                                            /\ token.certs[i].serial = token.serial
                                            /\ token.certs[i].issuer = token.issuer}
  IN IF places = {} THEN None ELSE token.certs[FirstOf(places)]

\* What Validate gives up on before it looks at a chain.
GivesUp(token) == ~token.algorithmsKnown \/ SignerCert(token) = None

\* Everything of the token but the purpose of its signer.
HeadProblemAnyPurpose(token, message) ==
  LET signer == SignerCert(token) IN
  \/ token.imprint # message
  \/ ~token.attributesSound
  \/ ~signer.decodes \/ token.signature # signer.key
  \/ ~ValidAt(signer, token.genTime)

\* The imprint, the signed attributes, the signature under the signer's key, the
\* signer's validity at genTime and its purpose.
HeadProblem(token, message) ==
  LET signer == SignerCert(token) IN
  \/ token.imprint # message
  \/ ~token.attributesSound
  \/ ~signer.decodes \/ token.signature # signer.key
  \/ ~ValidAt(signer, token.genTime)
  \/ ~signer.timeStamping
-----------------------------------------------------------------------------
(* What a chain is (RFC 5280, section 6.1), in one piece: the walk finds    *)
(* it a certificate at a time.                                             *)

\* cert, with so many intermediates below it, was issued by the next in its chain.
Issues(issuer, cert, below, genTime) ==
  /\ ~SelfIssued(cert)
  /\ issuer.parses /\ issuer.decodes
  /\ issuer.subject = cert.issuer /\ issuer.key = cert.signature
  /\ genTime \in issuer.from..issuer.to
  /\ issuer.ca /\ issuer.certSign
  /\ issuer.pathLength = None \/ below <= issuer.pathLength

\* A sequence of certificates that ends in a root and in which each is signed by
\* the next, which may sign it.
IsChain(certs, n, roots, genTime) ==
  /\ certs[n] \in roots /\ SelfIssued(certs[n])
  /\ \A i \in 1..(n - 1) : Issues(certs[i + 1], certs[i], i - 1, genTime)

\* A chain of at most MaxDepth certificates leads from cert to one of the roots.
Chained(cert, pool, roots, genTime) ==
  \E n \in 1..MaxDepth : \E path \in [1..n -> pool] :
    path[1] = cert /\ IsChain(path, n, roots, genTime)
=============================================================================
