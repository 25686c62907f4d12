----------------------------- MODULE MCAnchors -----------------------------
(***************************************************************************)
(* Two timestamp authorities, one of them with intermediates, chains that  *)
(* loop, that are too long, or that lean on a certificate that may not     *)
(* issue, and tokens over two checkpoints under each of them, embedded in  *)
(* every order.                                                            *)
(***************************************************************************)
EXTENDS Anchors, TLC

\* A CA valid from 1 to 3 that any number of intermediates may follow.
CA(subject, issuer) ==
  [subject |-> subject, issuer |-> issuer, serial |-> 1, key |-> subject,
   signature |-> issuer, from |-> 1, to |-> 3, ca |-> TRUE, pathLength |-> None,
   certSign |-> TRUE, timeStamping |-> FALSE, parses |-> TRUE, decodes |-> TRUE]

Signer(subject, issuer) ==
  [CA(subject, issuer) EXCEPT !.ca = FALSE, !.certSign = FALSE, !.timeStamping = TRUE]

Root  == CA("root", "root")
Other == CA("other", "other")
Own   == [Signer("own", "own") EXCEPT !.ca = TRUE]

Narrow == [CA("mid", "root") EXCEPT !.pathLength = 0]
Wide   == [CA("mid", "root") EXCEPT !.pathLength = 1]
Low    == CA("low", "mid")
Lowest == CA("lowest", "low")

\* Certificates that may not stand where they stand.
WrongMids ==
  {[Narrow EXCEPT !.to = 1], [Narrow EXCEPT !.ca = FALSE], [Narrow EXCEPT !.certSign = FALSE],
   [Narrow EXCEPT !.signature = "own"], [Narrow EXCEPT !.decodes = FALSE],
   [Narrow EXCEPT !.parses = FALSE]}

\* The certificates of a token, the first of them its signer.
Orders(certs) == {s \in [1..Cardinality(certs) -> certs] : ToSet(s) = certs}

Token0(signer, certs, genTime) ==
  [imprint |-> "c1", attributesSound |-> TRUE, algorithmsKnown |-> TRUE, certs |-> certs,
   serial |-> signer.serial, issuer |-> signer.issuer, signature |-> signer.key,
   genTime |-> genTime]

Tokens(signer, others, genTime) ==
  {Token0(signer, certs, genTime) : certs \in Orders(others \cup {signer})}

\* Chains to the first root, as an authority makes them.
Chains ==
  Tokens(Signer("s", "root"), {}, 2) \cup Tokens(Signer("s", "mid"), {Narrow}, 2)
    \cup Tokens(Signer("s", "low"), {Low, Wide}, 2)
    \cup Tokens(Signer("s", "mid"), {Narrow, Root}, 3)
    \cup Tokens(Signer("s", "mid"), {[Narrow EXCEPT !.pathLength = MaxDepth + 1]}, 2)

BrokenChains ==
  Tokens(Signer("s", "low"), {Low, Narrow}, 2)
    \cup Tokens(Signer("s", "lowest"), {Lowest, Low, CA("mid", "root")}, 2)
    \cup Tokens(Signer("s", "a"), {CA("a", "b"), CA("b", "a")}, 2)
    \cup Tokens(Signer("t", "s"), {Signer("s", "root")}, 2)
    \cup Tokens(Signer("s", "mid"), {Narrow, CA("mid", "other")}, 2)
    \cup Tokens(Own, {}, 2)
    \cup UNION {Tokens(Signer("s", "mid"), {mid}, 2) : mid \in WrongMids}

Plain == Token0(Signer("s", "root"), <<Signer("s", "root")>>, 2)

BrokenTokens ==
  {[Plain EXCEPT !.imprint = "c2"], [Plain EXCEPT !.attributesSound = FALSE],
   [Plain EXCEPT !.algorithmsKnown = FALSE], [Plain EXCEPT !.signature = "own"],
   [Plain EXCEPT !.certs = <<>>], [Plain EXCEPT !.genTime = 4],
   [Plain EXCEPT !.certs[1].timeStamping = FALSE], [Plain EXCEPT !.certs[1].decodes = FALSE]}

AnchorOf(token, ca) == [checkpoint |-> "c1", token |-> token, ca |-> ca]

Bundle(anchors, trusted) ==
  [anchors |-> anchors, checkpoints |-> {"c1", "c2"}, trusted |-> trusted,
   skipAnchors |-> FALSE, certificates |-> <<>>, files |-> <<>>]

RootSets == {None, <<>>, <<Root>>, <<Other, Root>>}

OneAnchor ==
  {Bundle(<<AnchorOf(token, ca)>>, trusted) :
     token \in Chains \cup BrokenChains \cup BrokenTokens, ca \in {None, <<Own>>, <<Root>>},
     trusted \in RootSets}

\* Anchors of different times, some of which no root this verifier has vouches for.
Late      == Token0(Signer("s", "root"), <<Signer("s", "root")>>, 3)
Elsewhere == Token0(Signer("s", "other"), <<Signer("s", "other")>>, 3)

SomeAnchors ==
  {AnchorOf(Plain, None), AnchorOf(Late, None), AnchorOf(Elsewhere, <<Other>>),
   AnchorOf(None, None), [AnchorOf(Plain, None) EXCEPT !.checkpoint = "c9"]}

TwoAnchors == {Bundle(<<a, b>>, trusted) : a, b \in SomeAnchors, trusted \in RootSets}

Certificate(file, hash, safePath) == [file |-> file, hash |-> hash, safePath |-> safePath]

WithCertificates ==
  {[Bundle(anchors, <<Root>>) EXCEPT !.certificates = certificates, !.skipAnchors = skip,
                                     !.files = "f" :> "h"] :
     anchors \in {<<>>, <<AnchorOf(Plain, None)>>}, skip \in BOOLEAN,
     certificates \in {<<Certificate("f", "h", TRUE)>>,
                       <<Certificate("f", "h", TRUE), Certificate("f", "h", FALSE)>>,
                       <<Certificate("g", "h", TRUE)>>, <<Certificate("f", "i", TRUE)>>}}

MCBundles == OneAnchor \cup TwoAnchors \cup WithCertificates
=============================================================================
