--------------------------- MODULE AnchorsProofs ---------------------------
(***************************************************************************)
(* What the check of a bundle's timestamps guarantees, for every bundle,   *)
(* every token and every pool of certificates.                             *)
(***************************************************************************)
EXTENDS Anchors, VerdictProofs, FiniteSetTheorems
-----------------------------------------------------------------------------
(* Which certificate is found.                                             *)

\* The first of a set of places is one of them.
LEMMA FirstIsOne ==
  ASSUME NEW T, T \subseteq Nat, T # {}
  PROVE  FirstOf(T) \in T
  BY Smallest DEF FirstOf

\* The issuer that is found is one of the pool, with the name that was looked for.
LEMMA IssuerFound ==
  ASSUME NEW cert, NEW pool, pool \in Seq(ToSet(pool)), IssuerOf(cert, pool) # None
  PROVE  /\ IssuerOf(cert, pool) \in ToSet(pool)
         /\ IssuerOf(cert, pool).parses /\ IssuerOf(cert, pool).subject = cert.issuer
  <1>1. Candidates(cert, pool) # {} /\ Candidates(cert, pool) \subseteq DOMAIN pool
    BY DEF IssuerOf, Candidates
  <1>2. DOMAIN pool \subseteq Nat
    OBVIOUS
  <1>3. FirstOf(Candidates(cert, pool)) \in Candidates(cert, pool)
    BY <1>1, <1>2, FirstIsOne
  <1>4. IssuerOf(cert, pool) = pool[FirstOf(Candidates(cert, pool))]
    BY <1>1 DEF IssuerOf
  <1>5. QED
    BY <1>3, <1>4 DEF Candidates, ToSet

\* Where no two certificates have one name it is the only one with that name.
LEMMA IssuerIsUnique ==
  ASSUME NEW cert, NEW pool, pool \in Seq(ToSet(pool)),
         \A c \in ToSet(pool) : c # None,
         \A c, d \in ToSet(pool) : c.subject = d.subject => c = d,
         NEW issuer \in ToSet(pool), issuer.parses, issuer.subject = cert.issuer
  PROVE  IssuerOf(cert, pool) = issuer
  <1>1. PICK i \in DOMAIN pool : pool[i] = issuer
    BY DEF ToSet
  <1>2. i \in Candidates(cert, pool) /\ Candidates(cert, pool) \subseteq DOMAIN pool
    BY <1>1 DEF Candidates
  <1>3. DOMAIN pool \subseteq Nat
    OBVIOUS
  <1>4. FirstOf(Candidates(cert, pool)) \in Candidates(cert, pool)
    BY <1>2, <1>3, FirstIsOne
  <1>5. IssuerOf(cert, pool) = pool[FirstOf(Candidates(cert, pool))]
    BY <1>2 DEF IssuerOf
  <1>6. /\ IssuerOf(cert, pool) \in ToSet(pool)
        /\ IssuerOf(cert, pool).subject = cert.issuer
    BY <1>4, <1>5 DEF Candidates, ToSet
  <1>7. QED
    BY <1>6

\* The signer of a token is one of the certificates it embeds.
LEMMA SignerFound ==
  ASSUME NEW token, IsToken(token), SignerCert(token) # None
  PROVE  SignerCert(token) \in ToSet(token.certs)
  <1> DEFINE places == {i \in DOMAIN token.certs : /\ token.certs[i].parses
                                                   /\ token.certs[i].serial = token.serial
                                                   /\ token.certs[i].issuer = token.issuer}
  <1>1. places # {} /\ SignerCert(token) = token.certs[FirstOf(places)]
    BY DEF SignerCert
  <1>2. token.certs \in Seq(ToSet(token.certs))
    BY DEF IsToken, AreCertificates
  <1>3. DOMAIN token.certs \subseteq Nat
    BY <1>2
  <1>4. FirstOf(places) \in places
    BY <1>1, <1>3, FirstIsOne
  <1>5. QED
    BY <1>1, <1>4 DEF ToSet

LEMMA SequenceOfItsElements ==
  ASSUME NEW X, NEW s \in Seq(X)
  PROVE  s \in Seq(ToSet(s))
  <1>1. Len(s) \in Nat /\ DOMAIN s = 1..Len(s) /\ s \in [1..Len(s) -> X]
    OBVIOUS
  <1>2. s \in [1..Len(s) -> ToSet(s)]
    BY <1>1 DEF ToSet
  <1>3. QED
    BY <1>1, <1>2

\* The pool of an anchor: the certificates of its token, then the roots.
LEMMA PoolFacts ==
  ASSUME NEW s, NEW t, AreCertificates(s), AreCertificates(t)
  PROVE  AreCertificates(s \o t) /\ ToSet(s) \subseteq ToSet(s \o t)
  <1> DEFINE X == ToSet(s) \cup ToSet(t)
  <1>1. s \in Seq(X) /\ t \in Seq(X) /\ \A c \in X : IsCertificate(c)
    BY DEF AreCertificates
  <1>2. /\ s \o t \in Seq(X) /\ Len(s \o t) = Len(s) + Len(t)
        /\ \A i \in 1..Len(s) : (s \o t)[i] = s[i]
        /\ Len(s) \in Nat /\ Len(t) \in Nat
    BY <1>1
  <1>3. DOMAIN (s \o t) = 1..Len(s \o t) /\ DOMAIN s = 1..Len(s)
    BY <1>1, <1>2
  <1>4. \A i \in 1..Len(s \o t) : (s \o t)[i] \in X
    BY <1>2
  <1>5. ToSet(s \o t) \subseteq X
    BY <1>3, <1>4 DEF ToSet
  <1>6. s \o t \in Seq(ToSet(s \o t))
    BY <1>2, SequenceOfItsElements
  <1>7. ToSet(s) \subseteq ToSet(s \o t)
    <2>1. 1..Len(s) \subseteq 1..Len(s \o t)
      BY <1>2
    <2>2. QED
      BY <1>2, <1>3, <2>1 DEF ToSet
  <1>8. QED
    BY <1>1, <1>5, <1>6, <1>7 DEF AreCertificates
-----------------------------------------------------------------------------
(* Chains.                                                                 *)

\* What the walk asks of an issuer it found (validate.go, IssuerProblems in cert.go)
\* is what a chain is made of.
LEMMA AcceptedIssues ==
  ASSUME NEW cert, NEW issuer, NEW below \in Nat, NEW genTime \in Int,
         IsCertificate(issuer)
  PROVE  /\ SignedBy(cert, issuer) /\ ~IssuerProblem(issuer, genTime, below)
              /\ ~SelfIssued(cert) /\ issuer.parses /\ issuer.subject = cert.issuer
            => Issues(issuer, cert, below, genTime)
         /\ Issues(issuer, cert, below, genTime)
            => SignedBy(cert, issuer) /\ ~IssuerProblem(issuer, genTime, below)
  <1>1. /\ issuer.from \in Int /\ issuer.to \in Int
        /\ issuer.pathLength \in Int \cup {None} /\ None \notin Int
    BY AnchorsAssumption DEF IsCertificate
  <1>2. ValidAt(issuer, genTime) <=> genTime \in issuer.from..issuer.to
    BY <1>1 DEF ValidAt
  <1>3. issuer.pathLength # None
          => (below > issuer.pathLength <=> ~(below <= issuer.pathLength))
    BY <1>1
  <1>4. QED
    BY <1>2, <1>3 DEF SignedBy, IssuerProblem, Issues

\* An issuer that may have so many intermediates below it may have fewer.
LEMMA FewerBelow ==
  ASSUME NEW cert, NEW issuer, NEW genTime \in Int, IsCertificate(issuer),
         NEW below \in Nat, NEW fewer \in Nat, fewer <= below,
         Issues(issuer, cert, below, genTime)
  PROVE  Issues(issuer, cert, fewer, genTime)
  <1>1. issuer.pathLength \in Int \cup {None}
    BY DEF IsCertificate
  <1>2. issuer.pathLength = None \/ below <= issuer.pathLength
    BY DEF Issues
  <1>3. issuer.pathLength = None \/ fewer <= issuer.pathLength
    BY <1>1, <1>2
  <1>4. QED
    BY <1>3 DEF Issues

\* A path of n certificates from first to one of the roots.
IsPath(path, n, first, pool, roots, genTime) ==
  path \in [1..n -> pool] /\ path[1] = first /\ IsChain(path, n, roots, genTime)

\* A chain that comes to a certificate twice can be cut short.
LEMMA CircleIsCut ==
  ASSUME NEW pool, \A c \in pool : IsCertificate(c), NEW genTime \in Int,
         NEW n \in Nat, NEW path, NEW first, NEW roots,
         IsPath(path, n, first, pool, roots, genTime),
         NEW i \in 1..n, NEW j \in 1..n, i < j, path[i] = path[j]
  PROVE  \E short : IsPath(short, n - (j - i), first, pool, roots, genTime)
  <1> DEFINE d == j - i
             m == n - d
             short == [k \in 1..m |-> IF k <= i THEN path[k] ELSE path[k + d]]
  <1>1. /\ d \in Nat \ {0} /\ m \in Nat /\ i <= m /\ 1 <= m /\ i \in 1..m
        /\ path \in [1..n -> pool] /\ path[1] = first
    BY DEF IsPath
  <1>2. \A k \in 1..m : k \in 1..n /\ k + d \in 1..n
    BY <1>1
  <1>3. /\ short \in [1..m -> pool]
        /\ \A k \in 1..m : k <= i => short[k] = path[k]
        /\ \A k \in 1..m : i < k => short[k] = path[k + d]
    BY <1>1, <1>2
  <1>4. short[i] = path[i + d] /\ i + d = j
    BY <1>1, <1>3
  <1> HIDE DEF short
  <1>5. ASSUME NEW k \in 1..m, i <= k
        PROVE  short[k] = path[k + d]
    <2>1. CASE k = i
      BY <1>4, <2>1
    <2>2. CASE i < k
      BY <1>3, <2>2
    <2>3. QED
      BY <1>5, <2>1, <2>2
  <1>6. short[1] = first
    BY <1>1, <1>3
  <1>7. short[m] \in roots /\ SelfIssued(short[m])
    <2>1. m \in 1..m /\ m + d = n
      BY <1>1
    <2>2. short[m] = path[n]
      BY <1>1, <1>5, <2>1
    <2>3. QED
      BY <2>2 DEF IsPath, IsChain
  <1>8. ASSUME NEW k \in 1..(m - 1)
        PROVE  Issues(short[k + 1], short[k], k - 1, genTime)
    <2>1. k \in 1..m /\ k + 1 \in 1..m /\ k - 1 \in Nat
      BY <1>1
    <2>2. CASE k < i
      <3>1. k \in 1..(n - 1) /\ short[k] = path[k] /\ short[k + 1] = path[k + 1]
        BY <1>1, <1>3, <2>1, <2>2
      <3>2. QED
        BY <3>1 DEF IsPath, IsChain
    <2>3. CASE i <= k
      <3>1. /\ short[k] = path[k + d] /\ short[k + 1] = path[(k + d) + 1]
            /\ k + d \in 1..(n - 1) /\ (k + d) - 1 \in Nat /\ k - 1 <= (k + d) - 1
            /\ (k + d) + 1 \in 1..n
        <4>1. (k + 1) + d = (k + d) + 1
          BY <1>1, <2>1
        <4>2. QED
          BY <1>1, <1>5, <2>1, <2>3, <4>1
      <3>2. Issues(path[(k + d) + 1], path[k + d], (k + d) - 1, genTime)
        BY <3>1 DEF IsPath, IsChain
      <3>3. IsCertificate(path[(k + d) + 1])
        BY <1>1, <3>1
      <3>4. QED
        BY <2>1, <3>1, <3>2, <3>3, FewerBelow
    <2>4. QED
      BY <1>1, <2>2, <2>3
  <1>9. IsPath(short, m, first, pool, roots, genTime)
    BY <1>3, <1>6, <1>7, <1>8 DEF IsPath, IsChain
  <1>10. QED
    BY <1>9

\* A path than which there is none shorter.
IsShortest(path, n, first, pool, roots, genTime) ==
  /\ IsPath(path, n, first, pool, roots, genTime)
  /\ \A m \in 1..MaxDepth :
       \A other : IsPath(other, m, first, pool, roots, genTime) => n <= m
-----------------------------------------------------------------------------
(* Climbing one.                                                           *)

\* After d certificates a path leads from the first to the one at hand.
IsClimbed(w, d, first, pool, genTime) ==
  \E path \in [1..(d + 1) -> pool] :
    /\ path[1] = first /\ path[d + 1] = w.cert
    /\ \A i \in 1..d : Issues(path[i + 1], path[i], i - 1, genTime)

\* The walk has not strayed from any shortest path to a root.
IsOnShortest(w, d, first, pool, roots, genTime) ==
  \A n \in 1..MaxDepth : \A path :
    IsShortest(path, n, first, pool, roots, genTime) =>
      /\ d + 1 <= n /\ path[d + 1] = w.cert
      /\ w.seen = {path[i] : i \in 1..d}

NamesDiffer(pool) == \A c, d \in pool : c.subject = d.subject => c = d

LEMMA ClimbStarts ==
  ASSUME NEW w, NEW pool, NEW roots, NEW genTime, w.cert \in pool, w.seen = {}
  PROVE  /\ IsClimbed(w, 0, w.cert, pool, genTime)
         /\ IsOnShortest(w, 0, w.cert, pool, roots, genTime)
  <1> DEFINE path == [i \in 1..(0 + 1) |-> w.cert]
  <1>1. /\ path \in [1..(0 + 1) -> pool] /\ path[1] = w.cert /\ path[0 + 1] = w.cert
        /\ 1..0 = {}
    OBVIOUS
  <1>2. IsClimbed(w, 0, w.cert, pool, genTime)
    BY <1>1 DEF IsClimbed
  <1>3. ASSUME NEW n \in 1..MaxDepth, NEW other,
               IsShortest(other, n, w.cert, pool, roots, genTime)
        PROVE  0 + 1 <= n /\ other[0 + 1] = w.cert /\ w.seen = {other[i] : i \in 1..0}
    BY <1>1, <1>3, DepthAssumption DEF IsShortest, IsPath
  <1>4. QED
    BY <1>2, <1>3 DEF IsOnShortest

LEMMA ClimbGoesOn ==
  ASSUME NEW w, NEW v, NEW d \in Nat, NEW first, NEW pool, NEW genTime,
         IsClimbed(w, d, first, pool, genTime),
         v.cert \in pool, Issues(v.cert, w.cert, d, genTime)
  PROVE  IsClimbed(v, d + 1, first, pool, genTime)
  <1>1. PICK path \in [1..(d + 1) -> pool] :
          /\ path[1] = first /\ path[d + 1] = w.cert
          /\ \A i \in 1..d : Issues(path[i + 1], path[i], i - 1, genTime)
    BY DEF IsClimbed
  <1> DEFINE longer == [i \in 1..((d + 1) + 1) |-> IF i <= d + 1 THEN path[i] ELSE v.cert]
  <1>2. /\ longer \in [1..((d + 1) + 1) -> pool]
        /\ \A i \in 1..(d + 1) : longer[i] = path[i]
        /\ longer[(d + 1) + 1] = v.cert
    BY <1>1
  <1> HIDE DEF longer
  <1>3. ASSUME NEW i \in 1..(d + 1)
        PROVE  Issues(longer[i + 1], longer[i], i - 1, genTime)
    <2>1. CASE i = d + 1
      <3>1. longer[i + 1] = v.cert /\ longer[i] = w.cert /\ i - 1 = d
        BY <1>1, <1>2, <2>1
      <3>2. QED
        BY <3>1
    <2>2. CASE i # d + 1
      <3>1. i \in 1..d /\ longer[i + 1] = path[i + 1] /\ longer[i] = path[i]
        BY <1>2, <2>2
      <3>2. QED
        BY <1>1, <3>1
    <2>3. QED
      BY <2>1, <2>2
  <1>4. longer[1] = first
    BY <1>1, <1>2
  <1>5. QED
    BY <1>2, <1>3, <1>4 DEF IsClimbed

\* What was climbed, and ends in a root, is a chain.
LEMMA ClimbedIsChained ==
  ASSUME NEW w, NEW d \in Nat, NEW first, NEW pool, NEW roots, NEW genTime,
         IsClimbed(w, d, first, pool, genTime), d < MaxDepth,
         SelfIssued(w.cert), w.cert \in roots
  PROVE  Chained(first, pool, roots, genTime)
  <1>1. PICK path \in [1..(d + 1) -> pool] :
          /\ path[1] = first /\ path[d + 1] = w.cert
          /\ \A i \in 1..d : Issues(path[i + 1], path[i], i - 1, genTime)
    BY DEF IsClimbed
  <1>2. d + 1 \in 1..MaxDepth /\ (d + 1) - 1 = d
    BY DepthAssumption
  <1>3. IsChain(path, d + 1, roots, genTime)
    BY <1>1, <1>2 DEF IsChain
  <1>4. QED
    BY <1>1, <1>2, <1>3 DEF Chained

LEMMA ShortestExists ==
  ASSUME NEW first, NEW pool, NEW roots, NEW genTime,
         Chained(first, pool, roots, genTime)
  PROVE  \E n \in 1..MaxDepth : \E path : IsShortest(path, n, first, pool, roots, genTime)
  <1> DEFINE Lengths == {n \in 1..MaxDepth :
                           \E path : IsPath(path, n, first, pool, roots, genTime)}
  <1>1. PICK n \in 1..MaxDepth : \E path \in [1..n -> pool] :
          path[1] = first /\ IsChain(path, n, roots, genTime)
    BY DEF Chained
  <1>2. Lengths # {} /\ Lengths \subseteq Nat
    BY <1>1 DEF IsPath
  <1>3. PICK least \in Lengths : \A m \in Lengths : least <= m
    BY <1>2, Smallest
  <1>4. PICK path : IsPath(path, least, first, pool, roots, genTime)
    BY <1>3
  <1>5. IsShortest(path, least, first, pool, roots, genTime)
    BY <1>3, <1>4 DEF IsShortest
  <1>6. QED
    BY <1>3, <1>5
\* A certificate that is issued is issued by the next on every shortest path.
LEMMA ShortestGoesOn ==
  ASSUME NEW w, NEW v, NEW d \in Nat, NEW first, NEW pool, NEW roots, NEW genTime,
         IsOnShortest(w, d, first, pool, roots, genTime), NamesDiffer(pool),
         v.cert \in pool, v.seen = w.seen \cup {w.cert},
         Issues(v.cert, w.cert, d, genTime)
  PROVE  IsOnShortest(v, d + 1, first, pool, roots, genTime)
  <1> SUFFICES ASSUME NEW n \in 1..MaxDepth, NEW path,
                      IsShortest(path, n, first, pool, roots, genTime)
               PROVE  /\ (d + 1) + 1 <= n /\ path[(d + 1) + 1] = v.cert
                      /\ v.seen = {path[i] : i \in 1..(d + 1)}
    BY DEF IsOnShortest
  <1>1. /\ d + 1 <= n /\ path[d + 1] = w.cert /\ w.seen = {path[i] : i \in 1..d}
    BY DEF IsOnShortest
  <1>2. /\ path \in [1..n -> pool] /\ SelfIssued(path[n]) /\ ~SelfIssued(w.cert)
        /\ n \in Nat
    BY DepthAssumption DEF IsShortest, IsPath, IsChain, Issues
  <1>3. d + 1 # n
    BY <1>1, <1>2
  <1>4. (d + 1) + 1 <= n /\ d + 1 \in 1..(n - 1) /\ (d + 1) + 1 \in 1..n
    BY <1>1, <1>2, <1>3
  <1>5. Issues(path[(d + 1) + 1], path[d + 1], (d + 1) - 1, genTime)
    BY <1>4 DEF IsShortest, IsPath, IsChain
  <1>6. path[(d + 1) + 1].subject = v.cert.subject /\ path[(d + 1) + 1] \in pool
    BY <1>1, <1>2, <1>4, <1>5 DEF Issues
  <1>7. path[(d + 1) + 1] = v.cert
    BY <1>6 DEF NamesDiffer
  <1>8. 1..(d + 1) = (1..d) \cup {d + 1}
    OBVIOUS
  <1>9. {path[i] : i \in 1..(d + 1)} = {path[i] : i \in 1..d} \cup {path[d + 1]}
    BY <1>8
  <1>10. QED
    BY <1>1, <1>4, <1>7, <1>9

\* On a shortest path the walk is never too deep, never where it was before, finds
\* an issuer for every certificate but the last, and the last is a root.
LEMMA ShortestHolds ==
  ASSUME NEW w, NEW d \in Nat, NEW first, NEW pool, NEW roots, NEW genTime \in Int,
         IsOnShortest(w, d, first, pool, roots, genTime),
         Chained(first, pool, roots, genTime), \A c \in pool : IsCertificate(c)
  PROVE  /\ d < MaxDepth /\ w.cert \notin w.seen
         /\ SelfIssued(w.cert) => w.cert \in roots
         /\ ~SelfIssued(w.cert) =>
              \E issuer \in pool : Issues(issuer, w.cert, d, genTime)
  <1>1. PICK n \in 1..MaxDepth : \E path : IsShortest(path, n, first, pool, roots, genTime)
    BY ShortestExists
  <1>2. PICK path : IsShortest(path, n, first, pool, roots, genTime)
    BY <1>1
  <1>3. /\ d + 1 <= n /\ path[d + 1] = w.cert /\ w.seen = {path[i] : i \in 1..d}
    BY <1>2 DEF IsOnShortest
  <1>4. /\ IsPath(path, n, first, pool, roots, genTime) /\ path \in [1..n -> pool]
        /\ n \in Nat /\ path[n] \in roots /\ SelfIssued(path[n])
        /\ \A i \in 1..(n - 1) : Issues(path[i + 1], path[i], i - 1, genTime)
    BY <1>2, DepthAssumption DEF IsShortest, IsPath, IsChain
  <1>5. d < MaxDepth
    BY <1>3, DepthAssumption
  <1>6. ASSUME w.cert \in w.seen
        PROVE  FALSE
    <2>1. PICK i \in 1..d : path[i] = path[d + 1]
      BY <1>3, <1>6
    <2>2. i \in 1..n /\ d + 1 \in 1..n /\ i < d + 1
      BY <1>3, <1>4
    <2>3. \E short : IsPath(short, n - ((d + 1) - i), first, pool, roots, genTime)
      BY <1>4, <2>1, <2>2, CircleIsCut
    <2>4. n - ((d + 1) - i) \in 1..MaxDepth /\ n - ((d + 1) - i) < n
      BY <1>3, <1>4, <2>2, DepthAssumption
    <2>5. n <= n - ((d + 1) - i)
      BY <1>2, <2>3, <2>4 DEF IsShortest
    <2>6. QED
      BY <1>4, <2>2, <2>4, <2>5
  <1>7. CASE d + 1 = n
    BY <1>3, <1>4, <1>5, <1>6, <1>7
  <1>8. CASE d + 1 # n
    <2>1. d + 1 \in 1..(n - 1) /\ (d + 1) + 1 \in 1..n /\ (d + 1) - 1 = d
      BY <1>3, <1>4, <1>8
    <2>2. Issues(path[(d + 1) + 1], path[d + 1], (d + 1) - 1, genTime)
      BY <1>4, <2>1
    <2>3. Issues(path[(d + 1) + 1], w.cert, d, genTime) /\ path[(d + 1) + 1] \in pool
      BY <1>3, <1>4, <2>1, <2>2
    <2>4. ~SelfIssued(w.cert)
      BY <2>3 DEF Issues
    <2>5. QED
      BY <1>5, <1>6, <2>3, <2>4
  <1>9. QED
    BY <1>7, <1>8
-----------------------------------------------------------------------------
(* The check of one anchor.                                                *)

Phases == {"start", "anchors", "chain", "certificates", "done", "hard"}

TypeOK ==
  /\ bundle \in Bundles /\ phase \in Phases /\ results \in Verdicts
  /\ judged \in 0..Len(bundle.anchors) /\ latest \in Int \cup {None}

\* What the chain walk has at hand: a token whose signer is embedded, and a path from
\* that signer that strays from no shortest one.
ClimbInv ==
  phase = "chain" =>
    /\ judged < Len(bundle.anchors) /\ ~Misplaced /\ ~GivesUp(Token) /\ Roots # None
    /\ walk \in [cert : ToSet(Pool), seen : SUBSET ToSet(Pool), sound : BOOLEAN]
    /\ walk.sound = ~HeadProblem(Token, Anchor.checkpoint)
    /\ IsFiniteSet(walk.seen)
    /\ IsClimbed(walk, Depth, SignerCert(Token), ToSet(Pool), Token.genTime)
    /\ NamesDiffer(ToSet(Pool)) =>
         IsOnShortest(walk, Depth, SignerCert(Token), ToSet(Pool), ToSet(Roots),
                      Token.genTime)

\* The judgement of the i-th anchor is right, unless the verifier has no roots.
IsRight(b, i, sound) ==
  /\ sound /\ b.trusted # None => i \in AttestedIn(b)
  /\ i \in PlainlyAttestedIn(b) => sound

\* What is known of the anchor at hand.
LEMMA AnchorFacts ==
  ASSUME TypeOK, judged < Len(bundle.anchors)
  PROVE  /\ judged \in Nat /\ Len(bundle.anchors) \in Nat
         /\ judged + 1 \in 1..Len(bundle.anchors)
         /\ DOMAIN bundle.anchors = 1..Len(bundle.anchors)
         /\ judged + 1 \in DOMAIN bundle.anchors
         /\ ~Misplaced => IsToken(Token)
         /\ Roots # None => AreCertificates(Roots)
         /\ bundle.trusted # None => Roots = bundle.trusted
  <1>1. bundle.anchors \in Seq(ToSet(bundle.anchors)) /\ BundleShape(bundle)
    BY AnchorsAssumption DEF TypeOK, BundleShape
  <1>2. /\ judged \in Nat /\ Len(bundle.anchors) \in Nat
        /\ judged + 1 \in 1..Len(bundle.anchors)
        /\ DOMAIN bundle.anchors = 1..Len(bundle.anchors)
    BY <1>1 DEF TypeOK
  <1>3. Anchor \in ToSet(bundle.anchors)
    BY <1>2 DEF Anchor, ToSet
  <1>4. QED
    BY <1>1, <1>2, <1>3 DEF BundleShape, Roots, Misplaced, Token

LEMMA PoolOfAnchor ==
  ASSUME TypeOK, judged < Len(bundle.anchors), ~Misplaced, ~GivesUp(Token), Roots # None
  PROVE  /\ AreCertificates(Pool) /\ Token.genTime \in Int
         /\ SignerCert(Token) \in ToSet(Pool) /\ SignerCert(Token) # None
  <1>1. IsToken(Token) /\ AreCertificates(Roots)
    BY AnchorFacts
  <1>2. AreCertificates(Token.certs) /\ Token.genTime \in Int
    BY <1>1 DEF IsToken
  <1>3. AreCertificates(Pool) /\ ToSet(Token.certs) \subseteq ToSet(Pool)
    BY <1>1, <1>2, PoolFacts DEF Pool
  <1>4. SignerCert(Token) # None
    BY DEF GivesUp
  <1>5. QED
    BY <1>1, <1>2, <1>3, <1>4, SignerFound

\* Being attested is what Validate checks, and a chain.
LEMMA AttestedIsChecked ==
  ASSUME TypeOK, judged < Len(bundle.anchors)
  PROVE  /\ judged + 1 \in AttestedIn(bundle) =>
              /\ bundle.trusted # None /\ ~Misplaced /\ ~GivesUp(Token)
              /\ ~HeadProblem(Token, Anchor.checkpoint)
              /\ Chained(SignerCert(Token), ToSet(Pool), ToSet(Roots), Token.genTime)
         /\ /\ bundle.trusted # None /\ ~Misplaced /\ ~GivesUp(Token)
            /\ ~HeadProblem(Token, Anchor.checkpoint)
            /\ Chained(SignerCert(Token), ToSet(Pool), ToSet(Roots), Token.genTime)
            => judged + 1 \in AttestedIn(bundle)
         /\ judged + 1 \in PlainlyAttestedIn(bundle) =>
              judged + 1 \in AttestedIn(bundle) /\ NamesDiffer(ToSet(Pool))
  <1>1. /\ judged + 1 \in DOMAIN bundle.anchors
        /\ bundle.trusted # None => Roots = bundle.trusted
    BY AnchorFacts
  <1>2. judged + 1 \in AttestedIn(bundle) <=>
          bundle.trusted # None /\ Attested(Anchor, bundle.checkpoints, bundle.trusted)
    BY <1>1 DEF AttestedIn, Anchor
  <1>3. bundle.trusted # None => Pool = Anchor.token.certs \o bundle.trusted
    BY <1>1 DEF Pool, Token
  <1>4. judged + 1 \in AttestedIn(bundle) =>
          /\ bundle.trusted # None /\ ~Misplaced /\ ~GivesUp(Token)
          /\ ~HeadProblem(Token, Anchor.checkpoint)
          /\ Chained(SignerCert(Token), ToSet(Pool), ToSet(Roots), Token.genTime)
    BY <1>1, <1>2, <1>3 DEF Attested, Misplaced, Token, GivesUp, HeadProblem
  <1>5. /\ bundle.trusted # None /\ ~Misplaced /\ ~GivesUp(Token)
        /\ ~HeadProblem(Token, Anchor.checkpoint)
        /\ Chained(SignerCert(Token), ToSet(Pool), ToSet(Roots), Token.genTime)
        => judged + 1 \in AttestedIn(bundle)
    BY <1>1, <1>2, <1>3 DEF Attested, Misplaced, Token, GivesUp, HeadProblem
  <1>6. judged + 1 \in PlainlyAttestedIn(bundle) =>
          judged + 1 \in AttestedIn(bundle) /\ NamesDiffer(ToSet(Pool))
    BY <1>2, <1>3 DEF PlainlyAttestedIn, NamesDiffer, Anchor
  <1>7. QED
    BY <1>4, <1>5, <1>6

\* A token without a chain to walk.
LEMMA JudgedRight ==
  ASSUME TypeOK, JudgeToken
  PROVE  IsRight(bundle, judged + 1,
                 ~GivesUp(Token) /\ ~HeadProblem(Token, Anchor.checkpoint) /\ Roots = None)
  <1>1. judged < Len(bundle.anchors) /\ (GivesUp(Token) \/ Roots \in {None, <<>>})
    BY DEF JudgeToken, More
  <1>2. bundle.trusted # None => Roots # None
    BY <1>1, AnchorFacts
  <1>3. judged + 1 \notin AttestedIn(bundle)
    <2>1. SUFFICES ASSUME judged + 1 \in AttestedIn(bundle)
                   PROVE  FALSE
      OBVIOUS
    <2>2. Roots = <<>>
      BY <1>1, <1>2, <2>1, AttestedIsChecked
    <2>3. Chained(SignerCert(Token), ToSet(Pool), ToSet(Roots), Token.genTime)
      BY <1>1, <2>1, AttestedIsChecked
    <2>4. ToSet(Roots) = {}
      BY <2>2 DEF ToSet
    <2>5. QED
      BY <2>3, <2>4 DEF Chained, IsChain
  <1>4. judged + 1 \notin PlainlyAttestedIn(bundle)
    BY <1>3 DEF PlainlyAttestedIn
  <1>5. QED
    BY <1>2, <1>4 DEF IsRight
\* What holds where the anchor at hand is plainly attested.
LEMMA OnTheWayToARoot ==
  ASSUME TypeOK, ClimbInv, phase = "chain", judged + 1 \in PlainlyAttestedIn(bundle)
  PROVE  /\ walk.sound /\ Climbing
         /\ SelfIssued(walk.cert) => walk.cert \in ToSet(Roots)
         /\ ~SelfIssued(walk.cert) => IssuerAccepted
  <1>1. /\ judged < Len(bundle.anchors) /\ ~Misplaced /\ ~GivesUp(Token) /\ Roots # None
        /\ walk.sound = ~HeadProblem(Token, Anchor.checkpoint)
        /\ IsFiniteSet(walk.seen)
    BY DEF ClimbInv
  <1>2. /\ AreCertificates(Pool) /\ Token.genTime \in Int
        /\ \A c \in ToSet(Pool) : IsCertificate(c)
    BY <1>1, PoolOfAnchor DEF AreCertificates
  <1>3. /\ ~HeadProblem(Token, Anchor.checkpoint) /\ NamesDiffer(ToSet(Pool))
        /\ Chained(SignerCert(Token), ToSet(Pool), ToSet(Roots), Token.genTime)
    BY <1>1, AttestedIsChecked
  <1>4. Depth \in Nat
    BY <1>1, FS_CardinalityType DEF Depth
  <1>5. IsOnShortest(walk, Depth, SignerCert(Token), ToSet(Pool), ToSet(Roots),
                     Token.genTime)
    BY <1>3 DEF ClimbInv
  <1>6. /\ Depth < MaxDepth /\ walk.cert \notin walk.seen
        /\ SelfIssued(walk.cert) => walk.cert \in ToSet(Roots)
        /\ ~SelfIssued(walk.cert) =>
             \E issuer \in ToSet(Pool) : Issues(issuer, walk.cert, Depth, Token.genTime)
    BY <1>2, <1>3, <1>4, <1>5, ShortestHolds
  <1>7. ASSUME ~SelfIssued(walk.cert)
        PROVE  IssuerAccepted
    <2>1. PICK issuer \in ToSet(Pool) : Issues(issuer, walk.cert, Depth, Token.genTime)
      BY <1>6, <1>7
    <2>2. issuer.parses /\ issuer.subject = walk.cert.issuer /\ IsCertificate(issuer)
      BY <1>2, <2>1 DEF Issues
    <2>3. Pool \in Seq(ToSet(Pool)) /\ \A c \in ToSet(Pool) : c # None
      BY <1>2 DEF AreCertificates, IsCertificate
    <2>4. IssuerOf(walk.cert, Pool) = issuer
      BY <1>3, <2>2, <2>3, IssuerIsUnique DEF NamesDiffer
    <2>5. SignedBy(walk.cert, issuer) /\ ~IssuerProblem(issuer, Token.genTime, Depth)
      BY <1>2, <1>4, <2>1, <2>2, AcceptedIssues
    <2>6. issuer # None
      BY <2>2 DEF IsCertificate
    <2>7. QED
      BY <2>4, <2>5, <2>6 DEF IssuerAccepted, Issuer
  <1>8. QED
    BY <1>1, <1>3, <1>6, <1>7 DEF Climbing

\* A chain that loops, that is too deep, or that breaks off is none.
LEMMA NoChain ==
  ASSUME TypeOK, ClimbInv, phase = "chain",
         ~Climbing \/ (~SelfIssued(walk.cert) /\ ~IssuerAccepted)
  PROVE  IsRight(bundle, judged + 1, FALSE)
  BY OnTheWayToARoot DEF IsRight

\* One that ends at a self-issued certificate is a chain where that is a root.
LEMMA ChainEndsRight ==
  ASSUME TypeOK, ClimbInv, EndChain
  PROVE  IsRight(bundle, judged + 1, walk.sound /\ walk.cert \in ToSet(Roots))
  <1>1. phase = "chain" /\ Depth < MaxDepth /\ SelfIssued(walk.cert)
    BY DEF EndChain, Climbing
  <1>2. /\ judged < Len(bundle.anchors) /\ ~Misplaced /\ ~GivesUp(Token)
        /\ walk.sound = ~HeadProblem(Token, Anchor.checkpoint)
        /\ IsFiniteSet(walk.seen)
        /\ IsClimbed(walk, Depth, SignerCert(Token), ToSet(Pool), Token.genTime)
    BY <1>1 DEF ClimbInv
  <1>3. Depth \in Nat
    BY <1>2, FS_CardinalityType DEF Depth
  <1>4. walk.cert \in ToSet(Roots) =>
          Chained(SignerCert(Token), ToSet(Pool), ToSet(Roots), Token.genTime)
    BY <1>1, <1>2, <1>3, ClimbedIsChained
  <1>5. ASSUME walk.sound, walk.cert \in ToSet(Roots), bundle.trusted # None
        PROVE  judged + 1 \in AttestedIn(bundle)
    BY <1>2, <1>4, <1>5, AttestedIsChecked
  <1>6. ASSUME judged + 1 \in PlainlyAttestedIn(bundle)
        PROVE  walk.sound /\ walk.cert \in ToSet(Roots)
    BY <1>1, <1>6, OnTheWayToARoot
  <1>7. QED
    BY <1>5, <1>6 DEF IsRight

\* The walk keeps to what it has at hand.
LEMMA BeginKeepsClimb ==
  ASSUME TypeOK, BeginChain
  PROVE  ClimbInv'
  <1>1. /\ judged < Len(bundle.anchors) /\ ~Misplaced /\ ~GivesUp(Token) /\ Roots # None
        /\ bundle' = bundle /\ judged' = judged
        /\ walk' = [cert |-> SignerCert(Token), seen |-> {},
                    sound |-> ~HeadProblem(Token, Anchor.checkpoint)]
    BY DEF BeginChain, More
  <1>2. /\ Anchor' = Anchor /\ Token' = Token /\ Roots' = Roots /\ Pool' = Pool
        /\ Misplaced' = Misplaced
    BY <1>1 DEF Anchor, Token, Roots, Pool, Misplaced
  <1>3. SignerCert(Token) \in ToSet(Pool)
    BY <1>1, PoolOfAnchor
  <1>4. /\ walk' \in [cert : ToSet(Pool), seen : SUBSET ToSet(Pool), sound : BOOLEAN]
        /\ walk'.cert = SignerCert(Token) /\ walk'.seen = {}
        /\ walk'.sound = ~HeadProblem(Token, Anchor.checkpoint)
    BY <1>1, <1>3 DEF HeadProblem
  <1>5. IsFiniteSet(walk'.seen) /\ Depth' = 0
    BY <1>4, FS_EmptySet DEF Depth
  <1>6. /\ IsClimbed(walk', 0, SignerCert(Token), ToSet(Pool), Token.genTime)
        /\ IsOnShortest(walk', 0, SignerCert(Token), ToSet(Pool), ToSet(Roots),
                        Token.genTime)
    BY <1>3, <1>4, ClimbStarts
  <1>7. QED
    BY <1>1, <1>2, <1>4, <1>5, <1>6 DEF ClimbInv

LEMMA ClimbKeepsClimb ==
  ASSUME TypeOK, ClimbInv, ClimbChain
  PROVE  ClimbInv'
  <1>1. /\ phase = "chain" /\ walk.cert \notin walk.seen /\ ~SelfIssued(walk.cert)
        /\ IssuerAccepted /\ bundle' = bundle /\ judged' = judged
        /\ walk' = [walk EXCEPT !.cert = Issuer, !.seen = @ \cup {walk.cert}]
    BY DEF ClimbChain, Climbing
  <1>2. /\ judged < Len(bundle.anchors) /\ ~Misplaced /\ ~GivesUp(Token) /\ Roots # None
        /\ walk \in [cert : ToSet(Pool), seen : SUBSET ToSet(Pool), sound : BOOLEAN]
        /\ walk.sound = ~HeadProblem(Token, Anchor.checkpoint)
        /\ IsFiniteSet(walk.seen)
        /\ IsClimbed(walk, Depth, SignerCert(Token), ToSet(Pool), Token.genTime)
        /\ NamesDiffer(ToSet(Pool)) =>
             IsOnShortest(walk, Depth, SignerCert(Token), ToSet(Pool), ToSet(Roots),
                          Token.genTime)
    BY <1>1 DEF ClimbInv
  <1>3. /\ Anchor' = Anchor /\ Token' = Token /\ Roots' = Roots /\ Pool' = Pool
        /\ Misplaced' = Misplaced
    BY <1>1 DEF Anchor, Token, Roots, Pool, Misplaced
  <1>4. /\ AreCertificates(Pool) /\ Token.genTime \in Int
        /\ Pool \in Seq(ToSet(Pool)) /\ \A c \in ToSet(Pool) : IsCertificate(c)
    BY <1>2, PoolOfAnchor DEF AreCertificates
  <1>5. Depth \in Nat
    BY <1>2, FS_CardinalityType DEF Depth
  <1>6. /\ Issuer \in ToSet(Pool) /\ Issuer.parses /\ Issuer.subject = walk.cert.issuer
        /\ SignedBy(walk.cert, Issuer) /\ ~IssuerProblem(Issuer, Token.genTime, Depth)
    BY <1>1, <1>4, IssuerFound DEF IssuerAccepted, Issuer
  <1>7. Issues(Issuer, walk.cert, Depth, Token.genTime)
    BY <1>1, <1>4, <1>5, <1>6, AcceptedIssues
  <1>8. /\ walk' \in [cert : ToSet(Pool), seen : SUBSET ToSet(Pool), sound : BOOLEAN]
        /\ walk'.cert = Issuer /\ walk'.seen = walk.seen \cup {walk.cert}
        /\ walk'.sound = walk.sound
    BY <1>1, <1>2, <1>6
  <1>9. IsFiniteSet(walk'.seen) /\ Depth' = Depth + 1
    BY <1>1, <1>2, <1>8, FS_AddElement DEF Depth
  <1>10. IsClimbed(walk', Depth + 1, SignerCert(Token), ToSet(Pool), Token.genTime)
    BY <1>2, <1>5, <1>6, <1>7, <1>8, ClimbGoesOn
  <1>11. NamesDiffer(ToSet(Pool)) =>
           IsOnShortest(walk', Depth + 1, SignerCert(Token), ToSet(Pool), ToSet(Roots),
                        Token.genTime)
    BY <1>2, <1>5, <1>6, <1>7, <1>8, ShortestGoesOn
  <1>12. QED
    BY <1>1, <1>2, <1>3, <1>8, <1>9, <1>10, <1>11 DEF ClimbInv, ClimbChain
-----------------------------------------------------------------------------
(* All the anchors.                                                        *)

\* What the results and the time handed on say of the anchors judged so far.
JudgedInv ==
  /\ phase = "start" => judged = 0
  /\ phase \in {"anchors", "chain"} => bundle.anchors # <<>>
  /\ phase \in {"certificates", "done"} =>
       \/ judged = Len(bundle.anchors) /\ bundle.anchors # <<>>
       \/ /\ results["timestamps"] # "pass"
          /\ bundle.anchors = <<>> \/ bundle.skipAnchors
  /\ results["timestamps"] = "pass" /\ results["content_integrity"] # "fail" =>
       1..judged \subseteq AttestedIn(bundle)
  /\ /\ ~bundle.skipAnchors /\ bundle.anchors # <<>>
     /\ 1..judged \subseteq PlainlyAttestedIn(bundle)
     => results["timestamps"] = "pass"
  /\ LatestIsTheLatestAttested

AnchorsInv == TypeOK /\ ClimbInv /\ JudgedInv

LEMMA ResultNames == "timestamps" \in Results /\ "content_integrity" \in Results
  BY DEF Results

\* A result that no check of this step is about is what it was; a failed one stays.
LEMMA CheckOfContent ==
  ASSUME NEW r \in Verdicts, NEW problem
  PROVE  /\ FailIf(problem, r, "content_integrity") \in Verdicts
         /\ FailIf(problem, r, "content_integrity")["timestamps"] = r["timestamps"]
         /\ FailIf(problem, r, "content_integrity")["content_integrity"] # "fail"
              => r["content_integrity"] # "fail"
         /\ problem => FailIf(problem, r, "content_integrity")["content_integrity"] = "fail"
  <1>1. FailIf(problem, r, "content_integrity") \in Verdicts
    BY ResultNames, FailIfType
  <1>2. FailIf(problem, r, "content_integrity")["timestamps"] = r["timestamps"]
    BY ResultNames, FailIfOther
  <1>3. Report(r, "content_integrity")["content_integrity"] = "fail"
    BY ResultNames, ReportFails
  <1>4. QED
    BY <1>1, <1>2, <1>3 DEF FailIf

\* After an anchor is judged the timestamps pass if they did, the judgement is good
\* and this verifier has roots.
LEMMA UnvouchedResults ==
  ASSUME TypeOK, NEW sound \in BOOLEAN
  PROVE  LET rs == Unvouched(FailIf(~sound, results, "timestamps")) IN
         /\ rs \in Verdicts
         /\ rs["content_integrity"] = results["content_integrity"]
         /\ rs["timestamps"] = "pass" <=>
              results["timestamps"] = "pass" /\ sound /\ bundle.trusted # None
  <1> DEFINE one == FailIf(~sound, results, "timestamps")
             rs == Unvouched(one)
  <1>1. results \in Verdicts /\ "unconfirmed" \in States
    BY DEF TypeOK, States
  <1>2. /\ one \in Verdicts /\ one["content_integrity"] = results["content_integrity"]
        /\ one["timestamps"] = "pass" => sound /\ results["timestamps"] = "pass"
        /\ sound => one = results
    <2>1. one \in Verdicts /\ one["content_integrity"] = results["content_integrity"]
      BY <1>1, ResultNames, FailIfType, FailIfOther
    <2>2. one["timestamps"] = "pass" => ~~sound /\ results["timestamps"] = "pass"
      BY <1>1, ResultNames, FailIfPasses
    <2>3. QED
      BY <2>1, <2>2 DEF FailIf
  <1> HIDE DEF one
  <1>3. /\ Unconfirmed(one, "timestamps") \in Verdicts
        /\ Unconfirmed(one, "timestamps")["timestamps"] # "pass"
        /\ Unconfirmed(one, "timestamps")["content_integrity"] = one["content_integrity"]
    <2>1. Unconfirmed(one, "timestamps")["content_integrity"] = one["content_integrity"]
      BY <1>2, ResultNames DEF Unconfirmed, Demote, Verdicts
    <2>2. QED
      BY <1>1, <1>2, <2>1, ResultNames, DemoteType, DemotedIsNoPass DEF Unconfirmed
  <1>4. /\ rs \in Verdicts /\ rs["content_integrity"] = results["content_integrity"]
        /\ rs["timestamps"] = "pass" <=>
             results["timestamps"] = "pass" /\ sound /\ bundle.trusted # None
    BY <1>2, <1>3 DEF Unvouched
  <1>5. QED
    BY <1>4 DEF one

\* A right judgement of one more anchor.
LEMMA SettleKeeps ==
  ASSUME TypeOK, JudgedInv, phase \in {"anchors", "chain"},
         judged < Len(bundle.anchors), ~Misplaced,
         NEW sound \in BOOLEAN, IsRight(bundle, judged + 1, sound), Settle(sound)
  PROVE  AnchorsInv'
  <1>1. /\ phase' = "anchors" /\ bundle' = bundle /\ judged' = judged + 1
        /\ latest' = Latest(sound)
        /\ results' = Unvouched(FailIf(~sound, results, "timestamps"))
    BY DEF Settle
  <1>2. /\ results' \in Verdicts
        /\ results'["content_integrity"] = results["content_integrity"]
        /\ results'["timestamps"] = "pass" <=>
             results["timestamps"] = "pass" /\ sound /\ bundle.trusted # None
    BY <1>1, UnvouchedResults
  <1>3. /\ judged \in Nat /\ Len(bundle.anchors) \in Nat
        /\ judged + 1 \in 1..Len(bundle.anchors)
        /\ 1..(judged + 1) = (1..judged) \cup {judged + 1}
        /\ Token.genTime \in Int /\ None \notin Int
        /\ Token.genTime = bundle.anchors[judged + 1].token.genTime
    BY AnchorFacts, AnchorsAssumption DEF IsToken, Token, Anchor
  <1>4. latest' \in Int \cup {None}
    BY <1>1, <1>3 DEF Latest, TypeOK
  <1>5. TypeOK'
    BY <1>1, <1>2, <1>3, <1>4 DEF TypeOK, Phases
  <1>6. ClimbInv'
    BY <1>1 DEF ClimbInv
  <1>7. PlainlyAttestedIn(bundle) \subseteq AttestedIn(bundle)
        /\ (judged + 1 \in AttestedIn(bundle) => bundle.trusted # None)
    BY DEF PlainlyAttestedIn, AttestedIn
  <1>8. LatestIsTheLatestAttested'
    <2>1. latest \in Int \cup {None} /\ LatestIsTheLatestAttested
      BY DEF TypeOK, JudgedInv
    <2>2. /\ latest' # None =>
               \E i \in (1..(judged + 1)) \cap AttestedIn(bundle) :
                 latest' = bundle.anchors[i].token.genTime
      BY <1>1, <1>3, <2>1 DEF Latest, LatestIsTheLatestAttested, IsRight
    <2>3. ASSUME NEW i \in (1..(judged + 1)) \cap PlainlyAttestedIn(bundle)
          PROVE  latest' # None /\ bundle.anchors[i].token.genTime <= latest'
      <3>1. CASE i = judged + 1
        <4>1. sound /\ bundle.trusted # None
          BY <1>7, <2>3, <3>1 DEF IsRight
        <4>2. QED
          BY <1>1, <1>3, <2>1, <3>1, <4>1 DEF Latest
      <3>2. CASE i # judged + 1
        <4>1. i \in (1..judged) \cap PlainlyAttestedIn(bundle)
          BY <1>3, <2>3, <3>2
        <4>2. latest # None /\ bundle.anchors[i].token.genTime <= latest
          BY <2>1, <4>1 DEF LatestIsTheLatestAttested
        <4>3. bundle.anchors[i].token.genTime \in Int
          <5>1. i \in DOMAIN bundle.anchors /\ bundle.anchors[i].token # None
            BY <4>1 DEF PlainlyAttestedIn, AttestedIn, Attested
          <5>2. BundleShape(bundle) /\ bundle.anchors[i] \in ToSet(bundle.anchors)
            BY <5>1, AnchorsAssumption DEF TypeOK, ToSet
          <5>3. QED
            BY <5>1, <5>2 DEF BundleShape, IsToken
        <4>4. QED
          BY <1>1, <1>3, <2>1, <4>2, <4>3 DEF Latest
      <3>3. QED
        BY <3>1, <3>2
    <2>4. QED
      BY <1>1, <2>2, <2>3 DEF LatestIsTheLatestAttested
  <1>9. QED
    BY <1>1, <1>2, <1>3, <1>5, <1>6, <1>7, <1>8 DEF JudgedInv, AnchorsInv, IsRight

\* Refusing an anchor is right too: it is not over a checkpoint, or is no token.
LEMMA RefuseKeeps ==
  ASSUME AnchorsInv, RefuseAnchor
  PROVE  AnchorsInv'
  <1>1. /\ phase = "anchors" /\ judged < Len(bundle.anchors) /\ Misplaced
        /\ results' = FailIf(TRUE, results, "content_integrity")
        /\ judged' = judged + 1
        /\ UNCHANGED <<bundle, phase, walk, latest, looked>>
    BY DEF RefuseAnchor, More, FailIf
  <1>2. TypeOK /\ JudgedInv /\ results \in Verdicts
    BY DEF AnchorsInv, TypeOK
  <1>3. /\ results' \in Verdicts /\ results'["content_integrity"] = "fail"
        /\ results'["timestamps"] = results["timestamps"]
    BY <1>1, <1>2, CheckOfContent
  <1>4. judged + 1 \notin AttestedIn(bundle)
    BY <1>1, <1>2, AttestedIsChecked
  <1>5. judged + 1 \notin PlainlyAttestedIn(bundle)
    BY <1>4 DEF PlainlyAttestedIn
  <1>6. /\ judged \in Nat /\ Len(bundle.anchors) \in Nat
        /\ judged + 1 \in 1..Len(bundle.anchors)
        /\ 1..(judged + 1) = (1..judged) \cup {judged + 1}
    BY <1>1, <1>2, AnchorFacts
  <1>7. TypeOK'
    <2>1. judged' \in 0..Len(bundle.anchors)
      BY <1>1, <1>6
    <2>2. QED
      BY <1>1, <1>2, <1>3, <2>1 DEF TypeOK
  <1>8. LatestIsTheLatestAttested'
    <2>1. (1..(judged + 1)) \cap AttestedIn(bundle) = (1..judged) \cap AttestedIn(bundle)
      BY <1>4, <1>6
    <2>2. (1..(judged + 1)) \cap PlainlyAttestedIn(bundle)
            = (1..judged) \cap PlainlyAttestedIn(bundle)
      BY <1>5, <1>6
    <2>3. QED
      BY <1>1, <1>2, <2>1, <2>2 DEF JudgedInv, LatestIsTheLatestAttested
  <1>9. JudgedInv'
    <2>1. ~(1..(judged + 1) \subseteq PlainlyAttestedIn(bundle))
      BY <1>5, <1>6
    <2>2. QED
      BY <1>1, <1>2, <1>3, <1>8, <2>1 DEF JudgedInv
  <1>10. QED
    BY <1>1, <1>7, <1>9 DEF AnchorsInv, ClimbInv

\* Whatever a token embeds and whoever signed it, each anchor is judged as it is.
LEMMA NextKeeps ==
  ASSUME AnchorsInv, [Next]_vars
  PROVE  AnchorsInv'
  <1>1. /\ TypeOK /\ ClimbInv /\ JudgedInv /\ results \in Verdicts
        /\ judged \in 0..Len(bundle.anchors)
    BY DEF AnchorsInv, TypeOK
  <1>2. CASE SkipAnchors
    <2>1. "not_checked" \in States /\ "not_checked" # "pass"
      BY DEF States
    <2>2. /\ results' = Demote(results, "timestamps", "not_checked")
          /\ results' \in Verdicts /\ results'["timestamps"] # "pass"
      BY <1>1, <1>2, <2>1, ResultNames, DemoteType, DemotedIsNoPass
      DEF SkipAnchors, NotChecked
    <2>3. TypeOK'
      BY <1>1, <1>2, <2>2 DEF SkipAnchors, TypeOK, Phases
    <2>4. JudgedInv'
      BY <1>1, <1>2, <2>2 DEF SkipAnchors, JudgedInv, LatestIsTheLatestAttested
    <2>5. QED
      BY <1>2, <2>3, <2>4 DEF SkipAnchors, AnchorsInv, ClimbInv
  <1>3. CASE BeginAnchors \/ EndAnchors
    <2>1. TypeOK' /\ ClimbInv'
      BY <1>1, <1>3 DEF BeginAnchors, EndAnchors, TypeOK, Phases, ClimbInv
    <2>2. JudgedInv'
      BY <1>1, <1>3 DEF BeginAnchors, EndAnchors, JudgedInv, LatestIsTheLatestAttested
    <2>3. QED
      BY <2>1, <2>2 DEF AnchorsInv
  <1>4. CASE ReadFails
    BY <1>1, <1>4 DEF ReadFails, AnchorsInv, TypeOK, Phases, ClimbInv, JudgedInv,
                      LatestIsTheLatestAttested
  <1>5. CASE RefuseAnchor
    BY <1>5, RefuseKeeps
  <1>6. CASE JudgeToken
    <2>1. (~GivesUp(Token) /\ ~HeadProblem(Token, Anchor.checkpoint) /\ Roots = None)
            \in BOOLEAN
      OBVIOUS
    <2>2. phase = "anchors" /\ judged < Len(bundle.anchors) /\ ~Misplaced
      BY <1>6 DEF JudgeToken, More
    <2>3. QED
      BY <1>1, <1>6, <2>1, <2>2, JudgedRight, SettleKeeps DEF JudgeToken
  <1>7. CASE BeginChain
    <2>1. ClimbInv'
      BY <1>1, <1>7, BeginKeepsClimb
    <2>2. TypeOK' /\ JudgedInv'
      BY <1>1, <1>7 DEF BeginChain, More, TypeOK, Phases, JudgedInv,
                        LatestIsTheLatestAttested
    <2>3. QED
      BY <2>1, <2>2 DEF AnchorsInv
  <1>8. CASE EndlessChain \/ BreakChain
    <2>1. phase = "chain" /\ judged < Len(bundle.anchors) /\ ~Misplaced
      BY <1>1, <1>8 DEF EndlessChain, BreakChain, Climbing, ClimbInv
    <2>2. Settle(FALSE) /\ IsRight(bundle, judged + 1, FALSE)
      BY <1>1, <1>8, <2>1, NoChain DEF EndlessChain, BreakChain
    <2>3. QED
      BY <1>1, <2>1, <2>2, SettleKeeps
  <1>9. CASE EndChain
    <2>1. phase = "chain" /\ judged < Len(bundle.anchors) /\ ~Misplaced
      BY <1>1, <1>9 DEF EndChain, Climbing, ClimbInv
    <2>2. (walk.sound /\ walk.cert \in ToSet(Roots)) \in BOOLEAN
      OBVIOUS
    <2>3. QED
      BY <1>1, <1>9, <2>1, <2>2, ChainEndsRight, SettleKeeps DEF EndChain
  <1>10. CASE ClimbChain
    <2>1. ClimbInv'
      BY <1>1, <1>10, ClimbKeepsClimb
    <2>2. TypeOK' /\ JudgedInv'
      BY <1>1, <1>10 DEF ClimbChain, TypeOK, JudgedInv, LatestIsTheLatestAttested
    <2>3. QED
      BY <2>1, <2>2 DEF AnchorsInv
  <1>11. CASE LookAtCertificate
    <2>1. /\ results' \in Verdicts /\ results'["timestamps"] = results["timestamps"]
          /\ results'["content_integrity"] # "fail" => results["content_integrity"] # "fail"
      BY <1>1, <1>11, CheckOfContent DEF LookAtCertificate
    <2>2. QED
      BY <1>1, <1>11, <2>1 DEF LookAtCertificate, AnchorsInv, TypeOK, ClimbInv, JudgedInv,
                               LatestIsTheLatestAttested
  <1>12. CASE Finish
    BY <1>1, <1>12 DEF Finish, AnchorsInv, TypeOK, Phases, ClimbInv, JudgedInv,
                       LatestIsTheLatestAttested
  <1>13. CASE UNCHANGED vars
    <2>1. TypeOK' /\ JudgedInv'
      BY <1>1, <1>13 DEF vars, TypeOK, JudgedInv, LatestIsTheLatestAttested
    <2>2. ClimbInv'
      BY <1>1, <1>13 DEF vars, ClimbInv, Misplaced, Anchor, Token, Roots, Pool, Depth
    <2>3. QED
      BY <2>1, <2>2 DEF AnchorsInv
  <1>14. QED
    BY <1>2, <1>3, <1>4, <1>5, <1>6, <1>7, <1>8, <1>9, <1>10, <1>11, <1>12, <1>13
    DEF Next

LEMMA InitKeeps == Init => AnchorsInv
  <1> SUFFICES ASSUME Init PROVE AnchorsInv
    OBVIOUS
  <1>1. NewResults \in Verdicts /\ NewResults["timestamps"] = "pass"
    BY ResultNames DEF NewResults, Verdicts, States
  <1>2. results \in Verdicts /\ results["timestamps"] = "pass"
    <2>1. FailIf(TRUE, NewResults, "content_integrity")
            = Report(NewResults, "content_integrity")
      BY DEF FailIf
    <2>2. /\ Report(NewResults, "content_integrity") \in Verdicts
          /\ Report(NewResults, "content_integrity")["timestamps"] = "pass"
      BY <1>1, <2>1, CheckOfContent
    <2>3. QED
      BY <1>1, <2>2 DEF Init
  <1>3. Len(bundle.anchors) \in Nat
    <2>1. bundle.anchors \in Seq(ToSet(bundle.anchors))
      BY AnchorsAssumption DEF Init, BundleShape
    <2>2. QED
      BY <2>1
  <1>4. TypeOK
    BY <1>2, <1>3 DEF Init, TypeOK, Phases
  <1>5. 1..judged = {} /\ JudgedInv
    BY <1>2 DEF Init, JudgedInv, LatestIsTheLatestAttested
  <1>6. QED
    BY <1>4, <1>5 DEF Init, AnchorsInv, ClimbInv
-----------------------------------------------------------------------------
(* What a run is evidence of.                                              *)

\* The inductive invariant: the walk of each chain strays from no path to a root, and
\* the results and the time handed on are those of the anchors judged so far.
THEOREM AnchorsInvariant == Spec => []AnchorsInv
  <1>1. AnchorsInv /\ [Next]_vars => AnchorsInv'
    BY NextKeeps
  <1>2. QED
    BY <1>1, InitKeeps, PTL DEF Spec

\* Timestamps that pass in a run that passes (anchors.go) are attested, every one of
\* them, under a root this verifier carries: for every token, whatever certificates
\* it embeds and however they name one another.
THEOREM PassesAreAttested == Spec => []PassIsAttested
  <1>1. AnchorsInv => PassIsAttested
    <2> SUFFICES ASSUME AnchorsInv, phase = "done", ExitCode(results) = ExitPass,
                        results["timestamps"] = "pass"
                 PROVE  bundle.anchors # <<>> /\ AttestedIn(bundle) = DOMAIN bundle.anchors
      BY DEF PassIsAttested
    <2>1. TypeOK /\ JudgedInv
      BY DEF AnchorsInv
    <2>2. results["content_integrity"] # "fail"
      BY ResultNames DEF ExitCode, Some, ExitPass, ExitFail
    <2>3. /\ judged = Len(bundle.anchors) /\ bundle.anchors # <<>>
          /\ 1..judged \subseteq AttestedIn(bundle)
      BY <2>1, <2>2 DEF JudgedInv
    <2>4. bundle.anchors \in Seq(ToSet(bundle.anchors))
      BY <2>1, AnchorsAssumption DEF TypeOK, BundleShape
    <2>5. DOMAIN bundle.anchors = 1..judged
      BY <2>3, <2>4
    <2>6. QED
      BY <2>3, <2>5 DEF AttestedIn
  <1>2. QED
    BY <1>1, AnchorsInvariant, PTL

\* The time handed on to the checks after it (latestAnchorAt, anchors.go) is the latest
\* that a root this verifier carries vouches for.
THEOREM LatestIsAttested == Spec => []LatestIsTheLatestAttested
  <1>1. AnchorsInv => LatestIsTheLatestAttested
    BY DEF AnchorsInv, JudgedInv
  <1>2. QED
    BY <1>1, AnchorsInvariant, PTL

\* The chain walk (validate.go) finds a chain where there is one that the names of
\* the certificates lead to, in whatever order a token embeds them.
THEOREM AttestedAreAccepted == Spec => []AttestedAnchorsPass
  <1>1. AnchorsInv => AttestedAnchorsPass
    <2> SUFFICES ASSUME AnchorsInv, phase = "done", ~bundle.skipAnchors,
                        bundle.anchors # <<>>,
                        PlainlyAttestedIn(bundle) = DOMAIN bundle.anchors
                 PROVE  results["timestamps"] = "pass"
      BY DEF AttestedAnchorsPass
    <2>1. TypeOK /\ JudgedInv
      BY DEF AnchorsInv
    <2>2. bundle.anchors \in Seq(ToSet(bundle.anchors))
      BY <2>1, AnchorsAssumption DEF TypeOK, BundleShape
    <2>3. judged = Len(bundle.anchors)
      BY <2>1 DEF JudgedInv
    <2>4. 1..judged = DOMAIN bundle.anchors
      BY <2>2, <2>3
    <2>5. QED
      BY <2>1, <2>4 DEF JudgedInv
  <1>2. QED
    BY <1>1, AnchorsInvariant, PTL
=============================================================================
