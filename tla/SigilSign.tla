----------------------------- MODULE SigilSign -----------------------------
(***************************************************************************)
(* The cross-checks of documents.json, signatures.json and links.json      *)
(* (src/verify/sigilsign.go).  The events are read a second time for them: *)
(* an event is [seq, action, signing, payload], signing being the id of a  *)
(* signing: resource, and payload None when it was redacted, otherwise     *)
(* [sha, email, mark].  A sequence that a file states is None when it is   *)
(* null, and Malformed when it is anything else that is not an integer.    *)
(***************************************************************************)
EXTENDS BundleFiles, Sequences, Integers, FiniteSetsExt

\* A sequence that comes twice is known by its last event.
EventNumbered(events, sequence) ==
  LET places == {i \in DOMAIN events : events[i].seq = sequence}
  IN IF sequence \in {None, Malformed} \/ places = {} THEN None ELSE events[Max(places)]

\* The hash an event carries is another; a redacted payload carries none.
OtherHash(event, sha) == event.payload # None /\ event.payload.sha # sha

VersionProblem(version, events) ==
  LET published == EventNumbered(events, version.sequence)
  IN \/ published = None
     \/ published.action # "document.published"
     \/ OtherHash(published, version.sha)

\* The payload of the last event of that action by a signer in a signing.
LastBy(signing, email, action, events) ==
  LET places == {i \in DOMAIN events :
                   /\ events[i].signing = signing /\ events[i].action = action
                   /\ email # None
                   /\ events[i].payload # None /\ events[i].payload.email = email}
  IN IF places = {} THEN None ELSE events[Max(places)].payload

Signed(record, email, events) == LastBy(record.id, email, "signature.signed", events)
Viewed(record, email, events) == LastBy(record.id, email, "signature.viewed", events)

Emails(events) ==
  {events[i].payload.email : i \in {j \in DOMAIN events : events[j].payload # None}}
    \ {None}

\* A plausible bug: the signed hash is compared with the viewed one alone.
SignedOtherThanViewed(record, email, events) ==
  LET signed == Signed(record, email, events)
      viewed == Viewed(record, email, events)
  IN signed # None /\ viewed # None /\ viewed.sha # signed.sha

\* A signer signed something other than the record's document, or than viewed.
SignedOtherwise(record, email, events) ==
  LET signed == Signed(record, email, events)
      viewed == Viewed(record, email, events)
  IN /\ signed # None
     /\ \/ record.sha # None /\ signed.sha # record.sha
        \/ viewed # None /\ viewed.sha # signed.sha

\* The e-mail a record states of a signer: the empty one when it states none.
Stated(email) == IF email = None THEN "" ELSE email

\* The record says of one that they signed: an event must, with the same mark.
ClaimProblem(record, signer, events) ==
  LET signed == Signed(record, Stated(signer.email), events)
  IN /\ signer.status = "signed"
     /\ \/ signed = None
        \/ signer.mark # None /\ signed.mark # None /\ signed.mark # signer.mark

SignatureProblem(record, events) ==
  \/ record.id = None
  \/ ~\E i \in DOMAIN events : events[i].signing = record.id
  \/ \E email \in Emails(events) : SignedOtherwise(record, email, events)
  \/ \E i \in DOMAIN record.signers : ClaimProblem(record, record.signers[i], events)

FactProblem(link, sequence, action, events) ==
  LET event == EventNumbered(events, sequence)
  IN \/ event = None
     \/ event.action # action
     \/ link.sha # None /\ OtherHash(event, link.sha)

LinkFactProblem(link, events) ==
  \/ FactProblem(link, link.linked, "document.linked", events)
  \/ /\ link.unlinked # None
     /\ FactProblem(link, link.unlinked, "document.unlinked", events)

SigilSignProblem(b) ==
  \/ ListProblem(b.documents, LAMBDA v : VersionProblem(v, b.events))
  \/ ListProblem(b.signatures, LAMBDA s : SignatureProblem(s, b.events))
  \/ ListProblem(b.links, LAMBDA l : LinkFactProblem(l, b.events))
=============================================================================
