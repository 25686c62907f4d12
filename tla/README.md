# A TLA+ verification project for the Sigilbase verifier

`sigilbase-verify` checks an evidence bundle - a zip or a directory exported from
a Sigilbase stream - without trusting whoever hands it over. It is one sequential
Go program, built to agree check for check with `verify.php`. There are no threads,
no network and no persistent state: what makes it hard is that it reads an input
anyone may have altered, in one streaming pass, and that its verdict is put
together from dozens of checks that carry state from line to line, from file to
file and from the first bundle to the second. That is what is modelled here: the
input is the nondeterminism, the passes over it are the actions, and the
properties say what a verdict is evidence of.

## Inventory

| Component | State it keeps | Operations | What makes it correct |
| --- | --- | --- | --- |
| Run and results (`verify/report.go`, `run.go`, `verify.go`) | five results, failures, notes, the first reason | `demote`, `report`, `unconfirmed`, `reasonFail`, `finish`, `finishHard`, `exitCode` | the verdict is a function of the set of findings, never of their order; no failure is lost |
| Merkle tree (`internal/merkle`) | hash stack; proof collector with its cursor | `Append`, `Root`, `Reset`, `ConsistencyProof`, `ConsistencyVerify`, `NewCollector`, `Nodes` | streamed = rebuilt; a proof verifies exactly for a true prefix |
| Bundle walk (`verify/walk.go`) | expected sequence, previous hash, absences, open tree, closed trees, captured roots | manifest, redactions, checkpoint ranges, one step per event line, one per checkpoint | a verified bundle is the sealed log over its range; an honest one verifies |
| Trusted keys (`verify/keys.go`) | the trusted set | `lookup`, `windowProblems` | a key vouches only inside its window, and the trusted set's window wins |
| Declarations (`verify/declarations.go`) | the authenticated set, in order of insertion | one step per line, the sealing of the set, one step per absence | an absence is accepted only against a sealed declaration of it; a declared absence always is |
| Consistency (`verify/consistency.go`) | captured roots, recorded states, the proof being collected | consistency.json, `--consistency`, recorded states | a later export extends the earlier one, and one that does is found to |
| Anchors, certificates (`verify/anchors.go`) | latest verified anchor | one step per anchor | an anchor counts only when its token verifies over a checkpoint of this bundle |
| Timestamp tokens (`internal/tst`) | the certificate chain being walked | decode, message checks, chain validation | a chain ends in a trusted root, without loops |
| Collection records (`verify/collection.go`) | per stream: last receipt, index, cursor, gaps, settled days | one step per record | receipts form one chain; every gap is declared once and healed properly |
| Receipts and registry (`verify/receipts.go`) | registry log, policy history, acceptances, the order of the checks | check a receipt, read the registry log, reconcile | a registry that strays is blamed, one that is only late to be seen is not |
| SigilSign records (`verify/sigilsign.go`) | the events, read again | cross-checks of documents.json, signatures.json, links.json | every stated fact is in the events, a signer's last signing decides |
| Bundle reader (`internal/bundle`) | line buffer | open, read whole, next line | lines come whole and in order wherever the reads fall; one over the cap stops the run |
| JSON and PHP values (`internal/cjson`, `phpcompat`, `verify/phpvalue.go`) | none | parse, canonicalise, convert | agreement with PHP |
| Ed25519 (`internal/edsig`) | none | verify | a primitive, assumed |
| Command line (`cmd/sigilbase-verify`) | options | dispatch to a mode | one mode per set of options, one exit code per run |

Components interact by calls and by three shared objects: the `run` (results and
messages, written by every component), the maps the walk leaves behind (absences,
retained entry hashes, checkpoint hashes, captured roots), which the later checks
read, and the files of the bundle, some of which are read twice. Verify mode walks
one bundle; `--consistency` walks two; the registry modes walk a bundle and then
read its events again.

Hard behaviours, in order of weight: a stream whose lines may be deleted,
repeated, exchanged or altered while state is carried across them; ranges at the
ends of the 64-bit integers; trees cut at checkpoint boundaries that may never
arrive; absences collected early and judged late; demotions from many checks in
any order, and stops in mid run; two exports taken at different times. PROJECT.json lists each hazard at its line.

## Modules

| Module | Models | How |
| --- | --- | --- |
| `Verdict` | `report.go`, `run.go` | the five results, their ranks, `demote`, `report`, `unconfirmed`, `exitCode` as operators |
| `RunResults` | `run.go`, reasons of `receipts.go` | what a run keeps of its checks: the results and the two reasons |
| `RunState` | `run.go`, reasons of `receipts.go`, `finish`/`finishHard` | a run as a state machine in which any check may speak at any moment |
| `Merkle` | `internal/merkle` | tree, stack, proof generation, verification and collector; where the code recurses, a recursive function over the runs of leaves or the nodes of a proof |
| `MerkleStream` | the Merkle state of the walk | one action per leaf and per checkpoint closed; the leaves are kept in auxiliary variables only. Its specification is `StreamSpec`, so that one module can be about these trees and about runs |
| `MerkleHash` | the hash and the audit path of `internal/merkle` | operators, which declarations need of the tree |
| `Seals` | `checkpointPreimage`, the signature check, `windowProblems` | what makes a checkpoint a seal, for the walk and for declaration proofs |
| `BundleWalk` | `walk.go` up to the end of the checkpoint pass, `lookup` | one action per line kind, per checkpoint, and for the ends of both passes |
| `SealedRange` | what a verdict means | extends `BundleWalk` with the sealed log and its seals as constants |
| `MCSealedRange` | - | a log of three events under two seals and bundles that claim to export it |
| `Collection` | `collection.go` | for each kind of record what is reported and what is remembered, and connection.json |
| `CollectionPass`, `MCCollectionPass` | the pass of `collection.go` | one action per record, the end of the file, a file that cannot be read |
| `ReceiptStream` | external: a connection, from what `collection.go` asks of its records | a generator of honest receipt streams, exported from anywhere, with payloads redacted |
| `Declarations`, `MCDeclarations` | `declarations.go`, `declarationSequencesInRange` | one action per line, the sealing of the set, one action per absence |
| `CertChain` | `internal/tst/validate.go`, `cert.go` | the token checks, the issuer rules, the choice of an issuer; `IsChain` is the reference definition of a chain |
| `Anchors`, `MCAnchors` | `anchors.go`, the chain walk of `validate.go` | one action per anchor that is refused or judged, per certificate climbed, per way a chain ends, per certificate of evidence |
| `LineText`, `LineSplitter` | the promise of `internal/bundle/lines.go` | a file given out as its lines, without a buffer: the abstract specification |
| `Lines`, `MCLines` | `lines.go` over `bufio.Reader` | one action per way a chunk can end, reads of any size; implements `LineSplitter` |
| `RegistryLog` | `receipts.go`: the registry log, policies, windows, seals | what is read back from verified bundles, as operators and folds |
| `ReceiptCheck` | `receipts.go`: a receipt and its subject | every check a finding with its result and reason code |
| `Reconcile` | `receipts.go`: `Reconcile` | one action for the log, one for all the rules, heard in their order, and one per receipt |
| `ReceiptMode` | `receipts.go`: `Receipt` | the bundles given, taken for what they are, then the receipt |
| `Registry` | external: the service, from what `receipts.go` asks of it | decides, logs, seals, closes windows, and may stray |
| `RegistryAudit`, `MCRegistryAudit` | the two together | exports at any two checkpoints, then `Reconcile` or `ReceiptMode` |
| `BundleFiles`, `SigilSign` | `sigilsign.go` | the files and the cross-checks as operators |
| `Consistency` | `consistency.go` | the comparisons as operators over `Merkle` |
| `VerifierRun`, `MCVerifierRun` | `main.go`, `verify.go`, the modes of `consistency.go` | dispatch, one walk after the other, the end of each mode |
| `VerdictProofs`, `AuditProofs`, `SealedRangeProofs`, `LinesProofs`, `DeclarationsProofs`, `CollectionProofs`, `AnchorsProofs`, `VerifierRunProofs` | - | theorems and proofs |

`RunResults`, `BundleWalk`, `Collection`, `Declarations` and `Anchors` extend `Verdict`, and so
speak to the same five results; `RunState` and `ReceiptCheck` extend `RunResults`; `BundleWalk` and `Declarations` extend `Seals`;
`Declarations` and `Merkle` extend `MerkleHash`; `SealedRange` extends
`BundleWalk`, `CollectionPass` and `ReceiptStream` extend `Collection`,
`MerkleStream` extends `Merkle`. The walk uses the sequence of leaves where the
code has the root of the tree over them; that the streamed root is the root of
exactly those leaves is what `MerkleStream` checks and `VerifierRunProofs` proves.

Three modules compose others. `RegistryAudit` runs the service of `Registry`, lets
both of its streams be exported and runs `Reconcile` or `ReceiptMode` on the
exports. `VerifierRun` runs the whole program over `SigilSign`, `Consistency`,
`Merkle` and `Verdict`, from the options to the exit code. `SealedRange` holds
the walk against the log it claims to show.

### The walk and its state

`bundle` is a record of what the files say; its `lines` are the lines its
`events.ndjson` may consist of. `ReadEvent`, `ReadGarbage` and `ReadUnnumbered`
each read one of them, so a single bundle record covers every file that can be
put together from those lines, in any order, with any repeated or left out. The
variables are the locals of `verifyBundle`: `expected`, `prevHash`, `eventCount`,
`redactedCount`, `absent` (absentSequences with absenceKinds), `entryHashAt`,
`cumulative` and `open` (the two stacks), `trees` (rebuiltRootFor and
checkpointLeavesFor, by index; `TreeFrom` gives them by first sequence as the
maps do), `rootAt`, and in the second pass `prevCheckpoint`, `expectedFrom`,
`checkpointHashes`. `read` is auxiliary. A `hardError` is the phase `"hard"`.

Abstractions: a SHA-256 hash is the record of the fields it was computed over, so
hashes collide only when their preimages agree; the fields of an event that enter
only its entry preimage are folded into `payload_hash`; hex is compared without
case; a payload or entry that cannot be canonicalised is a payload or entry
problem like any other; `MaxInt` stands for 2^63 - 1 and sums wrap around at it;
the sequences whose entry hashes are retained and the extra tree sizes (from
declarations.ndjson, consistency.json and the command line) are the fields
`retain` and `wanted` of the bundle.

### The later passes

`CollectionPass` starts where the walk ends: its events have the sequence and the
entry hash of their place, which is what the walk has established of a file whose
content integrity stands. `streams` is the map of `collectionStream`s; a gap's
`known` is whether its bounds are known, `configs` is kept as a boolean. The
fields of a record that are checked on their own and not remembered (versions,
counts, dates, methods) are one flag, `sound`. `AfterRecord` says what is
remembered and `RecordProblem` what is reported, because the code remembers
records that it reports.

`Declarations` has what the walk left as constants of the bundle: the chain's
entry hashes (`chain`) and the absences (`absent`). `Retained` is the read of
declarations.ndjson before the walk, the actions are the read after it; a
declaration's hash is the record of its hashed fields, and targets are sets of
runs. `walked` are the results the walk left. `Genuine` is the set of declarations
that Sigilbase made, and `ChainAssumption` says what makes a record one of them: it
is in the walked chain and the walk vouches for that chain (content integrity,
signing identity and scope all pass), or it is under a root that a trusted key
signed inside its window. Of a chain or a root sealed by any other key nothing is
assumed, and four bundles of the run bring a chain with a declaration that
Sigilbase never made.

In `Anchors` a certificate is a record of what the walk reads of it, a signature is
the key that made it, and a token is the record of its fields; a token that cannot
be decoded, or whose hash is not the recorded one, is `None`. `walk` holds
`current`, `seen` and whether failures were collected before the chain; `depth` is
the number of certificates seen. Where the code returns the list of its failures
the model keeps whether it is empty, since every failure demotes the same result.
A `ca_pem` or a set of roots is `None` when absent and a sequence otherwise, which
is empty when there is no certificate in it.

### Lines

`Lines` has the state of the reader (`line`, `number`, `done`), of the
`bufio.Reader` under it (`buffer`, whose size is `BufferSize`) and of the file
(`unread`, `intact`). `Call` is the caller's loop, `Fill` a read of any size, and
`EndLine`, `Continue`, `EndOfFile`, `ReadError` and `TooLongLine` the ways a
chunk ends `Next`'s loop or keeps it going. `LineSplitter` knows neither buffer
nor reads: it gives out the lines of a file, and refuses a line for its length.
The refinement maps its `rest` to what is held in the line being put together,
in the buffer and in the file.

### The registry and its audit

`Registry` is the service: `requests` is the history of what was asked, what was
due and what was told; `events` and `records` are its two streams, each with its
seals; `signed` are the receipts handed out. It decides a request, keeps its
streams' seals and window closings within their limits, and may deviate
`MaxDeviations` times: decide wrongly, keep a decision or an event back, tell a
lie about a window, miss a deadline. A tick of the clock never passes a deadline
that is not yet met, except as a deviation; that is a guard, not fairness.

`RegistryAudit` ends the history, exports each stream up to one of its
checkpoints - so the two exports may be of different times, either of them the
older - and hands them with the receipts, some or all of them, or one altered, to
`Reconcile` or `ReceiptMode`. In `Reconcile` the actions follow the order of
`receipts.go`: both bundles, the log, the rules, the receipts in order; `read` is
the result of `readRegistryLog`.

What is assumed or left out: times are whole numbers and `NoTime` is one that does
not parse; a checkpoint is made strictly after its last record; an anchor is taken
while its checkpoint is its stream's last, or within the grace for sealing. The
counts and notes of the report are left out, and so are the unconfirmed results
that the bundles bring along (`run_state` is about those). A bundle that does not
verify has demoted the results its own checks are about: `BundleFails` demotes any
one of the five, which stands for them. A bundle, a receipt or a directory of
receipts that cannot be read ends the run without a verdict (`Unreadable`,
`InputUnreadable`). Only the last receipt
of a history is shown to `ReceiptMode`, and no history with upkeep: a receipt is
not held to the policy, and an earlier one is the last of a shorter history. Of
an accepted receipt the code holds only the event's seal to the deadline, so
`Kept` promises no more. The same thing asked twice in one second may get the same
receipt twice; `Answered` is the set of requests it may be for.

### A whole run

`VerifierRun` has the options (`args`), the bundles walked so far (`walked`), the
Merkle state of the walk at hand (`at`, `cumulative`, `collector`, `roots`), the
results and the exit code. `Dispatch` chooses the mode as `main.go` does: `--help`
comes first and exits 0 having verified nothing; `--root` and `--size` are
ignored without `--consistency`. The registry's modes end in the phase
`"elsewhere"`, because `RegistryAudit` is about them. `WalkEvent` is what the
streaming pass does for trees; what all other checks of `verifyBundle` find is
one input, the bundle's `trouble`. That is sound because they only demote results
or stop the run, and `VerifiedIsSealed` is what allows the events of a bundle
without trouble to be taken for its chain: `BundleShape` gives a bundle without
trouble events, one for each sequence of its range, and `FileShape` gives the
sizes in consistency.json the integers they are cast to. `NoCollector` stands for
a walk that was not asked for a proof. The SigilSign checks and consistency.json come after
the walk, in the order of the code, then the comparison of the mode. A
`consistency.json` that is no object is ignored, as in the code. A redacted
`signature.signed` event makes a record that claims the signature fail, while
a redacted document or link is only noted. A record that states no e-mail of a
signer is held against the event of the empty one, as the code's cast does
(`Stated`), and a sequence that is stated but is no integer names no event.

## Runs

| Run | Bounds | Shows |
| --- | --- | --- |
| `run_state` | three findings, two reason codes | verdict, exit code and reason are those the findings call for, in every order |
| `merkle_stream` | trees of up to 17 leaves, every pair of proof sizes, a reset after any leaf | streamed roots and collected proofs are the rebuilt ones; only true prefixes verify |
| `sealed_range` | a sealed log of three events under two seals, files of up to four lines, 39 bundles, among them ones sealed before and after the trusted key's window, `MaxInt` = 4 | what verifies is sealed; what is honest verifies; no counter leaves 64 bits |
| `collection_pass` | five records of two streams, from a set with sound and unsound ones of each kind, ranges from 1 and from 3 | what passes is one receipt chain, settlements that say what the chain before them says, one chain of settlements per day |
| `receipt_stream` | streams of up to seven events, one gap, one day, exports from every event on | no export of an honest stream is refused |
| `redacted_settlement` | streams of up to four events | expected violation: see Findings |
| `declarations` | files of up to four lines, in any order and with repetitions, 22 bundles, sealed by trusted keys, by others or in a chain of somebody else's | an absence is accepted only against a sealed declaration of it; a declared one always is |
| `identity_of_proofs` | as `declarations` | expected violation: see Findings |
| `anchors` | chains of up to five certificates in every order, `MaxDepth` = 4 (8 in the code), four sets of the verifier's roots, up to two anchors and two certificates of evidence | timestamps that pass are attested under the verifier's own roots; attested ones pass; every run ends, whatever circles the certificates form |
| `lines` | every file of up to five bytes out of three kinds, read errors at any point, reads of any size, a limit of three bytes, a buffer of two | `Lines` implements `LineSplitter`; memory is bounded by the limit |
| `registry_audit` | two requests of three kinds, at most one deviation, three decisions or upkeep steps, times 0 to 5, seals at 2 and 4, exports at any two checkpoints | a deviation is found out; an honest service is never blamed; "export again" is said only while it can help; a receipt holds exactly when it was kept |
| `verifier_run` | exports of logs of up to five events that diverge anywhere, every combination of options with up to three bundles, consistency.json files right and wrong, streams of up to three signing events | the exit code says an export extends another exactly when it does; stated facts are in the chain |

Why the bounds are enough. Three findings let two of one result disagree while a
third comes before, between or after them. Seventeen leaves give trees below, at
and above four powers of two and carries through four levels. Three events under
two checkpoints of two and one events let a deletion fall before, at and after a
boundary; a fourth line leaves room for an insertion. `MaxInt` = 4 makes ranges at
both ends of the integers as cheap as any. Five records fit a configuration, two
receipts and a gap with its healing or a settlement with its supplement; seven
events fit a whole day with its gap healed between settlement and supplement.
Four declarations fit an original, its supplement, one that contradicts them and
one that is not sealed. A chain of five certificates is one more than `MaxDepth`
4 lets the walk look at, with two path lengths that differ by one; two anchors are
enough for the latest time to come before or after another. With a limit of
three bytes and a buffer of two a line can end in the buffer, at its end or past
it, be one byte at and one over the limit, and carry CRs across a read. Times up
to 5 with a seal delay of 2 and graces of 1 let every deadline fall before, at and
after each of the times an export is complete; two requests are enough for one to
be in one export and not in the other, for a key to be accepted twice and for a
receipt to be that of another request. Five events give trees with one, two and
three subtrees and every pair of sizes for a proof.

`CHECK_DEADLOCK FALSE` in the runs other than `merkle_stream`: a run of the program
ends, a stream reaches its bound.

Fairness is stated in two modules, weak fairness of the whole next-state relation
in both. `Lines`: one thread runs the loop, a read of a file returns and returns
something, so `SplitsLines` includes that every file is in the end read through
or refused. `Anchors`: one thread, and every check of a certificate returns, so
`VerdictIsReached` says that the chain walk ends for each anchor although
certificates may name each other in a circle. Elsewhere a pass takes each line of a finite
file once and termination is no question; those specifications state no fairness.

### Properties

* `VerdictIsOrderFree`, `ExitCodeAccountsForEveryFinding`, `ReasonIsFirstFailure`: see `RunState`.
* `StreamedRootIsTreeRoot`, `OneSubtreePerBit`, `CollectedProofIsTheProof`, `OnlyATruePrefixVerifies`: see `MerkleStream`.
* `CleanWalkIsOneChain`: while nothing is reported the lines read are one stretch of one hash chain.
* `ClosedTreeIsItsRange`: each closed tree is over exactly the events of its range that arrived, whichever are missing.
* `AbsencesAreAccountedFor`: the absences handed on are exactly the lines without a payload.
* `CapturedRootIsOfItsSize`: a captured cumulative root is of exactly that many leaves.
* `NothingWrapped`: no overflow takes part in a verdict that passes, for bundles without a checkpoint that runs backwards (see Findings).
* `VerifiedIsSealed`: the promise - a verified bundle shows the sealed log, whole, over the range it names.
* `HonestExportVerifies`: the converse - no false alarm on an honest export.
* `ReceiptsAreOneChain`, `SettlementsTellTheTruth`, `SupplementsAreOneChain`: what a pass over collection records is evidence of. In a range from 1 the first settlement of a day is supplement 0, or names one before sequence 1 (see Findings).
* `HonestExportPasses`: the converse, for every stretch of an honest stream.
* `AbsencesAreDeclared`: an absence that is accepted was declared, by a declaration of the right ceremony, after the event, that is sealed in the walked chain or by an audit path to a signed checkpoint - and that Sigilbase made, where trusted keys did the sealing. What only a key outside the trusted set sealed is believed (see Findings).
* `HonestAbsencesPass`: the converse - whatever the order of the file and however each declaration is sealed, a declared absence is accepted.
* `PassIsAttested`: timestamps that pass in a run that passes mean that every anchor is a token over a checkpoint of this bundle with a chain, in the sense of RFC 5280, to a root this verifier carries.
* `LatestIsTheLatestAttested`: the time handed on is the latest such anchor's, never one that only the bundle's roots vouch for.
* `AttestedAnchorsPass`: the converse of `PassIsAttested`, where no two certificates share a name.
* `VerdictIsReached`: every run ends with every anchor judged and every certificate looked at, unless a file cannot be read.
* `SplitsLines`: a caller is given the lines of the file wherever the reads fall; a line is refused for its length alone, and named by its number; with `TypeOK` of `Lines`, that no line takes more memory than the limit.
* `HonestRegistryIsNotBlamed`: a service that does what it should fails no reconciliation, at whatever times its streams are exported.
* `PassAccountsForEveryRequest`: what a reconciliation that passes is evidence of - decisions as they were due, acceptances and events the same, receipts logged and sealed in time, windows closed as they ended, policies amended with notice.
* `UnconfirmedOnlyWhileEarly`: asking for later exports is an answer only while something may still come.
* `CheckedReceiptIsKept`, `HonestReceiptHolds`: a receipt checked against its records was kept, and the converse.
* `ExtensionIsProved`, `HonestExtensionHolds`: a run with `--consistency` that is not refuted compares prefixes, entry by entry; and the converse, with the state one run offers for the next.
* `RecordedStatesAreTrue`: what consistency.json says of a bundle that is not refuted is what its events give.
* `StatedFactsAreInTheChain`: each document, signature and link a bundle states is in its events, last signing and all.
* `TypeOK` of `VerifierRun`: nothing of the first bundle's walk is taken over by the second.

### Findings

* `redacted_settlement`: the rule at `verify/collection.go:173` is that a redacted record is noted and later records chain from its entry hash. It holds of receipts (`receipt_stream` redacts them). A redacted settlement leaves no entry for its day, so a supplement to it, which names it correctly, is reported at line 479 as naming a settlement "the chain does not hold". A redacted configuration and a redacted gap are forgotten in the same way.
* `identity_of_proofs`: the comment at `verify/declarations.go:313` says that the key of a declaration's seal is one the signing identity result already carries. That result is about the checkpoints of the bundle itself; a key that occurs only in declaration_proofs.json does not touch it, so an absence can rest on a seal whose key is not in the trusted set with redactions, signing identity, content integrity and scope all "pass". `AbsencesAreDeclared` states what does hold, and the theorem `TrustedAbsences` when no such seal is involved.

Two things came up as proofs that failed, and the properties above allow for them:

* `verify/collection.go:97` says that in a bundle that starts at sequence 1 every link must resolve. A supplement whose day has no settlement yet and which names one at a sequence below 1 is "before the range" for lines 478 to 482 and passes with a note.
* A checkpoint that ends before it starts (`to < from`) is not reported for that by the checkpoint pass of `walk.go`: its length is not positive, so no leaf is missing, and its root is compared with whatever tree was closed for its `from`. Of its ends only its own `from`, the next checkpoint's `from` and, for the last one, the manifest's `to` have to fit. After such a step back a later checkpoint can be so long that its length wraps around; `reference/verify.php` has floats there.

## Proofs

All theorems hold for every value of the constants that meets the named
assumptions of the modules:

* `WalkAssumption`, `AnchorsAssumption`, `CollectionAssumption`, `DeclarationAssumption`: the shapes of the inputs - which fields a line, a checkpoint or a bundle has, that numbers are 64-bit integers, and that no file has more lines than such an integer counts.
* `DigestAssumption`: what SHA-256 returns is a digest. `SealsAssumption`: an absent value is not a malformed one.
* `SealedLogAssumption`: the seals are seals over a chain, and a signature of a trusted key that is dated inside the window the trusted set states is over a seal (`NoForgery`). Of signatures dated outside it nothing is assumed: a key that was retired may be in anybody's hands. So the proof needs the walk to take the window from the trusted set, and a walk that takes it from the manifest is the mutant of `VerifiedIsSealed`. `ChainAssumption`: a record was made by Sigilbase when it is in a chain the walk vouches for, which is `VerifiedIsSealed`, or under a root that a trusted key signed inside its window, which is `NoForgery` as the declarations see it.
* `InvocationAssumption`: the shapes of command lines and bundles. `BundleShape` asks of a bundle in which the other checks found nothing that its events are those of its range, which is what `CleanWalkIsOneChain` and the last check of the event pass (`walk.go:515`) establish; a bundle they did find fault with may hold anything. `FileShape` are the casts of `consistency.go`. A root or a proof that was computed is not the missing one.
* `MerkleStreamAssumption`: there is a leaf to append.
* `RegistryAssumption`, `TimesAssumption`: bounds and graces are numbers, the seal delay is not zero, and what is missing is no number, no stream's name and no acceptance. `KeysAssumption`: the auditor has the service's key, whose window covers the history and ends after it, and not the key of the receipts damaged by exchanging theirs.
* `DepthAssumption`, `BufferAssumption`, `FilesAssumption`, `RunStateAssumption`, `NoReasonIsNoCode`: the limits are numbers, files are bytes, the buffer has room for one.

The modules and their arguments:

* `VerdictProofs`: `demote` never improves a result, and demotions commute. Every other proof about results cites these. It also holds the induction over naturals the other proofs use (`Smallest`, `Induction`, `StepInduction`, for sets of numbers).
* `AuditProofs`, a run: the inductive invariant `IInv` adds to `VerdictIsOrderFree` that the exit code of an ended run is that of its results and that both reasons are the first of their kind.
* `SealedRangeProofs`, the walk: `TypeCorrect`; `CleanChain` from `WalkInv`, which says that while content integrity holds the carried state (expected sequence, previous hash, leaves) is that of the last line read. What the walk hands on follows with it: `AbsencesAccounted`; `CapturedRoots`, from `RootInv` (a root was captured when its last leaf came, and the sizes wanted include the end of the range); `WrapsNowhere`, from `RangeInv` (the ranges passed so far follow one another from the start). `ClosedTreesAreRanges` does not suppose a clean walk: `CutInv` says that the lines read were cut at places `cut[0] <= cut[1] <= ...`, each tree being over the lines between two cuts, and that a cut is where the range ends. The boundaries are in no variable of the code, so the invariant asks that they exist, and each step extends them.
* `SealedRangeProofs`, the log: `VerifiedBundlesAreSealed` from the conjunction of `TypeOK`, `WalkInv`, `SliceInv` (each closed tree is the stretch of the leaves its range names, the open one what follows) and `PassInv` (the checkpoints passed so far are seals, each starting where the one before it ended). At the end the seals' roots, which are over the sealed log, equal the stretches, which are the lines read; the hash chain then fixes every field. `SliceInv` is needed because the root is compared long after the tree was cut. `HonestExports`, the converse, needs `FullInv` (a tree whose range was read to its end is complete) and that nothing was blamed so far; each check of an honest line or checkpoint is then shown to find nothing.
* `LinesProofs`: `TypeCorrect`, and `LinesSplit`, which says that `Lines` implements `LineSplitter!Safe`: initial states map to initial states and each step to a step of the promise or a stutter. The invariant adds to `TypeOK` that inside `Next` no LF is in what was put together, and that a reader that is done with nothing said has nothing left. The lemmas are about lines of concatenations: what follows the first LF does not matter (`LineOfHead`), what precedes it belongs to the line (`LineOfTail`).
* `DeclarationsProofs`: `AbsencesDeclared` and its corollary `TrustedAbsences`, the whole promise where trusted keys sealed everything, from `KeptInv` (what is kept are records of the file with their own hash; from its end on all of them are sealed, and no absence judged so far was a problem); `HonestAbsences` from `SoundInv` (of a sound file everything is kept and nothing is reported). A declaration may come before or after the one it supplements, so the lemmas are about the set of what is kept, never about its order.
* `CollectionProofs`: the three properties relate an event to all earlier ones, but the code remembers only a few fields per stream. `StreamsInv` says that those fields describe the events seen - the head is the last receipt, the gaps are those declared with what healed them, a day's entry is its last settlement - and is inductive where the properties alone are not: what the next record is compared with must be what the events say.
* `CollectionProofs`, the converse: `HonestExportsPass`, about an export of a stream that goes on for ever. `HonestStream` is the inductive invariant of the stream: every record is as `collection.go` asks of it against all the records before it (`IsHonestReceipt`, `IsHonestGap`, `IsHonestHeal`, `IsHonestSettlement`), and a record stays so as others follow. `Knows` says what a pass that began at `start` remembers after `n` events; by induction on `n` the next honest record passes whatever the pass still knows (`NextRecordPasses`), so the whole export does. Only receipts may be redacted: after a redacted settlement the pass keeps an older one as the latest of its day, and the run `redacted_settlement` shows an honest export that is blamed for it.
* `AnchorsProofs`: `PassesAreAttested`, `LatestIsAttested` and `AttestedAreAccepted` from `AnchorsInvariant`. `ClimbInv` says that the walk is a path from the signer's certificate, each certificate issued by the next, with as many steps as certificates seen; so a walk that reaches a root is a chain of the reference definition. For the converse it says that, where names differ, the walk is on every shortest chain: the issuer the walk takes is then the only one, and a shortest chain has no circle for `seen` to refuse. `JudgedInv` carries the judgements of single anchors to the result and the latest time.

* `VerifierRunProofs`, the tree: what the operators of `Merkle` compute, for trees of every size. Recursion over data is dealt with by sets of numbers: `Induction` and `StepInduction` follow from the order of the naturals, and a recursive function is unfolded once and then reasoned about at each number. `SameRoot`: two runs with the same leaves have one root, wherever they are cut out. `IsStackOf` says that a stack holds perfect trees of descending sizes, side by side over a run of leaves; appending keeps that (`StackAppendHolds`: a carry merges two neighbours of one size) and its fold is the root of the run (`StackRootIs`). `OnlyTheProofVerifies`: exactly one sequence of nodes leads from the root of m leaves to that of all of them; by induction on the tree, in which the last node joins the halves and the walk before it is that of one half, at a size where one less division by two is left (`EndsByHalves`). `Collects` says that each stack of a collector holds the part of its range that has gone past.
* `VerifierRunProofs`, the stream: `StreamedRoots`, `OneSubtreePerSetBit`, `CollectedProofs` and `OnlyTruePrefixes` from `StreamInv`, which says that both stacks and the collector hold the leaves there were, for every number of leaves and every reset.
* `VerifierRunProofs`, the run: `RunInvariant` says that what is kept of a bundle is its own, that a captured root is the root of the events up to its size, and that what was found wrong with a bundle has failed. With it `RunTypeCorrect`; `ExtensionProved`, where two equal roots are two equal logs, since a root determines the leaves under it (`SamePrefix`); `StatedFacts`. `RecordedStates` needs in addition `CaptureInv`: every size asked about has been captured, and the proof collected, once the walk is past it. So the states in consistency.json were compared with something. `HonestExtension`, the converse, adds `HonestInv`: nothing fails on the way, and at the end the exit code is that of the comparison.

* `AuditProofs`, the service: `HistoryInv`, for any number of requests, deviations and seals. A receipt says what was told, and if the decision or the event was written, so does the record it names; every decision and event is some request's; both streams are in the order of time; seals lie side by side from the start of their stream (`SealsLie`). `HonestSoFar` adds that a service that has not deviated wrote everything down and that what it has not sealed can still be sealed in time (`SealedInTime`), which is what makes each next seal one in time. `LastUnwritten` is about a deviation: what the last receipt names and was kept back has not been written by another request since.
* `AuditProofs`, the reconciliation: `UnconfirmedWhileEarly`. `AuditInv` says that the bundles are exports up to some checkpoint and that `read` is what `readRegistryLog` makes of the log; unfolded record by record (`DecisionsRead`), its decisions are those of the records. Of the rules only three ask for a later export. An acceptance whose event is past the registry, an event whose decision is past the log and a receipt whose decision is past it are each traced to the request they are about (`LaterAcceptance`, `LaterEvent`, `LaterReceipt`), of which `MayStillCome` then holds. The other rules find nothing about the scope, whatever they find (`RulesExplained`).
* `AuditProofs`, a receipt: `CheckedReceiptKept` and `HonestReceipt`. Findings are heard one by one, and a run that passes has heard none (`PassHeardNothing`). A damaged receipt has a finding of its own or names no bundle's stream (`OwnHolds`), so what passed and was checked is the receipt as signed; what it names is then the request's own record and event, and the seal found in the export is the first one of the whole stream (`FirstSealIs`). The converse takes `HonestSoFar` through the same checks.

That a root determines its leaves is the collision-freedom of SHA-256: here a
hash is what was hashed.

Only model-checked are: liveness under fairness (`VerdictIsReached`, the fairness
half of `SplitsLines`), which is beyond the prover; and two properties of
`RegistryAudit`, which need what every rule of a reconciliation computes over a
whole log, matchings of acceptances with events and histories of policies
included: `HonestRegistryIsNotBlamed` and `PassAccountsForEveryRequest`. The
second is a statement about one deviation, and no theorem for more: with two, one
can hide the other. A service that keeps an acceptance back from both streams and
then tells the same request that it was accepted, not that it is a replay, leaves
streams in which nothing is wrong; only the first receipt could show it, when the
two are not of one second. So its run has `MaxDeviations` = 1.

## Plan

Built: the run, the tree, the walk, the later passes, consistency, the registry
and its audit, the line reader, whole runs; every invariant the runs check is
proved but the two above. Left to prove: that an honest service is not
blamed, rule by rule. Left to model: the extraction of a zip, and a composition
that puts `BundleWalk` itself, not its summary, under `VerifierRun`.

## Not modelled

* Parsing, canonicalisation and PHP value conversion (`internal/cjson`, `phpcompat`, `verify/phpvalue.go`), DER decoding, a keys file: data, character by character; their outcomes (absent, malformed, not an integer, does not decode) are in the inputs of the models.
* Ed25519, RSA and SHA-256: assumed not to be forged or to collide.
* Opening a bundle (`internal/bundle/zip.go`, `dir.go`, `bundle.go`): normalised entry names, a later file that replaces an earlier one, a file and a directory of one name. It ends before anything is verified; planned.
* The text of options, the wording and layout of reports, JSON reports.
* A bundle that changes while a run reads it twice (`receipts.go:416`): both reads are of one content in the models, as the program assumes.
* `tools/`, `reference/verify.php`, the corpus and the differential test harness: not part of the verifier.
