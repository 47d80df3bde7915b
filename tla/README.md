# A verification development for `schemas-and-contracts`

The repository is a contract authority: JSON schemas and fixtures, and beside them *pure
evaluators* in TypeScript and Rust that say what a stateful owner must answer to one request, and
*programs over files* that lock, check, copy and generate the contracts themselves. The owners
(Missions, Specifications, the orchestrator, the harness, the control plane) live in other
repositories. An evaluator is tested one call at a time, against vectors. What the vectors cannot
show is what a long history of calls does: whether an owner that obeys the evaluator on every call,
while messages are late, repeated or misdirected, processes crash and backups come back, ends up
in a state that the contracts forbid; and whether a program that passes over a working tree file by
file says something true of it when the tree moves. That is what these modules check. Each one
translates an evaluator or a program guard by guard and runs it inside the smallest owner and
environment that the semantics documents and the tests describe.

## Inventory

| Part | State | Operations | What is hard | What makes it correct |
|---|---|---|---|---|
| Handoff reference saga: `missions-v3.ts` `referenceDecision`, `build-brief-storage-v1.ts` kind `reference` | none in the code; the owners keep a row (state, everConfirmed, releasedBy, evidence) and an operation outcome | reserve, confirm, reconcile, release | two owners without a common transaction; lost replies, old observations, a Missions restore | a live mission's archive is protected; releases are final and true; no orphan; both oracles answer alike |
| Handoff retention: `build-brief-storage-v1.ts` kinds `retention`, `joint-reference` | reference counts, two release anchors, a deadline | purge, retain, release | the purge worker acts on an old look; the deadline belongs to an old anchor | nothing is purged early; anchors are exact; package outlives archive |
| Build brief: `build-brief-v2.ts` `verifyBuildBriefCandidate`, `build-brief-storage-v1.ts` kinds `append`, `archive-use` | the stored package, its proofs, the archived handoffs | prepare and commit a receipt; archive and read a handoff | two clerks append at once; one bad receipt makes the whole package refuse | the stored package stays verifiable |
| Backups of packages: kinds `backup`, `restore` | live storage, backups, restore in progress | back up, erase, expire, restore, serve | a restore brings back what was erased since | an erased package is never served again |
| Mission binding: `missions-v3.ts` `deriveMissionBinding`, `verifyMissionBindingDigests` | records, plans, authorizations | derive a binding, verify three documents | read and committed at different moments; any old document may be shown | planned under current authority; one document per handoff; one execution per revision |
| Plan v4: `execution-plan-body-v4.ts`, `execution-authorization-v4.ts`, `harness-profile-v3.ts` | the values a harness collected and what it says they depend on | resolve a plan, judge a quarantined answer, judge a call | retries, lost dependency records, answers of an untrusted model | untrusted content reaches an argument only through an admitted closed field |
| Event chain: `orchestrator-event-chain.ts`, `event_chain.rs` | the store's accepted events | evaluate one event | forks, replays, a single collision record, arithmetic | one gapless chain, exact totals, replays recognised |
| Execution lineage: `authorized-execution.ts` `evaluateTransfer`, `evaluateEffect` | generation, attempt, lease, effect inventory | transfer, attest | late executors, competing transfers, old readings | generations do not overlap, one effect at a time, one-shot transfer |
| Execution graph: `evaluateGraph`, `evaluateAuthority` | none | accept a graph; accept a plan for it | four separate passes over one edge list; lists compared as sets | runs on an accepted graph neither stick nor loop, and act only on what the plan binds |
| Human decisions: `evaluateDecision`, `decision-binding.ts` | none; the owner keeps a request and its answer | bind a request, evaluate a response | replay after expiry, consumption or replacement; two evaluators nothing composes | one outcome per attempt, authorized by the policy; replay recognised |
| Review quorum: `agent-review-quorum.ts`, `quorum.rs` | none; the boundary keeps claimed nonces | evaluate two reviews | edits during reviews; nonce claims and crashes; two languages, two clocks | two independent outsiders; nothing counts twice; in time |
| MLS sender authentication: `mls-sender-authentication.ts` | a receiver's epoch, leaves, consumed keys | judge a frame; check the vector document | leaves change hands, keys are forgotten with their epoch | authored by the leaf's holder; applied once |
| Specification lock and adoption: `specification-lock.ts`, `specification-lock-inputs.ts`, `adopted-protocol-authority.ts`, `protocol-authority.ts` | an input object, copies of it | read, pin, take, project, admit, compare, adopt | files and the caller's object change between two looks | what qualifies is the reviewed catalog, row for row |
| Contract check: `check-contracts.ts` and the checks it calls | what earlier sections read, for later sections | one section after the other | the tree is edited while it runs; sections rely on each other | green means nothing dangles, and every schema refuses its spoiled examples |
| SDK copies: `sync-schemas.ts`, `generate-types.ts`, `build.rs`, `check-vendored-schemas.ts` | three copies of the schemas | remove, copy, generate, check | a crash between two files, an author in between, recursive schemas | the languages agree; a drifted copy heals |
| Signalement receipts: `signalement-projection-receipt-v1.ts`, the Rust crypto oracle | key sets with retired keys | judge a receipt against a set | keys retire while receipts are under way; two verifiers of two encodings | valid means issued; genuine stays valid; both verifiers agree |
| Signature corpus: `signalement-receipt-vectors.ts`, `signalement-v1-vector-loader.ts`, `signalement-policy-receipt-golden-files.ts` | an entry and continuation files | pack, write, check, load | the entry counts files whose packing depends on the entry; interrupted writes | nothing is left out silently |
| Local export: `signalement-local-export-v1.ts` | a dossier, its approval, an export | edit, approve, export, verify | edits between approval and export | an admitted export is what was shown |
| Routing policy: `signalement-routing-policy-v1.ts`, `signalement-connector-profile-v1.ts`, `signalement-delivery-envelope-v1.ts` | a policy and its last admitted revision | edit, admit | rules that shadow, deny what is not there, or match nothing | every admitted denial bites |
| v3 causal events, envelope, auth retention, SDK registry, datalog, digest inventories, schemas | none | evaluate, look up | order of refusals | fail closed; see *Not modelled* |

How they meet. Receipts make a package, a package and its archived handoff make a binding, a
binding makes a mission record; plans are sealed on records and authorizations issued on plans; the
plan's tool calls are judged against what the harness collected. Missions and Specifications meet in
the reference saga (query, observation, answer); the saga's releases feed the retention anchors; an
orchestrator's lineage decides which run may append to its event chain and which effects count. On
the side of the repository itself, the lock decides which catalog the contract check reads, the
check decides which schemas the SDK copies project. Nothing shares memory: everything is calls,
observations and files, so concurrency here means *stale arguments* and *moving trees*.

Files named without a path are in `tools/quality/`, `packages/sdk-ts/` or `crates/sdk-rs/`.

## Modules

### `ReferenceDecision`, `OracleAgreement`, `HandoffReference`, `HandoffReferenceMC`

`ReferenceDecision` translates the two oracles as operators, one operator per block of guards of
`referenceDecision` and one for the `reference` branch of `evaluateBriefStorage`. An identity tuple
is one value of `Identity`, a malformed one any other value; evidence digests likewise.
`OracleAgreement` puts every combination of well-formed and malformed inputs to both, through the
same correspondence of answers as `reference-reconciliation.test.ts`, which uses a fixture matrix.

In `HandoffReference` `row` is the Specifications row, `op` the true outcome of the mission
operation, `observed` every observation ever made (nothing is ever removed from it, so delay,
duplication and reordering need no actions), `replies` the identities whose caller was told of a
protecting row. `Handle` asks `ReferenceDecision` with any old observation, possibly one of another
identity, and commits the answer as `RowAfter` does. `MissionCommit`, `MissionSeal`,
`MissionRemove` are the transactions of the Missions owner; `MissionRestore` takes back a commit
from a backup, at most once per identity (`lost`); final outcomes survive a restore because
`contracts/missions-v3/SEMANTICS.md` replays tombstones before records. A crash of either owner
needs no action: there is no volatile state, and a request that was lost is one that is not made. A
mission commits only after it was *told* that a row protects: an answer "protect" for a missing row
tells it nothing, and it asks again after it has reserved one. `HandoffReferenceMC` starts in one of two
scenarios, the call to both oracles or the saga.

`ArchiveProtection` is the abstract promise: hold before live, let go only when closed for ever.
`HandoffReference!PromiseKept` is the refinement, with `AbstractProtection` and `AbstractUsage` as
its mapping. A restored mission maps its live usage back to open, which the promise allows.

### `HandoffRetention`

The archive and the package of one handoff. `OwnerCommit` is the single atomic transaction that
writes references and both anchors: it *proposes* anchors (none, the old one, now) and commits only
what `JointDecision` does not deny, so the exact anchors are a result of the evaluator and not of
the model. The purge worker looks (`Look`), gets a deadline that may be unverified, and later
compacts (`Compact`) with the references rechecked, or with its old ones, which it must then present
as not current. The clock advances to `MaxTime`.

### `BriefAdmission`, `PlanAuthority`, `PlanQuarantine`, `BriefArchive`, `PlanAuthorityMC`

From acceptances to tool calls, along the documents that carry the authority.

`BriefAdmission`: `PackageHolds`, `ReceiptHolds` and `HandoffHolds` are `verifyBuildBriefCandidate`;
`AppendDecision` and `ArchiveDecision` the kinds `append` and `archive-use`; `BindingDerived` is
`deriveMissionBinding`. Clerks prepare an append on what they read and commit it later (the
expected revision is the compare-and-set); a planner reads, time passes, keys are revoked, proofs
are lost, memberships change, and it commits what the evaluator allows at that moment.

`PlanAuthority`: every revision of every mission record, every plan (sealed, or edited after it was
sealed) and every authorization stays on the table, and a verifier may be shown any three. `Binds3`
is `verifyMissionBindingDigests`, `Binds4` `authorizationV4BindingFailures` with the harness
profile. An authorization may be issued on documents read at different moments (`Issue`). A digest
is its preimage.

`PlanQuarantine`: `Resolvable` is `planV4ResolutionFailures`, which stops at the first tool
reference it cannot resolve; answers are judged by `evaluateQuarantineOutput`, calls by
`evaluateArgumentCall`. The harness tracks what it *says* a value depends on (`tracked`), the model
also what it really depends on (`truth`); a value whose record is lost counts as untrusted content.

`BriefArchive`: the owner erases packages, takes backups, loses the store, restores a backup step by
step and serves again; it asks the two kinds before it acts.

`PlanAuthorityMC` starts in one of four scenarios (admission, archive, authority, harness), so that
their states add up rather than multiply; in the authority scenario a receipt is
already accepted and its handoff archived and read.

### `EventChain`

Workers report events after the event they believe to be last; they crash, forget, fork and
resynchronise. Events sent once may arrive any number of times in any order, and with a field in
`Faults` altered. The store asks the evaluator with each collision record its lookup might find.
An event's digest is the event (collision-free). `budgetKeys` are the values of `Counter`; when
several counters are wrong the two budget codes depend on the key order, so `BudgetVerdicts` is the
set of codes any order gives. The Rust twin differs only in `checked_add` and in an unchecked
`sequence + 1`; under the schema's maxima the two are the same function. The chain is the second
scenario of `ExecutionLineageMC`.

### `ExecutionLineage`, `ExecutionLineageMC`

A mission's generations. `Attest` presents any combination of generation, attempt, lease, emission
and status an executor may report; `sealed` is the owner's last reading of the earlier generations,
taken by `ReadInventory` at any time before it is used. `Transfer` may come expired or late. An
owner is careful or not, chosen at the start (`sealFirst`): a careful one issues transfers only on a
closed inventory, as `contracts/agent-orchestration/SEMANTICS.md` demands of it ("A successor is
forbidden while any predecessor effect is reserved, started or state-unknown"); the evaluator itself
is not given the inventory, only the revision. Two obligations fall to the owner and are part of the
model because the evaluator answers only a code: an emission answered `effect-state-unknown` is
entered in the inventory, as a barrier; a duplicate report moves the status of an emission that is
still open.

### `ExecutionGraph`, `ExecutionGraphMC`

`GraphVerdicts` is `evaluateGraph` with its passes kept apart: repetitions, the totality and
uniqueness of routes (`StepFaults`), the queue that grows backwards from the terminals
(`CoReachable`), the one that grows forwards from the entry (`Reachable`) and the topological count
(`Sorted`). Several passes can find fault, and the code returns the first; the operator is the set
of the codes that can be returned, because only acceptance matters afterwards. `AuthorityVerdict` is
`evaluateAuthority`, with `sameStringSet` as the code has it: it compares lengths, so lists that
repeat a digest match only themselves with the same repetitions. An accepted graph with an accepted
plan is then walked by a runtime: `Yield` lets a step end in any outcome it can have (for a decision
also in the outcome without an answer), `Again` retries while the policy allows it, `Advance` takes
the edge. That there is one is for the evaluator to see to, not for a guard of the model.

Observed on the way: the v2 plan schema asks for exactly two `decisionSchemaRefs` and at least one
`executorProfileRefs`, while `evaluateAuthority` wants each list to be the set the steps name; a graph
without a human decision, or with two that name different schemas, cannot get an authorized plan.

### `HumanDecision`, `HumanDecisionMC`

`BindingVerdict` is `evaluateDecisionBinding`, `ResponseVerdict` is `evaluateDecision`. Nothing in the
repository composes the two; the owner of the model does it as
`docs/reviews/decision-binding-v1-review.md` describes: it issues only requests that are bound
(`Issue`, from proposals that bend choices, silence or role), and a new request for an attempt
replaces the one before. `Respond` sends a response for any request with any choice, role and policy
revision; it stays sent, so that it can be judged late, twice, or against another request (`Judge`).
`NoResponse` takes the outcome of silence when the time is over. `accepted` and `outcome` are the
owner's records; `Prior` is the response it finds for a consumed request.

### `ReviewQuorum`, `ReviewQuorumMC`

`QuorumVerdict` translates the evaluator in the order of its refusals; `Parsed` is the one point in
which the languages differ: `Date.parse` counts milliseconds and chrono everything, so `Resolution`
is the number of instants in one unit of the evaluator's clock (1 for Rust). Agents edit the
subject; a version keeps the contributors of the bytes it keeps. Reviewers read the subject and the
lineage at different times, may forget themselves in the contributor list, and may read a sibling's
review, which the harness records. A boundary collects any reviews, claims their nonces one at a
time in the replay store (which may be out), reads the subject and the lineage at any time, asks the
evaluator, and may crash in between. A claimed nonce stays claimed: a boundary that crashes before
it evaluates has burned the review, which is the price of `CountedOnce`. Also outside the evaluator:
SEMANTICS lets any rejection prevent a quorum, but the evaluator is shown two reviews and no third.
An unknown diversity requirement makes the TypeScript evaluator throw and the Rust one answer
`diversity-requirement-violated`; the model knows only `provider`.

### `MlsReceiver`

`SymbolicReceipt` is `evaluateSymbolicReceipt` with every check on; the vectors evaluate it once
each against one state, the model runs it over the epochs of a group. `Commit` adds, removes or
replaces the holder of a leaf, `Send` lets a member send in an epoch in which it holds a leaf (also
one the group has left, also a generation it used before a restore), `Follow` takes the receiver to
the next epoch, where nothing is consumed. A frame is any combination of epoch, leaf, generation,
content, one departure of the red vectors, and a signature that some member made, perhaps for
another message. A refusal changes nothing and needs no action. What is signed does not include the
generation, so a signed content may be applied under two generations; the properties speak of
generations, as the code does.

### `SpecificationLock`, `ContractCatalog`, `SchemaSync`, `SchemaProjection`, `SchemaSyncMC`, `ContractRepositoryMC`

The three programs that guard the tree, each a scenario of `ContractRepositoryMC`.

`SpecificationLock`: `disk` is the tree, `held` the input object read from it file by file, `kept`
the verifier's own copies. Authors edit the tree (`Edit`) and callers the object (`Mutate`) between
any two steps. `PinEvidence`, `TakeDocument`, `ProjectBaseline`, `AdmitAdditions`, `CompareCatalog`
are the verifier in its order; `Adopt` is `adoptedMissionProtocolAuthority`, which rests on it.

`ContractCatalog`: one action per section of `check-contracts.ts`. Each action reads the tree as it
is at that moment and keeps what the code keeps in variables (`rows`, `managed`, `schemas`, `cases`, `authority`),
collecting `failures`. A document is a record of the facts a section tells apart: what a schema
accepts and refers to, what an API maps its routes to, which bytes a vector pins.

`SchemaProjection` maps a recursive schema to the set of paths each generator keeps, each with what
stands at its end: `RenderType` (TypeScript) and `ProjectSchema` (Rust, up to the schema that typify
is given). A document is a set of nodes under pointers; a node is a schema or a map of names. Both
projections are recursive functions over *visits*: a place, and the references followed on the way to
it. They go apart where the code does. The TypeScript generator (`TypeParts`) stops at `const` and
`enum`, takes `anyOf` only where there is no `oneOf`, follows `items` of arrays only and fields of what
may be an object only, ignores everything else and drops what stands beside a reference; it declares
the root of a document only when that says what it is, and each definition on its own (`Declared`). The
Rust one (`RustParts`) goes into every key of every object, so also into `patternProperties`,
`prefixItems` or `propertyNames`; it skips the keys in `Skipped` by name, also where they are names of
properties, refuses what constrains beside a reference, embedded resources and a property called
`allOf`, and checks a whole document before it follows a pointer into it. Of all these shapes the
schemas of the repository have only `prefixItems`, `propertyNames`, lists of types and properties
called `then` and `not`; the others are in the model because both generators accept some of them.

`SchemaSync` runs the tools that write the copies while an author edits. `sync-schemas.ts` and
`generate-types.ts` list the directory (`Begin`), read file by file (`ReadFile`, which fails on a file
that is gone), and only then remove and write, one file per step; `check-vendored-schemas.ts --write`
reads and writes file by file. A tool may die between two files or inside one (`Crash` leaves a torn
file). `Release` ships what passes the checks of both packages; the checks themselves are read as one
step, on one tree, as they run on a commit. `seen` records the authorities there were while the tool
was reading, and decides nothing. `SchemaSyncMC` has the documents.

### `ReceiptVerification`, `SignatureCorpus`, `LocalExport`, `RoutingPolicy`, `SignalementMC`

Four scenarios of one module, because they share nothing but the product.

`ReceiptVerification`: organizations add and retire keys and publish key sets; receipts are issued
under a key or signed elsewhere, then circulate, edited or re-encoded. `Verdict` is the
TypeScript verifier, `Classify` the Rust one, each with the checks its source has. They do not check
the same: the TypeScript verifier validates receipt and key set against their schemas and measures
them, the oracle is "not a schema validator" (`contracts/signalement-projection-receipt-v1/SEMANTICS.md`)
and reads the receipt's lists without their rules. A receipt's signed member `body`
stands for what only a schema tells (a revision out of range, a missing digest) and for its size, a key
set's `body` for its other members; key sets may also be empty, which TypeScript refuses as
`keys.schema` and the oracle answers `unknown-key`. So `VerifiersAgree` promises the same class only
within the contract, and beyond it that the oracle calls no receipt valid that TypeScript does not,
unless the key set is one its schema refuses. The oracle also stops on receipts that are not ASCII,
for which its canonical form is not proved; the model's receipts all are.

`SignatureCorpus`: `Pack` is the generator's fixed point, in which the entry declares the number of
continuation files and its own width depends on that number. Writers die between files, authors edit
or copy files; `--check`, the two TypeScript readers and the Rust oracle then read what is there.

`LocalExport`: a dossier is edited, shown for approval, exported, and the export damaged on the way;
the verifier sees the manifest and the files only. `RoutingPolicy`: an organization edits a policy of
destinations, disclosures and rules; `Admit` is the verifier over connector profiles and origins. Host
names are abstract. Of a host pattern `isDeadMatch` looks at the port alone, so a pattern whose name no
URL parser accepts is admitted and never matches; the model has no such names, and `DenialsBite` says
nothing of them.

## Runs

| Run | Module | Shows |
|---|---|---|
| `handoff_reference` | `HandoffReferenceMC` | the two oracles agree on all 76 800 inputs; the safety properties of the saga and its promise; orphans are released, lost confirmations recovered |
| `handoff_retention` | `HandoffRetention` | no early purge, exact anchors, package outlives archive; what is due is purged |
| `execution_lineage` | `ExecutionLineageMC` | generations never overlap, one identified effect at a time, transfers one-shot; on a closed inventory no successor finds an open effect; one chain of events, exact totals, replays recognised |
| `execution_graph` | `ExecutionGraphMC` | runs on accepted graphs have one way on, repeat no step, act only on what is bound, and end |
| `human_decision` | `HumanDecisionMC` | one authorized outcome per attempt, replays recognised |
| `review_quorum` | `ReviewQuorumMC` | a quorum is two outsiders, and no nonce counts twice |
| `review_quorum_milliseconds` | `ReviewQuorumMC` | expected to fail: with a millisecond clock a review counts before it was issued |
| `mls_receiver` | `MlsReceiver` | applied content is the leaf holder's of that epoch, and no generation is applied twice |
| `contract_repository` | `ContractRepositoryMC` | what qualifies is the reviewed catalog; a green tree dangles nowhere and its fixtures bite; Rust types say what TypeScript types say; a sync writes what it read; a copy left half written heals |
| `rust_projection` | `SchemaSyncMC` | expected to fail: a property called `then` is missing from the Rust types |
| `plan_authority` | `PlanAuthorityMC` | packages stay verifiable, missions are planned under current authority, one revision authorizes one execution, arguments are closed, erasure is final |
| `signalement` | `SignalementMC` | what was issued is valid for ever and nothing else is, and both verifiers agree within the schemas; the corpus is complete or refused; an export is what was approved; admitted denials bite |

`HistorySound`, `PurgeSound`, `ChainSound`, `LineageOneShot`, `RunSound`, `DecisionSound`,
`QuorumSound` and `ReceiptSound` are conjunctions of properties that each have a name and a comment
of their own in their module; `NothingDangles` includes `OneHomePerOperation`.

Two findings. First, `contracts/agent-orchestration/SEMANTICS.md:59` makes a review eligible when
`issuedAt <= evaluation time < expiresAt`. The TypeScript evaluator compares what `Date.parse`
keeps, whole milliseconds, of timestamps that may be finer; within one millisecond it accepts a
review dated after the evaluation. The Rust twin refuses it, so the two SDKs can differ on one
quorum. The proofs about the quorum do not depend on the clock.

Second, `crates/sdk-rs/README.md:7` says that the build script "removes validation-only conditionals
unsupported by static Rust types". `project_schema_value` (`build.rs:319`) removes the keys `if`,
`then`, `else`, `not` and `contains` from every object, also from a map of properties, where they are
names. `contracts/schemas/curation-rule-set.v3.schema.json` has a required property `then` (line 31)
and conditions whose only property is `not` (lines 136, 173, 210): the TypeScript types have them, the
Rust types do not. The runtime validator still sees them; `LanguagesAgree` holds but for such names.

### Bounds

Every property has a mutant of the translated code that breaks it within these bounds.

- Saga and retention: two identities make one observation usable for the wrong row; two references
  let an archive be released and taken again; `Tail = 2` with `MaxTime = 6` lets a deadline of the
  first release be due after the second.
- Chain and lineage: three events and two workers allow a fork, a replay across an accepted
  successor and a lost head; two generations, three attempts and two leases let every kind of late
  executor meet its successor.
- Graphs have up to three steps of six shapes (which include an unbounded retry, an undeclared
  outcome, repeated ids and a missing entry), up to four edges over two outcomes, and seven plans:
  enough for a loop beside a terminal, a dead branch and a missing route.
- Decisions: two attempts, two requests, two responses and a window of two within three instants let
  a response meet a replaced, a consumed and an expired request.
- Quorum: three agents on two providers, two versions, two nonces and two reviews let an editor
  review its own bytes through an old lineage and a boundary meet its own claims after a crash; the
  refutation needs two instants to the millisecond.
- MLS: three epochs, two members, leaves and generations let a leaf change hands twice behind a
  frame.
- Plan authority: two clerks race over receipts of which one repeats an identity and one is a
  contributor's; `MaxTime = 2` lets a key end and a handoff expire between a read and a commit; one
  revocation, membership change or lost proof (`MaxUpsets`) is placed anywhere. Two revisions, two
  plans and two authorizations are the least that can disagree about one revision. The harness may
  hold three records and lose one (`MaxRecords`, `MaxLosses`). Two packages, two backups, two losses
  of the store and a ceiling of two days within three let an erasure fall before a loss and after a
  restore, so that backups of both sides of it exist; while a restore is under way there is no live
  row to erase.
- Contract repository: the lock sees two changes (`MaxChanges`) by authors and callers, so that a
  change can be undone behind a look; the initial trees of the check are the sound one and every
  tree with one document altered or missing, and one edit (`MaxEdits`) falls between any two
  sections; the copies see two rewrites (`MaxRewrites`) and one crash (`MaxCrashes`) over the
  shared definitions and one schema that refers to them, refers to itself, has every shape on which
  the generators differ, or is refused by one of them; so an author can write between the two reads of
  one sync. `rust_projection` needs one document and no step.
- Signalement: two organizations and two keys make a key of the wrong organization and a retired key;
  one signature (`MaxSigned`) and three published sets (`MaxPublished`) a set from before, during and
  after the key. Vectors of width 1 and 3 against a budget of 6 make entries whose packing changes
  with what they declare; two edits (`MaxEdits`) make a file old and then another one. Two media and
  two changes let an export differ from its approval in the dossier and in a file. One rule over two
  destinations and three revisions lets a denial lose its target after it was admitted.

Symmetry is used only for identifiers in runs without liveness. Deadlock is checked in
`execution_lineage`, in both scenarios. It is off where the system may stop: one call of two
oracles ends, a refused graph and a finished run have no further step, a program over files ends with its verdict, and
identities, edits, requests, epochs and clocks are bounded.

### Fairness

The code schedules nothing; fairness is an assumption on its callers, kept to what `SEMANTICS.md` and
the tools' own use ask of them. Reconciliation: the worker keeps asking and keeps presenting what it
was told (weak, `MCFairness`). Purge: verified deadlines keep being computed (weak), and compaction
is tried whenever it keeps becoming possible (strong, because an unverified look may replace a
verified one again and again). Graph: the runtime does not abandon a run (weak). Copies
(`SyncFairness`): a tool that runs proceeds (weak) and a copy that its check finds drifted is synced
again (strong, because authors come in between); crashes are bounded, authors stop. Nothing makes a
mission commit or end, an executor report, or a user let go.

## Proofs

Every safety invariant and every action property that a run checks is also proved by TLAPS, for all
values of the constants, from the constants' named assumptions, in eight modules. A module proves
about several components where they share lemmas; the components keep their variables apart, and the
runs' scenarios, which only choose between them, are not used in any proof. Each component has its
own specification (`ReceiptSpec`, `ArchiveSpec`, ...) and its own inductive invariant. What makes
the stated properties inductive, component by component:

**`HandoffProofs`**

- `HandoffReference`: an old observation of a final outcome is still true, an absent one proves
  nothing, and whoever was told of a protecting row still has a protected or finally released one
  (`ObservedTrue`, `AnswerTrue`). From it `LiveMissionProtected`, `HistorySound` (`ReleaseIsFinal`,
  `RowAdmissible`), the action property `HistoryMonotone` and the refinement `PromiseKept`.
- `OracleAgreement`: the two oracles are compared case by case, in the order in which each refuses, for
  every input (`OraclesAlwaysAgree`); the run enumerates one instance.
- `HandoffRetention`: what the worker remembers was once true (`ScanTrue`) and uses lie in the past
  (`PastUse`); with exact anchors a matching anchor proves that nothing happened since. From it
  `PurgeSound` (`PurgeRespectsTail`, `AnchorExact`, `PackageOutlivesArchive`).

**`EventChainProofs`**: accepted events are numbered by their place. From it `ChainSound`
(`OneChain`, `ReplaysRecognised`), the action property `RefusalFinal` and, with an invariant of its
own (`Accounted`: each event's totals are its predecessor's and its own deltas), `TotalsAccounted`.

**`ExecutionProofs`**

- `PlanAuthority`: a clerk's or the planner's reading is what is stored as long as the store's revision
  is the one that was read, a binding's handoff is the archived one for ever, and a mission's
  revisions are numbered without repetition. From it `AppendKeepsVerifiable`,
  `OneDocumentPerHandoff`, `PlannedUnderCurrentAuthority`, `OneExecutionPerRevision` and
  `CriteriaFollowTheBrief`, for any number of clerks, receipts, records, plans and authorizations, and
  with the steps of all owners interleaved, which the run keeps apart in scenarios.
- `BriefArchive`: a backup that still holds an erased package is within that deletion's deadline, and a
  restore that has replayed the deletions holds none (`DeadlinesKept`). From it `ErasureIsFinal`.
- `ExecutionGraph`: that the count of sorted steps reaches the number of steps says only that a queue
  ran dry late. The proof turns it into a *ranking*: a graph that `Sorted` accepts has numbers that
  grow along every edge, so the path climbs (`Climbs`) and can meet no step twice; from the routes'
  totality and uniqueness there is one way on. From it `RunSound`.
- `ExecutionLineage`: the last attempt of a generation is the only one that may have had its effect
  (`InventoryPast`), a reading that found the earlier generations closed is true for ever (`SealTrue`),
  accepted transfers differ in everything a lookup goes by (`AcceptedApart`), and a careful owner's
  transfer binds a revision at which everything is closed (`TransfersClosed`). From it
  `GenerationsDoNotOverlap`, `SuccessorFindsSettled` and `LineageOneShot` with its parts.
- `PlanQuarantine`: the last record of a value tells all that went into it (`RecordsTrue`), and a record
  names only earlier ones (`RecordsOrdered`), so the search for untrusted content, which walks records,
  finds every real dependency. From it `AdmittedArgumentsClosed`.

**`HumanDecisionProofs`**: every request restates its policy, an attempt has one standing request, and
an accepted response answers its request and is the only one that does. From it `DecisionSound`
(`OutcomeAuthorized`, `ReplayRecognised`) and the action property `OutcomeOnce`, which rests on the
evaluator's `>=` at the end of a request's time and the owner's waiting for it.

**`ReviewQuorumProofs`**: a claimed nonce is held by one claim of one boundary, or counted in one place
of one quorum, or burned; a version keeps its contributors. From it `QuorumSound` (`CountedOnce` for
any number of boundaries, where the run has one, which crashes and starts again; `TwoOutsiders`).

**`MlsReceiverProofs`**: nothing in the document is of a later epoch than the receiver's, and what is
of its epoch is still remembered as consumed. From it `ReceiptSound` (`AppliedOnce`; `Authored` needs
only that commits leave the trees of earlier epochs alone).

**`ContractRepositoryProofs`**

- `SpecificationLock`: what the verifier's copies hold is what is pinned, each later step computes from
  those copies alone (`Copies`, `Worked`); what is adopted was qualified (`Adoption`). From it
  `LockHonoured` and `AdoptedAsReviewed`, for any number of edits of the tree and of the caller's
  object.
- `ContractCatalog`: section by section, as long as nothing was reported each section that is over left
  its part of the tree sound (`CatalogInv`); the parts about files hold while the tree is left alone,
  the part about fixtures also when it is not, because their bytes and the schemas are in memory
  (`AllBite`). From it `NothingDangles` and `FixturesBite`, for any files, schemas and APIs.
- `SchemaProjection` and `SchemaSync`: a visit below another goes into a part of the document or follows
  a new reference, and both are finite, so every set of visits has a first one. Hence the recursive
  definitions have solutions (`RenderDefined`, `ProjectDefined`, by the lemma `Recursion`), and the
  first visit at which the Rust projection lacks what the TypeScript one has, outside the skipped names,
  cannot exist (`ProjectionCovers`). From it `LanguagesAgree`, for documents of any size that refer to each other and to
  themselves in any way. A reading tool holds files that were each there at some moment since it listed
  them (`LeftAsRead`), and writes nothing else: `CopyAsRead`.

**`SignalementProofs`**

- `ReceiptVerification`: a published key is still in its organization's ring, at most with its end
  brought forward (`PublishedKept`), and the key of an issued receipt stays there with the receipt in
  its window (`SignerKept`). From it `ValidMeansIssued` and `GenuineStaysValid`; `VerifiersAgree`
  goes through the two lists of checks, each summarised by one lemma (`SameClass`), and needs that a
  signed receipt was within its schema (`UnspoiledIssued`).
- `SignatureCorpus`: an entry that declares more parts leaves less room, so packing needs at least as
  many files (`PackingMonotone`); the least number that is enough is therefore exactly what is needed
  (`SelfDeclaringExists`), and the files keep the budget and every vector (`PackSound`). From it
  `PackingComplete`, for any widths and headers. `CorpusInv` says that files stay well formed;
  with it a merge is the concatenation of the parts, and `NothingLeftOut` follows.
- `LocalExport`: an inventory names the files there are, each as it is or as it once was, and what was
  shown is history that files have only moved on from (`ExportInv`). From it `ExportAsReviewed`.
- `RoutingPolicy`: an admitted policy stays as it was admitted (`PolicyInv`). From it `DenialsBite`.

The type invariants are conjuncts of these inductive invariants and proved as `TypeCorrect` where the
component has one; they are not run a second time.

Assumptions on the constants say what the code's inputs are: bounds are numbers, identifiers and
times are finite sets or numbers, the sentinel values differ from real ones. The ones that say more are
`GraphAssumption`, `PlanAssumption` and `DocumentAssumption` (a JSON array is a finite sequence, a
registry names files of the tree), `SyncAssumption` (a JSON document is finite and nothing in it is a
part of itself; references may still be circular), `RetryLimitAssumption` (the schema's minimum of
one attempt), `ArchiveAssumption` (a deletion record is not the sentinel) and `CorpusAssumption`: a
vector fits a continuation file (`signalement-receipt-vectors.ts:570` throws otherwise), and an entry
without vectors that lists every possible part fits the budget, on which the generator relies without
measuring it (the committed corpus has 43 vectors and a header of some 9 600 code points, against a
budget of 65 536).

Recursive definitions are functions, never RECURSIVE operators, and what each computes is proved
through a set that induction needs (`SetInduction`, `Upwards`, `Recursion`), because the library's
induction theorems take operators as parameters, which the provers cannot instantiate.

Model-checked only: liveness, and so fairness and ENABLED (`OrphanReleased`,
`LostConfirmationRecovered`, `DueIsPurged`, `RunEnds`, `DriftRepaired`). The TLA+ prover has no rules for
them that its back ends check.

## Not modelled

JSON shapes, canonicalisation, hashing and signatures: a digest is the value it identifies, a
verification a Boolean input. Schema maxima (sequence 10^9, attempt 10^4) keep every integer far
below 2^53 and 2^64, so widths are not modelled. `PROJECT.json` lists every part with its reason;
what is left out of the parts that are modelled:

- `evaluateCausal` (v3 causal events) is the event chain's evaluator behind one generation guard.
- The event envelope, the SDK registry and auth retention evaluate one document without a second
  actor; the datalog policies are evaluated by an external library.
- `evaluatePromptCapture` searches a captured text for windows of a document: string search.
- In the generators, the wording of the generated code, required fields and bounds, typify's own rules
  (what it makes of the projected schema) and the search for duplicate declarations; what is inside a
  constant, an enumeration or a default.
- In `check-contracts.ts`, the rules of the radar API's own components, the scanner's patterns, the
  fixture budget walk, dependency policy and status pages: parsing without state.
- In the signalement tools, the golden policy-receipt checker, the contents of the generated vectors
  (signatures by recipe) and the arithmetic of a recipe's length.
- The point arithmetic of build-brief signatures and the Biscuit check; the checker of the MLS
  vector document.

## Plan

Done: all parts of the inventory above the last row, in twelve runs; proofs of all safety properties
that the runs check. What would come next, in this order:

1. `evaluateCausal` over the generations of `ExecutionLineage`, whose executors append to it, with the
   numbering argument of `EventChainProofs`.
2. A restore of the brief storage composed with the reference saga's restored owner.
3. The golden policy-receipt checker, over the corpus of `SignatureCorpus`.
