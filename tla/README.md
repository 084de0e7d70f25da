# Lrnki in TLA+

This directory models Lrnki from extraction runs to a learner's answers: the
admission and judgment of what a run extracts, the publication of graph versions, the enrichment of a graph, the admission of generated
grounding, its ordering and its Study Item Bank, the packages accepted paths travel in, the queues that generate Topic Expeditions and scaffold detours, the Source Expeditions a learner
adopts, the trail and session under study, and the Recall Challenges fought over
its items. TLC checks the models on small instances; for the queues, the requests, the
fights, the packages, the bank and the admission of grounding, TLAPS proves the safety
results for every value of their constants. `PROJECT.json` lists
the runs, the source lines each definition stands for, the hazards, the findings
and the theorems.

## The system

Lrnki turns source documents (or a learner's topic) into a graph of concepts
with prerequisites, writes lessons and study items for them, and lets learners
study the result as an *expedition*. Everything durable is in Postgres. Three
kinds of process write to it: the `kg-worker` command line (sources to published
graphs and enrichments), the `learner-api` servers (HTTP routes, plus two
background supervisors that drain generation queues), and the clients that call
the routes. No process shares memory with another; they meet in SQL statements.

| Part | State | Operations | Hard behaviour | What makes it correct |
| --- | --- | --- | --- | --- |
| Topic Expedition generation (`generateTopicExpedition`, `generationSupervisor`, `PostgresLearnerExpeditionStore`) | rows of `learner_expeditions`: status, fence (`current_operation_id`), claim time, attempts, published assets | start, activate, retry, claim, fail exhausted, fenced progress writes | several processes, crashes, lost replies, takeover of a live attempt, staleness by clock | one holder, only the holder publishes, a published row is complete, spend is bounded, everything settles |
| Operation timeline (`PostgresRunProgressReporter`, `runInstrumentedOperation`) | rows of `operation_runs`: last progress, completion | begin, heartbeat, progress, complete, reap | its heartbeat is the liveness evidence of the queue above | a live run looks alive, a dead one does not for ever |
| Recall Challenges (`recallChallenge`, `PostgresLearnerRecallChallengeStore`) | challenge row, immutable lineup, event log | create, answer, retreat, resume, abandon | two devices, requests sent again, decisions on reads made before the lock, superseded assets | the row agrees with its log, each request counts once, one fight at a time, no fight gets stuck |
| Learner scaffolds (`PostgresLearnerScaffoldStore`, `learnerScaffoldGeneration`) | detours with claim token, attempts, steps, references | request, claim, publish, release, fail, restart, hide, restore | a second queue with other rules, reference publication against a running attempt | content is published once and whole |
| Source expeditions and their assets (`sourceExpedition`, catalog, `adoptSourceExpedition`) | active expedition, asset set identities, accepted catalog | qualify, accept, adopt, activate, open | adoption against regeneration, one active expedition per learner | what a learner opens is the accepted set |
| Study, grading, response log (`gradeStudyResponse`, `PostgresLearnerLoopStores`) | response log, verdicts, lesson reads | grade, record, project | no request reference, authorize then write | the log is a sequence per learner |
| Graph algorithms (`prerequisiteDag`, `deriveConsensusOrdering`, `calibrationClosure`, `expeditionSections`) | none | cut cycles, reduce, order, close, section | ties and cycles | result is acyclic and keeps reachability |
| Claim and grounding admission (`claimAdmission`, `sourceLessGroundingAdmission`, `mapWithConcurrency`) | per batch: samples, three limiters, three stage brackets | probe, draft, plan, answer, judge, sample again, settle | calls in flight when another fails, brackets that wait for limiters, early stopping | fails closed with its root cause, never hangs, settles as full sampling would |
| Extraction runs (`executeExtractionRun`, `applyAdmissionPolicy`, the judges) | candidates, profiles, the stored run | discover, decide, judge labels, extract and judge profiles, store | each stage fails in its own way: the run, an empty profile, a rejection | a stored core was earned by every judge, no evidence is lost but to a verdict |
| Canonicalization and publication (`canonicalizeConcepts`, `buildGraphVersion`, `PostgresStores`) | concept registry, graph versions | capture, decide, publish | the registry moves between capture, check and publication; commands overlap | stable identity, no concept under another's name |
| Enrichment and banks (`runGraphEnrichment`, `generateStudyItemBank`) | derived layers, lessons, items | mint, deduplicate, generate, verify | concurrent LLM calls, supersession | complete layers |
| Accepted path packages (`PostgresAcceptedPathPackages`, `acceptedPathPackageCli`, `seed-accepted-paths.sh`) | package files, manifest, catalog entries | export, validate, reset, install, qualify, publish | tables read one by one beside regenerations and resets, exports beside each other, deaths between the steps of a seed | what is offered was published once and is whole; a seed is all or nothing |
| Neural clients (`liteLlmRetry`) | per call | call, retry | two retry budgets | bounded calls |
| Leaderboard, inspection, ingestion, `kg-worker`, learner app, admin lab | none or read only | projections, parsing, wiring, screens | none that shared state decides | not modelled |

`learnerKnowledgeAvailability.ts:37-57` currently pauses synthetic topic
generation and generated support steps: their routes answer 409 and the topic
supervisor does not start. The code is kept and tested, and `TopicGeneration`
models it as it runs when the capability is available. Recall Challenges are
live.

## Modules

### Topic Expedition generation

| Module | What it is |
| --- | --- |
| `ExpeditionLease` | abstract: what `LearnerExpeditionStorePort` promises of a generated row |
| `TopicGeneration` | the rows, the learner's requests, the supervisors, the attempts |
| `TimelyGeneration` | `TopicGeneration` composed with the pace of heartbeats |
| `TopicGenerationProofs` | theorems about `TopicGeneration` and `TimelyGeneration` |
| `MCTopicGeneration`, `MCTimelyGeneration` | symmetry and the order tokens are used in |

**State.** `exp[e]` is a row: its `status`, `op` and `type`
(`current_operation_id`, `current_operation_type`), `asset` (`enrichment_id`),
`attempts`, and the ages of `claimed_at` and `updated_at`. `beat` and `open` are
`last_progress_at` and "not completed" of the `operation_runs` row that
`(op, type)` joins: the only operation row any query about this expedition
reads. A `Token` is the random operation id one claim installs; it names the
attempt too. `pc[t]` is the next statement of an attempt, `host[t]` the process
it runs in, `sup[p]` where the supervisor of a process is in its pass,
`retrying[h]` a Retry between its two statements. `latest`, `resets` and `built`
are history: the last claim of a row, its Retry resets, and the attempts whose
layer and bank are stored.

**Steps.** One SQL statement is one step, so anything can happen between two
statements: a claim by another process, a Retry, a crash, a heartbeat. Every
statement of an attempt may also fail, having committed or not (a lost reply).
`FencedWrite` is `updateProgress` seen by its caller: it finds its row, finds
none (the claim is lost: stop), or is rejected. `BestEffortWrite` is the write of
a catch block. `BeginOperation`, `CompleteOperation` and `AbandonOperation` are
the frame `runInstrumentedOperation` puts around the work. A supervisor pass is
`ReapOperations`, `FailExhausted`, then `Claim` until the process is full or the
queue is empty (`PassEnds`), with `PassFails` for its catch block;
`ClaimUndelivered` is a claim that commits while no attempt starts. The scaffold
supervisor of the same process reaps the same table (`ReapForScaffolds`).

**Left out.** What the LLM calls compute: an operation succeeds, yields no
concept, or fails transiently or for good. A pass computes its cut-off once per
use in the code; here each statement compares ages when it runs. A statement is
one step, so no row is ever seen locked by another's statement and `SKIP LOCKED`
skips nothing. A reset's two UPDATEs are one step, since a transaction's writes
become visible together.

### Recall Challenges

| Module | What it is |
| --- | --- |
| `RecallCombat` | the fold of `foldRecallChallenge`, one event at a time |
| `RecallFight` | abstract: one fight after the other in a scope, by those rules |
| `RecallChallenge` | the rows, the requests of several handlers, superseded assets |
| `RecallCombatProofs` | lemmas about the fold: what one event returns and keeps |
| `RecallFightProofs`, `RecallChallengeProofs` | theorems about the two |
| `MCRecallFight`, `MCRecallChallenge` | order of references and ids, symmetry |

`RecallCombat` and `RecallFight` answer whether the *game* is right: wards are
conserved, no fight gets stuck. `RecallChallenge` answers
whether the *protocol* implements it: a request reads a row and its events
without a lock, folds them, decides, and appends in a second transaction that
holds the row lock and checks three things: the reference is new, the row is
still active, the sequence is the one that was read. A row carries the fold
of its events, their count and their references instead of the events, which is
all a reader takes from them. `Receive` is a request that comes in for the first
time or again with the same reference; `Decide` is the second read with
`openActive` and the decision; `AppendEvent` the append; `BeginCreate`,
`ListChallenges`, `RetireSuperseded` and `InsertChallenge` the statements of a
create. `Supersede` and `OpenOrClose` are what the rest of the system does to the
expedition underneath.

**Left out.** Which items are eligible, locked scopes, and the ranking of a
lineup: any sequence of distinct items may be a lineup. The reshuffle counter of
a board (presentation only). The read after a create, which only makes its
answer. Reading the events, opening the expedition and deciding are one step:
nothing read by `openActive` is used after the decision.

### Detours and Source Expeditions

| Module | What it is |
| --- | --- |
| `ScaffoldDetour` | detour rows and steps, claims, attempts, the scaffold supervisor |
| `SourceExpedition` | an enrichment's current assets, its catalog entry, a learner's row, the requests |
| `StudyWithSupport` | both together: references published into detours, and graded from them |
| `StudyWithSupportProofs` | theorems about the three |
| `MCStudyWithSupport` | profiles of bounds, outlines, symmetry of handlers, token order |

**State.** `detour[d]` is a row of `learner_scaffold_detours` with its steps;
`op` is `latest_operation_id` and `token` is `claim_token`, which a claim sets to
one id and later statements clear at different moments. `run[t]` is the
`operation_runs` row of an id, `pc`, `of`, `on` and `sup` as in `TopicGeneration`.
`assets` is the pair of generations whose lessons and items are current: an
asset-set identity hashes ids that no generation reuses, so the pair stands for
it. `req[h]` is a request: which statement it is at and what it has read.

**Steps.** A transaction on one locked row is one step, as is the check of
`currentSourceExpeditionAssetsMatch` with the write that follows it, because the
rows it checks are held `FOR SHARE` until the commit. Everything before is
separate: the learner's row, the catalog entry, the lessons and the items of
`qualify` are read by statements of their own, the last two in either order, so
what a request decides on may be torn. `LoadItem` and `Append` are the two halves
of grading. `PublishReferenceStep` locks the assets, then the expedition, then the
detour, and takes the fence of an attempt in flight. An operation may end twice:
`Reaped` and `Complete` both write its status, as the code does.

**Left out.** What an attempt generates is one of a set of outlines (a step
without pin, and one with). Which pairs qualify is a constant here; the rule is in
`ExpeditionTrail`.

### From extraction runs to a trail

| Module | What it is |
| --- | --- |
| `ExtractionRun` | one run over one source: admission, label judge, profiles and their judges, the store |
| `GraphPublication` | the concept registry, canonicalization artifacts, builds and published versions |
| `MCGraphPublication` | two domains that share a label, slugs that meet, a run under quarantine |
| `PrerequisiteGraph` | cycles, ancestors, transitive reduction, Kahn's order, as operators |
| `GraphEnrichment` | rescue, labelling, minting, the verbatim floor, merging, request validation |
| `ConcurrentMap` | what a call of `mapWithConcurrency` has in flight, as a value |
| `ClaimAdmission` | one batch of claims: waves, limiters, stage brackets, failures, aggregation |
| `GroundingAdmission` | probes and drafts by concurrent maps, their claims, what is kept |
| `GroundingAdmissionProofs` | theorems about `ClaimAdmission` and `GroundingAdmission` |
| `MCGroundingAdmission` | batches: every verdict on one claim, passages, failures, more candidates than workers |
| `ConsensusOrdering` | K draws tallied into edges; banding and its calibration; the persist |
| `StudyItemBank` | lessons, admission, blueprint, the chains of three item types, two persists |
| `FilteredLists` | what filter and flatMap keep of a list, by places |
| `LearningPathProofs` | theorems about `ExtractionRun`, `GraphPublication`, `StudyItemBank` and `AcceptedPackages` |
| `AcceptedPackages` | the operator's paths, exports, and the seed that resets, installs and publishes |
| `ExpeditionTrail` | difficulty floor, Legs, summit, and the part of a trail that can be offered |
| `StudySession` | qualification, verdicts, reads, answers, and the session composed of them |
| `GraphProofs` | theorems about `PrerequisiteGraph`, `ExpeditionTrail`, `StudySession`, `ConsensusOrdering` and `GraphEnrichment` |
| `MCLearningPath` | these machines, and the rules of a Recall fight, as parts of one run; their cases and judges |

**Extraction.** `extraction` is the stage that is next, `candidates` what was
admitted, in order, and `profiles` their evidence; `proposals`, `answers` and
`vetoes` are history. One judged batch is one step, and a stage whose failure ends the
run is `RunFails`. `Runs` of `GraphPublication` are what this part stores: a build
refuses a core without a complete profile, which `StoredRunIsEarned` excludes.
Left out are reason codes, quality issues, the validity of a label's text, and the
mentions a discovery quotes.

**Publication.** `registry` is the `concepts` table, `artifacts` the
canonicalizations in the artifact store, `versions` the published versions with
their snapshot artifact, and `builds` what each `kg-worker` process holds between
the check of the registry and the transaction. A concept id is a hash of the IRI,
so the IRI stands for both; a slug is a sequence of words and suffixes, so that the
label "a 2" and a second "a" compete for one slug as they do in `mintIri`.
`Canonicalize` captures the registry and takes any judgment of the adjudicator
on pairs within a domain; the cluster rules decide merge or quarantine. `Build` is the
load and refine stages up to `assertCompatibleConceptRegistry`: what it reads after
the registry is nothing, and what it read before does not change. `Publish` is the
transaction: `ON CONFLICT DO NOTHING` on the key, failure on an IRI in use, and a
foreign key that is content with any concept of the id. A version is read back
through the registry (`Snapshot`), where its labels are. The candidates of a run
come in any order, since `runsForBuildByIds` does not sort them.

**Admission.** One batch is one asynchronous call, so its state is what is on the
heap: `samples` is `samplesByCandidate`, `wave` the requests of the wave, `queue`,
`running` and `done` the fields of each limiter, `failure` is `firstFailure`,
`limiter` how `whenSettled` stands and `bracket` where each stage is. JavaScript runs
the continuations of one answer to their end, so a step is an answer, a failure, or
the end of a write to the timeline, with all that follows: `Passed` retires a task,
schedules the next role's and pumps; `AbortRoles` is `fail` with its aborts.
The brackets are entered one by one before the first task is released, and close or
break as their limiter settles; any of the six writes may fail too. The judges' verdicts
are drawn before the batch (`objections`), for samples that may never be asked
for, so that the settlement can be compared with the one all samples would give.

**Packages.** `layers` and `entries` are what the database stores and offers of each
path, `files` and `digests` the package files and what the manifest says of them,
`exports` and `seed` how far each command is. An export reads the entry and each table
by a query of its own (`ReadTable`), in any order, and seals what it read if the lessons and
items are those it had qualified; it then writes the file and, from the manifest it read first,
the manifest. A seed validates, resets, loads and validates again, installs in one
transaction, qualifies each path and publishes all entries in another; the commands
`install` and `install --allow-partial` begin at the load. Each may die after any step.
`sharing` are the paths that mention one concept: its id is minted anew in a database
without it, and rows of two databases do not fit together. An asset-set identity
hashes ids of lessons and items, not their sections and options; `OfferedIsWhole` is that no path is offered
without them, whatever an export read across a reset.
Left out: the header fields, digests as text and the configuration hash; the
foreign keys an export follows (a row set here is what it selects); a second seed at the
same time. A qualification with its publication (`Sanction`) is one step, since
`SourceExpedition` has its reads.

**Correspondence.** Node ids are numbers whose order is the code's `localeCompare`
of ids or labels, so a helper that sorts is deterministic here too. The
judges, the proposer and the embedding are external: an action takes any of their
answers. One judged batch is one step, and a batch a call failed in ends the run
where the code's does. `GraphEnrichment` keeps the order the use case works in:
rescue before labelling, the budget per anchor and per run before the label
check, the verbatim floor before merging. In `StudyItemBank` a generation `g` is
a job; the chains of its item types run beside each other and are joined, and
each persist is three steps, one per snapshot: `Retire` starts the UPDATE that
supersedes, `Sweep` ends its wait for a transaction that has touched the same rows
and starts the DELETE, `Write` has the inserts and the commit.
`StudySession` stores what the code stores (verdicts, reads, latest outcome per
item) and derives everything else on each read.

**Left out.** Prompts and texts: an item is its node, type, draft number and
whether its citation is verbatim. Two option selects per node stand for many. Matching
and impostor boards inside a session, scaffold steps inside its trail, and
awards. The layer of a Topic Expedition, which has no source, and its definition
judges are outcomes in `TopicGeneration` only.

## Runs

Each run asks one question of the system. Sizes are distinct states.

| Run | Instance | Shows |
| --- | --- | --- |
| `topic_safety` | 1 expedition, 2 processes, 3 claims, budget 2, 1 Retry, 1 fault (353 000) | published rows are complete and newest; spend is bounded; nothing but a Retry's write reopens a ready row; the lease is implemented |
| `topic_settles` | 1 process, 4 claims; 2 faults and a Retry on one row, or two rows on 1 slot with 1 fault (372 000) | with fairness, every start and Retry ends `ready` or `failed`, also where two rows wait for each other |
| `topic_timely` | heartbeats every tick, stale after two (76 000) | a healthy attempt never loses its claim, so a row is worked on by one attempt at a time |
| `recall_safety` | 2 handlers, 2 challenges, 2 references, 2 asset sets (276 000) | row and log agree; a committed request is not refused; the protocol is one fight after the other |
| `source_study` | 1 detour, 1 process of 2 slots, 2 handlers, 2 generations (421 000) | detours keep their content, their budget and settle; what is offered, adopted, activated and answered is an accepted set that existed; references follow the active expedition |
| `learning_path` | the nine parts with their cases (329 000) | a stored run's cores were earned by every judge and its evidence kept; versions extend their base and carry their runs, and name their own concepts when no publication came between; consensus is sound and the layer whole; nodes keep published identity; a batch under admission settles, throws its root cause, leaves nothing running, and keeps the text full sampling would; the bank accounts for every key and replaces whole generations; packages offer only whole published sets, all or none of a seed; the trail keeps its gates, is greatest, cut into winnable Legs, and has no dead end; a long fight loses no ward and is never stuck |
| `topic_retry_race`, `topic_reap`, `recall_abandon`, `recall_supersede`, `publication_overlap`, `map_rejection` | | a comment the code does not keep (below) |

**Why the bounds are enough.** An attempt is overtaken by one newer claim, and
reset by one Retry, so three tokens give an overtaken attempt, its successor and
the one after a reset, all alive in two processes. One fault is each crash, lost
reply or failed statement in every position; two faults, where needed for
liveness, are a failed last write after a failed statement. In `topic_settles` the
choice between one row with all of them and two rows with one fault is a constraint on
starts, requests and faults only; no step under fairness is cut. `StaleAfter = 0`
makes every row claimable one tick after its last sign of life, the worst case
for safety; `topic_timely` uses a window of two ticks and a pace of one, since
the code's window (120 s) is four heartbeats (30 s) and a takeover needs at
least one to be missed. For Recall, two handlers are enough for every race for a
lock or a sequence number, and two references for a request sent again around
one that is not; three items and nine events rotate the queue fully, empty the
shield and restore it, around a board of two pairs left dirty (the `fight` part of
`learning_path`). The number
of faults, requests, challenge ids, references and asset sets are bounds of
`Next`; the ages saturate one tick past the window.

`source_study` starts from one of a few profiles: each bounds the requests,
retries, faults and calls of one concern, and the interesting crossings (a hide
against a fault, a Retry, adoption against a regeneration, a reference against an
attempt in flight) are in one profile each. One process with two slots gives an
overtaken attempt and its successor, which is what a second process would add. A
term already explained needs one detour; a torn read needs two
generations. Handlers are symmetric; tokens are used in order. In
`learning_path` one behaviour runs one part, so the parts multiply nothing.
An extraction has two discovered candidates: every decision on one beside a quarantined
one, two cores, atoms that share a key or take another's, and candidates without a
decision; it has two extractions besides an empty one, which quote a passage the
source lacks, for one mention allowed.
Publication has two artifacts, two versions and two builders: a first version and
one that extends, replays or overlaps it; five selections of four runs over two
domains. The cases of the other parts are families: every set of gates over four concepts with their trust and
three choices of floored concepts; three shapes of five concepts for the Legs, with every choice of those that
carry an item, two difficulty profiles and one unscored concept; every mix of assets over
two graphs of four. `LegCap` is 2 for the code's 5, so that five concepts overflow a
Leg; K is 3, so a pair is decided 2 to 1 or 3 to 0, or tied 1 to 1 when a draw is silent;
the ordering judge may drop or reverse one edge of two cycles that meet. The bank
runs one chain over three nodes with every verdict, two chains beside each other,
the chains of a source layer, and three generations whose persists overlap, the
first being over before the others begin, and the others drafting in their order, since
what they do before a persist is seen by no other. Packages have two paths and two exports: an empty database with
four commands, one built, published and exported with three, and, with a concept in
both paths, that one or one reset and partly built anew with two; one export at a time reads tables, so that what two have in
flight is their manifest. Admission has one claim with all 64 choices of six verdicts,
four claims of three passages that a second sample divides, two candidates with two
faults, and three candidates on two workers, whose faults are in the maps. Quorum 2 of
3 samples and two judges are the code's numbers; caps of 1, 1 and 2 make each limiter queue. Both runs end when the bounds are
reached, so deadlock is not checked in them.

**Fairness.** `FairSpec` assumes of the code that time passes, that a supervisor
that can run a pass runs it (a 15 s interval starts one whatever happened to the
last), that a dead process is restarted, that a statement gets an answer and an
LLM call a result or a timeout, and that a Retry's transaction ends. Each is weak
fairness on one action, or on the alternatives of one program counter. Nothing
is assumed of learners, of heartbeats, or that any attempt succeeds. Faults are
bounded in number, not in place: a system that crashes for ever settles nothing.
`DetourFairness` is the same for scaffolds: time passes, a pass starts, goes on and
ends, a dead process is restarted, an attempt's next statement gets an answer. Of the
parts of `learning_path` only the admission claims liveness (`AdmissionSettles`), from weak
fairness on its steps together: a call answers or times out, and a write ends.

**Mutants.** Each property has a mutated definition, beside the original under
the comment that says what the bug would be; with it TLC finds the property
violated.

## Proofs

Eight modules hold theorems. Each is for every value of the constants that its named
assumptions allow. The pattern is the same everywhere: an inductive invariant, a lemma per
kind of write that says what it makes of a row, one per action or shape of action that
says the invariant survives, and theorems that combine them.

**Topic Expeditions** (`TopicGenerationProofs`), for any expeditions, processes, handlers
and tokens: `TypeCorrect`, `PublishedIsComplete`, `SpendBounded`, `ReadyIsStable`
(an action property), `GenerationImplementsLease` (the refinement `Spec => Lease!Spec`) and
`HealthyKeepsClaim`. `PublishedAttemptIsComplete` alone is not inductive: `IInv` adds that the
fence of a row is the row's latest claim (`HolderIsLatest`), that an attempt reaches
`publish` only after its bank is stored, that a claimed attempt has a row, that tokens not
yet used have neither host nor row, that a Retry's row exists, and that the claims of a
row are at most its attempts plus `MaxAttempts` for each reset (`ClaimsArePaid`). Every step
of an attempt has one of three shapes (`AttemptShape`), so invariance and refinement treat twelve
actions as three. For the timely properties, `PaceInv` adds that a healthy attempt has a beat
no older than `Pace` and a claim that is not older than the beat, so that no cut-off of the
claim query is reached. This holds for `2 * Pace <= StaleAfter` (the code: 30 s and 120 s) and
not for a shorter window: TLC finds a lost claim with a pace of 2 and a window of 3. It
also takes one Retry at a time (`OneRetryAtATime`, a hypothesis of this theorem only), since
two that race reset a running attempt: finding 1.

**Recall** (`RecallCombatProofs`, `RecallFightProofs`, `RecallChallengeProofs`), for any
challenges, references, handlers, items, boards and asset sets: `FightConservesWards` of the rules;
`ChallengeTypeCorrect`, `RowMatchesReplay`, `CommittedIsAccepted`, `ChallengeImplementsFight` (the
refinement) of the protocol; and `RowsConserveWards`, which the refinement carries over
from the one to the other. The `IInv` of the protocol is `StatusMatchesReplay` with what
an append relies on: the sequence a handler read stands for the fold it read, on which
its event is valid (`SequenceStandsForFold`), so the event a transaction commits at that
sequence is valid for the row as it is locked; locked rows stay active and have one create that
locked them (`LocksAreHeld`); a committed reference stays committed. No induction over the
log is needed, because the row carries the fold and `PlayedFacts` says what one event does
to it. For the wards, each event is shown to move items between the queue and the cleared, and
to drop or add none. `RightAnswersWin` is about the fights still to come: whoever answers right from here
on wins within `RightAnswersNeeded`. The play is a recursive function, so it is first shown that there is one
(`PlayExists`); `AnswersLeft` then measures a fight (a board for each later item, one more for the item at
hand when its board was missed, and the pairs left on it) and falls with each right answer until
nothing is left (`RightAnswerLeaves`, `PlayEnds`).

**Detours and Source Expeditions** (`StudyWithSupportProofs`), for any detours, processes,
attempts, handlers, generations and outlines: `DetourTypeCorrect`, `ContentFollowsStatus`,
`StepsComeFromOneAttempt`, `DetourSpendBounded`, `SuccessIsEarned`, `OfferedSetsExisted`,
`AdoptionsAreOfAccepted`, `AnswersFollowAdoption`, and the action properties
`ActivationIsCurrent` and `ReferencesFollow`. `DetourInv` joins the properties with the fence
(`FenceIsLatest`: a token is the latest claim of its row), with what an unused
token is (`FreshIsUnused`), and with an operation that reaches its completion having
published (`CompletedHasPublished`); a lemma shows that a step of an attempt, a release, a hide and
the other writes keep a row's steps or replace them by those of its fence. `SourceInv` says
what is true of reads long past: an identity that was read as adopted had been accepted, one that
was current had existed (`ReadsWereTrue`), and the histories only grow (`HistoryIsOrdered`), so a
request that acts on stale reads still acts under an identity of its learner.

**Extraction runs** (`LearningPathProofs`), for any source and whatever the models answer:
`StoredRunsAreEarned`. The properties of a stored run come from several stages back, so the invariant
`ExtractionInv` carries each from the stage that makes it true: a core is selected on evidence
when the atoms are joined (`CandidatesStand`, from `AtomsFacts` and `FlattenKeepsAll`) and stays
so because later stages only demote; a profile is what was found until the definitions are judged
(`ProfilesAreFresh`), and from then on holds no definition a verdict is against and has lost nothing
to anything else (`ProfilesStand`). A definition that is of something else leaves the definitions of
its core for the mentions, so that a judge's verdict can be told from a loss (`ProfileStands`).

**Publication** (`LearningPathProofs`), for any runs, selections, registries, adjudications and number of
processes: the action property `ThePublicationIsFaithful`. A version names its concepts by IRI and is read
back through the registry, so what a later version keeps of it depends on rows that other publications
write. `PublicationInv` says that a key and an IRI have one row (`RegistryStands`), for which a publication
is refused unless its concepts have as many IRIs as keys (`RowsFacts`, a surjection that loses no
count), and that each version's IRIs are registered and its own (`VersionStands`); then a snapshot is read as it
was written, whatever was registered since (`SnapshotFacts`). Of an artifact it says that no label that was published
is merged into another, since a cluster with two of them is a collision and one with one survives as it, and that merges stay in
a domain (`ArtifactStands`, with the clusters as ancestors of symmetric links). Identities are a fold: a key that is
placed keeps its IRI, and a registered one gets its own (`IdentitiesFacts`). Then a build in hand has its base, its runs
and what it found registered (`BuildStands`), and keeps them until it is published, whatever comes between. That the
concepts are registered under their own labels needs that nothing does: the hypothesis
`seen = registry` of the property; without it the opposite can happen, which is the finding on
`VersionsNameTheirOwn`.

**Study Item Bank** (`LearningPathProofs`), for any banks, generations and verdicts:
`GenerationsAreWhole`. The invariant `BankInv` is about what a persist has seen when it
retires: with one live row of a generation it has seen all of them (`GenerationsAreSeenWhole`),
because a generation's rows are committed together and superseded together, and what its UPDATE finds
superseded after a wait is the rows of whole generations; so superseding what was seen never splits a
generation. The refusals its DELETE sees, a moment later, are whole for the same reason.
`NodesAreAccountedFor` and `ItemsAreEarned` are about what is written. `JobsAreSound` says what a
generation holds at each stage, `ChainIsSound` what a chain holds at each of its steps. The
code keeps several lists of a chain aligned by position: attempts by node, subjects by the
pending ones, regenerations by the vetoed ones, the second judgment by those that succeeded.
`RankFacts` says that counting the places a filter keeps and picking the k-th of them are
inverse; `SubjectsFacts` and `RetriesFacts` apply it to those lists, `VerdictsStand` concludes that both
judgments reach the draft they are about, and `JoinIsSound` counts the items by a
bijection with the keys.

**Packages** (`LearningPathProofs`), for any fixtures, exports and commands:
`OfferedPathsAreWhole` and `CatalogIsSeededTogether`. `PackagesInv` traces everything back to layers an
operator sanctioned: files, digests and what an export holds (`FilesAreAuthentic`,
`ExportsAreAuthentic`), entries, and the seed between its steps (`SeedIsAuthentic`,
`SeededTogether`). It assumes there is a path (`ThereAreFixtures`): with none, the catalog is complete
and empty at once.

**Grounding admission** (`GroundingAdmissionProofs`), for any batches, bundles, verdicts, caps and
concurrency: `NothingOutlives`, `RootCause`, `CallsStayCapped`, `AdmittedStands`. `PipeInv` is
about one wave: a request waits or runs in one role, and a judgment is asked for once
(`EachJobOnce`); while nothing has failed each limiter has counted what it passed on
(`WorkIsCounted`), so that it resolves only when nothing of its role is left to come;
a limiter that has settled runs nothing (`LimitersFollow`), and a bracket closes after its
limiter (`BracketsFollow`). `WaveInv` is about all waves: every target has whole panels of
the first samples, all of them where its judges are divided (`SampledTo`), and every verdict is the
judge's own although requests renumber their targets (`VerdictsAreTrue`). With it the panels are
complete when sampling ends, so `aggregateVerificationSamples` never throws (`LastWaveCompletes`).
`GroundingInv` adds the two concurrent maps, whose cursor has passed only what flies or was answered
(`MapIsSound`). `AdmittedStands` has the hypothesis `Samples < 2 * Quorum`, which the policy the
code ships with (3 and 2) satisfies but its validation does not demand: with 4 and 2, a target
that the first two samples do not object to is settled, although the last two could veto it,
and TLC shows so.

**Graphs and trails** (`GraphProofs`), for any layer and assets: `TheFloorKeepsGates` and
`TheOfferIsGreatest`, `TheLegsPartition` and `TheMarkerMovesOn`. The helpers are loops written as recursive functions. A loop whose measure falls has a
function that computes it (`LoopExists`), and what each turn keeps is true where it stops (`LoopKeeps`). So
the ancestors of a node are the least set that closes under its prerequisites
(`AncestorsFacts`), sorting lists every member once (`SortedFacts`), and the shrinking trail
ends on the union of all ready parts that stand on their own (`GreatestReadyFacts`). The floor is a fold of
contractions (`FoldIsChain`), for which the induction is on the list of floored nodes: after each
of them the gates left are the ways through those that are gone, a trusted gate is a wholly
trusted way, and one that is not has an uncertain edge on a way (`Keeps`, `ContractKeeps`). A way
through one node more is one without it, or one to it and one from it (`LeadsThroughOneMore`). The proof
needs that no edge joins a node to itself, since the contraction of such a node would wire
it to its dependents again; a check of the table `inferred_prerequisite_edges` refuses such rows.

The Legs need one thing more, that no trusted gate leads back to where it came from. The consensus cuts its
certain edges free of cycles, so this is part of `CasesAreLayers`; the floor keeps it, since a trusted gate after it
stands for a trusted way (`FloorIsACourse`), and so does narrowing (`NarrowedIsACourse`). `IsCourse` is what the Legs are
cut of, and `CourseInv` says that every session is over one. Of a set of nodes without a cycle some have
no prerequisite left in it (`SomethingFirst`), so Kahn's order places all of them, each after what it depends on
(`KahnFacts`), and with the orders of stops and of milestones there is always one to pick (`FirstOf`). A milestone claims what is left of its
cone, which is closed under prerequisites, so the claims in turn make up a list of all nodes
(`DraftsCut`). That list is fixed from then on, and a list of sections is described by marks on it (`Marks`, `Cut`): from
mark to mark there is one section, and its milestone is the stop at the mark. Splitting a section adds marks
(`SplitAllCut`), merging takes some away and leaves the last (`JoinSectionsCut`), and whatever is between two marks
is one piece of the list; so the steps of the Legs are the list again (`CutSteps`), and a Leg has an item since each merged run
has one section that does (`LegsCut`). For the marker, the stops of a trail lie along it concept by
concept (`FlattenStrings`, `StopsFacts`). The first concept that is not mastered is on the frontier, and a concept on the
frontier lacks its lesson or an item (`FrontierHasWork`); so something can be played, and a gem can never be
first, because what its concept lacks lies before it (`ProgressIsMade`).

**The consensus ordering** (`GraphProofs`), for any domains, judges, answers and numbers of draws:
`TheConsensusIsSound`. The search for a cycle is one of those loops: what is searched is closed under
successors and holds no cycle, and each turn comes to a new node or leaves one (`SearchTurns`), so it ends
with edges of a cycle, or there is none (`FindCycleFacts`). Cycles taken out one after another leave a graph
without any, and an edge that went can be walked back (`UncycledFacts`). That there is no cycle is stated
as `Cycleless`: no set of nodes each of which has a successor in it, which unlike reachability is easy to
split between graphs that share no node (`CyclelessApart`). The transitive reduction of such a graph loses no
ancestor (`ReductionKeepsAncestors`): of two nodes it parted, those with the fewest nodes between them would
have an edge that is not redundant. `OrderingInv` then says of each concluded domain that its pairs are settled
and that no other domain touches them, `BandingInv` that every scored concept has a band some draw gave it.

**The enrichment** (`GraphProofs`), for any concepts, candidates, labels, answers and caps:
`LabelsHaveOneOwner`. That labels are unique in the node set is not inductive: a dropped or held-out node is
gone from it, and a proposal is not yet in it, but none of them may lose its slot. `SlotsAreOwned` says of all
of these together (`Owners`) that each has a slot of its own and that it is taken, so a slot may only be given
back by the one node that leaves them. `EnrichmentTyped` says that no node is of two of these groups,
`MintingIsCapped` counts the proposals of the anchor at hand with what was admitted, and `PhasesFollow` says
what has not happened yet. The two loops of the code, the adoption of labels and the reservation of proposals, are
folds: their states stay in `Namings` and `Reservable` (`AdoptingFacts`, `ReservingFacts`). A cluster of the merging
stays within a domain since the pairs do (`ClustersFacts`).

**Assumptions on constants**, each checked by TLC in every run: null values are no members,
limits are natural numbers (`SentinelsAreNoMembers`, `LimitsAreNatural`, `DetourSentinels`,
`DetourLimits`, `NoRefIsNoRef`, `AssetsAreNumbered`, `GenerationsAreOrdered`); a board has finitely many
prompts and at least one (`BoardsArePlayable`); an outline numbers its steps without gap
(`OutlineIsOrdered`); what qualifies can be pinned (`QualifiedCanBePinned`); the quorum is between two and
the number of samples, and caps are positive (`AdmissionPolicy`, `GroundingPolicy`); a case of the bank has finitely
many nodes and the three item types (`CasesAreBanks`); a layer has finitely many nodes, each with a
difficulty band and a list of option selects, edges between different ones of them, and no cycle of trusted edges (`CasesAreLayers`); the domains are finite and no concept is in two
(`ConsensusAssumption`, since a node has one Declared Domain); the published concepts of a version differ in
their slots and its candidates and proposals are lists (`EnrichmentAssumption`); what a discovery or an admission answers is a list
(`ExtractionAssumption`); a run has finitely many candidates and a selection is a list of runs, none of them
twice (`PublicationAssumption`).

**How recursion and order are treated.** The library's induction theorems take an operator as a
parameter and cannot be used. Where a proof needs induction it takes a least counterexample
(`LeastNatural`, from the well-foundedness of the naturals): that finite sets of numbers can be listed in
order (`OrderExists`), that joined lists keep what is in each and gain nothing (`FlattenFacts`, `FlattenKeepsAll`), that a
wave has a block per candidate, that a loop which falls in measure ends with what its turns keep.

**Only model-checked.** Liveness (`EveryRequestSettles`, `DetourSettles`, `AdmissionSettles`) and
anything with ENABLED is beyond this prover. Every invariant of a passing run is proved for all values
of the constants.


## Findings

1. `resetGeneration` checks `failed` in one statement and resets in another
   without repeating it, so the Retry its comment rules out regenerates a ready
   expedition (`topic_retry_race`). The window needs an attempt whose row was
   failed under it and that publishes between the two.
2. `failStaleOperations` says it only marks the timeline, but stamps the column
   by which the claim query judges staleness, and so delays recovery by a window
   (`topic_reap`).
3. `lifecycle` answers `applied: true` when its append was `stale` and wrote
   nothing: an abandon that meets another event is confirmed over a fight that
   goes on (`recall_abandon`).
4. `create` retires every active challenge over *other* assets than its own,
   newer ones included (`recall_supersede`).
5. A build checks the registry before its transaction and not in it, so of two
   builds over one captured registry the second can attach its concept to the id
   the first gave a homograph of another Declared Domain (`publication_overlap`).
   Needed: two runs with one label in two domains, built in one selection by the
   one and one of them alone by the other, in this order. `PublicationIsFaithful`
   shows the check is enough when no publication comes in between.
6. `mapWithConcurrency` says no new task is started after a rejection, but only the
   worker whose task failed stops; the others take the rest of the list while the
   caller handles the failure (`map_rejection`). The test of the comment uses a limit of 1.

## Notes

Observed while modelling, without a run of their own:

* `applyDifficultyFloor` contracts floored nodes one after the other and never
  wires an edge that exists already. With two floored concepts between u and v and
  the uncertain one contracted first, the trusted gate through the other is not
  added, although its comment keeps a dependent locked behind the contracted chain.
  `FloorKeepsGates` claims what does hold.
* The restoration comment of `studySessionProjection` (near 612 and 671) does not
  count a known descendant that keeps the node in its closure. The next-stop
  marker can stand in a concept skipped as known whose lesson is unread.
* `gradeScaffoldReferenceOptionSelect` refuses ids superseded since the step was
  read, which its comment does not say. The comment "delete-then-insert" in the
  concept lesson store describes a supersede.
* A hidden detour whose attempts are used up and that is restored goes to
  `generating` and fails at the next pass.
* `runInstrumentedOperation` promises one terminal status; a reap writes one that
  the completion overwrites (`Reaped`, `Complete`).
* Across overlapping generations of one bank, or a crash between its two persists,
  it is no invariant that a current item has a current lesson, that a node has
  either a lesson or an absence, or a key either an item or a rejection.
  `GenerationsReplaceWholly` and `EveryNodeIsAccountedFor` claim what is.
  The comment at `PostgresLearnerLoopStores.ts` 35-36 says that an all-rejected
  regeneration retires stale items and records the rejections. When another
  generation commits between its UPDATE and its DELETE, or while the UPDATE waits,
  the DELETE removes that generation's rejections and the UPDATE leaves its items:
  they stay live beside the rejections of the same keys (`Retire`, `Sweep`, `Write`).
* The order of a run's candidates decides which of two labels with one slug gets
  the suffix. A replay that reads them in another order is refused, by a check
  that is there for other reasons.

* Two exports at once write the manifest each from its own reading, so one digest is lost; the
  next validation refuses the set. `seed-accepted-paths.sh` says a changed package cannot destroy the local database
  (lines 8-9): one that an export writes between the validation and the load does, since
  the load refuses it after the reset. The configuration hash is compared after
  the reset too. A package whose tables were read across a reset may lack rows that no
  check covers (edges, citations); missing sections and options are found when the
  installed path is qualified.
* `getWeeklyLeaderboard` composes a session over every current item of a node, boards and
  unqualified option selects included, while the session a learner studies has the
  qualified option selects only, and grading refuses the others. A concept that
  is complete in the session may therefore never score, although the comment at
  `getWeeklyLeaderboard.ts:45-48` says both read one projection (`NodeIsCompleteInBank` is
  the predicate of the board, as a mutant of the session's).

* The mentions of a stored profile can exceed `maxMentionsPerConceptPerSource`: a
  definition the judge reclassifies and the evidence of a rejected assertion are added after
  the bound was applied, which the comment at `domain-core/src/index.ts:360-366` does not count.
* A split atom may take the key of another discovered candidate that got no decision of its
  own. The run then has two candidates of one key, and is refused by a unique
  constraint after all its calls (`StoreRun`).

## Hazards

`PROJECT.json` lists 40, each at its line with the properties that would catch it.
Four have none. The cut-off of a reap comes from the clock of a Node process
and the stamps from the database's: one clock is modelled. Deadlocks between two
activations are resolved by Postgres, which aborts one; row locks within a statement are
not modelled. A graded answer sent again is appended twice, which nothing in the code
excludes. The budgets of timeouts and 429 answers wait for the retry module.

## Not modelled

* **Neural clients**: retries within one call, without shared state. What a
  caller sees of them, a failure of either kind, is in every module that calls them.
* **Ingestion, leaderboard, inspection, `kg-worker`, learner app, admin lab**:
  parsing, wiring, projections of rows that the modelled parts write, and screens.
* Within modelled parts: what is said under "Left out" above.

## Plan

What is left, in order. Modules: the response log and its readers (the leaderboard, awards, calibration);
the retry budgets of a neural call.
