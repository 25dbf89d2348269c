# slopbench in TLA+

Slopbench runs coding agents on sealed tasks, judges what they leave with offline verifiers, and
publishes result bundles and scores. This directory models the part of it that decides: how one run
becomes a verdict (`runner.py`), how the verdicts of a task set become scores (`reference.py`,
`release.py`), what has to be reviewed, signed and compared before a suite is released or a task
retired (`release.py`, `calibration.py`), when `make verify` may skip a lane
(`repository_verify.py`), and how all of them keep their files straight while processes and people
work on the same directories. Three of the tasks have a small protocol for a subject; their reference
solutions are modelled as well. Paths below are relative to `src/src/slopbench/` unless they say otherwise.

## 1. The system

| Component | State it keeps | Operations | Interacts with | Hard behaviour |
|---|---|---|---|---|
| Result bundle contract, `contracts.py` | `result.json`: classification, reason, gate outcomes, receipt facts, Harbor evidence, retry disposition | construction and its validators | written by the finalizer, read by the evaluator | a combination its validator refuses raises in the finalizer, and the run is lost |
| Finalizer, `runner.py:607-1237` | none: a decision over the files of a trial | `_finalize` and the checks it calls | reads files of Harbor, verifier and agent, each of which may be missing, wrong or malformed | order of checks, several failures at once, partial results of sequential tasks |
| Trial lifecycle, `runner.py`, Harbor, `tasks/*/tests/verify.py` | phases, step results, receipts, evidence, rewards | phases of agent and verifier, checkpoints, finalization, retry | runner starts Harbor, Harbor runs agent and verifier | faults of every party, timeouts, retries that must not forgive |
| Run bundle directory, `runner.py:584-604, 1240-1307`, `hashing.py:55-67` | `output_root/run_id`: manifest, task snapshot, result | `execute_run` | other processes on the same root, edits of the live task | exists/mkdir race, torn copy, death between any two steps |
| Task sealing, `hashing.py` | `slopbench-task.json` with the digest of every input | `seal_task`, `validate_task` | runner, evaluator, reference runs | inputs that change while they are read |
| Run binding, `runner.py:203-576` | none | `_validate_run_binding`, `_validate_harbor_boundary`, `_harbor_config` | manifest, task, Harbor configuration | a long list of field comparisons |
| Reference evaluation, `reference.py` | run manifests, `evaluation.json` | `write_reference_runs`, `build_reference_evaluation` | runner's results, evaluator | manifests rewritten under results that stay; which report is the final one |
| Evaluator, `release.py:1048-1205` | the raw vector being read | `compute_evaluation` | files of the operator, read one after the other | digest and contents are read separately |
| Aggregate metrics, `release.py:897-993` | none | `_aggregate` | evaluator, disclosure, regression | integer rounding, empty denominators, exclusion |
| Disclosure, bridge, retirement, `release.py:1208-1445` | public aggregates, bridge reports, retirement chains | `build_held_out_disclosure`, `build_bridge_report`, `validate_retirement` | evaluation results of two task-set versions | what may be published when |
| Attestation, `release.py:1448-1599` | signed statements | sign, verify | evaluation and result files, an external trust root | files that change between statement and signature |
| Release audit and regression, `calibration.py` | evidence manifest, readiness report, regression flags | `audit_release`, `build_regression_report` | all artifacts above | gates that pass for lack of evidence |
| Rule coverage, `coverage.py` | a coverage manifest | `validate_coverage` | task set | none |
| Verification lanes, `repository_verify.py`, `Makefile` | fingerprints and stamps | write fingerprints, run lanes | `make`, the working tree | edits during a lane, a make that is killed, a fixed temporary name |
| Command line, scripts | none | call the above | | none |
| Task repositories, `src/tasks` | exercises, reference solutions, verifiers; three of them keep state between calls | watch transitions, pages, leases | handed to agents; a runtime, a reader, owners with clocks | late and repeated reports, a list that changes between pages, stale clocks |

What makes each component correct:

- *Finalizer and trial.* A pass is earned, blame is earned, a gate published as passed or failed is
  so, a retry never gives an agent a second chance, every attempt ends, and nothing but a published,
  self-consistent bundle comes out.
- *Run bundle directory.* Harbor runs on the pinned task, one process owns one bundle, a published
  result stays.
- *Reference evaluation and evaluator.* What is scored is what was bound, nothing superseded enters,
  a refusal has a cause.
- *Aggregate metrics.* Exclusion changes no score, perfection is not a matter of rounding, a pass
  that counts in full never lowers a score.
- *Disclosure, bridge, retirement.* A task leaves the active set only with a publication of its own
  contract; what a retirement rests on is a comparison of like with like.
- *Attestation and audit.* A release gate passes only on bound evidence about the tasks as they are
  sealed, and on signatures over exactly the files that were compared; an objection is never lost,
  and support never closes a gate.
- *Verification lanes.* A lane that is skipped would pass, in the eyes of make.
- *Reference solutions.* The state a solution returns is what the runtime around it holds, retries
  are bounded, a reader of pages misses nothing, a lease has one holder; alternates and later steps agree with what
  they replace, and no one takes another's cursor.

## 2. Modules

| Module | Models | Uses |
|---|---|---|
| `Results` | the result bundle, its validators, the retry disposition, and what a reader may rely on | |
| `Finalizer` | the decision procedure of `_finalize`, without variables | `Results` |
| `TrialContract` | the abstract specification: publish one publishable bundle or none, retry only what allows it | `Results` |
| `Trial` | Harbor, agent, verifier, their faults, `_finalize`, retries | `Finalizer`, `TrialContract` |
| `TrialProofs` | theorems about `Trial` | `Trial`, TLAPS |
| `RunBundle` | `execute_run` as steps of concurrent processes on shared directories | |
| `RunBundleProofs` | theorems about `RunBundle` | `RunBundle`, TLAPS |
| `Aggregate` | `_aggregate`'s quality, reliability and selection | `Results` |
| `Evaluation` | operator and evaluator over the files of a task set | `Aggregate` |
| `VerifyLanes` | `make verify`: fingerprints, lanes, stamps, edits, interruption | |
| `TaskSets` | task sets, results, bridges and retirement records, without variables | |
| `Publication` | successive task sets, the `bridge` and `retirement` commands among rewritten files | `TaskSets` |
| `Readiness` | contracts, the evidence manifest and the gates of `audit_release`, without variables | |
| `Release` | maintainers, signing and verifying, an audit that reads document by document | `Readiness` |
| `Watch`, `Pages`, `Leases` | the reference solutions of three tasks, each with its environment | |
| `Solutions` | the three as one specification, one of them in each history | `Watch`, `Pages`, `Leases` |
| `VerdictProofs` | theorems about the truth of `Trial`'s verdicts | `TrialProofs`, TLAPS |
| `EvaluationProofs`, `VerifyLanesProofs`, `PublicationProofs`, `ReleaseProofs`, `SolutionsProofs` | theorems about the module of that name | TLAPS |
| `MCTrial`, `MCEvaluation`, `MCRunBundle`, `MCVerifyLanes`, `MCPublication`, `MCRelease`, `MCSolutions` | instances for TLC | the above |

The modules compose along the bundle: `RunBundle` is the part of `execute_run` around a trial and
treats what is between Harbor's start and the result as one step; `Trial` is that step in detail;
`TrialContract` says what comes of it; and `Evaluation` lets a run publish any bundle the contract
allows (`PublishableVerdict`, assumed of its constant `Verdicts` and evaluated by TLC), so it needs
none of the trial's detail. A definition whose comment says *Mutant* is a slip a maintainer could
make in the definition after it; no specification uses it, and each property of a passing run is
violated when one of them takes the place of the original.

### Trial and Finalizer

A trial goes through `stage`: setup, then agent and verifier of each phase, report, finalize, and
done or lost. `work` holds the gates that the repository *really* satisfies after each phase and
`faults` what *really* went wrong. Neither is visible to `_finalize`, which reads `trial` (Harbor's
`result.json`), `outputs` (evidence, reward file and receipt of each phase) and the exit code. The
properties compare its verdict with that truth.

| Action | Code |
|---|---|
| `SetUp`, `SetupFails`, `AgentFinishes`, `AgentInterrupted`, `StopsEarly`, `HarborDies` | Harbor and the agent, from the exceptions of `runner.py:97-114, 832-859` and the trial layout it expects |
| `VerifierReports`, `VerifierMisreports`, `VerifierFails` | `tasks/tracer/tests/verify.py`, and a verifier that is defective |
| `Checkpoint` | the step policy `runner.py:308-335` insists on: the next phase needs a reward of one |
| `HarborReports`, `HarborMisreports` | `result.json`, right or with a fault in it |
| `Finalize` | `_finalize`: a bundle, or an exception and no bundle |
| `Retry` | the operator, with a manifest whose attempt is one higher |

Data is abstracted to what the checks compare: digests and revisions to whether they match, checks
of a gate to "none", "passed" or "failed", a receipt to its kind of file, its bindings and one claim
per gate. Exceptions that share a classification and a reason have one representative. A receipt
with a symlink in its place, one that cannot be parsed and one that is not text are told apart,
because the code treats each differently. `FinalizeRaises` is the set of ways in which `_finalize` ends
in an exception that nobody catches: evidence, receipt or reward file of the judged phase that is not
UTF-8 (`UndecodableText`, in the order in which they are read), a total of Harbor's that `UsageMetrics`
refuses, and a file below the bundle that `ArtifactDigest` cannot record, whichever phase left it
(`LeavesUnrecordable`). A Harbor result that is not text is an invalid result like another.

### RunBundle

A process is a program counter; the shared state is the live task (`live`, path by path) and the
bundle directories (`dir`). `Validate` and `CopyPath` take one path at a time, because another
process or an editor can come between two reads. `Look` and `Claim` are `exists` and `mkdir`.
`Finalize` and `Publish` are the temporary file and `os.replace`. `Kill` may come anywhere. A
tree has the pinned digests exactly when every path of it is pinned: that is what SHA-256 is taken
to give. Removal by people, in particular of a whole bundle directory, is in `Evaluation`
(`ClearOutput`), not here.

### Evaluation and Aggregate

A slot is a task and a pair index. Every file written for it has an edition, which stands for its
digest. The operator runs, retries, replaces, regenerates and clears; `Bind` is
`build_reference_evaluation`, one step because its user waits for it. The evaluator is not so
lucky. For each slot it takes five steps, between any two of which the operator may act: `HashManifest`
and `HashResult` compare digests, `LoadManifest` and `LoadResult` parse what is there by then, and
`TakeTrial` checks what was parsed and appends the trial. `raced` remembers the slots where a file was
rewritten between its digest and its parse. `Quality`, `Reliability` and `Selection` are the integer
formulas; `Accept` stands for the `EvaluationResult` that carries them. A passed review gate counts
for what its calibration says (`ReviewQuality`, in whole basis points per gate before the vector is
summed up), and the checks of `compute_evaluation` on that calibration are `ScoreBound` and `Calibrated`.

### VerifyLanes

`tree` is the working tree, a number of an edit for each path; `input` is the fingerprint file of
each lane (a fingerprint *is* what was read) and `fresh` the lanes whose stamp is not older than it,
which is all that `make` asks of modification times. A make goes through `Start`, `FingerprintPath`
for every path, `WriteFingerprint` for every lane (`_write_fingerprint` leaves a file alone whose text
is the same), `Refreshed`, then `StartLane`, `Examine` path by path and `EndLane` for the lanes in any
order, and `Finish`. `Edit` comes between any two steps and so does `Interrupt`. `Included` is
`lane_includes`; `Examined` is what the commands of a lane read; `Irregular` contents make the
fingerprint raise. `Commands` are the commands of a recipe, each with whether make sees its status: a
line of the Makefile joins several by `;` in a shell without `set -e`, so only the last one of a line
counts. In the `generated` lane the diff of the task set (`Makefile:73`) and that of the evidence
(`Makefile:87`) are not last. `Passing` is what make sees, and the properties are about that.

### TaskSets and Publication

A task set is a visibility and a digest for each of its ids; a result is a campaign run on it. The
predicates of `TaskSets` are the checks of `build_bridge_report` (`Bridgeable`) and of
`validate_retirement_models` (`RetirementAccepted`). In `Publication` both commands read the two result files twice,
once to parse and once to hash them (`ReadOrder`), one file in a step; results, bridge and proposed
set may be rewritten by `Evaluate`, `WriteBridge` and `Propose` between any two reads. `Retire` is the
end of `validate_retirement`: the bridge is built again from what was parsed and hashed and has to be
the bridge of the manifest. `Raise` may end a command anywhere, so every refusal is covered by it.
That the proposed set then becomes the active one is the maintainers' part of it, external.

### Readiness and Release

`Gates` has one entry for each gate of `audit_release`, over contracts (`Contract`, by digest) and the
evidence manifest. In `Release`, maintainers edit and seal tasks, add reviews, expert runs and audits,
disclose, run, score, bind comparisons and revoke signers (`Maintain`, at most `MaxWork` steps).
`StartCommand` is the half of `build_attestation_statement` that parses; `Sign` and `Verify` are the
half that hashes, and what they hash need not be what was parsed. The audit parses the manifest
(`StartAudit`), compares the digest of the task set (`ResolveTaskSet`), parses it (`ParseTaskSet`),
validates the contract of each task against it (`ValidateContract`) and then once more, for the gates
(`ReadContract`); whether the evidence is in order is asked of what was read (`Prepared`). For each
bound comparison it resolves the files by digest (`Resolve`), parses them from their paths
(`ParseComparison`) and verifies the signature (`VerifyComparison`). Files may be written between any
two of these, which `raced` remembers of the comparisons. Evidence that the audit refuses, such as a
review by the owner of the task, is not `InOrder` and no report comes of it. A task may be of the
category `tracer`, which no release has. `Conclude` writes the report. `ssh-keygen` is external and accepts what an allowed signer signed.

### Watch, Pages, Leases

`Watch` has the transition function of all three steps of `state/watch-subscription`, once as the
oracle solution has it and once as the alternate has it. Around it is the runtime it is written for,
which is not in the repository: it carries out effects, opens connections, lets timers fire, and
reports by `mail` that may be delivered late, twice and in any order. `Pages` has `paginate_events` of
two steps of `feature/event-pagination`, oracle and alternate, with a client that reads page after
page while events come and go. Each of these four solutions writes cursors of its own format
(`ImplementCursor`, `ReviewCursor` and the alternates'), and only takes those. `Leases` has `acquire` and `renew` of `diagnosis/lease-expiry` with owners that `Look` at the
clock and `Call` some time later.

## 3. Runs

| Run | Instance | What it shows |
|---|---|---|
| `trial_single` | one phase, three gates of which two apply, two attempts, **every** receipt, one fault per attempt, fair; 269,000 states | verdict and truth agree for each receipt crossed with each fault, and every attempt is finalized |
| `trial_sequential` | two phases, two gates, two attempts, receipts with every combination of passed and failed claims and one of each broken kind, two faults per attempt; 1.8 million states | the same with checkpoints, partial results and two failures at once |
| `trial_bytes` | one phase, one fault | violated: see findings |
| `evaluation_files` | two slots, three editions of each, a pass and a trial that may be retried; 1.1 million states | the evaluator against an operator who never rests |
| `evaluation_scores` | three slots, two of them reviews, every class, every gate vector of two applicable gates with weights 5 and 2, four calibrations, profile 60/40; 103,000 states | score arithmetic where divisions round |
| `evaluation_failures` | two slots | violated: see findings |
| `run_bundle` | three processes, two run ids, a task of two paths, three edits; 48,000 states | races, torn copies, deaths |
| `verify_lanes` | the static and the generated lane over a build file that both read and a benchmark file that one reads, three contents of each, one of them irregular, and a diff whose status is discarded; 71,000 states | a lane that is skipped would pass, a success is a success of every goal, whatever is edited, fails or is killed |
| `publication` | three ids, two digests each, a history of three sets, two campaigns, three results, manifests of up to two records; 1.1 million states | two retirements in a row among rewritten results, bridges and proposals |
| `publication_ids` | the same with one retirement | violated: see findings |
| `release` | three tasks of three categories, two configurations, any two steps of the maintainers from five nearly complete manifests with either contract of one task, one task with a tracer contract to change to, any signing and verifying, and an audit; 1.2 million states | what an eligible report rests on |
| `solutions` | a watch with two topics, two retries and three connections; five events of three instants and two kinds, pages of two, two changes; two owners, leases of two and three, eight instants; 43,000 states | the solutions against a runtime, a reader and clocks |

The properties, with the hazards they are for:

- `PassIsEarned`: the heart of the trial. All applicable gates satisfied in the phase reached, which
  is the last one, and at every checkpoint the verifier rewarded truthfully; the receipt told the
  truth; nothing failed. One exception is the code's: the evidence and reward file of an *earlier*
  phase are never read (only the last output directory is), so a fault in them goes unseen.
- `BlameIsEarned`: an agent is blamed only for an exit, work or a receipt of its own, never for a
  Harbor that died, could not set up, ran something else or reported nonsense.
- `OutcomesAreTrue`: a gate published as passed or failed is so in the phase judged.
- `RetryForgivesNothing`: no retry after a failure of the agent, with a decided gate, or beyond the
  limit.
- `LostOnlyToUnreadable`: the finalizer never builds a bundle that its own validator refuses. A run is
  lost only to a file or a total that cannot be recorded, or to evidence, a reward file or a receipt
  of the judged phase, in a trial without a fault that `_finalize` looks for first.
- `ImplementsContract`: the refinement to `TrialContract`.
- `EveryAttemptEnds`: liveness.
- `HarborRunsThePinnedTask`, `BundleIsOneRuns`, `ResultsAreFinal`: torn copies, shared directories,
  crashes.
- `TrialsAreTheBound`, `OnlyBoundRunsAreTaken`, `ChangedMeansRewritten`: the evaluator's reads
  against the operator's writes. The first has an exception for a file replaced between its digest
  and its parse, since the code opens the file twice; the second has none: whatever is replaced when,
  each trial taken was run from the bound manifest, and a manifest parsed in place of it has its run
  id and its attempt. That such a manifest can be one written since is what the code allows.
- `ExcludedDoNotMove`, `PerfectMeansPerfect`, `SelectionIsBetween`, `FullPassNeverHurts`: the scores.
  The last is about passes that count in full, since a review pass with a bad calibration may lower
  quality below that of the failure it replaces.
- `SkippedWouldPass`: if a stamp is newer than a fingerprint and the fingerprint is still that of the
  tree, the lane would pass on the tree, as make sees it; that is less than the absence of drift. `VerifiedWouldPass`: a make that succeeds on a tree that was
  not edited meanwhile vouches for every goal, including those it skipped.
- `RemovedIsPublished`: over several retirements, whatever has left the active set was published with
  its own digest and provenance. `RetiredIsCompared`: the two results that the accepted bridge names
  by digest are comparable, although both commands hash after they parse.
- `ReferencesAreSigned`: the comparisons of a report that were not rewritten after the audit resolved
  them have a statement of exactly the bound files, an allowed signer, one schedule and the report's
  tasks. `StableIsReviewed`: eligible for a stable release means that every task has an accepted
  review, not by its owner, of the contract as sealed. `ObjectionsBlock`: one objection or failed
  audit is enough, whatever stands beside it. `SupportNeverBlocks`: adding evidence in favour that the
  audit does not refuse, in a category of the release, closes no open gate. (An accepted expert run on
  a tracer task does close one, as `calibration.py:632` compares the set of categories.)
- `RuntimeHoldsTheState`: connection and timer of the returned state exist, or news about them is
  under way, and none besides. `FailuresEnd`: retries in a row are bounded and each failure is emitted
  once. `PagesAreComplete`: no event twice, none that stayed is missed. `OneHolder`: two owners never
  rely on the lease at one instant. `SolutionsAgree`: in every state reached, the alternate of the
  watch and of the pages answers as the oracle, and a later step as the earlier ones; in the pages
  each of them goes on from the cursor it gave itself, and refuses those of the others.

*Bounds.* `MaxFaults` bounds faults per attempt: two are enough for one fault to hide another, and
the verdict depends on a trial's files only, so a third could only repeat a pair. Two phases have a
first, a last, a prefix and a wrong order; `phase < PhaseCount` and `phase = PhaseCount` both occur.
Two gates that apply, one of them the receipt's, and one that does not cover the three ways the code
treats a gate. Two attempts have one that may and one that may not be retried. Three processes give
a pair that shares a run id and one beside it; two paths tear a copy. `MaxEdits` of three lets a path
be edited, restored and edited again. Three editions give a slot a manifest, a retry and a
replacement. Three slots give a pass, a failure and an excluded trial in one vector. Slots, processes
and paths are symmetric where the run says so; no run under symmetry checks liveness.

Two lanes are one that a change concerns and one that it does not, and three contents a build file
that was right, is wrong and is right again but with drift that no status shows, or a benchmark file
that is replaced by a directory (`MaxEdits`). In `verify_lanes` the editor is "fresh": no edit brings
back old contents. With "any" both properties fail, as they must: a file that is wrong while the
fingerprint is taken, right while the lane runs and wrong again afterwards deceives every build by
stamps. `MaxSets` of three is the least with two retirements, where an id may come back; `MaxResults`
of three gives both sides a result and one of them another. In `release`, `MaxWork` counts steps of
the maintainers, signing apart: two steps are an edit and its sealing, a rewritten result and another
binding, or a missing review and an objection, and the initial manifests are chosen so that each gate
is one or two steps away. The audit reads every contract twice, so an edit may come between the two. `MaxGeneration` is the number of connections of a history: three give two
retries in a row, the bound of the instance, and the loss after them. Five events have several of one
instant on both sides of a page's end. Leases of two and three instants within eight expire, are
renewed and are taken over.

*Fairness.* `FairSpec` has weak fairness of `SetUp`, `AgentFinishes`, `VerifierReports`,
`HarborReports` and `Finalize`. Harbor is configured with the limits of `RunLimits`
(`_harbor_config`), so it ends each of those stages, by its timeout if nothing else; the runner has
no timeout of its own (`runner.py:164`), so without that assumption nothing would be live. No
fault, retry or edit is fair. `trial_single` checks `EveryAttemptEnds` under it. The other
specifications are about safety: their actors are people and commands, none of whom has to act.

*Deadlock* is checked in `verify_lanes`, where another make can always be started; everywhere else the
system really stops: a finalized run, an evaluation and a process end, and so do histories at their
bounds.

## 4. Proofs

`TrialProofs`, for every set of gates, applicable gates, receipts, phases, attempts, retryable
reasons and faults:

- `FinalVerdictPublishable`: whatever files a trial leaves, `FinalVerdict` is publishable with the
  evidence `_finalize` records. It is proved along the procedure: a lemma for each helper
  (`UnreconciledCoherent`, `ClassifyExceptionCoherent`, `ReconcileCoherent`, `ClassifyCoherent`,
  `OverrideCoherent`).
- `BundleAlwaysAccepted`: a bundle of a publishable verdict passes `ResultBundle.validate_result`.
- `Invariance`: `Spec => []IInv`. `IInv` is `TypeOK` with `AttemptsLeft` (a run in progress, or one
  that may be retried, is below the limit, or `remaining_attempts` would leave its range) and
  `LostRaises` (a run is lost only where `FinalizeRaises`). One lemma per group of actions.
- `TypeCorrect` and `Implementation` (`ImplementsContract`): each step of `Trial` is `Publish`, `Lose`, `Retry` or a stutter of the
  contract.

`RunBundleProofs`, for every set of processes, run ids, paths and edits:

- `IInv` is `TypeOK`, `HarborRunsThePinnedTask`, `BundleIsOneRuns` and two strengthenings: `OneOwner`
  (of the processes past `mkdir` with one run id, one) and `ResultIsDone` (a result belongs to a
  process that has finished). Neither property is inductive without them: a step of a process
  writes its directory, and only `OneOwner` says that nobody else's is meant. TLC checked `IInv` on
  the instance of `run_bundle` before it was proved.
- `PinnedTask`, `OneRunPerBundle`, `TypeCorrect` follow; `ResultsStay` is the action property, from
  `PublishedIsNotOwned` (no process that still writes owns a published bundle).

`VerdictProofs`, for the same constants as `TrialProofs`, proves `PassIsEarned`, `BlameIsEarned`,
`OutcomesAreTrue` and `RetryForgivesNothing`. They compare a verdict with `faults` and `work`, which
`_finalize` never reads, so none of them is inductive: what is needed is that the files tell what
happened. `Told` says so: files and rewards are true unless a fault of that phase is recorded
(`FilesTold`, `StepsTold`), an exception is of the first who failed (`ExceptionTold`), every fault has
left its trace in a step, an exception or the result (`FaultsTold`, `TrialTold`), and nothing is
published otherwise (`ResultsTold`). `EverythingTold` is its invariance, one lemma per group of actions;
`ToldPass`, `ToldBlame`, `ToldOutcomes` and `ToldRetry` then derive the properties in one state, along
the order of `_finalize`'s checks (`VerdictCases`). `LossTold` adds who left what cannot be read or
recorded; with it `PassesAreEarned` excludes such a file from a pass, and `NothingElseLost`
(`LostOnlyToUnreadable`) says which faults a lost run can have had.

`EvaluationProofs`, for any slots, verdicts and editions: editions of a slot only grow
(`EditionsOrdered`), so a file that is no longer the bound one never becomes it again (`BoundOnce`);
with what the evaluator has hashed, parsed and taken so far (`Reader`, `Reading`, `Rejected`) this is
inductive and yields `TrialsAreTheBound`, `ChangedMeansRewritten` and `OnlyBoundRunsAreTaken`. What has
been parsed of a raced slot is either the bound file or one of a later edition; the result is then
refused unless it names the bound manifest, which only a run of that manifest does.

The scores come in four layers there, for any gates, weights and percentages:

- *Weights.* `Weigh` counts a sum of weights out, one unit after the other, as the cardinality of a set
  (`Units`), so finite-set theorems carry it: it adds over disjoint sets of pairs (`WeighParts`),
  loses what is left out (`WeighRest`), and nothing that weighs is in a set that weighs nothing
  (`WeighNothing`). A fold would compute the same, but what a fold computes needs induction over data.
- *Divisions.* Rounding down respects the comparison of fractions (`DivisionsCompared`), a share is
  full only when numerator and denominator are one (`Shares`), and a weighted mean lies between its
  parts and grows with them (`Means`, `MeansCompared`).
- *Calibrations.* The points of a passed gate are between nothing and `Full` (`ReviewQualityIs`,
  `GateQualityIs`), so what passed gates are worth is at most what they weigh in full, and adds over
  disjoint sets as weights do (`WorthIs`, `WorthParts`).
- *Vectors.* A pass that counts in full, in place of an attributable trial leaves the denominators alone and lowers no
  dividend; in place of an excluded one it adds the same to both sides of a fraction that is at most
  one (`SharesCompared`). That needs a second invariant, `Applied`: every attributable trial that is
  taken decides exactly the gates that apply, which is what `GatesBound` checks. TLC checked it on the
  instance of `evaluation_scores`.

`ExcludedNeverMove`, `PerfectIsPerfect`, `SelectionLiesBetween` and `FullPassesNeverHurt` follow.

`VerifyLanesProofs`, for any paths, lanes and contents: contents only grow, and what a lane has read
lies between its fingerprint and the tree (`Between`), so if the tree still has the fingerprint, the
lane ran on it; `Vouched` is what a stamp then says. Whether a lane passes is any function of what
its commands read (`PassingSame`), whichever of their statuses make sees. Assumed, beside the constants: `Editor = "fresh"`,
and `Covers`, that the fingerprint of a lane includes what its commands read. The second is a relation
between `lane_includes` and the recipes that a maintainer has to keep; the instance has it from
`LaneIncludes` and `LaneExamines`. `TypeCorrect` needs neither: an interrupted or deceived make still
leaves fingerprints, stamps and readings of their types (`Typed`, `ReadingIs`).

`PublicationProofs`, for any ids, digests, campaigns, records and length of a history, proves `TypeOK`,
`RemovedIsPublished` and `RetiredIsCompared`. The second is inductive once
`RemovedRecorded` has shown that an accepted manifest names the source of every removed task. The third
is a matter of order: both commands parse a result before they hash it, and the bridge file that is
hashed need not be the one that was parsed. A result whose file is rewritten never comes back (`Gone`),
so each result that the parsed bridge names is read or gone (`Follows`), one that was hashed as named
was there all the time since it was parsed (`Settled`), and a bridge written meanwhile is the same one
or tells of results that are gone (`StandsFor`); `NamedCompares` puts these together for `Retire`. TLC
checked that invariant on the instance of `publication` before it was proved.

`ReleaseProofs`, for any tasks, people, configurations, evidence and length of history: the invariant
follows the audit. What it has read of the tasks is one edition of the task set and its contracts,
`auditor.tasks`, whatever was sealed since. What it has established of the manifest it parsed stays, and what it has
established of a comparison stays unless `raced` has it (`Audit`). A second one, `Documents`, follows the
files themselves through every command, edit and read: contract and task set are sealed ones, what a
command has parsed is a document, and no maintainer can write evidence with two votes of one person or
a comparison of an unknown configuration (`EvidenceOk`). It gives `TypeCorrect`, and, since `Supports`
then relates two manifests that are both in order, `SupportOpens`: gate by gate, whatever was complete
stays complete when only support is added.

`SolutionsProofs` has one invariant for each task. TLC checked all three on the instance of `solutions`:

- `WatchIInv`, for any topics, error kinds, retry bound and number of connections. `RuntimeHoldsTheState` is
  not inductive, since late reports could undo it: `News` says that what is in the mail about the
  current generation is true (its loss is told only if it is gone, its retry only if the timer has
  fired), and everything else in the mail is of generations that the solutions ignore. `Counted` ties
  the retries of the state to those scheduled, `Reported` says that a generation fails at most once.
  The proof goes by what a transition returns (nothing, a connection, a retry, a failure, a stop), so
  that the three steps share it.
- `PagesIInv`, for any finite set of events, any limit and any changes. The sorted list is the n-th event
  with n - 1 newer ones; `OrderedSorts` proves that there is exactly one for each n, and that the order
  is strict. `Placed` says what the cursor is, `Covered` that what stayed and is not read is older than
  the cursor.
- `LeasesIInv`, for any owners, durations and clock bound: an owner who relies on the lease now is the
  one whom the store knows, until the expiry it knows (`Relying`).

`AlternatesAgree` (`SolutionsAgree`) is a consequence of these invariants. The two solutions of the
watch differ on states that no history reaches. For the pages, the n-th cursor of every solution is
that of the n-th event, cursors of one solution are distinct (`PageBehind` is then what both compute),
and those of different formats or filters are never equal.

Assumptions are otherwise those on the constants (`GatesAssumption`, `RetryAssumption`,
`PhasesAssumption`, `ReceiptsAssumption`, `RunIdAssumption`, `ProfileAssumption`, `VerdictsAssumption`,
`SlotsAssumption`, `LanesAssumption`, `TaskSetsAssumption`, `PublicationAssumption`, `ReadinessAssumption`,
`ReleaseAssumption`, `WatchAssumption`, `PagesAssumption`, `LeasesAssumption`), which TLC evaluates in the
runs. Three say more than a type. `ProfileAssumption` has finitely many gates (`GateName` is an
enumeration), `PagesAssumption` finitely many events with unique ids, and `ReleaseAssumption` begins with
documents that their own parsers accept (`FilesOk`, `WellFormed`).

Only model-checked: `EveryAttemptEnds`, because liveness under fairness is out of the prover's reach, and
the three runs that expect a violation. Every other property of a run is a theorem.

## 5. What the models say about the code

1. `release.py:1158` (and `:556`): an attempt that ended in an agent timeout or exit is published as
   `valid_agent_failure` with no gate decided, and the evaluator refuses the whole vector for it,
   although `docs/RESULTS.md:59` counts valid agent failures. Such an attempt can be neither
   retried (`docs/ARCHITECTURE.md:134`) nor scored. Run `evaluation_failures`.
2. `hashing.py:46`: a receipt that is not UTF-8 raises `UnicodeDecodeError`, which nobody catches:
   the run ends without a result, although `docs/ARCHITECTURE.md:125` has a class for malformed
   receipts. The verifier's evidence and reward file are read in the same way. Run `trial_bytes`.
3. `release.py:1399`: a retirement record is compared with itself only, so two records of one manifest
   may name each other's id as replacement, and both stable ids get another digest for a reason other
   than a major release (`docs/RESULTS.md:157`). Run `publication_ids`.

More are observations without a run. `release.py:1111` (and `:450`): `harbor_task_mismatch` is
published with the mismatching checksum, and the evaluator refuses a vector with it. `runner.py:1058`:
exceptions are classified before the task checksum is compared, so an agent that is interrupted on a
task other than the pinned one is blamed; `BlameIsEarned` allows for it. `Makefile:73` and `:87`: two of
the diffs of the generated lane are followed by `;`, so their status is lost and the lane passes in
spite of drift, although `docs/RESULTS.md:16` says that `make verify` rejects it. `runner.py:816`: a file
whose name `ArtifactDigest` refuses, one with a backslash for instance, ends a run whatever was judged.
`review/oracle.py:61` of the pagination task: the second step refuses the cursors that the first step
gave, so a client cannot keep one across the change.

## 6. Not modelled

- Field by field validators (`_validate_run_binding`, `validate_coverage`, the manifests' own
  validators): stateless comparisons in which a model would repeat the code. `RunBundle` has the first
  as its `Validate` step.
- Usage, cost, duration, artifact digests and the budget status, but for what of them raises: no verdict
  and no gate of a release depends on them.
- `_report_binding`'s choice of the final report: a pure choice over one result's artifacts.
- `build_regression_report`: each of its flags is one expression over two results, with no state, so a
  model would repeat it and a property unfold it.
- The alternate of the lease task, which has the same comparison as the oracle in a function of its own.
- Cross-version claims of the evidence manifest: each raises or is in order, so their gate always
  passes (`cross_version_discipline`). Counts in the details of a gate are wording.
- The steps inside `seal_task`: its user waits for it, and `SealTaskSet` is its outcome.
- Argument parsing, printing, and the scripts that call `execute_run` and the generators in sequence.
- The other task repositories: exercises, some wrong on purpose, with no state between calls or none
  that another actor shares.

Assumed of people: one `make` at a time, since two write one temporary name and interleave stamps and
fingerprints (`repository_verify.py:148`); one writer of a file at a time, since commands write their
output in one step; and the operator waits for `build_reference_evaluation`.

Observed on the way and not modelled: a missing credential raises after the bundle directory exists,
so the run id is used up (`runner.py:1295`, kept as `StartHarbor`'s exception); nothing binds the
history of attempts, so an operator may run another manifest instead of keeping a failure; images and
boundaries are validated on the live directory rather than on the snapshot (`runner.py:479`), which
the digests of the snapshot make good.

## 7. Plan

Done, in this order: `Results`, `Finalizer`, `Trial`, `TrialContract` and `TrialProofs`; `RunBundle` and
its proofs; `Aggregate`, `Evaluation` and `EvaluationProofs`; `VerdictProofs`; `VerifyLanes` and its
proofs; `TaskSets`, `Publication` and its proofs; `Readiness`, `Release` and `ReleaseProofs`; `Watch`, `Pages`,
`Leases`, `Solutions` and `SolutionsProofs`; then the proofs of what had only been model-checked: the
scores, `Documents` and support, the watch, the pages and the agreement of the solutions.

Next, should it be worth more:

1. An abstract specification of a retirement (sets replaced one after the other, everything removed
   published) that `Publication` implements, and a proof of it.
2. The budget in `Aggregate`, where a review's score file lies, and `_report_binding` over the steps of a sequential
   bundle.
3. `seal_task` against edits, as `RunBundle` has `validate_task`.
4. A task without a receipt gate as another instance of `trial_single`.
