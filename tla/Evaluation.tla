----------------------------- MODULE Evaluation -----------------------------
(***************************************************************************)
(* From run manifests to one evaluation result: the operator runs every    *)
(* slot of a task set (execute_run), follows the retry dispositions,       *)
(* replaces what cannot be retried, binds the files by digest (reference.py*)
(* build_reference_evaluation), and an evaluator (release.py               *)
(* compute_evaluation) reads them back one slot at a time, first the       *)
(* digests of the two files and then the files, while the operator goes on *)
(* working in the same directories.                                        *)
(*                                                                         *)
(* A slot is a (task, pair index) pair.  Its files are known by their      *)
(* edition: every rewritten manifest and every new bundle has a digest of  *)
(* its own.  What a run publishes is taken from Verdicts; the score file   *)
(* of a review is part of its bundle, which records its digest.            *)
(***************************************************************************)
EXTENDS Aggregate

CONSTANTS
    Slots,          \* EvaluationManifest: task x pair index, complete
    Reviews,        \* the slots whose task is a review
    Verdicts,       \* [verdict, harbor, calibration] records a run may publish
    MaxEditions     \* bound: files written for one slot

ASSUME VerdictsAssumption ==
    \A o \in Verdicts : /\ o.verdict \in VerdictType
                        /\ o.harbor \in EvidenceOfHarborType
                        /\ PublishableVerdict(o.verdict, o.harbor)
                        /\ o.calibration = NoCalibration \/ o.calibration \in CalibrationType

ASSUME SlotsAssumption ==
    /\ IsFiniteSet(Slots) /\ Slots # {} /\ Reviews \subseteq Slots
    /\ MaxEditions \in Nat \ {0}

VARIABLES
    edition,        \* the last edition written for each slot
    manifest,       \* each slot's manifest file
    result,         \* what is below result_dir, for each run id of a slot
    binding,        \* evaluation.json, or NoBinding
    stage,          \* of the evaluator: "idle", "reading", "accepted", "rejected"
    reader,         \* the slot it is at and what it has parsed of it, or NoSlot
    raced,          \* history: the slots with a file rewritten after its digest was read
    taken,          \* the trials read so far
    cause           \* why the evaluator rejected: [slot, error], or NoCause

operator == <<edition, manifest, result, binding>>
evaluator == <<stage, reader, taken, cause>>
vars == <<operator, evaluator, raced>>

Nothing == [kind |-> "nothing"]
Lost == [kind |-> "lost"]
NoBinding == <<>>
NoCause == <<>>
NoSlot == <<>>

\* The run id that build_reference_run derives from the slot; any other is known by the
\* edition of the manifest that first had it.
ReferenceRun == 1

ManifestFile(n, attempt, run) == [edition |-> n, attempt |-> attempt, run |-> run]

\* A result.json: its edition, the manifest it was run from, the bundle and the score file.
ResultFile(n, m, bundle, calibration) ==
    [kind |-> "bundle", edition |-> n, manifest |-> m.edition, run |-> m.run,
     bundle |-> bundle, calibration |-> calibration]

\* What is below the run id of the manifest.
Latest(s) == result[s][manifest[s].run]

HasBundle(s) == Latest(s).kind = "bundle"

Init ==
    /\ edition = [s \in Slots |-> 1]
    /\ manifest = [s \in Slots |-> ManifestFile(1, 1, ReferenceRun)]
    /\ result = [s \in Slots |-> [run \in 1..MaxEditions |-> Nothing]]
    /\ binding = NoBinding
    /\ stage = "idle"
    /\ reader = NoSlot
    /\ raced = {}
    /\ taken = <<>>
    /\ cause = NoCause

-----------------------------------------------------------------------------
(* The operator. *)

\* The evaluator has the digest of the slot's manifest, of its result, and parses it later.
ManifestAwaited(s) ==
    reader # NoSlot /\ reader.slot = s /\ reader.next \in {"hash result", "load manifest"}

ResultAwaited(s) ==
    reader # NoSlot /\ reader.slot = s /\ reader.next \in {"load manifest", "load result"}

\* Every rewriting of a file of a slot is a new edition, and makes the digest read before
\* it stale.
Rewrite(s, stale) ==
    /\ edition[s] < MaxEditions
    /\ edition' = [edition EXCEPT ![s] = @ + 1]
    /\ raced' = IF stale THEN raced \union {s} ELSE raced
    /\ UNCHANGED <<binding, evaluator>>

Below(s, file) == [result EXCEPT ![s][manifest[s].run] = file]

\* execute_run on the slot's manifest, as far as Trial shows what can come of it.
Run(s) ==
    /\ Latest(s) = Nothing
    /\ \/ \E o \in Verdicts :
            result' = Below(s, ResultFile(edition[s], manifest[s],
                                   Bundle(o.verdict, o.harbor, manifest[s].attempt),
                                   o.calibration))
       \/ result' = Below(s, Lost)
    /\ UNCHANGED <<edition, manifest, binding, evaluator, raced>>

\* A manifest under a new run id, because execute_run refuses an output directory
\* that exists; the old directory stays.
NewManifest(s, attempt) ==
    /\ Rewrite(s, ManifestAwaited(s))
    /\ manifest' = [manifest EXCEPT ![s] = ManifestFile(edition'[s], attempt, edition'[s])]
    /\ UNCHANGED result

RetryRun(s) ==
    /\ HasBundle(s)
    /\ Latest(s).bundle.retry.eligible
    /\ NewManifest(s, manifest[s].attempt + 1)

\* docs/RESULTS.md: replacement trials for what is excluded from reliability.
ReplaceTrial(s) ==
    /\ \/ Latest(s) = Lost
       \/ HasBundle(s) /\ Latest(s).bundle.verdict.classification \notin Attributable
    /\ NewManifest(s, 1)

\* write_reference_runs again, with another provider version or task: the run id is the
\* same and so is the path of a result that was run from the manifest overwritten.
Regenerate(s) ==
    /\ manifest[s].run = ReferenceRun
    /\ Rewrite(s, ManifestAwaited(s))
    /\ manifest' = [manifest EXCEPT ![s] = ManifestFile(edition'[s], 1, ReferenceRun)]
    /\ UNCHANGED result

\* The operator removes the output directory, to run the same manifest again.
ClearOutput(s) ==
    /\ Latest(s) # Nothing
    /\ Rewrite(s, ResultAwaited(s) /\ manifest[s].run = binding[s].manifest.run)
    /\ result' = Below(s, Nothing)
    /\ UNCHANGED manifest

\* Mutant: build_reference_evaluation takes the result below the run id for the result.
BindByRunId ==
    /\ stage = "idle"
    /\ \A s \in Slots : HasBundle(s) /\ Latest(s).bundle.attempt = manifest[s].attempt
    /\ binding' = [s \in Slots |-> [manifest |-> manifest[s], result |-> Latest(s)]]
    /\ UNCHANGED <<edition, manifest, result, evaluator, raced>>

\* build_reference_evaluation, a command of the operator, who waits for it.  It raises,
\* and writes nothing, when a result is missing or was run from another manifest.
\* evaluation.json holds the two digests and the paths; here, the files that have them.
Bind ==
    /\ stage = "idle"
    /\ \A s \in Slots : /\ HasBundle(s)
                        /\ Latest(s).manifest = manifest[s].edition
                        /\ Latest(s).bundle.attempt = manifest[s].attempt
    /\ binding' = [s \in Slots |-> [manifest |-> manifest[s], result |-> Latest(s)]]
    /\ UNCHANGED <<edition, manifest, result, evaluator, raced>>

-----------------------------------------------------------------------------
(* The evaluator. *)

JudgedGates(bundle) ==
    {g \in Gates : bundle.verdict.outcomes[g] # "not_applicable"}

\* The task checksum and the agent that Harbor observed, against the manifest.
HarborBound(bundle) ==
    IF bundle.verdict.classification \in Attributable
    THEN bundle.harbor = [checksum |-> "match", agent |-> TRUE]
    ELSE bundle.harbor.checksum # "mismatch"

GatesBound(bundle) ==
    bundle.verdict.classification \in Attributable => JudgedGates(bundle) = Applicable

\* What is at the path of the bound result.
AtBoundPath(s) == result[s][binding[s].manifest.run]

\* The manifest and the result still have the digests of evaluation.json.
ManifestBound(s) == manifest[s] = binding[s].manifest

\* Mutant: the result is found by its path, and its bytes are not compared.
ResultBoundByPath(s) == AtBoundPath(s).kind = "bundle"

ResultBound(s) == AtBoundPath(s) = binding[s].result

FilesBound(s) == ManifestBound(s) /\ ResultBound(s)

\* Mutant: the result is not compared with the manifest that was bound.
RunBoundByAttempt(s, run, file) ==
    file.run = run.run /\ file.bundle.attempt = run.attempt

\* The parsed result, against the parsed manifest and the digests bound.  A report is bound
\* exactly when its receipt has a digest; two receipts of one slot are taken to be the same
\* bytes.
RunBound(s, run, file) ==
    /\ file.run = run.run
    /\ file.manifest = binding[s].manifest.edition
    /\ file.bundle.attempt = run.attempt
    /\ file.bundle.verdict.digest = binding[s].result.bundle.verdict.digest

Calibration(s, file) == IF s \in Reviews THEN file.calibration ELSE NoCalibration

BehaviorPassed(bundle) == bundle.verdict.outcomes[BehaviorGate] = "passed"

\* _extract_review_calibration and the check after it.
ScoreBound(s, file) ==
    LET calibration == Calibration(s, file)
    IN  calibration # NoCalibration => calibration.passed = BehaviorPassed(file.bundle)

Calibrated(s, file) ==
    s \in Reviews /\ ReviewWeights # NoWeights /\ BehaviorPassed(file.bundle)
        /\ file.bundle.verdict.classification \in Attributable
      => Calibration(s, file) # NoCalibration

\* The error of compute_evaluation for what it parsed of a slot, or "none".
LoadError(s, run, file) ==
    IF ~RunBound(s, run, file) THEN "files changed"
    ELSE IF ~HarborBound(file.bundle) THEN "raw run/result binding mismatch"
    ELSE IF ~ScoreBound(s, file) THEN "review score gate mismatch"
    ELSE IF ~Calibrated(s, file) THEN "review calibration evidence is missing"
    ELSE IF ~GatesBound(file.bundle) THEN "raw gate applicability mismatch"
    ELSE "none"

Reject(s, error) ==
    /\ stage' = "rejected"
    /\ reader' = NoSlot
    /\ cause' = [slot |-> s, error |-> error]
    /\ UNCHANGED taken

StartEvaluation ==
    /\ stage = "idle"
    /\ binding # NoBinding
    /\ stage' = "reading"
    /\ UNCHANGED <<operator, reader, taken, cause, raced>>

At(s, next) == stage = "reading" /\ reader # NoSlot /\ reader.slot = s /\ reader.next = next

Goes(s, next, files) ==
    /\ reader' = [slot |-> s, next |-> next, files |-> files]
    /\ UNCHANGED <<stage, taken, cause>>

\* sha256_file on the manifest.  The slots are read in the order of task and pair index,
\* which no property sees.
HashManifest(s) ==
    /\ stage = "reading" /\ reader = NoSlot
    /\ s \notin DOMAIN taken
    /\ IF ManifestBound(s) THEN Goes(s, "hash result", <<>>) ELSE Reject(s, "files changed")
    /\ UNCHANGED <<operator, raced>>

\* sha256_file on the result, or a path that does not resolve.
HashResult(s) ==
    /\ At(s, "hash result")
    /\ IF ResultBound(s) THEN Goes(s, "load manifest", <<>>) ELSE Reject(s, "files changed")
    /\ UNCHANGED <<operator, raced>>

\* load_model on the manifest.
LoadManifest(s) ==
    /\ At(s, "load manifest")
    /\ Goes(s, "load result", <<manifest[s]>>)
    /\ UNCHANGED <<operator, raced>>

\* load_model on the result, which must be there.
LoadResult(s) ==
    /\ At(s, "load result")
    /\ IF AtBoundPath(s).kind = "bundle"
       THEN Goes(s, "check", <<reader.files[1], AtBoundPath(s)>>)
       ELSE Reject(s, "files changed")
    /\ UNCHANGED <<operator, raced>>

\* The checks on what the two say, and the trial appended.
TakeTrial(s) ==
    /\ At(s, "check")
    /\ LET run == reader.files[1]
           file == reader.files[2]
           error == LoadError(s, run, file)
       IN  IF error = "none"
           THEN /\ taken' = [t \in DOMAIN taken \union {s} |->
                                IF t = s THEN [manifest |-> run, result |-> file]
                                ELSE taken[t]]
                /\ reader' = NoSlot
                /\ UNCHANGED <<stage, cause>>
           ELSE Reject(s, error)
    /\ UNCHANGED <<operator, raced>>

\* EvaluationResult, with the scores of _aggregate.
Accept ==
    /\ stage = "reading"
    /\ DOMAIN taken = Slots
    /\ stage' = "accepted"
    /\ UNCHANGED <<operator, reader, taken, cause, raced>>

Next ==
    \/ \E s \in Slots : \/ Run(s)
                        \/ RetryRun(s)
                        \/ ReplaceTrial(s)
                        \/ Regenerate(s)
                        \/ ClearOutput(s)
                        \/ HashManifest(s)
                        \/ HashResult(s)
                        \/ LoadManifest(s)
                        \/ LoadResult(s)
                        \/ TakeTrial(s)
    \/ Bind
    \/ StartEvaluation
    \/ Accept

Spec == Init /\ [][Next]_vars

-----------------------------------------------------------------------------
(* Properties. *)

ManifestType ==
    [edition: 1..MaxEditions, attempt: 1..MaxAttempts, run: 1..MaxEditions]

ResultType ==
    [kind: {"bundle"}, edition: 1..MaxEditions, manifest: 1..MaxEditions,
     run: 1..MaxEditions, bundle: BundleType,
     calibration: {NoCalibration} \union CalibrationType]

FilesType(files) ==
    \A s \in DOMAIN files : files[s] \in [manifest: ManifestType, result: ResultType]

\* What is parsed when.
ReaderType ==
    [slot: Slots, next: {"hash result", "load manifest"}, files: {<<>>}]
      \union [slot: Slots, next: {"load result"}, files: {<<m>> : m \in ManifestType}]
      \union [slot: Slots, next: {"check"}, files: ManifestType \X ResultType]

\* Every variable keeps its type: no attempt above max_attempts, no bound file that is
\* not a result bundle (execute_run, build_reference_evaluation, compute_evaluation).
TypeOK ==
    /\ edition \in [Slots -> 1..MaxEditions]
    /\ manifest \in [Slots -> ManifestType]
    /\ result \in [Slots -> [1..MaxEditions -> {Nothing, Lost} \union ResultType]]
    /\ binding = NoBinding \/ (DOMAIN binding = Slots /\ FilesType(binding))
    /\ stage \in {"idle", "reading", "accepted", "rejected"}
    /\ reader = NoSlot \/ (reader \in ReaderType /\ reader.slot \notin DOMAIN taken)
    /\ DOMAIN taken \subseteq Slots /\ FilesType(taken)
    /\ raced \subseteq Slots

\* compute_evaluation never mixes what evaluation.json bound with what the operator did
\* since: the trials of an accepted result are the very files that were bound, but for a
\* file rewritten between its digest and its parse.
TrialsAreTheBound ==
    stage = "accepted" => \A s \in Slots \ raced : taken[s] = binding[s]

\* Not even such a file brings in another run: a trial that compute_evaluation takes was run
\* from the manifest that was bound, and what it parsed as the manifest, the bound one or
\* one written since, has the run id and the attempt of the bound one.
OnlyBoundRunsAreTaken ==
    \A s \in DOMAIN taken :
        LET bound == binding[s].manifest
        IN  /\ taken[s].result.manifest = bound.edition
            /\ taken[s].manifest.run = bound.run
            /\ taken[s].manifest.attempt = bound.attempt

\* build_reference_evaluation binds nothing that compute_evaluation then finds to be
\* another manifest's run: the evaluator complains of changed files only if one changed.
ChangedMeansRewritten ==
    stage = "rejected" /\ cause.error = "files changed" => ~FilesBound(cause.slot)

\* RawTrialOutcome.
RawTrial(verdict, calibration) == [verdict |-> verdict, calibration |-> calibration]

Scored ==
    [s \in DOMAIN taken |->
        RawTrial(taken[s].result.bundle.verdict, Calibration(s, taken[s].result))]

\* Excluded trials never move a score: _aggregate gives what it gives without them.
ExcludedDoNotMove ==
    stage = "accepted" =>
        LET counted == [s \in ReliableTrials(Scored) |-> Scored[s]]
        IN  /\ Quality(Scored) = Quality(counted)
            /\ Reliability(Scored) = Reliability(counted)

\* A perfect score of _aggregate has no rounding in it: reliability is full exactly when
\* every attributable trial passed, and full quality leaves no weighted gate failed and no
\* review passed with a defect in the wrong category or severity.
PerfectMeansPerfect ==
    stage = "accepted" =>
        /\ Reliability(Scored) = Full <=>
               ReliableTrials(Scored) # {} /\ ReliableTrials(Scored) = PassedTrials(Scored)
        /\ Quality(Scored) = Full =>
               \A pair \in GatesIn(Scored, ReliableTrials(Scored), {"passed", "failed"}) :
                   GateWeights[pair[2]] > 0 =>
                       /\ Scored[pair[1]].verdict.outcomes[pair[2]] = "passed"
                       /\ GateQuality(Scored, pair) = Full

\* The selection score of _aggregate lies between the two scores it is made of, all of
\* them basis points, so AggregateMetrics accepts every vector that gets this far.
SelectionIsBetween ==
    stage = "accepted" =>
        LET q == Quality(Scored)
            r == Reliability(Scored)
            x == Selection(Scored)
        IN  /\ {q, r, x} \subseteq 0..Full
            /\ (q <= x /\ x <= r) \/ (r <= x /\ x <= q)

\* Replacing a trial by a pass that counts in full never lowers a score of _aggregate,
\* whatever it replaces, an excluded trial included, and however the divisions round.  (A
\* review pass that is badly calibrated may, in _passed_gate_quality_bps.)
FullPassNeverHurts ==
    stage = "accepted" =>
        \A s \in Slots, o \in {p \in Verdicts : p.verdict.classification = "valid_pass"} :
            ReviewQuality(Calibration(s, o)) = Full =>
                LET better == [Scored EXCEPT ![s] = RawTrial(o.verdict, Calibration(s, o))]
                IN  /\ Quality(better) >= Quality(Scored)
                    /\ Reliability(better) >= Reliability(Scored)
                    /\ Selection(better) >= Selection(Scored)

\* docs/RESULTS.md: reliability uses valid passes, valid agent failures and invalid
\* runs.  compute_evaluation then rejects no trial with unchanged files for being one.
AgentFailuresAreScored ==
    stage = "rejected" /\ cause.error # "files changed" =>
        binding[cause.slot].result.bundle.verdict.classification \notin Attributable
=============================================================================
