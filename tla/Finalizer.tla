----------------------------- MODULE Finalizer -----------------------------
(***************************************************************************)
(* The decision procedure of src/src/slopbench/runner.py: what _finalize   *)
(* concludes from the files one Harbor trial left behind.  The module has  *)
(* no variables.  Trial runs the procedure against a Harbor process, an    *)
(* agent and a verifier that may each misbehave.                           *)
(*                                                                         *)
(* Digests and revisions are abstracted to whether they match; the checks  *)
(* of a gate are abstracted to "none" (no check names the gate), "passed"  *)
(* (every one passed) or "failed".                                         *)
(*                                                                         *)
(* A definition whose comment says "Mutant" is a slip a maintainer could   *)
(* make in the definition that follows it; no specification uses it.       *)
(***************************************************************************)
EXTENDS Results, Sequences, FiniteSetsExt

CONSTANT PhaseCount     \* the number of TaskContract.phases

ASSUME PhasesAssumption == PhaseCount \in Nat \ {0}

Phases == 1..PhaseCount

\* contracts.py: one phase is "single", more are "sequential".
Sequential == PhaseCount > 1

-----------------------------------------------------------------------------
(* What a trial leaves behind. *)

SetupExceptions ==
    {"AgentSetupTimeoutError", "EnvironmentStartTimeoutError", "OtherError"}

ProviderExceptions == {"ApiRateLimitError", "ApiUsageLimitError"}

\* "NonZeroAgentExitCodeError" stands for the three exceptions of
\* _AGENT_FAILURE_EXCEPTIONS that share its reason.
AgentExceptions == {"AgentTimeoutError", "NonZeroAgentExitCodeError"}

\* "RewardFileNotFoundError" stands for the five exceptions of
\* _BENCHMARK_FAILURE_EXCEPTIONS that share its reason.
VerifierExceptions == {"VerifierTimeoutError", "RewardFileNotFoundError"}

Exceptions ==
    SetupExceptions \union ProviderExceptions \union AgentExceptions
        \union VerifierExceptions

MaybeException == Exceptions \union {"none"}

\* "malformed" decodes and fails its schema; "undecodable" is not UTF-8 text.
FileKinds == {"absent", "symlink", "undecodable", "malformed", "present"}

CheckStates == {"none", "passed", "failed"}

\* slopbench-verification.json: whether its task digest, its base revision and
\* the digests of its logs match, and its checks.
EvidenceType ==
    [file: FileKinds, task: BOOLEAN, base: BOOLEAN, logs: BOOLEAN,
     checks: [Gates -> CheckStates]]

ClaimStates == {"absent", "passed", "failed", "uncertain"}

\* slopbench-report.json.  bound: its task digest and its base and final
\* revisions equal the verifier's; exact: each claim lists exactly the check ids
\* of its gate; commands: each command is a captured check that a claim cites;
\* uncertainty: the report records an uncertainty.
ReceiptType ==
    [file: FileKinds, bound: BOOLEAN, exact: BOOLEAN, commands: BOOLEAN,
     uncertainty: BOOLEAN, claims: [Gates -> ClaimStates]]

\* A reward vector: the value under each gate's key and under "reward".
RewardStates == {"absent", "zero", "one"}

RewardType == [gates: [Gates -> RewardStates], reward: RewardStates]

NoReward == [gates |-> [g \in Gates |-> "absent"], reward |-> "absent"]

\* What one phase writes below its output directory.  artifactText: the reward file
\* is UTF-8 text.  recordable: _artifact_digests can record each of its files, that
\* is, ArtifactDigest takes the path (no backslash, for one) and the file can be read.
OutputType ==
    [evidence: EvidenceType, artifact: RewardType, receipt: ReceiptType,
     artifactText: BOOLEAN, recordable: BOOLEAN]

\* One element of Harbor's step_results; phase 0 is a name no phase has.
StepType == [phase: Nat, exception: MaybeException, reward: RewardType]

\* Harbor's result.json.  kind says whether it can be read; agent and checksum
\* whether the observed agent identity and task checksum match the manifest; metrics
\* whether UsageMetrics takes its totals (none is negative or infinite).
TrialResultType ==
    [kind: {"missing", "invalid", "loaded"}, exception: MaybeException,
     hasSteps: BOOLEAN, steps: Seq(StepType), topAgentResult: BOOLEAN,
     reward: RewardType, agent: BOOLEAN, checksum: BOOLEAN, metrics: BOOLEAN]

-----------------------------------------------------------------------------
(* Receipt, outcomes and rewards. *)

\* _validate_receipt, past the symlink, absence and parsing tests.  A claim whose
\* evidence ids are exactly its gate's check ids can cite neither an unknown check
\* nor one of another gate; a gate without checks has no such claim.
ReceiptContradicts(receipt, checks) ==
    \/ ~receipt.bound
    \/ {g \in Gates : receipt.claims[g] # "absent"} # Applicable
    \/ ~receipt.exact
    \/ ~receipt.commands
    \/ \E g \in Applicable :
        \/ receipt.claims[g] # "absent" /\ checks[g] = "none"
        \/ receipt.claims[g] = "passed" /\ checks[g] # "passed"
        \/ receipt.claims[g] = "failed" /\ checks[g] # "failed"
        \/ receipt.claims[g] = "uncertain" /\ ~receipt.uncertainty

ReceiptPresent(receipt) == receipt.file # "absent"

\* A symlink and an absent file have no digest.
ReceiptDigest(receipt) == receipt.file \notin {"absent", "symlink"}

ReceiptValid(receipt, checks) ==
    receipt.file = "present" /\ ~ReceiptContradicts(receipt, checks)

\* Mutant: all(...) of no check is true, and the test for missing checks is gone.
VacuousOutcomes(checks, receiptValid) ==
    [g \in Gates |->
        IF g \notin Applicable THEN "not_applicable"
        ELSE IF checks[g] # "failed" /\ (g = ReceiptGate => receiptValid)
        THEN "passed" ELSE "failed"]

\* _check_outcomes: the gate vector, and whether the checks fit the contract.
CheckOutcomes(checks, receiptValid) ==
    [g \in Gates |->
        IF g \notin Applicable THEN "not_applicable"
        ELSE IF checks[g] = "passed" /\ (g = ReceiptGate => receiptValid)
        THEN "passed" ELSE "failed"]

ChecksFitContract(checks) ==
    \A g \in Gates : (g \in Applicable) = (checks[g] # "none")

\* The only vector _validate_rewards accepts for these outcomes.
ExpectedReward(outcomes) ==
    [gates |-> [g \in Gates |->
                    CASE outcomes[g] = "not_applicable" -> "absent"
                      [] outcomes[g] = "passed" -> "one"
                      [] outcomes[g] = "failed" -> "zero"],
     reward |-> IF AllPassed(outcomes) THEN "one" ELSE "zero"]

\* Mutant: Harbor's vector is believed without the verifier's file.
RewardsAgreeUnseen(checks, reward, artifact) ==
    reward = ExpectedReward(CheckOutcomes(checks, TRUE))

\* _validate_rewards on the trusted outcomes, and _validate_reward_artifact: the
\* artifact the verifier left must be readable and equal Harbor's vector.
RewardsAgree(checks, reward, artifact) ==
    /\ reward = ExpectedReward(CheckOutcomes(checks, TRUE))
    /\ artifact = reward

-----------------------------------------------------------------------------
(* _classify_exception and _resolve_trial_output_layout. *)

Verdict(classification, reason, outcomes, present, valid, digest) ==
    [classification |-> classification, reason |-> reason, outcomes |-> outcomes,
     present |-> present, valid |-> valid, digest |-> digest]

\* _not_applicable_outcomes and the initial receipt: nothing was reconciled.
Unreconciled(classification, reason) ==
    Verdict(classification, reason, Undecided, FALSE, FALSE, FALSE)

ClassifyException(e) ==
    CASE e = "ApiRateLimitError" ->
            Unreconciled("infrastructure_failure", "provider_rate_limit")
      [] e = "ApiUsageLimitError" ->
            Unreconciled("infrastructure_failure", "provider_usage_limit")
      [] e = "AgentTimeoutError" ->
            Unreconciled("valid_agent_failure", "agent_timeout")
      [] e = "NonZeroAgentExitCodeError" ->
            Unreconciled("valid_agent_failure", "agent_exit")
      [] e = "AgentSetupTimeoutError" ->
            Unreconciled("infrastructure_failure", "agent_setup_timeout")
      [] e = "VerifierTimeoutError" ->
            Unreconciled("benchmark_defect", "verifier_timeout")
      [] e = "RewardFileNotFoundError" ->
            Unreconciled("benchmark_defect", "verifier_evidence_invalid")
      [] e = "EnvironmentStartTimeoutError" ->
            Unreconciled("infrastructure_failure", "environment_start_timeout")
      [] OTHER -> Unreconciled("infrastructure_failure", "harbor_exception")

\* Mutant: the exception of the last step that has one.
LastStepException(steps) ==
    LET raised == {i \in DOMAIN steps : steps[i].exception # "none"}
    IN  IF raised = {} THEN "none" ELSE steps[Max(raised)].exception

\* The exception of the first step that has one.
FirstStepException(steps) ==
    LET raised == {i \in DOMAIN steps : steps[i].exception # "none"}
    IN  IF raised = {} THEN "none" ELSE steps[Min(raised)].exception

\* actual_names == expected_names[: len(actual_names)], and no longer.
PhasePrefix(steps) ==
    /\ Len(steps) <= PhaseCount
    /\ \A i \in DOMAIN steps : steps[i].phase = i

HasLastStep(trial) == Sequential /\ trial.hasSteps /\ Len(trial.steps) > 0

\* Mutant: a single-phase result may contain steps.
LayoutErrorsSequentialOnly(trial) ==
    Sequential /\ (IF ~HasLastStep(trial) THEN trial.exception = "none"
                   ELSE ~PhasePrefix(trial.steps) \/ trial.topAgentResult)

LayoutErrors(trial) ==
    IF ~Sequential THEN trial.hasSteps
    ELSE IF ~HasLastStep(trial) THEN trial.exception = "none"
    ELSE \/ ~PhasePrefix(trial.steps)
         \/ trial.topAgentResult
         \/ trial.reward # trial.steps[Len(trial.steps)].reward

\* top_exception or step_exception.  Without steps, or with misnamed ones, only
\* the top exception is reported.
EffectiveException(trial) ==
    IF trial.exception = "none" /\ HasLastStep(trial) /\ PhasePrefix(trial.steps)
    THEN FirstStepException(trial.steps) ELSE trial.exception

\* Mutant: the output of a sequential trial is looked up where a single one puts it.
OutputPhaseFirst(trial) == 1

\* The phase whose output directory is read: the last step's, or the trial
\* directory itself.
OutputPhase(trial) ==
    IF HasLastStep(trial) /\ PhasePrefix(trial.steps) THEN Len(trial.steps) ELSE 1

\* Mutant: any trial with a step is complete.
CompleteOnceStarted(trial) == Sequential => HasLastStep(trial)

Complete(trial) == Sequential => HasLastStep(trial) /\ Len(trial.steps) = PhaseCount

-----------------------------------------------------------------------------
(* _finalize. *)

\* The innermost branch: trusted evidence is in hand.
Reconcile(trial, output) ==
    LET checks == output.evidence.checks
        present == ReceiptPresent(output.receipt)
        valid == ReceiptValid(output.receipt, checks)
        outcomes == CheckOutcomes(checks, valid)
        Conclude(classification, reason) ==
            Verdict(classification, reason, outcomes, present, valid,
                    ReceiptDigest(output.receipt))
    IN  IF ~RewardsAgree(checks, trial.reward, output.artifact)
        THEN Conclude("benchmark_defect", "reward_mismatch")
        ELSE IF ~ChecksFitContract(checks)
        THEN Conclude("benchmark_defect", "verifier_contract_mismatch")
        ELSE IF present /\ ~valid
        THEN Conclude("invalid_run", "receipt_invalid")
        ELSE IF ~AllPassed(outcomes)
        THEN Conclude("valid_agent_failure",
                      IF present THEN "gate_failure" ELSE "receipt_missing")
        ELSE IF Complete(trial)
        THEN Conclude("valid_pass", "none")
        ELSE Conclude("benchmark_defect", "harbor_result_invalid")

EvidenceBound(evidence) ==
    evidence.file = "present" /\ evidence.task /\ evidence.base /\ evidence.logs

\* The checks that precede it, in the order of the code.
Classify(trial, output) ==
    IF LayoutErrors(trial)
    THEN Unreconciled("benchmark_defect", "harbor_result_invalid")
    ELSE IF EffectiveException(trial) # "none"
    THEN ClassifyException(EffectiveException(trial))
    ELSE IF ~trial.agent
    THEN Unreconciled("benchmark_defect", "harness_identity_mismatch")
    ELSE IF ~trial.checksum
    THEN Unreconciled("benchmark_defect", "harbor_task_mismatch")
    ELSE IF output.evidence.file = "absent"
    THEN Unreconciled("benchmark_defect", "verifier_evidence_missing")
    ELSE IF output.evidence.file # "present"
    THEN Unreconciled("benchmark_defect", "verifier_evidence_invalid")
    ELSE IF ~EvidenceBound(output.evidence)
    THEN Unreconciled("benchmark_defect", "verifier_contract_mismatch")
    ELSE Reconcile(trial, output)

\* Mutant: an agent failure no longer needs the pinned agent.
OverrideAnyAgent(verdict, trial, exitedCleanly) ==
    IF ~exitedCleanly /\ EffectiveException(trial) = "none"
    THEN [verdict EXCEPT !.classification = "infrastructure_failure",
                         !.reason = "harbor_process_failure"]
    ELSE verdict

\* Mutant: a failed process changes the classification and forgets the reason.
OverrideKeepsReason(verdict, trial, exitedCleanly) ==
    IF ~exitedCleanly /\ EffectiveException(trial) = "none"
    THEN [verdict EXCEPT !.classification = "infrastructure_failure"]
    ELSE verdict

\* The two overrides that follow: an agent failure needs the pinned agent, and a
\* failed Harbor process needs an exception that explains it.
Override(verdict, trial, exitedCleanly) ==
    IF ~exitedCleanly /\ EffectiveException(trial) = "none"
    THEN [verdict EXCEPT !.classification = "infrastructure_failure",
                         !.reason = "harbor_process_failure"]
    ELSE IF verdict.classification = "valid_agent_failure" /\ ~trial.agent
    THEN [verdict EXCEPT !.classification = "benchmark_defect",
                         !.reason = "harness_identity_mismatch"]
    ELSE verdict

\* outputs[p] is what phase p left; exitedCleanly is process_exit_code == 0.
FinalVerdict(trial, outputs, exitedCleanly) ==
    CASE trial.kind = "missing" ->
            Unreconciled("infrastructure_failure", "harbor_process_failure")
      [] trial.kind = "invalid" ->
            Unreconciled("infrastructure_failure", "harbor_result_invalid")
      [] trial.kind = "loaded" ->
            Override(Classify(trial, outputs[OutputPhase(trial)]), trial, exitedCleanly)

ReadsEvidence(trial) ==
    /\ trial.kind = "loaded"
    /\ ~LayoutErrors(trial)
    /\ EffectiveException(trial) = "none"
    /\ trial.agent
    /\ trial.checksum

\* load_model and _validate_reward_artifact answer an unreadable or invalid file with
\* an error of their own, but the UnicodeDecodeError of read_text is neither and leaves
\* _finalize.  Receipt and reward file are read of bound evidence only, the latter
\* unless the former did not decode.
UndecodableText(trial, output) ==
    /\ ReadsEvidence(trial)
    /\ \/ output.evidence.file = "undecodable"
       \/ /\ EvidenceBound(output.evidence)
          /\ output.receipt.file = "undecodable" \/ ~output.artifactText

\* The models refuse a total or a path: nothing in _finalize catches that either, and
\* the whole bundle is recorded whatever the verdict.
FinalizeRaises(trial, outputs) ==
    \/ trial.kind = "loaded" /\ ~trial.metrics
    \/ UndecodableText(trial, outputs[OutputPhase(trial)])
    \/ \E p \in DOMAIN outputs : ~outputs[p].recordable

\* _harbor_evidence.
EvidenceOfHarbor(trial) ==
    IF trial.kind = "loaded"
    THEN [checksum |-> IF trial.checksum THEN "match" ELSE "mismatch",
          agent |-> trial.agent]
    ELSE [checksum |-> "absent", agent |-> FALSE]

=============================================================================
