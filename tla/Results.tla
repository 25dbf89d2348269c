------------------------------ MODULE Results ------------------------------
(***************************************************************************)
(* The result bundle of src/src/slopbench/contracts.py: what one run       *)
(* publishes, the retry disposition it carries, and what a reader of a     *)
(* bundle may rely on (Publishable).  Trial shows that the runner publishes*)
(* nothing else; Evaluation reads such bundles and nothing more.           *)
(*                                                                         *)
(* A definition whose comment says "Mutant" is a slip a maintainer could   *)
(* make in the definition that follows it; no specification uses it.       *)
(***************************************************************************)
EXTENDS Integers

CONSTANTS
    Gates,              \* GateName
    ReceiptGate,        \* GateName.EVIDENCE_RECEIPT
    Applicable,         \* TaskContract.applicable_gates
    MaxAttempts,        \* RetryPolicy.max_attempts
    RetryableReasons    \* RetryPolicy.retryable_reasons

ASSUME GatesAssumption ==
    ReceiptGate \in Gates /\ Applicable \subseteq Gates /\ Applicable # {}

\* contracts.py, RetryPolicy and RetryableReason.
ASSUME RetryAssumption ==
    /\ MaxAttempts \in 1..3
    /\ RetryableReasons \subseteq {"provider_rate_limit", "environment_start_timeout"}

-----------------------------------------------------------------------------
(* The result bundle. *)

Classifications ==
    {"valid_pass", "valid_agent_failure", "invalid_run", "benchmark_defect",
     "infrastructure_failure"}

Attributable == {"valid_pass", "valid_agent_failure", "invalid_run"}

Reasons ==
    {"none", "gate_failure", "agent_timeout", "agent_exit", "receipt_missing",
     "receipt_invalid", "agent_setup_timeout", "environment_start_timeout",
     "provider_rate_limit", "provider_usage_limit", "harbor_process_failure",
     "harbor_exception", "harbor_result_invalid", "harness_identity_mismatch",
     "harbor_task_mismatch", "verifier_evidence_missing",
     "verifier_evidence_invalid", "verifier_contract_mismatch",
     "verifier_timeout", "reward_mismatch"}

OutcomeStates == {"passed", "failed", "not_applicable"}

Decisions ==
    {"classification_not_retryable", "reason_not_allowed", "attempts_exhausted",
     "retry_allowed"}

\* present, valid and digest are the receipt's; digest tells whether its SHA-256
\* is recorded.
VerdictType ==
    [classification: Classifications, reason: Reasons,
     outcomes: [Gates -> OutcomeStates],
     present: BOOLEAN, valid: BOOLEAN, digest: BOOLEAN]

\* HarborEvidence: the task checksum and the agent Harbor observed.
EvidenceOfHarborType == [checksum: {"absent", "match", "mismatch"}, agent: BOOLEAN]

RetryType == [eligible: BOOLEAN, decision: Decisions, remaining: Nat]

BundleType ==
    [verdict: VerdictType, harbor: EvidenceOfHarborType, completed: BOOLEAN,
     attempt: Nat, retry: RetryType]

Undecided == [g \in Gates |-> "not_applicable"]

AllPassed(outcomes) ==
    \A g \in Gates : outcomes[g] \in {"passed", "not_applicable"}

-----------------------------------------------------------------------------
(* The retry disposition and the bundle. *)

\* Mutant: the attempts are never exhausted.
RetryDecisionUnbounded(verdict, attempt) ==
    IF verdict.classification # "infrastructure_failure"
    THEN "classification_not_retryable"
    ELSE IF verdict.reason \notin RetryableReasons THEN "reason_not_allowed"
    ELSE "retry_allowed"

\* _retry_disposition.
RetryDecision(verdict, attempt) ==
    IF verdict.classification # "infrastructure_failure"
    THEN "classification_not_retryable"
    ELSE IF verdict.reason \notin RetryableReasons THEN "reason_not_allowed"
    ELSE IF attempt = MaxAttempts THEN "attempts_exhausted"
    ELSE "retry_allowed"

RetryDisposition(verdict, attempt) ==
    LET decision == RetryDecision(verdict, attempt)
    IN  [eligible |-> decision = "retry_allowed", decision |-> decision,
         remaining |-> MaxAttempts - attempt]

Bundle(verdict, harbor, attempt) ==
    [verdict |-> verdict,
     harbor |-> harbor,
     completed |-> verdict.classification = "valid_pass",
     attempt |-> attempt,
     retry |-> RetryDisposition(verdict, attempt)]

\* ResultBundle.validate_result, and the bound of remaining_attempts: a bundle
\* that fails it raises, and no result.json is written.
BundleAccepted(bundle) ==
    /\ bundle.completed = (bundle.verdict.classification = "valid_pass")
    /\ bundle.verdict.classification = "valid_pass" =>
            \A g \in Gates : bundle.verdict.outcomes[g] # "failed"
    /\ (bundle.verdict.reason = "none") = (bundle.verdict.classification = "valid_pass")
    /\ bundle.retry.eligible =
            (/\ bundle.verdict.classification = "infrastructure_failure"
             /\ bundle.retry.decision = "retry_allowed")
    /\ bundle.retry.remaining >= 0

-----------------------------------------------------------------------------
(* What a published bundle says, without the files it was concluded from. *)

\* Exactly the applicable gates have a verdict.
Decides(outcomes) ==
    \A g \in Gates : (outcomes[g] # "not_applicable") = (g \in Applicable)

NoReceiptFacts(v) == ~v.present /\ ~v.valid /\ ~v.digest

ReceiptFacts(v) == (v.valid => v.digest) /\ (v.digest => v.present)

InterruptionReasons == {"agent_timeout", "agent_exit"}

\* The agent's work was judged, on the pinned task and agent.
Judged(v, harbor) ==
    /\ harbor = [checksum |-> "match", agent |-> TRUE]
    /\ Decides(v.outcomes)
    /\ ReceiptFacts(v)
    /\ v.outcomes[ReceiptGate] = "passed" => v.valid
    /\ \/ /\ v.classification = "valid_pass" /\ v.reason = "none"
          /\ AllPassed(v.outcomes)
          /\ v.present => v.valid
       \/ /\ v.classification = "valid_agent_failure"
          /\ ~AllPassed(v.outcomes)
          /\ \/ v.reason = "gate_failure" /\ v.valid
             \/ v.reason = "receipt_missing" /\ ~v.present
       \/ /\ v.classification = "invalid_run" /\ v.reason = "receipt_invalid"
          /\ v.present /\ ~v.valid

\* The pinned agent stopped; nothing was judged, and nothing says on which task.
Interrupted(v, harbor) ==
    /\ harbor.checksum # "absent" /\ harbor.agent
    /\ v.classification = "valid_agent_failure"
    /\ v.reason \in InterruptionReasons
    /\ v.outcomes = Undecided
    /\ NoReceiptFacts(v)

DefectReasons ==
    {"harbor_result_invalid", "harness_identity_mismatch", "harbor_task_mismatch",
     "verifier_evidence_missing", "verifier_evidence_invalid",
     "verifier_contract_mismatch", "verifier_timeout", "reward_mismatch"}

InfrastructureReasons ==
    {"agent_setup_timeout", "environment_start_timeout", "provider_rate_limit",
     "provider_usage_limit", "harbor_process_failure", "harbor_exception",
     "harbor_result_invalid"}

\* The trial says nothing about the agent.  Gates may have been read before the
\* defect was seen, but never in a trial that may be retried.
Excluded(v, harbor) ==
    /\ \/ v.classification = "benchmark_defect" /\ v.reason \in DefectReasons
       \/ v.classification = "infrastructure_failure" /\ v.reason \in InfrastructureReasons
    /\ ReceiptFacts(v)
    /\ Decides(v.outcomes) \/ (v.outcomes = Undecided /\ NoReceiptFacts(v))
    /\ v.reason \in RetryableReasons => v.outcomes = Undecided
    /\ harbor.checksum = "absent" =>
           v.outcomes = Undecided
             /\ v.reason \in {"harbor_process_failure", "harbor_result_invalid"}

PublishableVerdict(v, harbor) ==
    Judged(v, harbor) \/ Interrupted(v, harbor) \/ Excluded(v, harbor)

Publishable(bundle, attempt) ==
    /\ bundle.verdict \in VerdictType
    /\ bundle.harbor \in EvidenceOfHarborType
    /\ PublishableVerdict(bundle.verdict, bundle.harbor)
    /\ bundle = Bundle(bundle.verdict, bundle.harbor, attempt)
=============================================================================
