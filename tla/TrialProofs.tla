---------------------------- MODULE TrialProofs ----------------------------
(***************************************************************************)
(* Proofs about Trial, for every set of gates, every number of phases, any *)
(* receipts and any bound on the faults.                                   *)
(***************************************************************************)
EXTENDS Trial, SequenceTheorems, TLAPS

-----------------------------------------------------------------------------
(* The decision procedure keeps its types. *)

\* The gate vector of _check_outcomes has one status per gate.
LEMMA CheckOutcomesType ==
    ASSUME NEW checks, NEW receiptValid
    PROVE  CheckOutcomes(checks, receiptValid) \in [Gates -> OutcomeStates]
  BY DEF CheckOutcomes, OutcomeStates

\* The reward vector that _validate_rewards expects is a reward vector.
LEMMA ExpectedRewardType ==
    ASSUME NEW outcomes \in [Gates -> OutcomeStates]
    PROVE  ExpectedReward(outcomes) \in RewardType
  BY DEF ExpectedReward, RewardType, RewardStates, OutcomeStates, AllPassed

\* _not_applicable_outcomes with a classification and a reason is a verdict.
LEMMA UnreconciledType ==
    ASSUME NEW c \in Classifications, NEW r \in Reasons
    PROVE  Unreconciled(c, r) \in VerdictType
  BY DEF Unreconciled, Undecided, Verdict, VerdictType, OutcomeStates

\* What _finalize may conclude: a verdict that names a reason unless it passes, and
\* that passes no trial with a failed gate.
Coherent(verdict) ==
    /\ verdict \in VerdictType
    /\ (verdict.reason = "none") = (verdict.classification = "valid_pass")
    /\ verdict.classification = "valid_pass" =>
           \A g \in Gates : verdict.outcomes[g] # "failed"

\* A failure that names its reason is coherent, whatever the reason.
LEMMA UnreconciledCoherent ==
    ASSUME NEW c \in Classifications \ {"valid_pass"}, NEW r \in Reasons \ {"none"}
    PROVE  Coherent(Unreconciled(c, r))
  <1>1. Unreconciled(c, r) \in VerdictType
    BY UnreconciledType
  <1> QED  BY <1>1 DEF Coherent, Unreconciled, Verdict

\* Whatever exception type Harbor names, _classify_exception answers.
LEMMA ClassifyExceptionCoherent ==
    ASSUME NEW e
    PROVE  Coherent(ClassifyException(e))
  <1>1. \E c \in Classifications \ {"valid_pass"}, r \in Reasons \ {"none"} :
            ClassifyException(e) = Unreconciled(c, r)
    BY DEF ClassifyException, Classifications, Reasons
  <1> QED  BY <1>1, UnreconciledCoherent

\* Reconciling verifier, receipt and rewards passes no trial with a failed gate.
LEMMA ReconcileCoherent ==
    ASSUME NEW t, NEW output
    PROVE  Coherent(Reconcile(t, output))
  <1> DEFINE checks == output.evidence.checks
             present == ReceiptPresent(output.receipt)
             valid == ReceiptValid(output.receipt, checks)
             outcomes == CheckOutcomes(checks, valid)
             digest == ReceiptDigest(output.receipt)
             Conclude(c, r) == Verdict(c, r, outcomes, present, valid, digest)
  <1>1. outcomes \in [Gates -> OutcomeStates] /\ present \in BOOLEAN /\ valid \in BOOLEAN
            /\ digest \in BOOLEAN
    BY CheckOutcomesType DEF ReceiptPresent, ReceiptValid, ReceiptDigest
  <1>2. ASSUME NEW c \in Classifications \ {"valid_pass"}, NEW r \in Reasons \ {"none"}
        PROVE  Coherent(Conclude(c, r))
    <2> HIDE DEF outcomes, present, valid, digest
    <2> QED  BY <1>1, <1>2 DEF Coherent, Verdict, VerdictType
  <1>3. AllPassed(outcomes) => Coherent(Conclude("valid_pass", "none"))
    <2> HIDE DEF outcomes, present, valid, digest
    <2> QED  BY <1>1 DEF Coherent, Verdict, VerdictType, AllPassed, Classifications, Reasons
  <1>4. \/ AllPassed(outcomes) /\ Reconcile(t, output) = Conclude("valid_pass", "none")
        \/ \E c \in Classifications \ {"valid_pass"}, r \in Reasons \ {"none"} :
              Reconcile(t, output) = Conclude(c, r)
    <2> HIDE DEF outcomes, present, valid, digest
    <2>1. Reconcile(t, output) =
              IF ~RewardsAgree(checks, t.reward, output.artifact)
              THEN Conclude("benchmark_defect", "reward_mismatch")
              ELSE IF ~ChecksFitContract(checks)
              THEN Conclude("benchmark_defect", "verifier_contract_mismatch")
              ELSE IF present /\ ~valid
              THEN Conclude("invalid_run", "receipt_invalid")
              ELSE IF ~AllPassed(outcomes)
              THEN Conclude("valid_agent_failure",
                              IF present THEN "gate_failure" ELSE "receipt_missing")
              ELSE IF Complete(t)
              THEN Conclude("valid_pass", "none")
              ELSE Conclude("benchmark_defect", "harbor_result_invalid")
      BY DEF Reconcile, outcomes, present, valid, digest
    <2> HIDE DEF checks, Conclude
    <2> QED  BY <2>1 DEF Classifications, Reasons
  <1> QED  BY <1>2, <1>3, <1>4

\* Every branch of the classification in _finalize is coherent.
LEMMA ClassifyCoherent ==
    ASSUME NEW t, NEW output
    PROVE  Coherent(Classify(t, output))
  <1>1. ASSUME NEW c \in Classifications \ {"valid_pass"}, NEW r \in Reasons \ {"none"}
        PROVE  Coherent(Unreconciled(c, r))
    BY UnreconciledCoherent
  <1>2. \/ \E c \in Classifications \ {"valid_pass"}, r \in Reasons \ {"none"} :
              Classify(t, output) = Unreconciled(c, r)
        \/ Classify(t, output) = ClassifyException(EffectiveException(t))
        \/ Classify(t, output) = Reconcile(t, output)
    BY DEF Classify, Classifications, Reasons
  <1> QED  BY <1>1, <1>2, ClassifyExceptionCoherent, ReconcileCoherent

\* Neither override of _finalize breaks what the classification established.
LEMMA OverrideCoherent ==
    ASSUME NEW verdict, Coherent(verdict), NEW t, NEW clean
    PROVE  Coherent(Override(verdict, t, clean))
  BY ZenonT(40) DEF Override, Coherent, VerdictType, Classifications, Reasons

\* So is the verdict after the overrides, and the one without a Harbor result.
LEMMA FinalVerdictCoherent ==
    ASSUME NEW t \in TrialResultType, NEW outs, NEW clean
    PROVE  Coherent(FinalVerdict(t, outs, clean))
  <1>1. CASE t.kind = "missing"
    <2>1. FinalVerdict(t, outs, clean)
             = Unreconciled("infrastructure_failure", "harbor_process_failure")
      BY <1>1 DEF FinalVerdict
    <2> QED  BY <2>1, UnreconciledCoherent DEF Classifications, Reasons
  <1>2. CASE t.kind = "invalid"
    <2>1. FinalVerdict(t, outs, clean)
             = Unreconciled("infrastructure_failure", "harbor_result_invalid")
      BY <1>2 DEF FinalVerdict
    <2> QED  BY <2>1, UnreconciledCoherent DEF Classifications, Reasons
  <1>3. CASE t.kind = "loaded"
    <2>1. FinalVerdict(t, outs, clean)
             = Override(Classify(t, outs[OutputPhase(t)]), t, clean)
      BY <1>3 DEF FinalVerdict
    <2> QED  BY <2>1, ClassifyCoherent, OverrideCoherent
  <1> QED  BY <1>1, <1>2, <1>3 DEF TrialResultType

\* _retry_disposition on an attempt of the manifest: the attempts left are counted
\* right, and only an infrastructure failure of an earlier attempt is eligible.
LEMMA RetryDispositionSound ==
    ASSUME NEW verdict \in VerdictType, NEW attempt \in 1..MaxAttempts
    PROVE  /\ RetryDisposition(verdict, attempt) \in RetryType
           /\ RetryDisposition(verdict, attempt).remaining >= 0
           /\ RetryDisposition(verdict, attempt).eligible =>
                /\ verdict.classification = "infrastructure_failure"
                /\ RetryDisposition(verdict, attempt).decision = "retry_allowed"
                /\ attempt < MaxAttempts
           /\ RetryDisposition(verdict, attempt).decision = "retry_allowed" =>
                RetryDisposition(verdict, attempt).eligible
  <1>1. MaxAttempts \in Nat
    BY RetryAssumption
  <1>2. RetryDecision(verdict, attempt) \in Decisions
    BY DEF RetryDecision, Decisions
  <1>3. RetryDecision(verdict, attempt) = "retry_allowed" =>
            verdict.classification = "infrastructure_failure" /\ attempt # MaxAttempts
    BY DEF RetryDecision
  <1>4. MaxAttempts - attempt \in Nat
    BY <1>1
  <1> DEFINE decision == RetryDecision(verdict, attempt)
             remaining == MaxAttempts - attempt
  <1>5. RetryDisposition(verdict, attempt) =
            [eligible |-> decision = "retry_allowed", decision |-> decision,
             remaining |-> remaining]
    BY DEF RetryDisposition
  <1>6. decision = "retry_allowed" => attempt < MaxAttempts
    BY <1>1, <1>3
  <1>7. (decision = "retry_allowed") \in BOOLEAN
    OBVIOUS
  <1>8. remaining \in Nat /\ remaining >= 0 /\ decision \in Decisions
    BY <1>2, <1>4
  <1>9. decision = "retry_allowed" => verdict.classification = "infrastructure_failure"
    BY <1>3
  <1> HIDE DEF decision, remaining
  <1>10. RetryDisposition(verdict, attempt) \in RetryType
    BY <1>5, <1>7, <1>8 DEF RetryType
  <1>11. /\ RetryDisposition(verdict, attempt).eligible = (decision = "retry_allowed")
         /\ RetryDisposition(verdict, attempt).decision = decision
         /\ RetryDisposition(verdict, attempt).remaining = remaining
    BY <1>5
  <1> QED  BY <1>6, <1>8, <1>9, <1>10, <1>11

\* What _finalize concludes always passes ResultBundle.validate_result.
THEOREM BundleAlwaysAccepted ==
    ASSUME NEW t \in TrialResultType, NEW outs, NEW clean, NEW attempt \in 1..MaxAttempts
    PROVE  LET b == Bundle(FinalVerdict(t, outs, clean), EvidenceOfHarbor(t), attempt)
           IN  b \in BundleType /\ BundleAccepted(b)
  <1> DEFINE v == FinalVerdict(t, outs, clean)
             h == EvidenceOfHarbor(t)
             r == RetryDisposition(v, attempt)
  <1>1. Coherent(v)
    BY FinalVerdictCoherent
  <1>2. v \in VerdictType
    BY <1>1 DEF Coherent
  <1>3. /\ r \in RetryType
        /\ r.remaining >= 0
        /\ r.eligible => v.classification = "infrastructure_failure"
                           /\ r.decision = "retry_allowed"
        /\ r.decision = "retry_allowed" => r.eligible
    <2> HIDE DEF v
    <2> QED  BY <1>2, RetryDispositionSound
  <1>4. Bundle(v, h, attempt) =
            [verdict |-> v, harbor |-> h, completed |-> v.classification = "valid_pass",
             attempt |-> attempt, retry |-> r]
    BY DEF Bundle
  <1>5. attempt \in Nat /\ r.eligible \in BOOLEAN
    BY <1>3, RetryAssumption DEF RetryType
  <1>9. h \in EvidenceOfHarborType
    BY DEF EvidenceOfHarbor, EvidenceOfHarborType, TrialResultType
  <1> HIDE DEF v, h, r
  <1>6. Bundle(v, h, attempt) \in BundleType
    BY <1>2, <1>3, <1>4, <1>5, <1>9 DEF BundleType
  <1> DEFINE b == Bundle(v, h, attempt)
  <1>7. /\ b.verdict = v
        /\ b.completed = (v.classification = "valid_pass")
        /\ b.retry = r
    BY <1>4
  <1> HIDE DEF b
  <1>8. BundleAccepted(b)
    <2>1. b.completed = (b.verdict.classification = "valid_pass")
      BY <1>7
    <2>2. b.verdict.classification = "valid_pass" =>
              \A g \in Gates : b.verdict.outcomes[g] # "failed"
      BY <1>1, <1>7 DEF Coherent
    <2>3. (b.verdict.reason = "none") = (b.verdict.classification = "valid_pass")
      BY <1>1, <1>7 DEF Coherent
    <2>4. b.retry.eligible = (/\ b.verdict.classification = "infrastructure_failure"
                              /\ b.retry.decision = "retry_allowed")
      BY <1>3, <1>5, <1>7
    <2>5. b.retry.remaining >= 0
      BY <1>3, <1>7
    <2> QED  BY <2>1, <2>2, <2>3, <2>4, <2>5 DEF BundleAccepted
  <1> QED  BY <1>6, <1>8 DEF v, h, b

-----------------------------------------------------------------------------
(* What Harbor, the agent and the verifier leave keeps its type. *)

\* Every exception a component raises is one that Harbor may record.
LEMMA ExceptionSets ==
    /\ "none" \in MaybeException
    /\ SetupExceptions \subseteq MaybeException
    /\ AgentExceptions \union ProviderExceptions \subseteq MaybeException
    /\ VerifierExceptions \subseteq MaybeException
  BY DEF MaybeException, Exceptions

\* A missing reward file is a reward.
LEMMA NoRewardType == NoReward \in RewardType
  BY DEF NoReward, RewardType, RewardStates

\* A phase directory nothing was written to has the type of one.
LEMMA NoOutputType == NoOutput \in OutputType
  <1>1. NoReceipt \in ReceiptType
    BY DEF NoReceipt, ReceiptType, FileKinds, ClaimStates
  <1>2. NoEvidence \in EvidenceType
    BY DEF NoEvidence, EvidenceType, FileKinds, CheckStates
  <1> QED  BY <1>1, <1>2, NoRewardType DEF NoOutput, OutputType

\* A missing result.json of Harbor has the type of one.
LEMMA NoTrialType == NoTrial \in TrialResultType
  <1>1. <<>> \in Seq(StepType)
    BY EmptySeq
  <1>2. NoReward \in RewardType /\ "none" \in MaybeException
    BY NoRewardType, ExceptionSets
  <1> QED  BY <1>1, <1>2 DEF NoTrial, TrialResultType

\* The rewards of a verifier that works are rewards.
LEMMA TrueRewardType ==
    ASSUME NEW done
    PROVE  TrueReward(done) \in RewardType
  BY CheckOutcomesType, ExpectedRewardType DEF TrueReward

\* The evidence of a verifier that works is evidence, and a readable file.
LEMMA TrueEvidenceType ==
    ASSUME NEW done
    PROVE  TrueEvidence(done) \in EvidenceType /\ TrueEvidence(done).file = "present"
  BY DEF TrueEvidence, TrueChecks, EvidenceType, FileKinds, CheckStates

\* A defective verifier leaves evidence or a file that is none.
LEMMA FaultyEvidenceType ==
    ASSUME NEW done, NEW e \in FaultyEvidence(done)
    PROVE  e \in EvidenceType
  <1> DEFINE t == TrueEvidence(done)
  <1>1. t \in EvidenceType /\ t.file = "present"
    BY TrueEvidenceType
  <1>2. \/ \E f \in FileKinds \ {"present"} : e = [t EXCEPT !.file = f]
        \/ e \in {[t EXCEPT !.task = FALSE], [t EXCEPT !.base = FALSE],
                  [t EXCEPT !.logs = FALSE]}
        \/ \E g \in Gates :
              e = [t EXCEPT !.checks[g] = IF g \in Applicable THEN "none" ELSE "passed"]
    BY DEF FaultyEvidence
  <1> HIDE DEF t
  <1>3. CASE \E f \in FileKinds \ {"present"} : e = [t EXCEPT !.file = f]
    BY <1>1, <1>3 DEF EvidenceType, FileKinds
  <1>4. CASE e \in {[t EXCEPT !.task = FALSE], [t EXCEPT !.base = FALSE],
                    [t EXCEPT !.logs = FALSE]}
    BY <1>1, <1>4 DEF EvidenceType
  <1>5. ASSUME NEW g \in Gates,
               e = [t EXCEPT !.checks[g] = IF g \in Applicable THEN "none" ELSE "passed"]
        PROVE  e \in EvidenceType
    <2>1. (IF g \in Applicable THEN "none" ELSE "passed") \in CheckStates
      BY DEF CheckStates
    <2> QED  BY <1>1, <1>5, <2>1 DEF EvidenceType
  <1> QED  BY <1>2, <1>3, <1>4, <1>5

\* So are the rewards of a verifier that does not.
LEMMA FaultyRewardType ==
    ASSUME NEW done, NEW r \in FaultyReward(done)
    PROVE  r \in RewardType
  <1> DEFINE t == TrueReward(done)
             Flip(v) == IF v = "one" THEN "zero" ELSE "one"
  <1>1. t \in RewardType /\ NoReward \in RewardType
    BY TrueRewardType, NoRewardType
  <1>2. \/ r \in {[t EXCEPT !.reward = Flip(t.reward)], NoReward}
        \/ \E g \in Gates : r = [t EXCEPT !.gates[g] = Flip(t.gates[g])]
        \/ \E g \in Applicable : r = [t EXCEPT !.gates[g] = "absent"]
    BY DEF FaultyReward
  <1>3. \A v : Flip(v) \in RewardStates
    BY DEF RewardStates
  <1> HIDE DEF t, Flip
  <1> QED  BY <1>1, <1>2, <1>3 DEF RewardType, RewardStates

\* What an agent leaves keeps the types.
LEMMA AgentLeavesType ==
    ASSUME TypeOK, NEW done \in SUBSET (Applicable \ {ReceiptGate}),
           NEW receipt \in Receipts, AgentLeaves(done, receipt)
    PROVE  /\ work' \in [Phases -> SUBSET Applicable]
           /\ outputs' \in [Phases -> OutputType]
  <1>1. receipt \in ReceiptType
    BY ReceiptsAssumption
  <1>2. (IF ReceiptGate \in Applicable /\ PassesReceiptCheck(receipt)
         THEN done \union {ReceiptGate} ELSE done) \in SUBSET Applicable
    OBVIOUS
  <1>3. work' \in [Phases -> SUBSET Applicable]
    BY <1>2 DEF AgentLeaves, TypeOK
  <1>4. outputs' = [outputs EXCEPT ![phase].receipt = receipt]
    BY DEF AgentLeaves
  <1>5. outputs \in [Phases -> OutputType] /\ phase \in Phases
    BY DEF TypeOK
  <1>6. outputs' \in [Phases -> OutputType]
    BY <1>1, <1>4, <1>5 DEF OutputType
  <1> QED  BY <1>3, <1>6

\* A recorded step result extends the steps by one.
LEMMA RecordStepType ==
    ASSUME TypeOK, NEW e \in MaybeException, NEW r \in RewardType, RecordStep(e, r)
    PROVE  steps' \in Seq(StepType)
  <1>1. phase \in Nat
    BY PhasesAssumption DEF TypeOK, Phases
  <1>2. [phase |-> phase, exception |-> e, reward |-> r] \in StepType
    BY <1>1 DEF StepType
  <1> QED  BY <1>2 DEF RecordStep, TypeOK

\* After a phase Harbor goes on to a phase of the task, or to its report.
LEMMA CheckpointType ==
    ASSUME TypeOK, NEW r \in RewardType, Checkpoint(r)
    PROVE  /\ steps' \in Seq(StepType)
           /\ stage' \in {"agent", "report"}
           /\ phase' \in Phases
           /\ raised' \in MaybeException
  <1>1. steps' \in Seq(StepType)
    BY RecordStepType DEF Checkpoint, TypeOK
  <1>2. phase' \in Phases
    BY PhasesAssumption DEF Checkpoint, TypeOK, Phases
  <1> QED  BY <1>1, <1>2, ExceptionSets DEF Checkpoint, TypeOK

\* The result.json that Harbor writes has the type of one.
LEMMA ReportedTrialType ==
    ASSUME TypeOK
    PROVE  ReportedTrial \in TrialResultType
  <1>1. (IF ~Sequential /\ topException = "none" THEN raised ELSE topException)
            \in MaybeException
    BY DEF TypeOK
  <1>2. (IF Sequential THEN steps ELSE <<>>) \in Seq(StepType)
    BY DEF TypeOK
  <1>3. (IF steps = <<>> THEN NoReward ELSE steps[Len(steps)].reward) \in RewardType
    <2>1. steps # <<>> => steps[Len(steps)] \in StepType
      BY EmptySeq, ElementOfSeq DEF TypeOK
    <2> QED  BY <2>1, NoRewardType DEF StepType
  <1>4. Sequential \in BOOLEAN
    BY DEF Sequential
  <1> QED  BY <1>1, <1>2, <1>3, <1>4 DEF ReportedTrial, TrialResultType

\* So has every result.json with a defective layout.
LEMMA FaultyLayoutsType ==
    ASSUME NEW t \in TrialResultType, NEW u \in FaultyLayouts(t)
    PROVE  u \in TrialResultType
  <1>1. CASE u = [t EXCEPT !.hasSteps = ~Sequential]
    BY <1>1 DEF TrialResultType
  <1>2. CASE /\ t.steps # <<>>
             /\ u \in {[t EXCEPT !.topAgentResult = TRUE],
                       [t EXCEPT !.steps = <<>>],
                       [t EXCEPT !.steps[1].phase = 0],
                       [t EXCEPT !.steps = Append(t.steps, t.steps[1])],
                       [t EXCEPT !.reward.reward = IF @ = "one" THEN "zero" ELSE "one"]}
    <2>1. t.steps \in Seq(StepType) /\ 1 \in 1..Len(t.steps) /\ t.steps[1] \in StepType
      <3>1. t.steps \in Seq(StepType)
        BY DEF TrialResultType
      <3>2. Len(t.steps) \in Nat \ {0}
        BY <1>2, <3>1, EmptySeq
      <3> QED  BY <3>1, <3>2, ElementOfSeq
    <2>7. ASSUME NEW q \in Seq(StepType)
          PROVE  [t EXCEPT !.steps = q] \in TrialResultType
      BY DEF TrialResultType
    <2>8. <<>> \in Seq(StepType)
      BY EmptySeq
    <2>2. CASE u = [t EXCEPT !.topAgentResult = TRUE]
      BY <2>2 DEF TrialResultType
    <2>3. CASE u = [t EXCEPT !.steps = <<>>]
      BY <2>3, <2>7, <2>8
    <2>4. CASE u = [t EXCEPT !.steps[1].phase = 0]
      <3>1. [t.steps[1] EXCEPT !.phase = 0] \in StepType
        BY <2>1 DEF StepType
      <3>2. [t.steps EXCEPT ![1] = [t.steps[1] EXCEPT !.phase = 0]] \in Seq(StepType)
        BY <2>1, <3>1, ExceptSeq
      <3>3. u = [t EXCEPT !.steps = [t.steps EXCEPT ![1] = [t.steps[1] EXCEPT !.phase = 0]]]
        BY <2>4
      <3> QED  BY <3>2, <3>3, <2>7
    <2>5. CASE u = [t EXCEPT !.steps = Append(t.steps, t.steps[1])]
      <3>1. Append(t.steps, t.steps[1]) \in Seq(StepType)
        BY <2>1
      <3> QED  BY <2>5, <2>7, <3>1
    <2>6. CASE u = [t EXCEPT !.reward.reward = IF @ = "one" THEN "zero" ELSE "one"]
      BY <2>6 DEF TrialResultType, RewardType, RewardStates
    <2> QED  BY <1>2, <2>2, <2>3, <2>4, <2>5, <2>6
  <1> QED  BY <1>1, <1>2 DEF FaultyLayouts

-----------------------------------------------------------------------------
(* Type correctness, and what can lose a run. *)

\* A run in progress has an attempt left, and so has one that may be retried.
AttemptsLeft ==
    /\ stage \notin {"done", "lost"} => Len(results) < MaxAttempts
    /\ stage = "done" /\ Settled.retry.eligible => Len(results) < MaxAttempts

\* A run is lost only because _finalize raised.
LostRaises == stage = "lost" => FinalizeRaises(trial, outputs)

IInv == TypeOK /\ AttemptsLeft /\ LostRaises

\* The first attempt starts in the invariant.
LEMMA InitIInv == Init => IInv
  <1> SUFFICES ASSUME Init PROVE IInv
    OBVIOUS
  <1> USE DEF Init, Fresh
  <1>1. TypeOK
    <2>1. /\ <<>> \in Seq(StepType)
          /\ <<>> \in Seq(BundleType)
      BY EmptySeq
    <2>2. 1 \in Phases
      BY PhasesAssumption DEF Phases
    <2>3. outputs \in [Phases -> OutputType]
      BY NoOutputType
    <2> QED  BY <2>1, <2>2, <2>3, NoTrialType, ExceptionSets DEF TypeOK, Stages
  <1>2. AttemptsLeft
    BY RetryAssumption DEF AttemptsLeft
  <1> QED  BY <1>1, <1>2 DEF IInv, LostRaises

\* The phase whose files _finalize reads, once it reads any, is a phase of the task.
LEMMA OutputPhaseExists ==
    ASSUME NEW t \in TrialResultType
    PROVE  OutputPhase(t) \in Phases
  <1>1. 1 \in Phases
    BY PhasesAssumption DEF Phases
  <1>2. ASSUME HasLastStep(t), PhasePrefix(t.steps)
        PROVE  Len(t.steps) \in Phases
    <2>1. Len(t.steps) \in Nat
      BY LenProperties DEF TrialResultType
    <2> QED  BY <1>2, <2>1 DEF HasLastStep, PhasePrefix, Phases
  <1> QED  BY <1>1, <1>2 DEF OutputPhase

\* _finalize keeps the invariant: its validator accepts the bundle it builds.
LEMMA FinalizeIInv == IInv /\ Finalize => IInv'
  <1> SUFFICES ASSUME IInv, Finalize PROVE IInv'
    OBVIOUS
  <1> DEFINE verdict == FinalVerdict(trial, outputs, exitedCleanly)
             bundle == Bundle(verdict, EvidenceOfHarbor(trial), Attempt)
  <1>1. TypeOK /\ trial \in TrialResultType /\ results \in Seq(BundleType)
    BY DEF IInv, TypeOK
  <1>2. Len(results) \in Nat /\ Len(results) < MaxAttempts
    BY <1>1, LenProperties DEF IInv, AttemptsLeft, Finalize
  <1>3. Attempt \in 1..MaxAttempts
    BY <1>2, RetryAssumption DEF Attempt
  <1>4. bundle \in BundleType /\ BundleAccepted(bundle)
    BY <1>1, <1>3, BundleAlwaysAccepted
  <1>5. bundle.retry.eligible => Attempt < MaxAttempts
    <2>1. verdict \in VerdictType
      BY <1>1, FinalVerdictCoherent DEF Coherent
    <2> HIDE DEF verdict
    <2>2. RetryDisposition(verdict, Attempt).eligible => Attempt < MaxAttempts
      BY <1>3, <2>1, RetryDispositionSound
    <2>3. bundle.retry = RetryDisposition(verdict, Attempt)
      BY DEF Bundle
    <2> QED  BY <2>2, <2>3
  <1>6. /\ \/ FinalizeRaises(trial, outputs) /\ stage' = "lost" /\ UNCHANGED results
           \/ stage' = "done" /\ results' = Append(results, bundle)
        /\ UNCHANGED <<phase, work, outputs, steps, raised, topException, trial,
                       exitedCleanly, faults>>
    BY <1>4 DEF Finalize
  <1> HIDE DEF bundle
  <1>7. results' \in Seq(BundleType)
    BY <1>1, <1>4, <1>6
  <1>8. TypeOK'
    BY <1>1, <1>6, <1>7 DEF TypeOK, Stages
  <1>9. AttemptsLeft'
    <2>1. CASE stage' = "lost"
      BY <2>1 DEF AttemptsLeft
    <2>2. CASE stage' = "done" /\ results' = Append(results, bundle)
      <3>1. Len(results') = Len(results) + 1 /\ results'[Len(results')] = bundle
        BY <1>1, <1>2, <2>2
      <3> QED  BY <1>5, <2>2, <3>1 DEF AttemptsLeft, Settled, Attempt
    <2> QED  BY <1>6, <2>1, <2>2
  <1>10. LostRaises'
    BY <1>6 DEF LostRaises
  <1> QED  BY <1>8, <1>9, <1>10 DEF IInv

\* A retry keeps the invariant: an eligible disposition leaves an attempt.
LEMMA RetryIInv == IInv /\ Retry => IInv'
  <1> SUFFICES ASSUME IInv, Retry PROVE IInv'
    OBVIOUS
  <1>1. TypeOK /\ results' = results
    BY DEF IInv, Retry
  <1>2. TypeOK'
    <2>1. <<>> \in Seq(StepType) /\ 1 \in Phases
      BY EmptySeq, PhasesAssumption DEF Phases
    <2> QED
      BY <1>1, <2>1, NoTrialType, NoOutputType, ExceptionSets DEF Retry, TypeOK, Stages
  <1>3. AttemptsLeft'
    BY DEF IInv, AttemptsLeft, Retry
  <1>4. LostRaises'
    BY DEF LostRaises, Retry
  <1> QED  BY <1>2, <1>3, <1>4 DEF IInv

\* A step of Harbor's that leaves the results alone and ends no run keeps the
\* invariant when it keeps the types.
LEMMA HarborIInv ==
    ASSUME IInv, TypeOK', results' = results,
           stage \notin {"done", "lost"}, stage' \notin {"done", "lost"}
    PROVE  IInv'
  BY DEF IInv, AttemptsLeft, LostRaises

\* Faults are recorded by kind and phase.
LEMMA FaultRecorded ==
    ASSUME TypeOK, NEW kind \in FaultKinds,
           faults' = faults \union {<<kind, phase>>}
    PROVE  faults' \subseteq FaultKinds \X Phases
  BY DEF TypeOK

\* Setting up keeps the invariant.
LEMMA SetupIInv == IInv /\ (SetUp \/ SetupFails) => IInv'
  <1> SUFFICES ASSUME IInv, SetUp \/ SetupFails PROVE IInv'
    OBVIOUS
  <1>1. TypeOK
    BY DEF IInv
  <1>2. CASE SetUp
    <2>1. TypeOK'
      BY <1>1, <1>2 DEF SetUp, TypeOK, Stages
    <2> QED  BY <1>2, <2>1, HarborIInv DEF SetUp
  <1>3. CASE SetupFails
    <2>1. topException' \in MaybeException
      BY <1>3, ExceptionSets DEF SetupFails
    <2>2. faults' \subseteq FaultKinds \X Phases
      BY <1>1, <1>3, FaultRecorded DEF SetupFails, FaultKinds
    <2>3. TypeOK'
      BY <1>1, <1>3, <2>1, <2>2 DEF SetupFails, TypeOK, Stages
    <2> QED  BY <1>3, <2>3, HarborIInv DEF SetupFails
  <1> QED  BY <1>2, <1>3

\* What agents do keeps the invariant.
LEMMA AgentIInv == IInv /\ (AgentFinishes \/ AgentInterrupted) => IInv'
  <1> SUFFICES ASSUME IInv, AgentFinishes \/ AgentInterrupted PROVE IInv'
    OBVIOUS
  <1>1. TypeOK
    BY DEF IInv
  <1>2. /\ work' \in [Phases -> SUBSET Applicable]
        /\ outputs' \in [Phases -> OutputType]
    BY <1>1, AgentLeavesType DEF AgentFinishes, AgentInterrupted
  <1>4. CASE AgentFinishes
    <2>1. TypeOK'
      BY <1>1, <1>2, <1>4 DEF AgentFinishes, TypeOK, Stages
    <2> QED  BY <1>4, <2>1, HarborIInv DEF AgentFinishes
  <1>5. CASE AgentInterrupted
    <2>1. PICK e \in AgentExceptions \union ProviderExceptions :
              /\ faults' = faults \union
                    {<<IF e \in AgentExceptions THEN "agent" ELSE "provider", phase>>}
              /\ raised' = e
              /\ \/ stage' = "verify" /\ UNCHANGED steps
                 \/ stage' = "report" /\ RecordStep(e, NoReward)
      BY <1>5 DEF AgentInterrupted
    <2>2. raised' \in MaybeException
      BY <2>1, ExceptionSets
    <2>3. steps' \in Seq(StepType)
      BY <1>1, <2>1, RecordStepType, NoRewardType, ExceptionSets DEF TypeOK
    <2>4. faults' \subseteq FaultKinds \X Phases
      BY <1>1, <2>1, FaultRecorded DEF FaultKinds
    <2>5. TypeOK'
      BY <1>1, <1>2, <1>5, <2>1, <2>2, <2>3, <2>4 DEF AgentInterrupted, TypeOK, Stages
    <2> QED  BY <1>5, <2>1, <2>5, HarborIInv DEF AgentInterrupted
  <1> QED  BY <1>4, <1>5

\* Evidence and a reward file keep the outputs' type, and so does a reward file that
\* is no text.
LEMMA OutputsType ==
    ASSUME TypeOK, NEW e \in EvidenceType, NEW r \in RewardType, NEW text \in BOOLEAN,
           \/ outputs' = [outputs EXCEPT ![phase].evidence = e, ![phase].artifact = r]
           \/ outputs' = [outputs EXCEPT ![phase].evidence = e, ![phase].artifact = r,
                                         ![phase].artifactText = text]
    PROVE  outputs' \in [Phases -> OutputType]
  <1>1. outputs \in [Phases -> OutputType] /\ phase \in Phases
    BY DEF TypeOK
  <1> QED  BY <1>1 DEF OutputType

\* A file that cannot be recorded keeps the invariant.
LEMMA LeavesUnrecordableIInv == IInv /\ LeavesUnrecordable => IInv'
  <1> SUFFICES ASSUME IInv, LeavesUnrecordable PROVE IInv'
    OBVIOUS
  <1>1. TypeOK
    BY DEF IInv
  <1>2. faults' \subseteq FaultKinds \X Phases
    BY <1>1, FaultRecorded DEF LeavesUnrecordable, FaultKinds
  <1>3. outputs' \in [Phases -> OutputType]
    BY <1>1 DEF LeavesUnrecordable, TypeOK, OutputType
  <1>4. TypeOK'
    BY <1>1, <1>2, <1>3 DEF LeavesUnrecordable, TypeOK
  <1> QED  BY <1>4, HarborIInv DEF LeavesUnrecordable

\* A verifier that works keeps the invariant.
LEMMA VerifierReportsIInv == IInv /\ VerifierReports => IInv'
  <1> SUFFICES ASSUME IInv, VerifierReports PROVE IInv'
    OBVIOUS
  <1>1. TypeOK
    BY DEF IInv
  <1>2. outputs' \in [Phases -> OutputType]
    BY <1>1, OutputsType, TrueEvidenceType, TrueRewardType DEF VerifierReports
  <1>3. /\ steps' \in Seq(StepType)
        /\ stage' \in {"agent", "report"}
        /\ phase' \in Phases
        /\ raised' \in MaybeException
    BY <1>1, TrueRewardType, CheckpointType DEF VerifierReports
  <1>4. TypeOK'
    BY <1>1, <1>2, <1>3 DEF VerifierReports, TypeOK, Stages
  <1> QED  BY <1>3, <1>4, HarborIInv DEF VerifierReports

\* A verifier with wrong evidence keeps the invariant.
LEMMA VerifierMisreportsIInv == IInv /\ VerifierMisreports => IInv'
  <1> SUFFICES ASSUME IInv, VerifierMisreports PROVE IInv'
    OBVIOUS
  <1>1. TypeOK
    BY DEF IInv
  <1>2. PICK e \in EvidenceType, file \in RewardType, text \in BOOLEAN,
             r \in RewardType, kind \in FaultKinds :
            /\ \/ outputs' = [outputs EXCEPT ![phase].evidence = e, ![phase].artifact = file]
               \/ outputs' = [outputs EXCEPT ![phase].evidence = e, ![phase].artifact = file,
                                             ![phase].artifactText = text]
            /\ Checkpoint(r)
            /\ faults' = faults \union {<<kind, phase>>}
    <2>1. {"evidence", "reward", "artifact"} \subseteq FaultKinds
      BY DEF FaultKinds
    <2>2. CASE \E e \in FaultyEvidence(work[phase]) :
                 /\ outputs' = [outputs EXCEPT ![phase].evidence = e,
                                               ![phase].artifact = TrueReward(work[phase])]
                 /\ faults' = faults \union {<<"evidence", phase>>}
                 /\ Checkpoint(TrueReward(work[phase]))
      <3>1. PICK e \in FaultyEvidence(work[phase]) :
              /\ outputs' = [outputs EXCEPT ![phase].evidence = e,
                                            ![phase].artifact = TrueReward(work[phase])]
              /\ faults' = faults \union {<<"evidence", phase>>}
              /\ Checkpoint(TrueReward(work[phase]))
        BY <2>2
      <3>2. e \in EvidenceType
        BY FaultyEvidenceType
      <3>3. TrueReward(work[phase]) \in RewardType
        BY TrueRewardType
      <3> QED  BY <2>1, <3>1, <3>2, <3>3
    <2>3. CASE \E r \in FaultyReward(work[phase]) :
                 /\ outputs' = [outputs EXCEPT ![phase].evidence = TrueEvidence(work[phase]),
                                               ![phase].artifact = r]
                 /\ faults' = faults \union {<<"reward", phase>>}
                 /\ Checkpoint(r)
      <3>1. PICK r \in FaultyReward(work[phase]) :
              /\ outputs' = [outputs EXCEPT ![phase].evidence = TrueEvidence(work[phase]),
                                            ![phase].artifact = r]
              /\ faults' = faults \union {<<"reward", phase>>}
              /\ Checkpoint(r)
        BY <2>3
      <3>2. TrueEvidence(work[phase]) \in EvidenceType
        BY TrueEvidenceType
      <3>3. r \in RewardType
        BY FaultyRewardType
      <3> QED  BY <2>1, <3>1, <3>2, <3>3
    <2>4. CASE /\ \E text \in BOOLEAN :
                     outputs' = [outputs EXCEPT ![phase].evidence = TrueEvidence(work[phase]),
                                                ![phase].artifact = NoReward,
                                                ![phase].artifactText = text]
               /\ faults' = faults \union {<<"artifact", phase>>}
               /\ Checkpoint(TrueReward(work[phase]))
      <3>1. PICK text \in BOOLEAN :
              outputs' = [outputs EXCEPT ![phase].evidence = TrueEvidence(work[phase]),
                                         ![phase].artifact = NoReward,
                                         ![phase].artifactText = text]
        BY <2>4
      <3>2. /\ TrueEvidence(work[phase]) \in EvidenceType
            /\ TrueReward(work[phase]) \in RewardType
            /\ NoReward \in RewardType
        BY TrueEvidenceType, TrueRewardType, NoRewardType
      <3> QED  BY <2>1, <2>4, <3>1, <3>2
    <2> QED  BY <2>2, <2>3, <2>4 DEF VerifierMisreports
  <1>3. outputs' \in [Phases -> OutputType]
    BY <1>1, <1>2, OutputsType
  <1>4. /\ steps' \in Seq(StepType)
        /\ stage' \in {"agent", "report"}
        /\ phase' \in Phases
        /\ raised' \in MaybeException
    BY <1>1, <1>2, CheckpointType
  <1>5. faults' \subseteq FaultKinds \X Phases
    BY <1>1, <1>2, FaultRecorded
  <1>6. TypeOK'
    BY <1>1, <1>3, <1>4, <1>5 DEF VerifierMisreports, TypeOK, Stages
  <1> QED  BY <1>4, <1>6, HarborIInv DEF VerifierMisreports

\* A verifier that raises keeps the invariant.
LEMMA VerifierFailsIInv == IInv /\ VerifierFails => IInv'
  <1> SUFFICES ASSUME IInv, VerifierFails PROVE IInv'
    OBVIOUS
  <1>1. TypeOK
    BY DEF IInv
  <1>2. PICK first \in MaybeException : raised' = first /\ RecordStep(first, NoReward)
    BY <1>1, ExceptionSets DEF VerifierFails, TypeOK
  <1>3. steps' \in Seq(StepType)
    BY <1>1, <1>2, RecordStepType, NoRewardType
  <1>4. faults' \subseteq FaultKinds \X Phases
    BY <1>1, FaultRecorded DEF VerifierFails, FaultKinds
  <1>5. TypeOK'
    BY <1>1, <1>2, <1>3, <1>4 DEF VerifierFails, TypeOK, Stages
  <1> QED  BY <1>5, HarborIInv DEF VerifierFails

\* Harbor stops between two phases, or altogether.
LEMMA HarborStopsIInv == IInv /\ (StopsEarly \/ HarborDies) => IInv'
  <1> SUFFICES ASSUME IInv, StopsEarly \/ HarborDies PROVE IInv'
    OBVIOUS
  <1>1. TypeOK
    BY DEF IInv
  <1>2. faults' \subseteq FaultKinds \X Phases
    BY <1>1, FaultRecorded DEF StopsEarly, HarborDies, FaultKinds
  <1>3. CASE StopsEarly
    <2>1. TypeOK'
      BY <1>1, <1>2, <1>3 DEF StopsEarly, TypeOK, Stages
    <2> QED  BY <1>3, <2>1, HarborIInv DEF StopsEarly
  <1>4. CASE HarborDies
    <2>1. TypeOK'
      BY <1>1, <1>2, <1>4 DEF HarborDies, TypeOK, Stages
    <2> QED  BY <1>4, <2>1, HarborIInv DEF HarborDies
  <1> QED  BY <1>3, <1>4

\* Harbor's report keeps the invariant, with any of its defects.
LEMMA HarborReportsIInv == IInv /\ (HarborReports \/ HarborMisreports) => IInv'
  <1> SUFFICES ASSUME IInv, HarborReports \/ HarborMisreports PROVE IInv'
    OBVIOUS
  <1>1. TypeOK
    BY DEF IInv
  <1>2. ReportedTrial \in TrialResultType
    BY <1>1, ReportedTrialType
  <1>3. CASE HarborReports
    <2>1. exitedCleanly' \in BOOLEAN
      BY <1>3 DEF HarborReports
    <2>2. TypeOK'
      BY <1>1, <1>2, <1>3, <2>1 DEF HarborReports, TypeOK, Stages
    <2> QED  BY <1>3, <2>2, HarborIInv DEF HarborReports
  <1>4. CASE HarborMisreports
    <2>1. trial' \in TrialResultType
      <3>1. \A kind \in {"missing", "invalid"} : [NoTrial EXCEPT !.kind = kind] \in TrialResultType
        BY NoTrialType DEF TrialResultType
      <3>2. /\ [ReportedTrial EXCEPT !.agent = FALSE] \in TrialResultType
            /\ [ReportedTrial EXCEPT !.checksum = FALSE] \in TrialResultType
            /\ [ReportedTrial EXCEPT !.metrics = FALSE] \in TrialResultType
        BY <1>2 DEF TrialResultType
      <3>3. \A u \in FaultyLayouts(ReportedTrial) : u \in TrialResultType
        BY <1>2, FaultyLayoutsType
      <3> QED  BY <1>2, <1>4, <3>1, <3>2, <3>3 DEF HarborMisreports
    <2>2. exitedCleanly' \in BOOLEAN
      BY <1>4 DEF HarborMisreports
    <2>3. faults' \subseteq FaultKinds \X Phases
      BY <1>1, <1>4, FaultRecorded DEF HarborMisreports, FaultKinds
    <2>4. TypeOK'
      BY <1>1, <1>4, <2>1, <2>2, <2>3 DEF HarborMisreports, TypeOK, Stages
    <2> QED  BY <1>4, <2>4, HarborIInv DEF HarborMisreports
  <1> QED  BY <1>3, <1>4

\* No step of a trial breaks the invariant.
LEMMA StepIInv == IInv /\ [Next]_vars => IInv'
  <1> SUFFICES ASSUME IInv, [Next]_vars PROVE IInv'
    OBVIOUS
  <1>1. CASE UNCHANGED vars
    BY <1>1 DEF vars, IInv, TypeOK, AttemptsLeft, LostRaises, Settled
  <1>2. CASE Next
    BY <1>2, SetupIInv, AgentIInv, LeavesUnrecordableIInv, VerifierReportsIInv, VerifierMisreportsIInv,
       VerifierFailsIInv, HarborStopsIInv, HarborReportsIInv, FinalizeIInv, RetryIInv
    DEF Next
  <1> QED  BY <1>1, <1>2

\* The inductive invariant of the trial.
THEOREM Invariance == Spec => []IInv
  BY InitIInv, StepIInv, PTL DEF Spec

\* Every reachable state has the types of the model, whatever the constants.
THEOREM TypeCorrect == Spec => []TypeOK
  BY Invariance, PTL DEF IInv

-----------------------------------------------------------------------------
(* The trial implements its contract. *)

\* A verdict that excludes the trial and decided nothing is publishable.
LEMMA UnreconciledExcluded ==
    ASSUME NEW c, NEW r, NEW h,
           \/ c = "benchmark_defect" /\ r \in DefectReasons
           \/ c = "infrastructure_failure" /\ r \in InfrastructureReasons,
           h.checksum # "absent" \/ r \in {"harbor_process_failure", "harbor_result_invalid"}
    PROVE  Excluded(Unreconciled(c, r), h)
  <1> DEFINE v == Unreconciled(c, r)
  <1>1. /\ v.classification = c /\ v.reason = r /\ v.outcomes = Undecided
        /\ ~v.present /\ ~v.valid /\ ~v.digest
    BY DEF Unreconciled, Verdict
  <1> HIDE DEF v
  <1>2. Excluded(v, h)
    BY <1>1 DEF Excluded, ReceiptFacts, NoReceiptFacts
  <1> QED  BY <1>2 DEF v

\* What _classify_exception answers either excludes the trial or blames an agent
\* that stopped.
LEMMA ClassifyExceptionShape ==
    ASSUME NEW e
    PROVE  \/ \E r \in InterruptionReasons :
                 ClassifyException(e) = Unreconciled("valid_agent_failure", r)
           \/ \E r \in DefectReasons :
                 ClassifyException(e) = Unreconciled("benchmark_defect", r)
           \/ \E r \in InfrastructureReasons :
                 ClassifyException(e) = Unreconciled("infrastructure_failure", r)
  BY DEF ClassifyException, InterruptionReasons, DefectReasons, InfrastructureReasons

\* The facts of a receipt and the gates fit together whenever evidence was read.
FitsEvidence(v) ==
    /\ Decides(v.outcomes)
    /\ ReceiptFacts(v)
    /\ v.outcomes[ReceiptGate] = "passed" => v.valid

\* A reconciled verdict is one that the abstract specification may publish.
LEMMA ReconcileShape ==
    ASSUME NEW t, NEW output,
           NEW h, h = [checksum |-> "match", agent |-> TRUE]
    PROVE  LET v == Reconcile(t, output)
           IN  /\ FitsEvidence(v)
               /\ \/ Judged(v, h)
                  \/ v.classification = "benchmark_defect" /\ v.reason \in DefectReasons
  <1> DEFINE checks == output.evidence.checks
             present == ReceiptPresent(output.receipt)
             valid == ReceiptValid(output.receipt, checks)
             digest == ReceiptDigest(output.receipt)
             outcomes == CheckOutcomes(checks, valid)
             Conclude(c, r) == Verdict(c, r, outcomes, present, valid, digest)
             v == Reconcile(t, output)
  <1>1. /\ Decides(outcomes)
        /\ outcomes[ReceiptGate] = "passed" => valid
    BY GatesAssumption DEF Decides, CheckOutcomes
  <1>2. (valid => digest) /\ (digest => present)
    BY DEF ReceiptValid, ReceiptDigest, ReceiptPresent
  <1>3. ASSUME NEW c, NEW r
        PROVE  /\ Conclude(c, r).classification = c /\ Conclude(c, r).reason = r
               /\ Conclude(c, r).outcomes = outcomes
               /\ Conclude(c, r).present = present
               /\ Conclude(c, r).valid = valid
               /\ Conclude(c, r).digest = digest
    BY DEF Verdict
  <1>4. \/ v = Conclude("benchmark_defect", "reward_mismatch")
        \/ v = Conclude("benchmark_defect", "verifier_contract_mismatch")
        \/ v = Conclude("benchmark_defect", "harbor_result_invalid")
        \/ v = Conclude("invalid_run", "receipt_invalid") /\ present /\ ~valid
        \/ /\ v = Conclude("valid_agent_failure",
                           IF present THEN "gate_failure" ELSE "receipt_missing")
           /\ ~AllPassed(outcomes) /\ (present => valid)
        \/ /\ v = Conclude("valid_pass", "none")
           /\ AllPassed(outcomes) /\ (present => valid)
    BY DEF Reconcile
  <1> HIDE DEF checks, present, valid, digest, outcomes, Conclude, v
  <1>5. /\ v.outcomes = outcomes /\ v.present = present
        /\ v.valid = valid /\ v.digest = digest
    BY <1>3, <1>4
  <1>6. FitsEvidence(v)
    BY <1>1, <1>2, <1>5 DEF FitsEvidence, ReceiptFacts
  <1>7. \/ v.classification = "benchmark_defect" /\ v.reason \in DefectReasons
        \/ /\ v.classification = "invalid_run" /\ v.reason = "receipt_invalid"
           /\ present /\ ~valid
        \/ /\ v.classification = "valid_agent_failure"
           /\ v.reason = IF present THEN "gate_failure" ELSE "receipt_missing"
           /\ ~AllPassed(outcomes) /\ (present => valid)
        \/ /\ v.classification = "valid_pass" /\ v.reason = "none"
           /\ AllPassed(outcomes) /\ (present => valid)
    BY <1>3, <1>4 DEF DefectReasons
  <1>8. valid => present
    BY <1>2
  <1>9. \/ Judged(v, h)
        \/ v.classification = "benchmark_defect" /\ v.reason \in DefectReasons
    BY <1>5, <1>6, <1>7, <1>8 DEF Judged, FitsEvidence
  <1> QED  BY <1>6, <1>9 DEF v

\* So is every other verdict of the classification, for its reason.
LEMMA ClassifyShape ==
    ASSUME NEW t \in TrialResultType, t.kind = "loaded", NEW output
    PROVE  LET v == Classify(t, output)
               h == EvidenceOfHarbor(t)
           IN  \/ Excluded(v, h)
               \/ Judged(v, h) /\ EffectiveException(t) = "none"
               \/ \E r \in InterruptionReasons : v = Unreconciled("valid_agent_failure", r)
  <1> DEFINE v == Classify(t, output)
             h == EvidenceOfHarbor(t)
  <1> SUFFICES \/ Excluded(v, h)
               \/ Judged(v, h) /\ EffectiveException(t) = "none"
               \/ \E r \in InterruptionReasons : v = Unreconciled("valid_agent_failure", r)
    OBVIOUS
  <1>1. /\ h.checksum # "absent"
        /\ h.agent = t.agent
        /\ t.agent /\ t.checksum => h = [checksum |-> "match", agent |-> TRUE]
    BY DEF EvidenceOfHarbor, TrialResultType
  <1>2. \/ \E r \in DefectReasons : v = Unreconciled("benchmark_defect", r)
        \/ v = ClassifyException(EffectiveException(t))
        \/ /\ v = Reconcile(t, output)
           /\ EffectiveException(t) = "none" /\ t.agent /\ t.checksum
    BY DEF Classify, DefectReasons
  <1> HIDE DEF v, h
  <1>3. CASE \E r \in DefectReasons : v = Unreconciled("benchmark_defect", r)
    BY <1>1, <1>3, UnreconciledExcluded
  <1>4. CASE v = ClassifyException(EffectiveException(t))
    <2>1. ASSUME NEW r \in DefectReasons PROVE Excluded(Unreconciled("benchmark_defect", r), h)
      BY <1>1, UnreconciledExcluded
    <2>2. ASSUME NEW r \in InfrastructureReasons
          PROVE  Excluded(Unreconciled("infrastructure_failure", r), h)
      BY <1>1, UnreconciledExcluded
    <2> QED  BY <1>4, <2>1, <2>2, ClassifyExceptionShape
  <1>5. CASE /\ v = Reconcile(t, output)
             /\ EffectiveException(t) = "none" /\ t.agent /\ t.checksum
    <2>1. /\ FitsEvidence(v)
          /\ \/ Judged(v, h)
             \/ v.classification = "benchmark_defect" /\ v.reason \in DefectReasons
      BY <1>1, <1>5, ReconcileShape
    <2>2. v.reason \in DefectReasons => v.reason \notin RetryableReasons
      BY RetryAssumption DEF DefectReasons
    <2> QED  BY <1>1, <1>5, <2>1, <2>2 DEF Excluded, FitsEvidence
  <1> QED  BY <1>2, <1>3, <1>4, <1>5

\* Whatever a trial left, what _finalize concludes of it is publishable.
THEOREM FinalVerdictPublishable ==
    ASSUME NEW t \in TrialResultType, NEW outs, NEW clean
    PROVE  PublishableVerdict(FinalVerdict(t, outs, clean), EvidenceOfHarbor(t))
  <1> DEFINE h == EvidenceOfHarbor(t)
             v == FinalVerdict(t, outs, clean)
  <1> SUFFICES PublishableVerdict(v, h)
    OBVIOUS
  <1>1. CASE t.kind = "missing"
    <2>1. v = Unreconciled("infrastructure_failure", "harbor_process_failure")
      BY <1>1 DEF FinalVerdict
    <2> QED
      BY <2>1, UnreconciledExcluded DEF InfrastructureReasons, PublishableVerdict
  <1>2. CASE t.kind = "invalid"
    <2>1. v = Unreconciled("infrastructure_failure", "harbor_result_invalid")
      BY <1>2 DEF FinalVerdict
    <2> QED
      BY <2>1, UnreconciledExcluded DEF InfrastructureReasons, PublishableVerdict
  <1>3. CASE t.kind = "loaded"
    <2> DEFINE c == Classify(t, outs[OutputPhase(t)])
    <2>1. v = Override(c, t, clean)
      BY <1>3 DEF FinalVerdict
    <2>2. Coherent(c)
      BY ClassifyCoherent
    <2>3. \/ Excluded(c, h)
          \/ Judged(c, h) /\ EffectiveException(t) = "none"
          \/ \E r \in InterruptionReasons : c = Unreconciled("valid_agent_failure", r)
      BY <1>3, ClassifyShape
    <2>4. h.checksum # "absent" /\ h.agent = t.agent /\ t.agent \in BOOLEAN
      BY <1>3 DEF EvidenceOfHarbor, TrialResultType
    <2>5. /\ "harbor_process_failure" \in InfrastructureReasons \ RetryableReasons
          /\ "harness_identity_mismatch" \in DefectReasons \ RetryableReasons
      BY RetryAssumption DEF InfrastructureReasons, DefectReasons
    <2>6. ASSUME NEW r \in InterruptionReasons, c = Unreconciled("valid_agent_failure", r)
          PROVE  /\ c.outcomes = Undecided /\ NoReceiptFacts(c) /\ ReceiptFacts(c)
                 /\ c.classification = "valid_agent_failure" /\ c.reason = r
      BY <2>6 DEF Unreconciled, Verdict, NoReceiptFacts, ReceiptFacts
    <2>7. /\ ReceiptFacts(c)
          /\ Decides(c.outcomes) \/ (c.outcomes = Undecided /\ NoReceiptFacts(c))
      BY <2>3, <2>6 DEF Excluded, Judged
    <2> HIDE DEF c, h, v
    <2>8. ASSUME NEW cl, NEW r,
                 \/ cl = "benchmark_defect" /\ r \in DefectReasons \ RetryableReasons
                 \/ cl = "infrastructure_failure" /\ r \in InfrastructureReasons \ RetryableReasons
          PROVE  Excluded([c EXCEPT !.classification = cl, !.reason = r], h)
      <3> DEFINE w == [c EXCEPT !.classification = cl, !.reason = r]
      <3>1. /\ w.classification = cl /\ w.reason = r /\ w.outcomes = c.outcomes
            /\ w.present = c.present /\ w.valid = c.valid /\ w.digest = c.digest
        BY <2>2 DEF Coherent, VerdictType
      <3> HIDE DEF w
      <3>2. Excluded(w, h)
        BY <2>4, <2>7, <2>8, <3>1 DEF Excluded, ReceiptFacts, NoReceiptFacts
      <3> QED  BY <3>2 DEF w
    <2>9. CASE ~clean /\ EffectiveException(t) = "none"
      <3>1. v = [c EXCEPT !.classification = "infrastructure_failure",
                          !.reason = "harbor_process_failure"]
        BY <2>1, <2>9 DEF Override
      <3> QED  BY <2>5, <2>8, <3>1 DEF PublishableVerdict
    <2>10. CASE /\ ~(~clean /\ EffectiveException(t) = "none")
                /\ c.classification = "valid_agent_failure" /\ ~t.agent
      <3>1. v = [c EXCEPT !.classification = "benchmark_defect",
                          !.reason = "harness_identity_mismatch"]
        BY <2>1, <2>10 DEF Override
      <3> QED  BY <2>5, <2>8, <3>1 DEF PublishableVerdict
    <2>11. CASE /\ ~(~clean /\ EffectiveException(t) = "none")
                /\ ~(c.classification = "valid_agent_failure" /\ ~t.agent)
      <3>1. v = c
        BY <2>1, <2>11 DEF Override
      <3>2. (\E r \in InterruptionReasons : c = Unreconciled("valid_agent_failure", r))
              => Interrupted(c, h)
        BY <2>4, <2>6, <2>11 DEF Interrupted
      <3> QED  BY <2>3, <3>1, <3>2 DEF PublishableVerdict
    <2> QED  BY <2>9, <2>10, <2>11
  <1> QED  BY <1>1, <1>2, <1>3 DEF TrialResultType

\* The first state of a trial is the first state of its contract.
LEMMA InitContract == Init => Contract!Init
  BY DEF Init, Fresh, Contract!Init, Progress

\* TrialContract has Results of its own; both say the same of a bundle.
LEMMA SamePublishable ==
    ASSUME NEW bundle, NEW attempt
    PROVE  Publishable(bundle, attempt) = Contract!Publishable(bundle, attempt)
  <1>1. VerdictType = Contract!VerdictType
    BY DEF
      VerdictType, Contract!VerdictType, Classifications, Contract!Classifications,
      Reasons, Contract!Reasons, OutcomeStates, Contract!OutcomeStates
  <1>2. EvidenceOfHarborType = Contract!EvidenceOfHarborType
    BY DEF EvidenceOfHarborType, Contract!EvidenceOfHarborType
  <1>3. ASSUME NEW v, NEW h
        PROVE  PublishableVerdict(v, h) = Contract!PublishableVerdict(v, h)
    BY DEF
      PublishableVerdict, Contract!PublishableVerdict, Judged, Contract!Judged,
      Interrupted, Contract!Interrupted, Excluded, Contract!Excluded, Decides,
      Contract!Decides, ReceiptFacts, Contract!ReceiptFacts, NoReceiptFacts,
      Contract!NoReceiptFacts, AllPassed, Contract!AllPassed, Undecided,
      Contract!Undecided, InterruptionReasons, Contract!InterruptionReasons,
      DefectReasons, Contract!DefectReasons, InfrastructureReasons,
      Contract!InfrastructureReasons
  <1>4. ASSUME NEW v, NEW h
        PROVE  Bundle(v, h, attempt) = Contract!Bundle(v, h, attempt)
    BY DEF
      Bundle, Contract!Bundle, RetryDisposition, Contract!RetryDisposition,
      RetryDecision, Contract!RetryDecision
  <1> QED  BY <1>1, <1>2, <1>3, <1>4 DEF Publishable, Contract!Publishable

\* _finalize publishes or loses, as the contract says.
LEMMA FinalizeContract == IInv /\ Finalize => Contract!Next
  <1> SUFFICES ASSUME IInv, Finalize PROVE Contract!Next
    OBVIOUS
  <1> DEFINE verdict == FinalVerdict(trial, outputs, exitedCleanly)
             harbor == EvidenceOfHarbor(trial)
             bundle == Bundle(verdict, harbor, Attempt)
  <1>1. trial \in TrialResultType /\ results \in Seq(BundleType) /\ Len(results) \in Nat
    BY LenProperties DEF IInv, TypeOK
  <1>2. CASE stage' = "lost" /\ UNCHANGED results
    BY <1>2 DEF Finalize, Contract!Next, Contract!Lose, Progress
  <1>3. CASE stage' = "done" /\ results' = Append(results, bundle)
    <2>1. verdict \in VerdictType
      BY <1>1, FinalVerdictCoherent DEF Coherent
    <2>2. harbor \in EvidenceOfHarborType
      BY <1>1 DEF EvidenceOfHarbor, EvidenceOfHarborType, TrialResultType
    <2>3. PublishableVerdict(verdict, harbor)
      BY <1>1, FinalVerdictPublishable
    <2> HIDE DEF verdict, harbor
    <2>4. bundle.verdict = verdict /\ bundle.harbor = harbor
      BY DEF Bundle
    <2>5. Publishable(bundle, Attempt)
      BY <2>1, <2>2, <2>3, <2>4 DEF Publishable
    <2> HIDE DEF bundle
    <2>6. Len(results') = Len(results) + 1 /\ results'[Len(results')] = bundle
      BY <1>1, <1>3
    <2>7. Contract!Publish
      BY <1>3, <2>5, <2>6, SamePublishable DEF Finalize, Contract!Publish, Attempt, Progress
    <2> QED  BY <2>7 DEF Contract!Next
  <1> QED  BY <1>2, <1>3 DEF Finalize

\* Every step of a trial is a step of its contract or leaves it alone.
LEMMA StepContract ==
    IInv /\ [Next]_vars => [Contract!Next]_<<Progress, results>>
  <1> SUFFICES ASSUME IInv, [Next]_vars
               PROVE  Contract!Next \/ UNCHANGED <<Progress, results>>
    OBVIOUS
  <1>1. CASE UNCHANGED vars
    BY <1>1 DEF vars, Progress
  <1>2. CASE Finalize
    BY <1>2, FinalizeContract
  <1>3. CASE Retry
    BY <1>3 DEF Retry, Settled, Contract!Next, Contract!Retry, Progress
  <1>4. CASE SetUp \/ SetupFails \/ AgentFinishes \/ AgentInterrupted \/ LeavesUnrecordable
    BY <1>4 DEF SetUp, SetupFails, AgentFinishes, AgentInterrupted, LeavesUnrecordable,
                Progress
  <1>5. CASE VerifierReports \/ VerifierMisreports \/ VerifierFails
    <2>1. UNCHANGED results /\ stage = "verify" /\ stage' \in {"agent", "report"}
      BY <1>5 DEF VerifierReports, VerifierMisreports, VerifierFails, Checkpoint
    <2> QED  BY <2>1 DEF Progress
  <1>6. CASE StopsEarly \/ HarborDies \/ HarborReports \/ HarborMisreports
    BY <1>6 DEF StopsEarly, HarborDies, HarborReports, HarborMisreports, Progress
  <1> QED  BY <1>1, <1>2, <1>3, <1>4, <1>5, <1>6 DEF Next

\* The runner implements its contract, for every task and every behaviour of Harbor.
THEOREM Implementation == Spec => ImplementsContract
  <1>1. Init => Contract!Init
    BY InitContract
  <1>2. IInv /\ [Next]_vars => [Contract!Next]_<<Progress, results>>
    BY StepContract
  <1> QED  BY <1>1, <1>2, Invariance, PTL DEF Spec, ImplementsContract, Contract!Spec
=============================================================================
