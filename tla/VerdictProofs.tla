--------------------------- MODULE VerdictProofs ---------------------------
(***************************************************************************)
(* What a verdict of Trial says is true, for every set of gates, number of *)
(* phases, receipts and faults: passes and blame are earned, outcomes are  *)
(* true and a retry forgives nothing.                                      *)
(*                                                                         *)
(* The invariant ties the faults that really happened to the traces that   *)
(* they leave in the steps, the files and the result of Harbor; the        *)
(* properties follow from it and from the order of the checks of _finalize.*)
(***************************************************************************)
EXTENDS TrialProofs, WellFoundedInduction

AgentKinds == {"agent", "provider"}
WorkKinds == AgentKinds \union {"evidence", "reward", "artifact", "verifier"}
EndKinds == {"died", "unreadable", "identity", "checksum", "metrics", "layout", "exit"}

Under == stage \in {"setup", "agent", "verify"}
Over == stage \in {"finalize", "done", "lost"}

\* An exception of phase p tells who failed there, and first.
ExceptionTold(p, e) ==
    /\ e = "none" => \A k \in {"agent", "provider", "verifier"} : <<k, p>> \notin faults
    /\ e \in AgentExceptions => <<"agent", p>> \in faults
    /\ e \in ProviderExceptions => <<"provider", p>> \in faults /\ <<"agent", p>> \notin faults
    /\ e \notin SetupExceptions

RewardTold(p, r) ==
    IF <<"reward", p>> \in faults THEN r \in FaultyReward(work[p])
    ELSE r \in {NoReward, TrueReward(work[p])}

EvidenceTold(p) ==
    IF <<"evidence", p>> \in faults THEN outputs[p].evidence \in FaultyEvidence(work[p])
    ELSE outputs[p].evidence \in {NoEvidence, TrueEvidence(work[p])}

FilesTold ==
    \A p \in Phases :
        /\ EvidenceTold(p)
        /\ <<"artifact", p>> \in faults => outputs[p].artifact = NoReward
        /\ p > phase \/ (p = phase /\ Under) => outputs[p].evidence = NoEvidence

StepsTold ==
    /\ Len(steps) \in {phase - 1, phase}
    /\ \A i \in 1..Len(steps) :
         /\ steps[i].phase = i
         /\ ExceptionTold(i, steps[i].exception)
         /\ RewardTold(i, steps[i].reward)
         /\ i < phase => steps[i].reward.reward = "one"
    /\ Len(steps) = phase => raised = steps[phase].exception

\* Where the faults that have happened can be found.
FaultsTold ==
    /\ \A k \in WorkKinds, p \in Phases : <<k, p>> \in faults =>
         \/ p <= Len(steps)
         \/ p = phase /\ k \in AgentKinds /\ stage \in {"verify", "finalize", "done", "lost"}
    /\ \A p \in Phases : <<"setup", p>> \in faults => topException # "none"
    /\ \A p \in Phases : <<"stopped", p>> \in faults => ~Under /\ Len(steps) = phase - 1
    /\ ~Over => \A k \in EndKinds, p \in Phases : <<k, p>> \notin faults

\* How Harbor's part of the attempt ends.
Ended ==
    /\ \A k \in WorkKinds, p \in Phases : <<k, p>> \in faults => p <= Len(steps)
    /\ \/ Len(steps) = phase /\ topException = "none"
       \/ /\ topException \in SetupExceptions /\ Len(steps) = 0
          /\ <<"setup", 1>> \in faults
       \/ Len(steps) = phase - 1 /\ phase > 1 /\ topException = "none"

StageTold ==
    /\ Under => Len(steps) = phase - 1 /\ topException = "none"
    /\ stage = "setup" => phase = 1
    /\ stage \in {"setup", "agent"} => raised = "none"
    /\ stage = "verify" => ExceptionTold(phase, raised)
    /\ stage = "report" => Ended
    /\ ~Over => trial.kind = "missing"

\* A result that Harbor wrote tells what happened, unless its layout gives it away.
TrialTold ==
    Over /\ trial.kind = "loaded" =>
        /\ Ended
        /\ ~LayoutErrors(trial) =>
             /\ trial.exception = ReportedTrial.exception
             /\ trial.exception = "none" =>
                  /\ trial.hasSteps = ReportedTrial.hasSteps
                  /\ trial.steps = ReportedTrial.steps
                  /\ trial.reward = ReportedTrial.reward
        /\ \A p \in Phases :
             /\ <<"died", p>> \notin faults /\ <<"unreadable", p>> \notin faults
             /\ <<"identity", p>> \in faults => ~trial.agent
             /\ <<"checksum", p>> \in faults => ~trial.checksum
             /\ <<"layout", p>> \in faults => LayoutErrors(trial) \/ topException # "none"
             /\ <<"exit", p>> \in faults => ~exitedCleanly

ResultsTold ==
    /\ stage = "done" =>
         /\ Len(results) > 0
         /\ Settled.verdict = FinalVerdict(trial, outputs, exitedCleanly)
    /\ \A i \in DOMAIN results : results[i].retry.eligible =>
         /\ i < MaxAttempts
         /\ results[i].verdict.classification = "infrastructure_failure"
         /\ results[i].verdict.reason \in RetryableReasons
         /\ results[i].verdict.outcomes = Undecided

Told == FilesTold /\ StepsTold /\ FaultsTold /\ StageTold /\ TrialTold /\ ResultsTold

\* Somebody left whatever _finalize cannot read or record, and it never gets past that.
LossTold ==
    /\ \A p \in Phases :
          /\ <<"files", p>> \in faults <=> ~outputs[p].recordable
          /\ ~outputs[p].artifactText => <<"artifact", p>> \in faults
    /\ (\E p \in Phases : <<"metrics", p>> \in faults) <=>
           trial.kind = "loaded" /\ ~trial.metrics
    /\ stage = "done" => ~FinalizeRaises(trial, outputs)

-----------------------------------------------------------------------------
(* The exception that _finalize finds. *)

\* The exception of the steps is that of the first step with one.
LEMMA FirstException ==
    ASSUME NEW s \in Seq(StepType)
    PROVE  LET e == FirstStepException(s)
           IN  \/ e = "none" /\ \A i \in 1..Len(s) : s[i].exception = "none"
               \/ /\ e # "none"
                  /\ \E i \in 1..Len(s) :
                        /\ s[i].exception = e
                        /\ \A j \in 1..Len(s) : j < i => s[j].exception = "none"
  <1> DEFINE failed == {i \in DOMAIN s : s[i].exception # "none"}
  <1>1. DOMAIN s = 1..Len(s) /\ Len(s) \in Nat
    BY LenProperties
  <1>2. CASE failed = {}
    BY <1>1, <1>2 DEF FirstStepException
  <1>3. CASE failed # {}
    <2>1. failed \subseteq Nat
      BY <1>1
    <2>2. PICK m \in failed : \A j \in failed : <<j, m>> \notin OpToRel(<, Nat)
      <3> HIDE DEF failed
      <3> QED  BY <1>3, <2>1, NatLessThanWellFounded, WFMin
    <2>3. \A j \in failed : m <= j
      <3> SUFFICES ASSUME NEW j \in failed, ~(m <= j) PROVE FALSE
        OBVIOUS
      <3>1. j \in Nat /\ m \in Nat /\ j < m
        BY <2>1
      <3>2. <<j, m>> \in OpToRel(<, Nat)
        BY <3>1 DEF OpToRel
      <3> QED  BY <2>2, <3>2
    <2>4. Min(failed) \in failed /\ \A j \in failed : Min(failed) <= j
      BY <2>2, <2>3 DEF Min
    <2>5. FirstStepException(s) = s[Min(failed)].exception
      BY <1>3 DEF FirstStepException
    <2>6. Min(failed) \in 1..Len(s) /\ s[Min(failed)].exception # "none"
      BY <1>1, <2>4
    <2>7. \A j \in 1..Len(s) : j < Min(failed) => s[j].exception = "none"
      <3> SUFFICES ASSUME NEW j \in 1..Len(s), j < Min(failed), s[j].exception # "none"
                   PROVE  FALSE
        OBVIOUS
      <3>1. j \in failed /\ j \in Nat
        BY <1>1
      <3> HIDE DEF failed
      <3> QED  BY <1>1, <2>4, <2>6, <3>1
    <2> HIDE DEF failed
    <2> QED  BY <2>5, <2>6, <2>7
  <1> QED  BY <1>2, <1>3

Loaded == Over /\ trial.kind = "loaded" /\ ~LayoutErrors(trial)

\* What is reported as the exception of a trial is the exception of its setup, or the first
\* one of its phases.
LEMMA EffectiveIsFirst ==
    ASSUME TypeOK, Told, Loaded
    PROVE  LET e == EffectiveException(trial)
           IN  \/ topException # "none" /\ e = topException
               \/ /\ topException = "none" /\ e # "none"
                  /\ \E i \in 1..Len(steps) :
                        /\ steps[i].exception = e
                        /\ \A j \in 1..Len(steps) : j < i => steps[j].exception = "none"
               \/ /\ topException = "none" /\ e = "none"
                  /\ Len(steps) > 0 /\ \A i \in 1..Len(steps) : steps[i].exception = "none"
                  /\ trial.reward = steps[Len(steps)].reward
                  /\ OutputPhase(trial) = Len(steps)
                  /\ Complete(trial) => Len(steps) = PhaseCount
  <1> DEFINE e == EffectiveException(trial)
  <1>1. /\ steps \in Seq(StepType) /\ Len(steps) \in Nat /\ phase \in 1..PhaseCount
        /\ PhaseCount \in Nat \ {0}
    BY LenProperties, PhasesAssumption DEF TypeOK, Phases
  <1>2. /\ Ended /\ trial.exception = ReportedTrial.exception
        /\ trial.exception = "none" =>
             /\ trial.hasSteps = Sequential
             /\ trial.steps = (IF Sequential THEN steps ELSE <<>>)
             /\ trial.reward = (IF steps = <<>> THEN NoReward ELSE steps[Len(steps)].reward)
    BY DEF Told, TrialTold, Loaded, ReportedTrial
  <1>3. CASE topException # "none"
    <2>1. trial.exception = topException
      BY <1>2, <1>3 DEF ReportedTrial
    <2> QED  BY <1>3, <2>1 DEF EffectiveException
  <1>4. CASE topException = "none" /\ ~Sequential
    <2>1. PhaseCount = 1 /\ phase = 1
      BY <1>1, <1>4 DEF Sequential
    <2>2. Len(steps) = 1 /\ raised = steps[1].exception
      BY <1>1, <1>2, <1>4, <2>1 DEF Ended, Told, StepsTold, SetupExceptions
    <2>3. e = raised
      BY <1>2, <1>4 DEF EffectiveException, ReportedTrial, HasLastStep
    <2>4. OutputPhase(trial) = 1
      BY <1>4 DEF OutputPhase, HasLastStep
    <2>5. steps # <<>>
      BY <2>2
    <2>6. e = "none" => trial.reward = steps[Len(steps)].reward
      BY <1>2, <1>4, <2>3, <2>5 DEF ReportedTrial
    <2> QED  BY <1>4, <2>1, <2>2, <2>3, <2>4, <2>6
  <1>5. CASE topException = "none" /\ Sequential
    <2>1. trial.exception = "none"
      BY <1>2, <1>5 DEF ReportedTrial
    <2>2. trial.steps = steps /\ trial.hasSteps
      BY <1>2, <1>5, <2>1
    <2>3. HasLastStep(trial) /\ PhasePrefix(trial.steps)
      BY <1>5, <2>1 DEF Loaded, LayoutErrors
    <2>4. Len(steps) > 0 /\ steps # <<>>
      BY <2>2, <2>3 DEF HasLastStep
    <2>5. e = FirstStepException(steps) /\ OutputPhase(trial) = Len(steps)
      BY <2>1, <2>2, <2>3 DEF EffectiveException, OutputPhase
    <2>6. Complete(trial) => Len(steps) = PhaseCount
      BY <1>5, <2>2 DEF Complete
    <2>7. trial.reward = steps[Len(steps)].reward
      BY <1>2, <2>1, <2>4
    <2> QED  BY <1>1, <1>5, <2>4, <2>5, <2>6, <2>7, FirstException
  <1> QED  BY <1>3, <1>4, <1>5

-----------------------------------------------------------------------------
(* What evidence and rewards say of the work. *)

\* Evidence that is bound to the task is true of the work, but for a check too few.
LEMMA EvidenceFacts ==
    ASSUME NEW p \in Phases, EvidenceTold(p), EvidenceBound(outputs[p].evidence)
    PROVE  LET checks == outputs[p].evidence.checks
           IN  /\ \A g \in Applicable : checks[g] = "passed" => g \in work[p]
               /\ \A g \in Applicable :
                    checks[g] # "passed" => g \notin work[p] \/ <<"evidence", p>> \in faults
               /\ ChecksFitContract(checks) =>
                    checks = TrueChecks(work[p]) /\ <<"evidence", p>> \notin faults
  <1> DEFINE e == outputs[p].evidence
             t == TrueEvidence(work[p])
             checks == e.checks
  <1>1. t.checks = TrueChecks(work[p]) /\ DOMAIN t = {"file", "task", "base", "logs", "checks"}
    BY DEF TrueEvidence
  <1>2. \A g \in Gates : TrueChecks(work[p])[g] =
            IF g \notin Applicable THEN "none" ELSE IF g \in work[p] THEN "passed" ELSE "failed"
    BY DEF TrueChecks
  <1>3. DOMAIN TrueChecks(work[p]) = Gates /\ Applicable \subseteq Gates
    BY GatesAssumption DEF TrueChecks
  <1>4. CASE e = t /\ <<"evidence", p>> \notin faults
    BY <1>1, <1>2, <1>3, <1>4
  <1>5. CASE e \in FaultyEvidence(work[p]) /\ <<"evidence", p>> \in faults
    <2>1. PICK g \in Gates :
              e = [t EXCEPT !.checks[g] = IF g \in Applicable THEN "none" ELSE "passed"]
      <3> HIDE DEF t
      <3>1. ~(\E f \in FileKinds \ {"present"} : e = [t EXCEPT !.file = f])
        BY <1>1 DEF EvidenceBound
      <3>2. e \notin {[t EXCEPT !.task = FALSE], [t EXCEPT !.base = FALSE],
                      [t EXCEPT !.logs = FALSE]}
        BY <1>1 DEF EvidenceBound
      <3> QED  BY <1>5, <3>1, <3>2 DEF FaultyEvidence, t
    <2> HIDE DEF t
    <2>2. checks = [t.checks EXCEPT ![g] = IF g \in Applicable THEN "none" ELSE "passed"]
      BY <1>1, <2>1
    <2>3. ~ChecksFitContract(checks)
      BY <1>1, <1>3, <2>2 DEF ChecksFitContract
    <2>4. \A h \in Applicable : checks[h] = "passed" => h \in work[p]
      BY <1>1, <1>2, <1>3, <2>2
    <2> QED  BY <1>5, <2>3, <2>4
  <1>6. e # NoEvidence
    BY DEF EvidenceBound, NoEvidence
  <1> QED  BY <1>4, <1>5, <1>6 DEF EvidenceTold

\* A verifier that works is told from one that misreports or writes nothing.
LEMMA RewardFacts ==
    ASSUME NEW done
    PROVE  /\ TrueReward(done) # NoReward /\ TrueReward(done) \notin FaultyReward(done)
           /\ TrueReward(done).reward = "one" => Applicable \subseteq done
           /\ NoReward.reward # "one"
  <1> DEFINE r == TrueReward(done)
             outcomes == CheckOutcomes(TrueChecks(done), TRUE)
  <1>1. \A g \in Gates : outcomes[g] =
            IF g \notin Applicable THEN "not_applicable"
            ELSE IF g \in done THEN "passed" ELSE "failed"
    BY DEF CheckOutcomes, TrueChecks
  <1>2. /\ r.reward = (IF AllPassed(outcomes) THEN "one" ELSE "zero")
        /\ \A g \in Gates : r.gates[g] = CASE outcomes[g] = "not_applicable" -> "absent"
                                           [] outcomes[g] = "passed" -> "one"
                                           [] outcomes[g] = "failed" -> "zero"
        /\ DOMAIN r.gates = Gates /\ DOMAIN r = {"gates", "reward"}
    BY DEF TrueReward, ExpectedReward
  <1>3. NoReward.reward = "absent"
    BY DEF NoReward
  <1>4. Applicable \subseteq Gates
    BY GatesAssumption
  <1> HIDE DEF outcomes
  <1>5. r.reward = "one" => Applicable \subseteq done
    BY <1>1, <1>2, <1>4 DEF AllPassed
  <1>6. \A g \in Applicable : r.gates[g] # "absent"
    BY <1>1, <1>2, <1>4
  <1>7. \A g \in Gates : r.gates[g] \in {"absent", "zero", "one"}
    BY <1>1, <1>2
  <1> HIDE DEF r
  <1>8. r # [r EXCEPT !.reward = IF r.reward = "one" THEN "zero" ELSE "one"]
    BY <1>2
  <1>9. \A g \in Gates : r # [r EXCEPT !.gates[g] = IF r.gates[g] = "one" THEN "zero" ELSE "one"]
    BY <1>2, ZenonT(40)
  <1>10. \A g \in Applicable : r # [r EXCEPT !.gates[g] = "absent"]
    BY <1>2, <1>4, <1>6
  <1>11. r # NoReward
    BY <1>2, <1>3
  <1> USE DEF r
  <1>12. r \notin FaultyReward(done)
    BY <1>8, <1>9, <1>10, <1>11 DEF FaultyReward
  <1> QED  BY <1>3, <1>5, <1>11, <1>12

-----------------------------------------------------------------------------
(* The verdicts of _finalize, by how far its checks got. *)

Retried == {"provider_rate_limit", "environment_start_timeout"}
Unattributed == {"benchmark_defect", "infrastructure_failure"}

\* The innermost branch, as far as the properties tell verdicts apart.
LEMMA ReconcileFacts ==
    ASSUME NEW t, NEW output
    PROVE  LET c == Reconcile(t, output)
               checks == output.evidence.checks
               valid == ReceiptValid(output.receipt, checks)
           IN  /\ c.outcomes = CheckOutcomes(checks, valid)
               /\ \/ c.classification = "benchmark_defect"
                  \/ /\ RewardsAgree(checks, t.reward, output.artifact)
                     /\ ChecksFitContract(checks)
                     /\ \/ c.classification = "invalid_run" /\ ~valid
                        \/ c.classification = "valid_agent_failure" /\ ~AllPassed(c.outcomes)
                        \/ c.classification = "valid_pass" /\ AllPassed(c.outcomes) /\ Complete(t)
               /\ c.reason \notin Retried
  <1> DEFINE checks == output.evidence.checks
             present == ReceiptPresent(output.receipt)
             valid == ReceiptValid(output.receipt, checks)
             outcomes == CheckOutcomes(checks, valid)
             Conclude(c, r) == Verdict(c, r, outcomes, present, valid,
                                       ReceiptDigest(output.receipt))
             v == Reconcile(t, output)
  <1>1. ASSUME NEW c, NEW r
        PROVE  /\ Conclude(c, r).classification = c /\ Conclude(c, r).reason = r
               /\ Conclude(c, r).outcomes = outcomes
    BY DEF Verdict
  <1>2. \/ v = Conclude("benchmark_defect", "reward_mismatch")
        \/ v = Conclude("benchmark_defect", "verifier_contract_mismatch")
        \/ v = Conclude("benchmark_defect", "harbor_result_invalid")
        \/ /\ RewardsAgree(checks, t.reward, output.artifact) /\ ChecksFitContract(checks)
           /\ \/ v = Conclude("invalid_run", "receipt_invalid") /\ ~valid
              \/ v = Conclude("valid_agent_failure", "gate_failure") /\ ~AllPassed(outcomes)
              \/ v = Conclude("valid_agent_failure", "receipt_missing") /\ ~AllPassed(outcomes)
              \/ v = Conclude("valid_pass", "none") /\ AllPassed(outcomes) /\ Complete(t)
    BY DEF Reconcile
  <1> HIDE DEF outcomes, Conclude, v, checks, present, valid
  <1>3. /\ v.outcomes = outcomes
        /\ \/ v.classification = "benchmark_defect"
           \/ /\ RewardsAgree(checks, t.reward, output.artifact) /\ ChecksFitContract(checks)
              /\ \/ v.classification = "invalid_run" /\ ~valid
                 \/ v.classification = "valid_agent_failure" /\ ~AllPassed(v.outcomes)
                 \/ v.classification = "valid_pass" /\ AllPassed(v.outcomes) /\ Complete(t)
        /\ v.reason \notin Retried
    BY <1>1, <1>2 DEF Retried
  <1> QED  BY <1>3 DEF outcomes, v, checks, valid

Nothing(v) == v.outcomes = Undecided /\ v.classification \in Unattributed

OfException(v, t) ==
    /\ t.kind = "loaded" /\ ~LayoutErrors(t) /\ EffectiveException(t) # "none"
    /\ \/ /\ v.classification = "valid_agent_failure" /\ v.outcomes = Undecided
          /\ EffectiveException(t) \in AgentExceptions /\ t.agent
       \/ /\ Nothing(v)
          /\ v.reason = "provider_rate_limit" => EffectiveException(t) = "ApiRateLimitError"
          /\ v.reason = "environment_start_timeout" =>
                 EffectiveException(t) = "EnvironmentStartTimeoutError"

OfFiles(v, t, output, clean) ==
    /\ t.kind = "loaded" /\ ~LayoutErrors(t) /\ EffectiveException(t) = "none"
    /\ t.agent /\ t.checksum /\ EvidenceBound(output.evidence)
    /\ v.outcomes = Reconcile(t, output).outcomes
    /\ \/ v = Reconcile(t, output) /\ clean
       \/ v.classification \in Unattributed /\ v.reason = "harbor_process_failure"

\* A verdict rests on nothing, on an exception or on the files of a phase.
LEMMA VerdictCases ==
    ASSUME NEW t \in TrialResultType, NEW outs, NEW clean \in BOOLEAN
    PROVE  LET v == FinalVerdict(t, outs, clean)
           IN  \/ Nothing(v) /\ v.reason \notin Retried
               \/ OfException(v, t)
               \/ OfFiles(v, t, outs[OutputPhase(t)], clean)
  <1> DEFINE v == FinalVerdict(t, outs, clean)
             o == outs[OutputPhase(t)]
             c == Classify(t, o)
             e == EffectiveException(t)
  <1>1. ASSUME NEW k, NEW r
        PROVE  /\ Unreconciled(k, r).classification = k /\ Unreconciled(k, r).reason = r
               /\ Unreconciled(k, r).outcomes = Undecided
    BY DEF Unreconciled, Verdict
  <1>2. CASE t.kind = "missing" \/ t.kind = "invalid"
    <2>1. \/ v = Unreconciled("infrastructure_failure", "harbor_process_failure")
          \/ v = Unreconciled("infrastructure_failure", "harbor_result_invalid")
      BY <1>2 DEF FinalVerdict
    <2> HIDE DEF v
    <2>2. Nothing(v) /\ v.reason \notin Retried
      BY <1>1, <2>1 DEF Nothing, Retried, Unattributed
    <2> QED  BY <2>2 DEF v
  <1>3. CASE t.kind = "loaded"
    <2>1. v = Override(c, t, clean)
      BY <1>3 DEF FinalVerdict
    <2>2. Coherent(c)
      BY ClassifyCoherent
    <2>3. \/ /\ c.outcomes = Undecided /\ c.classification = "benchmark_defect"
             /\ c.reason \notin Retried
          \/ c = ClassifyException(e) /\ e # "none" /\ ~LayoutErrors(t)
          \/ /\ c = Reconcile(t, o) /\ e = "none" /\ ~LayoutErrors(t)
             /\ t.agent /\ t.checksum /\ EvidenceBound(o.evidence)
      <3>1. \/ \E r \in DefectReasons : c = Unreconciled("benchmark_defect", r)
            \/ c = ClassifyException(e) /\ e # "none" /\ ~LayoutErrors(t)
            \/ /\ c = Reconcile(t, o) /\ e = "none" /\ ~LayoutErrors(t)
               /\ t.agent /\ t.checksum /\ EvidenceBound(o.evidence)
        BY DEF Classify, DefectReasons
      <3> HIDE DEF c
      <3> QED  BY <1>1, <3>1 DEF DefectReasons, Retried
    <2> HIDE DEF c, v
    <2>4. /\ v.outcomes = c.outcomes
          /\ \/ v = c /\ (clean \/ e # "none")
                /\ ~(c.classification = "valid_agent_failure" /\ ~t.agent)
             \/ v.classification = "infrastructure_failure" /\ v.reason = "harbor_process_failure"
                /\ e = "none"
             \/ v.classification = "benchmark_defect" /\ v.reason = "harness_identity_mismatch"
                /\ c.classification = "valid_agent_failure" /\ ~t.agent
      BY <2>1, <2>2 DEF Override, Coherent, VerdictType
    <2>5. CASE /\ c.outcomes = Undecided /\ c.classification = "benchmark_defect"
               /\ c.reason \notin Retried
      <3>1. Nothing(v) /\ v.reason \notin Retried
        BY <2>4, <2>5 DEF Nothing, Retried, Unattributed
      <3> QED  BY <3>1 DEF v
    <2>6. CASE c = ClassifyException(e) /\ e # "none" /\ ~LayoutErrors(t)
      <3>1. /\ c.outcomes = Undecided
            /\ \/ c.classification = "valid_agent_failure" /\ e \in AgentExceptions
               \/ c.classification \in Unattributed
            /\ c.reason = "provider_rate_limit" => e = "ApiRateLimitError"
            /\ c.reason = "environment_start_timeout" => e = "EnvironmentStartTimeoutError"
        <4> HIDE DEF e
        <4>1. \E k \in Classifications, r \in Reasons :
                /\ c = Unreconciled(k, r)
                /\ (k = "valid_agent_failure" /\ e \in AgentExceptions) \/ k \in Unattributed
                /\ r = "provider_rate_limit" => e = "ApiRateLimitError"
                /\ r = "environment_start_timeout" => e = "EnvironmentStartTimeoutError"
          BY <2>6, ZenonT(40) DEF ClassifyException, AgentExceptions, Unattributed, Classifications, Reasons
        <4> QED  BY <1>1, <4>1
      <3>2. OfException(v, t)
        BY <1>3, <2>4, <2>6, <3>1 DEF OfException, Nothing, Unattributed
      <3> QED  BY <3>2 DEF v
    <2>7. CASE /\ c = Reconcile(t, o) /\ e = "none" /\ ~LayoutErrors(t)
               /\ t.agent /\ t.checksum /\ EvidenceBound(o.evidence)
      <3>1. OfFiles(v, t, o, clean)
        BY <1>3, <2>4, <2>7 DEF OfFiles, Unattributed
      <3> QED  BY <3>1 DEF v
    <2> QED  BY <2>3, <2>5, <2>6, <2>7
  <1> QED  BY <1>2, <1>3 DEF TrialResultType

-----------------------------------------------------------------------------
(* The invariant says what the properties say. *)

\* A finished attempt, and how its verdict came about.
LEMMA DoneFacts ==
    ASSUME TypeOK, Told, stage = "done"
    PROVE  LET v == Settled.verdict
           IN  /\ Len(results) \in DOMAIN results
               /\ \/ Nothing(v) /\ v.reason \notin Retried
                  \/ OfException(v, trial) /\ Loaded
                  \/ OfFiles(v, trial, outputs[OutputPhase(trial)], exitedCleanly) /\ Loaded
  <1>1. trial \in TrialResultType /\ exitedCleanly \in BOOLEAN /\ results \in Seq(BundleType)
    BY DEF TypeOK
  <1>2. Len(results) > 0 /\ Settled.verdict = FinalVerdict(trial, outputs, exitedCleanly)
    BY DEF Told, ResultsTold
  <1>3. Len(results) \in DOMAIN results
    BY <1>1, <1>2, LenProperties
  <1>4. LET v == Settled.verdict
        IN  \/ Nothing(v) /\ v.reason \notin Retried
            \/ OfException(v, trial)
            \/ OfFiles(v, trial, outputs[OutputPhase(trial)], exitedCleanly)
    BY <1>1, <1>2, VerdictCases
  <1>5. \A v : OfException(v, trial) => Loaded
    BY DEF OfException, Loaded, Over
  <1>6. \A v, o : OfFiles(v, trial, o, exitedCleanly) => Loaded
    BY DEF OfFiles, Loaded, Over
  <1> QED  BY <1>3, <1>4, <1>5, <1>6

\* The steps that a loaded trial without an exception shows.
LEMMA StepsOfFiles ==
    ASSUME TypeOK, Told, NEW v, NEW o, OfFiles(v, trial, o, exitedCleanly), Loaded
    PROVE  LET n == Len(steps)
           IN  /\ n \in Phases /\ n <= phase /\ phase \in Phases
               /\ topException = "none"
               /\ \A i \in 1..n : steps[i].exception = "none"
               /\ trial.reward = steps[n].reward
               /\ OutputPhase(trial) = n
               /\ Complete(trial) => n = PhaseCount /\ phase = PhaseCount
  <1>1. EffectiveException(trial) = "none"
    BY DEF OfFiles
  <1>2. /\ topException = "none"
        /\ Len(steps) > 0 /\ \A i \in 1..Len(steps) : steps[i].exception = "none"
        /\ trial.reward = steps[Len(steps)].reward
        /\ OutputPhase(trial) = Len(steps)
        /\ Complete(trial) => Len(steps) = PhaseCount
    BY <1>1, EffectiveIsFirst
  <1>3. /\ Len(steps) \in Nat /\ phase \in 1..PhaseCount /\ PhaseCount \in Nat
        /\ Len(steps) \in {phase - 1, phase}
    BY LenProperties, PhasesAssumption DEF TypeOK, Phases, Told, StepsTold
  <1> QED  BY <1>2, <1>3 DEF Phases

\* A loaded trial with a good layout and no exception of its setup shows none of these.
LEMMA NoHarborFault ==
    ASSUME TypeOK, Told, Loaded, topException = "none"
    PROVE  \A p \in Phases :
             /\ \A k \in {"setup", "died", "unreadable", "layout"} : <<k, p>> \notin faults
             /\ trial.agent => <<"identity", p>> \notin faults
             /\ trial.checksum => <<"checksum", p>> \notin faults
             /\ exitedCleanly => <<"exit", p>> \notin faults
  <1>1. \A p \in Phases : <<"setup", p>> \notin faults
    BY DEF Told, FaultsTold
  <1>2. \A p \in Phases :
             /\ <<"died", p>> \notin faults /\ <<"unreadable", p>> \notin faults
             /\ <<"identity", p>> \in faults => ~trial.agent
             /\ <<"checksum", p>> \in faults => ~trial.checksum
             /\ <<"layout", p>> \notin faults
             /\ <<"exit", p>> \in faults => ~exitedCleanly
    BY DEF Told, TrialTold, Loaded
  <1> QED  BY <1>1, <1>2

\* A pass needs the files of every phase, and those are told of.
LEMMA ToldPass == TypeOK /\ Told /\ LossTold => PassIsEarned
  <1> SUFFICES ASSUME TypeOK, Told, LossTold, Concluded({"valid_pass"})
               PROVE  /\ phase = PhaseCount
                      /\ faults \subseteq {"evidence", "reward", "artifact"} \X (1..(PhaseCount - 1))
                      /\ \A p \in Phases : <<"reward", p>> \notin faults => Applicable \subseteq work[p]
                      /\ ReceiptGate \in Applicable =>
                             ReceiptValid(outputs[phase].receipt, TrueChecks(work[phase]))
    BY DEF PassIsEarned
  <1> DEFINE v == Settled.verdict
             n == Len(steps)
             o == outputs[OutputPhase(trial)]
             checks == outputs[n].evidence.checks
             valid == ReceiptValid(outputs[n].receipt, checks)
  <1>1. stage = "done" /\ v.classification = "valid_pass"
    BY DEF Concluded
  <1>2. OfFiles(v, trial, o, exitedCleanly) /\ Loaded
    BY <1>1, DoneFacts DEF Nothing, OfException, Unattributed
  <1>3. v = Reconcile(trial, o) /\ exitedCleanly /\ trial.agent /\ trial.checksum
          /\ EvidenceBound(o.evidence)
    BY <1>1, <1>2 DEF OfFiles, Unattributed
  <1> HIDE DEF v
  <1>4. /\ n \in Phases /\ n <= phase /\ phase \in Phases
        /\ topException = "none"
        /\ \A i \in 1..n : steps[i].exception = "none"
        /\ trial.reward = steps[n].reward
        /\ OutputPhase(trial) = n
        /\ Complete(trial) => n = PhaseCount /\ phase = PhaseCount
    BY <1>2, StepsOfFiles
  <1>5. /\ RewardsAgree(checks, trial.reward, outputs[n].artifact)
        /\ ChecksFitContract(checks) /\ Complete(trial)
        /\ AllPassed(CheckOutcomes(checks, valid))
    BY <1>1, <1>3, <1>4, ReconcileFacts
  <1>6. n = PhaseCount /\ phase = PhaseCount /\ PhaseCount \in Nat \ {0}
    BY <1>4, <1>5, PhasesAssumption
  <1>7. EvidenceTold(n) /\ EvidenceBound(outputs[n].evidence)
    BY <1>3, <1>4 DEF Told, FilesTold
  <1>8. /\ \A g \in Applicable : checks[g] = "passed" => g \in work[n]
        /\ checks = TrueChecks(work[n]) /\ <<"evidence", n>> \notin faults
    BY <1>4, <1>5, <1>7, EvidenceFacts
  <1>9. \A g \in Applicable : checks[g] = "passed" /\ (g = ReceiptGate => valid)
    <2> HIDE DEF checks, valid
    <2> QED  BY <1>5, GatesAssumption DEF AllPassed, CheckOutcomes
  <1>10. Applicable \subseteq work[n] /\ (ReceiptGate \in Applicable => valid)
    BY <1>8, <1>9
  <1>11. trial.reward = TrueReward(work[n]) /\ outputs[n].artifact = TrueReward(work[n])
    BY <1>5, <1>8 DEF RewardsAgree, TrueReward
  <1>12. <<"reward", n>> \notin faults /\ <<"artifact", n>> \notin faults
    <2>1. RewardTold(n, steps[n].reward)
      BY <1>4, <1>6 DEF Told, StepsTold
    <2>2. <<"reward", n>> \notin faults
      BY <1>4, <1>11, <2>1, RewardFacts DEF RewardTold
    <2>3. <<"artifact", n>> \in faults => outputs[n].artifact = NoReward
      BY <1>4 DEF Told, FilesTold
    <2> QED  BY <1>11, <2>2, <2>3, RewardFacts
  <1>13. \A p \in Phases : \A k \in {"agent", "provider", "verifier"} : <<k, p>> \notin faults
    <2> SUFFICES ASSUME NEW p \in Phases, NEW k \in {"agent", "provider", "verifier"}
                 PROVE  <<k, p>> \notin faults
      OBVIOUS
    <2>1. p \in 1..n
      BY <1>6 DEF Phases
    <2>2. ExceptionTold(p, "none")
      BY <1>4, <2>1 DEF Told, StepsTold
    <2> QED  BY <2>2 DEF ExceptionTold
  <1>14. \A p \in Phases :
             \A k \in {"setup", "died", "unreadable", "layout", "identity", "checksum", "exit"} :
                 <<k, p>> \notin faults
    BY <1>2, <1>3, <1>4, NoHarborFault
  <1>15. \A p \in Phases : <<"stopped", p>> \notin faults
    <2>1. Len(steps) # phase - 1
      BY <1>6
    <2> QED  BY <2>1 DEF Told, FaultsTold
  <1>16. faults \subseteq {"evidence", "reward", "artifact"} \X (1..(PhaseCount - 1))
    <2> SUFFICES ASSUME NEW f \in faults
                 PROVE  f \in {"evidence", "reward", "artifact"} \X (1..(PhaseCount - 1))
      OBVIOUS
    <2>1. PICK k \in FaultKinds, p \in Phases : f = <<k, p>>
      BY DEF TypeOK
    <2>2. k \notin {"files", "metrics"}
      <3>1. ~FinalizeRaises(trial, outputs)
        BY <1>1 DEF LossTold
      <3>2. DOMAIN outputs = Phases
        BY DEF TypeOK
      <3>3. <<"files", p>> \notin faults
        BY <3>1, <3>2 DEF LossTold, FinalizeRaises
      <3>4. <<"metrics", p>> \notin faults
        BY <3>1 DEF LossTold, FinalizeRaises
      <3> QED  BY <2>1, <3>3, <3>4
    <2>5. k \in {"evidence", "reward", "artifact"}
      BY <1>13, <1>14, <1>15, <2>1, <2>2 DEF FaultKinds
    <2>3. p # n
      BY <1>8, <1>12, <2>1, <2>5
    <2>4. p \in 1..(PhaseCount - 1)
      BY <1>6, <2>3 DEF Phases
    <2> QED  BY <2>1, <2>5, <2>4
  <1>17. ASSUME NEW p \in Phases, <<"reward", p>> \notin faults
         PROVE  Applicable \subseteq work[p]
    <2>1. CASE p = n
      BY <1>10, <2>1
    <2>2. CASE p # n
      <3>1. p \in 1..n /\ p < phase
        BY <1>6, <2>2 DEF Phases
      <3>2. RewardTold(p, steps[p].reward) /\ steps[p].reward.reward = "one"
        BY <3>1 DEF Told, StepsTold
      <3> QED  BY <1>17, <3>2, RewardFacts DEF RewardTold
    <2> QED  BY <2>1, <2>2
  <1> QED  BY <1>6, <1>8, <1>10, <1>16, <1>17

\* Blame needs an exception of the agent or files that are true.
LEMMA ToldBlame == TypeOK /\ Told => BlameIsEarned
  <1> SUFFICES ASSUME TypeOK, Told, Concluded({"valid_agent_failure", "invalid_run"})
               PROVE  /\ \E p \in 1..phase :
                            \/ <<"agent", p>> \in faults
                            \/ ~(Applicable \subseteq work[p])
                            \/ ~ReceiptValid(outputs[p].receipt, TrueChecks(work[p]))
                      /\ ~Happened({"died", "setup", "unreadable", "identity", "layout"})
    BY DEF BlameIsEarned
  <1> DEFINE v == Settled.verdict
             n == Len(steps)
             o == outputs[OutputPhase(trial)]
             e == EffectiveException(trial)
             Free == \A p \in Phases :
                        \A k \in {"died", "setup", "unreadable", "identity", "layout"} :
                            <<k, p>> \notin faults
  <1>1. stage = "done" /\ v.classification \in {"valid_agent_failure", "invalid_run"}
    BY DEF Concluded
  <1>2. Free => ~Happened({"died", "setup", "unreadable", "identity", "layout"})
    <2> SUFFICES ASSUME Free, NEW f \in faults,
                        f \in {"died", "setup", "unreadable", "identity", "layout"} \X Phases
                 PROVE  FALSE
      BY DEF Happened
    <2>1. PICK k \in {"died", "setup", "unreadable", "identity", "layout"}, p \in Phases :
              f = <<k, p>>
      OBVIOUS
    <2> QED  BY <2>1
  <1>3. \/ OfException(v, trial) /\ Loaded
        \/ OfFiles(v, trial, o, exitedCleanly) /\ Loaded
    BY <1>1, DoneFacts DEF Nothing, Unattributed
  <1> HIDE DEF v
  <1>4. /\ n \in Nat /\ phase \in 1..PhaseCount /\ PhaseCount \in Nat \ {0}
        /\ n \in {phase - 1, phase}
    BY LenProperties, PhasesAssumption DEF TypeOK, Phases, Told, StepsTold
  <1>5. CASE OfException(v, trial) /\ Loaded
    <2>1. e \in AgentExceptions /\ e # "none" /\ trial.agent
      BY <1>1, <1>5 DEF OfException, Nothing, Unattributed, AgentExceptions
    <2>2. e \notin SetupExceptions
      BY <2>1 DEF AgentExceptions, SetupExceptions
    <2>3. topException # "none" => topException \in SetupExceptions
      BY <1>5 DEF Told, TrialTold, Loaded, Ended
    <2>4. topException = "none" /\ \E i \in 1..n : steps[i].exception = e
      BY <1>5, <2>1, <2>2, <2>3, EffectiveIsFirst
    <2>5. PICK i \in 1..n : steps[i].exception = e
      BY <2>4
    <2>6. ExceptionTold(i, e)
      BY <2>5 DEF Told, StepsTold
    <2>7. <<"agent", i>> \in faults /\ i \in 1..phase
      BY <1>4, <2>1, <2>6 DEF ExceptionTold
    <2>8. Free
      BY <1>5, <2>1, <2>4, NoHarborFault
    <2> QED  BY <1>2, <2>7, <2>8
  <1>6. CASE OfFiles(v, trial, o, exitedCleanly) /\ Loaded
    <2> DEFINE checks == outputs[n].evidence.checks
               valid == ReceiptValid(outputs[n].receipt, checks)
    <2>1. v = Reconcile(trial, o) /\ trial.agent /\ EvidenceBound(o.evidence)
      BY <1>1, <1>6 DEF OfFiles, Unattributed
    <2>2. /\ n \in Phases /\ n <= phase
          /\ topException = "none" /\ OutputPhase(trial) = n
      BY <1>6, StepsOfFiles
    <2>3. /\ ChecksFitContract(checks)
          /\ ~valid \/ ~AllPassed(CheckOutcomes(checks, valid))
      BY <1>1, <2>1, <2>2, ReconcileFacts
    <2>4. EvidenceTold(n) /\ EvidenceBound(outputs[n].evidence)
      BY <2>1, <2>2 DEF Told, FilesTold
    <2>5. /\ \A g \in Applicable :
                checks[g] # "passed" => g \notin work[n] \/ <<"evidence", n>> \in faults
          /\ checks = TrueChecks(work[n]) /\ <<"evidence", n>> \notin faults
      BY <2>2, <2>3, <2>4, EvidenceFacts
    <2>6. CASE ~valid
      <3>1. ~ReceiptValid(outputs[n].receipt, TrueChecks(work[n]))
        BY <2>5, <2>6
      <3>2. n \in 1..phase
        BY <1>4, <2>2 DEF Phases
      <3>3. Free
        BY <1>6, <2>1, <2>2, NoHarborFault
      <3> QED  BY <1>2, <3>1, <3>2, <3>3
    <2>7. CASE valid
      <3>1. \E g \in Applicable : checks[g] # "passed"
        <4> HIDE DEF checks, valid
        <4> QED  BY <2>3, <2>7, GatesAssumption DEF AllPassed, CheckOutcomes
      <3>2. ~(Applicable \subseteq work[n])
        BY <2>5, <3>1
      <3>3. n \in 1..phase
        BY <1>4, <2>2 DEF Phases
      <3>4. Free
        BY <1>6, <2>1, <2>2, NoHarborFault
      <3> QED  BY <1>2, <3>2, <3>3, <3>4
    <2> QED  BY <2>6, <2>7
  <1> QED  BY <1>3, <1>5, <1>6

\* Gates are decided from the files of the phase that is judged.
LEMMA ToldOutcomes == TypeOK /\ Told => OutcomesAreTrue
  <1> SUFFICES ASSUME TypeOK, Told, stage = "done", NEW g \in Applicable
               PROVE  LET n == Len(steps)
                      IN  /\ Settled.verdict.outcomes[g] = "passed" => g \in work[n]
                          /\ Settled.verdict.outcomes[g] = "failed" =>
                                \/ g \notin work[n]
                                \/ g = ReceiptGate
                                \/ <<"evidence", n>> \in faults
    BY DEF OutcomesAreTrue
  <1> DEFINE v == Settled.verdict
             n == Len(steps)
             o == outputs[OutputPhase(trial)]
             checks == outputs[n].evidence.checks
             valid == ReceiptValid(outputs[n].receipt, checks)
  <1>1. \/ v.outcomes = Undecided
        \/ OfFiles(v, trial, o, exitedCleanly) /\ Loaded
    BY DoneFacts DEF Nothing, OfException
  <1>2. g \in Gates
    BY GatesAssumption
  <1>3. CASE v.outcomes = Undecided
    BY <1>2, <1>3 DEF Undecided
  <1>4. CASE OfFiles(v, trial, o, exitedCleanly) /\ Loaded
    <2>1. v.outcomes = Reconcile(trial, o).outcomes /\ EvidenceBound(o.evidence)
      BY <1>4 DEF OfFiles
    <2>2. n \in Phases /\ OutputPhase(trial) = n
      BY <1>4, StepsOfFiles
    <2>3. v.outcomes = CheckOutcomes(checks, valid)
      BY <2>1, <2>2, ReconcileFacts
    <2>4. EvidenceTold(n) /\ EvidenceBound(outputs[n].evidence)
      BY <2>1, <2>2 DEF Told, FilesTold
    <2>5. /\ checks[g] = "passed" => g \in work[n]
          /\ checks[g] # "passed" => g \notin work[n] \/ <<"evidence", n>> \in faults
      BY <2>2, <2>4, EvidenceFacts
    <2>6. /\ v.outcomes[g] = "passed" => checks[g] = "passed"
          /\ v.outcomes[g] = "failed" => checks[g] # "passed" \/ g = ReceiptGate
      <3> HIDE DEF checks, valid, v
      <3> QED  BY <1>2, <2>3 DEF CheckOutcomes
    <2> QED  BY <2>5, <2>6
  <1> QED  BY <1>1, <1>3, <1>4

\* A retry needs an exception of the provider or of the setup, the first there was.
LEMMA ToldRetry == TypeOK /\ Told => RetryForgivesNothing
  <1> SUFFICES ASSUME TypeOK, Told PROVE RetryForgivesNothing
    OBVIOUS
  <1>1. \A i \in DOMAIN results :
            results[i].retry.eligible =>
                /\ i < MaxAttempts
                /\ \A g \in Gates : results[i].verdict.outcomes[g] = "not_applicable"
    BY DEF Told, ResultsTold, Undecided
  <1>2. ASSUME stage = "done", Settled.retry.eligible
        PROVE  \E p \in Phases :
                  /\ {<<"provider", p>>, <<"setup", p>>} \intersect faults # {}
                  /\ \A q \in 1..p : <<"agent", q>> \notin faults
    <2> DEFINE v == Settled.verdict
               e == EffectiveException(trial)
    <2>1. /\ v.classification = "infrastructure_failure"
          /\ v.reason \in Retried
      BY <1>2, DoneFacts, RetryAssumption DEF Told, ResultsTold, Settled, Retried
    <2>2. OfException(v, trial) /\ Loaded
      BY <1>2, <2>1, DoneFacts, ReconcileFacts DEF OfFiles, Retried
    <2>3. e \in {"ApiRateLimitError", "EnvironmentStartTimeoutError"} /\ e # "none"
      BY <2>1, <2>2 DEF OfException, Retried
    <2> HIDE DEF e, v
    <2>4. Ended
      BY <2>2 DEF Told, TrialTold, Loaded
    <2>5. /\ Len(steps) \in Nat /\ phase \in 1..PhaseCount /\ PhaseCount \in Nat \ {0}
          /\ Len(steps) \in {phase - 1, phase} /\ Phases = 1..PhaseCount
      BY LenProperties, PhasesAssumption DEF TypeOK, Phases, Told, StepsTold
    <2>6. CASE topException # "none"
      <3>1. <<"setup", 1>> \in faults /\ Len(steps) = 0 /\ 1 \in Phases
        BY <2>4, <2>5, <2>6 DEF Ended
      <3>2. <<"agent", 1>> \notin faults
        <4>1. "agent" \in WorkKinds
          BY DEF WorkKinds, AgentKinds
        <4> QED  BY <2>4, <3>1, <4>1 DEF Ended
      <3>3. \A q \in 1..1 : <<"agent", q>> \notin faults
        BY <3>2
      <3> QED  BY <3>1, <3>3
    <2>7. CASE topException = "none"
      <3>1. PICK i \in 1..Len(steps) :
                /\ steps[i].exception = e
                /\ \A j \in 1..Len(steps) : j < i => steps[j].exception = "none"
        BY <2>2, <2>3, <2>7, EffectiveIsFirst DEF e
      <3>2. i \in Phases
        BY <2>5
      <3>3. \A j \in 1..Len(steps) : ExceptionTold(j, steps[j].exception)
        BY DEF Told, StepsTold
      <3>4. <<"provider", i>> \in faults /\ <<"agent", i>> \notin faults
        <4>1. ExceptionTold(i, e) /\ e \notin SetupExceptions
          BY <3>1, <3>3 DEF ExceptionTold
        <4>2. e \in ProviderExceptions
          BY <2>3, <4>1 DEF SetupExceptions, ProviderExceptions
        <4> QED  BY <4>1, <4>2 DEF ExceptionTold
      <3>5. \A q \in 1..i : <<"agent", q>> \notin faults
        <4> SUFFICES ASSUME NEW q \in 1..i, q # i PROVE <<"agent", q>> \notin faults
          BY <3>4
        <4>1. q \in 1..Len(steps) /\ q < i
          BY <2>5
        <4>2. ExceptionTold(q, "none")
          BY <3>1, <3>3, <4>1
        <4> QED  BY <4>2 DEF ExceptionTold
      <3> QED  BY <3>2, <3>4, <3>5
    <2> QED  BY <2>6, <2>7
  <1> QED  BY <1>1, <1>2 DEF RetryForgivesNothing

-----------------------------------------------------------------------------
(* What a step leaves alone. *)

\* The shapes that the steps of the proof count with.
LEMMA Counts ==
    ASSUME TypeOK
    PROVE  /\ PhaseCount \in Nat \ {0} /\ Phases = 1..PhaseCount /\ phase \in Phases
           /\ steps \in Seq(StepType) /\ Len(steps) \in Nat
  BY LenProperties, PhasesAssumption DEF TypeOK, Phases

SameFaults(p) == \A k \in WorkKinds : (<<k, p>> \in faults') = (<<k, p>> \in faults)

\* Recorded steps stay true while their phases and the faults in them do.
LEMMA StepsKept ==
    ASSUME TypeOK, StepsTold, steps' = steps, phase' = phase,
           Len(steps) = phase => raised' = raised,
           \A i \in 1..Len(steps) : work'[i] = work[i] /\ SameFaults(i)
    PROVE  StepsTold'
  <1>1. ASSUME NEW i \in 1..Len(steps)
        PROVE  /\ ExceptionTold(i, steps[i].exception)'
               /\ RewardTold(i, steps[i].reward)'
    <2>1. ExceptionTold(i, steps[i].exception) /\ RewardTold(i, steps[i].reward)
      BY DEF StepsTold
    <2>2. \A k \in {"agent", "provider", "verifier", "reward"} :
              (<<k, i>> \in faults') = (<<k, i>> \in faults)
      BY DEF SameFaults, WorkKinds, AgentKinds
    <2>3. ExceptionTold(i, steps[i].exception)'
      BY <2>1, <2>2 DEF ExceptionTold
    <2>4. RewardTold(i, steps[i].reward)'
      BY <2>1, <2>2 DEF RewardTold
    <2> QED  BY <2>3, <2>4
  <1> QED  BY <1>1 DEF StepsTold

\* So do files, and those of the phase in progress need not exist yet.
LEMMA FilesKept ==
    ASSUME TypeOK, FilesTold, phase' = phase, Under' => Under,
           \A p \in Phases :
              /\ outputs'[p].evidence = outputs[p].evidence
              /\ outputs'[p].artifact = outputs[p].artifact
              /\ \/ work'[p] = work[p] /\ SameFaults(p)
                 \/ /\ outputs[p].evidence = NoEvidence
                    /\ <<"evidence", p>> \notin faults' /\ <<"artifact", p>> \notin faults'
    PROVE  FilesTold'
  <1> SUFFICES ASSUME NEW p \in Phases
               PROVE  /\ EvidenceTold(p)'
                      /\ <<"artifact", p>> \in faults' => outputs'[p].artifact = NoReward
                      /\ p > phase \/ (p = phase /\ Under') => outputs'[p].evidence = NoEvidence
    BY DEF FilesTold
  <1>1. /\ EvidenceTold(p)
        /\ <<"artifact", p>> \in faults => outputs[p].artifact = NoReward
        /\ p > phase \/ (p = phase /\ Under) => outputs[p].evidence = NoEvidence
    BY DEF FilesTold
  <1>2. SameFaults(p) => /\ (<<"evidence", p>> \in faults') = (<<"evidence", p>> \in faults)
                         /\ (<<"artifact", p>> \in faults') = (<<"artifact", p>> \in faults)
    BY DEF SameFaults, WorkKinds
  <1>3. EvidenceTold(p)'
    BY <1>1, <1>2 DEF EvidenceTold
  <1> QED  BY <1>1, <1>2, <1>3

\* A new step joins the recorded ones.
LEMMA StepRecorded ==
    ASSUME TypeOK, StepsTold, NEW n \in Phases, n = phase, Len(steps) = n - 1,
           NEW e \in MaybeException, NEW r \in RewardType, RecordStep(e, r),
           \/ phase' = phase /\ raised' = e
           \/ phase' = phase + 1 /\ r.reward = "one",
           \A i \in 1..Len(steps) : work'[i] = work[i] /\ SameFaults(i),
           ExceptionTold(n, e)', RewardTold(n, r)'
    PROVE  StepsTold' /\ Len(steps') = n
  <1> DEFINE s == [phase |-> phase, exception |-> e, reward |-> r]
  <1>1. /\ phase \in Nat \ {0} /\ steps \in Seq(StepType) /\ Len(steps) \in Nat
    BY Counts
  <1>2. s \in StepType
    BY <1>1 DEF StepType
  <1>3. /\ steps' = Append(steps, s)
        /\ Len(steps') = phase /\ steps'[phase] = s
        /\ \A i \in 1..Len(steps) : steps'[i] = steps[i]
    BY <1>1, <1>2, AppendProperties DEF RecordStep
  <1>4. s.phase = phase /\ s.exception = e /\ s.reward = r
    OBVIOUS
  <1> HIDE DEF s
  <1>5. ASSUME NEW i \in 1..Len(steps')
        PROVE  /\ steps'[i].phase = i
               /\ ExceptionTold(i, steps[i].exception)'
               /\ RewardTold(i, steps[i].reward)'
               /\ i < phase' => steps'[i].reward.reward = "one"
    <2>1. CASE i = phase
      <3>1. ExceptionTold(i, steps[i].exception)' /\ RewardTold(i, steps[i].reward)'
        BY <1>3, <1>4, <2>1 DEF ExceptionTold, RewardTold
      <3> QED  BY <1>1, <1>3, <1>4, <2>1, <3>1
    <2>2. CASE i # phase
      <3>1. i \in 1..Len(steps) /\ i < phase
        BY <1>1, <1>3, <2>2
      <3>2. /\ steps[i].phase = i /\ steps[i].reward.reward = "one"
            /\ ExceptionTold(i, steps[i].exception) /\ RewardTold(i, steps[i].reward)
        BY <3>1 DEF StepsTold
      <3>3. \A k \in {"agent", "provider", "verifier", "reward"} :
                (<<k, i>> \in faults') = (<<k, i>> \in faults)
        BY <3>1 DEF SameFaults, WorkKinds, AgentKinds
      <3>4. steps'[i] = steps[i] /\ work'[i] = work[i]
        BY <1>3, <3>1
      <3>5. ExceptionTold(i, steps[i].exception)'
        BY <3>2, <3>3, <3>4 DEF ExceptionTold
      <3>6. RewardTold(i, steps[i].reward)'
        BY <3>2, <3>3, <3>4 DEF RewardTold
      <3> QED  BY <3>2, <3>4, <3>5, <3>6
    <2> QED  BY <2>1, <2>2
  <1>6. Len(steps') \in {phase' - 1, phase'}
    BY <1>1, <1>3
  <1>7. Len(steps') = phase' => raised' = steps'[phase'].exception
    BY <1>1, <1>3, <1>4
  <1> QED  BY <1>3, <1>5, <1>6, <1>7 DEF StepsTold

\* Nothing is published before _finalize.
LEMMA ResultsKept ==
    ASSUME ResultsTold, results' = results, stage' # "done"
    PROVE  ResultsTold'
  BY DEF ResultsTold

-----------------------------------------------------------------------------
(* The invariant is inductive. *)

\* A fresh attempt has nothing to tell.
LEMMA FreshTold == Fresh => FilesTold /\ StepsTold /\ FaultsTold /\ StageTold /\ TrialTold
  <1> SUFFICES ASSUME Fresh
               PROVE  FilesTold /\ StepsTold /\ FaultsTold /\ StageTold /\ TrialTold
    OBVIOUS
  <1> USE DEF Fresh
  <1>1. Len(steps) = 0 /\ phase = 1 /\ Under /\ ~Over /\ 1..Len(steps) = {}
    <2>1. Len(steps) = 0
      OBVIOUS
    <2> QED  BY <2>1 DEF Under, Over
  <1>2. FilesTold
    BY DEF FilesTold, EvidenceTold, NoOutput
  <1>3. StepsTold
    BY <1>1 DEF StepsTold
  <1>4. FaultsTold
    BY <1>1 DEF FaultsTold
  <1>5. StageTold
    BY <1>1 DEF StageTold, NoTrial
  <1>6. TrialTold
    BY <1>1 DEF TrialTold
  <1> QED  BY <1>2, <1>3, <1>4, <1>5, <1>6

\* The first attempt tells everything there is.
LEMMA InitTold == Init => Told
  <1> SUFFICES ASSUME Init PROVE Told
    OBVIOUS
  <1>1. ResultsTold
    BY DEF Init, Fresh, ResultsTold
  <1> QED  BY <1>1, FreshTold DEF Init, Told

\* Setting up.
LEMMA SetupTold == TypeOK /\ Told /\ (SetUp \/ SetupFails) => Told'
  <1> SUFFICES ASSUME TypeOK, Told, SetUp \/ SetupFails PROVE Told'
    OBVIOUS
  <1>1. /\ phase = 1 /\ Len(steps) = 0 /\ topException = "none" /\ raised = "none"
        /\ trial.kind = "missing" /\ stage = "setup" /\ Under /\ ~Over
    BY Counts DEF SetUp, SetupFails, Told, StageTold, Under, Over
  <1>2. ASSUME NEW k \in WorkKinds, NEW p \in Phases PROVE <<k, p>> \notin faults
    <2>1. <<k, p>> \in faults => p <= Len(steps)
      BY <1>1 DEF Told, FaultsTold
    <2>2. p \in Nat \ {0}
      BY PhasesAssumption DEF Phases
    <2> QED  BY <1>1, <2>1, <2>2
  <1>3. \A k \in EndKinds \union {"stopped"}, p \in Phases : <<k, p>> \notin faults
    BY <1>1 DEF Told, FaultsTold
  <1>4. /\ phase' = 1 /\ steps' = steps /\ work' = work /\ outputs' = outputs
        /\ raised' = raised /\ trial' = trial /\ results' = results
        /\ stage' \in {"agent", "report"} /\ ~Over'
    BY <1>1 DEF SetUp, SetupFails, Over
  <1>5. \A k \in WorkKinds \union EndKinds \union {"stopped"}, p \in Phases : <<k, p>> \notin faults'
    BY <1>2, <1>3 DEF SetUp, SetupFails, WorkKinds, AgentKinds, EndKinds
  <1>6. \A p \in Phases : SameFaults(p)
    BY <1>2, <1>5 DEF SameFaults
  <1>7. StepsTold'
    BY <1>1, <1>4, StepsKept, Counts DEF Told
  <1>8. FilesTold'
    BY <1>1, <1>4, <1>6, FilesKept DEF Told
  <1>9. FaultsTold' /\ StageTold'
    <2>1. CASE SetUp
      <3>1. stage' = "agent" /\ Under' /\ topException' = "none"
        BY <1>1, <2>1 DEF SetUp, Under
      <3>2. faults' = faults
        BY <2>1 DEF SetUp
      <3>3. FaultsTold'
        BY <1>1, <1>4, <1>5, <3>1, <3>2 DEF Told, FaultsTold
      <3> QED  BY <1>1, <1>4, <3>1, <3>3 DEF StageTold
    <2>2. CASE SetupFails
      <3>1. /\ stage' = "report" /\ ~Under' /\ topException' \in SetupExceptions
            /\ topException' # "none" /\ <<"setup", 1>> \in faults'
        BY <1>1, <2>2 DEF SetupFails, Under, SetupExceptions
      <3>2. FaultsTold'
        BY <1>4, <1>5, <3>1 DEF FaultsTold
      <3>3. Ended'
        BY <1>1, <1>4, <1>5, <3>1 DEF Ended
      <3> QED  BY <1>1, <1>4, <3>1, <3>2, <3>3 DEF StageTold
    <2> QED  BY <2>1, <2>2
  <1>10. TrialTold' /\ ResultsTold'
    BY <1>4, ResultsKept DEF TrialTold, Told
  <1> QED  BY <1>7, <1>8, <1>9, <1>10 DEF Told

\* Where an attempt stands while the phase in progress has no step yet.
LEMMA InPhase ==
    ASSUME TypeOK, Told, stage \in {"agent", "verify"}
    PROVE  /\ Len(steps) = phase - 1 /\ Under /\ ~Over /\ topException = "none"
           /\ trial.kind = "missing"
           /\ \A k \in WorkKinds, p \in Phases : <<k, p>> \in faults =>
                  p < phase \/ (p = phase /\ k \in AgentKinds /\ stage = "verify")
           /\ \A k \in EndKinds \union {"setup", "stopped"}, p \in Phases : <<k, p>> \notin faults
           /\ \A p \in Phases : p >= phase => outputs[p].evidence = NoEvidence
  <1>1. Under /\ ~Over /\ stage \notin {"finalize", "done", "lost"}
    BY DEF Under, Over
  <1>2. Len(steps) = phase - 1 /\ topException = "none" /\ trial.kind = "missing"
    BY <1>1 DEF Told, StageTold
  <1>3. \A k \in WorkKinds, p \in Phases : <<k, p>> \in faults =>
                  p < phase \/ (p = phase /\ k \in AgentKinds /\ stage = "verify")
    BY <1>1, <1>2, Counts DEF Told, FaultsTold
  <1>4. \A k \in EndKinds \union {"setup", "stopped"}, p \in Phases : <<k, p>> \notin faults
    BY <1>1, <1>2 DEF Told, FaultsTold
  <1>5. \A p \in Phases : p >= phase => outputs[p].evidence = NoEvidence
    <2> SUFFICES ASSUME NEW p \in Phases, p >= phase PROVE outputs[p].evidence = NoEvidence
      OBVIOUS
    <2>1. p > phase \/ p = phase
      BY Counts
    <2> QED  BY <1>1, <2>1 DEF Told, FilesTold
  <1> QED  BY <1>1, <1>2, <1>3, <1>4, <1>5

\* Once a step is recorded for the last phase reached, Harbor may report.
LEMMA ReportReady ==
    ASSUME TypeOK, Told, stage \in {"agent", "verify"},
           stage' \in {"agent", "report"}, Len(steps') = phase,
           topException' = topException, trial' = trial, results' = results,
           \/ stage' = "report" /\ phase' = phase
           \/ stage' = "agent" /\ phase' = phase + 1 /\ raised' = "none",
           NEW n \in Phases, n = phase, NEW K \in SUBSET WorkKinds,
           faults' = faults \union {<<k, n>> : k \in K}
    PROVE  FaultsTold' /\ StageTold' /\ TrialTold' /\ ResultsTold'
  <1>1. /\ Under /\ ~Over /\ topException = "none" /\ trial.kind = "missing"
        /\ \A k \in WorkKinds, p \in Phases : <<k, p>> \in faults => p <= n
        /\ \A k \in EndKinds \union {"setup", "stopped"}, p \in Phases : <<k, p>> \notin faults
    <2>1. /\ Under /\ ~Over /\ topException = "none" /\ trial.kind = "missing"
          /\ \A k \in WorkKinds, p \in Phases : <<k, p>> \in faults =>
                  p < phase \/ p = phase
          /\ \A k \in EndKinds \union {"setup", "stopped"}, p \in Phases : <<k, p>> \notin faults
      BY InPhase
    <2>2. phase = n /\ Phases \subseteq Nat
      BY Counts
    <2>3. \A p \in Phases : p < phase \/ p = phase => p <= n
      BY ONLY <2>2
    <2> QED  BY ONLY <2>1, <2>3
  <1>2. \A k \in WorkKinds, p \in Phases : <<k, p>> \in faults' => p <= Len(steps')
    BY <1>1, Counts
  <1>3. \A k \in EndKinds \union {"setup", "stopped"}, p \in Phases : <<k, p>> \notin faults'
    <2>1. \A k \in EndKinds \union {"setup", "stopped"} : k \notin WorkKinds
      BY DEF EndKinds, WorkKinds, AgentKinds
    <2> QED  BY <1>1, <2>1
  <1>4. ~Over'
    BY DEF Over
  <1>5. FaultsTold'
    BY <1>2, <1>3 DEF FaultsTold
  <1>6. Len(steps') = phase' /\ stage' = "report" => Ended'
    BY <1>1, <1>2 DEF Ended
  <1>7. StageTold'
    <2>1. phase' = phase + 1 => phase' - 1 = phase
      BY Counts
    <2> QED  BY <1>1, <1>4, <1>6, <2>1 DEF StageTold, Under
  <1>8. TrialTold' /\ ResultsTold'
    BY <1>4, ResultsKept DEF TrialTold, Told
  <1> QED  BY <1>5, <1>7, <1>8

\* What an agent does is told by the phase in progress, or by its step.
LEMMA AgentTold == TypeOK /\ Told /\ (AgentFinishes \/ AgentInterrupted) => Told'
  <1> SUFFICES ASSUME TypeOK, Told, AgentFinishes \/ AgentInterrupted PROVE Told'
    OBVIOUS
  <1>1. stage = "agent" /\ stage \in {"agent", "verify"}
    BY DEF AgentFinishes, AgentInterrupted
  <1>2. PICK n \in Phases : n = phase
    BY Counts
  <1>3. /\ Len(steps) = n - 1 /\ Under /\ ~Over /\ topException = "none"
        /\ trial.kind = "missing"
        /\ \A k \in WorkKinds : <<k, n>> \notin faults
        /\ \A k \in WorkKinds, p \in Phases : <<k, p>> \in faults => p <= Len(steps)
        /\ \A k \in EndKinds \union {"setup", "stopped"}, p \in Phases : <<k, p>> \notin faults
        /\ outputs[n].evidence = NoEvidence
    BY <1>1, <1>2, InPhase, Counts
  <1>4. \A p \in Phases :
          /\ outputs'[p].evidence = outputs[p].evidence
          /\ outputs'[p].artifact = outputs[p].artifact
          /\ p # n => work'[p] = work[p]
    BY <1>2 DEF AgentFinishes, AgentInterrupted, AgentLeaves, TypeOK, OutputType
  <1>5. \A i \in 1..Len(steps) : i \in Phases /\ i # n /\ i < n
    BY <1>2, <1>3, Counts
  <1>6. /\ phase' = phase /\ topException' = topException /\ trial' = trial
        /\ results' = results
    BY DEF AgentFinishes, AgentInterrupted
  <1>7. PICK K \in SUBSET AgentKinds, e \in MaybeException :
            /\ faults' = faults \union {<<k, n>> : k \in K}
            /\ raised' = e /\ e \notin SetupExceptions
            /\ e = "none" => K = {}
            /\ e \in AgentExceptions => "agent" \in K
            /\ e \in ProviderExceptions => "provider" \in K /\ "agent" \notin K
            /\ \/ stage' = "verify" /\ steps' = steps
               \/ stage' = "report" /\ RecordStep(e, NoReward)
    <2>1. CASE AgentFinishes
      <3>1. /\ faults' = faults \union {<<k, n>> : k \in {}}
            /\ raised' = "none" /\ stage' = "verify" /\ steps' = steps
        BY <1>1, <2>1 DEF AgentFinishes, Told, StageTold
      <3>2. "none" \notin SetupExceptions \union AgentExceptions \union ProviderExceptions
        BY DEF SetupExceptions, AgentExceptions, ProviderExceptions
      <3> QED  BY <3>1, <3>2, ExceptionSets
    <2>2. CASE AgentInterrupted
      <3>1. PICK e \in AgentExceptions \union ProviderExceptions :
                /\ faults' = faults \union
                        {<<IF e \in AgentExceptions THEN "agent" ELSE "provider", phase>>}
                /\ raised' = e
                /\ \/ stage' = "verify" /\ UNCHANGED steps
                   \/ stage' = "report" /\ RecordStep(e, NoReward)
        BY <2>2 DEF AgentInterrupted
      <3> DEFINE K == {IF e \in AgentExceptions THEN "agent" ELSE "provider"}
      <3>2. /\ e \in MaybeException /\ e \notin SetupExceptions /\ e # "none"
            /\ e \in ProviderExceptions => e \notin AgentExceptions
        BY ExceptionSets DEF AgentExceptions, ProviderExceptions, SetupExceptions
      <3>3. /\ K \in SUBSET AgentKinds
            /\ e \in AgentExceptions => "agent" \in K
            /\ e \notin AgentExceptions => "provider" \in K /\ "agent" \notin K
        BY DEF AgentKinds
      <3>4. faults' = faults \union {<<k, n>> : k \in K}
        BY <1>2, <3>1
      <3> HIDE DEF K
      <3> QED  BY <3>1, <3>2, <3>3, <3>4
    <2> QED  BY <2>1, <2>2
  <1>8. \A p \in Phases : p # n => SameFaults(p)
    BY <1>7 DEF SameFaults
  <1>9. \A k \in {"verifier", "reward", "evidence", "artifact"} : <<k, n>> \notin faults'
    <2>1. \A k \in {"verifier", "reward", "evidence", "artifact"} : k \in WorkKinds /\ k \notin AgentKinds
      BY DEF WorkKinds, AgentKinds
    <2> QED  BY <1>3, <1>7, <2>1
  <1>10. ExceptionTold(n, e)'
    <2>1. "agent" \in WorkKinds /\ "provider" \in WorkKinds
      BY DEF WorkKinds, AgentKinds
    <2> QED  BY <1>3, <1>7, <1>9, <2>1 DEF ExceptionTold
  <1>11. FilesTold'
    <2>1. Under' => Under
      BY <1>3
    <2>2. /\ <<"evidence", n>> \notin faults' /\ <<"artifact", n>> \notin faults'
      BY <1>9
    <2>3. FilesTold
      BY DEF Told
    <2> QED  BY <1>3, <1>4, <1>6, <1>8, <2>1, <2>2, <2>3, FilesKept
  <1>12. CASE stage' = "verify" /\ steps' = steps
    <2>1. StepsTold'
      BY <1>2, <1>3, <1>4, <1>5, <1>6, <1>8, <1>12, StepsKept, Counts DEF Told
    <2>2. Under' /\ ~Over'
      BY <1>12 DEF Under, Over
    <2>3. StageTold'
      <3>1. ExceptionTold(phase, raised)'
        BY <1>2, <1>6, <1>7, <1>10 DEF ExceptionTold
      <3> QED  BY <1>2, <1>3, <1>6, <1>12, <3>1, <2>2 DEF StageTold
    <2>4. FaultsTold'
      <3>1. ASSUME NEW k \in WorkKinds, NEW p \in Phases, <<k, p>> \in faults'
            PROVE  p <= Len(steps) \/ (p = n /\ k \in AgentKinds)
        BY <1>3, <1>7, <3>1
      <3>2. \A k \in EndKinds \union {"setup", "stopped"}, p \in Phases : <<k, p>> \notin faults'
        <4>1. \A k \in EndKinds \union {"setup", "stopped"} : k \notin AgentKinds
          BY DEF EndKinds, AgentKinds
        <4> QED  BY <1>3, <1>7, <4>1
      <3> QED  BY <1>2, <1>6, <1>12, <3>1, <3>2 DEF FaultsTold
    <2>5. TrialTold' /\ ResultsTold'
      BY <1>6, <1>12, <2>2, ResultsKept DEF TrialTold, Told
    <2> QED  BY <1>11, <2>1, <2>3, <2>4, <2>5 DEF Told
  <1>13. CASE stage' = "report" /\ RecordStep(e, NoReward)
    <2>1. RewardTold(n, NoReward)'
      BY <1>9 DEF RewardTold
    <2>2. StepsTold' /\ Len(steps') = n
      BY <1>2, <1>3, <1>4, <1>5, <1>6, <1>7, <1>8, <1>10, <1>13, <2>1, StepRecorded, NoRewardType
      DEF Told
    <2>3. K \in SUBSET WorkKinds
      BY DEF WorkKinds
    <2>4. FaultsTold' /\ StageTold' /\ TrialTold' /\ ResultsTold'
      BY <1>1, <1>2, <1>6, <1>7, <1>13, <2>2, <2>3, ReportReady
    <2> QED  BY <1>11, <2>2, <2>4 DEF Told
  <1> QED  BY <1>7, <1>12, <1>13

\* The verifier ends a phase with evidence e, reward file a and reward r, of which the
\* kinds in K are wrong.
LEMMA CheckpointTold ==
    ASSUME TypeOK, Told, stage = "verify",
           NEW K \in SUBSET {"evidence", "reward", "artifact"},
           NEW e, NEW a, NEW r \in RewardType,
           IF "evidence" \in K THEN e \in FaultyEvidence(work[phase])
                               ELSE e = TrueEvidence(work[phase]),
           IF "reward" \in K THEN r \in FaultyReward(work[phase])
                             ELSE r = TrueReward(work[phase]),
           "artifact" \in K => a = NoReward, NEW text,
           \/ outputs' = [outputs EXCEPT ![phase].evidence = e, ![phase].artifact = a]
           \/ outputs' = [outputs EXCEPT ![phase].evidence = e, ![phase].artifact = a,
                                         ![phase].artifactText = text],
           Checkpoint(r), faults' = faults \union {<<k, phase>> : k \in K},
           UNCHANGED <<work, topException, trial, results>>
    PROVE  Told'
  <1>1. PICK n \in Phases : n = phase
    BY Counts
  <1>2. /\ Len(steps) = n - 1 /\ Under /\ ~Over
        /\ \A k \in WorkKinds : <<k, n>> \in faults => k \in AgentKinds
        /\ \A p \in Phases : p >= n => outputs[p].evidence = NoEvidence
    BY <1>1, InPhase, Counts
  <1>3. /\ stage' \in {"agent", "report"} /\ RecordStep(raised, r)
        /\ \/ stage' = "report" /\ phase' = phase /\ raised' = raised
           \/ /\ stage' = "agent" /\ phase' = phase + 1 /\ raised' = "none"
              /\ r.reward = "one" /\ phase < PhaseCount
    BY DEF Checkpoint
  <1>4. K \in SUBSET WorkKinds /\ K \intersect {"agent", "provider", "verifier"} = {}
    BY DEF WorkKinds
  <1>5. faults' = faults \union {<<k, n>> : k \in K}
    BY <1>1
  <1>6. \A p \in Phases : p # n => SameFaults(p)
    BY <1>5 DEF SameFaults
  <1>7. /\ \A k \in {"agent", "provider", "verifier"} :
              (<<k, n>> \in faults') = (<<k, n>> \in faults)
        /\ \A k \in {"evidence", "reward", "artifact"} : (<<k, n>> \in faults') = (k \in K)
    <2>1. \A k \in {"evidence", "reward", "artifact"} : k \in WorkKinds /\ k \notin AgentKinds
      BY DEF WorkKinds, AgentKinds
    <2> QED  BY <1>2, <1>4, <1>5, <2>1
  <1>8. ExceptionTold(n, raised)
    BY <1>1 DEF Told, StageTold
  <1>9. PICK x \in MaybeException : x = raised
    BY DEF TypeOK
  <1>10. ExceptionTold(n, x)'
    BY <1>7, <1>8, <1>9 DEF ExceptionTold
  <1>11. RewardTold(n, r)'
    BY <1>1, <1>7 DEF RewardTold
  <1>12. StepsTold' /\ Len(steps') = n
    <2>1. \A i \in 1..Len(steps) : i \in Phases /\ i # n
      BY <1>1, <1>2, Counts
    <2>2. \A i \in 1..Len(steps) : work'[i] = work[i] /\ SameFaults(i)
      BY <1>6, <2>1
    <2> QED  BY <1>1, <1>2, <1>3, <1>9, <1>10, <1>11, <2>2, StepRecorded DEF Told
  <1>13. FilesTold'
    <2> SUFFICES ASSUME NEW p \in Phases
                 PROVE  /\ EvidenceTold(p)'
                        /\ <<"artifact", p>> \in faults' => outputs'[p].artifact = NoReward
                        /\ p > phase' \/ (p = phase' /\ Under') => outputs'[p].evidence = NoEvidence
      BY DEF FilesTold
    <2>1. outputs \in [Phases -> OutputType]
      BY DEF TypeOK
    <2>2. CASE p = n
      <3>1. outputs'[p].evidence = e /\ outputs'[p].artifact = a
        BY <1>1, <2>1, <2>2 DEF OutputType
      <3>2. ~(p > phase' \/ (p = phase' /\ Under'))
        BY <1>1, <1>3, <2>2, Counts DEF Under
      <3>3. EvidenceTold(p)'
        BY <1>1, <1>7, <2>2, <3>1 DEF EvidenceTold
      <3> QED  BY <1>7, <2>2, <3>1, <3>2, <3>3
    <2>3. CASE p # n
      <3>1. outputs'[p].evidence = outputs[p].evidence /\ outputs'[p].artifact = outputs[p].artifact
        BY <1>1, <2>1, <2>3 DEF OutputType
      <3>2. /\ (<<"evidence", p>> \in faults') = (<<"evidence", p>> \in faults)
            /\ (<<"artifact", p>> \in faults') = (<<"artifact", p>> \in faults)
        BY <1>5, <2>3
      <3>3. /\ EvidenceTold(p)
            /\ <<"artifact", p>> \in faults => outputs[p].artifact = NoReward
        BY DEF Told, FilesTold
      <3>4. EvidenceTold(p)'
        BY <3>1, <3>2, <3>3 DEF EvidenceTold
      <3>5. p > phase' \/ (p = phase' /\ Under') => p >= n
        BY <1>1, <1>3, Counts
      <3> QED  BY <1>2, <3>1, <3>2, <3>3, <3>4, <3>5
    <2> QED  BY <2>2, <2>3
  <1>14. FaultsTold' /\ StageTold' /\ TrialTold' /\ ResultsTold'
    BY <1>1, <1>3, <1>4, <1>5, <1>12, ReportReady
  <1> QED  BY <1>12, <1>13, <1>14 DEF Told

\* A verifier that works, and one that misreports.
LEMMA VerifierTold == TypeOK /\ Told /\ (VerifierReports \/ VerifierMisreports) => Told'
  <1> SUFFICES ASSUME TypeOK, Told, VerifierReports \/ VerifierMisreports PROVE Told'
    OBVIOUS
  <1> DEFINE done == work[phase]
  <1>1. TrueReward(done) \in RewardType /\ \A r \in FaultyReward(done) : r \in RewardType
    BY TrueRewardType, FaultyRewardType
  <1>2. stage = "verify" /\ UNCHANGED <<work, topException, trial, results>>
    BY DEF VerifierReports, VerifierMisreports
  <1>3. CASE VerifierReports
    <2>1. faults' = faults \union {<<k, phase>> : k \in {}}
      BY <1>3 DEF VerifierReports
    <2>2. /\ outputs' = [outputs EXCEPT ![phase].evidence = TrueEvidence(done),
                                        ![phase].artifact = TrueReward(done)]
          /\ Checkpoint(TrueReward(done))
      BY <1>3 DEF VerifierReports
    <2> QED  BY <1>1, <1>2, <2>1, <2>2, CheckpointTold
  <1>4. CASE VerifierMisreports
    <2>1. CASE \E e \in FaultyEvidence(done) :
                  /\ outputs' = [outputs EXCEPT ![phase].evidence = e,
                                                ![phase].artifact = TrueReward(done)]
                  /\ faults' = faults \union {<<"evidence", phase>>}
                  /\ Checkpoint(TrueReward(done))
      <3>1. PICK e \in FaultyEvidence(done) :
                  /\ outputs' = [outputs EXCEPT ![phase].evidence = e,
                                                ![phase].artifact = TrueReward(done)]
                  /\ faults' = faults \union {<<"evidence", phase>>}
                  /\ Checkpoint(TrueReward(done))
        BY <2>1
      <3>2. faults' = faults \union {<<k, phase>> : k \in {"evidence"}}
        BY <3>1
      <3>3. /\ {"evidence"} \in SUBSET {"evidence", "reward", "artifact"}
            /\ "reward" \notin {"evidence"} /\ "artifact" \notin {"evidence"}
        OBVIOUS
      <3> QED  BY <1>1, <1>2, <3>1, <3>2, <3>3, CheckpointTold
    <2>2. CASE \E r \in FaultyReward(done) :
                  /\ outputs' = [outputs EXCEPT ![phase].evidence = TrueEvidence(done),
                                                ![phase].artifact = r]
                  /\ faults' = faults \union {<<"reward", phase>>}
                  /\ Checkpoint(r)
      <3>1. PICK r \in FaultyReward(done) :
                  /\ outputs' = [outputs EXCEPT ![phase].evidence = TrueEvidence(done),
                                                ![phase].artifact = r]
                  /\ faults' = faults \union {<<"reward", phase>>}
                  /\ Checkpoint(r)
        BY <2>2
      <3>2. faults' = faults \union {<<k, phase>> : k \in {"reward"}}
        BY <3>1
      <3>3. /\ {"reward"} \in SUBSET {"evidence", "reward", "artifact"}
            /\ "evidence" \notin {"reward"} /\ "artifact" \notin {"reward"}
        OBVIOUS
      <3> QED  BY <1>1, <1>2, <3>1, <3>2, <3>3, CheckpointTold
    <2>3. CASE /\ \E text \in BOOLEAN :
                     outputs' = [outputs EXCEPT ![phase].evidence = TrueEvidence(done),
                                                ![phase].artifact = NoReward,
                                                ![phase].artifactText = text]
               /\ faults' = faults \union {<<"artifact", phase>>}
               /\ Checkpoint(TrueReward(done))
      <3>1. faults' = faults \union {<<k, phase>> : k \in {"artifact"}}
        BY <2>3
      <3>2. /\ {"artifact"} \in SUBSET {"evidence", "reward", "artifact"}
            /\ "evidence" \notin {"artifact"} /\ "reward" \notin {"artifact"}
        OBVIOUS
      <3> QED  BY <1>1, <1>2, <2>3, <3>1, <3>2, CheckpointTold
    <2> QED  BY <1>4, <2>1, <2>2, <2>3 DEF VerifierMisreports
  <1> QED  BY <1>3, <1>4

\* A file that cannot be recorded is no fault of the kinds that steps and files tell of.
LEMMA LeavesUnrecordableTold == TypeOK /\ Told /\ LeavesUnrecordable => Told'
  <1> SUFFICES ASSUME TypeOK, Told, LeavesUnrecordable PROVE Told'
    OBVIOUS
  <1>1. /\ stage' = stage /\ stage # "done" /\ faults' = faults \union {<<"files", phase>>}
        /\ UNCHANGED <<phase, work, steps, raised, topException, trial, exitedCleanly, results>>
    BY DEF LeavesUnrecordable
  <1>2. \A p \in Phases : outputs'[p].evidence = outputs[p].evidence
                            /\ outputs'[p].artifact = outputs[p].artifact
    BY DEF LeavesUnrecordable, TypeOK, OutputType
  <1>3. \A k \in WorkKinds \union EndKinds \union {"setup", "stopped"} : \A p :
            (<<k, p>> \in faults') = (<<k, p>> \in faults)
    <2>1. "files" \notin WorkKinds \union EndKinds \union {"setup", "stopped"}
      BY DEF WorkKinds, EndKinds, AgentKinds
    <2> QED  BY <1>1, <2>1
  <1>4. \A p \in Phases : SameFaults(p)
    BY <1>3 DEF SameFaults
  <1>5. (Under' <=> Under) /\ (Over' <=> Over)
    BY <1>1 DEF Under, Over
  <1>6. FilesTold'
    BY <1>1, <1>2, <1>4, <1>5, FilesKept DEF Told
  <1>7. StepsTold'
    <2>1. \A i \in 1..Len(steps) : i \in Phases
      BY Counts DEF Told, StepsTold
    <2> QED  BY <1>1, <1>4, <2>1, StepsKept DEF Told
  <1>8. FaultsTold'
    BY <1>1, <1>3, <1>5 DEF Told, FaultsTold
  <1>9. StageTold'
    <2>1. ~(stage = "report")
      BY DEF LeavesUnrecordable
    <2>2. ExceptionTold(phase, raised) => ExceptionTold(phase, raised)'
      BY <1>1, <1>3 DEF ExceptionTold, WorkKinds, AgentKinds
    <2> QED  BY <1>1, <1>5, <2>1, <2>2 DEF Told, StageTold
  <1>10. TrialTold'
    <2>1. ~Over
      BY DEF LeavesUnrecordable, Over
    <2> QED  BY <1>5, <2>1 DEF TrialTold
  <1>11. ResultsTold'
    BY <1>1, ResultsKept DEF Told
  <1> QED  BY <1>6, <1>7, <1>8, <1>9, <1>10, <1>11 DEF Told

\* A verifier that raises.
LEMMA VerifierFailsTold == TypeOK /\ Told /\ VerifierFails => Told'
  <1> SUFFICES ASSUME TypeOK, Told, VerifierFails PROVE Told'
    OBVIOUS
  <1>1. stage = "verify"
    BY DEF VerifierFails
  <1>2. PICK n \in Phases : n = phase
    BY Counts
  <1>3. /\ Len(steps) = n - 1 /\ Under /\ ~Over
        /\ \A k \in WorkKinds : <<k, n>> \in faults => k \in AgentKinds
    BY <1>1, <1>2, InPhase, Counts
  <1>4. /\ phase' = phase /\ topException' = topException /\ trial' = trial
        /\ results' = results /\ work' = work /\ outputs' = outputs /\ stage' = "report"
    BY DEF VerifierFails
  <1>5. faults' = faults \union {<<k, n>> : k \in {"verifier"}}
    BY <1>2 DEF VerifierFails
  <1>6. PICK x \in MaybeException :
            /\ raised' = x /\ RecordStep(x, NoReward)
            /\ raised # "none" => x = raised
            /\ raised = "none" => x \in VerifierExceptions
    BY ExceptionSets DEF VerifierFails, TypeOK
  <1>7. ExceptionTold(n, raised)
    BY <1>1, <1>2 DEF Told, StageTold
  <1>8. \A k \in {"agent", "provider", "reward", "evidence", "artifact"} :
            (<<k, n>> \in faults') = (<<k, n>> \in faults)
    BY <1>5
  <1>9. ExceptionTold(n, x)'
    <2>1. CASE raised = "none"
      <3>1. /\ x # "none"
            /\ x \notin AgentExceptions \union ProviderExceptions \union SetupExceptions
        BY <1>6, <2>1 DEF VerifierExceptions, AgentExceptions, ProviderExceptions, SetupExceptions
      <3> QED  BY <3>1 DEF ExceptionTold
    <2>2. CASE raised # "none"
      BY <1>6, <1>7, <1>8, <2>2 DEF ExceptionTold
    <2> QED  BY <2>1, <2>2
  <1>10. \A p \in Phases : p # n => SameFaults(p)
    BY <1>5 DEF SameFaults
  <1>11. /\ <<"evidence", n>> \notin faults' /\ <<"artifact", n>> \notin faults'
         /\ <<"reward", n>> \notin faults'
    BY <1>3, <1>8 DEF WorkKinds, AgentKinds
  <1>12. StepsTold' /\ Len(steps') = n
    <2>1. \A i \in 1..Len(steps) : i \in Phases /\ i # n
      BY <1>2, <1>3, Counts
    <2>2. \A i \in 1..Len(steps) : work'[i] = work[i] /\ SameFaults(i)
      BY <1>4, <1>10, <2>1
    <2>3. RewardTold(n, NoReward)'
      BY <1>11 DEF RewardTold
    <2> QED  BY <1>2, <1>3, <1>4, <1>6, <1>9, <2>2, <2>3, StepRecorded, NoRewardType DEF Told
  <1>13. FilesTold'
    <2>1. outputs[n].evidence = NoEvidence
      BY <1>1, <1>2, InPhase, Counts
    <2>2. \A p \in Phases :
              /\ outputs'[p].evidence = outputs[p].evidence
              /\ outputs'[p].artifact = outputs[p].artifact
              /\ \/ work'[p] = work[p] /\ SameFaults(p)
                 \/ /\ outputs[p].evidence = NoEvidence
                    /\ <<"evidence", p>> \notin faults' /\ <<"artifact", p>> \notin faults'
      BY <1>4, <1>10, <1>11, <2>1
    <2> QED  BY <1>3, <1>4, <2>2, FilesKept DEF Told
  <1>14. {"verifier"} \in SUBSET WorkKinds
    BY DEF WorkKinds
  <1>15. FaultsTold' /\ StageTold' /\ TrialTold' /\ ResultsTold'
    BY <1>1, <1>2, <1>4, <1>5, <1>12, <1>14, ReportReady
  <1> QED  BY <1>12, <1>13, <1>15 DEF Told

\* Harbor stops between two phases.
LEMMA StopsEarlyTold == TypeOK /\ Told /\ StopsEarly => Told'
  <1> SUFFICES ASSUME TypeOK, Told, StopsEarly PROVE Told'
    OBVIOUS
  <1>1. PICK n \in Phases : n = phase
    BY Counts
  <1>2. /\ stage = "agent" /\ stage' = "report" /\ phase > 1
        /\ faults' = faults \union {<<"stopped", n>>}
        /\ UNCHANGED <<phase, work, outputs, steps, raised, topException, trial, results>>
    BY <1>1 DEF StopsEarly
  <1>3. /\ Len(steps) = phase - 1 /\ Under /\ ~Over /\ topException = "none"
        /\ trial.kind = "missing"
        /\ \A k \in WorkKinds, p \in Phases : <<k, p>> \in faults => p < phase
        /\ \A k \in EndKinds \union {"setup"}, p \in Phases : <<k, p>> \notin faults
    BY <1>2, InPhase
  <1>4. \A k \in WorkKinds \union EndKinds \union {"setup"}, p \in Phases :
            (<<k, p>> \in faults') = (<<k, p>> \in faults)
    BY <1>2 DEF WorkKinds, AgentKinds, EndKinds
  <1>5. \A p \in Phases : SameFaults(p)
    BY <1>4 DEF SameFaults
  <1>6. \A i \in 1..Len(steps) : i \in Phases
    BY <1>3, Counts
  <1>7. StepsTold'
    BY <1>2, <1>5, <1>6, StepsKept DEF Told
  <1>8. FilesTold'
    BY <1>2, <1>3, <1>5, FilesKept DEF Told
  <1>9. ~Under' /\ ~Over'
    BY <1>2 DEF Under, Over
  <1>10. \A k \in WorkKinds, p \in Phases : <<k, p>> \in faults' => p <= Len(steps)
    BY <1>3, <1>4, Counts
  <1>11. FaultsTold'
    BY <1>2, <1>3, <1>4, <1>9, <1>10 DEF FaultsTold
  <1>12. Ended'
    BY <1>2, <1>3, <1>10 DEF Ended
  <1>13. StageTold'
    BY <1>2, <1>3, <1>9, <1>12 DEF StageTold
  <1>14. TrialTold' /\ ResultsTold'
    BY <1>2, <1>9, ResultsKept DEF TrialTold, Told
  <1> QED  BY <1>7, <1>8, <1>11, <1>13, <1>14 DEF Told

\* The process dies and leaves no result.
LEMMA HarborDiesTold == TypeOK /\ Told /\ HarborDies => Told'
  <1> SUFFICES ASSUME TypeOK, Told, HarborDies PROVE Told'
    OBVIOUS
  <1>1. PICK n \in Phases : n = phase
    BY Counts
  <1>2. /\ stage \in {"setup", "agent", "verify"} /\ stage' = "finalize"
        /\ faults' = faults \union {<<"died", n>>}
        /\ UNCHANGED <<phase, work, outputs, steps, raised, topException, trial, results>>
    BY <1>1 DEF HarborDies
  <1>3. Under /\ ~Over /\ ~Under' /\ Over'
    BY <1>2 DEF Under, Over
  <1>4. trial.kind = "missing"
    BY <1>3 DEF Told, StageTold
  <1>5. \A k \in WorkKinds \union {"setup", "stopped"}, p \in Phases :
            (<<k, p>> \in faults') = (<<k, p>> \in faults)
    BY <1>2 DEF WorkKinds, AgentKinds
  <1>6. \A p \in Phases : SameFaults(p)
    BY <1>5 DEF SameFaults
  <1>7. \A i \in 1..Len(steps) : i \in Phases
    BY Counts DEF Told, StepsTold
  <1>8. StepsTold'
    BY <1>2, <1>6, <1>7, StepsKept DEF Told
  <1>9. FilesTold'
    BY <1>2, <1>3, <1>6, FilesKept DEF Told
  <1>10. FaultsTold'
    <2>1. FaultsTold
      BY DEF Told
    <2>2. \A p \in Phases : <<"stopped", p>> \notin faults'
      BY <1>3, <1>5, <2>1 DEF FaultsTold
    <2>3. \A k \in WorkKinds, p \in Phases : <<k, p>> \in faults' =>
              p <= Len(steps) \/ (p = phase /\ k \in AgentKinds)
      BY <1>5, <2>1 DEF FaultsTold
    <2>4. \A p \in Phases : <<"setup", p>> \in faults' => topException # "none"
      BY <1>5, <2>1 DEF FaultsTold
    <2> QED  BY <1>2, <1>3, <2>2, <2>3, <2>4 DEF FaultsTold
  <1>11. StageTold' /\ TrialTold' /\ ResultsTold'
    BY <1>2, <1>3, <1>4, ResultsKept DEF StageTold, TrialTold, Told
  <1> QED  BY <1>8, <1>9, <1>10, <1>11 DEF Told

\* A layout that no trial of the task has is seen, or hidden behind an exception.
LEMMA FaultyLayoutsShow ==
    ASSUME TypeOK, StepsTold, Ended, NEW u \in FaultyLayouts(ReportedTrial)
    PROVE  /\ LayoutErrors(u) \/ topException # "none"
           /\ ~LayoutErrors(u) => u.exception = ReportedTrial.exception /\ u.exception # "none"
           /\ u.kind = "loaded"
  <1> DEFINE t == ReportedTrial
  <1>1. /\ t.kind = "loaded" /\ t.hasSteps = Sequential
        /\ t.steps = (IF Sequential THEN steps ELSE <<>>)
        /\ t.reward = (IF steps = <<>> THEN NoReward ELSE steps[Len(steps)].reward)
        /\ t.exception = (IF ~Sequential /\ topException = "none" THEN raised ELSE topException)
        /\ DOMAIN t = {"kind", "exception", "hasSteps", "steps", "topAgentResult", "reward",
                       "agent", "checksum", "metrics"}
    BY DEF ReportedTrial
  <1>2. t \in TrialResultType /\ steps \in Seq(StepType) /\ Len(steps) \in Nat
    BY ReportedTrialType, Counts
  <1> HIDE DEF t
  <1>3. CASE u = [t EXCEPT !.hasSteps = ~Sequential]
    <2>1. u.hasSteps = ~Sequential /\ u.kind = "loaded" /\ u.exception = t.exception
      BY <1>1, <1>3
    <2>2. CASE ~Sequential
      <3>1. LayoutErrors(u)
        BY <2>1, <2>2 DEF LayoutErrors
      <3> QED  BY <2>1, <3>1
    <2>3. CASE Sequential
      <3>1. u.exception = topException /\ ~HasLastStep(u)
        BY <1>1, <2>1, <2>3 DEF HasLastStep
      <3>2. LayoutErrors(u) = (u.exception = "none")
        BY <2>3, <3>1 DEF LayoutErrors
      <3> QED  BY <2>1, <3>1, <3>2 DEF t
    <2> QED  BY <2>2, <2>3
  <1>4. CASE /\ Sequential /\ t.steps # <<>>
             /\ u \in {[t EXCEPT !.topAgentResult = TRUE],
                       [t EXCEPT !.steps = <<>>],
                       [t EXCEPT !.steps[1].phase = 0],
                       [t EXCEPT !.steps = Append(t.steps, t.steps[1])],
                       [t EXCEPT !.reward.reward = IF @ = "one" THEN "zero" ELSE "one"]}
    <2>1. /\ t.steps = steps /\ Len(steps) > 0 /\ t.hasSteps
          /\ steps # <<>> /\ t.reward = steps[Len(steps)].reward
      <3>1. t.steps = steps /\ t.hasSteps /\ steps # <<>>
        BY <1>1, <1>4
      <3>2. Len(steps) > 0
        BY <1>2, <3>1, EmptySeq
      <3> QED  BY <1>1, <3>1, <3>2
    <2>2. topException = "none" /\ t.exception = "none"
      BY <1>1, <1>4, <2>1 DEF Ended
    <2>3. /\ u.kind = "loaded" /\ u.exception = "none" /\ u.hasSteps
      BY <1>1, <1>4, <2>1, <2>2
    <2>4. CASE u = [t EXCEPT !.topAgentResult = TRUE]
      <3>1. u.topAgentResult
        BY <1>1, <2>4
      <3>2. LayoutErrors(u)
        BY <1>4, <2>3, <3>1 DEF LayoutErrors
      <3> QED  BY <2>3, <3>2
    <2>5. CASE u = [t EXCEPT !.steps = <<>>]
      <3>1. u.steps = <<>> /\ Len(u.steps) = 0
        BY <1>1, <2>5
      <3>2. LayoutErrors(u)
        BY <1>4, <2>3, <3>1 DEF LayoutErrors, HasLastStep
      <3> QED  BY <2>3, <3>2
    <2>6. CASE u = [t EXCEPT !.steps[1].phase = 0]
      <3>1. steps[1] \in StepType /\ 1 \in DOMAIN steps /\ DOMAIN steps = 1..Len(steps)
        BY <1>2, <2>1, ElementOfSeq, LenProperties
      <3>2. u.steps = [steps EXCEPT ![1] = [steps[1] EXCEPT !.phase = 0]]
        BY <1>1, <2>1, <2>6
      <3>3. [steps[1] EXCEPT !.phase = 0].phase = 0
        BY <3>1 DEF StepType
      <3>4. 1 \in DOMAIN u.steps /\ u.steps[1].phase = 0
        BY <3>1, <3>2, <3>3
      <3>5. ~PhasePrefix(u.steps)
        BY <3>4 DEF PhasePrefix
      <3>6. LayoutErrors(u)
        BY <1>4, <2>3, <3>5 DEF LayoutErrors
      <3> QED  BY <2>3, <3>6
    <2>7. CASE u = [t EXCEPT !.steps = Append(t.steps, t.steps[1])]
      <3>1. u.steps = Append(steps, steps[1]) /\ steps[1] \in StepType
        BY <1>1, <1>2, <2>1, <2>7, ElementOfSeq
      <3> DEFINE m == Len(steps) + 1
      <3>2. m \in DOMAIN u.steps /\ u.steps[m] = steps[1] /\ m # 1
        BY <1>2, <2>1, <3>1, AppendProperties
      <3>3. steps[1].phase = 1
        BY <1>2, <2>1 DEF StepsTold
      <3>4. ~PhasePrefix(u.steps)
        BY <3>2, <3>3 DEF PhasePrefix
      <3>5. LayoutErrors(u)
        BY <1>4, <2>3, <3>4 DEF LayoutErrors
      <3> QED  BY <2>3, <3>5
    <2>8. CASE u = [t EXCEPT !.reward.reward = IF @ = "one" THEN "zero" ELSE "one"]
      <3>1. t.reward \in RewardType
        BY <1>2 DEF TrialResultType
      <3>2. u.steps = steps /\ u.reward.reward # t.reward.reward
        BY <1>1, <2>1, <2>8, <3>1 DEF RewardType
      <3>3. u.reward # u.steps[Len(u.steps)].reward
        BY <2>1, <3>2
      <3>4. LayoutErrors(u)
        BY <1>4, <2>3, <3>3 DEF LayoutErrors
      <3> QED  BY <2>3, <3>4
    <2> QED  BY <1>4, <2>4, <2>5, <2>6, <2>7, <2>8
  <1> QED  BY <1>3, <1>4 DEF FaultyLayouts, t

\* Harbor's report, and the ways in which it is wrong.
LEMMA HarborReportsTold == TypeOK /\ Told /\ (HarborReports \/ HarborMisreports) => Told'
  <1> SUFFICES ASSUME TypeOK, Told, HarborReports \/ HarborMisreports PROVE Told'
    OBVIOUS
  <1> DEFINE t == ReportedTrial
             Kinds == {"unreadable", "identity", "checksum", "layout", "exit", "metrics"}
  <1>1. PICK n \in Phases : n = phase
    BY Counts
  <1>2. /\ stage = "report" /\ stage' = "finalize"
        /\ UNCHANGED <<phase, work, outputs, steps, raised, topException, results>>
    BY DEF HarborReports, HarborMisreports
  <1>3. ~Under /\ ~Over /\ ~Under' /\ Over'
    BY <1>2 DEF Under, Over
  <1>4. Ended /\ \A k \in EndKinds, p \in Phases : <<k, p>> \notin faults
    BY <1>2, <1>3 DEF Told, StageTold, FaultsTold
  <1> DEFINE Shows(K) ==
               /\ faults' = faults \union {<<k, n>> : k \in K}
               /\ trial'.kind = "loaded" =>
                    /\ "layout" \in K => LayoutErrors(trial') \/ topException # "none"
                    /\ ~LayoutErrors(trial') =>
                         /\ trial'.exception = t.exception
                         /\ trial'.exception = "none" =>
                              /\ trial'.hasSteps = t.hasSteps
                              /\ trial'.steps = t.steps
                              /\ trial'.reward = t.reward
                    /\ "unreadable" \notin K
                    /\ "identity" \in K => ~trial'.agent
                    /\ "checksum" \in K => ~trial'.checksum
                    /\ "exit" \in K => ~exitedCleanly'
  <1>5. PICK K \in SUBSET Kinds : Shows(K)
    <2>1. t.kind = "loaded" /\ t \in TrialResultType
      BY ReportedTrialType DEF ReportedTrial
    <2> HIDE DEF t
    <2>2. CASE trial' = t /\ faults' = faults
      <3>1. Shows({})
        BY <2>2
      <3>3. {} \in SUBSET Kinds
        OBVIOUS
      <3> HIDE DEF Shows
      <3> QED  BY <3>1, <3>3
    <2>3. CASE \E kind \in {"missing", "invalid"} :
                  /\ trial' = [NoTrial EXCEPT !.kind = kind]
                  /\ faults' = faults \union {<<"unreadable", phase>>}
      <3>1. trial'.kind # "loaded"
        BY <2>3 DEF NoTrial
      <3>2. Shows({"unreadable"})
        BY <1>1, <2>3, <3>1
      <3>3. {"unreadable"} \in SUBSET Kinds
        OBVIOUS
      <3> HIDE DEF Shows
      <3> QED  BY <3>2, <3>3
    <2>4. CASE /\ trial' = [t EXCEPT !.agent = FALSE]
               /\ faults' = faults \union {<<"identity", phase>>}
      <3>1. /\ ~trial'.agent /\ trial'.exception = t.exception
            /\ trial'.hasSteps = t.hasSteps /\ trial'.steps = t.steps /\ trial'.reward = t.reward
        BY <2>1, <2>4 DEF TrialResultType
      <3>2. Shows({"identity"})
        BY <1>1, <2>4, <3>1
      <3>3. {"identity"} \in SUBSET Kinds
        OBVIOUS
      <3> HIDE DEF Shows
      <3> QED  BY <3>2, <3>3
    <2>5. CASE /\ trial' = [t EXCEPT !.checksum = FALSE]
               /\ faults' = faults \union {<<"checksum", phase>>}
      <3>1. /\ ~trial'.checksum /\ trial'.exception = t.exception
            /\ trial'.hasSteps = t.hasSteps /\ trial'.steps = t.steps /\ trial'.reward = t.reward
        BY <2>1, <2>5 DEF TrialResultType
      <3>2. Shows({"checksum"})
        BY <1>1, <2>5, <3>1
      <3>3. {"checksum"} \in SUBSET Kinds
        OBVIOUS
      <3> HIDE DEF Shows
      <3> QED  BY <3>2, <3>3
    <2>6. CASE /\ trial' \in FaultyLayouts(t)
               /\ faults' = faults \union {<<"layout", phase>>}
      <3>1. \A u \in FaultyLayouts(t) :
               /\ LayoutErrors(u) \/ topException # "none"
               /\ ~LayoutErrors(u) => u.exception = t.exception /\ u.exception # "none"
        BY <1>4, FaultyLayoutsShow DEF Told, t
      <3>2. Shows({"layout"})
        BY <1>1, <2>6, <3>1
      <3>3. {"layout"} \in SUBSET Kinds
        OBVIOUS
      <3> HIDE DEF Shows
      <3> QED  BY <3>2, <3>3
    <2>7. CASE /\ trial' = t /\ exitedCleanly' = FALSE
               /\ faults' = faults \union {<<"exit", phase>>}
      <3>1. Shows({"exit"})
        BY <1>1, <2>7
      <3>3. {"exit"} \in SUBSET Kinds
        OBVIOUS
      <3> HIDE DEF Shows
      <3> QED  BY <3>1, <3>3
    <2>8. CASE /\ trial' = [t EXCEPT !.metrics = FALSE]
               /\ faults' = faults \union {<<"metrics", phase>>}
      <3>1. /\ trial'.exception = t.exception
            /\ trial'.hasSteps = t.hasSteps /\ trial'.steps = t.steps /\ trial'.reward = t.reward
        BY <2>1, <2>8 DEF TrialResultType
      <3>2. Shows({"metrics"})
        BY <1>1, <2>8, <3>1
      <3>3. {"metrics"} \in SUBSET Kinds
        OBVIOUS
      <3> HIDE DEF Shows
      <3> QED  BY <3>2, <3>3
    <2> HIDE DEF Shows
    <2> QED
      BY <2>2, <2>3, <2>4, <2>5, <2>6, <2>7, <2>8 DEF HarborReports, HarborMisreports, t
  <1>6. \A k \in WorkKinds \union {"setup", "stopped"}, p \in Phases :
            (<<k, p>> \in faults') = (<<k, p>> \in faults)
    <2>1. \A k \in WorkKinds \union {"setup", "stopped"} : k \notin Kinds
      BY DEF WorkKinds, AgentKinds
    <2> QED  BY <1>5, <2>1
  <1>7. \A p \in Phases : SameFaults(p)
    BY <1>6 DEF SameFaults
  <1>8. \A i \in 1..Len(steps) : i \in Phases
    BY Counts DEF Told, StepsTold
  <1>9. StepsTold'
    BY <1>2, <1>7, <1>8, StepsKept DEF Told
  <1>10. FilesTold'
    BY <1>2, <1>3, <1>7, FilesKept DEF Told
  <1>11. FaultsTold'
    <2>1. FaultsTold
      BY DEF Told
    <2>2. \A k \in WorkKinds, p \in Phases : <<k, p>> \in faults' => p <= Len(steps)
      BY <1>4, <1>6 DEF Ended
    <2>3. \A p \in Phases :
             /\ <<"setup", p>> \in faults' => topException # "none"
             /\ <<"stopped", p>> \in faults' => Len(steps) = phase - 1
      BY <1>6, <2>1 DEF FaultsTold
    <2> QED  BY <1>2, <1>3, <2>2, <2>3 DEF FaultsTold
  <1>12. StageTold' /\ ResultsTold'
    BY <1>2, <1>3, ResultsKept DEF StageTold, Told
  <1>13. Ended'
    <2>1. 1 \in Phases
      BY Counts
    <2> QED  BY <1>2, <1>4, <1>6, <2>1 DEF Ended
  <1>14. TrialTold'
    <2>1. ReportedTrial' = t
      BY <1>2 DEF ReportedTrial, Sequential
    <2>2. ASSUME NEW p \in Phases, NEW k \in EndKinds, <<k, p>> \in faults'
          PROVE  k \in K
      BY <1>4, <1>5, <2>2
    <2>3. \A k \in {"died"} \union Kinds : k \in EndKinds
      BY DEF EndKinds
    <2>4. "died" \notin K
      OBVIOUS
    <2>5. LayoutErrors(trial)' = LayoutErrors(trial')
      BY DEF LayoutErrors, HasLastStep, PhasePrefix, Sequential
    <2> HIDE DEF t
    <2> SUFFICES ASSUME trial'.kind = "loaded"
                 PROVE  /\ Ended'
                        /\ ~LayoutErrors(trial') =>
                             /\ trial'.exception = t.exception
                             /\ trial'.exception = "none" =>
                                  /\ trial'.hasSteps = t.hasSteps
                                  /\ trial'.steps = t.steps
                                  /\ trial'.reward = t.reward
                        /\ \A p \in Phases :
                             /\ <<"died", p>> \notin faults' /\ <<"unreadable", p>> \notin faults'
                             /\ <<"identity", p>> \in faults' => ~trial'.agent
                             /\ <<"checksum", p>> \in faults' => ~trial'.checksum
                             /\ <<"layout", p>> \in faults' =>
                                    LayoutErrors(trial') \/ topException # "none"
                             /\ <<"exit", p>> \in faults' => ~exitedCleanly'
      BY <1>2, <2>1, <2>5 DEF TrialTold
    <2> QED  BY <1>5, <1>13, <2>2, <2>3, <2>4
  <1> QED  BY <1>9, <1>10, <1>11, <1>12, <1>14 DEF Told

\* _finalize: the new bundle says what its verdict says, and allows a retry only of what
\* was interrupted before anything was judged.
LEMMA FinalizeTold == IInv /\ Told /\ Finalize => Told'
  <1> SUFFICES ASSUME IInv, Told, Finalize PROVE Told'
    OBVIOUS
  <1> DEFINE verdict == FinalVerdict(trial, outputs, exitedCleanly)
             harbor == EvidenceOfHarbor(trial)
             bundle == Bundle(verdict, harbor, Attempt)
  <1>1. /\ TypeOK /\ trial \in TrialResultType /\ results \in Seq(BundleType)
        /\ Len(results) \in Nat
    BY LenProperties DEF IInv, TypeOK
  <1>2. /\ stage = "finalize" /\ stage' \in {"done", "lost"}
        /\ stage' = "done" => results' = Append(results, bundle)
        /\ stage' # "done" => results' = results
        /\ UNCHANGED <<phase, work, outputs, steps, raised, topException, trial,
                       exitedCleanly, faults>>
    BY DEF Finalize
  <1>3. /\ Attempt \in 1..MaxAttempts /\ Attempt = Len(results) + 1
    <2>1. Len(results) < MaxAttempts
      BY <1>2 DEF IInv, AttemptsLeft
    <2> QED  BY <1>1, <2>1, RetryAssumption DEF Attempt
  <1>4. bundle.verdict = verdict /\ bundle.retry = RetryDisposition(verdict, Attempt)
    BY DEF Bundle
  <1>5. bundle.retry.eligible =>
            /\ Attempt < MaxAttempts
            /\ verdict.classification = "infrastructure_failure"
            /\ verdict.reason \in RetryableReasons
            /\ verdict.outcomes = Undecided
    <2>1. verdict \in VerdictType
      BY <1>1, FinalVerdictCoherent DEF Coherent
    <2>2. PublishableVerdict(verdict, harbor)
      BY <1>1, FinalVerdictPublishable
    <2> HIDE DEF verdict, harbor
    <2> SUFFICES ASSUME bundle.retry.eligible
                 PROVE  /\ Attempt < MaxAttempts
                        /\ verdict.classification = "infrastructure_failure"
                        /\ verdict.reason \in RetryableReasons
                        /\ verdict.outcomes = Undecided
      OBVIOUS
    <2>3. /\ Attempt < MaxAttempts /\ verdict.classification = "infrastructure_failure"
          /\ RetryDisposition(verdict, Attempt).decision = "retry_allowed"
      BY <1>3, <1>4, <2>1, RetryDispositionSound
    <2>4. RetryDecision(verdict, Attempt) = "retry_allowed"
      BY <2>3 DEF RetryDisposition
    <2>5. verdict.reason \in RetryableReasons
      BY <2>4 DEF RetryDecision
    <2>6. verdict.outcomes = Undecided
      BY <2>2, <2>3, <2>5 DEF PublishableVerdict, Judged, Interrupted, Excluded
    <2> QED  BY <2>3, <2>5, <2>6
  <1>6. ResultsTold'
    <2>1. CASE stage' # "done"
      BY <1>2, <2>1, ResultsKept DEF Told
    <2>2. CASE stage' = "done"
      <3>1. bundle \in BundleType
        BY <1>1, <1>3, BundleAlwaysAccepted
      <3>2. FinalVerdict(trial, outputs, exitedCleanly)' = verdict
        BY <1>2
      <3> HIDE DEF bundle, verdict
      <3>3. /\ results' = Append(results, bundle)
            /\ Len(results') = Len(results) + 1 /\ results'[Len(results')] = bundle
            /\ DOMAIN results' = 1..(Len(results) + 1)
            /\ \A i \in DOMAIN results : results'[i] = results[i]
            /\ DOMAIN results = 1..Len(results)
        BY <1>1, <1>2, <2>2, <3>1, AppendProperties, LenProperties
      <3>4. Len(results') > 0 /\ Settled'.verdict = FinalVerdict(trial, outputs, exitedCleanly)'
        BY <1>1, <1>4, <3>2, <3>3 DEF Settled
      <3>5. ASSUME NEW i \in DOMAIN results', results'[i].retry.eligible
            PROVE  /\ i < MaxAttempts
                   /\ results'[i].verdict.classification = "infrastructure_failure"
                   /\ results'[i].verdict.reason \in RetryableReasons
                   /\ results'[i].verdict.outcomes = Undecided
        <4>1. CASE i \in DOMAIN results
          BY <3>3, <3>5, <4>1 DEF Told, ResultsTold
        <4>2. CASE i \notin DOMAIN results
          <5>1. i = Len(results) + 1 /\ results'[i] = bundle
            BY <1>1, <3>3, <4>2
          <5> QED  BY <1>3, <1>4, <1>5, <3>5, <5>1
        <4> QED  BY <4>1, <4>2
      <3> QED  BY <3>4, <3>5 DEF ResultsTold
    <2> QED  BY <2>1, <2>2
  <1>7. /\ ~Under /\ Over /\ ~Under' /\ Over'
    BY <1>2 DEF Under, Over
  <1>8. FilesTold'
    BY <1>2, <1>7 DEF Told, FilesTold, EvidenceTold
  <1>9. StepsTold'
    BY <1>2 DEF Told, StepsTold, ExceptionTold, RewardTold
  <1>10. FaultsTold'
    BY <1>2, <1>7 DEF Told, FaultsTold
  <1>11. StageTold'
    BY <1>2, <1>7 DEF StageTold
  <1>12. TrialTold'
    BY <1>2, <1>7 DEF Told, TrialTold, Ended, ReportedTrial
  <1> QED  BY <1>6, <1>8, <1>9, <1>10, <1>11, <1>12 DEF Told

\* A retry starts afresh, with the results of the attempts before.
LEMMA RetryTold == Told /\ Retry => Told'
  <1>1. Retry => Fresh'
    BY DEF Retry, Fresh
  <1>2. Fresh' => (FilesTold /\ StepsTold /\ FaultsTold /\ StageTold /\ TrialTold)'
    BY FreshTold, PTL
  <1>3. Told /\ Retry => ResultsTold'
    BY ResultsKept DEF Retry, Told
  <1> QED  BY <1>1, <1>2, <1>3 DEF Told

\* No step of a trial leaves anything untold.
LEMMA StepTold == IInv /\ Told /\ [Next]_vars => Told'
  <1> SUFFICES ASSUME IInv, Told, [Next]_vars PROVE Told'
    OBVIOUS
  <1>1. TypeOK
    BY DEF IInv
  <1>2. CASE UNCHANGED vars
    <2>1. FilesTold'
      BY <1>2 DEF vars, Told, FilesTold, EvidenceTold, Under
    <2>2. StepsTold'
      BY <1>2 DEF vars, Told, StepsTold, ExceptionTold, RewardTold
    <2>3. FaultsTold'
      BY <1>2 DEF vars, Told, FaultsTold, Under, Over
    <2>4. StageTold'
      BY <1>2 DEF vars, Told, StageTold, ExceptionTold, Ended, Under, Over
    <2>5. TrialTold'
      BY <1>2 DEF vars, Told, TrialTold, Ended, ReportedTrial, Over
    <2>6. ResultsTold'
      BY <1>2 DEF vars, Told, ResultsTold, Settled
    <2> QED  BY <2>1, <2>2, <2>3, <2>4, <2>5, <2>6 DEF Told
  <1>3. CASE Next
    BY <1>1, <1>3, SetupTold, AgentTold, LeavesUnrecordableTold, VerifierTold, VerifierFailsTold, StopsEarlyTold,
       HarborDiesTold, HarborReportsTold, FinalizeTold, RetryTold DEF Next
  <1> QED  BY <1>2, <1>3

-----------------------------------------------------------------------------
(* What ends a run without a bundle. *)

\* A step that adds no file or total that cannot be recorded keeps what is known of them.
LEMMA LossKept ==
    ASSUME TypeOK, LossTold, stage' # "done", NEW K \in SUBSET FaultKinds,
           faults' = faults \union {<<k, phase>> : k \in K},
           "files" \notin K, "metrics" \in K <=> trial'.kind = "loaded" /\ ~trial'.metrics,
           trial.kind = "missing" \/ (trial' = trial /\ "metrics" \notin K /\ trial.metrics),
           \A p \in Phases :
              /\ outputs'[p].recordable = outputs[p].recordable
              /\ \/ outputs'[p].artifactText = outputs[p].artifactText
                 \/ p = phase /\ "artifact" \in K
    PROVE  LossTold'
  <1>1. phase \in Phases
    BY DEF TypeOK
  <1>2. \A k \in FaultKinds, p \in Phases :
            <<k, p>> \in faults' <=> <<k, p>> \in faults \/ (p = phase /\ k \in K)
    BY <1>1
  <1>3. (\E p \in Phases : <<"metrics", p>> \in faults') <=>
            trial'.kind = "loaded" /\ ~trial'.metrics
    <2>1. \A p \in Phases : <<"metrics", p>> \notin faults
      BY DEF LossTold
    <2>2. "metrics" \in FaultKinds
      BY DEF FaultKinds
    <2> QED  BY <1>1, <1>2, <2>1, <2>2
  <1>4. \A p \in Phases :
          /\ <<"files", p>> \in faults' <=> ~outputs'[p].recordable
          /\ ~outputs'[p].artifactText => <<"artifact", p>> \in faults'
    <2>1. "files" \in FaultKinds /\ "artifact" \in FaultKinds
      BY DEF FaultKinds
    <2> QED  BY <1>2, <2>1 DEF LossTold
  <1> QED  BY <1>3, <1>4 DEF LossTold

\* Nothing is lost before anything happens.
LEMMA FreshLoss == Fresh => LossTold
  BY DEF Fresh, LossTold, NoOutput, NoTrial

\* No step of a trial loses a file or a total that nobody left.
LEMMA StepLoss == IInv /\ Told /\ LossTold /\ [Next]_vars => LossTold'
  <1> SUFFICES ASSUME IInv, Told, LossTold, [Next]_vars PROVE LossTold'
    OBVIOUS
  <1>1. TypeOK /\ outputs \in [Phases -> OutputType] /\ phase \in Phases
    BY DEF IInv, TypeOK
  <1>2. ~Over => trial.kind = "missing"
    BY DEF Told, StageTold
  <1>3. CASE UNCHANGED vars
    BY <1>3 DEF vars, LossTold
  <1>4. CASE SetUp \/ SetupFails \/ AgentFinishes \/ AgentInterrupted \/ VerifierReports
             \/ VerifierFails \/ StopsEarly \/ HarborDies
    <2>1. /\ trial' = trial /\ trial.kind = "missing" /\ stage' # "done"
      BY <1>2, <1>4 DEF SetUp, SetupFails, AgentFinishes, AgentInterrupted, VerifierReports,
                        Checkpoint, VerifierFails, StopsEarly, HarborDies, Over
    <2>2. \E K \in SUBSET {"setup", "agent", "provider", "verifier", "stopped", "died"} :
              faults' = faults \union {<<k, phase>> : k \in K}
      <3>1. CASE faults' = faults
        <4>1. faults' = faults \union {<<k, phase>> : k \in {}}
          BY <3>1
        <4> QED  BY <4>1
      <3>2. ASSUME NEW j \in {"setup", "agent", "provider", "verifier", "stopped", "died"},
                   faults' = faults \union {<<j, phase>>}
            PROVE  \E K \in SUBSET {"setup", "agent", "provider", "verifier", "stopped", "died"} :
                       faults' = faults \union {<<k, phase>> : k \in K}
        <4>1. faults' = faults \union {<<k, phase>> : k \in {j}}
          BY <3>2
        <4> QED  BY <4>1
      <3>3. \/ faults' = faults
            \/ \E j \in {"setup", "agent", "provider", "verifier", "stopped", "died"} :
                  faults' = faults \union {<<j, phase>>}
        BY <1>4 DEF SetUp, SetupFails, AgentFinishes, AgentInterrupted, VerifierReports,
                    VerifierFails, StopsEarly, HarborDies
      <3> QED  BY <3>1, <3>2, <3>3
    <2>3. \A p \in Phases : /\ outputs'[p].recordable = outputs[p].recordable
                             /\ outputs'[p].artifactText = outputs[p].artifactText
      BY <1>1, <1>4 DEF SetUp, SetupFails, AgentFinishes, AgentInterrupted, AgentLeaves,
                        VerifierReports, VerifierFails, StopsEarly, HarborDies, OutputType
    <2>4. {"setup", "agent", "provider", "verifier", "stopped", "died"} \subseteq FaultKinds
      BY DEF FaultKinds
    <2> QED  BY <1>1, <2>1, <2>2, <2>3, <2>4, LossKept
  <1>5. CASE VerifierMisreports
    <2>1. trial' = trial /\ trial.kind = "missing" /\ stage' # "done"
      BY <1>2, <1>5 DEF VerifierMisreports, Checkpoint, Over
    <2>2. PICK j \in {"evidence", "reward", "artifact"} :
              /\ faults' = faults \union {<<j, phase>>}
              /\ \A p \in Phases : /\ outputs'[p].recordable = outputs[p].recordable
                                    /\ \/ outputs'[p].artifactText = outputs[p].artifactText
                                       \/ p = phase /\ j = "artifact"
      <3>1. CASE \E e \in FaultyEvidence(work[phase]) :
                   /\ outputs' = [outputs EXCEPT ![phase].evidence = e,
                                                 ![phase].artifact = TrueReward(work[phase])]
                   /\ faults' = faults \union {<<"evidence", phase>>}
        BY <1>1, <3>1 DEF OutputType
      <3>2. CASE \E r \in FaultyReward(work[phase]) :
                   /\ outputs' = [outputs EXCEPT ![phase].evidence = TrueEvidence(work[phase]),
                                                 ![phase].artifact = r]
                   /\ faults' = faults \union {<<"reward", phase>>}
        BY <1>1, <3>2 DEF OutputType
      <3>3. ASSUME NEW text,
                   outputs' = [outputs EXCEPT ![phase].evidence = TrueEvidence(work[phase]),
                                              ![phase].artifact = NoReward,
                                              ![phase].artifactText = text]
            PROVE  \A p \in Phases : /\ outputs'[p].recordable = outputs[p].recordable
                                     /\ \/ outputs'[p].artifactText = outputs[p].artifactText
                                        \/ p = phase
        BY <1>1, <3>3 DEF OutputType
      <3> QED  BY <1>5, <3>1, <3>2, <3>3 DEF VerifierMisreports
    <2>3. faults' = faults \union {<<k, phase>> : k \in {j}}
      BY <2>2
    <2>4. {j} \in SUBSET FaultKinds /\ "files" \notin {j} /\ "metrics" \notin {j}
      BY DEF FaultKinds
    <2>5. \A p \in Phases : /\ outputs'[p].recordable = outputs[p].recordable
                             /\ \/ outputs'[p].artifactText = outputs[p].artifactText
                                \/ p = phase /\ "artifact" \in {j}
      BY <2>2
    <2> QED  BY <1>1, <2>1, <2>3, <2>4, <2>5, LossKept
  <1>6. CASE HarborReports \/ HarborMisreports
    <2>1. trial.kind = "missing" /\ stage' # "done" /\ outputs' = outputs
      BY <1>2, <1>6 DEF HarborReports, HarborMisreports, Over
    <2>2. ReportedTrial \in TrialResultType /\ ReportedTrial.metrics
      BY <1>1, ReportedTrialType DEF ReportedTrial
    <2>3. \/ faults' = faults /\ (trial'.kind = "loaded" => trial'.metrics)
          \/ \E j \in {"unreadable", "identity", "checksum", "layout", "exit"} :
                faults' = faults \union {<<j, phase>>} /\ (trial'.kind = "loaded" => trial'.metrics)
          \/ /\ faults' = faults \union {<<"metrics", phase>>}
             /\ trial'.kind = "loaded" /\ ~trial'.metrics
      <3>1. CASE HarborReports
        BY <2>2, <3>1 DEF HarborReports
      <3>2. \A u \in FaultyLayouts(ReportedTrial) : u.metrics
        BY <2>2 DEF FaultyLayouts, TrialResultType
      <3>3. CASE HarborMisreports
        <4>1. \A kind \in {"missing", "invalid"} : [NoTrial EXCEPT !.kind = kind].kind # "loaded"
          BY DEF NoTrial
        <4>2. /\ [ReportedTrial EXCEPT !.agent = FALSE].metrics
              /\ [ReportedTrial EXCEPT !.checksum = FALSE].metrics
              /\ ~[ReportedTrial EXCEPT !.metrics = FALSE].metrics
              /\ [ReportedTrial EXCEPT !.metrics = FALSE].kind = "loaded"
          BY <2>2 DEF TrialResultType, ReportedTrial
        <4> QED  BY <2>2, <3>2, <3>3, <4>1, <4>2 DEF HarborMisreports
      <3> QED  BY <1>6, <3>1, <3>3
    <2>4. PICK K \in SUBSET {"unreadable", "identity", "checksum", "layout", "exit", "metrics"} :
              /\ faults' = faults \union {<<k, phase>> : k \in K}
              /\ "metrics" \in K <=> trial'.kind = "loaded" /\ ~trial'.metrics
      <3>1. CASE faults' = faults /\ (trial'.kind = "loaded" => trial'.metrics)
        <4>1. faults' = faults \union {<<k, phase>> : k \in {}}
          BY <3>1
        <4>2. "metrics" \in {} <=> trial'.kind = "loaded" /\ ~trial'.metrics
          BY <3>1
        <4> WITNESS {} \in SUBSET {"unreadable", "identity", "checksum", "layout", "exit", "metrics"}
        <4> QED  BY ONLY <4>1, <4>2
      <3>2. ASSUME NEW j \in {"unreadable", "identity", "checksum", "layout", "exit", "metrics"},
                   faults' = faults \union {<<j, phase>>},
                   j = "metrics" <=> trial'.kind = "loaded" /\ ~trial'.metrics
            PROVE  \E K \in SUBSET {"unreadable", "identity", "checksum", "layout", "exit", "metrics"} :
                     /\ faults' = faults \union {<<k, phase>> : k \in K}
                     /\ "metrics" \in K <=> trial'.kind = "loaded" /\ ~trial'.metrics
        <4>1. faults' = faults \union {<<k, phase>> : k \in {j}}
          BY <3>2
        <4>2. "metrics" \in {j} <=> trial'.kind = "loaded" /\ ~trial'.metrics
          BY <3>2
        <4>3. {j} \in SUBSET {"unreadable", "identity", "checksum", "layout", "exit", "metrics"}
          OBVIOUS
        <4> WITNESS {j} \in SUBSET {"unreadable", "identity", "checksum", "layout", "exit", "metrics"}
        <4> QED  BY ONLY <4>1, <4>2
      <3>3. \/ faults' = faults /\ (trial'.kind = "loaded" => trial'.metrics)
            \/ \E j \in {"unreadable", "identity", "checksum", "layout", "exit", "metrics"} :
                  /\ faults' = faults \union {<<j, phase>>}
                  /\ j = "metrics" <=> trial'.kind = "loaded" /\ ~trial'.metrics
        BY <2>3
      <3> QED  BY <3>1, <3>2, <3>3
    <2>5. K \in SUBSET FaultKinds /\ "files" \notin K
      BY DEF FaultKinds
    <2> QED  BY <1>1, <2>1, <2>4, <2>5, LossKept
  <1>7. CASE LeavesUnrecordable
    <2>1. /\ stage' # "done" /\ trial' = trial
          /\ faults' = faults \union {<<"files", phase>>}
          /\ outputs' = [outputs EXCEPT ![phase].recordable = FALSE]
      BY <1>7 DEF LeavesUnrecordable
    <2>2. /\ ~outputs'[phase].recordable
          /\ \A p \in Phases \ {phase} : outputs'[p] = outputs[p]
          /\ \A p \in Phases : outputs'[p].artifactText = outputs[p].artifactText
      BY <1>1, <2>1 DEF OutputType
    <2>3. \A p : (<<"metrics", p>> \in faults') = (<<"metrics", p>> \in faults)
      BY <2>1
    <2>4. \A p \in Phases : /\ (<<"files", p>> \in faults') = (<<"files", p>> \in faults \/ p = phase)
                            /\ (<<"artifact", p>> \in faults') = (<<"artifact", p>> \in faults)
      BY <2>1
    <2> QED  BY <1>1, <2>1, <2>2, <2>3, <2>4 DEF LossTold
  <1>8. CASE Finalize
    <2>1. /\ UNCHANGED <<outputs, trial, faults>>
          /\ stage' = "done" => ~FinalizeRaises(trial, outputs)
      BY <1>8 DEF Finalize
    <2>2. FinalizeRaises(trial, outputs)' = FinalizeRaises(trial, outputs)
      BY <2>1
    <2> QED  BY <2>1, <2>2 DEF LossTold
  <1>9. CASE Retry
    <2>1. Fresh'
      BY <1>9 DEF Retry, Fresh
    <2>2. Fresh' => LossTold'
      BY FreshLoss, PTL
    <2> QED  BY <2>1, <2>2
  <1> QED  BY <1>3, <1>4, <1>5, <1>6, <1>7, <1>8, <1>9 DEF Next

\* What UndecodableText finds lies in the phase that is judged, after everything else
\* that _finalize looks for.
LEMMA ToldLost == IInv /\ Told /\ LossTold => LostOnlyToUnreadable
  <1> SUFFICES ASSUME IInv, Told, LossTold, stage = "lost", ~Happened({"files", "metrics"})
               PROVE  /\ faults \subseteq {"evidence", "reward", "artifact", "stopped", "exit"} \X Phases
                      /\ LET judged == Len(steps)
                         IN  /\ judged \in Phases
                             /\ \/ {<<"evidence", judged>>, <<"artifact", judged>>}
                                        \intersect faults # {}
                                \/ outputs[judged].receipt.file = "undecodable"
    BY DEF LostOnlyToUnreadable
  <1> DEFINE n == Len(steps)
             o == outputs[OutputPhase(trial)]
  <1>1. TypeOK /\ DOMAIN outputs = Phases /\ FinalizeRaises(trial, outputs)
    BY DEF IInv, TypeOK, LostRaises
  <1>2. \A p \in Phases : <<"files", p>> \notin faults /\ <<"metrics", p>> \notin faults
    BY DEF Happened
  <1>3. UndecodableText(trial, o)
    BY <1>1, <1>2 DEF FinalizeRaises, LossTold
  <1>4. /\ Loaded /\ EffectiveException(trial) = "none" /\ trial.agent /\ trial.checksum
    BY <1>3 DEF UndecodableText, ReadsEvidence, Loaded, Over
  <1>5. /\ topException = "none" /\ n > 0
        /\ \A i \in 1..n : steps[i].exception = "none"
        /\ OutputPhase(trial) = n
    BY <1>1, <1>4, EffectiveIsFirst
  <1>6. n \in Phases
    <2>1. n \in {phase - 1, phase}
      BY DEF Told, StepsTold
    <2> QED  BY <1>1, <1>5, <2>1, Counts
  <1>7. /\ \A k \in WorkKinds, p \in Phases : <<k, p>> \in faults => p \in 1..n
    <2>1. Ended
      BY <1>4 DEF Told, TrialTold, Loaded
    <2> QED  BY <1>1, <2>1, Counts DEF Ended
  <1>8. ASSUME NEW p \in Phases, NEW k \in {"agent", "provider", "verifier"}
        PROVE  <<k, p>> \notin faults
    <2>1. k \in WorkKinds
      BY DEF WorkKinds, AgentKinds
    <2>2. p \in 1..n => ExceptionTold(p, "none")
      BY <1>5 DEF Told, StepsTold
    <2> QED  BY <1>7, <2>1, <2>2 DEF ExceptionTold
  <1>9. \A p \in Phases : \A k \in {"setup", "died", "unreadable", "layout", "identity", "checksum"} :
            <<k, p>> \notin faults
    BY <1>1, <1>4, <1>5, NoHarborFault
  <1>10. faults \subseteq {"evidence", "reward", "artifact", "stopped", "exit"} \X Phases
    <2> SUFFICES ASSUME NEW f \in faults
                 PROVE  f \in {"evidence", "reward", "artifact", "stopped", "exit"} \X Phases
      OBVIOUS
    <2>1. PICK k \in FaultKinds, p \in Phases : f = <<k, p>>
      BY <1>1 DEF TypeOK
    <2>2. k \in {"evidence", "reward", "artifact", "stopped", "exit"}
      BY <1>2, <1>8, <1>9, <2>1 DEF FaultKinds
    <2> QED  BY <2>1, <2>2
  <1>11. outputs[n].evidence.file = "undecodable" => <<"evidence", n>> \in faults
    <2>1. EvidenceTold(n)
      BY <1>6 DEF Told, FilesTold
    <2>2. TrueEvidence(work[n]).file = "present" /\ NoEvidence.file = "absent"
      BY DEF TrueEvidence, NoEvidence
    <2> QED  BY <2>1, <2>2 DEF EvidenceTold
  <1>12. ~outputs[n].artifactText => <<"artifact", n>> \in faults
    BY <1>6 DEF LossTold
  <1>13. \/ outputs[n].evidence.file = "undecodable"
         \/ outputs[n].receipt.file = "undecodable"
         \/ ~outputs[n].artifactText
    BY <1>3, <1>5 DEF UndecodableText
  <1> QED  BY <1>6, <1>10, <1>11, <1>12, <1>13

-----------------------------------------------------------------------------
(* The theorems. *)

\* At every moment of a run, what went wrong can be told from what Harbor wrote.
THEOREM EverythingTold == Spec => [](TypeOK /\ Told)
  <1>1. IInv => TypeOK
    BY DEF IInv
  <1> QED  BY <1>1, Invariance, InitTold, StepTold, PTL DEF Spec

\* At every moment somebody left whatever _finalize cannot read or record.
LEMMA LossesTold == Spec => [](IInv /\ Told /\ LossTold)
  <1>1. Init => Told /\ LossTold
    BY InitTold, FreshLoss DEF Init
  <1> QED  BY <1>1, Invariance, StepTold, StepLoss, PTL DEF Spec

\* A trial that _finalize passes did the work of every phase, whatever failed in it.
THEOREM PassesAreEarned == Spec => []PassIsEarned
  <1>1. IInv => TypeOK
    BY DEF IInv
  <1> QED  BY <1>1, LossesTold, ToldPass, PTL

\* execute_run loses a finished Harbor run only to a file or a total it cannot read or
\* record; the bundle of any other trial is one that ResultBundle.validate_result takes.
THEOREM NothingElseLost == Spec => []LostOnlyToUnreadable
  BY LossesTold, ToldLost, PTL

\* A trial that _finalize counts against the agent failed by the agent.
THEOREM BlameIsDeserved == Spec => []BlameIsEarned
  BY EverythingTold, ToldBlame, PTL

\* Every gate that _finalize publishes is what the judged repository was.
THEOREM GatesAreTrue == Spec => []OutcomesAreTrue
  BY EverythingTold, ToldOutcomes, PTL

\* _retry_disposition forgives no failure of the agent.
THEOREM RetriesForgiveNothing == Spec => []RetryForgivesNothing
  BY EverythingTold, ToldRetry, PTL
=============================================================================
