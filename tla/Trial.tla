------------------------------- MODULE Trial -------------------------------
(***************************************************************************)
(* One run of src/src/slopbench/runner.py seen from what it measures:      *)
(* Harbor takes the agent and the verifier through the phases of a task,   *)
(* leaves its files, and execute_run finalizes them into a result bundle;  *)
(* a bundle that allows it is followed by another attempt.                 *)
(*                                                                         *)
(* Harbor, the agent, the verifier and the operator are external: they are *)
(* modelled from what runner.py sends them and reads back.  Each of them   *)
(* may fail; faults remembers which failures really happened and work      *)
(* which gates the repository really satisfies, so that the properties can *)
(* compare the published verdict with the truth.                           *)
(***************************************************************************)
EXTENDS Finalizer, FiniteSets

CONSTANTS
    Receipts,       \* the receipts an agent may leave
    MaxFaults       \* bound: faults injected in one attempt

ASSUME ReceiptsAssumption == Receipts \subseteq ReceiptType

VARIABLES
    stage,          \* "setup", "agent", "verify", "report", "finalize", "done", "lost"
    phase,          \* the phase Harbor has reached
    work,           \* the gates the repository satisfies after each phase
    outputs,        \* what each phase wrote
    steps,          \* the steps Harbor has recorded
    raised,         \* the exception of the phase in progress
    topException,   \* the exception of the trial as a whole
    trial,          \* Harbor's result.json
    exitedCleanly,  \* Harbor's process exit code is 0
    results,        \* the bundles published so far, one per attempt
    faults          \* <<kind, phase>> of what went wrong in this attempt

vars == <<stage, phase, work, outputs, steps, raised, topException, trial,
          exitedCleanly, results, faults>>

Attempt == Len(results) + 1

-----------------------------------------------------------------------------

NoReceipt ==
    [file |-> "absent", bound |-> FALSE, exact |-> FALSE, commands |-> FALSE,
     uncertainty |-> FALSE, claims |-> [g \in Gates |-> "absent"]]

NoEvidence ==
    [file |-> "absent", task |-> FALSE, base |-> FALSE, logs |-> FALSE,
     checks |-> [g \in Gates |-> "none"]]

NoOutput ==
    [evidence |-> NoEvidence, artifact |-> NoReward, receipt |-> NoReceipt,
     artifactText |-> TRUE, recordable |-> TRUE]

NoTrial ==
    [kind |-> "missing", exception |-> "none", hasSteps |-> FALSE, steps |-> <<>>,
     topAgentResult |-> FALSE, reward |-> NoReward, agent |-> TRUE, checksum |-> TRUE,
     metrics |-> TRUE]

\* Whether the verifier's own receipt check (check_receipt.py) accepts it: it
\* follows a symlink, and compares neither claims nor commands with the evidence.
PassesReceiptCheck(receipt) ==
    /\ receipt.file \in {"present", "symlink"}
    /\ receipt.bound
    /\ {g \in Gates : receipt.claims[g] # "absent"} = Applicable

\* verify.py: one check per applicable gate, the truth about the work.
TrueChecks(done) ==
    [g \in Gates |-> IF g \notin Applicable THEN "none"
                     ELSE IF g \in done THEN "passed" ELSE "failed"]

TrueEvidence(done) ==
    [file |-> "present", task |-> TRUE, base |-> TRUE, logs |-> TRUE,
     checks |-> TrueChecks(done)]

\* verify.py: the reward vector it derives from its checks.
TrueReward(done) == ExpectedReward(CheckOutcomes(TrueChecks(done), TRUE))

\* The evidence a defective verifier leaves: unreadable, bound to something else,
\* or with a check too few or one too many.
FaultyEvidence(done) ==
    LET e == TrueEvidence(done)
    IN  {[e EXCEPT !.file = f] : f \in FileKinds \ {"present"}}
          \union {[e EXCEPT !.task = FALSE], [e EXCEPT !.base = FALSE],
                  [e EXCEPT !.logs = FALSE]}
          \union {[e EXCEPT !.checks[g] = IF g \in Applicable THEN "none" ELSE "passed"] :
                  g \in Gates}

\* The vectors a defective verifier reports: a value flipped, a key lost, nothing.
FaultyReward(done) ==
    LET r == TrueReward(done)
        Flip(v) == IF v = "one" THEN "zero" ELSE "one"
    IN  {[r EXCEPT !.reward = Flip(r.reward)], NoReward}
          \union {[r EXCEPT !.gates[g] = Flip(r.gates[g])] : g \in Gates}
          \union {[r EXCEPT !.gates[g] = "absent"] : g \in Applicable}

Budget == Cardinality(faults) < MaxFaults

-----------------------------------------------------------------------------
(* Harbor and what it runs. *)

Fresh ==
    /\ stage = "setup"
    /\ phase = 1
    /\ work = [p \in Phases |-> {}]
    /\ outputs = [p \in Phases |-> NoOutput]
    /\ steps = <<>>
    /\ raised = "none"
    /\ topException = "none"
    /\ trial = NoTrial
    /\ exitedCleanly = TRUE
    /\ faults = {}

Init == Fresh /\ results = <<>>

SetUp ==
    /\ stage = "setup"
    /\ stage' = "agent"
    /\ UNCHANGED <<phase, work, outputs, steps, raised, topException, trial,
                   exitedCleanly, results, faults>>

SetupFails ==
    /\ stage = "setup"
    /\ Budget
    /\ \E e \in SetupExceptions :
        /\ topException' = e
        /\ faults' = faults \union {<<"setup", phase>>}
    /\ stage' = "report"
    /\ UNCHANGED <<phase, work, outputs, steps, raised, trial, exitedCleanly, results>>

\* The agent leaves a repository that satisfies some gates, and a receipt.
AgentLeaves(done, receipt) ==
    /\ work' = [work EXCEPT ![phase] =
                    IF ReceiptGate \in Applicable /\ PassesReceiptCheck(receipt)
                    THEN done \union {ReceiptGate} ELSE done]
    /\ outputs' = [outputs EXCEPT ![phase].receipt = receipt]

AgentFinishes ==
    /\ stage = "agent"
    /\ \E done \in SUBSET (Applicable \ {ReceiptGate}), receipt \in Receipts :
        AgentLeaves(done, receipt)
    /\ stage' = "verify"
    /\ UNCHANGED <<phase, steps, raised, topException, trial, exitedCleanly, results, faults>>

RecordStep(e, reward) ==
    steps' = Append(steps, [phase |-> phase, exception |-> e, reward |-> reward])

\* The agent or its provider stops the phase; Harbor may still verify the work.
AgentInterrupted ==
    /\ stage = "agent"
    /\ Budget
    /\ \E done \in SUBSET (Applicable \ {ReceiptGate}), receipt \in Receipts :
        AgentLeaves(done, receipt)
    /\ \E e \in AgentExceptions \union ProviderExceptions :
        /\ faults' = faults \union
                {<<IF e \in AgentExceptions THEN "agent" ELSE "provider", phase>>}
        /\ raised' = e
        /\ \/ stage' = "verify" /\ UNCHANGED steps
           \/ stage' = "report" /\ RecordStep(e, NoReward)
    /\ UNCHANGED <<phase, topException, trial, exitedCleanly, results>>

\* Mutant: a rewarded phase is followed by another even when it was the last.
CheckpointPastTheEnd(reward) ==
    /\ RecordStep(raised, reward)
    /\ \/ /\ reward.reward = "one"
          /\ stage' = "agent"
          /\ phase' = phase + 1
          /\ raised' = "none"
       \/ /\ reward.reward # "one"
          /\ stage' = "report"
          /\ UNCHANGED <<phase, raised>>

\* Harbor records the step and applies the checkpoint of the sealed task: the next
\* phase needs a reward of one; an exception may end the trial too.
Checkpoint(reward) ==
    /\ RecordStep(raised, reward)
    /\ \/ /\ reward.reward = "one" /\ phase < PhaseCount
          /\ stage' = "agent"
          /\ phase' = phase + 1
          /\ raised' = "none"
       \/ /\ reward.reward # "one" \/ phase = PhaseCount \/ raised # "none"
          /\ stage' = "report"
          /\ UNCHANGED <<phase, raised>>

\* Agent or verifier leaves a file below the phase's output that the runner will not
\* be able to record.
LeavesUnrecordable ==
    /\ stage \in {"agent", "verify"}
    /\ Budget
    /\ outputs' = [outputs EXCEPT ![phase].recordable = FALSE]
    /\ faults' = faults \union {<<"files", phase>>}
    /\ UNCHANGED <<stage, phase, work, steps, raised, topException, trial,
                   exitedCleanly, results>>

VerifierReports ==
    /\ stage = "verify"
    /\ outputs' = [outputs EXCEPT ![phase].evidence = TrueEvidence(work[phase]),
                                  ![phase].artifact = TrueReward(work[phase])]
    /\ Checkpoint(TrueReward(work[phase]))
    /\ UNCHANGED <<work, topException, trial, exitedCleanly, results, faults>>

\* Evidence, reward and reward file may each be wrong independently of the others; a
\* wrong reward file is missing, no vector or no text.
VerifierMisreports ==
    /\ stage = "verify"
    /\ Budget
    /\ \/ \E e \in FaultyEvidence(work[phase]) :
            /\ outputs' = [outputs EXCEPT ![phase].evidence = e,
                                          ![phase].artifact = TrueReward(work[phase])]
            /\ faults' = faults \union {<<"evidence", phase>>}
            /\ Checkpoint(TrueReward(work[phase]))
       \/ \E r \in FaultyReward(work[phase]) :
            /\ outputs' = [outputs EXCEPT ![phase].evidence = TrueEvidence(work[phase]),
                                          ![phase].artifact = r]
            /\ faults' = faults \union {<<"reward", phase>>}
            /\ Checkpoint(r)
       \/ /\ \E text \in BOOLEAN :
                outputs' = [outputs EXCEPT ![phase].evidence = TrueEvidence(work[phase]),
                                           ![phase].artifact = NoReward,
                                           ![phase].artifactText = text]
          /\ faults' = faults \union {<<"artifact", phase>>}
          /\ Checkpoint(TrueReward(work[phase]))
    /\ UNCHANGED <<work, topException, trial, exitedCleanly, results>>

VerifierFails ==
    /\ stage = "verify"
    /\ Budget
    /\ \E e \in VerifierExceptions :
        LET first == IF raised = "none" THEN e ELSE raised
        IN  /\ raised' = first
            /\ RecordStep(first, NoReward)
    /\ faults' = faults \union {<<"verifier", phase>>}
    /\ stage' = "report"
    /\ UNCHANGED <<phase, work, outputs, topException, trial, exitedCleanly, results>>

\* Harbor stops after a checkpoint that passed.
StopsEarly ==
    /\ stage = "agent"
    /\ phase > 1
    /\ Budget
    /\ stage' = "report"
    /\ faults' = faults \union {<<"stopped", phase>>}
    /\ UNCHANGED <<phase, work, outputs, steps, raised, topException, trial,
                   exitedCleanly, results>>

\* The process dies before it wrote result.json.
HarborDies ==
    /\ stage \in {"setup", "agent", "verify"}
    /\ Budget
    /\ exitedCleanly' = FALSE
    /\ faults' = faults \union {<<"died", phase>>}
    /\ stage' = "finalize"
    /\ UNCHANGED <<phase, work, outputs, steps, raised, topException, trial, results>>

\* result.json of a single-phase trial has the phase's exception at its top.
ReportedTrial ==
    [kind |-> "loaded",
     exception |-> IF ~Sequential /\ topException = "none" THEN raised ELSE topException,
     hasSteps |-> Sequential,
     steps |-> IF Sequential THEN steps ELSE <<>>,
     topAgentResult |-> FALSE,
     reward |-> IF steps = <<>> THEN NoReward ELSE steps[Len(steps)].reward,
     agent |-> TRUE,
     checksum |-> TRUE,
     metrics |-> TRUE]

\* Layouts that a trial of this task cannot have.
FaultyLayouts(t) ==
    {[t EXCEPT !.hasSteps = ~Sequential]}
      \union (IF Sequential /\ t.steps # <<>>
              THEN {[t EXCEPT !.topAgentResult = TRUE],
                    [t EXCEPT !.steps = <<>>],
                    [t EXCEPT !.steps[1].phase = 0],
                    [t EXCEPT !.steps = Append(t.steps, t.steps[1])],
                    [t EXCEPT !.reward.reward = IF @ = "one" THEN "zero" ELSE "one"]}
              ELSE {})

\* A trial that raised may or may not end the process with a failure.
HarborReports ==
    /\ stage = "report"
    /\ trial' = ReportedTrial
    /\ exitedCleanly' \in IF EffectiveException(trial') = "none" THEN {TRUE} ELSE BOOLEAN
    /\ stage' = "finalize"
    /\ UNCHANGED <<phase, work, outputs, steps, raised, topException, results, faults>>

HarborMisreports ==
    /\ stage = "report"
    /\ Budget
    /\ \/ \E kind \in {"missing", "invalid"} :
            /\ trial' = [NoTrial EXCEPT !.kind = kind]
            /\ exitedCleanly' \in BOOLEAN
            /\ faults' = faults \union {<<"unreadable", phase>>}
       \/ /\ trial' = [ReportedTrial EXCEPT !.agent = FALSE]
          /\ exitedCleanly' = TRUE
          /\ faults' = faults \union {<<"identity", phase>>}
       \/ /\ trial' = [ReportedTrial EXCEPT !.checksum = FALSE]
          /\ exitedCleanly' = TRUE
          /\ faults' = faults \union {<<"checksum", phase>>}
       \/ /\ trial' = [ReportedTrial EXCEPT !.metrics = FALSE]
          /\ exitedCleanly' = TRUE
          /\ faults' = faults \union {<<"metrics", phase>>}
       \/ /\ trial' \in FaultyLayouts(ReportedTrial)
          /\ exitedCleanly' = TRUE
          /\ faults' = faults \union {<<"layout", phase>>}
       \/ /\ trial' = ReportedTrial
          /\ exitedCleanly' = FALSE
          /\ faults' = faults \union {<<"exit", phase>>}
    /\ stage' = "finalize"
    /\ UNCHANGED <<phase, work, outputs, steps, raised, topException, results>>

-----------------------------------------------------------------------------
(* The runner and its operator. *)

\* Mutant: a Harbor process that failed is not finalized.
FinalizeCleanExit ==
    /\ stage = "finalize"
    /\ exitedCleanly
    /\ stage' = "done"
    /\ results' = Append(results, Bundle(FinalVerdict(trial, outputs, TRUE),
                                        EvidenceOfHarbor(trial), Attempt))
    /\ UNCHANGED <<phase, work, outputs, steps, raised, topException, trial,
                   exitedCleanly, faults>>

\* _finalize publishes a bundle, or raises and leaves none.
Finalize ==
    LET bundle == Bundle(FinalVerdict(trial, outputs, exitedCleanly),
                         EvidenceOfHarbor(trial), Attempt)
    IN  /\ stage = "finalize"
        /\ IF FinalizeRaises(trial, outputs) \/ ~BundleAccepted(bundle)
           THEN stage' = "lost" /\ UNCHANGED results
           ELSE stage' = "done" /\ results' = Append(results, bundle)
        /\ UNCHANGED <<phase, work, outputs, steps, raised, topException, trial,
                       exitedCleanly, faults>>

Settled == results[Len(results)]

\* The operator follows the retry disposition with a manifest for the next attempt.
Retry ==
    /\ stage = "done"
    /\ Settled.retry.eligible
    /\ stage' = "setup"
    /\ phase' = 1
    /\ work' = [p \in Phases |-> {}]
    /\ outputs' = [p \in Phases |-> NoOutput]
    /\ steps' = <<>>
    /\ raised' = "none"
    /\ topException' = "none"
    /\ trial' = NoTrial
    /\ exitedCleanly' = TRUE
    /\ faults' = {}
    /\ UNCHANGED results

Next ==
    \/ SetUp
    \/ SetupFails
    \/ AgentFinishes
    \/ AgentInterrupted
    \/ LeavesUnrecordable
    \/ VerifierReports
    \/ VerifierMisreports
    \/ VerifierFails
    \/ StopsEarly
    \/ HarborDies
    \/ HarborReports
    \/ HarborMisreports
    \/ Finalize
    \/ Retry

Spec == Init /\ [][Next]_vars

\* Harbor bounds setup, agent and verifier with the timeouts of RunLimits, so each
\* of its stages ends; the runner goes on while its process lives.  Nothing makes a
\* failure happen, and nothing makes the operator retry.
Fairness ==
    /\ WF_vars(SetUp)
    /\ WF_vars(AgentFinishes)
    /\ WF_vars(VerifierReports)
    /\ WF_vars(HarborReports)
    /\ WF_vars(Finalize)

FairSpec == Spec /\ Fairness

-----------------------------------------------------------------------------
(* Properties. *)

Stages == {"setup", "agent", "verify", "report", "finalize", "done", "lost"}

FaultKinds ==
    {"setup", "agent", "provider", "evidence", "reward", "artifact", "verifier",
     "files", "stopped", "died", "unreadable", "identity", "checksum", "metrics",
     "layout", "exit"}

\* Every variable keeps its type.
TypeOK ==
    /\ stage \in Stages
    /\ phase \in Phases
    /\ work \in [Phases -> SUBSET Applicable]
    /\ outputs \in [Phases -> OutputType]
    /\ steps \in Seq(StepType)
    /\ raised \in MaybeException
    /\ topException \in MaybeException
    /\ trial \in TrialResultType
    /\ exitedCleanly \in BOOLEAN
    /\ results \in Seq(BundleType)
    /\ faults \subseteq FaultKinds \X Phases

Happened(kinds) == faults \intersect (kinds \X Phases) # {}

Concluded(classifications) ==
    stage = "done" /\ Settled.verdict.classification \in classifications

\* _finalize publishes valid_pass only for a trial that reached the last phase,
\* whose repository satisfied every applicable gate there and at every checkpoint
\* the verifier rewarded truthfully, whose receipt told the truth about it, and in
\* which nothing failed but, at most, a file of an earlier phase.
PassIsEarned ==
    Concluded({"valid_pass"}) =>
        /\ phase = PhaseCount
        /\ faults \subseteq {"evidence", "reward", "artifact"} \X (1..(PhaseCount - 1))
        /\ \A p \in Phases : <<"reward", p>> \notin faults => Applicable \subseteq work[p]
        /\ ReceiptGate \in Applicable =>
               ReceiptValid(outputs[phase].receipt, TrueChecks(work[phase]))

\* _finalize blames the agent (valid_agent_failure, invalid_run) only when the agent
\* really failed in a phase it reached, by its exit, its work or its receipt; a
\* trial whose Harbor died, failed to set up, observed another agent or returned a
\* result that cannot be read or placed never counts against it.
BlameIsEarned ==
    Concluded({"valid_agent_failure", "invalid_run"}) =>
        /\ \E p \in 1..phase :
              \/ <<"agent", p>> \in faults
              \/ ~(Applicable \subseteq work[p])
              \/ ~ReceiptValid(outputs[p].receipt, TrueChecks(work[p]))
        /\ ~Happened({"died", "setup", "unreadable", "identity", "layout"})

\* Whatever the receipt claims and the verifier got wrong, a gate that _finalize
\* publishes as passed was satisfied in the phase it judged, and a gate it publishes
\* as failed was not, unless the gate is the receipt's or that phase's checks were
\* incomplete.
OutcomesAreTrue ==
    stage = "done" =>
        \A g \in Applicable :
            LET judged == Len(steps)
            IN  /\ Settled.verdict.outcomes[g] = "passed" => g \in work[judged]
                /\ Settled.verdict.outcomes[g] = "failed" =>
                        \/ g \notin work[judged]
                        \/ g = ReceiptGate
                        \/ <<"evidence", judged>> \in faults

\* A retry never gives an agent a second chance: _retry_disposition allows one only
\* after a provider or setup failure that no failure of the agent preceded, with no
\* gate decided, and never beyond the attempts of the manifest.
RetryForgivesNothing ==
    /\ \A i \in DOMAIN results :
          results[i].retry.eligible =>
              /\ i < MaxAttempts
              /\ \A g \in Gates : results[i].verdict.outcomes[g] = "not_applicable"
    /\ stage = "done" /\ Settled.retry.eligible =>
          \E p \in Phases :
              /\ {<<"provider", p>>, <<"setup", p>>} \intersect faults # {}
              /\ \A q \in 1..p : <<"agent", q>> \notin faults

\* The bundle _finalize builds always passes ResultBundle.validate_result, whatever
\* the trial left and however often it was retried.  A run is lost only to a file or a
\* total that cannot be recorded, or, in a trial that ended without an exception and
\* without a fault of Harbor's that _finalize looks for first, to evidence, a reward
\* file or a receipt of the phase it judges, and of no other.
LostOnlyToUnreadable ==
    stage = "lost" =>
        \/ Happened({"files", "metrics"})
        \/ /\ faults \subseteq {"evidence", "reward", "artifact", "stopped", "exit"} \X Phases
           /\ LET judged == Len(steps)
              IN  /\ judged \in Phases
                  /\ \/ {<<"evidence", judged>>, <<"artifact", judged>>} \intersect faults # {}
                     \/ outputs[judged].receipt.file = "undecodable"

Progress == IF stage \in {"done", "lost"} THEN stage ELSE "running"

\* The runner keeps its promise to those who read its bundles (TrialContract): a
\* verdict about the work was reached on the pinned agent and task with exactly the
\* applicable gates decided, a defect or an infrastructure failure never carries the
\* marks of one, and nothing published is ever changed.
Contract == INSTANCE TrialContract WITH progress <- Progress, published <- results

ImplementsContract == Contract!Spec

\* Every attempt that starts is finalized.
EveryAttemptEnds == stage = "setup" ~> stage \in {"done", "lost"}

\* docs/ARCHITECTURE.md: invalid_run means an agent receipt was present but
\* malformed.  A run in which nothing but the receipt can be odd then ends in a result.
EveryReceiptIsClassified == stage = "lost" => faults # {}
=============================================================================
