---------------------------- MODULE MCEvaluation ----------------------------
(***************************************************************************)
(* Evaluation on small instances: a few verdicts of every classification,  *)
(* with every gate vector that matters to a score.                         *)
(***************************************************************************)
EXTENDS Evaluation, TLC

CONSTANTS s1, s2, s3

Symmetric == Permutations(Slots)

Pinned == [checksum |-> "match", agent |-> TRUE]

Says(classification, reason, outcomes, receipt, harbor) ==
    [verdict |-> [classification |-> classification, reason |-> reason,
                  outcomes |-> outcomes, present |-> receipt = "valid",
                  valid |-> receipt = "valid", digest |-> receipt = "valid"],
     harbor |-> harbor, calibration |-> NoCalibration]

\* The gates of a set passed, the other applicable ones failed.
Passing(gates) ==
    [g \in Gates |-> IF g \notin Applicable THEN "not_applicable"
                     ELSE IF g \in gates THEN "passed" ELSE "failed"]

Pass == Says("valid_pass", "none", Passing(Applicable), "valid", Pinned)

\* A review that found this many defects, with as many in the right category and severity.
Reviewed(found, category, severity) ==
    [Pass EXCEPT !.calibration =
        [true_positives |-> found, category_matches |-> category,
         severity_matches |-> severity, passed |-> TRUE]]

\* Reviews that count in full, for little and for a number of points that was rounded, the
\* first of which is a pass of any other task too.
Passes == {Reviewed(2, 2, 2), Reviewed(3, 0, 0), Reviewed(3, 1, 0), Reviewed(0, 0, 0)}

Failures ==
    {Says("valid_agent_failure", "gate_failure", Passing(gates), "valid", Pinned) :
        gates \in SUBSET Applicable \ {Applicable}}

Interruptions ==
    {Says("valid_agent_failure", "agent_timeout", Undecided, "none", Pinned)}

Defects ==
    {Says("benchmark_defect", "reward_mismatch", Passing(Applicable), "valid", Pinned),
     Says("benchmark_defect", "harbor_task_mismatch", Undecided, "none",
          [checksum |-> "mismatch", agent |-> TRUE])}

Outages ==
    {Says("infrastructure_failure", "provider_rate_limit", Undecided, "none", Pinned),
     Says("infrastructure_failure", "harbor_process_failure", Undecided, "none",
          [checksum |-> "absent", agent |-> FALSE])}

MCReviewWeights == [detection |-> 2, category |-> 38, severity |-> 60]

Weights ==
    [g \in Gates |-> CASE g = "requested_behavior" -> 5
                       [] g = "authority" -> 0
                       [] g = "evidence_receipt" -> 2]

AllVerdicts == {Pass} \union Passes \union Failures \union Interruptions \union Defects \union Outages

\* A trial that counts, and one that is excluded and may be retried.
FewVerdicts ==
    {Pass, Says("infrastructure_failure", "provider_rate_limit", Undecided, "none", Pinned)}
=============================================================================
