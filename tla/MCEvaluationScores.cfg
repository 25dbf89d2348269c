\* Three slots, two of them reviews, run once: every vector of trials that can be scored.
SPECIFICATION Spec
CONSTANTS
    Gates = {"requested_behavior", "authority", "evidence_receipt"}
    ReceiptGate = "evidence_receipt"
    Applicable = {"requested_behavior", "evidence_receipt"}
    MaxAttempts = 2
    RetryableReasons = {"provider_rate_limit"}
    BehaviorGate = "requested_behavior"
    GateWeights <- Weights
    ReviewWeights <- MCReviewWeights
    QualityWeight = 60
    s1 = s1
    s2 = s2
    s3 = s3
    Slots = {s1, s2, s3}
    Reviews = {s1, s2}
    Verdicts <- AllVerdicts
    MaxEditions = 1
\* An evaluation ends.
CHECK_DEADLOCK FALSE
INVARIANTS ExcludedDoNotMove PerfectMeansPerfect SelectionIsBetween FullPassNeverHurts
