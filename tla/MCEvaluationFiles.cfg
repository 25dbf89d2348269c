\* Two slots, whose files may each be rewritten twice, and an evaluator among them.
SPECIFICATION Spec
CONSTANTS
    Gates = {"requested_behavior", "authority", "evidence_receipt"}
    ReceiptGate = "evidence_receipt"
    Applicable = {"requested_behavior", "evidence_receipt"}
    MaxAttempts = 2
    RetryableReasons = {"provider_rate_limit"}
    BehaviorGate = "requested_behavior"
    GateWeights <- Weights
    ReviewWeights <- MCReviewWeights
    QualityWeight = 60
    s1 = s1
    s2 = s2
    s3 = s3
    Slots = {s1, s2}
    Reviews = {}
    Verdicts <- FewVerdicts
    MaxEditions = 3
SYMMETRY Symmetric
\* An evaluation ends, and so do the editions.
CHECK_DEADLOCK FALSE
INVARIANTS TypeOK TrialsAreTheBound OnlyBoundRunsAreTaken ChangedMeansRewritten
