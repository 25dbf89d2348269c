\* A single-phase task with two applicable gates and one that is not, whose stages all end.
SPECIFICATION FairSpec
CONSTANTS
    Gates = {"requested_behavior", "authority", "evidence_receipt"}
    ReceiptGate = "evidence_receipt"
    Applicable = {"requested_behavior", "evidence_receipt"}
    PhaseCount = 1
    MaxAttempts = 2
    RetryableReasons = {"provider_rate_limit", "environment_start_timeout"}
    Receipts <- AllReceipts
    MaxFaults = 1
\* A finalized run stops.
CHECK_DEADLOCK FALSE
INVARIANTS TypeOK PassIsEarned BlameIsEarned OutcomesAreTrue RetryForgivesNothing LostOnlyToUnreadable
PROPERTIES ImplementsContract EveryAttemptEnds
