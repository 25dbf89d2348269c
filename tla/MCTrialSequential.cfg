\* A sequential task of two phases.
SPECIFICATION Spec
CONSTANTS
    Gates = {"requested_behavior", "evidence_receipt"}
    ReceiptGate = "evidence_receipt"
    Applicable = {"requested_behavior", "evidence_receipt"}
    PhaseCount = 2
    MaxAttempts = 2
    RetryableReasons = {"provider_rate_limit"}
    Receipts <- SomeReceipts
    MaxFaults = 2
\* A finalized run stops.
CHECK_DEADLOCK FALSE
INVARIANTS PassIsEarned BlameIsEarned OutcomesAreTrue RetryForgivesNothing
PROPERTY ImplementsContract
