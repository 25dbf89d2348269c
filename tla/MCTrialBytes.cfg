\* A single-phase task and an agent of few receipts.
SPECIFICATION Spec
CONSTANTS
    Gates = {"requested_behavior", "authority", "evidence_receipt"}
    ReceiptGate = "evidence_receipt"
    Applicable = {"requested_behavior", "evidence_receipt"}
    PhaseCount = 1
    MaxAttempts = 2
    RetryableReasons = {"provider_rate_limit", "environment_start_timeout"}
    Receipts <- FewReceipts
    MaxFaults = 1
\* A finalized run stops.
CHECK_DEADLOCK FALSE
INVARIANT EveryReceiptIsClassified
