SPECIFICATION Spec
CONSTANTS
    MaxCycles = 2
    FailureBudget = 1
    Bodies = {"pm", "hl"}
    RatifiedPM = "pm"
    RatifiedHL = "hl"
    Fetchers = {f1}
    MaxFetches = 3
INVARIANTS
    ReportMatchesLedger
    EvidenceIsWhole
CHECK_DEADLOCK FALSE
