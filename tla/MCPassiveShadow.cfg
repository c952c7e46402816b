SPECIFICATION PSSpec
CONSTANTS
    Units = {"proportion", "USD"}
    Proportional = {}
    Recognized = {"proportion", "USD"}
    Contexts = {"a", "b"}
    Times = {9, 10, 11}
    Values = {0, 1}
    Durations = {0, 1}
    Manifests <- MCManifests
    MaxLines = 3
    MaxRuns = 2
INVARIANTS AuditMatchesStream ReplayIsReference
PROPERTIES ResultsOnlyAdvance
CHECK_DEADLOCK FALSE
