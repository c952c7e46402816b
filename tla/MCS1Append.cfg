CONSTANTS
    Commands <- MCCommands
    Snapshots <- MCSnapshots
    Callers = {1, 2}
    Makers = {1, 2}
    MaxDuplicates = 1
    MaxPerWindow = 1
    MaxRuns = 8
SPECIFICATION Spec
INVARIANTS ReportsMatchRows
