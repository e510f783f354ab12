SPECIFICATION Spec
CONSTANTS
    MaxRuns = 2
    MaxVersions = 1
    MaxReports = 1
    MaxFaults = 0
INVARIANTS ResetSatisfiesKeys
CHECK_DEADLOCK FALSE
