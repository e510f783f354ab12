SPECIFICATION Spec
CONSTANTS
    MaxRuns = 2
    MaxVersions = 2
    MaxReports = 3
    MaxFaults = 2
INVARIANTS TypeOK FolderHasRow MirrorAgrees VersionsMatch StartFresh ReportKept RunsAsAsked
CHECK_DEADLOCK FALSE
