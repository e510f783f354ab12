SPECIFICATION Spec
CONSTANTS
    scan = scan
    fax = fax
    letter = letter
    memo = memo
    roster = roster
    t1 = t1
    t2 = t2
    None = None
    Docs <- Scan
    Paged <- Scan
    Corpus <- Nobody
    Lists <- Roster
    Pages <- TwoPages
    Texts <- TwoTexts
    Says <- TwoVersions
    MaxRows = 2
    Deemed = {"failed", "confirmed_gap"}
    MaxRuns = 2
    MaxMishaps = 1
INVARIANTS TypeOK SidecarBehind BackedByTask TraceKept GoalMeansRead
PROPERTY SettledStays
