SPECIFICATION FairSpec
CONSTANTS
    scan = scan
    fax = fax
    letter = letter
    memo = memo
    roster = roster
    t1 = t1
    t2 = t2
    None = None
    Docs <- ScanLetterMemo
    Paged <- Scan
    Corpus <- Scan
    Lists <- Roster
    Pages <- OnePage
    Texts <- OneText
    Says <- OneVersion
    MaxRows = 2
    Deemed = {"failed"}
    MaxRuns = 1
    MaxMishaps = 1
INVARIANT DocTraced
PROPERTIES RequestServed QueueKept
