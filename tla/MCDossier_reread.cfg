SPECIFICATION Spec
CONSTANTS
    scan = scan
    fax = fax
    letter = letter
    memo = memo
    roster = roster
    t1 = t1
    t2 = t2
    None = None
    Docs <- ScanFax
    Paged <- ScanFax
    Corpus <- Fax
    Lists <- Nobody
    Pages <- OnePage
    Texts <- TwoTexts
    Says <- TwoVersions
    MaxRows = 3
    Deemed = {"failed"}
    MaxRuns = 2
    MaxMishaps = 0
INVARIANT RowsGate
