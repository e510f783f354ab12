SPECIFICATION FairSpec
CONSTANTS
    Pages <- MCPages
    LeadPages = {"page"}
    Hits = {"page", "mirror"}
    BillText = "text"
    Blocked = {"tweet"}
    Bodies <- MCBodies
    Stub = "stub"
    Body <- MCBody
    Cites <- MCCites
    Earlier <- MCEarlier
    TopK = 2
    PerExtract = 2
    Cap = 2
    MaxPlan = 1
    MaxCrashes = 2
INVARIANTS
    TypeOK
    SecondOrderCap
    OneCopy
    ReadsWhatWasFetched
    ChainKept
PROPERTIES
    ChainEnds
CHECK_DEADLOCK FALSE
