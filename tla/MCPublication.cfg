\* Two retirements in a row, with results, bridges and proposals rewritten at any time.
SPECIFICATION Spec
CONSTANTS
    Ids = {"a", "b", "c"}
    Digests = {1, 2}
    Categories = {"state", "feature"}
    CategoryOf <- MCCategoryOf
    Sources = {"MIT", "vendored"}
    SourceOf <- MCSourceOf
    Terms = {"t1"}
    Pins = {"p1", "p2"}
    FirstSets <- MCFirstSets
    NextSets <- MCNextSets
    Campaigns <- MCCampaigns
    Records <- MCRecords
    MaxRecords = 2
    MaxSets = 3
    MaxResults = 3
\* The bounds end a history.
CHECK_DEADLOCK FALSE
INVARIANTS
    TypeOK
    RemovedIsPublished
    RetiredIsCompared
