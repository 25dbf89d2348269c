\* One retirement, to find which task ids may go on with another digest.
SPECIFICATION Spec
CONSTANTS
    Ids = {"a", "b", "c"}
    Digests = {1, 2}
    Categories = {"state", "feature"}
    CategoryOf <- MCCategoryOf
    Sources = {"MIT", "vendored"}
    SourceOf <- MCSourceOf
    Terms = {"t1"}
    Pins = {"p1", "p2"}
    FirstSets <- MCFirstSets
    NextSets <- MCNextSets
    Campaigns <- MCCampaigns
    Records <- MCRecords
    MaxRecords = 2
    MaxSets = 2
    MaxResults = 3
\* The bounds end a history.
CHECK_DEADLOCK FALSE
INVARIANT StableIdsNeedMajorRelease
