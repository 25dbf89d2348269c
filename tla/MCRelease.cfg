\* Any two steps of the maintainers towards or away from a release, with any signing and
\* verifying, and an audit that reads in between.
SPECIFICATION Spec
CONSTANTS
    Tasks = {"t1", "t2", "t3"}
    People = {"ann", "bob", "carol", "eve"}
    Entries <- MCEntries
    AttackKinds = {"mutated_verifier"}
    Contract <- MCContract
    ContractsOf <- MCContractsOf
    Categories = {"state", "feature", "review", "tracer"}
    ReleaseCategories = {"state", "feature", "review"}
    CategoryShare = 1
    TracerAttacks = {"mutated_verifier"}
    Configurations = {"c1", "c2"}
    HarnessOf <- MCHarnessOf
    Primary = "c1"
    RequiredHarnesses = {"cursor-cli", "codex"}
    CommonHarness = "omitted"
    RequiredMaterials = {"LICENSE"}
    RequiredAudits = {"privacy_leakage"}
    Signers = {"p1"}
    Schedules = {"s1", "s2"}
    Auditors <- MCAuditors
    Reviews <- MCReviews
    Experts <- MCExperts
    InitialFiles <- MCInitialFiles
    InitialEvidence <- MCInitialEvidence
    MaxWork = 2
\* The bound ends a history.
CHECK_DEADLOCK FALSE
INVARIANTS
    ReferencesAreSigned
    StableIsReviewed
    ObjectionsBlock
PROPERTIES
    SupportNeverBlocks
