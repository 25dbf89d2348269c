\* Three processes, two of them with one run id, and a task edited three times.
SPECIFICATION Spec
CONSTANTS
    r1 = r1
    r2 = r2
    r3 = r3
    contract = contract
    dockerfile = dockerfile
    Runs = {r1, r2, r3}
    RunIds = {"shared", "other"}
    RunId <- RunIdOf
    Paths = {contract, dockerfile}
    MaxEdits = 3
SYMMETRY Symmetric
\* Every process stops.
CHECK_DEADLOCK FALSE
INVARIANTS TypeOK HarborRunsThePinnedTask BundleIsOneRuns
PROPERTY ResultsAreFinal
