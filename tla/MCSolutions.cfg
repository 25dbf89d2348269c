\* Three tasks, one in each history.
SPECIFICATION Spec
CONSTANTS
    Topics = {"t1", "t2"}
    MaxRetries = 2
    ErrorKinds = {"transient", "rate_limit", "auth"}
    MaxGeneration = 3
    AllEvents <- MCAllEvents
    Limit = 2
    MaxChanges = 2
    EventsAtFirst = {}
    Owners = {"o1", "o2"}
    Ttls = {2, 3}
    MaxClock = 7
\* The bounds end a history.
CHECK_DEADLOCK FALSE
INVARIANTS
    RuntimeHoldsTheState
    FailuresEnd
    PagesAreComplete
    OneHolder
    SolutionsAgree
