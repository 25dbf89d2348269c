SPECIFICATION Spec
CONSTANTS
    Paths <- MCPaths
    Lanes <- MCLanes
    Included <- MCIncluded
    Examined <- MCExamined
    Commands <- MCCommands
    Irregular <- MCIrregular
    Editor = "fresh"
    MaxEdits = 2
INVARIANTS
    SkippedWouldPass
    VerifiedWouldPass
