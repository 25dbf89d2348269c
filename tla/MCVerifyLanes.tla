--------------------------- MODULE MCVerifyLanes ---------------------------
(***************************************************************************)
(* Two lanes over the Makefile and a benchmark file, with edits between    *)
(* any two steps.                                                          *)
(***************************************************************************)
EXTENDS VerifyLanes

MCPaths == {"build", "benchmark"}
MCLanes == {"static", "generated"}
MCIncluded == [l \in MCLanes |-> {p \in MCPaths : LaneIncludes(l, p)}]
MCExamined == [l \in MCLanes |-> {p \in MCPaths : LaneExamines(l, p)}]
MCIrregular == [p \in MCPaths |-> IF p = "benchmark" THEN {2} ELSE {}]

\* The generators and the diffs that end their lines reject an edit of either file; the diff
\* of the task set, inside its line, rejects what was generated with other arguments.
MCCommands ==
    [l \in MCLanes |->
        IF l = "static" THEN {Command(TRUE, {[build |-> 1]})}
        ELSE {Command(TRUE, {[build |-> 1], [benchmark |-> 1]}),
              Command(FALSE, {[build |-> 2, benchmark |-> 0]})}]
=============================================================================
