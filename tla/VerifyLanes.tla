---------------------------- MODULE VerifyLanes ----------------------------
(***************************************************************************)
(* `make verify` and its stamps (repository_verify.py, Makefile).  A make  *)
(* first fingerprints the inputs of every lane, reading the repository     *)
(* path by path, and rewrites the fingerprint file of each lane whose      *)
(* fingerprint changed; then it runs the lanes whose stamp is older than   *)
(* their fingerprint file, and touches the stamp of a lane that passed.    *)
(* Files are edited at any moment, also while lanes run, and the make may  *)
(* be interrupted between any two steps.                                   *)
(*                                                                         *)
(* The contents of a path are numbered by the edits that wrote them; 0 may *)
(* stand for a missing file, which has a mark of its own in a fingerprint. *)
(* A fingerprint is what it is the digest of.  Modification times are      *)
(* compared in one place only, so `fresh' has the outcome: the stamp       *)
(* exists and no fingerprint was written since it was touched.  One make   *)
(* runs at a time.                                                         *)
(***************************************************************************)
EXTENDS Naturals

CONSTANTS
    Paths,          \* what git lists, or may list
    Lanes,          \* VerifyLane
    Included,       \* lane_includes: the paths in the fingerprint of a lane
    Examined,       \* the paths whose contents decide whether a lane passes
    Commands,       \* of the recipe of a lane, see Command
    Irregular,      \* the contents of a path that are neither file nor link
    Editor,         \* "fresh": no edit restores old contents; "any"
    MaxEdits        \* bound: contents of one path

\* A command fails on some contents of the paths it compares.  The shell runs a line of the
\* recipe, commands joined by ; without set -e, and make sees the status of the last one.
Command(last, rejects) == [last |-> last, rejects |-> rejects]

ASSUME LanesAssumption ==
    /\ Included \in [Lanes -> SUBSET Paths]
    /\ Examined \in [Lanes -> SUBSET Paths]
    /\ \A l \in Lanes : \A command \in Commands[l] : \A f \in command.rejects :
          DOMAIN f \subseteq Examined[l]
    /\ Irregular \in [Paths -> SUBSET Nat]
    /\ MaxEdits \in Nat

VARIABLES
    tree,           \* the working tree
    input,          \* artifacts/verify/inputs: the fingerprint of each lane, or NoInput
    fresh,          \* the lanes whose stamp is not older than their fingerprint file
    stage,          \* of the make: "idle", "hashing", "writing", "lanes", "verified", "failed"
    goals,          \* the lanes it was asked for
    always,         \* --always-make
    seen,           \* the contents it has fingerprinted
    unwritten,      \* the lanes whose fingerprint is not compared yet
    lane,           \* each lane: "waiting", "running", "passed", "failed"
    examined,       \* the contents each running lane has read
    before          \* history: the tree when the make started

vars == <<tree, input, fresh, stage, goals, always, seen, unwritten, lane, examined, before>>
make == <<stage, goals, always, seen, unwritten, lane, examined, before>>

NoInput == <<>>
Contents == 0..MaxEdits

-----------------------------------------------------------------------------
(* lane_includes over kinds of path, and what the commands of a lane read. *)

PathKinds == {"build", "python", "benchmark", "workflow", "agents", "other"}

LaneIncludes(l, kind) ==
    \/ kind = "build"
    \/ l = "static" /\ kind = "python"
    \/ l = "contracts" /\ kind \in {"python", "benchmark"}
    \/ l \in {"tests", "generated"} /\ kind \notin {"agents", "workflow"}

\* ruff and mypy; pytest; task contracts, runs, profiles and configurations through
\* slopbench; the generators.
LaneExamines(l, kind) ==
    \/ kind \in {"build", "python"}
    \/ l = "contracts" /\ kind = "benchmark"
    \/ l \in {"tests", "generated"} /\ kind \in {"benchmark", "other"}

-----------------------------------------------------------------------------
Fails(command, contents) ==
    \E f \in command.rejects : \A p \in DOMAIN f : contents[p] = f[p]

\* Every line of the recipe ends well.
Passing(l, contents) ==
    \A command \in Commands[l] : command.last => ~Fails(command, contents)

Fingerprint(l) == [p \in Included[l] |-> seen[p]]

Unchanged(l) == input[l] = Fingerprint(l)

TreeFingerprint(l) == [p \in Included[l] |-> tree[p]]

Init ==
    /\ tree \in [Paths -> {0}]
    /\ input = [l \in Lanes |-> NoInput]
    /\ fresh = {}
    /\ stage = "idle"
    /\ goals = {}
    /\ always = FALSE
    /\ seen = <<>>
    /\ unwritten = {}
    /\ lane = [l \in Lanes |-> "waiting"]
    /\ examined = [l \in Lanes |-> <<>>]
    /\ before = tree

Edit(p) ==
    /\ \E c \in Contents :
          /\ c # tree[p]
          /\ Editor = "fresh" => c > tree[p]
          /\ tree' = [tree EXCEPT ![p] = c]
    /\ UNCHANGED <<input, fresh, make>>

\* verify, verify-full, verify-static, ...: git lists the paths; what it does not list
\* counts as read at once, as missing.
Start(wanted, all) ==
    /\ stage \in {"idle", "verified", "failed"}
    /\ stage' = "hashing"
    /\ goals' = wanted
    /\ always' = all
    /\ seen' = <<>>
    /\ unwritten' = Lanes
    /\ lane' = [l \in Lanes |-> "waiting"]
    /\ examined' = [l \in Lanes |-> <<>>]
    /\ before' = tree
    /\ UNCHANGED <<tree, input, fresh>>

Extend(f, p) == [q \in DOMAIN f \union {p} |-> IF q = p THEN tree[p] ELSE f[q]]

\* lane_fingerprints reads the next path, unless it is neither file nor link.
FingerprintPath(p) ==
    /\ stage = "hashing"
    /\ p \in Paths \ DOMAIN seen
    /\ \/ /\ tree[p] \notin Irregular[p]
          /\ seen' = Extend(seen, p)
          /\ UNCHANGED stage
       \/ /\ tree[p] \in Irregular[p]
          /\ stage' = "failed"
          /\ UNCHANGED seen
    /\ UNCHANGED <<tree, input, fresh, goals, always, unwritten, lane, examined, before>>

\* Mutant: the fingerprint files are left as they are once they exist.
WriteFingerprintOnce(l) ==
    /\ stage \in {"hashing", "writing"}
    /\ DOMAIN seen = Paths
    /\ l \in unwritten
    /\ stage' = "writing"
    /\ unwritten' = unwritten \ {l}
    /\ \/ input[l] # NoInput /\ UNCHANGED <<input, fresh>>
       \/ /\ input[l] = NoInput
          /\ input' = [input EXCEPT ![l] = Fingerprint(l)]
          /\ fresh' = fresh \ {l}
    /\ UNCHANGED <<tree, goals, always, seen, lane, examined, before>>

\* _write_fingerprint: the file is replaced whole, and only if its text changes.
WriteFingerprint(l) ==
    /\ stage \in {"hashing", "writing"}
    /\ DOMAIN seen = Paths
    /\ l \in unwritten
    /\ stage' = "writing"
    /\ unwritten' = unwritten \ {l}
    /\ \/ Unchanged(l) /\ UNCHANGED <<input, fresh>>
       \/ /\ ~Unchanged(l)
          /\ input' = [input EXCEPT ![l] = Fingerprint(l)]
          /\ fresh' = fresh \ {l}
    /\ UNCHANGED <<tree, goals, always, seen, lane, examined, before>>

Refreshed ==
    /\ stage = "writing"
    /\ unwritten = {}
    /\ stage' = "lanes"
    /\ UNCHANGED <<tree, input, fresh, goals, always, seen, unwritten, lane, examined, before>>

\* The sub-make starts a lane whose stamp is out of date, unless a lane has failed.
StartLane(l) ==
    /\ stage = "lanes"
    /\ l \in goals
    /\ lane[l] = "waiting"
    /\ always \/ l \notin fresh
    /\ \A other \in Lanes : lane[other] # "failed"
    /\ lane' = [lane EXCEPT ![l] = "running"]
    /\ UNCHANGED <<tree, input, fresh, stage, goals, always, seen, unwritten, examined, before>>

Examine(l, p) ==
    /\ lane[l] = "running"
    /\ p \in Examined[l] \ DOMAIN examined[l]
    /\ examined' = [examined EXCEPT ![l] = Extend(@, p)]
    /\ UNCHANGED <<tree, input, fresh, stage, goals, always, seen, unwritten, lane, before>>

\* Mutant: the touch is joined to the last line by ; and so done in any case.
EndLaneTouching(l) ==
    /\ lane[l] = "running"
    /\ DOMAIN examined[l] = Examined[l]
    /\ lane' = [lane EXCEPT ![l] = "passed"]
    /\ fresh' = fresh \union {l}
    /\ UNCHANGED <<tree, input, stage, goals, always, seen, unwritten, examined, before>>

\* The stamp is touched by the last line of a recipe, which stops at the first line that
\* make sees fail.
EndLane(l) ==
    /\ lane[l] = "running"
    /\ DOMAIN examined[l] = Examined[l]
    /\ \/ /\ Passing(l, examined[l])
          /\ lane' = [lane EXCEPT ![l] = "passed"]
          /\ fresh' = fresh \union {l}
       \/ /\ ~Passing(l, examined[l])
          /\ lane' = [lane EXCEPT ![l] = "failed"]
          /\ UNCHANGED fresh
    /\ UNCHANGED <<tree, input, stage, goals, always, seen, unwritten, examined, before>>

Settled(l) == lane[l] = "passed" \/ (lane[l] = "waiting" /\ ~always /\ l \in fresh)

\* The make ends once every goal is up to date, or no lane runs after one failed.
Finish ==
    /\ stage = "lanes"
    /\ \/ (\A l \in goals : Settled(l)) /\ stage' = "verified"
       \/ /\ \E l \in goals : lane[l] = "failed"
          /\ \A l \in goals : lane[l] # "running"
          /\ stage' = "failed"
    /\ UNCHANGED <<tree, input, fresh, goals, always, seen, unwritten, lane, examined, before>>

\* The make is killed; a recipe that was running has not touched its stamp.
Interrupt ==
    /\ stage \in {"hashing", "writing", "lanes"}
    /\ stage' = "failed"
    /\ lane' = [l \in Lanes |-> IF lane[l] = "running" THEN "failed" ELSE lane[l]]
    /\ UNCHANGED <<tree, input, fresh, goals, always, seen, unwritten, examined, before>>

Targets == {Lanes} \union {{l} : l \in Lanes}

Next ==
    \/ \E p \in Paths : Edit(p) \/ FingerprintPath(p)
    \/ \E wanted \in Targets, all \in BOOLEAN : Start(wanted, all)
    \/ \E l \in Lanes : WriteFingerprint(l) \/ StartLane(l) \/ EndLane(l)
    \/ \E l \in Lanes, p \in Paths : Examine(l, p)
    \/ Refreshed
    \/ Finish
    \/ Interrupt

Spec == Init /\ [][Next]_vars

-----------------------------------------------------------------------------
(* Properties. *)

Reading(paths) == UNION {[s -> Nat] : s \in SUBSET paths}

\* The types of the working tree, the files of make and the state of its process.
TypeOK ==
    /\ tree \in [Paths -> Nat]
    /\ \A l \in Lanes : input[l] = NoInput \/ input[l] \in [Included[l] -> Nat]
    /\ fresh \subseteq Lanes
    /\ stage \in {"idle", "hashing", "writing", "lanes", "verified", "failed"}
    /\ goals \subseteq Lanes
    /\ always \in BOOLEAN
    /\ seen \in Reading(Paths)
    /\ unwritten \subseteq Lanes
    /\ lane \in [Lanes -> {"waiting", "running", "passed", "failed"}]
    /\ \A l \in Lanes : examined[l] \in Reading(Examined[l])
    /\ before \in [Paths -> Nat]

\* A lane that a later `make verify' would skip, its stamp newer than a fingerprint that
\* is still the repository's, would pass on the repository as it is, whatever was edited
\* while fingerprints were taken and lanes ran (Makefile, the stamp rules).  Passing is what
\* make sees of a recipe.
SkippedWouldPass ==
    \A l \in fresh : input[l] = TreeFingerprint(l) => Passing(l, tree)

\* When `make verify' succeeds on a repository that was not edited meanwhile, every lane it
\* was asked for passes on it, run or skipped.  (It does not follow that it rejects drift,
\* docs/RESULTS.md:16: the lane passes in spite of the diffs of Makefile:73 and 87.)
VerifiedWouldPass ==
    stage = "verified" /\ tree = before => \A l \in goals : Passing(l, tree)
=============================================================================
