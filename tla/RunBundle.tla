----------------------------- MODULE RunBundle -----------------------------
(***************************************************************************)
(* execute_run (src/src/slopbench/runner.py) around the trial that Trial   *)
(* models: processes that share an output root and a live task directory.  *)
(* A process validates the live task, claims output_root / run_id, copies  *)
(* the task below it file by file, checks the copy, runs Harbor on it and  *)
(* publishes result.json.  Meanwhile somebody edits the live task, other   *)
(* processes run manifests with the same run id, and any of them may be    *)
(* killed between two steps.  Nothing is ever removed.                     *)
(*                                                                         *)
(* A path of the task holds the bytes that every manifest pins, or others: *)
(* a tree has the pinned contract digest, task digest and Harbor checksum  *)
(* exactly when every path of it, the contract's included, is "pinned".    *)
(***************************************************************************)
EXTENDS Naturals, FiniteSets

CONSTANTS
    Runs,           \* processes in execute_run
    RunIds,         \* names below the output root
    RunId,          \* the run_id of each process's manifest
    Paths,          \* files of the task, with its contract
    MaxEdits        \* bound: edits of the live task

ASSUME RunIdAssumption == RunId \in [Runs -> RunIds] /\ MaxEdits \in Nat

VARIABLES
    live,           \* the task directory
    edits,          \* edits so far
    pc,             \* where each process is
    validated,      \* the live paths each process has compared with its pins
    dir             \* output_root / run_id: NoDir, or what is in it

vars == <<live, edits, pc, validated, dir>>

Bytes == {"pinned", "edited"}
Steps == {"validating", "claiming", "absent", "claimed", "copying", "frozen",
          "harbor", "finalizing", "written", "done", "raised", "killed"}
Stopped == {"done", "raised", "killed"}

NoDir == [exists |-> FALSE]
NoRun == "no run"
Torn == "torn"   \* a result.json half written

\* mkdir leaves an empty directory.
EmptyDir == [exists |-> TRUE, manifest |-> NoRun, snapshot |-> <<>>, result |-> NoRun]

Init ==
    /\ live = [p \in Paths |-> "pinned"]
    /\ edits = 0
    /\ pc = [r \in Runs |-> "validating"]
    /\ validated = [r \in Runs |-> {}]
    /\ dir = [d \in RunIds |-> NoDir]

Go(r, from, to) == pc[r] = from /\ pc' = [pc EXCEPT ![r] = to]

Bundle(r) == dir[RunId[r]]

-----------------------------------------------------------------------------
(* One process. *)

\* validate_task and _validate_run_binding read the live task path by path.
Validate(r, p) ==
    /\ p \notin validated[r]
    /\ validated' = [validated EXCEPT ![r] = @ \union {p}]
    /\ Go(r, "validating", IF live[p] # "pinned" THEN "raised"
                           ELSE IF validated'[r] = Paths THEN "claiming"
                           ELSE "validating")
    /\ UNCHANGED <<live, edits, dir>>

\* bundle_dir.exists()
Look(r) ==
    /\ Go(r, "claiming", IF Bundle(r).exists THEN "raised" ELSE "absent")
    /\ UNCHANGED <<live, edits, validated, dir>>

\* Mutant: mkdir with exist_ok.
ClaimShared(r) ==
    /\ Go(r, "absent", "claimed")
    /\ dir' = [dir EXCEPT ![RunId[r]] = IF @.exists THEN @ ELSE EmptyDir]
    /\ UNCHANGED <<live, edits, validated>>

\* bundle_dir.mkdir: raises when another process was faster.
Claim(r) ==
    /\ Go(r, "absent", IF Bundle(r).exists THEN "raised" ELSE "claimed")
    /\ dir' = IF Bundle(r).exists THEN dir ELSE [dir EXCEPT ![RunId[r]] = EmptyDir]
    /\ UNCHANGED <<live, edits, validated>>

\* The manifest's bytes as read before it was validated.
CopyManifest(r) ==
    /\ Go(r, "claimed", "copying")
    /\ dir' = [dir EXCEPT ![RunId[r]].manifest = r]
    /\ UNCHANGED <<live, edits, validated>>

\* shutil.copytree, one path of the live task after the other.
CopyPath(r, p) ==
    /\ pc[r] = "copying"
    /\ p \notin DOMAIN Bundle(r).snapshot
    /\ dir' = [dir EXCEPT ![RunId[r]].snapshot =
                  [q \in DOMAIN @ \union {p} |-> IF q = p THEN live[p] ELSE @[q]]]
    /\ UNCHANGED <<live, edits, pc, validated>>

\* Mutant: _snapshot_task trusts the validation of the live task.
FreezeUnchecked(r) ==
    /\ pc[r] = "copying" /\ DOMAIN Bundle(r).snapshot = Paths
    /\ Go(r, "copying", "frozen")
    /\ UNCHANGED <<live, edits, validated, dir>>

\* The rest of _snapshot_task: the copy against the pins, then read-only.
Freeze(r) ==
    /\ pc[r] = "copying" /\ DOMAIN Bundle(r).snapshot = Paths
    /\ Go(r, "copying", IF \A p \in Paths : Bundle(r).snapshot[p] = "pinned"
                        THEN "frozen" ELSE "raised")
    /\ UNCHANGED <<live, edits, validated, dir>>

\* _harbor_config and _process_environment may still raise, with the directory in place.
StartHarbor(r) ==
    /\ \E next \in {"harbor", "raised"} : Go(r, "frozen", next)
    /\ UNCHANGED <<live, edits, validated, dir>>

\* The subprocess returns, with any exit code.
HarborReturns(r) ==
    /\ Go(r, "harbor", "finalizing")
    /\ UNCHANGED <<live, edits, validated, dir>>

\* Mutant: result.json is written in place.
FinalizeInPlace(r) ==
    /\ Go(r, "finalizing", "written")
    /\ dir' = [dir EXCEPT ![RunId[r]].result = Torn]
    /\ UNCHANGED <<live, edits, validated>>

\* _finalize raises (Trial's "lost"), or write_model has filled its temporary file.
Finalize(r) ==
    /\ \E next \in {"written", "raised"} : Go(r, "finalizing", next)
    /\ UNCHANGED <<live, edits, validated, dir>>

\* os.replace.
Publish(r) ==
    /\ Go(r, "written", "done")
    /\ dir' = [dir EXCEPT ![RunId[r]].result = r]
    /\ UNCHANGED <<live, edits, validated>>

\* The process dies.
Kill(r) ==
    /\ pc[r] \notin Stopped
    /\ pc' = [pc EXCEPT ![r] = "killed"]
    /\ UNCHANGED <<live, edits, validated, dir>>

\* Whoever maintains the task, back to the pinned bytes too.
Edit(p) ==
    /\ edits < MaxEdits
    /\ edits' = edits + 1
    /\ \E bytes \in Bytes \ {live[p]} : live' = [live EXCEPT ![p] = bytes]
    /\ UNCHANGED <<pc, validated, dir>>

Next ==
    \/ \E r \in Runs : \/ \E p \in Paths : Validate(r, p) \/ CopyPath(r, p)
                       \/ Look(r) \/ Claim(r) \/ CopyManifest(r) \/ Freeze(r)
                       \/ StartHarbor(r) \/ HarborReturns(r)
                       \/ Finalize(r) \/ Publish(r) \/ Kill(r)
    \/ \E p \in Paths : Edit(p)

Spec == Init /\ [][Next]_vars

-----------------------------------------------------------------------------
(* Properties. *)

\* Where a process has a checked copy of the task.
Judging == {"frozen", "harbor", "finalizing", "written", "done"}

DirType ==
    [exists: {TRUE}, manifest: Runs \union {NoRun}, result: Runs \union {NoRun},
     snapshot: UNION {[paths -> Bytes] : paths \in SUBSET Paths}]

\* Every variable keeps its type, and a result.json is never torn (write_model).
TypeOK ==
    /\ live \in [Paths -> Bytes] /\ edits \in 0..MaxEdits
    /\ pc \in [Runs -> Steps]
    /\ validated \in [Runs -> SUBSET Paths]
    /\ dir \in [RunIds -> {NoDir} \union DirType]

\* Harbor runs on, and the result speaks of, exactly the task the manifest pins, however
\* the live task is edited while it is validated and copied (_snapshot_task).
HarborRunsThePinnedTask ==
    \A r \in Runs : pc[r] \in Judging =>
        Bundle(r).snapshot = [p \in Paths |-> "pinned"]

\* Two processes with one run id never share its bundle: from its manifest to its result
\* a bundle is the work of one process, though both may have found no directory there
\* (execute_run).
BundleIsOneRuns ==
    /\ \A r \in Runs : pc[r] \in {"copying"} \union Judging => Bundle(r).manifest = r
    /\ \A d \in RunIds : dir[d].exists /\ dir[d].result # NoRun =>
          dir[d].result = dir[d].manifest

\* What a reader of result.json sees once is what every later reader sees: no step of any
\* process replaces it, and a killed process leaves none (execute_run, write_model).
ResultsAreFinal ==
    [][\A d \in RunIds :
          /\ dir[d].exists => dir'[d].exists
          /\ dir[d].exists /\ dir[d].result # NoRun => dir'[d] = dir[d]]_vars
=============================================================================
