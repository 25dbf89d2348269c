------------------------------ MODULE TaskSets ------------------------------
(***************************************************************************)
(* Published task sets, the comparison results on them, and what release.py*)
(* concludes from two results: a bridge between their sets, and whether a  *)
(* retirement manifest accounts for the difference.                        *)
(*                                                                         *)
(* A task is known by its identity, an id and a digest; its category, and  *)
(* its provenance and license (its source), are part of the sealed         *)
(* contract that has the digest.  Digests of documents are the documents.  *)
(***************************************************************************)
EXTENDS Integers, FiniteSets, Sequences

CONSTANTS
    Ids, Digests,       \* of tasks
    Categories,         \* CapabilityCategory
    CategoryOf,         \* [Ids \X Digests -> Categories]
    Sources, SourceOf,  \* provenance and license, [Ids \X Digests -> Sources]
    Terms,              \* profile and reference configuration of a result
    Pins                \* task binding, instruction layers, runtime and limits of trials

ASSUME TaskSetsAssumption ==
    /\ IsFiniteSet(Ids)
    /\ CategoryOf \in [Ids \X Digests -> Categories]
    /\ SourceOf \in [Ids \X Digests -> Sources]

-----------------------------------------------------------------------------
(* Task sets. *)

Visibilities == {"public", "held_out_active", "retired"}

\* A digest for every task id in the set; ids are unique, and there is one at least.
TaskLists == UNION {[ids -> Digests] : ids \in SUBSET Ids \ {{}}}

TaskSetType == [visibility: Visibilities, tasks: TaskLists]

Identities(set) == {<<id, set.tasks[id]>> : id \in DOMAIN set.tasks}

InCategory(set, c) == {t \in Identities(set) : CategoryOf[t] = c}

\* coverage_snapshot.
Coverage(set) == [c \in Categories |-> Cardinality(InCategory(set, c))]

-----------------------------------------------------------------------------
(* Evaluation results, as EvaluationResult accepts them. *)

Origins == {"external", "maintainer"}

Purposes == {"smoke", "calibration", "comparison"}

TrialCount(purpose) ==
    CASE purpose = "smoke" -> 1
      [] purpose = "calibration" -> 3
      [] purpose = "comparison" -> 5

\* What a trial says: it passed; the agent failed it; it says nothing about the agent,
\* whatever gates it carries.
Outcomes == {"pass", "failure", "excluded"}

\* Trials of one task share its pins; the trials cover the set of tasks exactly.
ResultOf(set, campaign) ==
    [set |-> set,
     purpose |-> campaign.purpose,
     terms |-> campaign.terms,
     origin |-> campaign.origin,
     pins |-> [id \in DOMAIN set.tasks |-> campaign.pins[id]],
     trials |-> [id \in DOMAIN set.tasks |-> campaign.trials[id]]]

Vectors(purpose) == [1..TrialCount(purpose) -> Outcomes]

CampaignType(purpose) ==
    [purpose: {purpose}, terms: Terms, origin: Origins,
     pins: [Ids -> Pins], trials: [Ids -> Vectors(purpose)]]

\* _validate_comparable_trials.
ComparableTrials(result) ==
    \A id \in DOMAIN result.trials :
        \A i \in DOMAIN result.trials[id] : result.trials[id][i] # "excluded"

\* _validate_result_task_set and the binding before it.
OnTaskSet(result, set) == result.set = set /\ ComparableTrials(result)

-----------------------------------------------------------------------------
(* build_bridge_report. *)

Unchanged(before, after) == Identities(before.set) \intersect Identities(after.set)

SamePins(before, after) ==
    \A t \in Unchanged(before, after) : before.pins[t[1]] = after.pins[t[1]]

Bridgeable(beforeSet, afterSet, before, after) ==
    /\ before.purpose = "comparison" /\ after.purpose = "comparison"
    /\ before.terms = after.terms /\ before.origin = after.origin
    /\ OnTaskSet(before, beforeSet)
    /\ OnTaskSet(after, afterSet)
    /\ SamePins(before, after)
    /\ beforeSet # afterSet

\* The report names the results by digest: what it was computed from and what it names
\* are read at different moments.
BridgeReport(before, after, beforeDigest, afterDigest) ==
    [beforeSet |-> before.set, afterSet |-> after.set, terms |-> before.terms,
     beforeResult |-> beforeDigest, afterResult |-> afterDigest]

-----------------------------------------------------------------------------
(* validate_retirement_models. *)

Reasons == {"leakage", "verifier_weakness", "dependency_rot", "major_task_set_release"}

RecordType ==
    [retired: Ids, digest: Digests, reason: Reasons, replacement: Ids,
     replacementDigest: Digests, source: Sources]

Removed(before, after) ==
    {id \in DOMAIN before.tasks :
        id \in DOMAIN after.tasks => after.tasks[id] # before.tasks[id]}

\* RetirementManifest.unique_retirements.
UniqueRecords(records) ==
    \A r, q \in records :
        r # q => r.retired # q.retired /\ r.replacement # q.replacement

KeepsCoverage(before, after) ==
    \A c \in Categories : Coverage(after)[c] >= Coverage(before)[c]

CoversRemoved(records, before, after) ==
    {r.retired : r \in records} = Removed(before, after)

\* Mutant: the publication is not compared with the retired contract.
RecordAcceptedUnsourced(r, before, after) ==
    LET retired == <<r.retired, r.digest>>
        replacement == <<r.replacement, r.replacementDigest>>
    IN  /\ retired \in Identities(before)
        /\ replacement \in Identities(after) \ Identities(before)
        /\ r.replacement = r.retired => r.reason = "major_task_set_release"
        /\ CategoryOf[replacement] = CategoryOf[retired]

RecordAccepted(r, before, after) ==
    LET retired == <<r.retired, r.digest>>
        replacement == <<r.replacement, r.replacementDigest>>
    IN  /\ retired \in Identities(before)
        /\ replacement \in Identities(after) \ Identities(before)
        /\ r.replacement = r.retired => r.reason = "major_task_set_release"
        /\ CategoryOf[replacement] = CategoryOf[retired]
        /\ r.source = SourceOf[retired]

RetirementAccepted(records, before, after) ==
    /\ records # {} /\ UniqueRecords(records)
    /\ KeepsCoverage(before, after)
    /\ CoversRemoved(records, before, after)
    /\ \A r \in records : RecordAccepted(r, before, after)
=============================================================================
