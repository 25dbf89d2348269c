---------------------------- MODULE Publication ----------------------------
(***************************************************************************)
(* The life of a published task set (release.py and the commands of cli.py *)
(* on it): maintainers propose the set that replaces the active one, run   *)
(* comparisons on both, write a bridge between the two results, and retire *)
(* tasks with a manifest that validate_retirement checks against all of    *)
(* it.  Each command reads its files one after the other and hashes some   *)
(* of them after it has parsed them, while results, bridge and proposal    *)
(* are written again.                                                      *)
(*                                                                         *)
(* The digest of a result is its number in the archive, since two runs of  *)
(* an evaluation never write the same file; the digest of any other        *)
(* document is the document.                                               *)
(***************************************************************************)
EXTENDS TaskSets

CONSTANTS
    FirstSets,      \* the task sets a history may start with
    NextSets,       \* the task sets maintainers may propose
    Campaigns,      \* what one evaluation may bring, but for the task set
    Records,        \* the retirement records maintainers may write
    MaxRecords,     \* bound: records of one manifest
    MaxSets,        \* bound: task sets of one history
    MaxResults      \* bound: results in the archive

ASSUME PublicationAssumption ==
    /\ FirstSets \subseteq TaskSetType
    /\ NextSets \subseteq TaskSetType
    /\ \A c \in Campaigns : c.purpose \in Purposes /\ c \in CampaignType(c.purpose)
    /\ Records \subseteq RecordType
    /\ MaxRecords \in Nat /\ MaxSets \in Nat \ {0} /\ MaxResults \in Nat

VARIABLES
    sets,           \* the task sets made active so far, the last one being active
    proposed,       \* the file of the set that is to follow, or None
    archive,        \* history: every result written, in order
    results,        \* the result files of the active and the proposed set, 0 if missing
    bridge,         \* the bridge file, or None
    writer,         \* the bridge command: what it has read, or None
    validator,      \* the retirement command: what it has read, or None
    accepted        \* history: what each successful retirement was about

vars == <<sets, proposed, archive, results, bridge, writer, validator, accepted>>

None == <<>>
Sides == {"before", "after"}

Active == sets[Len(sets)]
SetOf(side) == IF side = "before" THEN Active ELSE proposed
HaveResults == \A side \in Sides : results[side] # 0

Init ==
    /\ \E s \in FirstSets : sets = <<s>>
    /\ proposed = None
    /\ archive = <<>>
    /\ results = [side \in Sides |-> 0]
    /\ bridge = None
    /\ writer = None
    /\ validator = None
    /\ accepted = <<>>

\* A task set file is validated against its tasks whenever it is read.
Propose(s) ==
    /\ Len(sets) < MaxSets
    /\ s # proposed
    /\ proposed' = s
    /\ UNCHANGED <<sets, archive, results, bridge, writer, validator, accepted>>

\* The command `evaluate' on a new campaign writes the result file of a side.
Evaluate(side, campaign) ==
    /\ Len(archive) < MaxResults
    /\ SetOf(side) # None
    /\ archive' = Append(archive, ResultOf(SetOf(side), campaign))
    /\ results' = [results EXCEPT ![side] = Len(archive')]
    /\ UNCHANGED <<sets, proposed, bridge, writer, validator, accepted>>

-----------------------------------------------------------------------------
(* Both commands parse the two results and then hash their files, in this order. *)

ReadOrder == <<"before", "after", "before", "after">>

\* The next file is read.
Reading(command) ==
    /\ command # None
    /\ Len(command.reads) < Len(ReadOrder)
    /\ HaveResults

NextRead(command) ==
    [command EXCEPT !.reads = Append(@, results[ReadOrder[Len(@) + 1]])]

Parsed(command, side) == archive[command.reads[IF side = "before" THEN 1 ELSE 2]]
Hashed(command, side) == command.reads[IF side = "before" THEN 3 ELSE 4]

\* build_bridge_report, on what a command has read.
Bridges(command) ==
    /\ command # None /\ Len(command.reads) = Len(ReadOrder)
    /\ Bridgeable(Active, command.after, Parsed(command, "before"), Parsed(command, "after"))

Built(command) ==
    BridgeReport(Parsed(command, "before"), Parsed(command, "after"),
                 Hashed(command, "before"), Hashed(command, "after"))

-----------------------------------------------------------------------------
(* The command `bridge'. *)

\* Both task sets are parsed.
StartBridge ==
    /\ writer = None
    /\ proposed # None
    /\ writer' = [after |-> proposed, reads |-> <<>>]
    /\ UNCHANGED <<sets, proposed, archive, results, bridge, validator, accepted>>

BridgeReads ==
    /\ Reading(writer)
    /\ writer' = NextRead(writer)
    /\ UNCHANGED <<sets, proposed, archive, results, bridge, validator, accepted>>

WriteBridge ==
    /\ Bridges(writer)
    /\ bridge' = Built(writer)
    /\ writer' = None
    /\ UNCHANGED <<sets, proposed, archive, results, validator, accepted>>

-----------------------------------------------------------------------------
(* The command `retirement': validate_retirement, step by step.  The manifest is the *)
(* input: it is parsed first, and what it says is used where it is compared.         *)

\* The bridge and both task sets are parsed.
ReadDocuments ==
    /\ validator = None
    /\ bridge # None /\ proposed # None
    /\ validator' = [after |-> proposed, reads |-> <<>>, bridge |-> bridge, named |-> None]
    /\ UNCHANGED <<sets, proposed, archive, results, bridge, writer, accepted>>

\* The bridge file has the digest that the manifest names, before any result is read.
HashBridge ==
    /\ validator # None /\ validator.named = None
    /\ validator' = [validator EXCEPT !.named = bridge]
    /\ UNCHANGED <<sets, proposed, archive, results, bridge, writer, accepted>>

ValidatorReads ==
    /\ Reading(validator)
    /\ validator.named # None
    /\ validator' = NextRead(validator)
    /\ UNCHANGED <<sets, proposed, archive, results, bridge, writer, accepted>>

\* Mutant: the digests of the results are compared, but the bridge is not rebuilt.
RecomputesDigests(v) ==
    /\ Len(v.reads) = Len(ReadOrder)
    /\ Parsed(v, "before").set = Active /\ Parsed(v, "after").set = v.after
    /\ Hashed(v, "before") = v.bridge.beforeResult /\ Hashed(v, "after") = v.bridge.afterResult

\* The result files have the digests that the bridge names, and the bridge is what the
\* parsed results give.
Recomputes(v) == Bridges(v) /\ v.bridge = Built(v)

\* Mutant: the result on the set that takes over goes on as one on the set to follow.
RetireKeepingResult(records) ==
    /\ validator # None
    /\ Recomputes(validator)
    /\ RetirementAccepted(records, Active, validator.after)
    /\ sets' = Append(sets, validator.after)
    /\ accepted' = Append(accepted, [records |-> records, bridge |-> validator.named])
    /\ proposed' = None
    /\ validator' = None
    /\ UNCHANGED <<archive, results, bridge, writer>>

\* The manifest is about these sets and in order: the proposed set takes the place of the
\* active one.
Retire(records) ==
    /\ validator # None
    /\ Recomputes(validator)
    /\ RetirementAccepted(records, Active, validator.after)
    /\ sets' = Append(sets, validator.after)
    /\ accepted' = Append(accepted, [records |-> records, bridge |-> validator.named])
    /\ proposed' = None
    /\ results' = [before |-> results.after, after |-> 0]
    /\ validator' = None
    /\ UNCHANGED <<archive, bridge, writer>>

\* A command raises at whatever step it has reached; nothing is written.
Raise ==
    /\ \/ validator # None /\ validator' = None /\ UNCHANGED writer
       \/ writer # None /\ writer' = None /\ UNCHANGED validator
    /\ UNCHANGED <<sets, proposed, archive, results, bridge, accepted>>

Manifests == {records \in SUBSET Records : Cardinality(records) \in 1..MaxRecords}

Next ==
    \/ \E s \in NextSets : Propose(s)
    \/ \E side \in Sides, campaign \in Campaigns : Evaluate(side, campaign)
    \/ StartBridge \/ BridgeReads \/ WriteBridge
    \/ ReadDocuments \/ HashBridge \/ ValidatorReads
    \/ \E records \in Manifests : Retire(records)
    \/ Raise

Spec == Init /\ [][Next]_vars

-----------------------------------------------------------------------------
(* Properties. *)

\* The types of the files, of what the commands hold and of the histories.
TypeOK ==
    /\ sets \in Seq(TaskSetType) /\ Len(sets) \in 1..MaxSets
    /\ proposed \in {None} \union TaskSetType
    /\ results \in [Sides -> 0..Len(archive)]
    /\ Len(accepted) = Len(sets) - 1
    /\ proposed = None => results["after"] = 0

Published(n) == UNION {{<<r.retired, r.digest, r.source>> : r \in accepted[k].records} : k \in n..Len(accepted)}

\* Over any number of retirements, a task of an earlier set that is not in the active one
\* has been published with the provenance and license of its own contract, by a
\* retirement after that set (validate_retirement_models).
RemovedIsPublished ==
    \A n \in 1..Len(sets) : \A t \in Identities(sets[n]) \ Identities(Active) :
        <<t[1], t[2], SourceOf[t]>> \in Published(n)

\* The results that the bridge of a successful retirement names by digest are comparison
\* results on exactly the sets it bridges, on the same terms, with nothing but evidence
\* about the agent and unchanged pins for unchanged tasks, although both commands hash
\* their files after they have parsed them.
RetiredIsCompared ==
    \A n \in 1..Len(accepted) :
        LET b == accepted[n].bridge
        IN  Bridgeable(sets[n], sets[n + 1], archive[b.beforeResult], archive[b.afterResult])

\* docs/RESULTS.md: only a major release may preserve a task ID while it replaces its
\* digest; every other reason requires a new task ID.  So a task whose id goes on with
\* another digest was retired for a major release.
StableIdsNeedMajorRelease ==
    \A n \in 1..Len(accepted) : \A r \in accepted[n].records :
        r.retired \in DOMAIN sets[n + 1].tasks => r.reason = "major_task_set_release"
=============================================================================
