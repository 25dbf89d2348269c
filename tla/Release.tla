------------------------------ MODULE Release ------------------------------
(***************************************************************************)
(* The way to a release: maintainers edit and seal tasks, collect reviews, *)
(* expert runs and audits in the evidence manifest, score and sign the     *)
(* reference results and bind their files, while audit_release             *)
(* (calibration.py) reads all of that, one document after the other, and   *)
(* sign_reference_attestation and verify_reference_attestation             *)
(* (release.py) parse two files and hash them afterwards.                  *)
(*                                                                         *)
(* The digest of a document is the document; evaluations and results carry *)
(* the number of their edition, so that no two of them are the same.       *)
(***************************************************************************)
EXTENDS Readiness, Sequences

CONSTANTS
    Entries,        \* the tasks in the order of the task set
    Signers,        \* principals with a key
    Schedules,      \* (task, pair, seed) lists of a comparison
    Auditors,       \* the audits maintainers may record
    Reviews,        \* the reviews they may record
    Experts,        \* the expert runs they may record
    InitialFiles(_),        \* reference files a history may start with, given the contracts
    InitialEvidence(_, _),  \* manifests it may start with, given the contracts and the files
    MaxWork         \* bound: steps of the maintainers, but for signing and verifying

VARIABLES
    contract,       \* the live contract of every task, by digest
    taskSet,        \* the task set file: the contracts it has sealed
    evidence,       \* the evidence manifest
    files,          \* reference files of each configuration
    allowed,        \* the file of allowed signers
    command,        \* a sign or verify command, or None
    auditor,        \* what an audit has read, or None
    raced,          \* history: configurations with a file rewritten since the audit resolved it
    report,         \* the readiness report just written, with what it rests on, or None
    work            \* steps the maintainers have taken

maintained == <<contract, taskSet, evidence, files, allowed>>
vars == <<maintained, command, auditor, raced, report, work>>

None == <<>>

\* What a result is worth: only a maintainer's result on comparable trials is signed.
Worths == {"comparable", "not_comparable"}

EvaluationType == [edition: Nat, tasks: [Tasks -> Digests], schedule: Schedules]
ResultType == [edition: Nat, evaluation: Nat, worth: Worths]
StatementType == [evaluation: EvaluationType, result: ResultType]
AttestationType == [statement: StatementType, signer: Signers]
VerificationType == [attestation: AttestationType, signer: Signers]

\* The five documents of a comparison; those that were not made yet are None.
Kinds == {"evaluation", "result", "attestation", "verification"}

FilesOk(f) ==
    /\ DOMAIN f = Kinds
    /\ f.evaluation \in {None} \union EvaluationType
    /\ f.result \in {None} \union ResultType
    /\ f.attestation \in {None} \union AttestationType
    /\ f.verification \in {None} \union VerificationType

InitialContracts == {k \in [Tasks -> Digests] : \A t \in Tasks : k[t] \in ContractsOf[t]}

\* ReleaseEvidenceManifest, but for what no gate counts.
EvidenceFields ==
    {"stage", "tasks", "reviews", "experts", "audits", "materials", "heldOut", "comparisons"}

ASSUME ReleaseAssumption ==
    /\ Entries \in Seq(Tasks) /\ {Entries[n] : n \in 1..Len(Entries)} = Tasks
    /\ Reviews \subseteq ReviewType /\ Experts \subseteq ExpertType
    /\ Auditors \subseteq AuditType
    /\ MaxWork \in Nat
    /\ \A k \in InitialContracts : \A fs \in InitialFiles(k) :
         /\ DOMAIN fs = Configurations /\ \A c \in Configurations : FilesOk(fs[c])
         /\ \A e \in InitialEvidence(k, fs) :
              /\ DOMAIN e = EvidenceFields
              /\ e.reviews \subseteq ReviewType /\ e.experts \subseteq ExpertType
              /\ e.audits \subseteq AuditType
              /\ DOMAIN e.comparisons \subseteq Configurations
              /\ WellFormed(e)

Init ==
    /\ contract \in InitialContracts
    /\ taskSet = contract
    /\ files \in InitialFiles(contract)
    /\ allowed = Signers
    /\ evidence \in InitialEvidence(contract, files)
    /\ command = None
    /\ auditor = None
    /\ raced = {}
    /\ report = None
    /\ work = 0

-----------------------------------------------------------------------------
(* The maintainers. *)

Works ==
    /\ work < MaxWork
    /\ work' = work + 1
    /\ report' = None
    /\ UNCHANGED auditor

\* A step on the tasks or on the manifest.
OnPaper == Works /\ UNCHANGED <<files, allowed, command, raced>>

EditTask(t, k) ==
    /\ OnPaper
    /\ contract' = [contract EXCEPT ![t] = k]
    /\ UNCHANGED <<taskSet, evidence>>

SealTaskSet ==
    /\ OnPaper
    /\ taskSet' = contract
    /\ UNCHANGED <<contract, evidence>>

Record(e) == OnPaper /\ evidence' = e /\ UNCHANGED <<contract, taskSet>>

BindTaskSet == Record([evidence EXCEPT !.tasks = taskSet])

\* A reviewer's later word on a task takes the place of the earlier one.
AddReview(r) ==
    Record([evidence EXCEPT !.reviews =
        {q \in @ : q.task # r.task \/ q.reviewer # r.reviewer} \union {r}])

AddExpert(x) == Record([evidence EXCEPT !.experts = @ \union {x}])

AddAudit(a) == Record([evidence EXCEPT !.audits = {b \in @ : b.kind # a.kind} \union {a}])

DiscloseHeldOut ==
    Record([evidence EXCEPT !.heldOut = [status |-> "active_private", disclosed |-> TRUE]])

Complete(f) == \A kind \in Kinds : f[kind] # None

BindComparison(c) ==
    /\ Complete(files[c])
    /\ Record([evidence EXCEPT !.comparisons =
           [d \in DOMAIN @ \union {c} |->
               IF d = c THEN [files |-> files[c], signers |-> allowed] ELSE @[d]]])

\* A step on the reference files.  Everything bound is resolved by an audit when it comes to
\* the configuration, and read again after that.
Resolved(c) == auditor # None /\ (c \in auditor.compared \/ (auditor.step > 0 /\ auditor.at = c))

Writes(c, kind, document) ==
    /\ files' = [files EXCEPT ![c][kind] = document]
    /\ raced' = IF Resolved(c) THEN raced \union {c} ELSE raced
    /\ UNCHANGED <<contract, taskSet, evidence, allowed>>

\* The operator's new campaign, on the sealed tasks: build_reference_evaluation.
BindRuns(c, schedule) ==
    /\ Works
    /\ Writes(c, "evaluation", [edition |-> work', tasks |-> taskSet, schedule |-> schedule])
    /\ UNCHANGED command

\* compute_evaluation.
Score(c, worth) ==
    /\ files[c].evaluation # None
    /\ Works
    /\ Writes(c, "result",
              [edition |-> work', evaluation |-> files[c].evaluation.edition, worth |-> worth])
    /\ UNCHANGED command

Revoke(p) ==
    /\ Works
    /\ allowed' = allowed \ {p}
    /\ raced' = IF auditor = None THEN raced
                ELSE raced \union {c \in Configurations : Resolved(c)}
    /\ UNCHANGED <<contract, taskSet, evidence, files, command>>

-----------------------------------------------------------------------------
(* build_attestation_statement: the documents are parsed and compared, and then hashed. *)

Attestable(f) ==
    /\ f.evaluation # None /\ f.result # None
    /\ f.result.worth = "comparable"
    /\ f.result.evaluation = f.evaluation.edition

Statement(f) == [evaluation |-> f.evaluation, result |-> f.result]

\* Mutant: the attestation is not compared with the statement that the files give.
AttestedAsSigned(attestation, signers, f) == attestation.signer \in signers

\* verify_reference_attestation.  ssh-keygen accepts what an allowed signer signed.
Attested(attestation, signers, f) ==
    attestation.statement = Statement(f) /\ attestation.signer \in signers

Verification(attestation) == [attestation |-> attestation, signer |-> attestation.signer]

\* The commands of cli.py: both build the statement, of which the first half parses.
StartCommand(name, c, p) ==
    /\ command = None
    /\ Attestable(files[c])
    /\ name = "verify" => files[c].attestation # None
    /\ command' = [name |-> name, at |-> c, signer |-> p]
    /\ report' = None
    /\ UNCHANGED <<maintained, auditor, raced, work>>

\* The digests of the two files, whatever they are by now, are signed.
Sign ==
    /\ command # None /\ command.name = "sign"
    /\ Writes(command.at, "attestation",
              [statement |-> Statement(files[command.at]), signer |-> command.signer])
    /\ command' = None
    /\ report' = None
    /\ UNCHANGED <<auditor, work>>

Verify ==
    /\ command # None /\ command.name = "verify"
    /\ LET f == files[command.at]
       IN  /\ Attested(f.attestation, allowed, f)
           /\ Writes(command.at, "verification", Verification(f.attestation))
    /\ command' = None
    /\ report' = None
    /\ UNCHANGED <<auditor, work>>

\* A command raises; it has written nothing.
RaiseCommand ==
    /\ command # None
    /\ command' = None
    /\ report' = None
    /\ UNCHANGED <<maintained, auditor, raced, work>>

-----------------------------------------------------------------------------
(* audit_release. *)

Reads(reader) ==
    /\ auditor' = reader
    /\ report' = None
    /\ UNCHANGED <<maintained, command, raced, work>>

\* The manifest is parsed; it is used as it was then, to the end.
StartAudit ==
    /\ auditor = None
    /\ auditor' = [evidence |-> evidence, resolved |-> FALSE, tasks |-> None, validated |-> 0,
                   read |-> 0, compared |-> {}, schedules |-> {}, at |-> None, step |-> 0]
    /\ report' = None
    /\ UNCHANGED <<maintained, command, raced, work>>

\* _resolve_bound: the task set file has the bound digest.
ResolveTaskSet ==
    /\ auditor # None /\ ~auditor.resolved
    /\ taskSet = auditor.evidence.tasks
    /\ Reads([auditor EXCEPT !.resolved = TRUE])

\* validate_task_set parses it, as it is by now, and then the contract of each of its tasks,
\* which has the digest that the task set has sealed.
ParseTaskSet ==
    /\ auditor # None /\ auditor.resolved /\ auditor.tasks = None
    /\ Reads([auditor EXCEPT !.tasks = taskSet])

Sealed(n) == contract[Entries[n]] = auditor.tasks[Entries[n]]

ValidateContract ==
    /\ auditor # None /\ auditor.tasks # None
    /\ auditor.validated < Len(Entries)
    /\ Sealed(auditor.validated + 1)
    /\ Reads([auditor EXCEPT !.validated = @ + 1])

\* _task_contracts does so once more, and what it parses is what the gates are about.
ReadContract ==
    /\ auditor # None /\ auditor.tasks # None
    /\ auditor.validated = Len(Entries) /\ auditor.read < Len(Entries)
    /\ Sealed(auditor.read + 1)
    /\ Reads([auditor EXCEPT !.read = @ + 1])

\* The reviews and expert runs of the manifest are in order; nothing is read for that.
Prepared ==
    /\ auditor # None /\ auditor.tasks # None
    /\ auditor.read = Len(Entries)
    /\ InOrder(auditor.evidence, auditor.tasks)

Bound(c) == auditor.evidence.comparisons[c]

\* _resolve_bound on the five documents of the next comparison.
Resolve(c) ==
    /\ Prepared /\ auditor.step = 0
    /\ c \in (DOMAIN auditor.evidence.comparisons) \ auditor.compared
    /\ files[c] = Bound(c).files /\ allowed = Bound(c).signers
    /\ Reads([auditor EXCEPT !.at = c, !.step = 1])

\* _validate_reference_comparison parses the evaluation, the result and the verification
\* from their paths, and so does build_attestation_statement once more.
ParseComparison ==
    /\ auditor # None /\ auditor.step = 1
    /\ LET f == files[auditor.at]
       IN  /\ f.evaluation.tasks = auditor.tasks
           /\ Attestable(f)
           /\ Reads([auditor EXCEPT !.step = 2, !.schedules = @ \union {f.evaluation.schedule}])

\* The statement of the files, as they are hashed, is the one attested, the recorded
\* verification is the computed one, and the schedule is that of the other comparisons.
VerifyComparison ==
    /\ auditor # None /\ auditor.step = 2
    /\ LET f == files[auditor.at]
       IN  /\ Attested(f.attestation, allowed, f)
           /\ f.verification = Verification(f.attestation)
    /\ Cardinality(auditor.schedules) = 1
    /\ Reads([auditor EXCEPT !.compared = @ \union {auditor.at}, !.at = None, !.step = 0])

\* The gates are assessed; a stable release with a blocker raises.
Conclude ==
    /\ Prepared
    /\ auditor.compared = DOMAIN auditor.evidence.comparisons
    /\ LET blockers == Blockers(auditor.evidence, auditor.tasks, auditor.compared)
       IN  /\ auditor.evidence.stage = "stable" => blockers = {}
           /\ report' = [evidence |-> auditor.evidence, tasks |-> auditor.tasks,
                         blockers |-> blockers, raced |-> raced]
    /\ auditor' = None
    /\ raced' = {}
    /\ UNCHANGED <<maintained, command, work>>

\* The audit raises.
RaiseAudit ==
    /\ auditor # None
    /\ auditor' = None
    /\ raced' = {} /\ report' = None
    /\ UNCHANGED <<maintained, command, work>>

Maintain ==
    \/ \E t \in Tasks : \E k \in ContractsOf[t] \ {contract[t]} : EditTask(t, k)
    \/ SealTaskSet
    \/ BindTaskSet
    \/ \E r \in Reviews : AddReview(r)
    \/ \E x \in Experts : AddExpert(x)
    \/ \E a \in Auditors : AddAudit(a)
    \/ DiscloseHeldOut
    \/ \E c \in Configurations : BindComparison(c)
    \/ \E c \in Configurations, schedule \in Schedules : BindRuns(c, schedule)
    \/ \E c \in Configurations, worth \in Worths : Score(c, worth)
    \/ \E p \in Signers : Revoke(p)

Next ==
    \/ Maintain
    \/ \E name \in {"sign", "verify"}, c \in Configurations, p \in Signers :
           StartCommand(name, c, p)
    \/ Sign \/ Verify \/ RaiseCommand
    \/ StartAudit \/ ResolveTaskSet \/ ParseTaskSet
    \/ ValidateContract \/ ReadContract
    \/ \E c \in Configurations : Resolve(c)
    \/ ParseComparison \/ VerifyComparison
    \/ Conclude \/ RaiseAudit

Spec == Init /\ [][Next]_vars

-----------------------------------------------------------------------------
(* Properties. *)

\* The types of the documents, of what the processes hold and of the histories.
TypeOK ==
    /\ \A t \in Tasks : contract[t] \in ContractsOf[t]
    /\ \A c \in Configurations : FilesOk(files[c])
    /\ allowed \subseteq Signers
    /\ WellFormed(evidence)
    /\ DOMAIN evidence.comparisons \subseteq Configurations
    /\ auditor # None => auditor.compared \subseteq DOMAIN auditor.evidence.comparisons
    /\ raced \subseteq Configurations
    /\ work \in 0..MaxWork

Compared == DOMAIN report.evidence.comparisons

\* Whatever moved while a signature was made or while the audit read, the references of a
\* report whose files stood still since they were resolved are comparable results of one
\* schedule on the report's tasks, and a signer allowed by the bound file signed a
\* statement of exactly the bound evaluation and result.
ReferencesAreSigned ==
    report # None =>
        /\ \A c \in Compared \ report.raced :
             LET b == report.evidence.comparisons[c]
             IN  /\ b.files.attestation.statement = Statement(b.files)
                 /\ b.files.attestation.signer \in b.signers
                 /\ b.files.result.worth = "comparable"
                 /\ b.files.result.evaluation = b.files.evaluation.edition
                 /\ b.files.evaluation.tasks = report.tasks
        /\ \A c, d \in Compared \ report.raced :
             report.evidence.comparisons[c].files.evaluation.schedule =
                 report.evidence.comparisons[d].files.evaluation.schedule

\* A report that is eligible for a stable release rests on an accepted review of every task
\* by somebody else than its owner, of the very contract that the report's task set has
\* sealed, which is admitted and approved, however tasks are edited between the review,
\* the sealing and the audit.
StableIsReviewed ==
    report # None /\ report.blockers = {} =>
        \A t \in Tasks :
            /\ Contract[report.tasks[t]].approved /\ Contract[report.tasks[t]].admitted
            /\ \E r \in report.evidence.reviews :
                 /\ r.task = t /\ r.decision = "accepted"
                 /\ r.digest = report.tasks[t]
                 /\ r.reviewer # Contract[report.tasks[t]].owner

\* One objection of a reviewer or an expert, or one audit of any kind that failed or was
\* not independent, blocks a stable release, whatever else the manifest records.
ObjectionsBlock ==
    report # None /\ report.blockers = {} =>
        /\ \A d \in report.evidence.reviews \union report.evidence.experts :
             d.decision = "accepted"
        /\ \A a \in report.evidence.audits : ~Adverse(a)

\* Evidence in favour is recorded, about the tasks as they are sealed, by others than their
\* owners and, of an expert, in a category of the release; the rest of the manifest stays.
Supports(e, f, k) ==
    /\ e # f
    /\ e.reviews \subseteq f.reviews
    /\ \A r \in f.reviews \ e.reviews : r.decision = "accepted" /\ ReviewInOrder(r, k)
    /\ e.experts \subseteq f.experts
    /\ \A x \in f.experts \ e.experts :
          /\ x.decision = "accepted" /\ ExpertInOrder(x, k)
          /\ Contract[k[x.task]].category \in ReleaseCategories
    /\ e.audits \subseteq f.audits /\ \A a \in f.audits \ e.audits : ~Adverse(a)
    /\ e.materials = f.materials /\ e.heldOut = f.heldOut
    /\ DOMAIN e.comparisons \subseteq DOMAIN f.comparisons

\* No such evidence, of whatever kind and however much of it there is already, closes a gate
\* that was open, or makes audit_release refuse a manifest that was in order, but for what
\* it asks of a comparison.
SupportNeverBlocks ==
    [][Supports(evidence, evidence', taskSet) =>
           /\ InOrder(evidence, taskSet) => InOrder(evidence', taskSet)
           /\ Blockers(evidence', taskSet, DOMAIN evidence'.comparisons) \subseteq
                  Blockers(evidence, taskSet, DOMAIN evidence.comparisons)]_evidence
=============================================================================
