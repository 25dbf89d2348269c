------------------------------ MODULE Readiness ------------------------------
(***************************************************************************)
(* What calibration.py (audit_release) concludes from the contracts of the *)
(* tasks and from the evidence manifest: which manifests it refuses, and a *)
(* status for each of the release gates.                                   *)
(*                                                                         *)
(* A task is known by the digest of its contract, which names its owner    *)
(* and carries the owner's approval.  The numbers 6, 2 and 12 of the corpus*)
(* are parameters; so are the names it requires.                           *)
(***************************************************************************)
EXTENDS Integers, FiniteSets

CONSTANTS
    Tasks, People, AttackKinds,
    ContractsOf,            \* digests of the contracts each task may have, one at a time
    Contract,               \* the contract that has a digest
    Categories,             \* CapabilityCategory
    ReleaseCategories,      \* _RELEASE_CATEGORIES: all of them but tracer
    CategoryShare,          \* tasks of each category
    TracerAttacks,          \* attack kinds of the tracer task's fixtures
    Configurations,         \* bound reference configurations
    HarnessOf, Primary,     \* their harnesses, and the primary one of them
    RequiredHarnesses,      \* _REQUIRED_HARNESSES
    CommonHarness,          \* the configuration included as a common harness, or "omitted"
    RequiredMaterials,      \* _REQUIRED_PUBLIC_MATERIALS and _REQUIRED_PROFILES
    RequiredAudits          \* every AuditKind but HeldOutExecution

HeldOutExecution == "held_out_execution"
AuditKinds == RequiredAudits \union {HeldOutExecution}

Decisions == {"accepted", "changes_requested"}

ContractType ==
    [owner: People, category: Categories, patch: BOOLEAN,
     sequential: BOOLEAN, admitted: BOOLEAN, approved: BOOLEAN, mit: BOOLEAN,
     attacks: SUBSET AttackKinds]

Digests == UNION {ContractsOf[t] : t \in Tasks}

ASSUME ReadinessAssumption ==
    /\ \A t \in Tasks : ContractsOf[t] # {}
    /\ Contract \in [Digests -> ContractType]
    /\ ReleaseCategories \subseteq Categories
    /\ Primary \in Configurations
    /\ HeldOutExecution \notin RequiredAudits
    /\ CategoryShare \in Nat

-----------------------------------------------------------------------------
(* The evidence manifest. *)

ReviewType == [task: Tasks, digest: Digests, reviewer: People, decision: Decisions]

\* A run of an expert over tasks, each under a contract.
ExpertType ==
    [expert: People, task: Tasks, digest: Digests, decision: Decisions]

AuditType == [kind: AuditKinds, status: {"passed", "failed"}, independent: BOOLEAN]

HeldOutType == [status: {"not_available", "active_private"}, disclosed: BOOLEAN]

\* ReleaseEvidenceManifest.validate_manifest and HeldOutEvidence, on what is counted here:
\* one review of a task by a reviewer, one audit of a kind, no partial metadata.
WellFormed(e) ==
    /\ \A r, q \in e.reviews : r.task = q.task /\ r.reviewer = q.reviewer => r = q
    /\ \A a, b \in e.audits : a.kind = b.kind => a = b
    /\ e.heldOut.disclosed => e.heldOut.status = "active_private"

\* Mutant: a review counts by the id of its task.
ReviewInOrderById(r, k) == r.reviewer # Contract[k[r.task]].owner

\* A review binds the task as it is, and is not by the owner.
ReviewInOrder(r, k) == r.digest = k[r.task] /\ r.reviewer # Contract[k[r.task]].owner

ExpertInOrder(x, k) == x.digest = k[x.task]

\* What audit_release does not refuse, but for the reference comparisons.  A disclosure
\* is of the private task set, or the audit raises.
InOrder(e, k) ==
    /\ WellFormed(e)
    /\ \A r \in e.reviews : ReviewInOrder(r, k)
    /\ \A x \in e.experts : ExpertInOrder(x, k)
    /\ e.heldOut.status = "active_private" => e.heldOut.disclosed

-----------------------------------------------------------------------------
(* The gates. *)

Status(passed, failed) ==
    IF passed THEN "passed" ELSE IF failed THEN "failed" ELSE "pending"

InCategory(k, c) == {t \in Tasks : Contract[k[t]].category = c}

CategoriesOf(k, tasks) == {Contract[k[t]].category : t \in tasks}

ExactCategories(k) ==
    /\ CategoriesOf(k, Tasks) = ReleaseCategories
    /\ \A c \in ReleaseCategories : Cardinality(InCategory(k, c)) = CategoryShare

PatchTasks(k) == {t \in Tasks : Contract[k[t]].patch}

SequentialBps(k) ==
    IF PatchTasks(k) = {} THEN 0
    ELSE (Cardinality({t \in PatchTasks(k) : Contract[k[t]].sequential}) * 10000)
             \div Cardinality(PatchTasks(k))

BalancedSequential(k) == PatchTasks(k) # {} /\ SequentialBps(k) \in 2500..4500

Accepted(decisions) == {d \in decisions : d.decision = "accepted"}

Objections(decisions) == decisions \ Accepted(decisions)

\* Mutant: there are as many accepted reviews as tasks.
ReviewsCountComplete(e, k) ==
    Cardinality(Accepted(e.reviews)) = Cardinality(Tasks) /\ Objections(e.reviews) = {}

ReviewsComplete(e, k) ==
    {r.task : r \in Accepted(e.reviews)} = Tasks /\ Objections(e.reviews) = {}

ExpertsComplete(e, k) ==
    /\ CategoriesOf(k, {x.task : x \in Accepted(e.experts)}) = ReleaseCategories
    /\ Objections(e.experts) = {}

AttackKindsCovered(k) == TracerAttacks \union UNION {Contract[k[t]].attacks : t \in Tasks}

ReferenceConfigurations ==
    /\ RequiredHarnesses \subseteq {HarnessOf[c] : c \in Configurations}
    /\ HarnessOf[Primary] = "cursor-cli"

Adverse(a) == a.status = "failed" \/ ~a.independent

Sound(e, kind) == \E a \in e.audits : a.kind = kind /\ ~Adverse(a)

AuditsComplete(e) == \A kind \in RequiredAudits : Sound(e, kind)

AuditFailed(e) == \E a \in e.audits : a.kind \in RequiredAudits /\ Adverse(a)

\* Mutant: the audit of the private execution is not asked for.
HeldOutDisclosed(e) == e.heldOut.status = "active_private"

HeldOutComplete(e) == e.heldOut.status = "active_private" /\ Sound(e, HeldOutExecution)

\* The assessments, on a set of configurations whose comparisons were accepted.  The gate of
\* cross-version claims, each of which raises or is in order, always passes.
Gates(e, k, compared) ==
    [corpus_balance |-> Status(ExactCategories(k), TRUE),
     sequential_coverage |-> Status(BalancedSequential(k), PatchTasks(k) # {}),
     machine_admission |-> Status(\A t \in Tasks : Contract[k[t]].admitted, FALSE),
     owner_approval |-> Status(\A t \in Tasks : Contract[k[t]].approved, FALSE),
     independent_human_review |-> Status(ReviewsComplete(e, k), Objections(e.reviews) # {}),
     expert_calibration |-> Status(ExpertsComplete(e, k), Objections(e.experts) # {}),
     adversarial_coverage |-> Status(AttackKindsCovered(k) = AttackKinds, TRUE),
     reference_configurations |-> Status(ReferenceConfigurations, TRUE),
     common_harness_decision |->
         Status(CommonHarness \in Configurations \union {"omitted"}, TRUE),
     reference_comparisons |-> Status(compared = Configurations, FALSE),
     signed_references |-> Status(compared = Configurations, FALSE),
     license_provenance |-> Status(\A t \in Tasks : Contract[k[t]].mit, TRUE),
     release_audits |-> Status(AuditsComplete(e), AuditFailed(e)),
     public_materials |-> Status(RequiredMaterials \subseteq e.materials, TRUE),
     held_out |-> Status(HeldOutComplete(e), FALSE),
     cross_version_discipline |-> "passed"]

Blockers(e, k, compared) ==
    LET gates == Gates(e, k, compared) IN {g \in DOMAIN gates : gates[g] # "passed"}
=============================================================================
