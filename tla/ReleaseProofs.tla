--------------------------- MODULE ReleaseProofs ---------------------------
(***************************************************************************)
(* What a readiness report rests on, for any tasks, people, configurations,*)
(* evidence and length of a history.                                       *)
(*                                                                         *)
(* The invariant follows the audit: what it has established about the      *)
(* manifest it parsed stays so, because it never looks at the manifest     *)
(* again, and what it has established about a comparison stays so unless   *)
(* a file was rewritten since, which `raced' remembers.                    *)
(***************************************************************************)
EXTENDS Release, FiniteSetTheorems, TLAPS

AuditorFields ==
    {"evidence", "resolved", "tasks", "validated", "read", "compared", "schedules", "at", "step"}

AuditsNamed(e) == DOMAIN e = EvidenceFields /\ \A a \in e.audits : a.kind \in AuditKinds

\* What audit_release has checked of a comparison before it goes on to the next one.
Checked(b, tasks) ==
    /\ b.files.result.worth = "comparable"
    /\ b.files.result.evaluation = b.files.evaluation.edition
    /\ b.files.evaluation.tasks = tasks

Signed(b) ==
    /\ b.files.attestation.statement = Statement(b.files)
    /\ b.files.attestation.signer \in b.signers

Audit ==
    /\ DOMAIN auditor = AuditorFields
    /\ AuditsNamed(auditor.evidence)
    /\ auditor.tasks = None => auditor.compared = {}
    /\ IsFiniteSet(auditor.schedules)
    /\ auditor.step \in {0, 1, 2}
    /\ auditor.step > 0 => /\ auditor.tasks # None
                           /\ auditor.at \in Configurations
                           /\ auditor.at \in (DOMAIN auditor.evidence.comparisons) \ auditor.compared
    /\ auditor.step > 0 /\ auditor.at \notin raced =>
           files[auditor.at] = Bound(auditor.at).files /\ allowed = Bound(auditor.at).signers
    /\ auditor.step = 2 /\ auditor.at \notin raced =>
           /\ Checked(Bound(auditor.at), auditor.tasks)
           /\ Bound(auditor.at).files.evaluation.schedule \in auditor.schedules
    /\ auditor.step = 0 /\ auditor.compared # {} => Cardinality(auditor.schedules) = 1
    /\ \A c \in auditor.compared \ raced :
         /\ Checked(Bound(c), auditor.tasks) /\ Signed(Bound(c))
         /\ Bound(c).files.evaluation.schedule \in auditor.schedules

Reported == ReferencesAreSigned /\ StableIsReviewed /\ ObjectionsBlock

IInv ==
    /\ DOMAIN files = Configurations
    /\ AuditsNamed(evidence)
    /\ auditor # None => Audit
    /\ Reported

\* The initial states satisfy the invariant.
LEMMA InitIInv == Init => IInv
  BY ReleaseAssumption
  DEF Init, IInv, Reported, ReferencesAreSigned, StableIsReviewed, ObjectionsBlock,
      AuditsNamed, AuditType

-----------------------------------------------------------------------------
(* The gates. *)

\* A report without blockers has passed the gates that the theorems are about.
LEMMA NoBlocker ==
    ASSUME NEW e, NEW k, NEW compared, Blockers(e, k, compared) = {}
    PROVE  /\ \A t \in Tasks : Contract[k[t]].admitted
           /\ \A t \in Tasks : Contract[k[t]].approved
           /\ ReviewsComplete(e, k) /\ ExpertsComplete(e, k)
           /\ AuditsComplete(e) /\ HeldOutComplete(e)
  <1> DEFINE gates == Gates(e, k, compared)
  <1>1. \A g \in DOMAIN gates : gates[g] = "passed"
    BY DEF Blockers
  <1>2. /\ gates.machine_admission = "passed" /\ gates.owner_approval = "passed"
        /\ gates.independent_human_review = "passed" /\ gates.expert_calibration = "passed"
        /\ gates.release_audits = "passed" /\ gates.held_out = "passed"
    <2> {"machine_admission", "owner_approval", "independent_human_review",
         "expert_calibration", "release_audits", "held_out"} \subseteq DOMAIN gates
      BY DEF Gates
    <2> HIDE DEF gates
    <2> QED
      BY <1>1
  <1>3. /\ Status(\A t \in Tasks : Contract[k[t]].admitted, FALSE) = "passed"
        /\ Status(\A t \in Tasks : Contract[k[t]].approved, FALSE) = "passed"
        /\ Status(ReviewsComplete(e, k), Objections(e.reviews) # {}) = "passed"
        /\ Status(ExpertsComplete(e, k), Objections(e.experts) # {}) = "passed"
        /\ Status(AuditsComplete(e), AuditFailed(e)) = "passed"
        /\ Status(HeldOutComplete(e), FALSE) = "passed"
    BY <1>2 DEF Gates
  <1>4. "failed" # "passed" /\ "pending" # "passed"
    OBVIOUS
  <1> HIDE DEF gates
  <1> QED
    BY <1>3, <1>4, Zenon DEF Status

\* A manifest in order that passes them has the reviews and nothing adverse.
LEMMA NothingAdverse ==
    ASSUME NEW e, NEW k, InOrder(e, k), AuditsNamed(e), ReviewsComplete(e, k),
           ExpertsComplete(e, k), AuditsComplete(e), HeldOutComplete(e)
    PROVE  /\ \A d \in e.reviews \union e.experts : d.decision = "accepted"
           /\ \A a \in e.audits : ~Adverse(a)
           /\ \A t \in Tasks : \E r \in e.reviews :
                /\ r.task = t /\ r.decision = "accepted"
                /\ r.digest = k[t] /\ r.reviewer # Contract[k[t]].owner
  <1>1. \A d \in e.reviews \union e.experts : d.decision = "accepted"
    BY DEF ReviewsComplete, ExpertsComplete, Objections, Accepted
  <1>2. ASSUME NEW a \in e.audits PROVE ~Adverse(a)
    <2>1. Sound(e, a.kind)
      BY DEF AuditsNamed, AuditKinds, AuditsComplete, HeldOutComplete
    <2>2. PICK b \in e.audits : b.kind = a.kind /\ ~Adverse(b)
      BY <2>1 DEF Sound
    <2> QED
      BY <2>2 DEF InOrder, WellFormed
  <1>3. ASSUME NEW t \in Tasks
        PROVE  \E r \in e.reviews : /\ r.task = t /\ r.decision = "accepted"
                                    /\ r.digest = k[t] /\ r.reviewer # Contract[k[t]].owner
    <2>1. PICK r \in Accepted(e.reviews) : r.task = t
      BY DEF ReviewsComplete
    <2> QED
      BY <2>1 DEF Accepted, InOrder, ReviewInOrder
  <1> QED
    BY <1>1, <1>2, <1>3

-----------------------------------------------------------------------------
(* The steps of maintainers and commands: there is no report, and the audit goes on. *)

\* Nothing has to be shown of an audit that has not reported.
LEMMA Unreported == ASSUME report' = None PROVE Reported'
  BY DEF Reported, ReferencesAreSigned, StableIsReviewed, ObjectionsBlock

\* A step that leaves the audit alone, and remembers what it takes away from under it.
LEMMA AsideIInv ==
    ASSUME IInv, report' = None, auditor' = auditor, raced \subseteq raced',
           DOMAIN files' = Configurations, AuditsNamed(evidence'),
           \A c \in Configurations :
               Resolved(c) /\ c \notin raced' => files'[c] = files[c] /\ allowed' = allowed
    PROVE  IInv'
  <1>1. ASSUME auditor # None PROVE Audit'
    <2>1. Audit
      BY <1>1 DEF IInv
    <2>2. auditor.step > 0 => Resolved(auditor.at) /\ auditor.at \in Configurations
      BY <1>1, <2>1 DEF Audit, Resolved
    <2>3. auditor.step > 0 /\ auditor.at \notin raced' =>
              files'[auditor.at] = files[auditor.at] /\ allowed' = allowed
      BY <2>2
    <2> QED
      BY <2>1, <2>3 DEF Audit, Bound
  <1> QED
    BY <1>1, Unreported DEF IInv, AuditsNamed

\* A file rewritten below an audit that resolved it is remembered.
LEMMA WritesIInv ==
    ASSUME IInv, report' = None, auditor' = auditor,
           NEW c, NEW kind, NEW document, Writes(c, kind, document)
    PROVE  IInv'
  <1>1. /\ DOMAIN files' = Configurations /\ evidence' = evidence /\ allowed' = allowed
        /\ \A d \in Configurations \ {c} : files'[d] = files[d]
    BY DEF Writes, IInv
  <1>2. raced \subseteq raced' /\ (Resolved(c) => c \in raced')
    BY DEF Writes
  <1> QED
    BY <1>1, <1>2, AsideIInv DEF IInv

\* So is everything maintainers do.
LEMMA MaintainIInv ==
    ASSUME IInv, Maintain
    PROVE  IInv'
  <1>1. CASE UNCHANGED <<files, allowed, raced, auditor>> /\ report' = None /\ AuditsNamed(evidence')
    BY <1>1, AsideIInv DEF IInv
  <1>2. ASSUME NEW t \in Tasks, NEW k, EditTask(t, k) PROVE IInv'
    BY <1>1, <1>2 DEF EditTask, OnPaper, Works, IInv
  <1>3. CASE SealTaskSet
    BY <1>1, <1>3 DEF SealTaskSet, OnPaper, Works, IInv
  <1>4. ASSUME NEW e, Record(e), AuditsNamed(e) PROVE IInv'
    BY <1>1, <1>4 DEF Record, OnPaper, Works
  <1>5. CASE BindTaskSet
    BY <1>4, <1>5 DEF BindTaskSet, IInv, AuditsNamed, EvidenceFields
  <1>6. ASSUME NEW r \in Reviews, AddReview(r) PROVE IInv'
    BY <1>4, <1>6 DEF AddReview, IInv, AuditsNamed, EvidenceFields
  <1>7. ASSUME NEW x \in Experts, AddExpert(x) PROVE IInv'
    BY <1>4, <1>7 DEF AddExpert, IInv, AuditsNamed, EvidenceFields
  <1>8. ASSUME NEW a \in Auditors, AddAudit(a) PROVE IInv'
    <2>1. a.kind \in AuditKinds
      BY ReleaseAssumption DEF AuditType
    <2> QED
      BY <1>4, <1>8, <2>1 DEF AddAudit, IInv, AuditsNamed, EvidenceFields
  <1>9. CASE DiscloseHeldOut
    BY <1>4, <1>9 DEF DiscloseHeldOut, IInv, AuditsNamed, EvidenceFields
  <1>10. ASSUME NEW c \in Configurations, BindComparison(c) PROVE IInv'
    BY <1>4, <1>10 DEF BindComparison, IInv, AuditsNamed, EvidenceFields
  <1>11. ASSUME NEW c \in Configurations, NEW schedule, BindRuns(c, schedule) PROVE IInv'
    BY <1>11, WritesIInv DEF BindRuns, Works
  <1>12. ASSUME NEW c \in Configurations, NEW worth, Score(c, worth) PROVE IInv'
    BY <1>12, WritesIInv DEF Score, Works
  <1>13. ASSUME NEW p \in Signers, Revoke(p) PROVE IInv'
    <2>1. /\ report' = None /\ auditor' = auditor /\ files' = files /\ evidence' = evidence
          /\ raced \subseteq raced'
          /\ \A c \in Configurations : Resolved(c) => c \in raced'
      BY <1>13 DEF Revoke, Works, Resolved
    <2> QED
      BY <2>1, AsideIInv DEF IInv
  <1> QED
    BY <1>2, <1>3, <1>5, <1>6, <1>7, <1>8, <1>9, <1>10, <1>11, <1>12, <1>13 DEF Maintain

\* Commands write one file, or none.
LEMMA CommandIInv ==
    ASSUME IInv,
           \/ \E name \in {"sign", "verify"}, c \in Configurations, p \in Signers :
                  StartCommand(name, c, p)
           \/ Sign \/ Verify \/ RaiseCommand
    PROVE  IInv'
  <1>1. CASE UNCHANGED <<maintained, raced, auditor>> /\ report' = None
    BY <1>1, AsideIInv DEF IInv, maintained
  <1>2. ASSUME NEW name, NEW c, NEW p, StartCommand(name, c, p) PROVE IInv'
    BY <1>1, <1>2 DEF StartCommand
  <1>3. CASE Sign
    BY <1>3, WritesIInv DEF Sign
  <1>4. CASE Verify
    BY <1>4, WritesIInv DEF Verify
  <1>5. CASE RaiseCommand
    BY <1>1, <1>5 DEF RaiseCommand
  <1> QED
    BY <1>2, <1>3, <1>4, <1>5

-----------------------------------------------------------------------------
(* The steps of the audit. *)

\* An audit starts from the manifest it parses.
LEMMA StartAuditIInv == ASSUME IInv, StartAudit PROVE IInv'
  <1>1. /\ auditor' = [evidence |-> evidence, resolved |-> FALSE, tasks |-> None,
                       validated |-> 0, read |-> 0, compared |-> {}, schedules |-> {},
                       at |-> None, step |-> 0]
        /\ report' = None /\ files' = files /\ evidence' = evidence
    BY DEF StartAudit, maintained
  <1>2. DOMAIN auditor' = AuditorFields
    BY <1>1 DEF AuditorFields
  <1>3. IsFiniteSet({})
    BY FS_EmptySet
  <1>4. Audit'
    BY <1>1, <1>2, <1>3 DEF IInv, Audit, AuditsNamed
  <1> QED
    BY <1>1, <1>4, Unreported DEF IInv, AuditsNamed

\* While it reads the tasks it has established nothing yet.
LEMMA ReadTasksIInv ==
    ASSUME IInv, ResolveTaskSet \/ ParseTaskSet \/ ValidateContract \/ ReadContract
    PROVE  IInv'
  <1>1. /\ auditor # None /\ Audit
        /\ report' = None /\ UNCHANGED <<files, evidence, allowed, raced>>
    BY DEF ResolveTaskSet, ParseTaskSet, ValidateContract, ReadContract, Reads, maintained, IInv
  <1>2. /\ auditor'.tasks = auditor.tasks \/ auditor.tasks = None
        /\ DOMAIN auditor' = AuditorFields
        /\ auditor'.evidence = auditor.evidence /\ auditor'.compared = auditor.compared
        /\ auditor'.schedules = auditor.schedules /\ auditor'.step = auditor.step
        /\ auditor'.at = auditor.at
    BY <1>1 DEF ResolveTaskSet, ParseTaskSet, ValidateContract, ReadContract, Reads, Audit,
       AuditorFields
  <1>3. auditor.tasks = None => auditor.step = 0 /\ auditor.compared = {}
    BY <1>1 DEF Audit
  <1>4. Audit'
    <2>1. CASE auditor'.tasks = auditor.tasks
      BY <1>1, <1>2, <2>1 DEF Audit, Bound
    <2>2. CASE auditor.tasks = None
      BY <1>1, <1>2, <1>3, <2>2 DEF Audit, Bound
    <2> QED
      BY <1>2, <2>1, <2>2
  <1> QED
    BY <1>1, <1>4, Unreported DEF IInv, AuditsNamed

\* A comparison is resolved by the digests of the manifest.
LEMMA ResolveIInv ==
    ASSUME IInv, NEW c \in Configurations, Resolve(c)
    PROVE  IInv'
  <1>1. /\ auditor # None /\ Audit /\ auditor.tasks # None /\ auditor.step = 0
        /\ c \in (DOMAIN auditor.evidence.comparisons) \ auditor.compared
        /\ files[c] = Bound(c).files /\ allowed = Bound(c).signers
        /\ auditor' = [auditor EXCEPT !.at = c, !.step = 1]
        /\ report' = None /\ UNCHANGED <<files, evidence, allowed, raced>>
    BY DEF Resolve, Prepared, Reads, maintained, IInv
  <1>2. /\ DOMAIN auditor' = AuditorFields /\ auditor'.tasks = auditor.tasks
        /\ auditor'.evidence = auditor.evidence /\ auditor'.compared = auditor.compared
        /\ auditor'.schedules = auditor.schedules /\ auditor'.step = 1 /\ auditor'.at = c
    BY <1>1 DEF Audit, AuditorFields
  <1>3. Audit'
    BY <1>1, <1>2 DEF Audit, Bound
  <1> QED
    BY <1>1, <1>3, Unreported DEF IInv, AuditsNamed

\* Files that were not raced are parsed as they were resolved.
LEMMA ParseComparisonIInv == ASSUME IInv, ParseComparison PROVE IInv'
  <1> DEFINE f == files[auditor.at]
  <1>1. /\ auditor # None /\ Audit /\ auditor.step = 1
        /\ f.evaluation.tasks = auditor.tasks /\ Attestable(f)
        /\ auditor' = [auditor EXCEPT !.step = 2, !.schedules = @ \union {f.evaluation.schedule}]
        /\ report' = None /\ UNCHANGED <<files, evidence, allowed, raced>>
    BY DEF ParseComparison, Reads, maintained, IInv
  <1>2. /\ DOMAIN auditor' = AuditorFields /\ auditor'.tasks = auditor.tasks
        /\ auditor'.evidence = auditor.evidence /\ auditor'.compared = auditor.compared
        /\ auditor'.schedules = auditor.schedules \union {f.evaluation.schedule}
        /\ auditor'.step = 2 /\ auditor'.at = auditor.at
    BY <1>1 DEF Audit, AuditorFields
  <1>3. IsFiniteSet(auditor'.schedules)
    <2>1. IsFiniteSet(auditor.schedules)
      BY <1>1 DEF Audit
    <2>2. IsFiniteSet(auditor.schedules \union {f.evaluation.schedule})
      BY ONLY <2>1, FS_AddElement
    <2> QED  BY ONLY <1>2, <2>2
  <1>4. auditor.at \notin raced =>
            /\ f = Bound(auditor.at).files /\ Checked(Bound(auditor.at), auditor.tasks)
            /\ Bound(auditor.at).files.evaluation.schedule = f.evaluation.schedule
    BY <1>1 DEF Audit, Attestable, Checked
  <1>5. f.evaluation.schedule \in auditor'.schedules /\ auditor.schedules \subseteq auditor'.schedules
    BY <1>2
  <1> HIDE DEF f
  <1>6. PICK at, cs : at = auditor.at /\ cs = auditor.evidence.comparisons
    OBVIOUS
  <1>7. /\ AuditsNamed(auditor.evidence)
        /\ auditor.tasks # None
        /\ at \in Configurations /\ at \in (DOMAIN cs) \ auditor.compared
        /\ at \notin raced => files[at] = cs[at].files /\ allowed = cs[at].signers
        /\ \A c \in auditor.compared \ raced :
             /\ Checked(cs[c], auditor.tasks) /\ Signed(cs[c])
             /\ cs[c].files.evaluation.schedule \in auditor.schedules
    BY <1>1, <1>6 DEF Audit, Bound
  <1>8. Audit'
    <2>1. \A c \in auditor.compared \ raced : cs[c].files.evaluation.schedule \in auditor'.schedules
      BY ONLY <1>5, <1>7
    <2>2. at \notin raced =>
             /\ Checked(cs[at], auditor.tasks)
             /\ cs[at].files.evaluation.schedule \in auditor'.schedules
      BY ONLY <1>4, <1>5, <1>6 DEF Bound
    <2>3. auditor'.at = at /\ auditor'.evidence.comparisons = cs
      BY <1>2, <1>6
    <2>4. UNCHANGED <<files, allowed, raced>>
      BY <1>1
    <2>5. (\A c \in auditor.compared \ raced :
             /\ Checked(Bound(c), auditor.tasks) /\ Signed(Bound(c))
             /\ Bound(c).files.evaluation.schedule \in auditor.schedules)'
      BY ONLY <1>2, <1>7, <2>1, <2>3, <2>4 DEF Bound, Checked, Signed
    <2>6. (/\ auditor.at \notin raced =>
              files[auditor.at] = Bound(auditor.at).files /\ allowed = Bound(auditor.at).signers
           /\ auditor.at \notin raced =>
              /\ Checked(Bound(auditor.at), auditor.tasks)
              /\ Bound(auditor.at).files.evaluation.schedule \in auditor.schedules)'
      BY ONLY <1>2, <1>7, <2>2, <2>3, <2>4 DEF Bound, Checked
    <2>7. (/\ DOMAIN auditor = AuditorFields
           /\ AuditsNamed(auditor.evidence)
           /\ auditor.tasks # None
           /\ auditor.step = 2 /\ auditor.at \in Configurations
           /\ auditor.at \in (DOMAIN auditor.evidence.comparisons) \ auditor.compared)'
      BY ONLY <1>2, <1>7, <2>3
    <2> QED
      BY ONLY <1>3, <2>5, <2>6, <2>7 DEF Audit
  <1> QED
    BY <1>1, <1>8, Unreported DEF IInv, AuditsNamed

\* A comparison that is accepted was attested.
LEMMA VerifyComparisonIInv == ASSUME IInv, VerifyComparison PROVE IInv'
  <1> DEFINE f == files[auditor.at]
  <1>1. /\ auditor # None /\ Audit /\ auditor.step = 2
        /\ Attested(f.attestation, allowed, f) /\ Cardinality(auditor.schedules) = 1
        /\ auditor' = [auditor EXCEPT !.compared = @ \union {auditor.at}, !.at = None, !.step = 0]
        /\ report' = None /\ UNCHANGED <<files, evidence, allowed, raced>>
    BY DEF VerifyComparison, Reads, maintained, IInv
  <1>2. /\ DOMAIN auditor' = AuditorFields /\ auditor'.tasks = auditor.tasks
        /\ auditor'.evidence = auditor.evidence
        /\ auditor'.compared = auditor.compared \union {auditor.at}
        /\ auditor'.schedules = auditor.schedules
        /\ auditor'.step = 0 /\ auditor'.at = None
    BY <1>1 DEF Audit, AuditorFields
  <1>3. auditor.at \notin raced => Signed(Bound(auditor.at))
    BY <1>1 DEF Audit, Attested, Signed
  <1>4. Audit'
    BY <1>1, <1>2, <1>3 DEF Audit, Bound
  <1> QED
    BY <1>1, <1>4, Unreported DEF IInv, AuditsNamed

\* The report says of its references and of its reviews what the audit has established.
LEMMA ConcludeIInv == ASSUME IInv, Conclude PROVE IInv'
  <1> DEFINE blockers == Blockers(auditor.evidence, auditor.tasks, auditor.compared)
             e == auditor.evidence
             k == auditor.tasks
  <1>1. /\ auditor # None /\ Audit /\ InOrder(e, k) /\ auditor.compared = DOMAIN e.comparisons
        /\ report' = [evidence |-> e, tasks |-> k, blockers |-> blockers, raced |-> raced]
        /\ auditor' = None /\ UNCHANGED <<files, evidence>>
    BY DEF Conclude, Prepared, maintained, IInv
  <1>2. /\ report'.evidence = e /\ report'.tasks = k /\ report'.blockers = blockers
        /\ report'.raced = raced
    BY <1>1
  <1>3. AuditsNamed(e) /\ auditor.step = 0
    BY <1>1 DEF Audit
  <1>4. ReferencesAreSigned'
    <2>1. \A c \in auditor.compared \ raced :
              /\ Checked(Bound(c), k) /\ Signed(Bound(c))
              /\ Bound(c).files.evaluation.schedule \in auditor.schedules
      BY <1>1 DEF Audit
    <2>2. \A c, d \in auditor.compared \ raced :
              Bound(c).files.evaluation.schedule = Bound(d).files.evaluation.schedule
      <3> SUFFICES ASSUME NEW c \in auditor.compared \ raced, NEW d \in auditor.compared \ raced
                   PROVE  Bound(c).files.evaluation.schedule = Bound(d).files.evaluation.schedule
        OBVIOUS
      <3>1. Cardinality(auditor.schedules) = 1 /\ IsFiniteSet(auditor.schedules)
        BY <1>1, <1>3 DEF Audit
      <3>2. PICK s : auditor.schedules = {s}
        BY <3>1, FS_Singleton
      <3> QED
        BY <2>1, <3>2
    <2> QED
      <3>1. PICK cs : cs = e.comparisons
        OBVIOUS
      <3>2. /\ \A c \in auditor.compared \ raced :
                 /\ Checked(cs[c], k) /\ Signed(cs[c])
            /\ \A c, d \in auditor.compared \ raced :
                 cs[c].files.evaluation.schedule = cs[d].files.evaluation.schedule
        BY <2>1, <2>2, <3>1 DEF Bound
      <3>3. report'.evidence.comparisons = cs /\ auditor.compared = DOMAIN cs
        BY <1>1, <1>2, <3>1
      <3> QED
        BY ONLY <1>2, <3>2, <3>3 DEF ReferencesAreSigned, Compared, Checked, Signed
  <1>5. ASSUME blockers = {}
        PROVE  /\ \A t \in Tasks : Contract[k[t]].approved /\ Contract[k[t]].admitted
               /\ \A d \in e.reviews \union e.experts : d.decision = "accepted"
               /\ \A a \in e.audits : ~Adverse(a)
               /\ \A t \in Tasks : \E r \in e.reviews :
                    /\ r.task = t /\ r.decision = "accepted"
                    /\ r.digest = k[t] /\ r.reviewer # Contract[k[t]].owner
    BY <1>1, <1>3, <1>5, NoBlocker, NothingAdverse
  <1>6. StableIsReviewed' /\ ObjectionsBlock'
    BY <1>2, <1>3, <1>5 DEF StableIsReviewed, ObjectionsBlock
  <1> QED
    BY <1>1, <1>4, <1>6 DEF IInv, Reported, AuditsNamed

\* An audit that raises reports nothing.
LEMMA RaiseAuditIInv == ASSUME IInv, RaiseAudit PROVE IInv'
  BY Unreported DEF IInv, RaiseAudit, maintained, AuditsNamed

\* No step breaks it.
LEMMA NextIInv == IInv /\ [Next]_vars => IInv'
  <1> SUFFICES ASSUME IInv, [Next]_vars PROVE IInv'
    OBVIOUS
  <1>1. CASE UNCHANGED vars
    <2>1. UNCHANGED <<files, evidence, allowed, auditor, raced, report>>
      BY <1>1 DEF vars, maintained
    <2>2. Audit => Audit'
      BY ONLY <2>1 DEF Audit, AuditsNamed, Bound
    <2>3. Reported'
      <3>1. Reported
        BY DEF IInv
      <3>2. report' = report
        BY <2>1
      <3>3. ReferencesAreSigned'
        BY ONLY <3>1, <3>2 DEF Reported, ReferencesAreSigned, Compared
      <3>4. StableIsReviewed' /\ ObjectionsBlock'
        BY ONLY <3>1, <3>2 DEF Reported, StableIsReviewed, ObjectionsBlock
      <3> QED
        BY ONLY <3>3, <3>4 DEF Reported
    <2>4. DOMAIN files = Configurations /\ AuditsNamed(evidence) /\ (auditor # None => Audit)
      BY DEF IInv
    <2>5. DOMAIN files' = Configurations /\ AuditsNamed(evidence)' /\ (auditor' # None => Audit')
      BY ONLY <2>1, <2>2, <2>4 DEF AuditsNamed, None
    <2> QED
      BY ONLY <2>3, <2>5 DEF IInv, None
  <1>2. CASE Next
    BY <1>2, MaintainIInv, CommandIInv, StartAuditIInv, ReadTasksIInv, ResolveIInv,
       ParseComparisonIInv, VerifyComparisonIInv, ConcludeIInv, RaiseAuditIInv DEF Next
  <1> QED
    BY <1>1, <1>2

-----------------------------------------------------------------------------

\* The references of a report are comparable results on its tasks, signed as they are bound,
\* unless their files were rewritten under the audit (audit_release in calibration.py).
THEOREM ReferencesSigned == Spec => []ReferencesAreSigned
  <1>1. IInv => ReferencesAreSigned
    BY DEF IInv, Reported
  <1> QED
    BY <1>1, InitIInv, NextIInv, PTL DEF Spec

\* A release without blockers has a review of every contract by somebody else than its owner.
THEOREM StableReviewed == Spec => []StableIsReviewed
  <1>1. IInv => StableIsReviewed
    BY DEF IInv, Reported
  <1> QED
    BY <1>1, InitIInv, NextIInv, PTL DEF Spec

\* One objection or one adverse audit keeps a release from being without blockers.
THEOREM ObjectionsAreHeard == Spec => []ObjectionsBlock
  <1>1. IInv => ObjectionsBlock
    BY DEF IInv, Reported
  <1> QED
    BY <1>1, InitIInv, NextIInv, PTL DEF Spec

-----------------------------------------------------------------------------
(* The documents. *)

\* A document that a command is about to read was there when it started, and stays.
CommandReads ==
    /\ command.at \in Configurations /\ command.signer \in Signers
    /\ command.name \in {"sign", "verify"}
    /\ files[command.at].evaluation # None /\ files[command.at].result # None
    /\ command.name = "verify" => files[command.at].attestation # None

EvidenceOk(e) ==
    /\ DOMAIN e = EvidenceFields
    /\ e.reviews \subseteq ReviewType /\ e.experts \subseteq ExpertType
    /\ DOMAIN e.comparisons \subseteq Configurations
    /\ WellFormed(e)

\* Every document has its type.
Documents ==
    /\ contract \in InitialContracts /\ taskSet \in InitialContracts
    /\ DOMAIN files = Configurations /\ \A c \in Configurations : FilesOk(files[c])
    /\ allowed \subseteq Signers
    /\ EvidenceOk(evidence)
    /\ command # None => CommandReads
    /\ auditor # None => /\ auditor.compared \subseteq DOMAIN auditor.evidence.comparisons
                         /\ auditor.step > 0 =>
                                auditor.at \in DOMAIN auditor.evidence.comparisons
                         /\ DOMAIN auditor.evidence.comparisons \subseteq Configurations
    /\ raced \subseteq Configurations
    /\ work \in 0..MaxWork

\* So it is at first.
LEMMA InitDocuments == Init => Documents
  <1> SUFFICES ASSUME Init PROVE Documents
    OBVIOUS
  <1>1. 0 \in 0..MaxWork
    BY ReleaseAssumption
  <1>2. EvidenceOk(evidence) /\ DOMAIN files = Configurations
        /\ \A c \in Configurations : FilesOk(files[c])
    BY ReleaseAssumption DEF Init, EvidenceOk
  <1> QED
    BY <1>1, <1>2 DEF Init, Documents

\* A task edited has one of its contracts.
LEMMA EditTyped ==
    ASSUME NEW k \in InitialContracts, NEW t \in Tasks, NEW d \in ContractsOf[t]
    PROVE  [k EXCEPT ![t] = d] \in InitialContracts
  <1>1. d \in Digests
    BY DEF Digests
  <1> QED
    BY <1>1 DEF InitialContracts

\* A document of one kind replaces another.
LEMMA FilesTyped ==
    ASSUME Documents, NEW c \in Configurations, NEW kind \in Kinds, NEW document,
           files' = [files EXCEPT ![c][kind] = document],
           document # None,
           FilesOk([files[c] EXCEPT ![kind] = document])
    PROVE  /\ DOMAIN files' = Configurations /\ \A d \in Configurations : FilesOk(files'[d])
           /\ \A d \in Configurations, k \in Kinds :
                 files[d][k] # None => files'[d][k] # None
  <1>1. /\ DOMAIN files' = Configurations
        /\ files'[c] = [files[c] EXCEPT ![kind] = document]
        /\ \A d \in Configurations \ {c} : files'[d] = files[d]
    BY DEF Documents
  <1>2. \A d \in Configurations : DOMAIN files[d] = Kinds
    BY DEF Documents, FilesOk
  <1> QED
    BY <1>1, <1>2 DEF Documents

\* The documents are not None.
LEMMA DocumentsMade ==
    \A d \in EvaluationType \union ResultType \union AttestationType \union VerificationType :
        d # None
  BY DEF EvaluationType, ResultType, AttestationType, VerificationType, None

DocumentOk(kind, document) ==
    \/ kind = "evaluation" /\ document \in EvaluationType
    \/ kind = "result" /\ document \in ResultType
    \/ kind = "attestation" /\ document \in AttestationType
    \/ kind = "verification" /\ document \in VerificationType

\* Writing a document of its kind keeps every document, and the commands that read them.
LEMMA WritesDocuments ==
    ASSUME Documents, NEW c \in Configurations, NEW kind, NEW document,
           DocumentOk(kind, document), Writes(c, kind, document),
           command' \in {None, command}, auditor' = auditor, work' \in 0..MaxWork
    PROVE  Documents'
  <1>1. kind \in Kinds /\ document # None
    BY DocumentsMade DEF DocumentOk, Kinds
  <1>2. FilesOk([files[c] EXCEPT ![kind] = document])
    <2>1. FilesOk(files[c])
      BY DEF Documents
    <2> QED
      BY <2>1 DEF FilesOk, DocumentOk, Kinds
  <1>3. /\ DOMAIN files' = Configurations /\ \A d \in Configurations : FilesOk(files'[d])
        /\ \A d \in Configurations, k \in Kinds : files[d][k] # None => files'[d][k] # None
    BY <1>1, <1>2, FilesTyped DEF Writes
  <1>4. command' # None => CommandReads'
    <2> SUFFICES ASSUME command' # None PROVE CommandReads'
      OBVIOUS
    <2>1. command' = command /\ CommandReads
      BY DEF Documents
    <2>2. files[command.at].evaluation # None => files'[command.at].evaluation # None
      BY <1>3, <2>1 DEF CommandReads, Kinds
    <2>3. files[command.at].result # None => files'[command.at].result # None
      BY <1>3, <2>1 DEF CommandReads, Kinds
    <2>4. files[command.at].attestation # None => files'[command.at].attestation # None
      BY <1>3, <2>1 DEF CommandReads, Kinds
    <2> QED
      BY <2>1, <2>2, <2>3, <2>4 DEF CommandReads
  <1>5. raced' \subseteq Configurations
    BY DEF Writes, Documents
  <1>6. UNCHANGED <<contract, taskSet, evidence, allowed>>
    BY DEF Writes
  <1> QED
    BY <1>3, <1>4, <1>5, <1>6 DEF Documents, EvidenceOk

\* A step that leaves the files alone, and does not widen who may sign.
LEMMA PaperDocuments ==
    ASSUME Documents, files' = files, allowed' \subseteq Signers,
           contract' \in InitialContracts, taskSet' \in InitialContracts, EvidenceOk(evidence)',
           command' # None => command' = command \/ CommandReads',
           auditor' # None => \/ auditor' = auditor
                              \/ /\ auditor'.compared \subseteq DOMAIN auditor'.evidence.comparisons
                                 /\ auditor'.step > 0 =>
                                        auditor'.at \in DOMAIN auditor'.evidence.comparisons
                                 /\ DOMAIN auditor'.evidence.comparisons \subseteq Configurations,
           raced' \subseteq Configurations, work' \in 0..MaxWork
    PROVE  Documents'
  <1>1. command' # None => CommandReads'
    BY DEF Documents, CommandReads
  <1>2. auditor' # None => /\ auditor'.compared \subseteq DOMAIN auditor'.evidence.comparisons
                           /\ auditor'.step > 0 =>
                                  auditor'.at \in DOMAIN auditor'.evidence.comparisons
                           /\ DOMAIN auditor'.evidence.comparisons \subseteq Configurations
    BY DEF Documents
  <1> QED
    BY <1>1, <1>2 DEF Documents

\* A recorded manifest is one.
LEMMA RecordDocuments ==
    ASSUME Documents, NEW e, Record(e), EvidenceOk(e)
    PROVE  Documents'
  <1>1. work' \in 0..MaxWork
    BY ReleaseAssumption DEF Record, OnPaper, Works, Documents
  <1>2. /\ UNCHANGED <<contract, taskSet, files, allowed, command, auditor, raced>>
        /\ evidence' = e
    BY DEF Record, OnPaper, Works
  <1>3. EvidenceOk(evidence)'
    BY <1>2 DEF EvidenceOk
  <1>4. /\ contract' \in InitialContracts /\ taskSet' \in InitialContracts
        /\ allowed' \subseteq Signers /\ raced' \subseteq Configurations
    BY <1>2 DEF Documents
  <1> QED
    BY <1>1, <1>2, <1>3, <1>4, PaperDocuments

\* Each thing that may be recorded.
LEMMA EvidenceRecorded ==
    ASSUME NEW e, EvidenceOk(e)
    PROVE  /\ \A k : EvidenceOk([e EXCEPT !.tasks = k])
           /\ \A r \in Reviews : EvidenceOk([e EXCEPT !.reviews =
                  {q \in @ : q.task # r.task \/ q.reviewer # r.reviewer} \union {r}])
           /\ \A x \in Experts : EvidenceOk([e EXCEPT !.experts = @ \union {x}])
           /\ \A a \in Auditors : EvidenceOk([e EXCEPT !.audits =
                  {b \in @ : b.kind # a.kind} \union {a}])
           /\ EvidenceOk([e EXCEPT !.heldOut =
                  [status |-> "active_private", disclosed |-> TRUE]])
           /\ \A c \in Configurations : \A b : EvidenceOk([e EXCEPT !.comparisons =
                  [d \in DOMAIN @ \union {c} |-> IF d = c THEN b ELSE @[d]]])
  <1>1. \A k : EvidenceOk([e EXCEPT !.tasks = k])
    BY DEF EvidenceOk, EvidenceFields, WellFormed
  <1>2. ASSUME NEW r \in Reviews
        PROVE  EvidenceOk([e EXCEPT !.reviews =
                   {q \in @ : q.task # r.task \/ q.reviewer # r.reviewer} \union {r}])
    <2> DEFINE reviews == {q \in e.reviews : q.task # r.task \/ q.reviewer # r.reviewer} \union {r}
               f == [e EXCEPT !.reviews = reviews]
    <2>1. r \in ReviewType
      BY ReleaseAssumption
    <2>2. /\ reviews \subseteq ReviewType
          /\ \A p, q \in reviews : p.task = q.task /\ p.reviewer = q.reviewer => p = q
      BY <2>1 DEF EvidenceOk, WellFormed
    <2>3. f.reviews = reviews /\ f.experts = e.experts /\ f.audits = e.audits
          /\ f.heldOut = e.heldOut /\ f.comparisons = e.comparisons /\ DOMAIN f = EvidenceFields
      BY DEF EvidenceOk, EvidenceFields
    <2> HIDE DEF reviews, f
    <2>4. EvidenceOk(f)
      BY <2>2, <2>3 DEF EvidenceOk, WellFormed
    <2> QED
      BY <2>4, Zenon DEF f, reviews
  <1>3. \A x \in Experts : EvidenceOk([e EXCEPT !.experts = @ \union {x}])
    BY ReleaseAssumption DEF EvidenceOk, EvidenceFields, WellFormed
  <1>4. ASSUME NEW a \in Auditors
        PROVE  EvidenceOk([e EXCEPT !.audits = {b \in @ : b.kind # a.kind} \union {a}])
    <2> DEFINE audits == {b \in e.audits : b.kind # a.kind} \union {a}
               f == [e EXCEPT !.audits = audits]
    <2>1. \A b, d \in audits : b.kind = d.kind => b = d
      BY DEF EvidenceOk, WellFormed
    <2>2. f.audits = audits /\ f.experts = e.experts /\ f.reviews = e.reviews
          /\ f.heldOut = e.heldOut /\ f.comparisons = e.comparisons /\ DOMAIN f = EvidenceFields
      BY DEF EvidenceOk, EvidenceFields
    <2> HIDE DEF audits, f
    <2>3. EvidenceOk(f)
      BY <2>1, <2>2 DEF EvidenceOk, WellFormed
    <2> QED
      BY <2>3, Zenon DEF f, audits
  <1>5. EvidenceOk([e EXCEPT !.heldOut = [status |-> "active_private", disclosed |-> TRUE]])
    BY DEF EvidenceOk, EvidenceFields, WellFormed
  <1>6. ASSUME NEW c \in Configurations, NEW b
        PROVE  EvidenceOk([e EXCEPT !.comparisons =
                   [d \in DOMAIN @ \union {c} |-> IF d = c THEN b ELSE @[d]]])
    <2> DEFINE comparisons == [d \in DOMAIN e.comparisons \union {c} |->
                                  IF d = c THEN b ELSE e.comparisons[d]]
               f == [e EXCEPT !.comparisons = comparisons]
    <2>1. DOMAIN comparisons \subseteq Configurations
      BY DEF EvidenceOk
    <2>2. f.audits = e.audits /\ f.experts = e.experts /\ f.reviews = e.reviews
          /\ f.heldOut = e.heldOut /\ f.comparisons = comparisons /\ DOMAIN f = EvidenceFields
      BY DEF EvidenceOk, EvidenceFields
    <2> HIDE DEF comparisons, f
    <2>3. EvidenceOk(f)
      BY <2>1, <2>2 DEF EvidenceOk, WellFormed
    <2> QED
      BY <2>3, Zenon DEF f, comparisons
  <1> QED
    BY <1>1, <1>2, <1>3, <1>4, <1>5, <1>6

\* The steps of the maintainers.
LEMMA MaintainDocuments ==
    ASSUME Documents, Maintain
    PROVE  Documents'
  <1>1. Works => work' \in 0..MaxWork /\ work' \in Nat /\ auditor' = auditor
    BY ReleaseAssumption DEF Works, Documents
  <1>2. EvidenceOk(evidence) /\ taskSet \in [Tasks -> Digests]
    BY DEF Documents, InitialContracts
  <1>3. ASSUME OnPaper, evidence' = evidence, contract' \in InitialContracts,
               taskSet' \in InitialContracts
        PROVE  Documents'
    <2>1. UNCHANGED <<files, allowed, command, auditor, raced>> /\ work' \in 0..MaxWork
      BY <1>1, <1>3 DEF OnPaper
    <2>2. EvidenceOk(evidence)'
      BY <1>2, <1>3 DEF EvidenceOk
    <2>3. allowed' \subseteq Signers /\ raced' \subseteq Configurations
      BY <2>1 DEF Documents
    <2> QED
      BY <1>3, <2>1, <2>2, <2>3, PaperDocuments
  <1>4. ASSUME NEW t \in Tasks, NEW k \in ContractsOf[t] \ {contract[t]}, EditTask(t, k)
        PROVE  Documents'
    BY <1>3, <1>4, EditTyped DEF EditTask, Documents
  <1>5. CASE SealTaskSet
    BY <1>3, <1>5 DEF SealTaskSet, Documents
  <1>6. CASE BindTaskSet
    BY <1>2, <1>6, EvidenceRecorded, RecordDocuments DEF BindTaskSet
  <1>7. ASSUME NEW r \in Reviews, AddReview(r) PROVE Documents'
    BY <1>2, <1>7, EvidenceRecorded, RecordDocuments DEF AddReview
  <1>8. ASSUME NEW x \in Experts, AddExpert(x) PROVE Documents'
    BY <1>2, <1>8, EvidenceRecorded, RecordDocuments DEF AddExpert
  <1>9. ASSUME NEW a \in Auditors, AddAudit(a) PROVE Documents'
    BY <1>2, <1>9, EvidenceRecorded, RecordDocuments DEF AddAudit
  <1>10. CASE DiscloseHeldOut
    BY <1>2, <1>10, EvidenceRecorded, RecordDocuments DEF DiscloseHeldOut
  <1>11. ASSUME NEW c \in Configurations, BindComparison(c) PROVE Documents'
    <2> DEFINE e == [evidence EXCEPT !.comparisons =
                        [d \in DOMAIN @ \union {c} |->
                            IF d = c THEN [files |-> files[c], signers |-> allowed] ELSE @[d]]]
    <2>1. EvidenceOk(e)
      BY <1>2, EvidenceRecorded
    <2>2. Record(e)
      BY <1>11 DEF BindComparison
    <2> HIDE DEF e
    <2> QED
      BY <2>1, <2>2, RecordDocuments
  <1>12. ASSUME NEW c \in Configurations, NEW schedule \in Schedules, BindRuns(c, schedule)
         PROVE  Documents'
    <2> DEFINE evaluation == [edition |-> work', tasks |-> taskSet, schedule |-> schedule]
    <2>1. evaluation \in EvaluationType
      BY <1>1, <1>2, <1>12 DEF BindRuns, EvaluationType
    <2> QED
      BY <1>1, <1>12, <2>1, WritesDocuments DEF BindRuns, DocumentOk
  <1>13. ASSUME NEW c \in Configurations, NEW worth \in Worths, Score(c, worth)
         PROVE  Documents'
    <2> DEFINE document == [edition |-> work', evaluation |-> files[c].evaluation.edition,
                            worth |-> worth]
    <2>1. files[c].evaluation \in EvaluationType
      BY <1>13 DEF Score, Documents, FilesOk
    <2>2. document \in ResultType
      BY <1>1, <1>13, <2>1 DEF Score, EvaluationType, ResultType
    <2> QED
      BY <1>1, <1>13, <2>2, WritesDocuments DEF Score, DocumentOk
  <1>14. ASSUME NEW p \in Signers, Revoke(p) PROVE Documents'
    <2>1. /\ UNCHANGED <<contract, taskSet, evidence, files, command, auditor>>
          /\ work' \in 0..MaxWork
      BY <1>1, <1>14 DEF Revoke
    <2>2. allowed' \subseteq Signers /\ raced' \subseteq Configurations
      BY <1>14 DEF Revoke, Documents
    <2>3. EvidenceOk(evidence)' /\ contract' \in InitialContracts /\ taskSet' \in InitialContracts
      BY <1>2, <2>1 DEF EvidenceOk, Documents
    <2> QED
      BY <2>1, <2>2, <2>3, PaperDocuments
  <1> QED
    BY <1>4, <1>5, <1>6, <1>7, <1>8, <1>9, <1>10, <1>11, <1>12, <1>13, <1>14 DEF Maintain

\* The steps of the commands.
LEMMA CommandDocuments ==
    ASSUME Documents,
           \/ \E name \in {"sign", "verify"}, c \in Configurations, p \in Signers :
                  StartCommand(name, c, p)
           \/ Sign \/ Verify \/ RaiseCommand
    PROVE  Documents'
  <1>1. ASSUME UNCHANGED <<maintained, auditor, raced, work>>,
               command' # None => CommandReads'
        PROVE  Documents'
    <2>1. UNCHANGED <<contract, taskSet, evidence, files, allowed, auditor, raced, work>>
      BY <1>1 DEF maintained
    <2>2. /\ allowed' \subseteq Signers /\ raced' \subseteq Configurations
          /\ EvidenceOk(evidence)' /\ contract' \in InitialContracts
          /\ taskSet' \in InitialContracts /\ work' \in 0..MaxWork
      BY <2>1 DEF EvidenceOk, Documents
    <2> QED
      BY <1>1, <2>1, <2>2, PaperDocuments
  <1>2. ASSUME NEW name \in {"sign", "verify"}, NEW c \in Configurations, NEW p \in Signers,
               StartCommand(name, c, p)
        PROVE  Documents'
    <2>1. command' = [name |-> name, at |-> c, signer |-> p]
          /\ UNCHANGED <<maintained, auditor, raced, work>>
      BY <1>2 DEF StartCommand
    <2>2. files[c].evaluation # None /\ files[c].result # None
          /\ (name = "verify" => files[c].attestation # None)
      BY <1>2 DEF StartCommand, Attestable
    <2>3. files' = files
      BY <2>1 DEF maintained
    <2>4. CommandReads'
      BY <2>1, <2>2, <2>3 DEF CommandReads
    <2> QED
      BY <1>1, <2>1, <2>4
  <1>3. ASSUME command # None
        PROVE  /\ CommandReads
               /\ files[command.at].evaluation \in EvaluationType
               /\ files[command.at].result \in ResultType
    <2>1. CommandReads
      BY <1>3 DEF Documents
    <2> QED
      BY <2>1 DEF Documents, CommandReads, FilesOk
  <1>4. work \in 0..MaxWork
    BY DEF Documents
  <1>5. CASE Sign
    <2> DEFINE attestation == [statement |-> Statement(files[command.at]),
                               signer |-> command.signer]
    <2>1. attestation \in AttestationType
      BY <1>3, <1>5 DEF Sign, Statement, AttestationType, StatementType, CommandReads
    <2> QED
      BY <1>3, <1>4, <1>5, <2>1, WritesDocuments DEF Sign, DocumentOk, CommandReads
  <1>6. CASE Verify
    <2> DEFINE attestation == files[command.at].attestation
    <2>1. attestation \in AttestationType
      BY <1>3, <1>6 DEF Verify, CommandReads, Documents, FilesOk
    <2>2. Verification(attestation) \in VerificationType
      BY <2>1 DEF Verification, VerificationType, AttestationType
    <2> QED
      BY <1>3, <1>4, <1>6, <2>2, WritesDocuments DEF Verify, DocumentOk, CommandReads
  <1>7. CASE RaiseCommand
    BY <1>1, <1>7 DEF RaiseCommand
  <1> QED
    BY <1>2, <1>5, <1>6, <1>7

\* The steps of the audit, which writes nothing.
LEMMA AuditDocuments ==
    ASSUME IInv, Documents,
           \/ StartAudit \/ ResolveTaskSet \/ ParseTaskSet \/ ValidateContract \/ ReadContract
           \/ (\E c \in Configurations : Resolve(c))
           \/ ParseComparison \/ VerifyComparison \/ Conclude \/ RaiseAudit
    PROVE  Documents'
  <1>1. UNCHANGED <<contract, taskSet, evidence, files, allowed, command, work>>
        /\ raced' \in {raced, {}}
    BY DEF maintained, StartAudit, ResolveTaskSet, ParseTaskSet, ValidateContract, ReadContract,
       Resolve, ParseComparison, VerifyComparison, Conclude, RaiseAudit, Reads
  <1>2. /\ allowed' \subseteq Signers /\ raced' \subseteq Configurations
        /\ EvidenceOk(evidence)' /\ contract' \in InitialContracts
        /\ taskSet' \in InitialContracts /\ work' \in 0..MaxWork
    BY <1>1 DEF EvidenceOk, Documents
  <1>3. auditor' # None => /\ auditor'.compared \subseteq DOMAIN auditor'.evidence.comparisons
                           /\ auditor'.step > 0 =>
                                  auditor'.at \in DOMAIN auditor'.evidence.comparisons
                           /\ DOMAIN auditor'.evidence.comparisons \subseteq Configurations
    <2>1. CASE StartAudit
      BY <2>1 DEF StartAudit, Documents, EvidenceOk
    <2>2. ASSUME auditor # None
          PROVE  /\ DOMAIN auditor = AuditorFields
                 /\ auditor.compared \subseteq DOMAIN auditor.evidence.comparisons
                 /\ auditor.step > 0 => auditor.at \in DOMAIN auditor.evidence.comparisons
                 /\ DOMAIN auditor.evidence.comparisons \subseteq Configurations
      BY <2>2 DEF IInv, Audit, Documents
    <2>3. CASE ResolveTaskSet \/ ParseTaskSet \/ ValidateContract \/ ReadContract
      BY <2>2, <2>3 DEF ResolveTaskSet, ParseTaskSet, ValidateContract, ReadContract, Reads,
         AuditorFields
    <2>4. ASSUME NEW c \in Configurations, Resolve(c)
          PROVE  /\ auditor'.compared \subseteq DOMAIN auditor'.evidence.comparisons
                 /\ auditor'.step > 0 => auditor'.at \in DOMAIN auditor'.evidence.comparisons
                 /\ DOMAIN auditor'.evidence.comparisons \subseteq Configurations
      BY <2>2, <2>4 DEF Resolve, Prepared, Reads, AuditorFields
    <2>5. CASE ParseComparison
      BY <2>2, <2>5 DEF ParseComparison, Reads, AuditorFields
    <2>6. CASE VerifyComparison
      BY <2>2, <2>6 DEF VerifyComparison, Reads, AuditorFields
    <2>7. CASE Conclude \/ RaiseAudit
      BY <2>7 DEF Conclude, RaiseAudit
    <2> QED
      BY <2>1, <2>3, <2>4, <2>5, <2>6, <2>7
  <1> QED
    BY <1>1, <1>2, <1>3, PaperDocuments

\* No step breaks it.
LEMMA NextDocuments == IInv /\ Documents /\ [Next]_vars => Documents'
  <1> SUFFICES ASSUME IInv, Documents, [Next]_vars PROVE Documents'
    OBVIOUS
  <1>1. CASE UNCHANGED vars
    BY <1>1 DEF vars, maintained, Documents, EvidenceOk, CommandReads
  <1>2. CASE Next
    BY <1>2, MaintainDocuments, CommandDocuments, AuditDocuments DEF Next
  <1> QED
    BY <1>1, <1>2

\* Every document of a release keeps its type, and so does what an audit holds of them.
THEOREM TypeCorrect == Spec => []TypeOK
  <1>1. Documents => TypeOK
    BY DEF Documents, TypeOK, InitialContracts, EvidenceOk
  <1> QED
    BY <1>1, InitIInv, NextIInv, InitDocuments, NextDocuments, PTL DEF Spec

\* The category of a task is that of its contract.
LEMMA CategoriesCovered ==
    ASSUME NEW k, NEW more, NEW less \in SUBSET more, CategoriesOf(k, less) = ReleaseCategories,
           \A t \in more \ less : Contract[k[t]].category \in ReleaseCategories
    PROVE  CategoriesOf(k, more) = ReleaseCategories
  <1> DEFINE category(t) == Contract[k[t]].category
  <1>1. \A t \in less : category(t) \in ReleaseCategories
    BY DEF CategoriesOf
  <1>2. \A c \in ReleaseCategories : \E t \in less : category(t) = c
    BY DEF CategoriesOf
  <1>3. CategoriesOf(k, more) = {category(t) : t \in more}
    BY DEF CategoriesOf
  <1>4. \A t \in more : category(t) \in ReleaseCategories
    BY <1>1
  <1> HIDE DEF category
  <1> QED
    BY <1>2, <1>3, <1>4

\* Nothing that says so is an objection.
LEMMA NoObjection ==
    ASSUME NEW D, NEW E, D \subseteq E, \A d \in E \ D : d.decision = "accepted",
           Objections(D) = {}
    PROVE  Objections(E) = {} /\ Accepted(D) \subseteq Accepted(E)
  BY DEF Objections, Accepted

\* What an audit asks of the reviews is still met when more of them are in favour, and so is
\* what it asks of the experts and of the audits.
LEMMA SupportedGates ==
    ASSUME NEW e, NEW f, NEW k \in InitialContracts, EvidenceOk(e), EvidenceOk(f),
           Supports(e, f, k)
    PROVE  /\ ReviewsComplete(e, k) => ReviewsComplete(f, k)
           /\ ExpertsComplete(e, k) => ExpertsComplete(f, k)
           /\ AuditsComplete(e) => AuditsComplete(f)
           /\ HeldOutComplete(e) => HeldOutComplete(f)
           /\ InOrder(e, k) => InOrder(f, k)
  <1>1. ASSUME ReviewsComplete(e, k) PROVE ReviewsComplete(f, k)
    <2>1. Objections(f.reviews) = {} /\ Accepted(e.reviews) \subseteq Accepted(f.reviews)
      BY <1>1, NoObjection DEF Supports, ReviewsComplete
    <2>2. \A r \in f.reviews : r.task \in Tasks
      BY DEF EvidenceOk, ReviewType
    <2>3. {r.task : r \in Accepted(f.reviews)} \subseteq Tasks
      BY <2>2 DEF Accepted
    <2>4. \A t \in Tasks : \E r \in Accepted(f.reviews) : r.task = t
      BY <1>1, <2>1 DEF ReviewsComplete
    <2> QED
      BY <2>1, <2>3, <2>4 DEF ReviewsComplete
  <1>2. ASSUME ExpertsComplete(e, k) PROVE ExpertsComplete(f, k)
    <2> DEFINE less == {x.task : x \in Accepted(e.experts)}
               more == {x.task : x \in Accepted(f.experts)}
    <2>1. Objections(f.experts) = {} /\ Accepted(e.experts) \subseteq Accepted(f.experts)
      BY <1>2, NoObjection DEF Supports, ExpertsComplete
    <2>2. less \subseteq more
      BY <2>1
    <2>3. ASSUME NEW t \in more \ less PROVE Contract[k[t]].category \in ReleaseCategories
      <3>1. PICK x \in Accepted(f.experts) : x.task = t
        OBVIOUS
      <3>2. x \in f.experts \ e.experts
        BY <3>1, <2>3 DEF Accepted
      <3> QED
        BY <3>1, <3>2 DEF Supports
    <2>4. CategoriesOf(k, less) = ReleaseCategories
      BY <1>2 DEF ExpertsComplete
    <2> HIDE DEF less, more
    <2>5. CategoriesOf(k, more) = ReleaseCategories
      BY <2>2, <2>3, <2>4, CategoriesCovered
    <2> QED
      BY <2>1, <2>5 DEF ExpertsComplete, more
  <1>3. ASSUME NEW kind, Sound(e, kind) PROVE Sound(f, kind)
    BY <1>3 DEF Sound, Supports
  <1>4. AuditsComplete(e) => AuditsComplete(f)
    BY <1>3 DEF AuditsComplete
  <1>5. HeldOutComplete(e) => HeldOutComplete(f)
    BY <1>3 DEF HeldOutComplete, Supports
  <1>6. InOrder(e, k) => InOrder(f, k)
    BY DEF InOrder, Supports, EvidenceOk
  <1> QED
    BY <1>1, <1>2, <1>4, <1>5, <1>6

\* A gate has passed exactly when what it asks for is there.
LEMMA StatusPassed ==
    ASSUME NEW passed \in BOOLEAN, NEW failed \in BOOLEAN
    PROVE  Status(passed, failed) = "passed" <=> passed
  BY DEF Status

\* Evidence in favour, of the tasks as they are sealed and of the categories of the release,
\* closes no gate that was open and makes no manifest one that is refused (audit_release in
\* calibration.py).
THEOREM SupportOpens == Spec => SupportNeverBlocks
  <1>1. Documents /\ Documents' =>
            [Supports(evidence, evidence', taskSet) =>
                /\ InOrder(evidence, taskSet) => InOrder(evidence', taskSet)
                /\ Blockers(evidence', taskSet, DOMAIN evidence'.comparisons) \subseteq
                       Blockers(evidence, taskSet, DOMAIN evidence.comparisons)]_evidence
    <2> DEFINE e == evidence
               f == evidence'
               k == taskSet
               m == DOMAIN e.comparisons
               n == DOMAIN f.comparisons
    <2> SUFFICES ASSUME Documents, Documents', Supports(e, f, k)
                 PROVE  /\ InOrder(e, k) => InOrder(f, k)
                        /\ Blockers(f, k, n) \subseteq Blockers(e, k, m)
      OBVIOUS
    <2>1. EvidenceOk(e) /\ EvidenceOk(f) /\ k \in InitialContracts
      BY DEF Documents, EvidenceOk
    <2>2. m = Configurations => n = Configurations
      BY <2>1 DEF EvidenceOk, Supports
    <2>3. e.materials = f.materials
      BY DEF Supports
    <2> HIDE DEF e, f, k, m, n
    <2> DEFINE g == Gates(e, k, m)
               h == Gates(f, k, n)
    <2>4. /\ ReviewsComplete(e, k) => ReviewsComplete(f, k)
          /\ ExpertsComplete(e, k) => ExpertsComplete(f, k)
          /\ AuditsComplete(e) => AuditsComplete(f)
          /\ HeldOutComplete(e) => HeldOutComplete(f)
          /\ InOrder(e, k) => InOrder(f, k)
      BY <2>1, SupportedGates
    <2>5. g.independent_human_review = "passed" => h.independent_human_review = "passed"
      BY <2>4, StatusPassed DEF Gates, ReviewsComplete
    <2>6. g.expert_calibration = "passed" => h.expert_calibration = "passed"
      BY <2>4, StatusPassed DEF Gates, ExpertsComplete
    <2>7. g.release_audits = "passed" => h.release_audits = "passed"
      BY <2>4, StatusPassed DEF Gates, AuditsComplete, AuditFailed
    <2>8. g.held_out = "passed" => h.held_out = "passed"
      BY <2>4, StatusPassed DEF Gates, HeldOutComplete
    <2>9. /\ g.reference_comparisons = "passed" => h.reference_comparisons = "passed"
          /\ g.signed_references = "passed" => h.signed_references = "passed"
      BY <2>2, StatusPassed DEF Gates
    <2>10. /\ g.corpus_balance = h.corpus_balance
           /\ g.sequential_coverage = h.sequential_coverage
           /\ g.machine_admission = h.machine_admission
           /\ g.owner_approval = h.owner_approval
           /\ g.adversarial_coverage = h.adversarial_coverage
           /\ g.reference_configurations = h.reference_configurations
           /\ g.common_harness_decision = h.common_harness_decision
           /\ g.license_provenance = h.license_provenance
           /\ g.public_materials = h.public_materials
           /\ g.cross_version_discipline = h.cross_version_discipline
      BY <2>3 DEF Gates
    <2>11. DOMAIN g = DOMAIN h
           /\ DOMAIN g = {"corpus_balance", "sequential_coverage", "machine_admission",
                          "owner_approval", "independent_human_review", "expert_calibration",
                          "adversarial_coverage", "reference_configurations",
                          "common_harness_decision", "reference_comparisons",
                          "signed_references", "license_provenance", "release_audits",
                          "public_materials", "held_out", "cross_version_discipline"}
      BY DEF Gates
    <2> HIDE DEF g, h
    <2>12. \A gate \in DOMAIN g : g[gate] = "passed" => h[gate] = "passed"
      BY <2>5, <2>6, <2>7, <2>8, <2>9, <2>10, <2>11
    <2>13. \A gate \in DOMAIN h : h[gate] # "passed" => gate \in DOMAIN g /\ g[gate] # "passed"
      BY <2>11, <2>12
    <2>14. Blockers(f, k, n) \subseteq Blockers(e, k, m)
      BY <2>13, Zenon DEF Blockers, g, h
    <2> QED
      BY <2>4, <2>14
  <1> QED
    BY <1>1, InitIInv, NextIInv, InitDocuments, NextDocuments, PTL DEF Spec, SupportNeverBlocks
=============================================================================
