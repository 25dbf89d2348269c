-------------------------- MODULE EvaluationProofs --------------------------
(***************************************************************************)
(* Evaluation for any slots, any verdicts a run may publish and any number *)
(* of editions: what an accepted evaluation result was computed from, and  *)
(* what its scores can be.                                                 *)
(***************************************************************************)
EXTENDS Evaluation, FiniteSetTheorems, TLAPS

\* The files of a slot were made at editions it has had, each result below its own run id;
\* the run ids to come have no directory.
EditionsOrdered(s) ==
    /\ manifest[s].edition <= edition[s] /\ manifest[s].run <= edition[s]
    /\ \A r \in 1..MaxEditions :
          /\ result[s][r].kind = "bundle" =>
                 result[s][r].run = r /\ result[s][r].edition <= edition[s]
          /\ r > edition[s] => result[s][r] = Nothing

\* A retry that the last result allows is within the attempts of the manifest.
RetryFits(s) ==
    HasBundle(s) /\ Latest(s).bundle.retry.eligible => manifest[s].attempt < MaxAttempts

\* The bound result is a run of the bound manifest, both files are the bound ones or later
\* editions, and whatever was run from the bound manifest is the attempt it asks for.
BoundOnce(s) ==
    LET b == binding[s]
        file == AtBoundPath(s)
    IN  /\ b.result.manifest = b.manifest.edition
        /\ b.result.run = b.manifest.run
        /\ b.result.bundle.attempt = b.manifest.attempt
        /\ b.manifest.edition <= edition[s] /\ b.result.edition <= edition[s]
        /\ manifest[s] = b.manifest \/ manifest[s].edition > b.manifest.edition
        /\ file = b.result \/ edition[s] > b.result.edition
        /\ file.kind = "bundle" /\ file.manifest = b.manifest.edition =>
               file.bundle.attempt = b.manifest.attempt

Slot(s) == EditionsOrdered(s) /\ RetryFits(s) /\ (binding # NoBinding => BoundOnce(s))

\* What the evaluator has of the slot it is at: what it hashed is as it was, and what it
\* parsed is what was bound, unless the file was rewritten meanwhile; and even then the
\* result is one below the bound run id.
Reader ==
    LET s == reader.slot
        b == binding[s]
    IN  reader # NoSlot =>
            /\ s \notin raced =>
                  /\ reader.next \in {"hash result", "load manifest"} => ManifestBound(s)
                  /\ reader.next \in {"load manifest", "load result"} => ResultBound(s)
                  /\ reader.next \in {"load result", "check"} => reader.files[1] = b.manifest
                  /\ reader.next = "check" => reader.files[2] = b.result
            /\ reader.next \in {"load result", "check"} =>
                  reader.files[1] = b.manifest \/ ~ManifestBound(s)
            /\ reader.next = "check" =>
                  /\ reader.files[2] = b.result \/ ~ResultBound(s)
                  /\ reader.files[2].run = b.manifest.run
                  /\ reader.files[2].manifest = b.manifest.edition =>
                        reader.files[2].bundle.attempt = b.manifest.attempt

Reading ==
    /\ stage # "idle" => binding # NoBinding
    /\ stage = "idle" => DOMAIN taken = {}
    /\ stage # "reading" => reader = NoSlot
    /\ Reader
    /\ \A s \in DOMAIN taken \ raced : taken[s] = binding[s]
    /\ OnlyBoundRunsAreTaken
    /\ stage = "accepted" => DOMAIN taken = Slots

Rejected ==
    stage = "rejected" /\ cause.error = "files changed" =>
        cause.slot \in Slots /\ ~FilesBound(cause.slot)

IInv ==
    /\ TypeOK
    /\ \A s \in Slots : Slot(s)
    /\ Reading
    /\ Rejected

\* A bundle that execute_run publishes has the type of one, and allows a retry only before
\* the last attempt.
LEMMA BundleTyped ==
    ASSUME NEW o \in Verdicts, NEW attempt \in 1..MaxAttempts
    PROVE  LET b == Bundle(o.verdict, o.harbor, attempt)
           IN  /\ b \in BundleType
               /\ b.attempt = attempt
               /\ b.retry.eligible => attempt < MaxAttempts
  <1>1. o.verdict \in VerdictType /\ o.harbor \in EvidenceOfHarborType
    BY VerdictsAssumption
  <1>2. MaxAttempts \in Nat
    BY RetryAssumption
  <1> DEFINE decision == RetryDecision(o.verdict, attempt)
             remaining == MaxAttempts - attempt
             retry == [eligible |-> decision = "retry_allowed", decision |-> decision,
                       remaining |-> remaining]
  <1>3. decision \in Decisions /\ (decision = "retry_allowed" => attempt # MaxAttempts)
    BY DEF RetryDecision, Decisions
  <1>4. remaining \in Nat /\ (decision = "retry_allowed" => attempt < MaxAttempts)
    BY <1>2, <1>3
  <1>5. Bundle(o.verdict, o.harbor, attempt) =
            [verdict |-> o.verdict, harbor |-> o.harbor,
             completed |-> o.verdict.classification = "valid_pass",
             attempt |-> attempt, retry |-> retry]
    BY DEF Bundle, RetryDisposition
  <1> HIDE DEF decision, remaining
  <1>6. retry \in RetryType
    BY <1>3, <1>4 DEF RetryType
  <1>7. retry.eligible => attempt < MaxAttempts
    BY <1>4
  <1> HIDE DEF retry
  <1>8. attempt \in Nat
    BY <1>2
  <1> QED
    BY <1>1, <1>5, <1>6, <1>7, <1>8 DEF BundleType

\* The initial states satisfy the invariant.
LEMMA InitIInv == Init => IInv
  <1> SUFFICES ASSUME Init PROVE IInv
    OBVIOUS
  <1> USE DEF Init
  <1>1. MaxAttempts \in Nat /\ MaxAttempts >= 1 /\ MaxEditions \in Nat /\ MaxEditions >= 1
    BY RetryAssumption, SlotsAssumption
  <1>2. manifest \in [Slots -> ManifestType]
    BY <1>1 DEF ManifestFile, ManifestType, ReferenceRun
  <1>3. edition \in [Slots -> 1..MaxEditions]
    BY <1>1
  <1>4. TypeOK
    <2>1. DOMAIN taken = {}
      OBVIOUS
    <2>2. FilesType(taken)
      BY <2>1 DEF FilesType
    <2>3. result \in [Slots -> [1..MaxEditions -> {Nothing, Lost} \union ResultType]]
      OBVIOUS
    <2> QED
      BY <1>2, <1>3, <2>1, <2>2, <2>3 DEF TypeOK
  <1>5. ASSUME NEW s \in Slots PROVE Slot(s)
    <2>1. \A r \in 1..MaxEditions : result[s][r] = Nothing /\ result[s][r].kind # "bundle"
      BY DEF Nothing
    <2>2. manifest[s] = [edition |-> 1, attempt |-> 1, run |-> 1] /\ edition[s] = 1
      BY DEF ManifestFile, ReferenceRun
    <2>3. ~HasBundle(s)
      BY <1>1, <2>1, <2>2 DEF HasBundle, Latest
    <2> QED
      BY <2>1, <2>2, <2>3 DEF Slot, EditionsOrdered, RetryFits
  <1> QED
    BY <1>4, <1>5 DEF IInv, Reading, Reader, Rejected, OnlyBoundRunsAreTaken

-----------------------------------------------------------------------------
(* The operator, whose steps are on one slot. *)

\* Editions are numbers that can be compared.
LEMMA EditionsTyped ==
    ASSUME TypeOK, NEW s \in Slots
    PROVE  /\ MaxEditions \in Nat
           /\ edition[s] \in Nat /\ edition[s] \in 1..MaxEditions
           /\ manifest[s] \in ManifestType
           /\ manifest[s].edition \in Nat /\ manifest[s].run \in 1..MaxEditions
           /\ \A r \in 1..MaxEditions :
                 /\ result[s][r].kind = "bundle" =>
                        result[s][r] \in ResultType /\ result[s][r].edition \in Nat
                 /\ result[s][r].kind # "bundle" => result[s][r] \in {Nothing, Lost}
           /\ binding # NoBinding =>
                  /\ binding[s].manifest \in ManifestType
                  /\ binding[s].manifest.edition \in Nat
                  /\ binding[s].manifest.run \in 1..MaxEditions
                  /\ binding[s].result \in ResultType /\ binding[s].result.kind = "bundle"
                  /\ binding[s].result.edition \in Nat
  <1>1. MaxEditions \in Nat
    BY SlotsAssumption
  <1>2. \A f \in ResultType : f.edition \in Nat /\ f.kind = "bundle"
    BY <1>1 DEF ResultType
  <1>3. \A m \in ManifestType : m.edition \in Nat /\ m.run \in 1..MaxEditions
    BY <1>1 DEF ManifestType
  <1>4. edition[s] \in Nat /\ edition[s] \in 1..MaxEditions /\ manifest[s] \in ManifestType
    BY <1>1 DEF TypeOK
  <1>5. ASSUME NEW r \in 1..MaxEditions
        PROVE  /\ result[s][r].kind = "bundle" =>
                      result[s][r] \in ResultType /\ result[s][r].edition \in Nat
               /\ result[s][r].kind # "bundle" => result[s][r] \in {Nothing, Lost}
    <2>1. result[s][r] \in {Nothing, Lost} \union ResultType
      BY DEF TypeOK
    <2> QED
      BY <1>2, <2>1 DEF Nothing, Lost
  <1>6. binding # NoBinding =>
            binding[s].manifest \in ManifestType /\ binding[s].result \in ResultType
    BY DEF TypeOK, FilesType
  <1> QED
    BY <1>1, <1>2, <1>3, <1>4, <1>5, <1>6

\* A step on the files of one slot.
OnSlot(s) ==
    /\ UNCHANGED <<binding, evaluator>>
    /\ \A t \in Slots \ {s} : /\ edition'[t] = edition[t]
                              /\ manifest'[t] = manifest[t]
                              /\ result'[t] = result[t]
    /\ raced \subseteq raced' /\ raced' \subseteq raced \union {s}
    /\ binding # NoBinding =>
          /\ ~ManifestBound(s) => ~ManifestBound(s)'
          /\ ~ResultBound(s) => ~ResultBound(s)'
          /\ s \notin raced' /\ ManifestAwaited(s) /\ ManifestBound(s) => ManifestBound(s)'
          /\ s \notin raced' /\ ResultAwaited(s) /\ ResultBound(s) => ResultBound(s)'

\* It leaves the rest of the invariant alone.
LEMMA OnSlotIInv ==
    ASSUME IInv, NEW s \in Slots, OnSlot(s), TypeOK', Slot(s)'
    PROVE  IInv'
  <1>1. UNCHANGED <<binding, stage, reader, taken, cause>>
    BY DEF OnSlot, evaluator
  <1>2. ASSUME NEW t \in Slots, t # s
        PROVE  /\ edition'[t] = edition[t] /\ manifest'[t] = manifest[t]
               /\ result'[t] = result[t]
               /\ ManifestBound(t)' = ManifestBound(t) /\ ResultBound(t)' = ResultBound(t)
               /\ Slot(t)'
    <2>1. edition'[t] = edition[t] /\ manifest'[t] = manifest[t] /\ result'[t] = result[t]
      BY <1>2 DEF OnSlot
    <2>2. ManifestBound(t)' = ManifestBound(t) /\ ResultBound(t)' = ResultBound(t)
      BY <1>1, <2>1 DEF ManifestBound, ResultBound, AtBoundPath
    <2>3. Slot(t)
      BY DEF IInv
    <2>4. EditionsOrdered(t)' /\ RetryFits(t)'
      BY <2>1, <2>3 DEF Slot, EditionsOrdered, RetryFits, HasBundle, Latest
    <2>5. binding # NoBinding => BoundOnce(t)'
      <3> SUFFICES ASSUME binding # NoBinding PROVE BoundOnce(t)'
        OBVIOUS
      <3>1. BoundOnce(t) /\ binding' = binding
        BY <1>1, <2>3 DEF Slot
      <3>2. AtBoundPath(t)' = AtBoundPath(t)
        BY <2>1, <3>1 DEF AtBoundPath
      <3> QED
        BY <2>1, <3>1, <3>2 DEF BoundOnce
    <2> QED
      BY <1>1, <2>1, <2>2, <2>4, <2>5 DEF Slot
  <1>3. \A t \in Slots : Slot(t)'
    BY <1>2
  <1>4. raced \subseteq raced'
    BY DEF OnSlot
  <1>5. Reader'
    <2> SUFFICES ASSUME reader # NoSlot PROVE Reader'
      BY <1>1 DEF Reader
    <2>1. reader.slot \in Slots /\ binding # NoBinding /\ Reader
      BY DEF IInv, TypeOK, ReaderType, Reading
    <2>2. CASE reader.slot # s
      BY <1>1, <1>2, <1>4, <2>1, <2>2 DEF Reader
    <2>3. CASE reader.slot = s
      <3>1. /\ ~ManifestBound(s) => ~ManifestBound(s)'
            /\ ~ResultBound(s) => ~ResultBound(s)'
            /\ s \notin raced' /\ ManifestAwaited(s) /\ ManifestBound(s) => ManifestBound(s)'
            /\ s \notin raced' /\ ResultAwaited(s) /\ ResultBound(s) => ResultBound(s)'
        BY <2>1 DEF OnSlot
      <3>2. /\ reader.next \in {"hash result", "load manifest"} => ManifestAwaited(s)
            /\ reader.next \in {"load manifest", "load result"} => ResultAwaited(s)
        BY <2>3 DEF ManifestAwaited, ResultAwaited
      <3> QED
        BY <1>1, <1>4, <2>1, <2>3, <3>1, <3>2 DEF Reader
    <2> QED
      BY <2>2, <2>3
  <1>6. Reading'
    BY <1>1, <1>4, <1>5 DEF IInv, Reading, OnlyBoundRunsAreTaken
  <1>7. Rejected'
    <2> SUFFICES ASSUME NEW t, t = cause.slot, stage = "rejected", cause.error = "files changed"
                 PROVE  t \in Slots /\ ~FilesBound(t)'
      BY <1>1 DEF Rejected, FilesBound, ManifestBound, ResultBound, AtBoundPath
    <2>1. t \in Slots /\ ~FilesBound(t) /\ binding # NoBinding
      BY DEF IInv, Rejected, Reading
    <2>2. CASE t = s
      BY <2>1, <2>2 DEF OnSlot, FilesBound
    <2>3. CASE t # s
      BY <1>2, <2>1, <2>3 DEF FilesBound
    <2> QED
      BY <2>1, <2>2, <2>3
  <1> QED
    BY <1>3, <1>6, <1>7 DEF IInv

\* A file written below the run id of the manifest.
LEMMA BelowIs ==
    ASSUME TypeOK, NEW s \in Slots, NEW f, result' = Below(s, f)
    PROVE  /\ \A t \in Slots \ {s} : result'[t] = result[t]
           /\ result'[s][manifest[s].run] = f
           /\ \A r \in (1..MaxEditions) \ {manifest[s].run} : result'[s][r] = result[s][r]
           /\ f \in {Nothing, Lost} \union ResultType =>
                 result' \in [Slots -> [1..MaxEditions -> {Nothing, Lost} \union ResultType]]
  <1>1. manifest[s].run \in 1..MaxEditions
    BY EditionsTyped
  <1>2. result \in [Slots -> [1..MaxEditions -> {Nothing, Lost} \union ResultType]]
    BY DEF TypeOK
  <1> QED
    BY <1>1, <1>2 DEF Below

\* A run publishes next to the manifest it was given.
LEMMA RunIInv ==
    ASSUME IInv, NEW s \in Slots, Run(s)
    PROVE  IInv'
  <1> DEFINE m == manifest[s]
  <1>1. /\ MaxEditions \in Nat /\ edition[s] \in 1..MaxEditions
        /\ m \in ManifestType /\ m.edition \in 1..MaxEditions
        /\ m.run \in 1..MaxEditions /\ m.attempt \in 1..MaxAttempts
    BY EditionsTyped DEF IInv, ManifestType
  <1>2. UNCHANGED <<edition, manifest, binding, stage, reader, taken, cause, raced>>
        /\ result[s][m.run] = Nothing /\ TypeOK /\ Slot(s)
    BY DEF Run, evaluator, Latest, IInv
  <1>3. PICK f : /\ result' = Below(s, f)
                 /\ f \in {Lost} \union ResultType
                 /\ f.kind = "bundle" =>
                       /\ f.edition = edition[s] /\ f.manifest = m.edition /\ f.run = m.run
                       /\ f.bundle.attempt = m.attempt
                       /\ f.bundle.retry.eligible => m.attempt < MaxAttempts
    <2>1. CASE result' = Below(s, Lost)
      BY <2>1 DEF Lost
    <2>2. CASE \E o \in Verdicts :
                  result' = Below(s, ResultFile(edition[s], m,
                                         Bundle(o.verdict, o.harbor, m.attempt), o.calibration))
      <3>1. PICK o \in Verdicts :
               result' = Below(s, ResultFile(edition[s], m,
                                      Bundle(o.verdict, o.harbor, m.attempt), o.calibration))
        BY <2>2
      <3> DEFINE bundle == Bundle(o.verdict, o.harbor, m.attempt)
                 f == ResultFile(edition[s], m, bundle, o.calibration)
      <3>2. /\ bundle \in BundleType /\ bundle.attempt = m.attempt
            /\ bundle.retry.eligible => m.attempt < MaxAttempts
        BY <1>1, BundleTyped
      <3>3. o.calibration \in {NoCalibration} \union CalibrationType
        BY VerdictsAssumption
      <3>4. result' = Below(s, f)
        BY <3>1
      <3> HIDE DEF bundle, m
      <3>5. /\ f \in ResultType /\ f.edition = edition[s] /\ f.manifest = m.edition
            /\ f.run = m.run /\ f.bundle = bundle
        BY <1>1, <3>2, <3>3 DEF ResultFile, ResultType
      <3> QED
        BY <3>2, <3>4, <3>5
    <2> QED
      BY <2>1, <2>2 DEF Run
  <1>4. /\ \A t \in Slots \ {s} : result'[t] = result[t]
        /\ result'[s][m.run] = f
        /\ \A r \in (1..MaxEditions) \ {m.run} : result'[s][r] = result[s][r]
        /\ result' \in [Slots -> [1..MaxEditions -> {Nothing, Lost} \union ResultType]]
    BY <1>2, <1>3, BelowIs
  <1>5. TypeOK'
    BY <1>2, <1>4 DEF TypeOK, FilesType
  <1>6. EditionsOrdered(s)'
    <2>1. EditionsOrdered(s) /\ m.run <= edition[s] /\ edition[s] \in Nat /\ m.run \in Nat
      BY <1>1, <1>2 DEF Slot, EditionsOrdered
    <2>2. f.kind = "bundle" => f.run = m.run /\ f.edition <= edition[s]
      BY <1>3, <2>1
    <2> QED
      BY <1>2, <1>4, <2>1, <2>2 DEF EditionsOrdered
  <1>7. RetryFits(s)'
    BY <1>2, <1>3, <1>4 DEF RetryFits, HasBundle, Latest
  <1>8. binding # NoBinding =>
            /\ BoundOnce(s)'
            /\ ManifestBound(s)' = ManifestBound(s)
            /\ ~ResultBound(s) => ~ResultBound(s)'
            /\ ResultBound(s) => ResultBound(s)'
    <2> SUFFICES ASSUME binding # NoBinding
                 PROVE  /\ BoundOnce(s)'
                        /\ ManifestBound(s)' = ManifestBound(s)
                        /\ ~ResultBound(s) => ~ResultBound(s)'
                        /\ ResultBound(s) => ResultBound(s)'
      OBVIOUS
    <2> DEFINE b == binding[s]
    <2>1. /\ b.manifest.run \in 1..MaxEditions /\ b.result.kind = "bundle"
          /\ b.result.edition \in Nat /\ b.manifest.edition \in Nat /\ m.edition \in Nat
          /\ edition[s] \in Nat
      BY <1>2, EditionsTyped
    <2>2. BoundOnce(s) /\ binding' = binding
      BY <1>2 DEF Slot
    <2>3. CASE b.manifest.run # m.run
      <3>1. AtBoundPath(s)' = AtBoundPath(s)
        BY <1>2, <1>4, <2>1, <2>3 DEF AtBoundPath
      <3> QED
        BY <1>2, <2>2, <3>1 DEF BoundOnce, ManifestBound, ResultBound
    <2>4. CASE b.manifest.run = m.run
      <3>1. AtBoundPath(s) = Nothing /\ AtBoundPath(s)' = f
        BY <1>2, <1>4, <2>4 DEF AtBoundPath
      <3>2. AtBoundPath(s) # b.result
        BY <2>1, <3>1 DEF Nothing
      <3>3. edition[s] > b.result.edition
        BY <2>2, <3>2 DEF BoundOnce
      <3>4. f # b.result
        BY <1>3, <2>1, <3>3
      <3>5. f.kind = "bundle" /\ f.manifest = b.manifest.edition =>
                f.bundle.attempt = b.manifest.attempt
        BY <1>3, <2>1, <2>2 DEF BoundOnce
      <3> QED
        BY <1>2, <2>2, <3>1, <3>2, <3>3, <3>4, <3>5 DEF BoundOnce, ManifestBound, ResultBound
    <2> QED
      BY <2>3, <2>4
  <1>9. OnSlot(s)
    BY <1>2, <1>4, <1>8 DEF OnSlot, evaluator
  <1> QED
    BY <1>2, <1>5, <1>6, <1>7, <1>8, <1>9, OnSlotIInv DEF Slot

\* Rewriting a slot starts a new edition of it.
LEMMA RewriteTyped ==
    ASSUME IInv, NEW s \in Slots, NEW stale, Rewrite(s, stale)
    PROVE  /\ edition'[s] = edition[s] + 1 /\ edition'[s] \in 1..MaxEditions
           /\ edition' \in [Slots -> 1..MaxEditions]
           /\ \A t \in Slots \ {s} : edition'[t] = edition[t]
           /\ raced \subseteq raced' /\ raced' \subseteq raced \union {s}
           /\ s \notin raced' => ~stale
           /\ UNCHANGED <<binding, stage, reader, taken, cause>>
  BY SlotsAssumption DEF Rewrite, IInv, TypeOK, evaluator

\* A manifest with a run id of its own, or with the old one and an attempt as low.
LEMMA RenewIInv ==
    ASSUME IInv, NEW s \in Slots, Rewrite(s, ManifestAwaited(s)), NEW m \in ManifestType,
           manifest' = [manifest EXCEPT ![s] = m], UNCHANGED result,
           m.edition = edition'[s],
           m.run = edition'[s] \/ (m.run = manifest[s].run /\ m.attempt <= manifest[s].attempt)
    PROVE  IInv'
  <1>1. /\ edition'[s] = edition[s] + 1 /\ edition'[s] \in 1..MaxEditions
        /\ edition' \in [Slots -> 1..MaxEditions]
        /\ \A t \in Slots \ {s} : edition'[t] = edition[t]
        /\ raced \subseteq raced' /\ raced' \subseteq raced \union {s}
        /\ s \notin raced' => ~ManifestAwaited(s)
        /\ UNCHANGED <<binding, stage, reader, taken, cause>>
    BY RewriteTyped
  <1>2. /\ manifest'[s] = m /\ result' = result
        /\ \A t \in Slots \ {s} : manifest'[t] = manifest[t]
        /\ manifest' \in [Slots -> ManifestType] /\ TypeOK /\ Slot(s)
    BY DEF IInv, TypeOK
  <1>3. /\ MaxEditions \in Nat /\ edition[s] \in Nat /\ manifest[s].edition \in Nat
        /\ manifest[s].run \in 1..MaxEditions /\ m.run \in 1..MaxEditions
        /\ \A r \in 1..MaxEditions : result[s][r].kind = "bundle" => result[s][r].edition \in Nat
    BY <1>2, EditionsTyped DEF ManifestType
  <1>4. TypeOK'
    <2>1. raced' \subseteq Slots
      BY <1>1, <1>2 DEF TypeOK
    <2> QED
      BY <1>1, <1>2, <2>1 DEF TypeOK, FilesType
  <1>5. EditionsOrdered(s)'
    BY <1>1, <1>2, <1>3 DEF Slot, EditionsOrdered
  <1>6. RetryFits(s)'
    <2>1. CASE m.run = edition'[s]
      <3>1. result[s][m.run] = Nothing
        BY <1>1, <1>2, <1>3, <2>1 DEF Slot, EditionsOrdered
      <3> QED
        BY <1>2, <3>1 DEF RetryFits, HasBundle, Latest, Nothing
    <2>2. CASE m.run = manifest[s].run /\ m.attempt <= manifest[s].attempt
      <3>1. MaxAttempts \in Nat /\ m.attempt \in Nat /\ manifest[s].attempt \in Nat
        BY <1>2, RetryAssumption, EditionsTyped DEF ManifestType
      <3>2. HasBundle(s)' = HasBundle(s) /\ Latest(s)' = Latest(s)
        BY <1>2, <2>2 DEF HasBundle, Latest
      <3> QED
        BY <1>2, <2>2, <3>1, <3>2 DEF Slot, RetryFits
    <2> QED
      BY <2>1, <2>2
  <1>7. binding # NoBinding =>
            /\ BoundOnce(s)'
            /\ ~ManifestBound(s)'
            /\ ResultBound(s)' = ResultBound(s)
    <2> SUFFICES ASSUME binding # NoBinding
                 PROVE  /\ BoundOnce(s)'
                        /\ ~ManifestBound(s)'
                        /\ ResultBound(s)' = ResultBound(s)
      OBVIOUS
    <2>1. /\ binding[s].manifest.edition \in Nat /\ binding[s].result.edition \in Nat
          /\ binding' = binding /\ BoundOnce(s)
      BY <1>1, <1>2, EditionsTyped DEF Slot
    <2>2. m.edition > binding[s].manifest.edition
      BY <1>1, <1>3, <2>1 DEF BoundOnce
    <2>3. AtBoundPath(s)' = AtBoundPath(s)
      BY <1>2, <2>1 DEF AtBoundPath
    <2>4. ~ManifestBound(s)' /\ ResultBound(s)' = ResultBound(s)
      BY <1>2, <2>1, <2>2, <2>3 DEF ManifestBound, ResultBound
    <2>5. BoundOnce(s)'
      BY <1>1, <1>2, <1>3, <2>1, <2>2, <2>3 DEF BoundOnce
    <2> QED
      BY <2>4, <2>5
  <1>8. OnSlot(s)
    BY <1>1, <1>2, <1>7 DEF OnSlot, evaluator
  <1> QED
    BY <1>1, <1>4, <1>5, <1>6, <1>7, <1>8, OnSlotIInv DEF Slot

\* Both kinds of a new run id.
LEMMA NewManifestIInv ==
    ASSUME IInv, NEW s \in Slots, NEW attempt \in 1..MaxAttempts, NewManifest(s, attempt)
    PROVE  IInv'
  <1> DEFINE m == ManifestFile(edition'[s], attempt, edition'[s])
  <1>1. Rewrite(s, ManifestAwaited(s)) /\ manifest' = [manifest EXCEPT ![s] = m]
        /\ result' = result
    BY DEF NewManifest
  <1>2. edition'[s] \in 1..MaxEditions
    BY <1>1, RewriteTyped
  <1>3. m \in ManifestType /\ m.edition = edition'[s] /\ m.run = edition'[s]
    BY <1>2 DEF ManifestType, ManifestFile
  <1> HIDE DEF m
  <1> QED
    BY <1>1, <1>3, RenewIInv

\* A retry is a new manifest with one attempt more.
LEMMA RetryRunIInv ==
    ASSUME IInv, NEW s \in Slots, RetryRun(s)
    PROVE  IInv'
  <1>1. MaxAttempts \in Nat /\ manifest[s].attempt \in 1..MaxAttempts
    BY RetryAssumption DEF IInv, TypeOK, ManifestType
  <1>2. manifest[s].attempt < MaxAttempts
    BY DEF RetryRun, IInv, Slot, RetryFits
  <1>3. manifest[s].attempt + 1 \in 1..MaxAttempts
    BY <1>1, <1>2
  <1> QED
    BY <1>3, NewManifestIInv DEF RetryRun

\* A replacement is a new manifest with the first attempt.
LEMMA ReplaceTrialIInv ==
    ASSUME IInv, NEW s \in Slots, ReplaceTrial(s)
    PROVE  IInv'
  BY RetryAssumption, NewManifestIInv DEF ReplaceTrial

\* Regenerating keeps the result of the old manifest.
LEMMA RegenerateIInv ==
    ASSUME IInv, NEW s \in Slots, Regenerate(s)
    PROVE  IInv'
  <1> DEFINE m == ManifestFile(edition'[s], 1, ReferenceRun)
  <1>1. Rewrite(s, ManifestAwaited(s)) /\ manifest' = [manifest EXCEPT ![s] = m]
        /\ result' = result /\ manifest[s].run = ReferenceRun
    BY DEF Regenerate
  <1>2. edition'[s] \in 1..MaxEditions /\ 1 \in 1..MaxAttempts /\ MaxAttempts \in Nat
        /\ manifest[s] \in ManifestType
    BY <1>1, RewriteTyped, RetryAssumption, EditionsTyped DEF IInv
  <1>3. manifest[s].run \in 1..MaxEditions /\ 1 <= manifest[s].attempt
    BY <1>2 DEF ManifestType
  <1>4. /\ m \in ManifestType /\ m.edition = edition'[s] /\ m.run = manifest[s].run
        /\ m.attempt <= manifest[s].attempt
    BY <1>1, <1>2, <1>3 DEF ManifestType, ManifestFile
  <1> HIDE DEF m
  <1> QED
    BY <1>1, <1>4, RenewIInv

\* Clearing a directory takes its result away.
LEMMA ClearOutputIInv ==
    ASSUME IInv, NEW s \in Slots, ClearOutput(s)
    PROVE  IInv'
  <1> DEFINE stale == ResultAwaited(s) /\ manifest[s].run = binding[s].manifest.run
  <1>1. /\ edition'[s] = edition[s] + 1 /\ edition'[s] \in 1..MaxEditions
        /\ edition' \in [Slots -> 1..MaxEditions]
        /\ \A t \in Slots \ {s} : edition'[t] = edition[t]
        /\ raced \subseteq raced' /\ raced' \subseteq raced \union {s}
        /\ s \notin raced' => ~stale
        /\ UNCHANGED <<binding, stage, reader, taken, cause>>
    BY RewriteTyped DEF ClearOutput
  <1>2. manifest' = manifest /\ result' = Below(s, Nothing) /\ TypeOK /\ Slot(s)
    BY DEF ClearOutput, IInv
  <1>3. /\ \A t \in Slots \ {s} : result'[t] = result[t]
        /\ result'[s][manifest[s].run] = Nothing
        /\ \A r \in (1..MaxEditions) \ {manifest[s].run} : result'[s][r] = result[s][r]
        /\ result' \in [Slots -> [1..MaxEditions -> {Nothing, Lost} \union ResultType]]
    BY <1>2, BelowIs
  <1>4. /\ MaxEditions \in Nat /\ edition[s] \in Nat /\ manifest[s].edition \in Nat
        /\ manifest[s].run \in 1..MaxEditions
        /\ \A r \in 1..MaxEditions : result[s][r].kind = "bundle" => result[s][r].edition \in Nat
    BY <1>2, EditionsTyped
  <1>5. Nothing.kind # "bundle"
    BY DEF Nothing
  <1>6. TypeOK'
    <2>1. raced' \subseteq Slots
      BY <1>1, <1>2 DEF TypeOK
    <2> QED
      BY <1>1, <1>2, <1>3, <2>1 DEF TypeOK, FilesType
  <1>7. EditionsOrdered(s)'
    <2>1. EditionsOrdered(s)
      BY <1>2 DEF Slot
    <2>2. ASSUME NEW r \in 1..MaxEditions
          PROVE  /\ result'[s][r].kind = "bundle" =>
                        result'[s][r].run = r /\ result'[s][r].edition <= edition'[s]
                 /\ r > edition'[s] => result'[s][r] = Nothing
      <3>1. CASE r = manifest[s].run
        BY <1>3, <1>5, <3>1
      <3>2. CASE r # manifest[s].run
        <4>1. result'[s][r] = result[s][r]
          BY <1>3, <3>2
        <4>2. r > edition'[s] => r > edition[s]
          BY <1>1, <1>4
        <4>3. result[s][r].kind = "bundle" =>
                  result[s][r].run = r /\ result[s][r].edition <= edition[s]
                      /\ result[s][r].edition \in Nat
          BY <1>4, <2>1 DEF EditionsOrdered
        <4>4. r > edition[s] => result[s][r] = Nothing
          BY <2>1 DEF EditionsOrdered
        <4> QED
          BY <1>1, <1>4, <4>1, <4>2, <4>3, <4>4
      <3> QED
        BY <3>1, <3>2
    <2>3. manifest'[s].edition <= edition'[s] /\ manifest'[s].run <= edition'[s]
      BY <1>1, <1>2, <1>4, <2>1 DEF EditionsOrdered
    <2> QED
      BY <2>2, <2>3 DEF EditionsOrdered
  <1>8. RetryFits(s)'
    BY <1>2, <1>3, <1>5 DEF RetryFits, HasBundle, Latest
  <1>9. binding # NoBinding =>
            /\ BoundOnce(s)'
            /\ ManifestBound(s)' = ManifestBound(s)
            /\ ~ResultBound(s) => ~ResultBound(s)'
            /\ manifest[s].run # binding[s].manifest.run => ResultBound(s)' = ResultBound(s)
    <2> SUFFICES ASSUME binding # NoBinding
                 PROVE  /\ BoundOnce(s)'
                        /\ ManifestBound(s)' = ManifestBound(s)
                        /\ ~ResultBound(s) => ~ResultBound(s)'
                        /\ manifest[s].run # binding[s].manifest.run =>
                               ResultBound(s)' = ResultBound(s)
      OBVIOUS
    <2> DEFINE b == binding[s]
    <2>1. /\ b.manifest.run \in 1..MaxEditions /\ b.result.kind = "bundle"
          /\ b.result.edition \in Nat /\ b.manifest.edition \in Nat
          /\ BoundOnce(s) /\ binding' = binding
      BY <1>1, <1>2, EditionsTyped DEF Slot
    <2>2. CASE b.manifest.run # manifest[s].run
      <3>1. AtBoundPath(s)' = AtBoundPath(s)
        BY <1>1, <1>3, <2>1, <2>2 DEF AtBoundPath
      <3> QED
        BY <1>1, <1>2, <1>4, <2>1, <2>2, <3>1 DEF BoundOnce, ManifestBound, ResultBound
    <2>3. CASE b.manifest.run = manifest[s].run
      <3>1. AtBoundPath(s)' = Nothing /\ Nothing # b.result
        BY <1>1, <1>3, <1>5, <2>1, <2>3 DEF AtBoundPath
      <3> QED
        BY <1>1, <1>2, <1>4, <1>5, <2>1, <2>3, <3>1 DEF BoundOnce, ManifestBound, ResultBound
    <2> QED
      BY <2>2, <2>3
  <1>10. OnSlot(s)
    BY <1>1, <1>2, <1>3, <1>9 DEF OnSlot, evaluator
  <1> QED
    BY <1>1, <1>6, <1>7, <1>8, <1>9, <1>10, OnSlotIInv DEF Slot

\* Binding takes down what is there.
LEMMA BindIInv ==
    ASSUME IInv, Bind
    PROVE  IInv'
  <1> DEFINE b(s) == [manifest |-> manifest[s], result |-> Latest(s)]
  <1>1. /\ binding' = [s \in Slots |-> b(s)] /\ stage = "idle"
        /\ UNCHANGED <<edition, manifest, result, stage, reader, taken, cause, raced>>
        /\ TypeOK
    BY DEF Bind, evaluator, IInv
  <1>2. ASSUME NEW s \in Slots
        PROVE  /\ Latest(s).kind = "bundle" /\ Latest(s).manifest = manifest[s].edition
               /\ Latest(s).bundle.attempt = manifest[s].attempt
               /\ Latest(s) \in ResultType /\ manifest[s] \in ManifestType
               /\ EditionsOrdered(s) /\ RetryFits(s)
               /\ binding'[s].manifest = manifest[s] /\ binding'[s].result = Latest(s)
               /\ AtBoundPath(s)' = Latest(s)
               /\ Latest(s).run = manifest[s].run /\ Latest(s).edition <= edition[s]
               /\ manifest[s].edition <= edition[s]
    <2>1. /\ Latest(s).kind = "bundle" /\ Latest(s).manifest = manifest[s].edition
          /\ Latest(s).bundle.attempt = manifest[s].attempt
      BY DEF Bind, HasBundle
    <2>2. manifest[s] \in ManifestType /\ manifest[s].run \in 1..MaxEditions
          /\ Latest(s) \in ResultType
      BY <1>1, <2>1, EditionsTyped DEF Latest
    <2>3. EditionsOrdered(s) /\ RetryFits(s)
      BY DEF IInv, Slot
    <2>4. binding'[s].manifest = manifest[s] /\ binding'[s].result = Latest(s)
      BY <1>1
    <2>5. AtBoundPath(s)' = Latest(s)
      BY <1>1, <2>4 DEF AtBoundPath, Latest
    <2> QED
      BY <2>1, <2>2, <2>3, <2>4, <2>5 DEF EditionsOrdered, Latest
  <1>3. TypeOK'
    <2>1. \A s \in Slots : b(s) \in [manifest: ManifestType, result: ResultType]
      BY <1>2
    <2> QED
      BY <1>1, <2>1 DEF TypeOK, FilesType
  <1>4. \A s \in Slots : BoundOnce(s)'
    BY <1>1, <1>2 DEF BoundOnce
  <1>5. \A s \in Slots : EditionsOrdered(s)' /\ RetryFits(s)'
    BY <1>1, <1>2 DEF EditionsOrdered, RetryFits, HasBundle, Latest
  <1>6. reader = NoSlot /\ DOMAIN taken = {}
    BY <1>1 DEF IInv, Reading
  <1>7. Reading' /\ Rejected'
    BY <1>1, <1>6 DEF Reading, Reader, Rejected, OnlyBoundRunsAreTaken
  <1> QED
    BY <1>3, <1>4, <1>5, <1>7 DEF IInv, Slot

-----------------------------------------------------------------------------
(* The evaluator, whose steps leave the operator's files alone. *)

\* The evaluator changes only what it has read.
LEMMA EvaluatorIInv ==
    ASSUME IInv, UNCHANGED <<operator, raced>>, TypeOK', Reading', Rejected'
    PROVE  IInv'
  BY DEF IInv, operator, Slot, EditionsOrdered, RetryFits, BoundOnce, HasBundle, Latest, AtBoundPath

\* It starts with nothing read.
LEMMA StartEvaluationIInv ==
    ASSUME IInv, StartEvaluation
    PROVE  IInv'
  <1>1. TypeOK'
    BY DEF IInv, TypeOK, StartEvaluation, operator, FilesType
  <1>2. reader = NoSlot /\ DOMAIN taken = {}
    BY DEF IInv, Reading, StartEvaluation
  <1>3. Reading' /\ Rejected'
    BY <1>2 DEF Reading, Reader, Rejected, StartEvaluation, operator, OnlyBoundRunsAreTaken
  <1> QED
    BY <1>1, <1>3, EvaluatorIInv DEF StartEvaluation

\* A rejection for changed files names a slot whose files did change.
LEMMA RejectIInv ==
    ASSUME IInv, stage = "reading", NEW s \in Slots, NEW error, Reject(s, error),
           UNCHANGED <<operator, raced>>,
           error = "files changed" => ~FilesBound(s)
    PROVE  IInv'
  <1>1. /\ stage' = "rejected" /\ reader' = NoSlot /\ taken' = taken
        /\ cause' = [slot |-> s, error |-> error]
        /\ UNCHANGED <<edition, manifest, result, binding, raced>>
    BY DEF Reject, operator
  <1>2. TypeOK'
    BY <1>1 DEF IInv, TypeOK, FilesType
  <1>3. Reading'
    BY <1>1 DEF IInv, Reading, Reader, OnlyBoundRunsAreTaken
  <1>4. Rejected'
    <2>1. FilesBound(s)' = FilesBound(s)
      BY <1>1 DEF FilesBound, ManifestBound, ResultBound, AtBoundPath
    <2>2. cause'.slot = s /\ cause'.error = error
      BY <1>1
    <2> QED
      BY <2>1, <2>2 DEF Rejected, FilesBound, ManifestBound, ResultBound, AtBoundPath
  <1> QED
    BY <1>2, <1>3, <1>4, EvaluatorIInv

\* It moves on within a slot.
LEMMA GoesIInv ==
    ASSUME IInv, stage = "reading", NEW s \in Slots, s \notin DOMAIN taken,
           NEW next, NEW files, Goes(s, next, files), UNCHANGED <<operator, raced>>,
           [slot |-> s, next |-> next, files |-> files] \in ReaderType,
           s \notin raced =>
               /\ next \in {"hash result", "load manifest"} => ManifestBound(s)
               /\ next \in {"load manifest", "load result"} => ResultBound(s)
               /\ next \in {"load result", "check"} => files[1] = binding[s].manifest
               /\ next = "check" => files[2] = binding[s].result,
           next \in {"load result", "check"} =>
               files[1] = binding[s].manifest \/ ~ManifestBound(s),
           next = "check" =>
               /\ files[2] = binding[s].result \/ ~ResultBound(s)
               /\ files[2].run = binding[s].manifest.run
               /\ files[2].manifest = binding[s].manifest.edition =>
                      files[2].bundle.attempt = binding[s].manifest.attempt
    PROVE  IInv'
  <1>1. /\ reader' = [slot |-> s, next |-> next, files |-> files]
        /\ UNCHANGED <<stage, taken, cause, edition, manifest, result, binding, raced>>
    BY DEF Goes, operator
  <1>2. TypeOK'
    BY <1>1 DEF IInv, TypeOK, FilesType
  <1>3. ManifestBound(s)' = ManifestBound(s) /\ ResultBound(s)' = ResultBound(s)
    BY <1>1 DEF ManifestBound, ResultBound, AtBoundPath
  <1>4. reader'.slot = s /\ reader'.next = next /\ reader'.files = files
    BY <1>1
  <1>5. Reader'
    BY <1>1, <1>3, <1>4 DEF Reader, ManifestBound, ResultBound, AtBoundPath
  <1>6. Reading'
    BY <1>1, <1>5 DEF IInv, Reading, OnlyBoundRunsAreTaken
  <1>7. Rejected'
    BY <1>1 DEF Rejected
  <1> QED
    BY <1>2, <1>6, <1>7, EvaluatorIInv

\* It hashes the manifest.
LEMMA HashManifestIInv ==
    ASSUME IInv, NEW s \in Slots, HashManifest(s)
    PROVE  IInv'
  <1>1. CASE ManifestBound(s)
    <2>1. [slot |-> s, next |-> "hash result", files |-> <<>>] \in ReaderType
      BY DEF ReaderType
    <2> QED
      BY <1>1, <2>1, GoesIInv DEF HashManifest
  <1>2. CASE ~ManifestBound(s)
    BY <1>2, RejectIInv DEF HashManifest, FilesBound
  <1> QED
    BY <1>1, <1>2

\* It hashes the result.
LEMMA HashResultIInv ==
    ASSUME IInv, NEW s \in Slots, HashResult(s)
    PROVE  IInv'
  <1>1. /\ stage = "reading" /\ reader # NoSlot /\ reader.slot = s
        /\ reader.next = "hash result" /\ s \notin DOMAIN taken
    BY DEF HashResult, At, IInv, TypeOK
  <1>2. CASE ResultBound(s)
    <2>1. [slot |-> s, next |-> "load manifest", files |-> <<>>] \in ReaderType
      BY DEF ReaderType
    <2>2. s \notin raced => ManifestBound(s)
      BY <1>1 DEF IInv, Reading, Reader
    <2> QED
      BY <1>1, <1>2, <2>1, <2>2, GoesIInv DEF HashResult
  <1>3. CASE ~ResultBound(s)
    BY <1>1, <1>3, RejectIInv DEF HashResult, FilesBound
  <1> QED
    BY <1>2, <1>3

\* It parses the manifest, as it is now.
LEMMA LoadManifestIInv ==
    ASSUME IInv, NEW s \in Slots, LoadManifest(s)
    PROVE  IInv'
  <1> DEFINE files == <<manifest[s]>>
  <1>1. /\ stage = "reading" /\ reader # NoSlot /\ reader.slot = s
        /\ reader.next = "load manifest" /\ s \notin DOMAIN taken
    BY DEF LoadManifest, At, IInv, TypeOK
  <1>2. manifest[s] \in ManifestType
    BY EditionsTyped DEF IInv
  <1>3. [slot |-> s, next |-> "load result", files |-> files] \in ReaderType
    BY <1>2 DEF ReaderType
  <1>4. s \notin raced => ManifestBound(s) /\ ResultBound(s)
    BY <1>1 DEF IInv, Reading, Reader
  <1>5. files[1] = binding[s].manifest \/ ~ManifestBound(s)
    BY DEF ManifestBound
  <1>6. Goes(s, "load result", files) /\ UNCHANGED <<operator, raced>>
    BY DEF LoadManifest
  <1>7. ManifestBound(s) => files[1] = binding[s].manifest
    BY DEF ManifestBound
  <1> HIDE DEF files
  <1> QED
    BY <1>1, <1>3, <1>4, <1>5, <1>6, <1>7, GoesIInv

\* It parses the result at the bound path, as it is now.
LEMMA LoadResultIInv ==
    ASSUME IInv, NEW s \in Slots, LoadResult(s)
    PROVE  IInv'
  <1> DEFINE file == AtBoundPath(s)
             files == <<reader.files[1], file>>
  <1>1. /\ stage = "reading" /\ reader # NoSlot /\ reader.slot = s
        /\ reader.next = "load result" /\ s \notin DOMAIN taken
        /\ binding # NoBinding /\ TypeOK /\ BoundOnce(s) /\ EditionsOrdered(s)
    BY DEF LoadResult, At, IInv, TypeOK, Reading, Slot
  <1>2. CASE file.kind = "bundle"
    <2>1. /\ binding[s].manifest.run \in 1..MaxEditions
          /\ file \in ResultType
      BY <1>1, <1>2, EditionsTyped DEF AtBoundPath
    <2>2. reader.files[1] \in ManifestType
      <3>1. reader \in ReaderType
        BY <1>1 DEF TypeOK
      <3>2. reader \in [slot: Slots, next: {"load result"}, files: {<<m>> : m \in ManifestType}]
        BY <1>1, <3>1 DEF ReaderType
      <3>3. reader.files \in {<<m>> : m \in ManifestType}
        BY <3>2
      <3> QED
        BY <3>3
    <2>3. files \in ManifestType \X ResultType /\ files[1] = reader.files[1] /\ files[2] = file
      BY <2>1, <2>2
    <2>4. file.run = binding[s].manifest.run
      BY <1>1, <1>2, <2>1 DEF EditionsOrdered, AtBoundPath
    <2>5. file.manifest = binding[s].manifest.edition =>
              file.bundle.attempt = binding[s].manifest.attempt
      BY <1>1, <1>2 DEF BoundOnce
    <2>6. /\ s \notin raced => ResultBound(s) /\ reader.files[1] = binding[s].manifest
          /\ reader.files[1] = binding[s].manifest \/ ~ManifestBound(s)
      BY <1>1 DEF IInv, Reading, Reader
    <2>7. ResultBound(s) => file = binding[s].result
      BY DEF ResultBound
    <2>8. Goes(s, "check", files) /\ UNCHANGED <<operator, raced>>
      BY <1>2 DEF LoadResult
    <2> HIDE DEF files, file
    <2>9. [slot |-> s, next |-> "check", files |-> files] \in ReaderType
      BY <2>3 DEF ReaderType
    <2> QED
      BY <1>1, <2>3, <2>4, <2>5, <2>6, <2>7, <2>8, <2>9, GoesIInv
  <1>3. CASE file.kind # "bundle"
    <2>1. ~ResultBound(s)
      BY <1>1, <1>3, EditionsTyped DEF ResultBound
    <2> QED
      BY <1>1, <1>3, <2>1, RejectIInv DEF LoadResult, FilesBound
  <1> QED
    BY <1>2, <1>3

\* What is parsed of files that are the bound ones is bound.
LEMMA BoundIsRun ==
    ASSUME IInv, NEW s \in Slots, binding # NoBinding
    PROVE  RunBound(s, binding[s].manifest, binding[s].result)
  BY DEF IInv, Slot, BoundOnce, RunBound

\* It takes the trial, or rejects.
LEMMA TakeTrialIInv ==
    ASSUME IInv, NEW s \in Slots, TakeTrial(s)
    PROVE  IInv'
  <1> DEFINE run == reader.files[1]
             file == reader.files[2]
             error == LoadError(s, run, file)
  <1>1. /\ stage = "reading" /\ reader # NoSlot /\ reader.slot = s
        /\ reader.next = "check" /\ s \notin DOMAIN taken
        /\ binding # NoBinding /\ TypeOK /\ BoundOnce(s)
        /\ UNCHANGED <<operator, raced>>
    BY DEF TakeTrial, At, IInv, TypeOK, Reading, Slot
  <1>2. run \in ManifestType /\ file \in ResultType
    BY <1>1 DEF TypeOK, ReaderType
  <1>3. /\ run = binding[s].manifest \/ ~ManifestBound(s)
        /\ file = binding[s].result \/ ~ResultBound(s)
        /\ file.run = binding[s].manifest.run
        /\ file.manifest = binding[s].manifest.edition =>
               file.bundle.attempt = binding[s].manifest.attempt
        /\ s \notin raced => run = binding[s].manifest /\ file = binding[s].result
    BY <1>1 DEF IInv, Reading, Reader
  <1>4. CASE error # "none"
    <2>1. error = "files changed" => ~RunBound(s, run, file)
      BY DEF LoadError
    <2>2. ~RunBound(s, run, file) => ~FilesBound(s)
      BY <1>1, <1>3, BoundIsRun DEF FilesBound
    <2>3. Reject(s, error)
      BY <1>4 DEF TakeTrial
    <2> HIDE DEF error, run, file
    <2> QED
      BY <1>1, <2>1, <2>2, <2>3, RejectIInv
  <1>5. CASE error = "none"
    <2> DEFINE files == [manifest |-> run, result |-> file]
    <2>1. /\ taken' = [t \in DOMAIN taken \union {s} |-> IF t = s THEN files ELSE taken[t]]
          /\ UNCHANGED <<edition, manifest, result, binding, raced, stage, cause>>
          /\ reader' = NoSlot
      BY <1>5 DEF TakeTrial, operator
    <2>2. RunBound(s, run, file)
      BY <1>5 DEF LoadError
    <2>3. files \in [manifest: ManifestType, result: ResultType]
      BY <1>2
    <2>4. DOMAIN taken' = DOMAIN taken \union {s} /\ taken'[s] = files
          /\ \A t \in DOMAIN taken : taken'[t] = taken[t]
      BY <1>1, <2>1
    <2>5. TypeOK'
      BY <1>1, <2>1, <2>3, <2>4 DEF TypeOK, FilesType
    <2>6. s \notin raced => files = binding[s]
      <3>1. binding[s] \in [manifest: ManifestType, result: ResultType]
        BY <1>1 DEF TypeOK, FilesType
      <3>2. binding[s] = [manifest |-> binding[s].manifest, result |-> binding[s].result]
        BY <3>1
      <3> QED
        BY <1>3, <3>2
    <2>7. /\ files.result.manifest = binding[s].manifest.edition
          /\ files.manifest.run = binding[s].manifest.run
          /\ files.manifest.attempt = binding[s].manifest.attempt
      BY <1>3, <2>2 DEF RunBound
    <2>8. OnlyBoundRunsAreTaken'
      <3> HIDE DEF files
      <3> QED
        BY <2>1, <2>4, <2>7 DEF IInv, Reading, OnlyBoundRunsAreTaken
    <2>9. Reading'
      <3> HIDE DEF files
      <3> QED
        BY <1>1, <2>1, <2>4, <2>6, <2>8 DEF IInv, Reading, Reader
    <2>10. Rejected'
      BY <1>1, <2>1 DEF Rejected
    <2> QED
      BY <1>1, <2>5, <2>9, <2>10, EvaluatorIInv
  <1> QED
    BY <1>4, <1>5

\* It accepts what it has read.
LEMMA AcceptIInv ==
    ASSUME IInv, Accept
    PROVE  IInv'
  <1>1. /\ stage = "reading" /\ DOMAIN taken = Slots /\ stage' = "accepted"
        /\ UNCHANGED <<edition, manifest, result, binding, reader, taken, cause, raced>>
    BY DEF Accept, operator
  <1>2. TypeOK'
    BY <1>1 DEF IInv, TypeOK, FilesType
  <1>3. reader = NoSlot
    BY <1>1 DEF IInv, TypeOK, ReaderType
  <1>4. Reading' /\ Rejected'
    BY <1>1, <1>3 DEF IInv, Reading, Reader, Rejected, OnlyBoundRunsAreTaken
  <1> QED
    BY <1>1, <1>2, <1>4, EvaluatorIInv DEF operator

\* No step breaks it.
LEMMA NextIInv == IInv /\ [Next]_vars => IInv'
  <1> SUFFICES ASSUME IInv, [Next]_vars PROVE IInv'
    OBVIOUS
  <1>1. CASE UNCHANGED vars
    <2>1. UNCHANGED <<edition, manifest, result, binding, stage, reader, taken, cause, raced>>
      BY <1>1 DEF vars, operator, evaluator
    <2>2. TypeOK' /\ Reading' /\ Rejected'
      BY <2>1 DEF IInv, TypeOK, FilesType, Reading, Reader, Rejected, OnlyBoundRunsAreTaken,
         FilesBound, ManifestBound, ResultBound, AtBoundPath
    <2> QED
      BY <2>1, <2>2, EvaluatorIInv DEF operator
  <1>2. ASSUME NEW s \in Slots,
               \/ Run(s) \/ RetryRun(s) \/ ReplaceTrial(s) \/ Regenerate(s) \/ ClearOutput(s)
               \/ HashManifest(s) \/ HashResult(s) \/ LoadManifest(s) \/ LoadResult(s)
               \/ TakeTrial(s)
        PROVE  IInv'
    BY <1>2, RunIInv, RetryRunIInv, ReplaceTrialIInv, RegenerateIInv, ClearOutputIInv,
       HashManifestIInv, HashResultIInv, LoadManifestIInv, LoadResultIInv, TakeTrialIInv
  <1>3. CASE Bind \/ StartEvaluation \/ Accept
    BY <1>3, BindIInv, StartEvaluationIInv, AcceptIInv
  <1> QED
    BY <1>1, <1>2, <1>3 DEF Next

-----------------------------------------------------------------------------

\* Every variable of an evaluation keeps its type; no manifest has an attempt above
\* max_attempts however retries, replacements and regenerations follow each other.
THEOREM TypeCorrect == Spec => []TypeOK
  <1>1. IInv => TypeOK
    BY DEF IInv
  <1> QED
    BY <1>1, InitIInv, NextIInv, PTL DEF Spec

\* compute_evaluation accepts the very files that build_reference_evaluation bound, but for
\* a file rewritten between its digest and its parse.
THEOREM TrialsAreBound == Spec => []TrialsAreTheBound
  <1>1. IInv => TrialsAreTheBound
    <2> SUFFICES ASSUME IInv, stage = "accepted", NEW s \in Slots \ raced
                 PROVE  taken[s] = binding[s]
      BY DEF TrialsAreTheBound
    <2> QED
      BY DEF IInv, Reading
  <1> QED
    BY <1>1, InitIInv, NextIInv, PTL DEF Spec

\* compute_evaluation complains of changed files only if one changed.
THEOREM ChangesAreReal == Spec => []ChangedMeansRewritten
  <1>1. IInv => ChangedMeansRewritten
    BY DEF IInv, Rejected, ChangedMeansRewritten
  <1> QED
    BY <1>1, InitIInv, NextIInv, PTL DEF Spec

\* Whatever compute_evaluation takes was run from the manifest that was bound, whichever of
\* the two files was rewritten between its digest and its parse.
THEOREM OnlyBoundAreTaken == Spec => []OnlyBoundRunsAreTaken
  <1>1. IInv => OnlyBoundRunsAreTaken
    BY DEF IInv, Reading
  <1> QED
    BY <1>1, InitIInv, NextIInv, PTL DEF Spec

-----------------------------------------------------------------------------
(* What the trials weigh. *)

\* Finitely many pairs have finitely many units.
LEMMA UnitsFinite ==
    ASSUME NEW T, IsFiniteSet(T), NEW A \in SUBSET (T \X Gates)
    PROVE  /\ IsFiniteSet(Units(A)) /\ Weigh(A) \in Nat
           /\ IsFiniteSet(A)
  <1> DEFINE units(pair) == {pair} \X (1..GateWeights[pair[2]])
             U == {units(pair) : pair \in A}
             f == [pair \in A |-> units(pair)]
  <1>1. IsFiniteSet(A)
    BY FS_Product, FS_Subset, ProfileAssumption
  <1>2. ASSUME NEW pair \in A PROVE IsFiniteSet(units(pair))
    <2>1. GateWeights[pair[2]] \in Int /\ 1 \in Int
      BY ProfileAssumption
    <2>2. IsFiniteSet(1..GateWeights[pair[2]])
      BY <2>1, FS_Interval
    <2>3. IsFiniteSet({pair})
      BY FS_Singleton
    <2> QED
      BY <2>2, <2>3, FS_Product
  <1>3. f \in Surjection(A, U)
    BY Zenon DEF Surjection
  <1>4. IsFiniteSet(U)
    <2> HIDE DEF f, U
    <2> QED
      BY <1>1, <1>3, FS_Surjection
  <1>5. \A S \in U : IsFiniteSet(S)
    BY <1>2
  <1>6. IsFiniteSet(UNION U)
    <2> HIDE DEF U
    <2> QED
      BY <1>4, <1>5, FS_UNION
  <1>7. IsFiniteSet(Units(A))
    BY <1>6 DEF Units
  <1> QED
    BY <1>1, <1>7, FS_CardinalityType DEF Weigh

\* What the units of some pairs are.
LEMMA UnitsAre ==
    ASSUME NEW A, NEW unit
    PROVE  unit \in Units(A) <=>
              \E pair \in A : \E n \in 1..GateWeights[pair[2]] : unit = <<pair, n>>
  BY DEF Units

\* More pairs weigh no less, by what the others weigh.
LEMMA WeighParts ==
    ASSUME NEW T, IsFiniteSet(T), NEW A \in SUBSET (T \X Gates), NEW B \in SUBSET (T \X Gates),
           A \intersect B = {}
    PROVE  Weigh(A \union B) = Weigh(A) + Weigh(B)
  <1>1. Units(A \union B) = Units(A) \union Units(B)
    BY UnitsAre
  <1>2. Units(A) \intersect Units(B) = {}
    <2> SUFFICES ASSUME NEW u \in Units(A), u \in Units(B) PROVE FALSE
      OBVIOUS
    <2>1. PICK p \in A : \E n \in 1..GateWeights[p[2]] : u = <<p, n>>
      BY UnitsAre
    <2>2. PICK q \in B : \E m \in 1..GateWeights[q[2]] : u = <<q, m>>
      BY UnitsAre
    <2>3. p = q
      BY <2>1, <2>2
    <2> QED
      BY <2>3
  <1>3. IsFiniteSet(Units(A)) /\ IsFiniteSet(Units(B))
    BY UnitsFinite
  <1>4. /\ Cardinality(Units(A) \union Units(B)) =
               Cardinality(Units(A)) + Cardinality(Units(B))
                   - Cardinality(Units(A) \intersect Units(B))
        /\ Cardinality(Units(A)) \in Nat /\ Cardinality(Units(B)) \in Nat
    BY <1>3, FS_Union, FS_CardinalityType
  <1>5. Cardinality(Units(A) \intersect Units(B)) = 0
    BY <1>2, FS_EmptySet, Zenon
  <1>6. Cardinality(Units(A) \union Units(B)) = Cardinality(Units(A)) + Cardinality(Units(B))
    BY <1>4, <1>5
  <1> QED
    BY <1>1, <1>6, Zenon DEF Weigh

\* A part weighs the whole but for the rest.
LEMMA WeighRest ==
    ASSUME NEW T, IsFiniteSet(T), NEW B \in SUBSET (T \X Gates), NEW A \in SUBSET B
    PROVE  /\ Weigh(A) \in Nat /\ Weigh(B) \in Nat /\ Weigh(B \ A) \in Nat
           /\ Weigh(B) = Weigh(A) + Weigh(B \ A)
           /\ Weigh(A) <= Weigh(B)
  <1>1. A \in SUBSET (T \X Gates) /\ B \ A \in SUBSET (T \X Gates) /\ A \union (B \ A) = B
        /\ A \intersect (B \ A) = {}
    OBVIOUS
  <1>2. Weigh(A \union (B \ A)) = Weigh(A) + Weigh(B \ A)
    BY <1>1, WeighParts
  <1>3. Weigh(A) \in Nat /\ Weigh(B) \in Nat /\ Weigh(B \ A) \in Nat
    BY <1>1, UnitsFinite
  <1>4. Weigh(B) = Weigh(A) + Weigh(B \ A)
    BY <1>1, <1>2
  <1> QED
    BY <1>3, <1>4

\* Nothing weighs nothing, and what weighs nothing has no weighted gate.
LEMMA WeighNothing ==
    ASSUME NEW T, IsFiniteSet(T), NEW A \in SUBSET (T \X Gates), Weigh(A) = 0, NEW pair \in A
    PROVE  GateWeights[pair[2]] = 0
  <1>1. Units(A) = {}
    <2>1. IsFiniteSet(Units(A))
      BY UnitsFinite
    <2> QED
      BY <2>1, FS_EmptySet DEF Weigh
  <1>2. GateWeights[pair[2]] \in Nat
    BY ProfileAssumption
  <1>3. 1 \notin 1..GateWeights[pair[2]]
    <2>1. ASSUME 1 \in 1..GateWeights[pair[2]] PROVE <<pair, 1>> \in Units(A)
      BY <2>1, UnitsAre
    <2> QED
      BY <1>1, <2>1
  <1> QED
    BY <1>2, <1>3

-----------------------------------------------------------------------------
(* Divisions rounded down. *)

\* The order of products.
LEMMA Products ==
    ASSUME NEW a \in Nat, NEW b \in Nat, NEW c \in Nat, a <= b
    PROVE  a * c <= b * c
  <1>1. (b - a) * c = b * c - a * c /\ b - a \in Nat
    OBVIOUS
  <1>2. \A m, n \in Nat : m * n \in Nat
    OBVIOUS
  <1>3. (b - a) * c \in Nat /\ a * c \in Nat /\ b * c \in Nat
    BY <1>1, <1>2
  <1> QED
    BY <1>1, <1>3

\* What a division rounded down is.
LEMMA Division ==
    ASSUME NEW x \in Nat, NEW a \in Nat, a > 0
    PROVE  /\ x \div a \in Nat
           /\ a * (x \div a) <= x /\ x < a * (x \div a) + a
  OBVIOUS

\* No number above it fits.
LEMMA DivisionFits ==
    ASSUME NEW x \in Nat, NEW a \in Nat, a > 0, NEW q \in Nat, a * q <= x
    PROVE  q <= x \div a
  <1> DEFINE d == x \div a
  <1>1. d \in Nat /\ x < a * d + a
    BY Division
  <1> HIDE DEF d
  <1> SUFFICES ASSUME q > d PROVE FALSE
    BY <1>1 DEF d
  <1>2. (d + 1) * a <= q * a
    BY <1>1, Products
  <1>3. (d + 1) * a = a * d + a /\ q * a = a * q
    BY <1>1
  <1>4. a * d \in Nat /\ a * q \in Nat
    BY <1>1
  <1> QED
    BY <1>1, <1>2, <1>3, <1>4

\* Crosswise multiplication compares quotients, however they round.
LEMMA DivisionsCompared ==
    ASSUME NEW x \in Nat, NEW a \in Nat, NEW y \in Nat, NEW b \in Nat, a > 0, b > 0,
           x * b <= y * a
    PROVE  x \div a <= y \div b
  <1> DEFINE q == x \div a
  <1>1. q \in Nat /\ a * q <= x
    BY Division
  <1> HIDE DEF q
  <1>2. (a * q) * b <= x * b
    BY <1>1, Products
  <1>3. (a * q) * b = (b * q) * a /\ (a * q) * b \in Nat /\ x * b \in Nat /\ y * a \in Nat
    BY <1>1
  <1>4. (b * q) * a <= y * a
    BY <1>2, <1>3
  <1>5. b * q <= y
    <2> SUFFICES ASSUME b * q > y PROVE FALSE
      BY <1>1
    <2>1. b * q \in Nat /\ y + 1 <= b * q
      BY <1>1
    <2>2. (y + 1) * a <= (b * q) * a
      BY <2>1, Products
    <2>3. (y + 1) * a = y * a + a
      OBVIOUS
    <2> QED
      BY <1>3, <1>4, <2>2, <2>3
  <1> QED
    BY <1>1, <1>5, DivisionFits DEF q

\* Scores are the numbers up to Full.
LEMMA ScoresAreNumbers ==
    /\ Full \in Nat
    /\ \A n \in 0..Full : n \in Nat
    /\ \A n \in Nat : n <= Full <=> n \in 0..Full
  <1>1. Full \in Nat
    BY DEF Full
  <1>2. ASSUME NEW full \in Nat
        PROVE  (\A n \in 0..full : n \in Nat) /\ (\A m \in Nat : m <= full <=> m \in 0..full)
    OBVIOUS
  <1>3. (\A n \in 0..Full : n \in Nat) /\ (\A m \in Nat : m <= Full <=> m \in 0..Full)
    BY <1>1, <1>2, Zenon
  <1> QED
    BY <1>1, <1>3, Zenon

\* A quotient of at most the full score for each is at most full, and full only for all of it.
LEMMA Quotients ==
    ASSUME NEW x \in Nat, NEW a \in Nat, a > 0, x <= Full * a
    PROVE  /\ x \div a \in 0..Full
           /\ x \div a = Full <=> x = Full * a
  <1> DEFINE d == x \div a
  <1>1. d \in Nat /\ a * d <= x /\ x < a * d + a
    BY Division
  <1>2. Full = 10000
    BY DEF Full
  <1>3. d = x \div a
    OBVIOUS
  <1> HIDE DEF d
  <1>4. d <= 10000
    <2> SUFFICES ASSUME d >= 10001 PROVE FALSE
      BY <1>1
    <2>1. 10001 * a <= d * a
      BY <1>1, Products
    <2>2. d * a = a * d /\ a * d \in Nat
      BY <1>1
    <2> QED
      BY <1>1, <1>2, <2>1, <2>2
  <1>5. d = Full => x = Full * a
    BY <1>1, <1>2
  <1>6. ASSUME x = Full * a PROVE d = Full
    <2>1. a * 10000 <= x
      BY <1>2, <1>6
    <2>2. 10000 <= d
      BY <1>3, <2>1, DivisionFits
    <2> QED
      BY <1>1, <1>2, <1>4, <2>2
  <1>7. d \in 0..Full
    <2>1. d \in Nat /\ d <= Full
      BY <1>1, <1>2, <1>4
    <2> QED
      BY ONLY <2>1, ScoresAreNumbers
  <1>8. d = Full <=> x = Full * a
    BY ONLY <1>5, <1>6, Zenon
  <1> QED
    BY ONLY <1>7, <1>8, Zenon DEF d

\* A share of the full score is at most full, and full only for all there is.
LEMMA Shares ==
    ASSUME NEW p \in Nat, NEW a \in Nat, p <= a, a > 0
    PROVE  /\ (Full * p) \div a \in 0..Full
           /\ (Full * p) \div a = Full <=> p = a
  <1>1. /\ Full * p \in Nat /\ Full * p <= Full * a
        /\ Full * p = Full * a <=> p = a
    BY DEF Full
  <1> QED
    BY <1>1, Quotients

\* A mean of two scores, rounded down, w being the weight of the first out of 100.
Mean(q, r, w) == (q * w + r * (100 - w)) \div 100

\* It lies between them.
LEMMA Means ==
    ASSUME NEW q \in 0..Full, NEW r \in 0..Full, NEW w \in 0..100
    PROVE  /\ Mean(q, r, w) \in 0..Full
           /\ \/ q <= Mean(q, r, w) /\ Mean(q, r, w) <= r
              \/ r <= Mean(q, r, w) /\ Mean(q, r, w) <= q
  <1>1. q \in Nat /\ r \in Nat /\ q <= 10000 /\ r <= 10000
    BY DEF Full
  <1>2. w \in Nat /\ 100 - w \in Nat
    OBVIOUS
  <1> DEFINE v == 100 - w
             s == q * w + r * v
             x == s \div 100
  <1>3. q * w \in Nat /\ r * v \in Nat /\ s \in Nat
    BY <1>1, <1>2
  <1>4. q * w + q * v = 100 * q /\ r * w + r * v = 100 * r
    BY <1>1, <1>2
  <1>5. q * v \in Nat /\ r * w \in Nat
    BY <1>1, <1>2
  <1>6. x \in Nat /\ 100 * x <= s /\ s < 100 * x + 100
    BY <1>3
  <1>7. v \in Nat
    BY <1>2
  <1>8. s = q * w + r * v
    OBVIOUS
  <1>9. Mean(q, r, w) = x
    BY Zenon DEF Mean
  <1> HIDE DEF v, s, x
  <1>10. CASE q <= r
    <2>1. q * v <= r * v /\ q * w <= r * w
      BY <1>1, <1>2, <1>7, <1>10, Products
    <2>2. 100 * q <= s /\ s <= 100 * r
      <3> HIDE <1>10
      <3> QED
        BY <1>3, <1>4, <1>5, <1>8, <2>1
    <2>3. q <= x
      BY <1>1, <1>3, <1>6, <2>2
    <2>4. x <= r
      BY <1>1, <1>3, <1>6, <2>2
    <2>5. x \in Nat /\ x <= Full
      BY <1>1, <1>6, <2>4 DEF Full
    <2>6. x \in 0..Full
      BY ONLY <2>5, ScoresAreNumbers
    <2> QED
      BY <1>9, <2>3, <2>4, <2>6, Zenon
  <1>11. CASE r <= q
    <2>1. r * v <= q * v /\ r * w <= q * w
      BY <1>1, <1>2, <1>7, <1>11, Products
    <2>2. 100 * r <= s /\ s <= 100 * q
      BY <1>3, <1>4, <1>5, <1>8, <2>1
    <2>3. r <= x
      BY <1>1, <1>3, <1>6, <2>2
    <2>4. x <= q
      BY <1>1, <1>3, <1>6, <2>2
    <2>5. x \in Nat /\ x <= Full
      BY <1>1, <1>6, <2>4 DEF Full
    <2>6. x \in 0..Full
      BY ONLY <2>5, ScoresAreNumbers
    <2> QED
      BY <1>9, <2>3, <2>4, <2>6, Zenon
  <1> QED
    BY <1>1, <1>10, <1>11

\* It does not fall when neither score does.
LEMMA MeansCompared ==
    ASSUME NEW q \in 0..Full, NEW r \in 0..Full, NEW w \in 0..100,
           NEW q2 \in 0..Full, NEW r2 \in 0..Full, q <= q2, r <= r2
    PROVE  Mean(q, r, w) <= Mean(q2, r2, w)
  <1>1. q \in Nat /\ r \in Nat /\ q2 \in Nat /\ r2 \in Nat
    BY ScoresAreNumbers
  <1>2. w \in Nat /\ 100 - w \in Nat
    OBVIOUS
  <1>3. q * w <= q2 * w /\ r * (100 - w) <= r2 * (100 - w)
    BY <1>1, <1>2, Products
  <1>4. /\ q * w \in Nat /\ q2 * w \in Nat /\ r * (100 - w) \in Nat
        /\ r2 * (100 - w) \in Nat
    BY <1>1, <1>2
  <1>5. \A a, b, c, d \in Nat : a <= c /\ b <= d => (a + b) \div 100 <= (c + d) \div 100
    OBVIOUS
  <1> QED
    BY <1>3, <1>4, <1>5 DEF Mean

-----------------------------------------------------------------------------
(* What the passed gates are worth. *)

\* A vector whose reviews have calibrations that are ones.
Valued(v) ==
    /\ IsFiniteSet(DOMAIN v)
    /\ \A t \in DOMAIN v : v[t].calibration \in {NoCalibration} \union CalibrationType

\* A calibration is a share of the full score.
LEMMA ReviewQualityIs ==
    ASSUME NEW c \in {NoCalibration} \union CalibrationType
    PROVE  ReviewQuality(c) \in 0..Full
  <1>1. Full \in 0..Full
    <2>1. Full \in Nat /\ Full <= Full
      BY DEF Full
    <2> QED
      BY ONLY <2>1, ScoresAreNumbers
  <1>2. CASE ReviewWeights = NoWeights \/ c = NoCalibration \/ c.true_positives = 0
    BY <1>1, <1>2, Zenon DEF ReviewQuality
  <1>3. CASE ~(ReviewWeights = NoWeights \/ c = NoCalibration \/ c.true_positives = 0)
    <2> DEFINE n == c.true_positives
               m == c.category_matches
               k == c.severity_matches
               wn == ReviewWeights.detection
               wm == ReviewWeights.category
               wk == ReviewWeights.severity
               x == (wn * n + wm * m + wk * k) * 100
    <2>1. c \in CalibrationType /\ ReviewWeights \in ReviewWeightsType
      BY <1>3, ProfileAssumption
    <2>2. n \in Nat /\ m \in Nat /\ k \in Nat /\ m <= n /\ k <= n /\ n > 0
      BY <1>3, <2>1 DEF CalibrationType
    <2>3. wn \in Nat /\ wm \in Nat /\ wk \in Nat /\ wn + wm + wk = 100
      BY <2>1 DEF ReviewWeightsType
    <2>4. ReviewQuality(c) = x \div n
      BY <1>3, Zenon DEF ReviewQuality, Matches
    <2> HIDE DEF n, m, k, wn, wm, wk
    <2>5. /\ wm * m \in Nat /\ wm * n \in Nat /\ wk * k \in Nat /\ wk * n \in Nat
          /\ wn * n \in Nat
      BY <2>2, <2>3
    <2>6. m * wm <= n * wm /\ k * wk <= n * wk
      BY <2>2, <2>3, Products
    <2>7. wm * m <= wm * n /\ wk * k <= wk * n
      BY <2>2, <2>3, <2>6
    <2>8. wn * n + wm * n + wk * n = 100 * n
      <3>1. wn * n + wm * n + wk * n = (wn + wm + wk) * n
        BY <2>2, <2>3
      <3> QED
        BY <2>3, <3>1
    <2>9. x \in Nat /\ x <= 10000 * n
      BY <2>2, <2>5, <2>7, <2>8
    <2> HIDE DEF x
    <2>10. x <= Full * n
      BY <2>9 DEF Full
    <2>11. x \div n \in 0..Full
      BY <2>2, <2>9, <2>10, Quotients
    <2> QED
      BY <2>4, <2>11, Zenon
  <1> QED
    BY <1>2, <1>3

\* So is what a passed gate counts for, and in full but for a review.
LEMMA GateQualityIs ==
    ASSUME NEW v, Valued(v), NEW pair \in (DOMAIN v) \X Gates
    PROVE  /\ GateQuality(v, pair) \in Nat /\ GateQuality(v, pair) <= Full
           /\ GateQuality(v, pair) # Full => pair[2] = BehaviorGate
  <1>1. pair[1] \in DOMAIN v
    OBVIOUS
  <1>2. v[pair[1]].calibration \in {NoCalibration} \union CalibrationType
    BY <1>1 DEF Valued
  <1>3. ReviewQuality(v[pair[1]].calibration) \in 0..Full
    BY ONLY <1>2, ReviewQualityIs
  <1> DEFINE q == ReviewQuality(v[pair[1]].calibration)
             g == GateQuality(v, pair)
  <1>4. g = IF pair[2] = BehaviorGate THEN q ELSE Full
    BY Zenon DEF GateQuality
  <1> HIDE DEF q, g
  <1>5. q \in Nat /\ q <= Full /\ Full \in Nat
    BY ONLY <1>3, ScoresAreNumbers DEF q
  <1> QED
    BY <1>4, <1>5 DEF g

\* Discounted pairs have fewer points than their weight is worth, if it is any.
LEMMA PointsAre ==
    ASSUME NEW v, Valued(v), NEW R \in SUBSET ((DOMAIN v) \X Gates),
           \A pair \in R : GateQuality(v, pair) # Full
    PROVE  LET w == GateWeights[BehaviorGate]
               points == Cardinality(Points(v, R))
           IN  /\ IsFiniteSet(Points(v, R)) /\ points \in Nat
               /\ w * points \in Nat
               /\ w * points <= Full * Weigh(R)
               /\ w * points = Full * Weigh(R) => R = {} \/ w = 0
  <1> DEFINE w == GateWeights[BehaviorGate]
             points == Cardinality(Points(v, R))
             r == Cardinality(R)
             K == R \X (1..Full)
  <1>1. w \in Nat /\ Full \in Nat
    BY ProfileAssumption, ScoresAreNumbers
  <1>2. IsFiniteSet(R)
    BY UnitsFinite DEF Valued
  <1>3. /\ IsFiniteSet(1..Full) /\ Cardinality(1..Full) = Full
        /\ IsFiniteSet(1..w) /\ Cardinality(1..w) = w
    <2>1. ASSUME NEW n \in Nat
          PROVE  IsFiniteSet(1..n) /\ Cardinality(1..n) = n
      BY FS_Interval
    <2> QED
      BY <1>1, <2>1
  <1>4. IsFiniteSet(K) /\ Cardinality(K) = r * Full
    BY ONLY <1>2, <1>3, FS_Product
  <1>5. Weigh(R) = r * w
    <2>1. Units(R) = R \X (1..w)
      <3>1. \A pair \in R : pair[2] = BehaviorGate
        BY GateQualityIs
      <3> QED
        BY <3>1 DEF Units
    <2>2. Cardinality(R \X (1..w)) = r * w
      BY ONLY <1>2, <1>3, FS_Product
    <2> QED
      BY <2>1, <2>2 DEF Weigh
  <1>6. \A pair \in R : GateQuality(v, pair) \in Nat /\ GateQuality(v, pair) < Full
    BY <1>1, GateQualityIs
  <1>7. Points(v, R) \in SUBSET K
    <2> HIDE DEF w
    <2>1. ASSUME NEW pair \in R, NEW n \in 1..GateQuality(v, pair) PROVE <<pair, n>> \in K
      BY <1>1, <1>6
    <2> QED
      BY <2>1 DEF Points
  <1>8. R # {} => Points(v, R) # K
    <2> SUFFICES ASSUME NEW pair \in R PROVE Points(v, R) # K
      OBVIOUS
    <2>1. <<pair, Full>> \in K
      BY <1>1, <1>6
    <2>2. <<pair, Full>> \notin Points(v, R)
      <3> SUFFICES ASSUME NEW q \in R, <<pair, Full>> \in {q} \X (1..GateQuality(v, q))
                   PROVE  FALSE
        BY DEF Points
      <3> QED
        BY <1>1, <1>6
    <2> QED
      BY <2>1, <2>2
  <1>9. /\ IsFiniteSet(Points(v, R)) /\ points \in Nat /\ r \in Nat /\ points <= r * Full
        /\ R # {} => points # r * Full
    <2>1. /\ IsFiniteSet(Points(v, R)) /\ points <= Cardinality(K)
          /\ points = Cardinality(K) => Points(v, R) = K
      BY ONLY <1>4, <1>7, FS_Subset
    <2>2. points \in Nat /\ r \in Nat
      BY ONLY <1>2, <2>1, FS_CardinalityType
    <2> QED
      BY <1>4, <1>8, <2>1, <2>2
  <1> HIDE DEF w, points, r, K
  <1>10. r * Full \in Nat /\ w * points \in Nat
    BY <1>1, <1>9
  <1>11. points * w <= (r * Full) * w
    BY <1>1, <1>9, <1>10, Products
  <1>12. (r * Full) * w = Full * (r * w) /\ points * w = w * points
    BY <1>1, <1>9
  <1>13. ASSUME points < r * Full, w > 0 PROVE points * w # (r * Full) * w
    BY <1>1, <1>9, <1>10, <1>13
  <1>14. /\ w * points <= Full * Weigh(R)
         /\ w * points = Full * Weigh(R) => R = {} \/ w = 0
    BY <1>1, <1>5, <1>9, <1>10, <1>11, <1>12, <1>13
  <1> QED
    BY <1>9, <1>10, <1>14 DEF w, points

\* Passed gates are worth at most the full score for their weight, and that much if and, but
\* for what has no weight, only if none of them is discounted.
LEMMA WorthIs ==
    ASSUME NEW v, Valued(v), NEW A \in SUBSET ((DOMAIN v) \X Gates)
    PROVE  /\ Worth(v, A) \in Nat /\ Weigh(A) \in Nat
           /\ Worth(v, A) <= Full * Weigh(A)
           /\ Worth(v, A) = Full * Weigh(A) =>
                  \A pair \in A : GateQuality(v, pair) # Full => GateWeights[pair[2]] = 0
           /\ (\A pair \in A : GateQuality(v, pair) = Full) => Worth(v, A) = Full * Weigh(A)
  <1> DEFINE less == Discounted(v, A)
             w == GateWeights[BehaviorGate]
             c == w * Cardinality(Points(v, less))
             a == Weigh(A)
             d == Weigh(less)
             e == Weigh(A \ less)
  <1>1. less \in SUBSET A /\ \A pair \in less : GateQuality(v, pair) # Full
    BY DEF Discounted
  <1>2. Worth(v, A) = Full * e + c
    BY Zenon DEF Worth
  <1>3. \A pair \in A : GateQuality(v, pair) # Full => pair \in less /\ pair[2] = BehaviorGate
    BY GateQualityIs DEF Discounted
  <1> HIDE DEF less
  <1>4. a \in Nat /\ d \in Nat /\ e \in Nat /\ a = d + e
    BY <1>1, WeighRest DEF Valued
  <1>5. c \in Nat /\ c <= Full * d /\ (c = Full * d => less = {} \/ w = 0)
    <2>1. less \in SUBSET ((DOMAIN v) \X Gates)
      BY <1>1
    <2> HIDE DEF w, d
    <2> QED
      BY <1>1, <2>1, PointsAre, Zenon DEF w, d
  <1>6. less = {} => c = 0
    <2> SUFFICES ASSUME less = {} PROVE c = 0
      OBVIOUS
    <2>1. Points(v, less) = {}
      BY DEF Points
    <2>2. Cardinality(Points(v, less)) = 0
      BY <2>1, FS_EmptySet, Zenon
    <2>3. w \in Nat
      BY ProfileAssumption
    <2> QED
      BY <2>2, <2>3
  <1>7. Full \in Nat
    BY ScoresAreNumbers
  <1> HIDE DEF a, c, d, e, w
  <1>8. Full * a = Full * d + Full * e /\ Full * e \in Nat /\ Full * d \in Nat
    BY <1>4, <1>7
  <1>9. Worth(v, A) \in Nat /\ Worth(v, A) <= Full * a
    BY <1>2, <1>5, <1>8
  <1>10. Worth(v, A) = Full * a => c = Full * d
    BY <1>2, <1>5, <1>8
  <1>11. Worth(v, A) = Full * a =>
             \A pair \in A : GateQuality(v, pair) # Full => GateWeights[pair[2]] = 0
    BY <1>3, <1>5, <1>10 DEF w
  <1>12. less = {} => Worth(v, A) = Full * a
    <2> SUFFICES ASSUME less = {} PROVE Worth(v, A) = Full * a
      OBVIOUS
    <2>1. A \ less = A
      OBVIOUS
    <2>2. e = a
      BY <2>1 DEF a, e
    <2> QED
      BY <1>2, <1>4, <1>6, <1>7, <1>8, <2>2
  <1>13. (\A pair \in A : GateQuality(v, pair) = Full) => less = {}
    BY <1>1
  <1> QED
    BY <1>4, <1>9, <1>11, <1>12, <1>13 DEF a

\* The worths of two parts add up.
LEMMA WorthParts ==
    ASSUME NEW v, Valued(v), NEW A \in SUBSET ((DOMAIN v) \X Gates),
           NEW B \in SUBSET ((DOMAIN v) \X Gates), A \intersect B = {}
    PROVE  Worth(v, A \union B) = Worth(v, A) + Worth(v, B)
  <1> DEFINE la == Discounted(v, A)
             lb == Discounted(v, B)
             w == GateWeights[BehaviorGate]
             ca == Cardinality(Points(v, la))
             cb == Cardinality(Points(v, lb))
             ea == Weigh(A \ la)
             eb == Weigh(B \ lb)
  <1>1. /\ la \in SUBSET A /\ \A pair \in la : GateQuality(v, pair) # Full
        /\ lb \in SUBSET B /\ \A pair \in lb : GateQuality(v, pair) # Full
        /\ Discounted(v, A \union B) = la \union lb
    BY DEF Discounted
  <1>2. /\ Worth(v, A) = Full * ea + w * ca /\ Worth(v, B) = Full * eb + w * cb
        /\ Worth(v, A \union B) = Full * Weigh((A \union B) \ (la \union lb))
                                      + w * Cardinality(Points(v, la \union lb))
    BY <1>1, Zenon DEF Worth
  <1> HIDE DEF la, lb
  <1>3. (A \union B) \ (la \union lb) = (A \ la) \union (B \ lb)
    BY <1>1
  <1>4. Weigh((A \union B) \ (la \union lb)) = ea + eb /\ ea \in Nat /\ eb \in Nat
    <2>1. /\ A \ la \in SUBSET ((DOMAIN v) \X Gates) /\ B \ lb \in SUBSET ((DOMAIN v) \X Gates)
          /\ (A \ la) \intersect (B \ lb) = {}
      OBVIOUS
    <2>2. IsFiniteSet(DOMAIN v)
      BY DEF Valued
    <2> QED
      BY <1>3, <2>1, <2>2, WeighParts, UnitsFinite
  <1>5. la \in SUBSET ((DOMAIN v) \X Gates) /\ lb \in SUBSET ((DOMAIN v) \X Gates)
    BY <1>1
  <1>6. IsFiniteSet(Points(v, la)) /\ IsFiniteSet(Points(v, lb)) /\ ca \in Nat /\ cb \in Nat
    BY <1>1, <1>5, PointsAre, Zenon
  <1>7. Cardinality(Points(v, la \union lb)) = ca + cb
    <2>1. Points(v, la \union lb) = Points(v, la) \union Points(v, lb)
      BY DEF Points
    <2>2. Points(v, la) \intersect Points(v, lb) = {}
      <3> SUFFICES ASSUME NEW p \in la, NEW q \in lb, NEW u,
                          u \in {p} \X (1..GateQuality(v, p)),
                          u \in {q} \X (1..GateQuality(v, q))
                   PROVE  FALSE
        BY DEF Points
      <3>1. p = q
        OBVIOUS
      <3> QED
        BY <1>1, <3>1
    <2>3. Cardinality(Points(v, la) \intersect Points(v, lb)) = 0
      BY <2>2, FS_EmptySet, Zenon
    <2>4. Cardinality(Points(v, la) \union Points(v, lb)) =
              ca + cb - Cardinality(Points(v, la) \intersect Points(v, lb))
      BY <1>6, FS_Union
    <2>5. Cardinality(Points(v, la) \union Points(v, lb)) = ca + cb - 0
      BY <2>3, <2>4, Zenon
    <2> HIDE DEF ca, cb
    <2>6. ca + cb - 0 = ca + cb
      BY <1>6
    <2> QED
      BY <2>1, <2>5, <2>6, Zenon
  <1>8. w \in Nat /\ Full \in Nat
    BY ProfileAssumption, ScoresAreNumbers
  <1> DEFINE x == Worth(v, A)
             y == Worth(v, B)
             z == Worth(v, A \union B)
  <1>9. z = Full * (ea + eb) + w * (ca + cb)
    BY <1>2, <1>4, <1>7
  <1> HIDE DEF w, ca, cb, ea, eb, x, y, z
  <1>10. /\ Full * (ea + eb) = Full * ea + Full * eb /\ w * (ca + cb) = w * ca + w * cb
         /\ Full * ea \in Nat /\ Full * eb \in Nat /\ w * ca \in Nat /\ w * cb \in Nat
    BY <1>4, <1>6, <1>8
  <1>11. x = Full * ea + w * ca /\ y = Full * eb + w * cb
    BY <1>2 DEF x, y
  <1>12. z = x + y
    BY <1>9, <1>10, <1>11
  <1> QED
    BY <1>12 DEF x, y, z

\* A worth depends on the calibrations of its own trials.
LEMMA WorthSame ==
    ASSUME NEW v, NEW u, NEW A,
           \A pair \in A : u[pair[1]].calibration = v[pair[1]].calibration
    PROVE  Worth(u, A) = Worth(v, A)
  <1>1. \A pair \in A : GateQuality(u, pair) = GateQuality(v, pair)
    BY DEF GateQuality
  <1>2. Discounted(u, A) = Discounted(v, A)
    BY <1>1 DEF Discounted
  <1>3. Points(u, Discounted(v, A)) = Points(v, Discounted(v, A))
    BY <1>1 DEF Points, Discounted
  <1> QED
    BY <1>2, <1>3, Zenon DEF Worth

-----------------------------------------------------------------------------
(* The scores of any vector of trials. *)

\* The weights that Quality divides: what passed is part of what was judged.
LEMMA QualityParts ==
    ASSUME NEW v, IsFiniteSet(DOMAIN v)
    PROVE  LET judged == GatesIn(v, ReliableTrials(v), {"passed", "failed"})
               passed == GatesIn(v, ReliableTrials(v), {"passed"})
           IN  /\ judged \in SUBSET ((DOMAIN v) \X Gates) /\ passed \in SUBSET judged
               /\ Weigh(judged) \in Nat /\ Weigh(passed) \in Nat
               /\ Weigh(passed) <= Weigh(judged)
               /\ Weigh(judged \ passed) \in Nat
               /\ Weigh(judged) = Weigh(passed) + Weigh(judged \ passed)
  <1> DEFINE judged == GatesIn(v, ReliableTrials(v), {"passed", "failed"})
             passed == GatesIn(v, ReliableTrials(v), {"passed"})
  <1>1. judged \in SUBSET ((DOMAIN v) \X Gates) /\ passed \in SUBSET judged
    BY DEF GatesIn, ReliableTrials, Trials
  <1> HIDE DEF judged, passed
  <1>2. /\ Weigh(judged) \in Nat /\ Weigh(passed) \in Nat
        /\ Weigh(passed) <= Weigh(judged)
        /\ Weigh(judged \ passed) \in Nat
        /\ Weigh(judged) = Weigh(passed) + Weigh(judged \ passed)
    BY <1>1, WeighRest
  <1> QED
    BY <1>1, <1>2 DEF judged, passed

\* Quality is a share, full only if no weighted gate failed and no weighted pass is discounted.
LEMMA QualityIs ==
    ASSUME NEW v, Valued(v)
    PROVE  /\ Quality(v) \in 0..Full
           /\ Quality(v) = Full =>
                  \A pair \in GatesIn(v, ReliableTrials(v), {"passed", "failed"}) :
                      GateWeights[pair[2]] > 0 =>
                          /\ v[pair[1]].verdict.outcomes[pair[2]] = "passed"
                          /\ GateQuality(v, pair) = Full
  <1> DEFINE judged == GatesIn(v, ReliableTrials(v), {"passed", "failed"})
             passed == GatesIn(v, ReliableTrials(v), {"passed"})
             j == Weigh(judged)
             p == Weigh(passed)
             x == Worth(v, passed)
  <1>1. /\ judged \in SUBSET ((DOMAIN v) \X Gates) /\ passed \in SUBSET judged
        /\ j \in Nat /\ p \in Nat /\ p <= j
        /\ Weigh(judged \ passed) \in Nat /\ j = p + Weigh(judged \ passed)
    <2>1. IsFiniteSet(DOMAIN v)
      BY DEF Valued
    <2> QED
      BY <2>1, QualityParts, Zenon
  <1>2. Quality(v) = IF j = 0 THEN 0 ELSE x \div j
    BY Zenon DEF Quality
  <1>3. ASSUME NEW pair \in judged, v[pair[1]].verdict.outcomes[pair[2]] # "passed"
        PROVE  pair \in judged \ passed
    BY <1>3 DEF GatesIn
  <1>4. \A pair \in judged : GateWeights[pair[2]] \in Nat
    BY <1>1, ProfileAssumption
  <1> HIDE DEF judged, passed
  <1>5. /\ x \in Nat /\ x <= Full * p
        /\ x = Full * p =>
               \A pair \in passed : GateQuality(v, pair) # Full => GateWeights[pair[2]] = 0
    <2>1. passed \in SUBSET ((DOMAIN v) \X Gates)
      BY <1>1
    <2> HIDE DEF x, p
    <2> QED
      BY ONLY <2>1, Valued(v), WorthIs DEF x, p
  <1> HIDE DEF j, p, x
  <1>6. Full \in Nat /\ Full > 0
    BY DEF Full
  <1>7. Full * p \in Nat /\ Full * j \in Nat /\ Full * p <= Full * j
        /\ (Full * p = Full * j => p = j)
    BY <1>1 DEF Full
  <1>8. x <= Full * j
    BY <1>5, <1>7
  <1>9. CASE j = 0
    <2>1. Quality(v) = 0
      BY <1>2, <1>9
    <2>2. 0 \in 0..Full
      BY <1>6
    <2> QED
      BY <1>6, <2>1, <2>2
  <1>10. CASE j # 0
    <2>1. x \div j \in 0..Full /\ (x \div j = Full => x = Full * j)
      BY <1>1, <1>5, <1>8, <1>10, Quotients
    <2>2. ASSUME Quality(v) = Full PROVE Weigh(judged \ passed) = 0 /\ x = Full * p
      <3>1. x = Full * j
        BY <1>2, <1>10, <2>1, <2>2
      <3>2. Full * p = Full * j
        BY <1>5, <1>7, <3>1
      <3>3. p = j
        BY <1>7, <3>2
      <3> QED
        BY <1>1, <3>1, <3>2, <3>3
    <2>3. ASSUME Quality(v) = Full, NEW pair \in judged, GateWeights[pair[2]] > 0
          PROVE  /\ v[pair[1]].verdict.outcomes[pair[2]] = "passed"
                 /\ GateQuality(v, pair) = Full
      <3>1. GateWeights[pair[2]] # 0
        BY <1>4, <2>3
      <3>2. pair \notin judged \ passed
        <4>1. judged \ passed \in SUBSET ((DOMAIN v) \X Gates) /\ IsFiniteSet(DOMAIN v)
          BY <1>1 DEF Valued
        <4> QED
          BY <2>2, <2>3, <3>1, <4>1, WeighNothing
      <3>3. v[pair[1]].verdict.outcomes[pair[2]] = "passed" /\ pair \in passed
        BY <1>3, <2>3, <3>2
      <3> QED
        BY <1>5, <2>2, <2>3, <3>1, <3>3
    <2> QED
      BY <1>2, <1>10, <2>1, <2>3 DEF judged
  <1> QED
    BY <1>9, <1>10

\* Reliability is a share, full only if every trial that counts passed.
LEMMA ReliabilityIs ==
    ASSUME NEW v, IsFiniteSet(DOMAIN v)
    PROVE  /\ Reliability(v) \in 0..Full
           /\ Reliability(v) = Full <=>
                  ReliableTrials(v) # {} /\ ReliableTrials(v) = PassedTrials(v)
           /\ PassedTrials(v) \subseteq ReliableTrials(v)
           /\ IsFiniteSet(ReliableTrials(v)) /\ IsFiniteSet(PassedTrials(v))
  <1> DEFINE a == Cardinality(ReliableTrials(v))
             p == Cardinality(PassedTrials(v))
  <1>1. PassedTrials(v) \in SUBSET ReliableTrials(v) /\ ReliableTrials(v) \in SUBSET DOMAIN v
    BY DEF PassedTrials, ReliableTrials, Trials, Attributable
  <1>2. IsFiniteSet(ReliableTrials(v)) /\ IsFiniteSet(PassedTrials(v))
    BY <1>1, FS_Subset
  <1>3. /\ a \in Nat /\ p \in Nat /\ p <= a
        /\ p = a <=> ReliableTrials(v) = PassedTrials(v)
    BY <1>1, <1>2, FS_Subset, FS_CardinalityType
  <1>4. a = 0 <=> ReliableTrials(v) = {}
    BY <1>2, FS_EmptySet
  <1>5. Reliability(v) = IF ReliableTrials(v) = {} THEN 0 ELSE (Full * p) \div a
    BY Zenon DEF Reliability
  <1> HIDE DEF a, p
  <1>6. Full \in Nat /\ Full > 0
    BY DEF Full
  <1>7. CASE ReliableTrials(v) = {}
    BY <1>1, <1>2, <1>5, <1>6, <1>7
  <1>8. CASE ReliableTrials(v) # {}
    <2>1. a > 0
      BY <1>3, <1>4, <1>8
    <2>2. (Full * p) \div a \in 0..Full /\ ((Full * p) \div a = Full <=> p = a)
      BY <1>3, <2>1, Shares
    <2> QED
      BY <1>1, <1>2, <1>3, <1>5, <1>8, <2>2
  <1> QED
    BY <1>7, <1>8

\* One more share that counts in full does not lower the score, and neither does a part of it
\* that is now whole.
LEMMA WorthsCompared ==
    ASSUME NEW n \in Nat, NEW x \in Nat, NEW a \in Nat, NEW b \in Nat,
           n <= Full * a, x <= Full * b, a + b > 0
    PROVE  /\ (n + x) \div (a + b) <= (n + Full * b) \div (a + b)
           /\ a > 0 => n \div a <= (n + Full * b) \div (a + b)
  <1> DEFINE f == Full * b
             g == Full * a
  <1>1. f \in Nat /\ g \in Nat
    BY DEF Full
  <1>2. f * a = g * b
    BY DEF Full
  <1>3. x <= f /\ n <= g
    OBVIOUS
  <1> HIDE DEF f, g
  <1>4. n + x \in Nat /\ n + f \in Nat /\ n + x <= n + f /\ a + b \in Nat
    BY <1>1, <1>3
  <1>5. (n + x) * (a + b) <= (n + f) * (a + b)
    BY <1>4, Products
  <1>6. (n + x) \div (a + b) <= (n + f) \div (a + b)
    BY <1>4, <1>5, DivisionsCompared
  <1>7. n * (a + b) <= (n + f) * a
    <2>1. n * b <= g * b
      BY <1>1, <1>3, Products
    <2>2. n * (a + b) = n * a + n * b /\ (n + f) * a = n * a + f * a
      BY <1>1
    <2>3. n * a \in Nat /\ n * b \in Nat /\ g * b \in Nat
      BY <1>1
    <2> QED
      BY <1>2, <2>1, <2>2, <2>3
  <1>8. a > 0 => n \div a <= (n + f) \div (a + b)
    BY <1>4, <1>7, DivisionsCompared
  <1> QED
    BY <1>6, <1>8 DEF f

\* The same of numbers of trials.
LEMMA SharesCompared ==
    ASSUME NEW p \in Nat, NEW a \in Nat, NEW b \in Nat, NEW x \in Nat, p <= a, x <= b, a + b > 0
    PROVE  /\ (Full * (p + x)) \div (a + b) <= (Full * (p + b)) \div (a + b)
           /\ a > 0 => (Full * p) \div a <= (Full * (p + b)) \div (a + b)
  <1>1. /\ Full * p \in Nat /\ Full * x \in Nat /\ Full * p <= Full * a /\ Full * x <= Full * b
        /\ Full * (p + x) = Full * p + Full * x /\ Full * (p + b) = Full * p + Full * b
    BY DEF Full
  <1> QED
    BY <1>1, WorthsCompared

\* A vector in which the trials that count were judged on the applicable gates, and a pass that
\* counts in full.
Comparable(v) ==
    /\ Valued(v)
    /\ \A t \in DOMAIN v, g \in Gates :
          v[t].verdict.classification \in Attributable =>
              (v[t].verdict.outcomes[g] \in {"passed", "failed"} <=> g \in Applicable)

PassesAll(trial) ==
    /\ trial.verdict.classification = "valid_pass"
    /\ \A g \in Gates :
          trial.verdict.outcomes[g] = IF g \in Applicable THEN "passed" ELSE "not_applicable"
    /\ trial.calibration \in {NoCalibration} \union CalibrationType
    /\ ReviewQuality(trial.calibration) = Full

\* Its quality with one trial replaced by a pass.
LEMMA QualityOfPass ==
    ASSUME NEW v, Comparable(v), NEW s \in DOMAIN v, NEW trial, PassesAll(trial)
    PROVE  Quality([v EXCEPT ![s] = trial]) >= Quality(v)
  <1> DEFINE better == [v EXCEPT ![s] = trial]
             rest == ReliableTrials(v) \ {s}
             J == GatesIn(v, rest, {"passed", "failed"})
             P == GatesIn(v, rest, {"passed"})
             X == GatesIn(v, {s}, {"passed"})
             B == {s} \X Applicable
  <1> SUFFICES Quality(better) >= Quality(v)
    OBVIOUS
  <1>1. IsFiniteSet(DOMAIN v) /\ Valued(v) /\ Applicable \subseteq Gates
    BY GatesAssumption DEF Comparable, Valued
  <1>2. /\ DOMAIN better = DOMAIN v /\ better[s] = trial
        /\ \A t \in DOMAIN v \ {s} : better[t] = v[t]
    OBVIOUS
  <1>3. J \in SUBSET (rest \X Gates) /\ P \in SUBSET J /\ rest \subseteq DOMAIN v
        /\ s \notin rest
    BY DEF GatesIn, ReliableTrials, Trials
  <1> HIDE DEF better
  <1>4. ReliableTrials(better) = rest \union {s}
    BY <1>2 DEF ReliableTrials, Trials, PassesAll, Attributable
  <1>5. GatesIn(better, rest \union {s}, {"passed", "failed"}) = J \union B
    <2>1. \A t \in rest : better[t] = v[t]
      BY <1>2, <1>3
    <2>2. \A g \in Gates : trial.verdict.outcomes[g] \in {"passed", "failed"} <=> g \in Applicable
      BY DEF PassesAll
    <2> HIDE DEF rest
    <2> QED
      BY <1>1, <1>2, <1>3, <2>1, <2>2 DEF GatesIn
  <1>6. GatesIn(better, rest \union {s}, {"passed"}) = P \union B
    <2>1. \A t \in rest : better[t] = v[t]
      BY <1>2, <1>3
    <2>2. \A g \in Gates : trial.verdict.outcomes[g] \in {"passed"} <=> g \in Applicable
      BY DEF PassesAll
    <2> HIDE DEF rest
    <2> QED
      BY <1>1, <1>2, <1>3, <2>1, <2>2 DEF GatesIn
  <1>7. X \in SUBSET ({s} \X Gates)
    BY DEF GatesIn
  <1>8. ASSUME s \in ReliableTrials(v)
        PROVE  /\ GatesIn(v, ReliableTrials(v), {"passed", "failed"}) = J \union B
               /\ GatesIn(v, ReliableTrials(v), {"passed"}) = P \union X
               /\ X \subseteq B
    <2>1. ReliableTrials(v) = rest \union {s}
      BY <1>8
    <2>2. \A g \in Gates : v[s].verdict.outcomes[g] \in {"passed", "failed"} <=> g \in Applicable
      BY <1>8 DEF Comparable, ReliableTrials, Trials
    <2> HIDE DEF rest
    <2>3. GatesIn(v, rest \union {s}, {"passed", "failed"}) = J \union B
      BY <1>1, <2>2 DEF GatesIn
    <2>4. GatesIn(v, rest \union {s}, {"passed"}) = P \union X
      BY DEF GatesIn
    <2>5. X \subseteq B
      BY <2>2 DEF GatesIn
    <2> QED
      BY <2>1, <2>3, <2>4, <2>5
  <1>9. ASSUME s \notin ReliableTrials(v)
        PROVE  /\ GatesIn(v, ReliableTrials(v), {"passed", "failed"}) = J
               /\ GatesIn(v, ReliableTrials(v), {"passed"}) = P
    <2>1. rest = ReliableTrials(v)
      BY <1>9
    <2> QED
      BY <2>1
  <1>10. /\ J \in SUBSET ((DOMAIN v) \X Gates) /\ P \in SUBSET ((DOMAIN v) \X Gates)
         /\ B \in SUBSET ((DOMAIN v) \X Gates) /\ X \in SUBSET ((DOMAIN v) \X Gates)
         /\ J \intersect B = {} /\ P \intersect B = {} /\ P \intersect X = {}
    BY <1>1, <1>3, <1>7
  <1>11. Valued(better)
    BY <1>1, <1>2 DEF Valued, PassesAll
  <1>12. /\ \A pair \in P : better[pair[1]].calibration = v[pair[1]].calibration
         /\ \A pair \in B : GateQuality(better, pair) = Full
    <2>1. \A pair \in P : pair[1] \in rest
      BY <1>3
    <2>2. \A pair \in P : better[pair[1]].calibration = v[pair[1]].calibration
      BY <1>2, <1>3, <2>1
    <2>3. \A pair \in B : pair[1] = s
      OBVIOUS
    <2> QED
      BY <1>2, <2>2, <2>3 DEF GateQuality, PassesAll
  <1> DEFINE a == Weigh(J)
             n == Worth(v, P)
             b == Weigh(B)
             x == Worth(v, X)
  <1> HIDE DEF J, P, X, B, rest
  <1>13. Weigh(J \union B) = a + b
    BY <1>1, <1>10, WeighParts
  <1>14. Worth(v, P \union X) = n + x
    BY <1>1, <1>10, WorthParts
  <1>15. Worth(better, P \union B) = n + Full * b
    <2>1. Worth(better, P) = n
      BY <1>12, WorthSame
    <2>2. Worth(better, B) = Full * b
      BY <1>2, <1>10, <1>11, <1>12, WorthIs
    <2>3. Worth(better, P \union B) = Worth(better, P) + Worth(better, B)
      BY <1>2, <1>10, <1>11, WorthParts
    <2> QED
      BY <2>1, <2>2, <2>3
  <1>16. /\ a \in Nat /\ b \in Nat /\ n \in Nat /\ x \in Nat /\ n <= Full * a
         /\ s \in ReliableTrials(v) => x <= Full * b
    <2>1. \A k, m \in Nat : k <= m => Full * k <= Full * m
      BY DEF Full
    <2>2. /\ Weigh(P) \in Nat /\ a \in Nat /\ Weigh(P) <= a
      BY <1>1, <1>3, <1>10, WeighRest
    <2>3. n \in Nat /\ n <= Full * Weigh(P) /\ x \in Nat /\ x <= Full * Weigh(X)
      BY <1>1, <1>10, WorthIs
    <2>4. b \in Nat /\ Weigh(X) \in Nat
      BY <1>1, <1>10, UnitsFinite
    <2>5. s \in ReliableTrials(v) => Weigh(X) <= b
      BY <1>1, <1>8, <1>10, WeighRest
    <2> DEFINE wp == Weigh(P)
               wx == Weigh(X)
    <2> HIDE DEF a, b, n, x, wp, wx
    <2>6. Full * wp <= Full * a /\ (s \in ReliableTrials(v) => Full * wx <= Full * b)
      BY <2>1, <2>2, <2>4, <2>5 DEF wp, wx
    <2>7. Full * wp \in Nat /\ Full * wx \in Nat /\ Full * a \in Nat /\ Full * b \in Nat
      BY <2>2, <2>4 DEF Full, wp, wx
    <2>8. n <= Full * wp /\ x <= Full * wx
      BY <2>3 DEF wp, wx
    <2> QED
      BY <2>2, <2>3, <2>4, <2>6, <2>7, <2>8
  <1>17. Quality(better) = IF a + b = 0 THEN 0 ELSE (n + Full * b) \div (a + b)
    BY <1>4, <1>5, <1>6, <1>13, <1>15, Zenon DEF Quality
  <1>18. Quality(better) \in Nat
    BY <1>11, QualityIs, ScoresAreNumbers
  <1>19. CASE s \in ReliableTrials(v)
    <2>1. Quality(v) = IF a + b = 0 THEN 0 ELSE (n + x) \div (a + b)
      BY <1>8, <1>13, <1>14, <1>19, Zenon DEF Quality
    <2> HIDE DEF a, b, n, x
    <2>2. a + b \in Nat
      BY <1>16
    <2>3. CASE a + b = 0
      BY <1>17, <2>1, <2>3
    <2>4. CASE a + b # 0
      <3>1. a + b > 0 /\ x <= Full * b
        BY <1>16, <1>19, <2>2, <2>4
      <3>2. (n + x) \div (a + b) <= (n + Full * b) \div (a + b)
        BY <1>16, <3>1, WorthsCompared
      <3>3. Quality(better) = (n + Full * b) \div (a + b) /\ Quality(v) = (n + x) \div (a + b)
        BY <1>17, <2>1, <2>4
      <3>4. (n + x) \div (a + b) \in Nat
        BY <1>16, <2>2, <3>1, Division
      <3> QED
        BY <1>18, <3>2, <3>3, <3>4
    <2> QED
      BY <2>3, <2>4
  <1>20. CASE s \notin ReliableTrials(v)
    <2>1. Quality(v) = IF a = 0 THEN 0 ELSE n \div a
      BY <1>9, <1>20, Zenon DEF Quality
    <2> HIDE DEF a, b, n, x
    <2>2. CASE a = 0
      BY <1>18, <2>1, <2>2
    <2>3. CASE a # 0
      <3>1. a + b > 0 /\ a > 0 /\ a + b # 0
        BY <1>16, <2>3
      <3>2. Full * b \in Nat
        BY <1>16, ScoresAreNumbers
      <3>3. \A m \in Nat : m <= m
        OBVIOUS
      <3>4. n \div a <= (n + Full * b) \div (a + b)
        BY <1>16, <3>1, <3>2, <3>3, WorthsCompared
      <3>5. Quality(better) = (n + Full * b) \div (a + b) /\ Quality(v) = n \div a
        BY <1>17, <2>1, <2>3, <3>1
      <3>6. n \div a \in Nat
        BY <1>16, <3>1, Division
      <3> QED
        BY <1>18, <3>4, <3>5, <3>6
    <2> QED
      BY <2>2, <2>3
  <1> QED
    BY <1>19, <1>20

\* Its reliability with one trial replaced by a pass.
LEMMA ReliabilityOfPass ==
    ASSUME NEW v, Comparable(v), NEW s \in DOMAIN v, NEW trial, PassesAll(trial)
    PROVE  Reliability([v EXCEPT ![s] = trial]) >= Reliability(v)
  <1> DEFINE better == [v EXCEPT ![s] = trial]
             R == ReliableTrials(v) \ {s}
             Q == PassedTrials(v) \ {s}
             a == Cardinality(R)
             p == Cardinality(Q)
  <1> SUFFICES Reliability(better) >= Reliability(v)
    OBVIOUS
  <1>1. IsFiniteSet(DOMAIN v)
    BY DEF Comparable, Valued
  <1>2. /\ DOMAIN better = DOMAIN v /\ better[s] = trial
        /\ \A t \in DOMAIN v \ {s} : better[t] = v[t]
    OBVIOUS
  <1> HIDE DEF better
  <1>3. ReliableTrials(better) = R \union {s} /\ PassedTrials(better) = Q \union {s}
    BY <1>2 DEF ReliableTrials, PassedTrials, Trials, PassesAll, Attributable
  <1>4. /\ PassedTrials(v) \subseteq ReliableTrials(v)
        /\ IsFiniteSet(ReliableTrials(v)) /\ IsFiniteSet(PassedTrials(v))
    BY <1>1, ReliabilityIs
  <1>5. /\ IsFiniteSet(R) /\ IsFiniteSet(Q) /\ Q \in SUBSET R /\ s \notin R /\ s \notin Q
        /\ s \in PassedTrials(v) => s \in ReliableTrials(v)
    BY <1>4, FS_Subset
  <1>6. /\ s \in ReliableTrials(v) => ReliableTrials(v) = R \union {s}
        /\ s \notin ReliableTrials(v) => ReliableTrials(v) = R
        /\ s \in PassedTrials(v) => PassedTrials(v) = Q \union {s}
        /\ s \notin PassedTrials(v) => PassedTrials(v) = Q
    OBVIOUS
  <1> HIDE DEF R, Q
  <1>7. a \in Nat /\ p \in Nat /\ p <= a
    BY <1>5, FS_CardinalityType, FS_Subset
  <1>8. Cardinality(R \union {s}) = a + 1 /\ Cardinality(Q \union {s}) = p + 1
    BY <1>5, FS_AddElement
  <1>9. Reliability(better) = (Full * (p + 1)) \div (a + 1)
    <2>1. R \union {s} # {}
      OBVIOUS
    <2> QED
      BY <1>3, <1>8, <2>1, Zenon DEF Reliability
  <1> DEFINE x == IF s \in PassedTrials(v) THEN 1 ELSE 0
  <1>10. x \in Nat /\ x <= 1 /\ Cardinality(PassedTrials(v)) = p + x
    BY <1>6, <1>7, <1>8
  <1>11. Reliability(better) \in Nat
    BY <1>1, <1>2, ReliabilityIs, ScoresAreNumbers
  <1>12. a = 0 <=> R = {}
    BY <1>5, FS_EmptySet
  <1>13. CASE s \in ReliableTrials(v)
    <2>1. ReliableTrials(v) # {} /\ Cardinality(ReliableTrials(v)) = a + 1
      BY <1>6, <1>8, <1>13
    <2>2. Reliability(v) = (Full * (p + x)) \div (a + 1)
      BY <1>10, <2>1, Zenon DEF Reliability
    <2> HIDE DEF a, p, x
    <2>3. (Full * (p + x)) \div (a + 1) <= (Full * (p + 1)) \div (a + 1)
      <3>1. a + 1 > 0 /\ 1 \in Nat
        BY <1>7
      <3> QED
        BY <1>7, <1>10, <3>1, SharesCompared
    <2> QED
      BY <1>9, <1>11, <2>2, <2>3
  <1>14. CASE s \notin ReliableTrials(v)
    <2>1. ReliableTrials(v) = R /\ PassedTrials(v) = Q
      BY <1>5, <1>6, <1>14
    <2>2. Reliability(v) = IF R = {} THEN 0 ELSE (Full * p) \div a
      BY <2>1, Zenon DEF Reliability
    <2> HIDE DEF a, p
    <2>3. CASE R = {}
      BY <1>11, <2>2, <2>3
    <2>4. CASE R # {}
      <3>1. a > 0 /\ a + 1 > 0 /\ 1 \in Nat /\ 1 <= 1
        BY <1>7, <1>12, <2>4
      <3>2. (Full * p) \div a <= (Full * (p + 1)) \div (a + 1)
        BY <1>7, <3>1, SharesCompared
      <3> QED
        BY <1>9, <1>11, <2>2, <2>4, <3>2
    <2> QED
      BY <2>3, <2>4
  <1> QED
    BY <1>13, <1>14

-----------------------------------------------------------------------------
(* The scores of an accepted evaluation. *)

\* Whatever was taken had a verdict on exactly the applicable gates, if it says something of
\* the agent (validate_gate_applicability).
Applied == \A s \in DOMAIN taken : GatesBound(taken[s].result.bundle)

\* At first nothing was taken.
LEMMA InitApplied == Init => Applied
  BY DEF Init, Applied

\* A trial is taken only after the check, and none is changed.
LEMMA NextApplied == Applied /\ [Next]_vars => Applied'
  <1> SUFFICES ASSUME Applied, [Next]_vars PROVE Applied'
    OBVIOUS
  <1>1. CASE taken' = taken
    BY <1>1 DEF Applied
  <1>2. CASE taken' # taken
    <2>1. PICK s \in Slots : TakeTrial(s)
      BY <1>2 DEF Next, vars, Run, RetryRun, ReplaceTrial, Regenerate, ClearOutput, HashManifest,
          HashResult, LoadManifest, LoadResult, NewManifest, Rewrite, Reject, Goes, Bind,
          StartEvaluation, Accept, evaluator
    <2> DEFINE run == reader.files[1]
               file == reader.files[2]
    <2>2. LoadError(s, run, file) = "none"
      BY <1>2, <2>1 DEF TakeTrial, Reject
    <2>3. GatesBound(file.bundle)
      BY <2>2 DEF LoadError
    <2>4. taken' = [t \in DOMAIN taken \union {s} |->
                       IF t = s THEN [manifest |-> run, result |-> file] ELSE taken[t]]
      BY <2>1, <2>2 DEF TakeTrial
    <2> HIDE DEF run, file
    <2> QED
      BY <2>3, <2>4 DEF Applied
  <1> QED
    BY <1>1, <1>2

\* The vector that is scored.
LEMMA ScoredVector ==
    ASSUME IInv, Applied
    PROVE  /\ DOMAIN Scored = DOMAIN taken /\ DOMAIN Scored \subseteq Slots
           /\ stage = "accepted" => DOMAIN Scored = Slots
           /\ Comparable(Scored)
  <1>1. DOMAIN Scored = DOMAIN taken /\ DOMAIN Scored \subseteq Slots
    BY DEF Scored, IInv, TypeOK
  <1>2. IsFiniteSet(DOMAIN Scored)
    BY <1>1, SlotsAssumption, FS_Subset
  <1>3. stage = "accepted" => DOMAIN Scored = Slots
    BY <1>1 DEF IInv, Reading
  <1>4. ASSUME NEW t \in DOMAIN Scored
        PROVE  /\ Scored[t].verdict = taken[t].result.bundle.verdict /\ t \in DOMAIN taken
               /\ taken[t].result.bundle \in BundleType
               /\ Scored[t].calibration \in {NoCalibration} \union CalibrationType
    <2>1. t \in DOMAIN taken
      BY <1>1
    <2>2. Scored[t] = RawTrial(taken[t].result.bundle.verdict, Calibration(t, taken[t].result))
      BY <2>1 DEF Scored
    <2>3. taken[t].result \in ResultType
      BY <2>1 DEF IInv, TypeOK, FilesType
    <2> QED
      BY <2>1, <2>2, <2>3 DEF RawTrial, Calibration, ResultType
  <1>5. ASSUME NEW t \in DOMAIN Scored, NEW g \in Gates,
               Scored[t].verdict.classification \in Attributable
        PROVE  Scored[t].verdict.outcomes[g] \in {"passed", "failed"} <=> g \in Applicable
    <2> DEFINE judged == taken[t].result.bundle
    <2>1. Scored[t].verdict = judged.verdict /\ t \in DOMAIN taken /\ judged \in BundleType
      BY <1>4
    <2>2. GatesBound(judged)
      BY <2>1 DEF Applied
    <2> HIDE DEF judged
    <2>3. judged.verdict.outcomes[g] \in OutcomeStates
      BY <2>1 DEF BundleType, VerdictType
    <2>4. JudgedGates(judged) = Applicable
      BY <1>5, <2>1, <2>2 DEF GatesBound
    <2>5. g \in Applicable <=> judged.verdict.outcomes[g] # "not_applicable"
      BY <2>4 DEF JudgedGates
    <2> QED
      BY <2>1, <2>3, <2>5 DEF OutcomeStates
  <1> QED
    BY <1>1, <1>2, <1>3, <1>4, <1>5 DEF Comparable, Valued

\* Excluded trials never move a score of an evaluation, whatever the weights.
THEOREM ExcludedNeverMove == Spec => []ExcludedDoNotMove
  <1>1. ExcludedDoNotMove
    <2> DEFINE v == Scored
               counted == [s \in ReliableTrials(v) |-> v[s]]
               P == GatesIn(v, ReliableTrials(v), {"passed"})
    <2> SUFFICES Quality(v) = Quality(counted) /\ Reliability(v) = Reliability(counted)
      BY Zenon DEF ExcludedDoNotMove
    <2> HIDE DEF v
    <2>1. DOMAIN counted = ReliableTrials(v)
          /\ \A s \in ReliableTrials(v) : counted[s] = v[s]
      OBVIOUS
    <2> HIDE DEF counted
    <2>2. ReliableTrials(counted) = ReliableTrials(v)
      BY <2>1 DEF ReliableTrials, Trials
    <2>3. PassedTrials(counted) = PassedTrials(v)
      BY <2>1 DEF ReliableTrials, PassedTrials, Trials, Attributable
    <2>4. \A states : GatesIn(counted, ReliableTrials(v), states)
                          = GatesIn(v, ReliableTrials(v), states)
      BY <2>1 DEF GatesIn
    <2>5. Worth(counted, P) = Worth(v, P)
      <3>1. \A pair \in P : pair[1] \in ReliableTrials(v)
        BY DEF GatesIn
      <3>2. \A pair \in P : counted[pair[1]].calibration = v[pair[1]].calibration
        BY <2>1, <3>1
      <3> QED
        BY <3>2, WorthSame
    <2>6. Quality(v) = Quality(counted)
      BY <2>2, <2>4, <2>5, Zenon DEF Quality
    <2>7. Reliability(v) = Reliability(counted)
      BY <2>2, <2>3, Zenon DEF Reliability
    <2> QED
      BY <2>6, <2>7
  <1> QED
    BY <1>1, PTL

\* A perfect score of an evaluation has no rounding in it, whatever the weights.
THEOREM PerfectIsPerfect == Spec => []PerfectMeansPerfect
  <1>1. IInv /\ Applied => PerfectMeansPerfect
    <2> SUFFICES ASSUME IInv, Applied PROVE PerfectMeansPerfect
      OBVIOUS
    <2>1. Valued(Scored) /\ IsFiniteSet(DOMAIN Scored)
      BY ScoredVector DEF Comparable, Valued
    <2>2. Reliability(Scored) = Full <=>
              ReliableTrials(Scored) # {} /\ ReliableTrials(Scored) = PassedTrials(Scored)
      BY <2>1, ReliabilityIs
    <2>3. Quality(Scored) = Full =>
              \A pair \in GatesIn(Scored, ReliableTrials(Scored), {"passed", "failed"}) :
                  GateWeights[pair[2]] > 0 =>
                      /\ Scored[pair[1]].verdict.outcomes[pair[2]] = "passed"
                      /\ GateQuality(Scored, pair) = Full
      BY <2>1, QualityIs
    <2> QED
      BY <2>2, <2>3, Zenon DEF PerfectMeansPerfect
  <1> QED
    BY <1>1, InitIInv, NextIInv, InitApplied, NextApplied, PTL DEF Spec

\* The selection score of an evaluation lies between quality and reliability.
THEOREM SelectionLiesBetween == Spec => []SelectionIsBetween
  <1>1. IInv /\ Applied => SelectionIsBetween
    <2> SUFFICES ASSUME IInv, Applied PROVE SelectionIsBetween
      OBVIOUS
    <2> DEFINE q == Quality(Scored)
               r == Reliability(Scored)
               x == Selection(Scored)
    <2>1. Valued(Scored) /\ IsFiniteSet(DOMAIN Scored)
      BY ScoredVector DEF Comparable, Valued
    <2>2. q \in 0..Full /\ r \in 0..Full
      BY <2>1, QualityIs, ReliabilityIs
    <2>3. x = Mean(q, r, QualityWeight)
      BY Zenon DEF Selection, ReliabilityWeight, Mean
    <2>4. QualityWeight \in 0..100
      BY ProfileAssumption
    <2> HIDE DEF q, r, x
    <2>5. x \in 0..Full /\ ((q <= x /\ x <= r) \/ (r <= x /\ x <= q))
      BY <2>2, <2>3, <2>4, Means
    <2>6. {q, r, x} \subseteq 0..Full
      BY <2>2, <2>5
    <2> QED
      BY <2>5, <2>6, Zenon DEF SelectionIsBetween, q, r, x
  <1> QED
    BY <1>1, InitIInv, NextIInv, InitApplied, NextApplied, PTL DEF Spec

\* Replacing a trial by a pass that counts in full never lowers a score of an evaluation: a
\* score is a quotient whose parts both grow by what the applicable gates are worth, or whose
\* dividend alone grows.
THEOREM FullPassesNeverHurt == Spec => []FullPassNeverHurts
  <1>1. IInv /\ Applied => FullPassNeverHurts
    <2> SUFFICES ASSUME IInv, Applied, stage = "accepted", NEW s \in Slots, NEW o \in Verdicts,
                        o.verdict.classification = "valid_pass",
                        ReviewQuality(Calibration(s, o)) = Full
                 PROVE  LET better == [Scored EXCEPT ![s] =
                                          RawTrial(o.verdict, Calibration(s, o))]
                        IN  /\ Quality(better) >= Quality(Scored)
                            /\ Reliability(better) >= Reliability(Scored)
                            /\ Selection(better) >= Selection(Scored)
      BY Zenon DEF FullPassNeverHurts
    <2> DEFINE trial == RawTrial(o.verdict, Calibration(s, o))
               better == [Scored EXCEPT ![s] = trial]
    <2>1. s \in DOMAIN Scored /\ Comparable(Scored)
      BY ScoredVector
    <2>2. PassesAll(trial)
      <3>1. trial.verdict = o.verdict /\ trial.calibration = Calibration(s, o)
        BY DEF RawTrial
      <3>2. /\ o.verdict \in VerdictType /\ PublishableVerdict(o.verdict, o.harbor)
            /\ o.calibration = NoCalibration \/ o.calibration \in CalibrationType
        BY VerdictsAssumption
      <3>3. Decides(o.verdict.outcomes) /\ AllPassed(o.verdict.outcomes)
        BY <3>2 DEF PublishableVerdict, Judged, Interrupted, Excluded
      <3>4. ASSUME NEW g \in Gates
            PROVE  o.verdict.outcomes[g] = IF g \in Applicable THEN "passed" ELSE "not_applicable"
        BY <3>3 DEF Decides, AllPassed
      <3>5. Calibration(s, o) \in {NoCalibration} \union CalibrationType
        BY <3>2 DEF Calibration
      <3> HIDE DEF trial
      <3> QED
        BY <3>1, <3>4, <3>5 DEF PassesAll
    <2> HIDE DEF trial
    <2>3. Quality(better) >= Quality(Scored) /\ Reliability(better) >= Reliability(Scored)
      BY <2>1, <2>2, QualityOfPass, ReliabilityOfPass
    <2>4. /\ Quality(Scored) \in 0..Full /\ Reliability(Scored) \in 0..Full
          /\ Quality(better) \in 0..Full /\ Reliability(better) \in 0..Full
      <3>1. /\ Valued(Scored) /\ IsFiniteSet(DOMAIN Scored) /\ DOMAIN better = DOMAIN Scored
            /\ \A t \in DOMAIN Scored : better[t] = IF t = s THEN trial ELSE Scored[t]
        BY <2>1 DEF Comparable, Valued
      <3>2. Valued(better)
        <4> HIDE DEF better
        <4> QED
          BY <2>2, <3>1 DEF Valued, PassesAll
      <3> HIDE DEF better
      <3> QED
        BY <3>1, <3>2, QualityIs, ReliabilityIs
    <2> HIDE DEF better
    <2>5. Selection(better) >= Selection(Scored)
      <3> DEFINE q == Quality(Scored)
                 r == Reliability(Scored)
                 q2 == Quality(better)
                 r2 == Reliability(better)
                 w == QualityWeight
                 x == Mean(q, r, w)
                 y == Mean(q2, r2, w)
      <3>1. w \in 0..100
        BY ProfileAssumption
      <3>2. Selection(Scored) = x /\ Selection(better) = y
        BY Zenon DEF Selection, ReliabilityWeight, Mean
      <3> HIDE DEF q, r, q2, r2, w
      <3>3. /\ q \in 0..Full /\ r \in 0..Full /\ q2 \in 0..Full /\ r2 \in 0..Full
            /\ q <= q2 /\ r <= r2
        <4>1. \A m, n \in 0..Full : m >= n => n <= m
          BY ScoresAreNumbers
        <4> QED
          BY <2>3, <2>4, <4>1 DEF q, r, q2, r2
      <3>4. x <= y
        BY <3>1, <3>3, MeansCompared
      <3>5. x \in 0..Full /\ y \in 0..Full
        BY <3>1, <3>3, Means
      <3> HIDE DEF x, y
      <3>6. y >= x
        BY <3>4, <3>5, ScoresAreNumbers
      <3> QED
        BY <3>2, <3>6
    <2> QED
      BY <2>3, <2>5 DEF better, trial
  <1> QED
    BY <1>1, InitIInv, NextIInv, InitApplied, NextApplied, PTL DEF Spec
=============================================================================
