-------------------------- MODULE RunBundleProofs --------------------------
(***************************************************************************)
(* RunBundle for any number of processes, run ids, paths and edits.        *)
(***************************************************************************)
EXTENDS RunBundle, TLAPS

\* The processes that created their bundle's directory and have not failed.
Owning == {"claimed", "copying"} \union Judging

\* mkdir succeeded for one process only.
OneOwner ==
    /\ \A r \in Runs : pc[r] \in Owning => Bundle(r).exists
    /\ \A r, s \in Runs : RunId[r] = RunId[s] /\ pc[r] \in Owning /\ pc[s] \in Owning => r = s

\* A result's author is still the owner of the bundle, so nobody else writes there.
ResultIsDone ==
    \A d \in RunIds : dir[d].exists /\ dir[d].result # NoRun =>
        \E r \in Runs : RunId[r] = d /\ pc[r] = "done" /\ dir[d].result = r

IInv ==
    /\ TypeOK
    /\ OneOwner
    /\ HarborRunsThePinnedTask
    /\ BundleIsOneRuns
    /\ ResultIsDone

\* What a process reads and writes has a type: it owns a directory that exists.
LEMMA OwnedDir ==
    ASSUME TypeOK, OneOwner, NEW r \in Runs, pc[r] \in Owning
    PROVE  RunId[r] \in RunIds /\ Bundle(r) \in DirType
  BY RunIdAssumption DEF TypeOK, OneOwner, Bundle, NoDir

\* Nothing exists yet.
LEMMA InitIInv == Init => IInv
  BY RunIdAssumption
  DEF Init, IInv, TypeOK, OneOwner, HarborRunsThePinnedTask, BundleIsOneRuns, ResultIsDone,
      Owning, Judging, Steps, Bytes, NoDir, Bundle

\* The steps of a process that leave every directory alone, and do not enter the states
\* in which it owns one.
LEMMA QuietStep ==
    ASSUME IInv, TypeOK', UNCHANGED dir,
           \A r \in Runs : pc'[r] = pc[r] \/ pc'[r] \notin Owning \/
               (pc[r] \in Judging /\ pc'[r] \in Judging),
           \A r \in Runs : pc[r] = "done" => pc'[r] = "done"
    PROVE  IInv'
  <1>1. \A r \in Runs : pc'[r] \in Owning => pc[r] \in Owning
    BY DEF Owning
  <1>2. \A r \in Runs : pc'[r] \in Judging => pc[r] \in Judging
    BY DEF Owning
  <1>3. \A r \in Runs : pc'[r] \in {"copying"} \union Judging =>
                            pc[r] \in {"copying"} \union Judging
    BY DEF Owning
  <1>4. OneOwner'
    BY <1>1 DEF IInv, OneOwner, Bundle
  <1>5. HarborRunsThePinnedTask'
    BY <1>2 DEF IInv, HarborRunsThePinnedTask, Bundle
  <1>6. BundleIsOneRuns'
    BY <1>3 DEF IInv, BundleIsOneRuns, Bundle
  <1>7. ResultIsDone'
    BY DEF IInv, ResultIsDone
  <1> QED
    BY <1>4, <1>5, <1>6, <1>7 DEF IInv

\* mkdir: the only step after which a process owns a bundle it did not own.
LEMMA ClaimIInv ==
    ASSUME IInv, NEW r \in Runs, Claim(r)
    PROVE  IInv'
  <1>1. CASE Bundle(r).exists
    <2>1. TypeOK'
      BY <1>1 DEF IInv, TypeOK, Claim, Go, Steps
    <2>2. \A s \in Runs : pc'[s] = pc[s] \/ pc'[s] \notin Owning
      BY <1>1 DEF IInv, TypeOK, Claim, Go, Owning, Judging
    <2>3. \A s \in Runs : pc[s] = "done" => pc'[s] = "done"
      BY <1>1 DEF IInv, TypeOK, Claim, Go
    <2> QED
      BY <1>1, <2>1, <2>2, <2>3, QuietStep DEF Claim
  <1>2. CASE ~Bundle(r).exists
    <2> DEFINE d == RunId[r]
    <2>1. d \in RunIds /\ pc[r] = "absent" /\ pc' = [pc EXCEPT ![r] = "claimed"]
          /\ dir' = [dir EXCEPT ![d] = EmptyDir] /\ pc \in [Runs -> Steps]
      BY <1>2, RunIdAssumption DEF IInv, TypeOK, Claim, Go
    <2>2. EmptyDir \in DirType
      <3>1. <<>> \in [{} -> Bytes]
        OBVIOUS
      <3> QED
        BY <3>1 DEF EmptyDir, DirType
    <2>3. TypeOK'
      <3>1. pc' \in [Runs -> Steps]
        BY <2>1 DEF Steps
      <3>2. dir' \in [RunIds -> {NoDir} \union DirType]
        BY <2>1, <2>2 DEF IInv, TypeOK
      <3> QED
        BY <3>1, <3>2 DEF Claim, IInv, TypeOK
    <2>4. \A s \in Runs : RunId[s] = d => pc[s] \notin Owning
      BY <1>2 DEF IInv, OneOwner, Bundle
    <2>5. \A s \in Runs \ {r} : pc'[s] = pc[s]
      BY <2>1
    <2>6. \A s \in Runs \ {r} : pc'[s] \in Owning => RunId[s] # d /\ Bundle(s)' = Bundle(s)
      BY <2>1, <2>4, <2>5, RunIdAssumption DEF Bundle, IInv, TypeOK
    <2>7. Bundle(r)' = EmptyDir /\ pc'[r] = "claimed"
      BY <2>1 DEF Bundle, IInv, TypeOK
    <2>8. OneOwner'
      BY <2>5, <2>6, <2>7 DEF IInv, OneOwner, EmptyDir
    <2>9. HarborRunsThePinnedTask'
      BY <2>5, <2>6, <2>7 DEF IInv, HarborRunsThePinnedTask, Judging, Owning
    <2>10. \A e \in RunIds \ {d} : dir'[e] = dir[e]
      BY <2>1 DEF IInv, TypeOK
    <2>11. dir'[d] = EmptyDir
      BY <2>1 DEF IInv, TypeOK
    <2>12. BundleIsOneRuns'
      <3>1. \A s \in Runs : pc'[s] \in {"copying"} \union Judging => Bundle(s)'.manifest = s
        BY <2>5, <2>6, <2>7 DEF IInv, BundleIsOneRuns, Judging, Owning
      <3>2. \A e \in RunIds : dir'[e].exists /\ dir'[e].result # NoRun =>
                dir'[e].result = dir'[e].manifest
        BY <2>10, <2>11 DEF IInv, BundleIsOneRuns, EmptyDir
      <3> QED
        BY <3>1, <3>2 DEF BundleIsOneRuns
    <2>13. ResultIsDone'
      BY <2>1, <2>5, <2>10, <2>11 DEF IInv, ResultIsDone, EmptyDir
    <2> QED
      BY <2>3, <2>8, <2>9, <2>12, <2>13 DEF IInv
  <1> QED
    BY <1>1, <1>2

\* A process that writes below the directory it owns, and goes on to a state it still
\* owns it in, disturbs nobody else.
LEMMA OwnerStep ==
    ASSUME IInv, TypeOK', NEW r \in Runs, pc[r] \in Owning \ {"done"}, NEW to \in Owning,
           pc' = [pc EXCEPT ![r] = to],
           \A d \in RunIds \ {RunId[r]} : dir'[d] = dir[d],
           Bundle(r)'.exists,
           to \in Judging => Bundle(r)'.snapshot = [p \in Paths |-> "pinned"],
           to \in {"copying"} \union Judging => Bundle(r)'.manifest = r,
           IF to = "done" THEN Bundle(r)'.result = r
                          ELSE Bundle(r)'.result = Bundle(r).result
    PROVE  IInv'
  <1>1. pc \in [Runs -> Steps] /\ RunId[r] \in RunIds
    BY RunIdAssumption DEF IInv, TypeOK
  <1>2. pc'[r] = to /\ \A s \in Runs \ {r} : pc'[s] = pc[s]
    BY <1>1
  <1>3. \A s \in Runs \ {r} : pc[s] \in Owning => RunId[s] # RunId[r] /\ RunId[s] \in RunIds
    BY RunIdAssumption DEF IInv, OneOwner
  <1>4. \A s \in Runs \ {r} : pc'[s] \in Owning => Bundle(s)' = Bundle(s)
    BY <1>2, <1>3 DEF Bundle
  <1>5. Bundle(r).exists /\ Bundle(r).result = NoRun
    <2>1. Bundle(r).exists
      BY DEF IInv, OneOwner
    <2>2. ASSUME Bundle(r).result # NoRun
          PROVE  FALSE
      <3>1. PICK s \in Runs : RunId[s] = RunId[r] /\ pc[s] = "done"
        BY <1>1, <2>1, <2>2 DEF IInv, ResultIsDone, Bundle
      <3>2. s = r
        BY <3>1 DEF IInv, OneOwner, Owning, Judging
      <3> QED
        BY <3>1, <3>2
    <2> QED
      BY <2>1, <2>2
  <1>6. OneOwner'
    <2>1. \A s \in Runs : pc'[s] \in Owning => Bundle(s)'.exists
      BY <1>2, <1>4 DEF IInv, OneOwner
    <2>2. \A s, q \in Runs : RunId[s] = RunId[q] /\ pc'[s] \in Owning /\ pc'[q] \in Owning
                => s = q
      BY <1>2 DEF IInv, OneOwner
    <2> QED
      BY <2>1, <2>2 DEF OneOwner
  <1>7. HarborRunsThePinnedTask'
    BY <1>2, <1>4 DEF IInv, HarborRunsThePinnedTask, Owning
  <1>8. BundleIsOneRuns'
    <2>1. \A s \in Runs : pc'[s] \in {"copying"} \union Judging => Bundle(s)'.manifest = s
      BY <1>2, <1>4 DEF IInv, BundleIsOneRuns, Owning
    <2>2. \A d \in RunIds : dir'[d].exists /\ dir'[d].result # NoRun =>
              dir'[d].result = dir'[d].manifest
      <3>1. Bundle(r)'.result # NoRun => Bundle(r)'.result = Bundle(r)'.manifest
        BY <1>5 DEF Judging
      <3> QED
        BY <3>1 DEF IInv, BundleIsOneRuns, Bundle
    <2> QED
      BY <2>1, <2>2 DEF BundleIsOneRuns
  <1>9. ResultIsDone'
    <2>1. ASSUME NEW d \in RunIds \ {RunId[r]}, dir'[d].exists, dir'[d].result # NoRun
          PROVE  \E s \in Runs : RunId[s] = d /\ pc'[s] = "done" /\ dir'[d].result = s
      <3>1. PICK s \in Runs : RunId[s] = d /\ pc[s] = "done" /\ dir[d].result = s
        BY <2>1 DEF IInv, ResultIsDone
      <3> QED
        BY <1>2, <2>1, <3>1
    <2>2. ASSUME Bundle(r)'.result # NoRun
          PROVE  pc'[r] = "done" /\ Bundle(r)'.result = r
      BY <1>2, <1>5, <2>2
    <2> QED
      BY <2>1, <2>2 DEF ResultIsDone, Bundle
  <1> QED
    BY <1>6, <1>7, <1>8, <1>9 DEF IInv

\* The steps that write below a directory keep its type.
LEMMA CopyManifestIInv ==
    ASSUME IInv, NEW r \in Runs, CopyManifest(r)
    PROVE  IInv'
  <1>1. pc[r] = "claimed" /\ pc' = [pc EXCEPT ![r] = "copying"]
    BY DEF CopyManifest, Go
  <1>2. RunId[r] \in RunIds /\ Bundle(r) \in DirType
    BY <1>1, OwnedDir DEF IInv, Owning
  <1>3. Bundle(r)' = [Bundle(r) EXCEPT !.manifest = r]
    BY <1>2 DEF IInv, TypeOK, CopyManifest, Bundle
  <1>4. Bundle(r)' \in DirType
    BY <1>2, <1>3 DEF DirType
  <1>5. TypeOK'
    <2>1. pc' \in [Runs -> Steps]
      BY <1>1 DEF IInv, TypeOK, Steps
    <2>2. dir' = [dir EXCEPT ![RunId[r]] = Bundle(r)']
      BY <1>3 DEF CopyManifest, Bundle
    <2>3. dir' \in [RunIds -> {NoDir} \union DirType]
      BY <1>4, <2>2 DEF IInv, TypeOK
    <2> QED
      BY <2>1, <2>3 DEF CopyManifest, IInv, TypeOK
  <1>6. \A d \in RunIds \ {RunId[r]} : dir'[d] = dir[d]
    BY DEF IInv, TypeOK, CopyManifest
  <1> QED
    BY <1>1, <1>2, <1>3, <1>5, <1>6, OwnerStep DEF Owning, Judging, DirType

\* Copying a path changes the snapshot of a directory that nobody has judged yet.
LEMMA CopyPathIInv ==
    ASSUME IInv, NEW r \in Runs, NEW p \in Paths, CopyPath(r, p)
    PROVE  IInv'
  <1> DEFINE copied == [q \in DOMAIN Bundle(r).snapshot \union {p} |->
                            IF q = p THEN live[p] ELSE Bundle(r).snapshot[q]]
  <1>1. pc[r] = "copying" /\ pc' = [pc EXCEPT ![r] = "copying"]
    BY DEF CopyPath, IInv, TypeOK
  <1>2. RunId[r] \in RunIds /\ Bundle(r) \in DirType
    BY <1>1, OwnedDir DEF IInv, Owning
  <1>3. Bundle(r)' = [Bundle(r) EXCEPT !.snapshot = copied]
    BY <1>2 DEF IInv, TypeOK, CopyPath, Bundle
  <1>4. PICK paths \in SUBSET Paths : Bundle(r).snapshot \in [paths -> Bytes]
    BY <1>2 DEF DirType
  <1>5. copied \in [paths \union {p} -> Bytes]
    BY <1>4 DEF IInv, TypeOK
  <1>6. Bundle(r)' \in DirType
    <2>1. paths \union {p} \in SUBSET Paths
      BY <1>4
    <2>2. copied \in UNION {[some -> Bytes] : some \in SUBSET Paths}
      BY <1>5, <2>1
    <2> HIDE DEF copied
    <2> QED
      BY <1>2, <1>3, <2>2 DEF DirType
  <1>7. TypeOK'
    <2>1. dir' = [dir EXCEPT ![RunId[r]] = Bundle(r)']
      BY <1>3 DEF CopyPath, Bundle
    <2>2. dir' \in [RunIds -> {NoDir} \union DirType]
      BY <1>6, <2>1 DEF IInv, TypeOK
    <2> QED
      BY <2>2 DEF CopyPath, IInv, TypeOK
  <1>8. \A d \in RunIds \ {RunId[r]} : dir'[d] = dir[d]
    BY DEF IInv, TypeOK, CopyPath
  <1>9. Bundle(r)'.exists /\ Bundle(r)'.manifest = r /\ Bundle(r)'.result = Bundle(r).result
    <2> HIDE DEF copied
    <2> QED
      BY <1>1, <1>2, <1>3 DEF IInv, BundleIsOneRuns, DirType
  <1> QED
    BY <1>1, <1>7, <1>8, <1>9, OwnerStep DEF Owning, Judging

\* A copy that is not the pinned task stops the process, one that is goes to Harbor.
LEMMA FreezeIInv ==
    ASSUME IInv, NEW r \in Runs, Freeze(r)
    PROVE  IInv'
  <1>1. pc[r] = "copying" /\ UNCHANGED dir
    BY DEF Freeze
  <1>2. RunId[r] \in RunIds /\ Bundle(r) \in DirType
    BY <1>1, OwnedDir DEF IInv, Owning
  <1>3. TypeOK'
    BY DEF IInv, TypeOK, Freeze, Go, Steps
  <1>4. CASE \A p \in Paths : Bundle(r).snapshot[p] = "pinned"
    <2>1. pc' = [pc EXCEPT ![r] = "frozen"]
      BY <1>4 DEF Freeze, Go
    <2>2. Bundle(r).snapshot = [p \in Paths |-> "pinned"]
      <3>1. PICK paths \in SUBSET Paths : Bundle(r).snapshot \in [paths -> Bytes]
        BY <1>2 DEF DirType
      <3>2. paths = Paths
        BY <3>1 DEF Freeze
      <3> QED
        BY <1>4, <3>1, <3>2
    <2>3. Bundle(r)' = Bundle(r) /\ Bundle(r).exists /\ Bundle(r).manifest = r
      BY <1>1, <1>2 DEF Bundle, IInv, BundleIsOneRuns, DirType
    <2> QED
      BY <1>1, <1>3, <2>1, <2>2, <2>3, OwnerStep DEF Owning, Judging
  <1>5. CASE ~ \A p \in Paths : Bundle(r).snapshot[p] = "pinned"
    <2>1. pc' = [pc EXCEPT ![r] = "raised"]
      BY <1>5 DEF Freeze, Go
    <2> QED
      BY <1>1, <1>3, <2>1, QuietStep DEF IInv, TypeOK, Owning, Judging
  <1> QED
    BY <1>4, <1>5

\* os.replace, by the owner of the bundle.
LEMMA PublishIInv ==
    ASSUME IInv, NEW r \in Runs, Publish(r)
    PROVE  IInv'
  <1>1. pc[r] = "written" /\ pc' = [pc EXCEPT ![r] = "done"]
    BY DEF Publish, Go
  <1>2. RunId[r] \in RunIds /\ Bundle(r) \in DirType
    BY <1>1, OwnedDir DEF IInv, Owning, Judging
  <1>3. Bundle(r)' = [Bundle(r) EXCEPT !.result = r]
    BY <1>2 DEF IInv, TypeOK, Publish, Bundle
  <1>4. Bundle(r)' \in DirType
    BY <1>2, <1>3 DEF DirType
  <1>5. TypeOK'
    <2>1. pc' \in [Runs -> Steps]
      BY <1>1 DEF IInv, TypeOK, Steps
    <2>2. dir' = [dir EXCEPT ![RunId[r]] = Bundle(r)']
      BY <1>3 DEF Publish, Bundle
    <2>3. dir' \in [RunIds -> {NoDir} \union DirType]
      BY <1>4, <2>2 DEF IInv, TypeOK
    <2> QED
      BY <2>1, <2>3 DEF Publish, IInv, TypeOK
  <1>6. \A d \in RunIds \ {RunId[r]} : dir'[d] = dir[d]
    BY DEF IInv, TypeOK, Publish
  <1>7. Bundle(r).snapshot = [p \in Paths |-> "pinned"] /\ Bundle(r).manifest = r
    BY <1>1 DEF IInv, HarborRunsThePinnedTask, BundleIsOneRuns, Judging
  <1> QED
    BY <1>1, <1>2, <1>3, <1>5, <1>6, <1>7, OwnerStep, ZenonT(40) DEF Owning, Judging, DirType

\* Every other step leaves the directories alone.
LEMMA OtherIInv ==
    ASSUME IInv, NEW r \in Runs,
           \/ \E p \in Paths : Validate(r, p)
           \/ Look(r) \/ StartHarbor(r) \/ HarborReturns(r) \/ Finalize(r) \/ Kill(r)
    PROVE  IInv'
  <1>1. CASE \E p \in Paths : Validate(r, p)
    <2>1. PICK p \in Paths : Validate(r, p)
      BY <1>1
    <2>2. TypeOK'
      BY <2>1 DEF IInv, TypeOK, Validate, Go, Steps
    <2> QED
      BY <2>1, <2>2, QuietStep DEF Validate, Go, IInv, TypeOK, Owning, Judging
  <1>2. CASE Look(r)
    <2>1. TypeOK'
      BY <1>2 DEF IInv, TypeOK, Look, Go, Steps
    <2> QED
      BY <1>2, <2>1, QuietStep DEF Look, Go, IInv, TypeOK, Owning, Judging
  <1>3. CASE StartHarbor(r)
    <2>1. TypeOK'
      BY <1>3 DEF IInv, TypeOK, StartHarbor, Go, Steps
    <2> QED
      BY <1>3, <2>1, QuietStep DEF StartHarbor, Go, IInv, TypeOK, Owning, Judging
  <1>4. CASE HarborReturns(r)
    <2>1. TypeOK'
      BY <1>4 DEF IInv, TypeOK, HarborReturns, Go, Steps
    <2> QED
      BY <1>4, <2>1, QuietStep DEF HarborReturns, Go, IInv, TypeOK, Owning, Judging
  <1>5. CASE Finalize(r)
    <2>1. TypeOK'
      BY <1>5 DEF IInv, TypeOK, Finalize, Go, Steps
    <2> QED
      BY <1>5, <2>1, QuietStep DEF Finalize, Go, IInv, TypeOK, Owning, Judging
  <1>6. CASE Kill(r)
    <2>1. TypeOK'
      BY <1>6 DEF IInv, TypeOK, Kill, Steps
    <2> QED
      BY <1>6, <2>1, QuietStep DEF Kill, Stopped, IInv, TypeOK, Owning, Judging
  <1> QED
    BY <1>1, <1>2, <1>3, <1>4, <1>5, <1>6

\* Edits of the live task reach no bundle.
LEMMA EditIInv ==
    ASSUME IInv, NEW p \in Paths, Edit(p)
    PROVE  IInv'
  <1>1. TypeOK'
    BY RunIdAssumption DEF IInv, TypeOK, Edit, Bytes
  <1> QED
    BY <1>1, QuietStep DEF Edit

\* No step of any process or of the editor breaks the invariant.
LEMMA NextIInv == IInv /\ [Next]_vars => IInv'
  <1> SUFFICES ASSUME IInv, [Next]_vars
               PROVE  IInv'
    OBVIOUS
  <1>1. CASE UNCHANGED vars
    BY <1>1
    DEF vars, IInv, TypeOK, OneOwner, HarborRunsThePinnedTask, BundleIsOneRuns, ResultIsDone,
        Bundle
  <1>2. CASE Next
    BY <1>2, ClaimIInv, CopyManifestIInv, CopyPathIInv, FreezeIInv, PublishIInv, OtherIInv,
       EditIInv
    DEF Next
  <1> QED
    BY <1>1, <1>2

\* The invariant that all of the properties follow from.
THEOREM Invariance == Spec => []IInv
  BY InitIInv, NextIInv, PTL DEF Spec

\* execute_run and write_model: every variable of RunBundle keeps its type.
THEOREM TypeCorrect == Spec => []TypeOK
  <1>1. IInv => TypeOK
    BY DEF IInv
  <1> QED
    BY <1>1, Invariance, PTL

\* _snapshot_task: whatever happens to the live task meanwhile, Harbor runs the task that
\* the manifest pins, and so a result never speaks of another one.
THEOREM PinnedTask == Spec => []HarborRunsThePinnedTask
  <1>1. IInv => HarborRunsThePinnedTask
    BY DEF IInv
  <1> QED
    BY <1>1, Invariance, PTL

\* execute_run: any number of processes with one run id leave the bundle to one of them.
THEOREM OneRunPerBundle == Spec => []BundleIsOneRuns
  <1>1. IInv => BundleIsOneRuns
    BY DEF IInv
  <1> QED
    BY <1>1, Invariance, PTL

\* Nobody owns the bundle of a published result but its author, who is done with it.
LEMMA PublishedIsNotOwned ==
    ASSUME IInv, NEW r \in Runs, pc[r] \in Owning \ {"done"}
    PROVE  Bundle(r).exists /\ Bundle(r).result = NoRun
  <1>1. RunId[r] \in RunIds /\ Bundle(r).exists
    BY RunIdAssumption DEF IInv, OneOwner
  <1>2. ASSUME Bundle(r).result # NoRun
        PROVE  FALSE
    <2>1. PICK s \in Runs : RunId[s] = RunId[r] /\ pc[s] = "done"
      BY <1>1, <1>2 DEF IInv, ResultIsDone, Bundle
    <2>2. s = r
      BY <2>1 DEF IInv, OneOwner, Owning, Judging
    <2> QED
      BY <2>1, <2>2
  <1> QED
    BY <1>1, <1>2

\* A step changes one directory at most, and only one in which nothing is published.
LEMMA FinalStep ==
    ASSUME IInv, Next, NEW d \in RunIds
    PROVE  /\ dir[d].exists => dir'[d].exists
           /\ dir[d].exists /\ dir[d].result # NoRun => dir'[d] = dir[d]
  <1>1. CASE UNCHANGED dir
    BY <1>1
  <1>2. CASE \E r \in Runs : Claim(r) /\ dir' # dir
    <2>1. PICK r \in Runs : Claim(r) /\ dir' # dir
      BY <1>2
    <2>2. ~Bundle(r).exists /\ dir' = [dir EXCEPT ![RunId[r]] = EmptyDir]
      BY <2>1 DEF Claim
    <2> QED
      BY <2>2 DEF Bundle, IInv, TypeOK
  <1>3. CASE \E r \in Runs : CopyManifest(r) \/ Publish(r) \/ \E p \in Paths : CopyPath(r, p)
    <2>1. PICK r \in Runs : CopyManifest(r) \/ Publish(r) \/ \E p \in Paths : CopyPath(r, p)
      BY <1>3
    <2>2. pc[r] \in Owning \ {"done"}
      BY <2>1 DEF CopyManifest, Publish, CopyPath, Go, Owning, Judging
    <2>3. Bundle(r).exists /\ Bundle(r).result = NoRun
      BY <2>2, PublishedIsNotOwned
    <2>4. d # RunId[r] => dir'[d] = dir[d]
      BY <2>1 DEF CopyManifest, Publish, CopyPath, IInv, TypeOK
    <2>5. IInv'
      BY NextIInv
    <2>6. Bundle(r)'.exists
      <3>1. pc'[r] \in Owning
        BY <2>1 DEF CopyManifest, Publish, CopyPath, Go, Owning, Judging, IInv, TypeOK
      <3> QED
        BY <2>5, <3>1 DEF IInv, OneOwner
    <2> QED
      BY <2>3, <2>4, <2>6 DEF Bundle
  <1> QED
    BY <1>1, <1>2, <1>3
    DEF Next, Validate, Look, Claim, Freeze, StartHarbor, HarborReturns, Finalize, Kill, Edit

\* execute_run and write_model: a published result is never replaced or removed.
THEOREM ResultsStay == Spec => ResultsAreFinal
  <1> DEFINE Final == \A d \in RunIds :
                /\ dir[d].exists => dir'[d].exists
                /\ dir[d].exists /\ dir[d].result # NoRun => dir'[d] = dir[d]
  <1>1. IInv /\ [Next]_vars => [Final]_vars
    BY FinalStep
  <1> QED
    BY <1>1, Invariance, PTL DEF Spec, ResultsAreFinal
=============================================================================
