------------------------- MODULE VerifyLanesProofs -------------------------
(***************************************************************************)
(* VerifyLanes for any paths, lanes and contents, under two assumptions    *)
(* that lane_includes and the maintainers have to meet: the fingerprint of *)
(* a lane covers what its commands read, and no edit restores old contents *)
(* while a make is at work.                                                *)
(*                                                                         *)
(* Contents then only grow, and the argument is one of order: what a lane  *)
(* has read lies between its fingerprint and the working tree.             *)
(***************************************************************************)
EXTENDS VerifyLanes, TLAPS

\* The readings of f are contents that the paths had at some time since low.
Between(low, f, paths) ==
    /\ DOMAIN f \subseteq paths
    /\ \A p \in DOMAIN f : f[p] \in Nat /\ f[p] <= tree[p]
    /\ \A p \in DOMAIN f \intersect DOMAIN low : low[p] <= f[p]

\* The stamp of l is true of a tree that is as it was fingerprinted.
AsFingerprinted(l) == \A p \in Examined[l] : tree[p] = input[l][p]

Vouched(l) ==
    /\ DOMAIN input[l] = Included[l]
    /\ AsFingerprinted(l) => Passing(l, tree)

Read ==
    /\ tree \in [Paths -> Nat] /\ before \in [Paths -> Nat]
    /\ DOMAIN input = Lanes /\ fresh \subseteq Lanes /\ goals \subseteq Lanes
    /\ unwritten \subseteq Lanes
    /\ DOMAIN examined = Lanes /\ DOMAIN lane = Lanes
    /\ \A p \in Paths : before[p] <= tree[p]
    /\ Between(before, seen, Paths)
    /\ \A l \in Lanes : Between(<<>>, input[l], Paths)

\* While a make writes, the lanes wait; afterwards every fingerprint file is the make's own.
Staged ==
    /\ stage \in {"idle", "hashing", "writing", "lanes", "verified", "failed"}
    /\ stage = "hashing" => unwritten = Lanes
    /\ stage \in {"hashing", "writing"} => \A l \in Lanes : lane[l] = "waiting" /\ examined[l] = <<>>
    /\ stage \in {"writing", "lanes", "verified"} => DOMAIN seen = Paths
    /\ stage = "writing" => \A l \in Lanes \ unwritten : Unchanged(l)
    /\ stage \in {"lanes", "verified"} => \A l \in Lanes : Unchanged(l)

Lane(l) ==
    /\ l \in fresh => Vouched(l)
    /\ lane[l] = "waiting" => examined[l] = <<>>
    /\ lane[l] = "running" => stage = "lanes" /\ l \in goals
                              /\ Between(input[l], examined[l], Examined[l])
    /\ lane[l] = "passed" /\ stage \in {"lanes", "verified"} => l \in fresh

IInv ==
    /\ Read
    /\ Staged
    /\ \A l \in Lanes : Lane(l)
    /\ stage = "verified" => goals \subseteq fresh

Covers == \A l \in Lanes : Examined[l] \subseteq Included[l]

\* What a lane does not read does not decide whether it passes.
LEMMA PassingSame ==
    ASSUME NEW l \in Lanes, NEW f, NEW g, \A p \in Examined[l] : f[p] = g[p]
    PROVE  Passing(l, f) <=> Passing(l, g)
  <1>1. ASSUME NEW command \in Commands[l]
        PROVE  Fails(command, f) <=> Fails(command, g)
    BY LanesAssumption DEF Fails
  <1> QED
    BY <1>1 DEF Passing

\* The initial states satisfy the invariant.
LEMMA InitIInv == Init => IInv
  <1> SUFFICES ASSUME Init PROVE IInv
    OBVIOUS
  <1>1. DOMAIN seen = {} /\ \A l \in Lanes : DOMAIN input[l] = {}
    BY DEF Init, NoInput
  <1>2. Read
    BY <1>1 DEF Init, Read, Between
  <1> QED
    BY <1>2 DEF Init, IInv, Staged, Lane

-----------------------------------------------------------------------------
(* The steps that change contents or readings. *)

\* An edit leaves every reading behind the tree, and what it changes is no longer as it was
\* fingerprinted.
LEMMA EditIInv ==
    ASSUME IInv, Editor = "fresh", Covers, NEW p \in Paths, Edit(p)
    PROVE  IInv'
  <1>1. PICK c \in Contents : c > tree[p] /\ tree' = [tree EXCEPT ![p] = c]
    BY DEF Edit
  <1>2. c \in Nat /\ MaxEdits \in Nat
    BY LanesAssumption DEF Contents
  <1>3. UNCHANGED <<input, fresh, stage, goals, always, seen, unwritten, lane, examined, before>>
    BY DEF Edit, make
  <1>4. /\ tree' \in [Paths -> Nat]
        /\ \A q \in Paths : tree[q] \in Nat /\ tree'[q] \in Nat /\ tree[q] <= tree'[q]
        /\ \A q \in Paths : tree'[q] # tree[q] => tree[q] < tree'[q]
    BY <1>1, <1>2 DEF IInv, Read
  <1>5. \A low, f, paths : Between(low, f, paths) /\ paths \subseteq Paths =>
            Between(low, f, paths)'
    BY <1>4 DEF Between
  <1>6. Read'
    BY <1>3, <1>4, <1>5 DEF IInv, Read, Between
  <1>7. Staged'
    BY <1>3 DEF IInv, Staged, Unchanged, Fingerprint
  <1>8. ASSUME NEW l \in Lanes PROVE Lane(l)'
    <2>1. Lane(l) /\ Examined[l] \subseteq Included[l] /\ Examined[l] \subseteq Paths
      BY LanesAssumption DEF IInv, Covers
    <2>2. Between(<<>>, input[l], Paths)
      BY DEF IInv, Read
    <2>3. Vouched(l) => Vouched(l)'
      <3> SUFFICES ASSUME Vouched(l), \A q \in Examined[l] : tree'[q] = input[l][q]
                   PROVE  Passing(l, tree')
        BY <1>3 DEF Vouched, AsFingerprinted, Passing
      <3>1. \A q \in Examined[l] : tree'[q] = tree[q] /\ tree[q] = input[l][q]
        <4> SUFFICES ASSUME NEW q \in Examined[l]
                     PROVE  tree'[q] = tree[q] /\ tree[q] = input[l][q]
          OBVIOUS
        <4>1. input[l][q] <= tree[q] /\ input[l][q] \in Nat
          BY <2>1, <2>2 DEF Vouched, Between
        <4> QED
          BY <1>4, <2>1, <4>1
      <3>2. Passing(l, tree)
        BY <3>1 DEF Vouched, AsFingerprinted
      <3> QED
        BY <3>1, <3>2, PassingSame
    <2> QED
      BY <1>3, <1>5, <2>1, <2>3, ZenonT(40) DEF Lane, Between
  <1> QED
    BY <1>3, <1>6, <1>7, <1>8 DEF IInv

\* A fingerprint extended by a path as it is lies between what it was and the tree.
LEMMA ExtendBetween ==
    ASSUME tree \in [Paths -> Nat], NEW f, NEW low, NEW paths, NEW p \in paths,
           paths \subseteq Paths, Between(low, f, paths), p \in DOMAIN low => low[p] <= tree[p]
    PROVE  /\ Between(low, Extend(f, p), paths)
           /\ DOMAIN Extend(f, p) = DOMAIN f \union {p}
  <1> DEFINE g == Extend(f, p)
  <1>1. DOMAIN g = DOMAIN f \union {p}
    BY DEF Extend
  <1>2. g[p] = tree[p] /\ \A q \in DOMAIN f \ {p} : g[q] = f[q]
    BY DEF Extend
  <1>3. tree[p] \in Nat /\ tree[p] <= tree[p]
    OBVIOUS
  <1> HIDE DEF g
  <1> QED
    BY <1>1, <1>2, <1>3 DEF Between, g

\* A make starts with nothing seen.
LEMMA StartIInv ==
    ASSUME IInv, NEW wanted \in Targets, NEW all \in BOOLEAN, Start(wanted, all)
    PROVE  IInv'
  <1>1. /\ stage' = "hashing" /\ goals' = wanted /\ seen' = <<>> /\ unwritten' = Lanes
        /\ lane' = [l \in Lanes |-> "waiting"] /\ examined' = [l \in Lanes |-> <<>>]
        /\ before' = tree /\ UNCHANGED <<tree, input, fresh>>
    BY DEF Start
  <1>2. wanted \subseteq Lanes
    BY DEF Targets
  <1>3. DOMAIN seen' = {}
    BY <1>1
  <1>4. Read'
    BY <1>1, <1>2, <1>3 DEF IInv, Read, Between
  <1>5. Staged'
    BY <1>1 DEF Staged
  <1>6. \A l \in Lanes : Lane(l)'
    BY <1>1 DEF IInv, Lane, Vouched, AsFingerprinted, Passing
  <1> QED
    BY <1>1, <1>4, <1>5, <1>6 DEF IInv

\* It sees a path as it is.
LEMMA FingerprintPathIInv ==
    ASSUME IInv, NEW p \in Paths, FingerprintPath(p)
    PROVE  IInv'
  <1>1. /\ stage = "hashing" /\ p \in Paths
        /\ UNCHANGED <<tree, input, fresh, goals, always, unwritten, lane, examined, before>>
    BY DEF FingerprintPath
  <1>2. \/ seen' = Extend(seen, p) /\ stage' = stage
        \/ seen' = seen /\ stage' = "failed"
    BY DEF FingerprintPath
  <1>3. Between(before, seen, Paths) /\ before[p] <= tree[p] /\ tree \in [Paths -> Nat]
    BY DEF IInv, Read
  <1>4. Between(before, Extend(seen, p), Paths)
    BY <1>3, ExtendBetween
  <1>5. Read'
    <2>1. CASE seen' = Extend(seen, p)
      BY <1>1, <1>4, <2>1 DEF IInv, Read, Between
    <2>2. CASE seen' = seen
      BY <1>1, <2>2 DEF IInv, Read, Between
    <2> QED
      BY <1>2, <2>1, <2>2
  <1>6. Staged'
    BY <1>1, <1>2 DEF IInv, Staged
  <1>7. \A l \in Lanes : Lane(l)'
    BY <1>1, <1>2 DEF IInv, Lane, Staged, Vouched, AsFingerprinted, Passing
  <1> QED
    BY <1>1, <1>2, <1>5, <1>6, <1>7 DEF IInv

\* The fingerprint file that is replaced loses its stamp; one that stays, stays vouched for.
LEMMA WriteFingerprintIInv ==
    ASSUME IInv, NEW l \in Lanes, WriteFingerprint(l)
    PROVE  IInv'
  <1>1. /\ stage \in {"hashing", "writing"} /\ stage' = "writing" /\ DOMAIN seen = Paths
        /\ unwritten' = unwritten \ {l}
        /\ UNCHANGED <<tree, goals, always, seen, lane, examined, before>>
    BY DEF WriteFingerprint
  <1>2. \/ Unchanged(l) /\ UNCHANGED <<input, fresh>>
        \/ input' = [input EXCEPT ![l] = Fingerprint(l)] /\ fresh' = fresh \ {l}
    BY DEF WriteFingerprint
  <1>3. /\ input'[l] = Fingerprint(l) /\ DOMAIN input' = Lanes
        /\ \A k \in Lanes \ {l} : input'[k] = input[k]
        /\ fresh' \subseteq fresh
        /\ l \in fresh' => input'[l] = input[l]
    BY <1>2 DEF IInv, Read, Unchanged
  <1>4. Included[l] \subseteq Paths
    BY LanesAssumption
  <1>5. Between(<<>>, input'[l], Paths)
    BY <1>1, <1>3, <1>4 DEF IInv, Read, Between, Fingerprint
  <1>6. Read'
    BY <1>1, <1>3, <1>5 DEF IInv, Read, Between
  <1>7. Staged'
    BY <1>1, <1>3 DEF IInv, Staged, Read, Unchanged, Fingerprint
  <1>8. ASSUME NEW k \in Lanes PROVE Lane(k)'
    <2>1. lane[k] = "waiting" /\ lane'[k] = "waiting" /\ examined'[k] = <<>>
      BY <1>1 DEF IInv, Staged
    <2>2. k \in fresh' => k \in fresh /\ input'[k] = input[k] /\ Vouched(k)
      BY <1>3 DEF IInv, Lane
    <2> QED
      BY <1>1, <2>1, <2>2 DEF Lane, Vouched, AsFingerprinted, Passing
  <1> QED
    BY <1>1, <1>6, <1>7, <1>8 DEF IInv

\* So does a lane.
LEMMA ExamineIInv ==
    ASSUME IInv, NEW l \in Lanes, NEW p \in Paths, Examine(l, p)
    PROVE  IInv'
  <1>1. /\ lane[l] = "running" /\ p \in Examined[l]
        /\ examined' = [examined EXCEPT ![l] = Extend(@, p)]
        /\ UNCHANGED <<tree, input, fresh, stage, goals, always, seen, unwritten, lane, before>>
    BY DEF Examine
  <1>2. /\ stage = "lanes" /\ Between(input[l], examined[l], Examined[l])
        /\ tree \in [Paths -> Nat] /\ DOMAIN examined = Lanes
        /\ Between(<<>>, input[l], Paths)
    BY <1>1 DEF IInv, Lane, Read
  <1>3. Examined[l] \subseteq Paths
    BY LanesAssumption
  <1>4. p \in DOMAIN input[l] => input[l][p] <= tree[p]
    BY <1>2 DEF Between
  <1>5. Between(input[l], Extend(examined[l], p), Examined[l])
    BY <1>1, <1>2, <1>3, <1>4, ExtendBetween
  <1>6. /\ examined'[l] = Extend(examined[l], p) /\ DOMAIN examined' = Lanes
        /\ \A k \in Lanes \ {l} : examined'[k] = examined[k]
    BY <1>1, <1>2
  <1>7. Read' /\ Staged'
    BY <1>1, <1>2, <1>6 DEF IInv, Read, Staged, Between, Unchanged, Fingerprint
  <1>8. ASSUME NEW k \in Lanes PROVE Lane(k)'
    BY <1>1, <1>5, <1>6 DEF IInv, Lane, Vouched, AsFingerprinted, Passing, Between
  <1> QED
    BY <1>1, <1>7, <1>8 DEF IInv

-----------------------------------------------------------------------------
(* The steps of the make. *)

\* A lane that passed on what it read passes on every path that is still as fingerprinted.
LEMMA PassedIsVouched ==
    ASSUME IInv, Covers, NEW l \in Lanes, lane[l] = "running", DOMAIN examined[l] = Examined[l],
           Passing(l, examined[l])
    PROVE  Vouched(l)
  <1>1. /\ Between(input[l], examined[l], Examined[l]) /\ Between(<<>>, input[l], Paths)
        /\ stage = "lanes" /\ tree \in [Paths -> Nat]
    BY DEF IInv, Lane, Read
  <1>2. DOMAIN input[l] = Included[l]
    BY <1>1 DEF IInv, Staged, Unchanged, Fingerprint
  <1>3. ASSUME AsFingerprinted(l), NEW p \in Examined[l]
        PROVE  examined[l][p] = tree[p]
    <2>1. p \in Included[l] /\ p \in Paths
      BY LanesAssumption DEF Covers
    <2>2. input[l][p] <= examined[l][p] /\ examined[l][p] <= tree[p] /\ examined[l][p] \in Nat
      BY <1>1, <1>2, <2>1 DEF Between
    <2>3. tree[p] = input[l][p] /\ tree[p] \in Nat
      BY <1>1, <1>3, <2>1 DEF AsFingerprinted
    <2> QED
      BY <2>2, <2>3
  <1>4. AsFingerprinted(l) => Passing(l, tree)
    BY <1>3, PassingSame
  <1> QED
    BY <1>2, <1>4 DEF Vouched

\* A lane that passes vouches for its fingerprint.
LEMMA EndLaneIInv ==
    ASSUME IInv, Covers, NEW l \in Lanes, EndLane(l)
    PROVE  IInv'
  <1>1. /\ lane[l] = "running" /\ DOMAIN examined[l] = Examined[l] /\ DOMAIN lane = Lanes
        /\ UNCHANGED <<tree, input, stage, goals, always, seen, unwritten, examined, before>>
    BY DEF EndLane, IInv, Read
  <1>2. stage = "lanes"
    BY <1>1 DEF IInv, Lane
  <1>3. CASE Passing(l, examined[l]) /\ lane' = [lane EXCEPT ![l] = "passed"]
             /\ fresh' = fresh \union {l}
    <2>1. Vouched(l)
      BY <1>1, <1>3, PassedIsVouched
    <2>2. Read' /\ Staged'
      BY <1>1, <1>2, <1>3 DEF IInv, Read, Staged, Between, Unchanged, Fingerprint
    <2>3. ASSUME NEW k \in Lanes PROVE Lane(k)'
      BY <1>1, <1>2, <1>3, <2>1 DEF IInv, Lane, Vouched, AsFingerprinted, Passing, Between
    <2> QED
      BY <1>1, <1>2, <2>2, <2>3 DEF IInv
  <1>4. CASE lane' = [lane EXCEPT ![l] = "failed"] /\ fresh' = fresh
    <2>1. Read' /\ Staged'
      BY <1>1, <1>2, <1>4 DEF IInv, Read, Staged, Between, Unchanged, Fingerprint
    <2>2. ASSUME NEW k \in Lanes PROVE Lane(k)'
      BY <1>1, <1>2, <1>4 DEF IInv, Lane, Vouched, AsFingerprinted, Passing, Between
    <2> QED
      BY <1>1, <1>2, <2>1, <2>2 DEF IInv
  <1> QED
    BY <1>3, <1>4 DEF EndLane

\* A lane starts on fingerprints that are written.
LEMMA StartLaneIInv ==
    ASSUME IInv, NEW l \in Lanes, StartLane(l)
    PROVE  IInv'
  <1>1. /\ stage = "lanes" /\ l \in goals /\ lane[l] = "waiting" /\ DOMAIN lane = Lanes
        /\ lane' = [lane EXCEPT ![l] = "running"]
        /\ UNCHANGED <<tree, input, fresh, stage, goals, always, seen, unwritten, examined, before>>
    BY DEF StartLane, IInv, Read
  <1>2. Read' /\ Staged'
    BY <1>1 DEF IInv, Read, Staged, Between, Unchanged, Fingerprint
  <1>3. ASSUME NEW k \in Lanes PROVE Lane(k)'
    <2>1. DOMAIN <<>> = {}
      OBVIOUS
    <2>2. k = l => Between(input[l], examined[l], Examined[l])
      BY <1>1, <2>1 DEF IInv, Lane, Between
    <2> QED
      BY <1>1, <2>2 DEF IInv, Lane, Vouched, AsFingerprinted, Passing, Between
  <1> QED
    BY <1>1, <1>2, <1>3 DEF IInv

\* Once all fingerprints are written, the lanes run.
LEMMA RefreshedIInv ==
    ASSUME IInv, Refreshed
    PROVE  IInv'
  <1>1. /\ stage = "writing" /\ unwritten = {} /\ stage' = "lanes"
        /\ UNCHANGED <<tree, input, fresh, goals, always, seen, unwritten, lane, examined, before>>
    BY DEF Refreshed
  <1>2. Read' /\ Staged'
    BY <1>1 DEF IInv, Read, Staged, Between, Unchanged, Fingerprint
  <1>3. ASSUME NEW l \in Lanes PROVE Lane(l)'
    BY <1>1 DEF IInv, Lane, Staged, Vouched, AsFingerprinted, Passing
  <1> QED
    BY <1>1, <1>2, <1>3 DEF IInv

\* A make that verified has no lane that failed.
LEMMA FinishIInv ==
    ASSUME IInv, Finish
    PROVE  IInv'
  <1>1. /\ stage = "lanes" /\ stage' \in {"verified", "failed"}
        /\ stage' = "verified" => \A l \in goals : Settled(l)
        /\ \A l \in goals : lane[l] # "running"
        /\ UNCHANGED <<tree, input, fresh, goals, always, seen, unwritten, lane, examined, before>>
    BY DEF Finish, Settled
  <1>2. Read' /\ Staged'
    BY <1>1 DEF IInv, Read, Staged, Between, Unchanged, Fingerprint
  <1>3. ASSUME NEW l \in Lanes PROVE Lane(l)'
    BY <1>1 DEF IInv, Lane, Vouched, AsFingerprinted, Passing
  <1>4. stage' = "verified" => goals' \subseteq fresh'
    BY <1>1 DEF IInv, Lane, Read, Settled
  <1> QED
    BY <1>2, <1>3, <1>4 DEF IInv

\* A make that is killed vouches for nothing new.
LEMMA InterruptIInv ==
    ASSUME IInv, Interrupt
    PROVE  IInv'
  <1>1. /\ stage' = "failed"
        /\ lane' = [l \in Lanes |-> IF lane[l] = "running" THEN "failed" ELSE lane[l]]
        /\ UNCHANGED <<tree, input, fresh, goals, always, seen, unwritten, examined, before>>
    BY DEF Interrupt
  <1>2. Read' /\ Staged'
    BY <1>1 DEF IInv, Read, Staged, Between
  <1>3. ASSUME NEW l \in Lanes PROVE Lane(l)'
    BY <1>1 DEF IInv, Lane, Vouched, AsFingerprinted, Passing
  <1> QED
    BY <1>1, <1>2, <1>3 DEF IInv

\* No step breaks it.
LEMMA NextIInv ==
    ASSUME Editor = "fresh", Covers
    PROVE  IInv /\ [Next]_vars => IInv'
  <1> SUFFICES ASSUME IInv, [Next]_vars PROVE IInv'
    OBVIOUS
  <1>1. CASE UNCHANGED vars
    <2>1. UNCHANGED <<tree, input, fresh, stage, goals, always, seen, unwritten, lane, examined,
                      before>>
      BY <1>1 DEF vars
    <2>2. Read' /\ Staged'
      BY <2>1 DEF IInv, Read, Staged, Between, Unchanged, Fingerprint
    <2>3. ASSUME NEW l \in Lanes PROVE Lane(l)'
      BY <2>1 DEF IInv, Lane, Vouched, AsFingerprinted, Passing, Between
    <2> QED
      BY <2>1, <2>2, <2>3 DEF IInv
  <1>2. CASE Next
    BY <1>2, EditIInv, FingerprintPathIInv, StartIInv, WriteFingerprintIInv, StartLaneIInv,
       EndLaneIInv, ExamineIInv, RefreshedIInv, FinishIInv, InterruptIInv DEF Next
  <1> QED
    BY <1>1, <1>2

-----------------------------------------------------------------------------

\* A lane that a later `make verify' would skip would pass on the repository as it is: the
\* stamp rules of the Makefile over the fingerprints of repository_verify.py.
THEOREM SkippedLanesPass ==
    ASSUME Editor = "fresh", Covers
    PROVE  Spec => []SkippedWouldPass
  <1>1. IInv => SkippedWouldPass
    <2> SUFFICES ASSUME IInv, NEW l \in fresh, input[l] = TreeFingerprint(l)
                 PROVE  Passing(l, tree)
      BY DEF SkippedWouldPass
    <2>1. l \in Lanes /\ Vouched(l)
      BY DEF IInv, Read, Lane
    <2>2. \A p \in Examined[l] : tree[p] = input[l][p]
      BY <2>1 DEF Covers, TreeFingerprint
    <2> QED
      BY <2>1, <2>2 DEF Vouched, AsFingerprinted
  <1> QED
    BY <1>1, InitIInv, NextIInv, PTL DEF Spec

\* A `make verify' that succeeds on a repository nobody edited meanwhile says that every lane
\* it was asked for passes on it.
THEOREM VerifiedLanesPass ==
    ASSUME Editor = "fresh", Covers
    PROVE  Spec => []VerifiedWouldPass
  <1>1. IInv => VerifiedWouldPass
    <2> SUFFICES ASSUME IInv, stage = "verified", tree = before, NEW l \in goals
                 PROVE  Passing(l, tree)
      BY DEF VerifiedWouldPass
    <2>1. l \in Lanes /\ Vouched(l) /\ Unchanged(l) /\ DOMAIN seen = Paths
      BY DEF IInv, Read, Staged, Lane
    <2>2. Examined[l] \subseteq Included[l] /\ Included[l] \subseteq Paths
      BY <2>1, LanesAssumption DEF Covers
    <2>3. ASSUME NEW p \in Examined[l] PROVE tree[p] = input[l][p]
      <3>1. input[l][p] = seen[p] /\ p \in Paths
        BY <2>1, <2>2 DEF Unchanged, Fingerprint
      <3>2. before[p] <= seen[p] /\ seen[p] <= tree[p] /\ seen[p] \in Nat /\ tree[p] \in Nat
        BY <2>1, <3>1 DEF IInv, Read, Between
      <3> QED
        BY <3>1, <3>2
    <2> QED
      BY <2>1, <2>3 DEF Vouched, AsFingerprinted
  <1> QED
    BY <1>1, InitIInv, NextIInv, PTL DEF Spec

-----------------------------------------------------------------------------
(* The types, which do not depend on what the lanes cover or on how files are edited. *)

\* What has been read of some paths are contents.
LEMMA ReadingIs ==
    ASSUME NEW f, NEW paths
    PROVE  f \in Reading(paths) <=>
              f = [p \in DOMAIN f |-> f[p]] /\ DOMAIN f \subseteq paths
                  /\ \A p \in DOMAIN f : f[p] \in Nat
  BY DEF Reading

\* Reading one path more gives a reading.
LEMMA ExtendTyped ==
    ASSUME tree \in [Paths -> Nat], NEW paths \in SUBSET Paths, NEW p \in paths,
           NEW f \in Reading(paths)
    PROVE  Extend(f, p) \in Reading(paths)
  <1> DEFINE g == [q \in DOMAIN f \union {p} |-> IF q = p THEN tree[p] ELSE f[q]]
  <1>1. DOMAIN f \subseteq paths /\ \A q \in DOMAIN f : f[q] \in Nat
    BY ReadingIs
  <1>2. g \in [DOMAIN f \union {p} -> Nat] /\ DOMAIN f \union {p} \in SUBSET paths
    BY <1>1
  <1>3. g \in Reading(paths)
    BY <1>2 DEF Reading
  <1> QED
    BY <1>3 DEF Extend

\* What each lane has is a function of the lanes.
Typed == TypeOK /\ DOMAIN input = Lanes /\ DOMAIN examined = Lanes

\* The types are kept by every step.
LEMMA NextTyped == Typed /\ [Next]_vars => Typed'
  <1> SUFFICES ASSUME Typed, [Next]_vars PROVE Typed'
    OBVIOUS
  <1> USE DEF Typed, TypeOK
  <1>1. CASE UNCHANGED vars
    BY <1>1 DEF vars
  <1>2. ASSUME NEW p \in Paths, Edit(p) PROVE Typed'
    <2>1. PICK c \in Contents : tree' = [tree EXCEPT ![p] = c]
      BY <1>2 DEF Edit
    <2>2. c \in Nat
      BY LanesAssumption DEF Contents
    <2> QED
      BY <1>2, <2>1, <2>2 DEF Edit, make
  <1>3. ASSUME NEW p \in Paths, FingerprintPath(p) PROVE Typed'
    <2>1. seen' \in Reading(Paths)
      BY <1>3, ExtendTyped DEF FingerprintPath
    <2> QED
      BY <1>3, <2>1 DEF FingerprintPath
  <1>4. ASSUME NEW wanted \in Targets, NEW all \in BOOLEAN, Start(wanted, all) PROVE Typed'
    <2>1. \A paths : <<>> \in Reading(paths)
      <3>1. <<>> \in [{} -> Nat]
        OBVIOUS
      <3> QED
        BY <3>1 DEF Reading
    <2>2. wanted \subseteq Lanes
      BY DEF Targets
    <2> QED
      BY <1>4, <2>1, <2>2 DEF Start
  <1>5. ASSUME NEW l \in Lanes, WriteFingerprint(l) PROVE Typed'
    <2>1. Fingerprint(l) \in [Included[l] -> Nat]
      BY <1>5, ReadingIs, LanesAssumption DEF WriteFingerprint, Fingerprint
    <2>2. \A m \in Lanes : input'[m] = NoInput \/ input'[m] \in [Included[m] -> Nat]
      <3>1. CASE input' = input
        BY <3>1
      <3>2. CASE input' = [input EXCEPT ![l] = Fingerprint(l)]
        <4>1. \A m \in Lanes : \/ input'[m] = input[m]
                               \/ m = l /\ input'[m] = Fingerprint(l)
          BY <3>2
        <4> QED
          BY <2>1, <4>1
      <3> QED
        BY <1>5, <3>1, <3>2 DEF WriteFingerprint
    <2> QED
      BY <1>5, <2>2 DEF WriteFingerprint
  <1>6. ASSUME NEW l \in Lanes, StartLane(l) PROVE Typed'
    BY <1>6 DEF StartLane
  <1>7. ASSUME NEW l \in Lanes, EndLane(l) PROVE Typed'
    BY <1>7 DEF EndLane
  <1>8. ASSUME NEW l \in Lanes, NEW p \in Paths, Examine(l, p) PROVE Typed'
    <2>1. p \in Examined[l] /\ Examined[l] \in SUBSET Paths
      BY <1>8, LanesAssumption DEF Examine
    <2>2. Extend(examined[l], p) \in Reading(Examined[l])
      BY <2>1, ExtendTyped
    <2>3. \A m \in Lanes : \/ examined'[m] = examined[m]
                           \/ m = l /\ examined'[m] = Extend(examined[l], p)
      BY <1>8 DEF Examine
    <2>4. \A m \in Lanes : examined'[m] \in Reading(Examined[m])
      BY <2>2, <2>3
    <2> QED
      BY <1>8, <2>4 DEF Examine
  <1>9. CASE Refreshed \/ Finish \/ Interrupt
    BY <1>9 DEF Refreshed, Finish, Interrupt
  <1> QED
    BY <1>1, <1>2, <1>3, <1>4, <1>5, <1>6, <1>7, <1>8, <1>9 DEF Next

\* The working tree, the fingerprint files and the state of make keep their types, whatever
\* is edited and whenever make is killed (repository_verify.py and the Makefile).
THEOREM TypeCorrect == Spec => []TypeOK
  <1>1. Init => Typed
    <2> SUFFICES ASSUME Init PROVE Typed
      OBVIOUS
    <2>1. \A paths : <<>> \in Reading(paths)
      <3>1. <<>> \in [{} -> Nat]
        OBVIOUS
      <3> QED
        BY <3>1 DEF Reading
    <2>2. tree \in [Paths -> Nat] /\ before = tree
      BY DEF Init
    <2>3. lane \in [Lanes -> {"waiting", "running", "passed", "failed"}]
      BY DEF Init
    <2>4. \A l \in Lanes : input[l] = NoInput /\ examined[l] \in Reading(Examined[l])
      BY <2>1 DEF Init
    <2>5. fresh = {} /\ goals = {} /\ unwritten = {} /\ always = FALSE /\ stage = "idle"
          /\ DOMAIN input = Lanes /\ DOMAIN examined = Lanes /\ seen \in Reading(Paths)
      BY <2>1 DEF Init
    <2> QED
      BY <2>2, <2>3, <2>4, <2>5 DEF Typed, TypeOK
  <1>2. Typed => TypeOK
    BY DEF Typed
  <1> QED
    BY <1>1, <1>2, NextTyped, PTL DEF Spec
=============================================================================
