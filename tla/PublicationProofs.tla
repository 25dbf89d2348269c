------------------------- MODULE PublicationProofs -------------------------
(***************************************************************************)
(* Publication for any tasks, campaigns, records and length of a history:  *)
(* what leaves the active set is published, and what a retirement names    *)
(* was compared.                                                           *)
(*                                                                         *)
(* Both commands parse before they hash, and the bridge file that is       *)
(* hashed need not be the one that was parsed.  The argument is that a     *)
(* result, once its file is rewritten, never comes back: what was hashed   *)
(* last was there all the time since it was read first.                    *)
(***************************************************************************)
EXTENDS Publication, TLAPS

AnyResult == {ResultOf(s, c) : s \in TaskSetType, c \in Campaigns}

BridgeType ==
    [beforeSet: TaskSetType, afterSet: TaskSetType, terms: Terms,
     beforeResult: Nat, afterResult: Nat]

Digest(b, side) == IF side = "before" THEN b.beforeResult ELSE b.afterResult

\* With result files res, the file of a side will not hold result r again.
Gone(res, side, r) ==
    /\ r # res[side]
    /\ side = "before" => r # res["after"]

\* Of n results written so far, r is or was in the file of a side.
Kept(res, n, side, r) ==
    /\ r \in 1..n
    /\ r = res[side] \/ Gone(res, side, r)

\* Both results of a bridge were there once.
Met(res, n, b) == \A side \in Sides : Kept(res, n, side, Digest(b, side))

\* Nothing was read of a side since b named its result but that result, unless it is gone.
Follows(res, reads, b) ==
    \A i \in 1..Len(reads) :
        \/ reads[i] = Digest(b, ReadOrder[i])
        \/ Gone(res, ReadOrder[i], Digest(b, ReadOrder[i]))

ReadsKept(res, n, reads) ==
    /\ reads \in Seq(Nat) /\ Len(reads) <= 4
    /\ \A i \in 1..Len(reads) : Kept(res, n, ReadOrder[i], reads[i])

\* Once the result of b is read, it has been the only one read of its side.
Settled(reads, b) ==
    /\ Len(reads) >= 3 /\ reads[3] = b.beforeResult => reads[1] = reads[3]
    /\ Len(reads) >= 4 /\ reads[4] = b.afterResult => reads[2] = reads[4]

\* What a bridge would be whose results are parsed as they were hashed.
Rebuilt(arch, b) ==
    BridgeReport(arch[b.beforeResult], arch[b.afterResult], b.beforeResult, b.afterResult)

\* Bridge x stands for b, unless a result of b is gone that was not read.
StandsFor(arch, res, x, b, reads) ==
    \/ x = b \/ x = Rebuilt(arch, b)
    \/ \E side \in Sides :
         /\ Gone(res, side, Digest(b, side))
         /\ \A i \in 1..Len(reads) : ReadOrder[i] = side => reads[i] # Digest(b, side)

\* The results that b names are comparable on the two sets.
Compares(arch, before, after, b) ==
    /\ b.beforeResult \in 1..Len(arch) /\ b.afterResult \in 1..Len(arch)
    /\ Bridgeable(before, after, arch[b.beforeResult], arch[b.afterResult])

Files ==
    /\ archive \in Seq(AnyResult)
    /\ bridge # None => bridge \in BridgeType /\ Met(results, Len(archive), bridge)
    /\ accepted \in Seq([records: SUBSET Records, bridge: BridgeType])
    /\ results["after"] # 0 => results["before"] # results["after"]
    /\ proposed # None => Len(sets) < MaxSets

Writing ==
    /\ DOMAIN writer = {"after", "reads"}
    /\ ReadsKept(results, Len(archive), writer.reads)
    /\ bridge # None => Follows(results, writer.reads, bridge)
    /\ validator # None => Follows(results, writer.reads, validator.bridge)

Validating ==
    /\ DOMAIN validator = {"after", "reads", "bridge", "named"}
    /\ proposed # None
    /\ validator.after \in TaskSetType
    /\ bridge # None /\ validator.bridge \in BridgeType
    /\ ReadsKept(results, Len(archive), validator.reads)
    /\ Met(results, Len(archive), validator.bridge)
    /\ Follows(results, validator.reads, validator.bridge)
    /\ Settled(validator.reads, validator.bridge)
    /\ validator.named = None =>
         /\ validator.reads = <<>>
         /\ StandsFor(archive, results, bridge, validator.bridge, <<>>)
    /\ validator.named # None =>
         /\ validator.named \in BridgeType
         /\ StandsFor(archive, results, validator.named, validator.bridge, validator.reads)

Retired == \A n \in 1..Len(accepted) : Compares(archive, sets[n], sets[n + 1], accepted[n].bridge)

Commands ==
    /\ writer # None => Writing
    /\ validator # None => Validating

IInv ==
    /\ TypeOK
    /\ Files
    /\ Commands
    /\ Retired
    /\ RemovedIsPublished

\* From result files res and n results to res2 and m: what is gone stays gone, and what a
\* file held it holds still or never again.
Later(res, n, res2, m) ==
    /\ n <= m
    /\ \A side \in Sides, r \in 1..n :
         /\ Gone(res, side, r) => Gone(res2, side, r)
         /\ r = res[side] => r = res2[side] \/ Gone(res2, side, r)

-----------------------------------------------------------------------------
(* What later result files leave true. *)

\* What a file held, later files hold or have lost for good.
LEMMA KeptStays ==
    ASSUME NEW res, NEW n \in Nat, NEW res2, NEW m \in Nat, Later(res, n, res2, m),
           NEW side \in Sides, NEW r, Kept(res, n, side, r)
    PROVE  Kept(res2, m, side, r)
BY DEF Later, Kept

\* Both results of a bridge stay once met.
LEMMA MetStays ==
    ASSUME NEW res, NEW n \in Nat, NEW res2, NEW m \in Nat, Later(res, n, res2, m),
           NEW b, Met(res, n, b)
    PROVE  Met(res2, m, b)
BY KeptStays DEF Met

\* The sides of the files that a command reads.
LEMMA ReadSides ==
    /\ ReadOrder \in Seq(Sides) /\ Len(ReadOrder) = 4
    /\ ReadOrder[1] = "before" /\ ReadOrder[2] = "after"
    /\ ReadOrder[3] = "before" /\ ReadOrder[4] = "after"
    /\ \A i \in 1..4 : ReadOrder[i] \in Sides
<1>1. /\ ReadOrder \in Seq(Sides) /\ Len(ReadOrder) = 4
      /\ ReadOrder[1] = "before" /\ ReadOrder[2] = "after"
      /\ ReadOrder[3] = "before" /\ ReadOrder[4] = "after"
  BY DEF ReadOrder, Sides
<1>2. ASSUME NEW i \in 1..4 PROVE ReadOrder[i] \in Sides
  BY <1>1 DEF Sides
<1> QED BY <1>1, <1>2

\* What a command has read was in its file once.
LEMMA ReadsStay ==
    ASSUME NEW res, NEW n \in Nat, NEW res2, NEW m \in Nat, Later(res, n, res2, m),
           NEW reads, ReadsKept(res, n, reads)
    PROVE  ReadsKept(res2, m, reads)
<1>1. ASSUME NEW i \in 1..Len(reads) PROVE Kept(res2, m, ReadOrder[i], reads[i])
  <2>1. i \in 1..4 /\ Kept(res, n, ReadOrder[i], reads[i])  BY DEF ReadsKept
  <2> QED BY <2>1, KeptStays, ReadSides
<1> QED BY <1>1 DEF ReadsKept

\* What follows a bridge still does, and so does another one.
LEMMA FollowsStay ==
    ASSUME NEW res, NEW n \in Nat, NEW res2, NEW m \in Nat, Later(res, n, res2, m),
           NEW b, Met(res, n, b),
           NEW reads, ReadsKept(res, n, reads), Follows(res, reads, b)
    PROVE  Follows(res2, reads, b)
<1> SUFFICES ASSUME NEW i \in 1..Len(reads)
             PROVE  \/ reads[i] = Digest(b, ReadOrder[i])
                    \/ Gone(res2, ReadOrder[i], Digest(b, ReadOrder[i]))
  BY DEF Follows
<1>1. ReadOrder[i] \in Sides  BY ReadSides DEF ReadsKept
<1>2. Digest(b, ReadOrder[i]) \in 1..n  BY <1>1 DEF Met, Kept
<1> QED BY <1>1, <1>2 DEF Later, Follows

\* A bridge that stands for another still does, whatever is added to the archive.
LEMMA StandsForStays ==
    ASSUME NEW arch, NEW arch2, NEW res, NEW n \in Nat, NEW res2, NEW m \in Nat,
           Later(res, n, res2, m),
           \A i \in 1..n : arch2[i] = arch[i],
           NEW b, Met(res, n, b), NEW x, NEW reads,
           StandsFor(arch, res, x, b, reads)
    PROVE  StandsFor(arch2, res2, x, b, reads)
<1>1. \A side \in Sides : Digest(b, side) \in 1..n  BY DEF Met, Kept
<1>2. b.beforeResult \in 1..n /\ b.afterResult \in 1..n  BY <1>1 DEF Digest, Sides
<1>3. Rebuilt(arch2, b) = Rebuilt(arch, b)  BY <1>2 DEF Rebuilt
<1>4. \A side \in Sides : Gone(res, side, Digest(b, side)) => Gone(res2, side, Digest(b, side))
  BY <1>1 DEF Later
<1> QED BY <1>3, <1>4 DEF StandsFor

\* What was comparable in an archive is so in every longer one.
LEMMA ComparesStays ==
    ASSUME NEW arch, NEW arch2, Len(arch) \in Nat, Len(arch2) \in Nat, Len(arch) <= Len(arch2),
           \A i \in 1..Len(arch) : arch2[i] = arch[i],
           NEW before, NEW after, NEW b, Compares(arch, before, after, b)
    PROVE  Compares(arch2, before, after, b)
<1>1. b.beforeResult \in 1..Len(arch2) /\ b.afterResult \in 1..Len(arch2)  BY DEF Compares
<1>2. /\ arch2[b.beforeResult] = arch[b.beforeResult]
      /\ arch2[b.afterResult] = arch[b.afterResult]
  BY DEF Compares
<1> QED BY <1>1, <1>2 DEF Compares

-----------------------------------------------------------------------------
(* What the steps have in common. *)

\* A document is not the empty tuple.
LEMMA DocumentsAreNotNone ==
    /\ \A s \in TaskSetType : s # None
    /\ \A b \in BridgeType : b # None
<1>1. DOMAIN None = {}  BY DEF None
<1>2. \A s \in TaskSetType : "tasks" \in DOMAIN s  BY DEF TaskSetType
<1>3. \A b \in BridgeType : "terms" \in DOMAIN b  BY DEF BridgeType
<1> QED BY <1>1, <1>2, <1>3

\* Files that do not change are later ones.
LEMMA SameIsLater ==
    ASSUME NEW res, NEW n \in Nat
    PROVE  Later(res, n, res, n)
BY DEF Later

\* The lengths and the entries of the histories are what they should be.
LEMMA Histories ==
    ASSUME IInv
    PROVE  /\ Len(archive) \in Nat /\ Len(sets) \in Nat \ {0} /\ Len(accepted) \in Nat
           /\ Active \in TaskSetType
           /\ \A side \in Sides : results[side] \in 0..Len(archive)
<1>1. archive \in Seq(AnyResult) /\ sets \in Seq(TaskSetType) /\ Len(sets) \in 1..MaxSets
  BY DEF IInv, TypeOK, Files
<1>2. Len(archive) \in Nat /\ Len(sets) \in Nat \ {0}  BY <1>1
<1>3. Len(accepted) \in Nat  BY <1>2 DEF IInv, TypeOK
<1>4. Active \in TaskSetType  BY <1>1, <1>2 DEF Active
<1>5. \A side \in Sides : results[side] \in 0..Len(archive)  BY DEF IInv, TypeOK
<1> QED BY <1>2, <1>3, <1>4, <1>5

\* The archive keeps every result that was written.
Archived ==
    /\ Len(archive) <= Len(archive') /\ Len(archive') \in Nat
    /\ \A i \in 1..Len(archive) : archive'[i] = archive[i]

\* Nothing is said of earlier retirements but by the archive and their sets.
LEMMA HistoryStays ==
    ASSUME IInv, Archived, UNCHANGED <<sets, accepted>>
    PROVE  Retired' /\ RemovedIsPublished'
<1>1. ASSUME NEW n \in 1..Len(accepted)
      PROVE  Compares(archive', sets[n], sets[n + 1], accepted[n].bridge)
  <2>1. Compares(archive, sets[n], sets[n + 1], accepted[n].bridge)  BY DEF IInv, Retired
  <2>2. Len(archive) \in Nat  BY Histories
  <2>3. /\ Len(archive) <= Len(archive') /\ Len(archive') \in Nat
        /\ \A i \in 1..Len(archive) : archive'[i] = archive[i]
    BY DEF Archived
  <2> QED BY <2>1, <2>2, <2>3, ComparesStays
<1>2. Retired'  BY <1>1 DEF Retired
<1>3. RemovedIsPublished'  BY DEF IInv, RemovedIsPublished, Published, Active
<1> QED BY <1>2, <1>3

\* Later files leave what the bridge, the writer and the validator know as it is.
LEMMA CommandsStay ==
    ASSUME IInv, Archived,
           Later(results, Len(archive), results', Len(archive')),
           UNCHANGED <<bridge, writer>>,
           validator' = None \/ (validator' = validator /\ proposed' # None)
    PROVE  /\ bridge' # None => bridge' \in BridgeType /\ Met(results', Len(archive'), bridge')
           /\ Commands'
<1> DEFINE n == Len(archive)  m == Len(archive')
<1>1. n \in Nat /\ m \in Nat /\ Later(results, n, results', m)
  BY Histories DEF Archived
<1>2. bridge # None => bridge \in BridgeType /\ Met(results, n, bridge)  BY DEF IInv, Files
<1>3. bridge' # None => bridge' \in BridgeType /\ Met(results', m, bridge')
  BY <1>1, <1>2, MetStays
<1>4. ASSUME writer' # None PROVE Writing'
  <2>1. writer # None /\ writer' = writer /\ Writing  BY <1>4 DEF IInv, Commands
  <2>2. ReadsKept(results', m, writer.reads)
    BY <1>1, <2>1, ReadsStay DEF Writing
  <2>3. bridge # None => Follows(results', writer.reads, bridge)
    BY <1>1, <1>2, <2>1, FollowsStay DEF Writing
  <2>4. validator' # None => Follows(results', writer.reads, validator'.bridge)
    <3> SUFFICES ASSUME validator' # None PROVE Follows(results', writer.reads, validator'.bridge)
      OBVIOUS
    <3>1. validator' = validator /\ Validating  BY DEF IInv, Commands
    <3> QED BY <1>1, <2>1, <3>1, FollowsStay DEF Writing, Validating
  <2> QED BY <2>1, <2>2, <2>3, <2>4 DEF Writing
<1>5. ASSUME validator' # None PROVE Validating'
  <2>1. validator' = validator /\ proposed' # None /\ Validating  BY <1>5 DEF IInv, Commands
  <2> DEFINE b == validator.bridge
  <2>2. Met(results, n, b) /\ ReadsKept(results, n, validator.reads)
        /\ Follows(results, validator.reads, b)
    BY <2>1 DEF Validating
  <2>3. Met(results', m, b)  BY <1>1, <2>2, MetStays
  <2>4. ReadsKept(results', m, validator.reads)  BY <1>1, <2>2, ReadsStay
  <2>5. Follows(results', validator.reads, b)  BY <1>1, <2>2, FollowsStay
  <2>6. \A i \in 1..n : archive'[i] = archive[i]  BY DEF Archived
  <2>7. ASSUME validator.named = None
        PROVE  validator.reads = <<>> /\ StandsFor(archive', results', bridge, b, <<>>)
    <3>1. validator.reads = <<>> /\ StandsFor(archive, results, bridge, b, <<>>)
      BY <2>1, <2>7 DEF Validating
    <3> HIDE DEF n, m, b
    <3> QED BY <1>1, <2>2, <2>6, <3>1, StandsForStays
  <2>8. ASSUME validator.named # None
        PROVE  /\ validator.named \in BridgeType
               /\ StandsFor(archive', results', validator.named, b, validator.reads)
    <3>1. /\ validator.named \in BridgeType
          /\ StandsFor(archive, results, validator.named, b, validator.reads)
      BY <2>1, <2>8 DEF Validating
    <3> HIDE DEF n, m, b
    <3> QED BY <1>1, <2>2, <2>6, <3>1, StandsForStays
  <2> QED BY <2>1, <2>3, <2>4, <2>5, <2>7, <2>8 DEF Validating
<1> QED BY <1>3, <1>4, <1>5 DEF Commands

-----------------------------------------------------------------------------
(* What the next read leaves true. *)

\* The results read so far and the next one.
OneMore(res, reads) == Append(reads, res[ReadOrder[Len(reads) + 1]])

\* As long as not all four files are read.
LEMMA ShortReads ==
    ASSUME NEW reads \in Seq(Nat), Len(reads) < 4
    PROVE  Len(reads) \in 0..3
<1>1. Len(reads) \in Nat  OBVIOUS
<1>2. \A k \in Nat : k < 4 => k \in 0..3  OBVIOUS
<1> QED BY <1>1, <1>2

\* The entries of what has been read, and of one more.
LEMMA Entries ==
    ASSUME NEW res, NEW n, NEW reads, ReadsKept(res, n, reads), Len(reads) < 4,
           \A side \in Sides : res[side] \in Nat
    PROVE  /\ Len(reads) \in 0..3
           /\ ReadOrder[Len(reads) + 1] \in Sides
           /\ OneMore(res, reads) \in Seq(Nat)
           /\ Len(OneMore(res, reads)) = Len(reads) + 1
           /\ \A i \in 1..Len(reads) : OneMore(res, reads)[i] = reads[i]
           /\ OneMore(res, reads)[Len(reads) + 1] = res[ReadOrder[Len(reads) + 1]]
<1>0. reads \in Seq(Nat)  BY DEF ReadsKept
<1>1. Len(reads) \in 0..3  BY <1>0, ShortReads
<1>2. ReadOrder[Len(reads) + 1] \in Sides  BY <1>1, ReadSides
<1>3. res[ReadOrder[Len(reads) + 1]] \in Nat  BY <1>2
<1> QED BY <1>0, <1>1, <1>2, <1>3 DEF OneMore

\* What is read now was in its file once.
LEMMA ReadIsKept ==
    ASSUME NEW res, NEW n \in Nat, NEW reads, ReadsKept(res, n, reads), Len(reads) < 4,
           \A side \in Sides : res[side] \in 1..n
    PROVE  ReadsKept(res, n, OneMore(res, reads))
<1> DEFINE k == Len(reads) + 1
           side == ReadOrder[k]
<1>1. \A s \in Sides : res[s] \in Nat  OBVIOUS
<1>2. /\ Len(reads) \in 0..3 /\ side \in Sides
      /\ OneMore(res, reads) \in Seq(Nat) /\ Len(OneMore(res, reads)) = k
      /\ \A i \in 1..Len(reads) : OneMore(res, reads)[i] = reads[i]
      /\ OneMore(res, reads)[k] = res[side]
  BY <1>1, Entries
<1>3. Kept(res, n, side, res[side])  BY <1>2 DEF Kept
<1>4. ASSUME NEW i \in 1..k PROVE Kept(res, n, ReadOrder[i], OneMore(res, reads)[i])
  <2>1. CASE i = k  BY <1>2, <1>3, <2>1
  <2>2. CASE i # k
    <3>1. i \in 1..Len(reads)  BY <1>2, <2>2
    <3> QED BY <1>2, <3>1 DEF ReadsKept
  <2> QED BY <2>1, <2>2
<1> QED BY <1>2, <1>4 DEF ReadsKept

\* A result read now is the one that a bridge names, or that one is gone.
LEMMA ReadFollows ==
    ASSUME NEW res, NEW n \in Nat, NEW reads, ReadsKept(res, n, reads), Len(reads) < 4,
           \A side \in Sides : res[side] \in 1..n,
           NEW b, Met(res, n, b), Follows(res, reads, b)
    PROVE  Follows(res, OneMore(res, reads), b)
<1> DEFINE k == Len(reads) + 1
           side == ReadOrder[k]
<1>1. \A s \in Sides : res[s] \in Nat  OBVIOUS
<1>2. /\ Len(reads) \in 0..3 /\ side \in Sides
      /\ Len(OneMore(res, reads)) = k
      /\ \A i \in 1..Len(reads) : OneMore(res, reads)[i] = reads[i]
      /\ OneMore(res, reads)[k] = res[side]
  BY <1>1, Entries
<1>3. Digest(b, side) = res[side] \/ Gone(res, side, Digest(b, side))
  BY <1>2 DEF Met, Kept
<1>4. ASSUME NEW i \in 1..k
      PROVE  \/ OneMore(res, reads)[i] = Digest(b, ReadOrder[i])
             \/ Gone(res, ReadOrder[i], Digest(b, ReadOrder[i]))
  <2>1. CASE i = k  BY <1>2, <1>3, <2>1
  <2>2. CASE i # k
    <3>1. i \in 1..Len(reads)  BY <1>2, <2>2
    <3> QED BY <1>2, <3>1 DEF Follows
  <2> QED BY <2>1, <2>2
<1> QED BY <1>2, <1>4 DEF Follows

\* A result that a bridge names and that is read now was there all the time.
LEMMA ReadSettles ==
    ASSUME NEW res, NEW n \in Nat, NEW reads, ReadsKept(res, n, reads), Len(reads) < 4,
           \A side \in Sides : res[side] \in 1..n,
           NEW b, Follows(res, reads, b), Settled(reads, b)
    PROVE  Settled(OneMore(res, reads), b)
<1> DEFINE k == Len(reads) + 1
           next == OneMore(res, reads)
<1>1. \A s \in Sides : res[s] \in Nat  OBVIOUS
<1>2. /\ Len(reads) \in 0..3
      /\ Len(next) = k
      /\ \A i \in 1..Len(reads) : next[i] = reads[i]
      /\ next[k] = res[ReadOrder[k]]
  BY <1>1, Entries
<1> HIDE DEF next
<1>3. ASSUME Len(next) >= 3, next[3] = b.beforeResult PROVE next[1] = next[3]
  <2>1. CASE k = 3
    <3>1. next[3] = res["before"] /\ next[1] = reads[1]  BY <1>2, <2>1, ReadSides
    <3>2. reads[1] = b.beforeResult \/ Gone(res, "before", b.beforeResult)
      BY <1>2, <2>1, ReadSides DEF Follows, Digest
    <3> QED BY <1>3, <3>1, <3>2 DEF Gone
  <2>2. CASE k # 3
    <3>1. Len(reads) = 3 /\ next[3] = reads[3] /\ next[1] = reads[1]  BY <1>2, <1>3, <2>2
    <3> QED BY <1>3, <3>1 DEF Settled
  <2> QED BY <2>1, <2>2
<1>4. ASSUME Len(next) >= 4, next[4] = b.afterResult PROVE next[2] = next[4]
  <2>1. k = 4  BY <1>2, <1>4
  <2>2. next[4] = res["after"] /\ next[2] = reads[2]  BY <1>2, <2>1, ReadSides
  <2>3. reads[2] = b.afterResult \/ Gone(res, "after", b.afterResult)
    BY <1>2, <2>1, ReadSides DEF Follows, Digest
  <2> QED BY <1>4, <2>2, <2>3 DEF Gone
<1> QED BY <1>3, <1>4 DEF Settled, next

\* A result that is gone is not read now.
LEMMA ReadStandsFor ==
    ASSUME NEW res, NEW n \in Nat, NEW reads, ReadsKept(res, n, reads), Len(reads) < 4,
           \A side \in Sides : res[side] \in 1..n,
           NEW arch, NEW b, NEW x, StandsFor(arch, res, x, b, reads)
    PROVE  StandsFor(arch, res, x, b, OneMore(res, reads))
<1> DEFINE k == Len(reads) + 1
           next == OneMore(res, reads)
<1>1. \A s \in Sides : res[s] \in Nat  OBVIOUS
<1>2. /\ Len(reads) \in 0..3
      /\ Len(next) = k
      /\ \A i \in 1..Len(reads) : next[i] = reads[i]
      /\ next[k] = res[ReadOrder[k]]
  BY <1>1, Entries
<1> HIDE DEF next
<1>3. ASSUME NEW side \in Sides, Gone(res, side, Digest(b, side)),
             \A i \in 1..Len(reads) : ReadOrder[i] = side => reads[i] # Digest(b, side),
             NEW i \in 1..Len(next), ReadOrder[i] = side
      PROVE  next[i] # Digest(b, side)
  <2>1. CASE i = k  BY <1>2, <1>3, <2>1 DEF Gone
  <2>2. CASE i # k
    <3>1. i \in 1..Len(reads)  BY <1>2, <2>2
    <3> QED BY <1>2, <1>3, <3>1
  <2> QED BY <2>1, <2>2
<1> QED BY <1>3 DEF StandsFor, next

-----------------------------------------------------------------------------
(* The steps that write nothing. *)

\* A step that leaves the files alone leaves what is said of them.
LEMMA FilesStay ==
    ASSUME IInv, UNCHANGED <<sets, proposed, archive, results, bridge, accepted>>
    PROVE  TypeOK' /\ Files' /\ Retired' /\ RemovedIsPublished'
<1>1. TypeOK'  BY DEF IInv, TypeOK
<1>2. Files'  BY DEF IInv, Files
<1>3. Archived  BY Histories DEF Archived
<1> QED BY <1>1, <1>2, <1>3, HistoryStays

\* Before anything is read.
LEMMA NothingRead ==
    ASSUME NEW res, NEW n, NEW b
    PROVE  ReadsKept(res, n, <<>>) /\ Follows(res, <<>>, b) /\ Settled(<<>>, b)
BY DEF ReadsKept, Follows, Settled

LEMMA StartBridgeKeeps ==
    ASSUME IInv, StartBridge
    PROVE  IInv'
<1> USE DEF StartBridge
<1>1. TypeOK' /\ Files' /\ Retired' /\ RemovedIsPublished'  BY FilesStay
<1>2. Writing'
  <2>1. DOMAIN writer' = {"after", "reads"} /\ writer'.reads = <<>>  OBVIOUS
  <2> QED BY <2>1, NothingRead DEF Writing
<1>3. ASSUME validator' # None PROVE Validating'
  BY <1>3 DEF IInv, Commands, Validating
<1> QED BY <1>1, <1>2, <1>3 DEF IInv, Commands

\* There are results to read.
LEMMA Readable ==
    ASSUME IInv, HaveResults
    PROVE  \A side \in Sides : results[side] \in 1..Len(archive)
<1> TAKE side \in Sides
<1>1. results[side] \in 0..Len(archive) /\ results[side] # 0 /\ Len(archive) \in Nat
  BY Histories DEF HaveResults
<1> QED BY <1>1

LEMMA BridgeReadsKeeps ==
    ASSUME IInv, BridgeReads
    PROVE  IInv'
<1> DEFINE n == Len(archive)
           reads == OneMore(results, writer.reads)
<1>1. TypeOK' /\ Files' /\ Retired' /\ RemovedIsPublished'  BY FilesStay DEF BridgeReads
<1>2. Writing /\ Len(writer.reads) < 4 /\ n \in Nat
  BY ReadSides, Histories DEF BridgeReads, Reading, IInv, Commands
<1>3. \A side \in Sides : results[side] \in 1..n  BY Readable DEF BridgeReads, Reading
<1>4. DOMAIN writer' = {"after", "reads"} /\ writer'.reads = reads
  BY <1>2 DEF BridgeReads, NextRead, Writing, OneMore
<1>5. ReadsKept(results, n, writer.reads)  BY <1>2 DEF Writing
<1> HIDE DEF n
<1>6. ReadsKept(results, n, reads)  BY <1>2, <1>3, <1>5, ReadIsKept
<1>7. ASSUME bridge # None PROVE Follows(results, reads, bridge)
  <2>1. Met(results, n, bridge) /\ Follows(results, writer.reads, bridge)
    BY <1>2, <1>7 DEF IInv, Files, Writing, n
  <2> QED BY <1>2, <1>3, <1>5, <2>1, ReadFollows
<1>8. ASSUME validator # None PROVE Follows(results, reads, validator.bridge)
  <2>1. Met(results, n, validator.bridge) /\ Follows(results, writer.reads, validator.bridge)
    BY <1>2, <1>8 DEF IInv, Commands, Validating, Writing, n
  <2> QED BY <1>2, <1>3, <1>5, <2>1, ReadFollows
<1>9. Writing'
  BY <1>4, <1>6, <1>7, <1>8 DEF Writing, BridgeReads, n
<1>10. ASSUME validator' # None PROVE Validating'
  BY <1>10 DEF IInv, Commands, Validating, BridgeReads
<1> QED BY <1>1, <1>9, <1>10 DEF IInv, Commands

LEMMA ReadDocumentsKeeps ==
    ASSUME IInv, ReadDocuments
    PROVE  IInv'
<1> USE DEF ReadDocuments
<1>1. TypeOK' /\ Files' /\ Retired' /\ RemovedIsPublished'  BY FilesStay
<1>2. bridge \in BridgeType /\ Met(results, Len(archive), bridge) /\ proposed \in TaskSetType
  BY DEF IInv, Files, TypeOK
<1>3. /\ DOMAIN validator' = {"after", "reads", "bridge", "named"}
      /\ validator'.after = proposed /\ validator'.reads = <<>>
      /\ validator'.bridge = bridge /\ validator'.named = None
  OBVIOUS
<1>4. StandsFor(archive, results, bridge, bridge, <<>>)  BY DEF StandsFor
<1>5. Validating'  BY <1>2, <1>3, <1>4, NothingRead DEF Validating
<1>6. ASSUME writer' # None PROVE Writing'
  BY <1>3, <1>6 DEF IInv, Commands, Writing
<1> QED BY <1>1, <1>5, <1>6 DEF IInv, Commands

LEMMA HashBridgeKeeps ==
    ASSUME IInv, HashBridge
    PROVE  IInv'
<1> USE DEF HashBridge
<1>1. TypeOK' /\ Files' /\ Retired' /\ RemovedIsPublished'  BY FilesStay
<1>2. Validating /\ bridge # None /\ bridge \in BridgeType
  BY DEF IInv, Files, Commands, Validating
<1>3. /\ DOMAIN validator' = {"after", "reads", "bridge", "named"}
      /\ validator'.after = validator.after /\ validator'.reads = validator.reads
      /\ validator'.bridge = validator.bridge /\ validator'.named = bridge
  BY <1>2 DEF Validating
<1>4. Validating'  BY <1>2, <1>3 DEF Validating
<1>5. ASSUME writer' # None PROVE Writing'
  BY <1>3, <1>5 DEF IInv, Commands, Writing
<1> QED BY <1>1, <1>4, <1>5 DEF IInv, Commands

LEMMA ValidatorReadsKeeps ==
    ASSUME IInv, ValidatorReads
    PROVE  IInv'
<1> DEFINE n == Len(archive)
           b == validator.bridge
           reads == OneMore(results, validator.reads)
<1>1. TypeOK' /\ Files' /\ Retired' /\ RemovedIsPublished'  BY FilesStay DEF ValidatorReads
<1>2. Validating /\ Len(validator.reads) < 4 /\ n \in Nat /\ validator.named # None
  BY ReadSides, Histories DEF ValidatorReads, Reading, IInv, Commands
<1>3. \A side \in Sides : results[side] \in 1..n  BY Readable DEF ValidatorReads, Reading
<1>4. /\ DOMAIN validator' = {"after", "reads", "bridge", "named"}
      /\ validator'.after = validator.after /\ validator'.reads = reads
      /\ validator'.bridge = b /\ validator'.named = validator.named
  BY <1>2 DEF ValidatorReads, NextRead, Validating, OneMore
<1>5. /\ ReadsKept(results, n, validator.reads) /\ Met(results, n, b)
      /\ Follows(results, validator.reads, b) /\ Settled(validator.reads, b)
      /\ StandsFor(archive, results, validator.named, b, validator.reads)
  BY <1>2 DEF Validating
<1> HIDE DEF n, b
<1>6. ReadsKept(results, n, reads)  BY <1>2, <1>3, <1>5, ReadIsKept
<1>7. Follows(results, reads, b)  BY <1>2, <1>3, <1>5, ReadFollows
<1>8. Settled(reads, b)  BY <1>2, <1>3, <1>5, ReadSettles
<1>9. StandsFor(archive, results, validator.named, b, reads)
  BY <1>2, <1>3, <1>5, ReadStandsFor
<1>10. Validating'
  BY <1>2, <1>4, <1>5, <1>6, <1>7, <1>8, <1>9 DEF Validating, ValidatorReads, n, b
<1>11. ASSUME writer' # None PROVE Writing'
  <2>1. UNCHANGED <<archive, results, bridge, writer>> /\ validator # None
    BY DEF ValidatorReads, Reading
  <2>2. Writing  BY <1>11, <2>1 DEF IInv, Commands
  <2> QED BY <1>4, <2>1, <2>2 DEF Writing, b
<1> QED BY <1>1, <1>10, <1>11 DEF IInv, Commands

LEMMA RaiseKeeps ==
    ASSUME IInv, Raise
    PROVE  IInv'
<1> USE DEF Raise
<1>1. TypeOK' /\ Files' /\ Retired' /\ RemovedIsPublished'  BY FilesStay
<1>2. ASSUME writer' # None PROVE Writing'
  BY <1>2 DEF IInv, Commands, Writing
<1>3. ASSUME validator' # None PROVE Validating'
  BY <1>3 DEF IInv, Commands, Validating
<1> QED BY <1>1, <1>2, <1>3 DEF IInv, Commands

-----------------------------------------------------------------------------
(* The steps that write a file. *)

LEMMA ProposeKeeps ==
    ASSUME IInv, NEW s \in NextSets, Propose(s)
    PROVE  IInv'
<1> USE DEF Propose
<1>1. proposed' \in TaskSetType /\ proposed' # None
  BY PublicationAssumption, DocumentsAreNotNone
<1>2. TypeOK'  BY <1>1 DEF IInv, TypeOK
<1>3. Archived /\ Later(results, Len(archive), results', Len(archive'))
  BY Histories, SameIsLater DEF Archived
<1>4. Retired' /\ RemovedIsPublished'  BY <1>3, HistoryStays
<1>5. Commands'  BY <1>1, <1>3, CommandsStay
<1>6. Files'  BY <1>1 DEF IInv, Files
<1> QED BY <1>2, <1>4, <1>5, <1>6 DEF IInv

\* A campaign is a result of its set.
LEMMA ResultsAreTyped ==
    ASSUME NEW s \in TaskSetType, NEW c \in Campaigns
    PROVE  ResultOf(s, c) \in AnyResult
BY DEF AnyResult

\* A file written anew holds none of the earlier results any more.
LEMMA EvaluatedLater ==
    ASSUME NEW n \in Nat, NEW res \in [Sides -> 0..n], NEW side \in Sides,
           res["after"] # 0 => res["before"] # res["after"]
    PROVE  Later(res, n, [res EXCEPT ![side] = n + 1], n + 1)
<1> DEFINE res2 == [res EXCEPT ![side] = n + 1]
<1>1. /\ res2[side] = n + 1
      /\ \A s \in Sides : s # side => res2[s] = res[s]
  OBVIOUS
<1>2. res["before"] \in 0..n /\ res["after"] \in 0..n  BY DEF Sides
<1>3. "before" \in Sides /\ "after" \in Sides  BY DEF Sides
<1> HIDE DEF res2
<1>4. ASSUME NEW s \in Sides, NEW r \in 1..n, Gone(res, s, r)
      PROVE  Gone(res2, s, r)
  <2>1. r # n + 1  OBVIOUS
  <2>2. r # res2[s]  BY <1>1, <1>4, <2>1 DEF Gone
  <2>3. s = "before" => r # res2["after"]  BY <1>1, <1>3, <1>4, <2>1 DEF Gone
  <2> QED BY <2>2, <2>3 DEF Gone
<1>5. ASSUME NEW s \in Sides, NEW r \in 1..n, r = res[s]
      PROVE  r = res2[s] \/ Gone(res2, s, r)
  <2>1. CASE s # side  BY <1>1, <1>5, <2>1
  <2>2. CASE s = side
    <3>1. r # res2[s]  BY <1>1, <2>2
    <3>2. ASSUME s = "before" PROVE r # res2["after"]
      <4>1. res2["after"] = res["after"]  BY <1>1, <1>3, <2>2, <3>2
      <4> QED BY <1>2, <1>5, <3>2, <4>1
    <3> QED BY <3>1, <3>2 DEF Gone
  <2> QED BY <2>1, <2>2
<1>6. n <= n + 1  OBVIOUS
<1> QED BY <1>4, <1>5, <1>6 DEF Later, res2

LEMMA EvaluateKeeps ==
    ASSUME IInv, NEW side \in Sides, NEW campaign \in Campaigns, Evaluate(side, campaign)
    PROVE  IInv'
<1> DEFINE n == Len(archive)
           x == ResultOf(SetOf(side), campaign)
<1>1. SetOf(side) \in TaskSetType /\ n \in Nat
  BY Histories DEF Evaluate, SetOf, IInv, TypeOK
<1>2. x \in AnyResult  BY <1>1, ResultsAreTyped
<1>3. archive \in Seq(AnyResult) /\ archive' = Append(archive, x)
  BY DEF IInv, Files, Evaluate
<1> HIDE DEF x
<1>4. /\ archive' \in Seq(AnyResult) /\ Len(archive') = n + 1
      /\ \A i \in 1..n : archive'[i] = archive[i]
  BY <1>2, <1>3
<1>5. results \in [Sides -> 0..n] /\ (results["after"] # 0 => results["before"] # results["after"])
  BY DEF IInv, TypeOK, Files
<1>6. results' = [results EXCEPT ![side] = n + 1]  BY <1>4 DEF Evaluate
<1> HIDE DEF n
<1>7. Later(results, n, results', n + 1)  BY <1>1, <1>5, <1>6, EvaluatedLater
<1>8. Archived  BY <1>1, <1>4 DEF Archived, n
<1>9. Retired' /\ RemovedIsPublished'  BY <1>8, HistoryStays DEF Evaluate
<1>10. UNCHANGED <<sets, proposed, bridge, writer, validator, accepted>>  BY DEF Evaluate
<1>11. validator # None => proposed # None  BY DEF IInv, Commands, Validating
<1>12. Commands' /\ (bridge' # None => bridge' \in BridgeType /\ Met(results', Len(archive'), bridge'))
  BY <1>4, <1>7, <1>8, <1>10, <1>11, CommandsStay DEF n
<1>13. results' \in [Sides -> 0..n + 1]  BY <1>1, <1>5, <1>6
<1>14. proposed' = None => results'["after"] = 0
  <2>1. SetOf(side) # None  BY DEF Evaluate
  <2>2. proposed = None => side = "before"  BY <2>1 DEF SetOf, Sides
  <2> QED BY <1>5, <1>6, <1>10, <2>2 DEF IInv, TypeOK, Sides
<1>15. TypeOK'  BY <1>4, <1>10, <1>13, <1>14 DEF IInv, TypeOK
<1>16. results'["after"] # 0 => results'["before"] # results'["after"]
  <2>1. results["before"] \in 0..n /\ results["after"] \in 0..n  BY <1>5 DEF Sides
  <2>2. CASE side = "before"
    <3>1. results'["before"] = n + 1 /\ results'["after"] = results["after"]
      BY <1>5, <1>6, <2>2 DEF Sides
    <3> QED BY <1>1, <2>1, <3>1
  <2>3. CASE side = "after"
    <3>1. results'["after"] = n + 1 /\ results'["before"] = results["before"]
      BY <1>5, <1>6, <2>3 DEF Sides
    <3> QED BY <1>1, <2>1, <3>1
  <2> QED BY <2>2, <2>3 DEF Sides
<1>17. Files'  BY <1>4, <1>10, <1>12, <1>16 DEF IInv, Files
<1> QED BY <1>9, <1>12, <1>15, <1>17 DEF IInv

\* A command that bridges has read four results that were in their files once.
LEMMA BridgesRead ==
    ASSUME IInv, NEW reads, ReadsKept(results, Len(archive), reads), Len(reads) = 4
    PROVE  /\ Kept(results, Len(archive), "before", reads[1])
           /\ Kept(results, Len(archive), "after", reads[2])
           /\ Kept(results, Len(archive), "before", reads[3])
           /\ Kept(results, Len(archive), "after", reads[4])
           /\ \A i \in 1..4 : reads[i] \in 1..Len(archive)
<1>1. \A i \in 1..4 : Kept(results, Len(archive), ReadOrder[i], reads[i])  BY DEF ReadsKept
<1>2. \A i \in 1..4 : reads[i] \in 1..Len(archive)  BY <1>1 DEF Kept
<1> QED BY <1>1, <1>2, ReadSides

\* A result has the terms of its campaign.
LEMMA ResultTerms ==
    ASSUME NEW x \in AnyResult
    PROVE  x.set \in TaskSetType /\ x.terms \in Terms
<1>1. PICK s \in TaskSetType, c \in Campaigns : x = ResultOf(s, c)  BY DEF AnyResult
<1>2. c \in CampaignType(c.purpose)  BY PublicationAssumption
<1>3. c.terms \in Terms  BY <1>2 DEF CampaignType
<1> QED BY <1>1, <1>3 DEF ResultOf

LEMMA WriteBridgeKeeps ==
    ASSUME IInv, WriteBridge
    PROVE  IInv'
<1> DEFINE n == Len(archive)
           reads == writer.reads
<1>1. /\ writer # None /\ Len(reads) = 4 /\ bridge' = Built(writer) /\ writer' = None
      /\ UNCHANGED <<sets, proposed, archive, results, validator, accepted>>
  BY ReadSides DEF WriteBridge, Bridges
<1>2. Writing /\ n \in Nat /\ archive \in Seq(AnyResult)
  BY <1>1, Histories DEF IInv, Commands, Files
<1>3. /\ Kept(results, n, "before", reads[3]) /\ Kept(results, n, "after", reads[4])
      /\ \A i \in 1..4 : reads[i] \in 1..n
  BY <1>1, <1>2, BridgesRead DEF Writing
<1>4. archive[reads[1]] \in AnyResult /\ archive[reads[2]] \in AnyResult
  BY <1>2, <1>3
<1>5. bridge' = BridgeReport(archive[reads[1]], archive[reads[2]], reads[3], reads[4])
  BY <1>1 DEF Built, Parsed, Hashed
<1>6. bridge' \in BridgeType
  <2>1. reads[3] \in Nat /\ reads[4] \in Nat  BY <1>2, <1>3
  <2> QED BY <1>4, <1>5, <2>1, ResultTerms DEF BridgeType, BridgeReport
<1>7. bridge' # None  BY <1>6, DocumentsAreNotNone
<1>8. bridge'.beforeResult = reads[3] /\ bridge'.afterResult = reads[4]
  BY <1>5 DEF BridgeReport
<1>9. Met(results, n, bridge')  BY <1>3, <1>8 DEF Met, Digest, Sides
<1>10. TypeOK'  BY <1>1 DEF IInv, TypeOK
<1>11. Archived  BY <1>1, Histories DEF Archived
<1>12. Retired' /\ RemovedIsPublished'  BY <1>1, <1>11, HistoryStays
<1>13. Files'  BY <1>1, <1>6, <1>9 DEF IInv, Files
<1>14. ASSUME validator' # None PROVE Validating'
  <2> DEFINE b == validator.bridge
  <2>1. Validating /\ Follows(results, reads, b)  BY <1>1, <1>2, <1>14 DEF IInv, Commands, Writing
  <2>2. StandsFor(archive, results, bridge', b, <<>>)
    <3>1. CASE \E side \in Sides : Gone(results, side, Digest(b, side))
      BY <3>1 DEF StandsFor
    <3>2. CASE \A side \in Sides : ~ Gone(results, side, Digest(b, side))
      <4>1. \A i \in 1..4 : reads[i] = Digest(b, ReadOrder[i])
        BY <1>1, <2>1, <3>2, ReadSides DEF Follows
      <4>2. /\ reads[1] = b.beforeResult /\ reads[2] = b.afterResult
            /\ reads[3] = b.beforeResult /\ reads[4] = b.afterResult
        BY <4>1, ReadSides DEF Digest
      <4>3. bridge' = Rebuilt(archive, b)  BY <1>5, <4>2 DEF Rebuilt
      <4> QED BY <4>3 DEF StandsFor
    <3> QED BY <3>1, <3>2
  <2> QED BY <1>1, <1>7, <2>1, <2>2 DEF Validating
<1>15. writer' = None  BY <1>1
<1> QED BY <1>10, <1>12, <1>13, <1>14, <1>15 DEF IInv, Commands

-----------------------------------------------------------------------------
(* The retirement. *)

\* The result on the set that takes over becomes the one on the active set.
LEMMA RetiredLater ==
    ASSUME NEW n \in Nat, NEW res \in [Sides -> 0..n],
           res["after"] # 0 => res["before"] # res["after"]
    PROVE  Later(res, n, [before |-> res.after, after |-> 0], n)
<1> DEFINE res2 == [before |-> res.after, after |-> 0]
<1>1. res2["before"] = res["after"] /\ res2["after"] = 0  OBVIOUS
<1> HIDE DEF res2
<1>2. ASSUME NEW s \in Sides, NEW r \in 1..n, Gone(res, s, r)
      PROVE  Gone(res2, s, r)
  <2>1. r # 0  OBVIOUS
  <2> QED BY <1>1, <1>2, <2>1 DEF Gone, Sides
<1>3. ASSUME NEW s \in Sides, NEW r \in 1..n, r = res[s]
      PROVE  r = res2[s] \/ Gone(res2, s, r)
  <2>1. r # 0  OBVIOUS
  <2> QED BY <1>1, <1>3, <2>1 DEF Gone, Sides
<1> QED BY <1>2, <1>3 DEF Later, res2

\* Bridge b is what the four reads give.
Gives(arch, reads, b) ==
    b = BridgeReport(arch[reads[1]], arch[reads[2]], reads[3], reads[4])

\* Nothing that is named by a bridge is gone, and it was read as it was hashed.
LEMMA NamedIsRebuilt ==
    ASSUME NEW arch, NEW res, NEW n, NEW reads, ReadsKept(res, n, reads), Len(reads) = 4,
           NEW b, NEW x, Settled(reads, b), StandsFor(arch, res, x, b, reads),
           Gives(arch, reads, b)
    PROVE  /\ x = b
           /\ b.beforeResult = reads[1] /\ b.afterResult = reads[2]
<1>1. b.beforeResult = reads[3] /\ b.afterResult = reads[4]  BY DEF Gives, BridgeReport
<1>2. reads[1] = reads[3] /\ reads[2] = reads[4]  BY <1>1 DEF Settled
<1>3. Rebuilt(arch, b) = b  BY <1>1, <1>2 DEF Gives, Rebuilt
<1>4. ASSUME NEW side \in Sides,
             \A i \in 1..Len(reads) : ReadOrder[i] = side => reads[i] # Digest(b, side)
      PROVE  FALSE
  <2>1. CASE side = "before"
    <3>1. reads[3] # Digest(b, "before")  BY <1>4, <2>1, ReadSides
    <3> QED BY <1>1, <3>1 DEF Digest
  <2>2. CASE side = "after"
    <3>1. reads[4] # Digest(b, "after")  BY <1>4, <2>2, ReadSides
    <3> QED BY <1>1, <3>1 DEF Digest
  <2> QED BY <2>1, <2>2 DEF Sides
<1>5. x = b \/ x = Rebuilt(arch, b)  BY <1>4 DEF StandsFor
<1> QED BY <1>1, <1>2, <1>3, <1>5

\* The bridge that a successful retirement names tells of results that were compared.
LEMMA NamedCompares ==
    ASSUME IInv, NEW records, Retire(records)
    PROVE  /\ validator.named \in BridgeType
           /\ Compares(archive, Active, validator.after, validator.named)
<1> DEFINE n == Len(archive)
           b == validator.bridge
           reads == validator.reads
<1>1. /\ validator # None /\ Len(reads) = 4 /\ b = Built(validator)
      /\ Bridgeable(Active, validator.after, Parsed(validator, "before"), Parsed(validator, "after"))
  BY ReadSides DEF Retire, Recomputes, Bridges
<1>2. Validating  BY <1>1 DEF IInv, Commands
<1>3. validator.named # None
  <2> SUFFICES ASSUME validator.named = None PROVE FALSE
    OBVIOUS
  <2>1. reads = <<>>  BY <1>2 DEF Validating
  <2> QED BY <1>1, <2>1
<1>4. /\ ReadsKept(results, n, reads) /\ Settled(reads, b)
      /\ StandsFor(archive, results, validator.named, b, reads)
      /\ validator.named \in BridgeType
  BY <1>2, <1>3 DEF Validating
<1>5. /\ Parsed(validator, "before") = archive[reads[1]]
      /\ Parsed(validator, "after") = archive[reads[2]]
      /\ Gives(archive, reads, b)
  BY <1>1 DEF Built, Parsed, Hashed, Gives
<1>6. \A i \in 1..4 : reads[i] \in 1..n  BY <1>1, <1>4, BridgesRead
<1> HIDE DEF b, reads, n
<1>7. validator.named = b /\ b.beforeResult = reads[1] /\ b.afterResult = reads[2]
  <2>1. Len(reads) = 4  BY <1>1
  <2> QED BY <1>4, <1>5, <2>1, NamedIsRebuilt
<1>8. Compares(archive, Active, validator.after, b)
  <2>1. b.beforeResult \in 1..Len(archive) /\ b.afterResult \in 1..Len(archive)
    BY <1>6, <1>7 DEF n
  <2>2. Bridgeable(Active, validator.after, archive[reads[1]], archive[reads[2]])
    BY <1>1, <1>5
  <2> QED BY <1>7, <2>1, <2>2 DEF Compares
<1> QED BY <1>4, <1>7, <1>8

\* Every task that leaves the active set has a record that names its own source.
LEMMA RemovedRecorded ==
    ASSUME NEW records, NEW before, NEW after, RetirementAccepted(records, before, after),
           NEW t \in Identities(before) \ Identities(after)
    PROVE  \E r \in records : <<r.retired, r.digest, r.source>> = <<t[1], t[2], SourceOf[t]>>
<1>1. PICK id \in DOMAIN before.tasks : t = <<id, before.tasks[id]>>  BY DEF Identities
<1>2. id \in Removed(before, after)
  <2>1. ASSUME id \in DOMAIN after.tasks, after.tasks[id] = before.tasks[id] PROVE FALSE
    <3>1. t \in Identities(after)  BY <1>1, <2>1 DEF Identities
    <3> QED BY <3>1
  <2> QED BY <2>1 DEF Removed
<1>3. PICK r \in records : r.retired = id  BY <1>2 DEF RetirementAccepted, CoversRemoved
<1>4. <<r.retired, r.digest>> \in Identities(before) /\ r.source = SourceOf[<<r.retired, r.digest>>]
  BY DEF RetirementAccepted, RecordAccepted
<1>5. PICK other \in DOMAIN before.tasks :
        <<r.retired, r.digest>> = <<other, before.tasks[other]>>
  BY <1>4 DEF Identities
<1>6. r.digest = before.tasks[id]  BY <1>3, <1>5
<1>7. <<r.retired, r.digest>> = t  BY <1>1, <1>3, <1>6
<1> QED BY <1>1, <1>3, <1>4, <1>6, <1>7

\* What was published stays so, and what leaves now is published now.
LEMMA RetirePublishes ==
    ASSUME IInv, NEW records, Retire(records)
    PROVE  RemovedIsPublished'
<1> DEFINE k == Len(accepted) + 1
           after == validator.after
<1>1. /\ sets \in Seq(TaskSetType) /\ Len(sets) = k
      /\ accepted \in Seq([records: SUBSET Records, bridge: BridgeType]) /\ Len(accepted) \in Nat
  <2>1. Len(accepted) = Len(sets) - 1 /\ Len(sets) \in Nat  BY Histories DEF IInv, TypeOK
  <2> QED BY <2>1, Histories DEF IInv, TypeOK, Files
<1>2. /\ sets' = Append(sets, after)
      /\ accepted' = Append(accepted, [records |-> records, bridge |-> validator.named])
      /\ RetirementAccepted(records, Active, after)
  BY DEF Retire
<1>3. after \in TaskSetType  BY DEF Retire, IInv, Commands, Validating
<1> HIDE DEF after
<1>4. /\ Len(sets') = k + 1 /\ sets'[k + 1] = after
      /\ \A n \in 1..k : sets'[n] = sets[n]
  BY <1>1, <1>2, <1>3
<1>5. /\ Len(accepted') = k /\ accepted'[k].records = records
      /\ \A n \in 1..Len(accepted) : accepted'[n] = accepted[n]
  BY <1>1, <1>2
<1>6. Active' = after  BY <1>4 DEF Active
<1>7. ASSUME NEW n \in 1..k + 1, NEW t \in Identities(sets'[n]) \ Identities(after)
      PROVE  <<t[1], t[2], SourceOf[t]>> \in Published(n)'
  <2>1. n \in 1..k  BY <1>1, <1>4, <1>7
  <2>2. CASE t \in Identities(Active)
    <3>1. PICK r \in records :
            <<r.retired, r.digest, r.source>> = <<t[1], t[2], SourceOf[t]>>
      BY <1>2, <1>7, <2>2, RemovedRecorded
    <3>2. k \in n..Len(accepted')  BY <1>1, <1>5, <2>1
    <3> QED BY <1>5, <3>1, <3>2 DEF Published
  <2>3. CASE t \notin Identities(Active)
    <3>1. <<t[1], t[2], SourceOf[t]>> \in Published(n)
      BY <1>1, <1>4, <1>7, <2>1, <2>3 DEF IInv, RemovedIsPublished
    <3>2. PICK m \in n..Len(accepted) :
            <<t[1], t[2], SourceOf[t]>> \in {<<r.retired, r.digest, r.source>> : r \in accepted[m].records}
      BY <3>1 DEF Published
    <3>3. m \in n..Len(accepted') /\ accepted'[m] = accepted[m]  BY <1>1, <1>5, <2>1
    <3> QED BY <3>2, <3>3 DEF Published
  <2> QED BY <2>2, <2>3
<1> QED BY <1>4, <1>6, <1>7 DEF RemovedIsPublished

LEMMA RetireKeeps ==
    ASSUME IInv, NEW records \in Manifests, Retire(records)
    PROVE  IInv'
<1> DEFINE n == Len(archive)
           k == Len(accepted) + 1
           after == validator.after
           entry == [records |-> records, bridge |-> validator.named]
<1>1. /\ validator # None /\ validator' = None /\ proposed' = None
      /\ sets' = Append(sets, after) /\ accepted' = Append(accepted, entry)
      /\ results' = [before |-> results.after, after |-> 0]
      /\ UNCHANGED <<archive, bridge, writer>>
  BY DEF Retire
<1>2. /\ after \in TaskSetType /\ Len(sets) < MaxSets
  BY <1>1 DEF IInv, Commands, Validating, Files
<1>3. validator.named \in BridgeType /\ Compares(archive, Active, after, validator.named)
  BY NamedCompares
<1>4. /\ sets \in Seq(TaskSetType) /\ Len(sets) = k /\ Len(accepted) \in Nat /\ k \in Nat
      /\ accepted \in Seq([records: SUBSET Records, bridge: BridgeType])
  <2>1. Len(accepted) = Len(sets) - 1 /\ Len(sets) \in Nat /\ Len(accepted) \in Nat
    BY Histories DEF IInv, TypeOK
  <2> QED BY <2>1 DEF IInv, TypeOK, Files
<1>5. entry \in [records: SUBSET Records, bridge: BridgeType]  BY <1>3 DEF Manifests
<1>6. entry.bridge = validator.named  OBVIOUS
<1> HIDE DEF after, entry
<1>7. /\ sets' \in Seq(TaskSetType) /\ Len(sets') = k + 1 /\ sets'[k + 1] = after
      /\ \A i \in 1..k : sets'[i] = sets[i]
  BY <1>1, <1>2, <1>4
<1>8. /\ accepted' \in Seq([records: SUBSET Records, bridge: BridgeType])
      /\ Len(accepted') = k /\ accepted'[k] = entry
      /\ \A i \in 1..Len(accepted) : accepted'[i] = accepted[i]
  BY <1>1, <1>4, <1>5
<1>9. n \in Nat /\ results \in [Sides -> 0..n]
      /\ (results["after"] # 0 => results["before"] # results["after"])
  BY Histories DEF IInv, TypeOK, Files
<1>10. Later(results, n, results', n)  BY <1>1, <1>9, RetiredLater
<1>11. results' \in [Sides -> 0..n] /\ results'["after"] = 0
  <2>1. results["after"] \in 0..n /\ 0 \in 0..n  BY <1>9 DEF Sides
  <2> QED BY <1>1, <2>1 DEF Sides
<1>12. TypeOK'
  <2>1. Len(sets') \in 1..MaxSets
    BY <1>2, <1>4, <1>7, PublicationAssumption
  <2>2. Len(accepted') = Len(sets') - 1  BY <1>4, <1>7, <1>8
  <2> QED BY <1>1, <1>7, <1>11, <2>1, <2>2 DEF TypeOK
<1>13. Archived  BY <1>1, <1>9 DEF Archived
<1>14. Commands' /\ (bridge' # None => bridge' \in BridgeType /\ Met(results', Len(archive'), bridge'))
  BY <1>1, <1>10, <1>13, CommandsStay
<1>15. Files'  BY <1>1, <1>8, <1>11, <1>14 DEF IInv, Files
<1>16. ASSUME NEW i \in 1..k
       PROVE  Compares(archive, sets'[i], sets'[i + 1], accepted'[i].bridge)
  <2>1. CASE i = k
    <3>1. sets'[i] = Active /\ sets'[i + 1] = after /\ accepted'[i].bridge = validator.named
      BY <1>4, <1>6, <1>7, <1>8, <2>1 DEF Active
    <3> QED BY <1>3, <3>1 DEF after
  <2>2. CASE i # k
    <3>1. i \in 1..Len(accepted) /\ i + 1 \in 1..k  BY <1>4, <2>2
    <3>2. Compares(archive, sets[i], sets[i + 1], accepted[i].bridge)  BY <3>1 DEF IInv, Retired
    <3> QED BY <1>7, <1>8, <3>1, <3>2
  <2> QED BY <2>1, <2>2
<1>17. Retired'  BY <1>1, <1>8, <1>16 DEF Retired
<1>18. RemovedIsPublished'  BY RetirePublishes
<1> QED BY <1>12, <1>14, <1>15, <1>17, <1>18 DEF IInv

-----------------------------------------------------------------------------
(* The theorems. *)

\* The invariant holds at the start of every history.
LEMMA InitEstablishes == Init => IInv
<1> SUFFICES ASSUME Init PROVE IInv
  OBVIOUS
<1> USE DEF Init
<1>1. PICK s \in FirstSets : sets = <<s>>  OBVIOUS
<1>2. s \in TaskSetType  BY <1>1, PublicationAssumption
<1>3. sets \in Seq(TaskSetType) /\ Len(sets) = 1 /\ Active = s  BY <1>1, <1>2 DEF Active
<1>4. Len(archive) = 0 /\ Len(accepted) = 0 /\ results \in [Sides -> 0..0] /\ results["after"] = 0
  BY DEF Sides
<1>5. TypeOK  BY <1>3, <1>4, PublicationAssumption DEF TypeOK
<1>6. Files  BY <1>4 DEF Files
<1>7. Commands  BY DEF Commands
<1>8. Retired  BY <1>4 DEF Retired
<1>9. RemovedIsPublished
  <2>1. \A n \in 1..Len(sets) : sets[n] = Active  BY <1>1, <1>3
  <2> QED BY <2>1 DEF RemovedIsPublished
<1> QED BY <1>5, <1>6, <1>7, <1>8, <1>9 DEF IInv

\* Every step preserves it.
LEMMA NextPreserves == IInv /\ [Next]_vars => IInv'
<1> SUFFICES ASSUME IInv, [Next]_vars PROVE IInv'
  OBVIOUS
<1>1. ASSUME NEW s \in NextSets, Propose(s) PROVE IInv'  BY <1>1, ProposeKeeps
<1>2. ASSUME NEW side \in Sides, NEW campaign \in Campaigns, Evaluate(side, campaign) PROVE IInv'
  BY <1>2, EvaluateKeeps
<1>3. ASSUME StartBridge PROVE IInv'  BY <1>3, StartBridgeKeeps
<1>4. ASSUME BridgeReads PROVE IInv'  BY <1>4, BridgeReadsKeeps
<1>5. ASSUME WriteBridge PROVE IInv'  BY <1>5, WriteBridgeKeeps
<1>6. ASSUME ReadDocuments PROVE IInv'  BY <1>6, ReadDocumentsKeeps
<1>7. ASSUME HashBridge PROVE IInv'  BY <1>7, HashBridgeKeeps
<1>8. ASSUME ValidatorReads PROVE IInv'  BY <1>8, ValidatorReadsKeeps
<1>9. ASSUME NEW records \in Manifests, Retire(records) PROVE IInv'  BY <1>9, RetireKeeps
<1>10. ASSUME Raise PROVE IInv'  BY <1>10, RaiseKeeps
<1>11. ASSUME UNCHANGED vars PROVE IInv'
  <2>1. TypeOK' /\ Files' /\ Retired' /\ RemovedIsPublished'  BY <1>11, FilesStay DEF vars
  <2>2. Commands'
    BY <1>11 DEF vars, IInv, Commands, Writing, Validating
  <2> QED BY <2>1, <2>2 DEF IInv
<1> QED BY <1>1, <1>2, <1>3, <1>4, <1>5, <1>6, <1>7, <1>8, <1>9, <1>10, <1>11 DEF Next

\* In every history all of the invariant holds.
LEMMA Invariant == Spec => []IInv
BY InitEstablishes, NextPreserves, PTL DEF Spec

\* Every file, what a command holds of it, and every history has its type: whatever is
\* written between two reads of a command, it finds results that were written.
THEOREM TypeCorrect == Spec => []TypeOK
<1>1. IInv => TypeOK  BY DEF IInv
<1> QED BY Invariant, <1>1, PTL

\* Whatever the tasks and however long the history, a task that has left the active set
\* is published with the source of its own contract.
THEOREM RemovedPublished == Spec => []RemovedIsPublished
<1>1. IInv => RemovedIsPublished  BY DEF IInv
<1> QED BY Invariant, <1>1, PTL

\* Although results, bridge and proposal may be rewritten between any two reads of the
\* bridge and the retirement command, the results that an accepted retirement names are
\* comparable on the two sets.
THEOREM RetiredCompared == Spec => []RetiredIsCompared
<1>1. IInv => RetiredIsCompared
  BY DEF IInv, Retired, RetiredIsCompared, Compares
<1> QED BY Invariant, <1>1, PTL
=============================================================================
