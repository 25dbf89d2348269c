----------------------------- MODULE Aggregate -----------------------------
(***************************************************************************)
(* The scores of src/src/slopbench/release.py (_aggregate), in basis       *)
(* points: integers, rounded down.  A vector of trials is a function from  *)
(* any set of slots, the (task, pair index) pairs, to RawTrialOutcomes: the *)
(* verdict of a bundle, and the calibration of a review.                   *)
(*                                                                         *)
(* Cost, duration and the budget derived from them are left out.           *)
(***************************************************************************)
EXTENDS Results, FiniteSets

CONSTANTS
    BehaviorGate,       \* GateName.REQUESTED_BEHAVIOR
    GateWeights,        \* ProfileDefinition.gate_weights
    ReviewWeights,      \* ProfileDefinition.review_quality_weights, or NoWeights
    QualityWeight       \* ProfileDefinition.quality_weight, out of 100

NoWeights == <<>>
NoCalibration == <<>>

\* ReviewCalibration, as far as it is scored, and the verdict of the same score file.
CalibrationType ==
    {c \in [true_positives: Nat, category_matches: Nat, severity_matches: Nat,
            passed: BOOLEAN] :
        c.category_matches <= c.true_positives /\ c.severity_matches <= c.true_positives}

ReviewWeightsType ==
    {w \in [detection: Nat, category: Nat, severity: Nat] :
        w.detection + w.category + w.severity = 100}

ReliabilityWeight == 100 - QualityWeight

\* contracts.py: GateName is an enumeration.
ASSUME ProfileAssumption ==
    /\ IsFiniteSet(Gates) /\ BehaviorGate \in Gates
    /\ GateWeights \in [Gates -> Nat]
    /\ \E g \in Gates : GateWeights[g] > 0
    /\ QualityWeight \in 0..100
    /\ ReviewWeights = NoWeights \/ ReviewWeights \in ReviewWeightsType

Full == 10000

Trials(vector, classifications) ==
    {s \in DOMAIN vector : vector[s].verdict.classification \in classifications}

ReliableTrials(vector) == Trials(vector, Attributable)

PassedTrials(vector) == Trials(vector, {"valid_pass"})

\* The (trial, gate) pairs of a set of trials whose gate has one of these states.
GatesIn(vector, trials, states) ==
    {pair \in trials \X Gates : vector[pair[1]].verdict.outcomes[pair[2]] \in states}

\* Every pair as many times as its gate weighs.
Units(pairs) == UNION {{pair} \X (1..GateWeights[pair[2]]) : pair \in pairs}

\* The sum of the weights, counted out.
Weigh(pairs) == Cardinality(Units(pairs))

Matches(c) ==
    ReviewWeights.detection * c.true_positives
        + ReviewWeights.category * c.category_matches
        + ReviewWeights.severity * c.severity_matches

\* Mutant: the matches are not divided by the defects found.
ReviewQualityOfAll(c) ==
    IF ReviewWeights = NoWeights \/ c = NoCalibration THEN Full ELSE Matches(c) * 100

\* _passed_gate_quality_bps of the requested-behaviour gate.
ReviewQuality(c) ==
    IF ReviewWeights = NoWeights \/ c = NoCalibration THEN Full
    ELSE IF c.true_positives = 0 THEN Full
    ELSE (Matches(c) * 100) \div c.true_positives

GateQuality(vector, pair) ==
    IF pair[2] = BehaviorGate THEN ReviewQuality(vector[pair[1]].calibration) ELSE Full

\* The passed gates that do not count in full, all of them of reviews.
Discounted(vector, passed) == {pair \in passed : GateQuality(vector, pair) # Full}

\* Every pair as many times as it has basis points.
Points(vector, pairs) == UNION {{pair} \X (1..GateQuality(vector, pair)) : pair \in pairs}

\* The sum of weight and quality over passed gates.
Worth(vector, passed) ==
    LET less == Discounted(vector, passed)
    IN  Full * Weigh(passed \ less)
            + GateWeights[BehaviorGate] * Cardinality(Points(vector, less))

\* Mutant: the passed gates of excluded trials count too.
QualityCountsExcluded(vector) ==
    LET judged == Weigh(GatesIn(vector, ReliableTrials(vector), {"passed", "failed"}))
    IN  IF judged = 0 THEN 0
        ELSE Worth(vector, GatesIn(vector, DOMAIN vector, {"passed"})) \div judged

Quality(vector) ==
    LET trials == ReliableTrials(vector)
        judged == Weigh(GatesIn(vector, trials, {"passed", "failed"}))
    IN  IF judged = 0 THEN 0
        ELSE Worth(vector, GatesIn(vector, trials, {"passed"})) \div judged

\* Mutant: excluded trials are in the denominator.
ReliabilityOverAll(vector) ==
    (Full * Cardinality(PassedTrials(vector))) \div Cardinality(DOMAIN vector)

Reliability(vector) ==
    IF ReliableTrials(vector) = {} THEN 0
    ELSE (Full * Cardinality(PassedTrials(vector))) \div Cardinality(ReliableTrials(vector))

\* Mutant: the weights are not taken for percentages.
SelectionUnweighted(vector) == Quality(vector) + Reliability(vector)

Selection(vector) ==
    (Quality(vector) * QualityWeight + Reliability(vector) * ReliabilityWeight) \div 100
=============================================================================
