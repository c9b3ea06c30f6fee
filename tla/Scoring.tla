------------------------------ MODULE Scoring ------------------------------
(***************************************************************************)
(* The compliance score of an inspection: Evaluate in                      *)
(* modules/workflow-action/scoring.go, on an answer sheet that is filled   *)
(* in and corrected question by question.                                  *)
(*                                                                         *)
(* The code's float64 sums are exact rationals here, numerator over        *)
(* denominator; its 1e-9 before the floor makes up for binary rounding and *)
(* moves no score whose denominator is small.                              *)
(***************************************************************************)
EXTENDS Integers, FiniteSetsExt

CONSTANTS
    Section, Question,
    SectionOf,      \* [Question -> Section]
    MaxPoints,      \* [Question -> Nat]: ScoredQuestion.MaxPoints
    Weight,         \* [Section -> Nat]: ScoredSection.Weight, in thousandths
    NotScored,      \* questions of type TEXT_NOTE or EVIDENCE_ATTACHMENT
    MaxEarned       \* bound on EarnedPoints

ScoringAssumption ==
    /\ SectionOf \in [Question -> Section] /\ MaxPoints \in [Question -> Nat]
    /\ Weight \in [Section -> Nat] /\ NotScored \subseteq Question

VARIABLE sheet   \* [Question -> Answer]

\* ScoredQuestion: what the request says of one answer.  EarnedPoints comes with the
\* request and is not held against MaxPoints.
Answer == [state : {"SCORED", "NA", "UNKNOWN"}, earned : 0 .. MaxEarned,
           critical : BOOLEAN, excluded : BOOLEAN]

PassingThresholdBasisPoints == 8000
MaximumBasisPoints == 10000

-----------------------------------------------------------------------------
\* Deliberate faults, used only to show that the properties can fail.
RoundHalfUp_Down(num, den) == num \div den
Outcome_ScoreFirst(s, bps) ==
    IF bps >= PassingThresholdBasisPoints THEN "PASS" ELSE "FAIL"
-----------------------------------------------------------------------------

\* The questions whose points are in a section's TotalMaxPoints.
Scored(s, q) == ~s[q].excluded /\ q \notin NotScored

\* The questions in a section's EffectiveDenominator: answered, not NA and not
\* quarantined as UNKNOWN.
Counted(s, q) == Scored(s, q) /\ s[q].state = "SCORED"

CountedIn(s, sec) == {q \in Question : SectionOf[q] = sec /\ Counted(s, q)}

EffectiveDenominator(s, sec) == MapThenSumSet(LAMBDA q : MaxPoints[q], CountedIn(s, sec))

EarnedPoints(s, sec) == MapThenSumSet(LAMBDA q : s[q].earned, CountedIn(s, sec))

Active(s, sec) == EffectiveDenominator(s, sec) > 0

ActiveSections(s) == {sec \in Section : Active(s, sec)}

\* activeWeightSum, the denominator of the redistributed weights.
ActiveWeightSum(s) == MapThenSumSet(LAMBDA sec : Weight[sec], ActiveSections(s))

\* The denominators of the sections' ratios, multiplied.
CommonDenominator(s) ==
    FoldSet(LAMBDA sec, acc : acc * EffectiveDenominator(s, sec), 1, ActiveSections(s))

\* rawWeightedScore * MaximumBasisPoints, over ActiveWeightSum * CommonDenominator.
RawNumerator(s) ==
    MaximumBasisPoints *
    MapThenSumSet(LAMBDA sec : Weight[sec] * EarnedPoints(s, sec)
                               * (CommonDenominator(s) \div EffectiveDenominator(s, sec)),
                  ActiveSections(s))

\* R1_ROUND_HALF_UP: floor(num/den + 1/2).
RoundHalfUp(num, den) == (2 * num + den) \div (2 * den)

\* With no active weight every contribution is zero; the result is clamped.
BasisPoints(s) ==
    LET den == ActiveWeightSum(s) * CommonDenominator(s)
        bps == IF den = 0 THEN 0 ELSE RoundHalfUp(RawNumerator(s), den)
    IN  IF bps > MaximumBasisPoints THEN MaximumBasisPoints ELSE bps

\* A critical mark counts on every question, excluded ones included.
HasCriticalFail(s) == \E q \in Question : s[q].critical

HasUnknown(s) == \E q \in Question : Scored(s, q) /\ s[q].state = "UNKNOWN"

Outcome(s, bps) ==
    CASE HasCriticalFail(s) -> "NON_COMPLIANT_CRITICAL"
      [] ~HasCriticalFail(s) /\ HasUnknown(s) -> "PROVISIONAL_PENDING_UNKNOWN_RESOLUTION"
      [] OTHER -> IF bps >= PassingThresholdBasisPoints THEN "PASS" ELSE "FAIL"

\* Evaluate refuses weights that do not sum to 1.0 within 0.001.
WeightsValid ==
    LET sum == MapThenSumSet(LAMBDA sec : Weight[sec], Section) IN sum \in 999 .. 1001

TypeOK == sheet \in [Question -> Answer]

Init == /\ WeightsValid
        /\ sheet = [q \in Question |-> [state |-> "UNKNOWN", earned |-> 0,
                                        critical |-> FALSE, excluded |-> FALSE]]

\* An answer is given or corrected before the next evaluation (external: the caller
\* of Evaluate builds the request).
Respond(q, answer) == sheet' = [sheet EXCEPT ![q] = answer]

Next == \E q \in Question, answer \in Answer : Respond(q, answer)

Spec == Init /\ [][Next]_sheet

-----------------------------------------------------------------------------
\* BasisPoints is a mean of the active sections' ratios: it lies between the lowest
\* and the highest of them to the nearest basis point, whatever is NA, UNKNOWN or
\* excluded, so weight taken from inactive sections is neither lost nor counted
\* twice.  Over-credited sheets are capped at 100%.
ScoreIsMean ==
    LET b == BasisPoints(sheet)
        weighing == {sec \in ActiveSections(sheet) : Weight[sec] > 0}
    IN  IF weighing = {} THEN b = 0
        ELSE /\ \E lo \in weighing :
                   \/ b = MaximumBasisPoints
                   \/ 2 * MaximumBasisPoints * EarnedPoints(sheet, lo)
                      < (2 * b + 1) * EffectiveDenominator(sheet, lo)
             /\ \E hi \in weighing :
                   2 * MaximumBasisPoints * EarnedPoints(sheet, hi)
                   >= (2 * b - 1) * EffectiveDenominator(sheet, hi)

\* Fewer earned points never raise the score, and neither they nor an UNKNOWN answer
\* nor a critical mark turn another outcome into PASS.
FailureNeverHelps ==
    [][\A q \in Question :
          /\ sheet'[q].earned < sheet[q].earned
          /\ sheet' = [sheet EXCEPT ![q].earned = sheet'[q].earned,
                                    ![q].state = IF sheet'[q].state = "UNKNOWN"
                                                 THEN "UNKNOWN" ELSE @,
                                    ![q].critical = @ \/ sheet'[q].critical]
          => /\ sheet'[q].state = sheet[q].state => BasisPoints(sheet') <= BasisPoints(sheet)
             /\ Outcome(sheet, BasisPoints(sheet)) # "PASS"
                => Outcome(sheet', BasisPoints(sheet')) # "PASS"]_sheet
=============================================================================
