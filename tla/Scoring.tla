------------------------------ MODULE Scoring ------------------------------
(***************************************************************************)
(* Server-side scoring with partial credit (src/src/scoring.js).           *)
(*                                                                         *)
(* One assessment: its items, their kinds, answer keys and points, and its *)
(* pass mark.  The module holds operators only; MCScoring checks them over *)
(* every small answer sheet, Attempts uses them in its submit and grade    *)
(* steps.                                                                  *)
(*                                                                         *)
(* Numbers.  Points are counted in ticks, one tick being the finest        *)
(* fraction of a point any item of the assessment can award, and scores in *)
(* hundredths of a percent, the precision the code rounds to.  The pass    *)
(* mark may be finer: it is counted in parts of a hundredth of a percent.  *)
(* The code computes in IEEE doubles; here the quotients are exact.        *)
(***************************************************************************)
EXTENDS Integers, Sequences, FiniteSets
LOCAL INSTANCE Functions      \* Range, SumFunction
LOCAL INSTANCE FiniteSetsExt  \* Max, Min

CONSTANTS
  Items,        \* the items of the assessment
  Kind,         \* [Items -> {"single", "multi", "constructed"}]
  Key,          \* [Items -> sequences of options], assessment_item.answer_key
  Points,       \* [Items -> ticks], assessment_item.points
  Fine,         \* the parts of a hundredth of a percent a pass mark may have
  PassPercent,  \* assessment.pass_percent, in those parts
  Grades,       \* the points that a grader can give
  NULL          \* SQL NULL, JavaScript null and undefined

(* createAssessment rejects a single or multi item without an answer key,  *)
(* an empty item list, points below 0.25 and a pass mark outside 1..100,   *)
(* which need not be whole, nor a whole number of hundredths; the grade    *)
(* call rejects points below 0, but none that exceed the item's.           *)
ASSUME AssessmentAssumption ==
  /\ IsFiniteSet(Items) /\ Items # {}
  /\ Kind \in [Items -> {"single", "multi", "constructed"}]
  /\ DOMAIN Key = Items
  /\ \A i \in Items : Key[i] \in Seq(Range(Key[i]))
  /\ \A i \in Items : Kind[i] # "constructed" => Len(Key[i]) > 0
  /\ Points \in [Items -> Nat \ {0}]
  /\ Fine \in Nat \ {0}
  /\ PassPercent \in (100 * Fine)..(10000 * Fine)
  /\ Grades \subseteq Nat
  /\ NULL \notin Nat /\ NULL \notin BOOLEAN

(* What makes a tick fine enough: the share of one key option is whole.    *)
ASSUME TickAssumption ==
  \A i \in Items :
    Kind[i] = "multi" => Points[i] % Cardinality(Range(Key[i])) = 0

-----------------------------------------------------------------------------
(* scoreItem.  A response is the sequence of picked options; a response    *)
(* that is not an array is the sequence of that one value.                 *)

(* single: the first picked option decides, all or nothing.                *)
SinglePoints(i, response) ==
  IF response # <<>> /\ response[1] = Key[i][1] THEN Points[i] ELSE 0

(* Mutant: counts the picks instead of the set of picked options.          *)
MultiPointsByPick(i, response) ==
  LET keySet  == Range(Key[i])
      correct == Cardinality({n \in DOMAIN response : response[n] \in keySet})
  IN  (Max({0, 2 * correct - Len(response)}) * Points[i]) \div Cardinality(keySet)

(* multi: the SETS of picked and of key options are compared, each wrong   *)
(* pick cancels a correct one, never below zero.                           *)
MultiPoints(i, response) ==
  LET keySet  == Range(Key[i])
      picked  == Range(response)
      correct == Cardinality(picked \cap keySet)
      wrong   == Cardinality(picked \ keySet)
  IN  (Max({0, correct - wrong}) * Points[i]) \div Cardinality(keySet)

(* Mutant: a grade above the item's points is thrown away.                 *)
GradePointsRejected(i, grade) == IF grade > Points[i] THEN 0 ELSE grade

(* constructed: the grader's points, capped at the item's.                 *)
GradePoints(i, grade) == Min({grade, Points[i]})

(* What an item is worth in scoreAttempt.  "sheet" maps every item to its  *)
(* response or NULL, "manual" to the points a grader gave it or NULL: an   *)
(* unanswered item earns 0 whatever its kind and whatever a grader says,   *)
(* an answered constructed item has no points before it is graded.         *)
Awarded(i, sheet, manual) ==
  CASE sheet[i] = NULL           -> 0
    [] sheet[i] # NULL /\ Kind[i] = "single" -> SinglePoints(i, sheet[i])
    [] sheet[i] # NULL /\ Kind[i] = "multi"  -> MultiPoints(i, sheet[i])
    [] OTHER -> IF manual[i] = NULL THEN NULL ELSE GradePoints(i, manual[i])

(* Mutant: truncates.                                                      *)
TruncatedPercent(earned, possible) == (earned * 10000) \div possible

(* Math.round(x * 100) / 100 of a quotient in percent: half rounds up.     *)
RoundedPercent(earned, possible) ==
  (2 * earned * 10000 + possible) \div (2 * possible)

(* The items that still wait for a grader.                                 *)
Ungraded(sheet, manual) == {i \in Items : Awarded(i, sheet, manual) = NULL}

(* Awarded points with the items that wait for a grader counting nothing.  *)
EarnedBy(sheet, manual) ==
  [i \in Items |-> IF i \in Ungraded(sheet, manual)
                   THEN 0 ELSE Awarded(i, sheet, manual)]

ScorePercent(sheet, manual) ==
  RoundedPercent(SumFunction(EarnedBy(sheet, manual)), SumFunction(Points))

(* Mutant: what was earned is compared with the mark before it is rounded. *)
ExactVerdict(sheet, manual) ==
  IF Ungraded(sheet, manual) # {}
  THEN NULL
  ELSE SumFunction(EarnedBy(sheet, manual)) * 10000 * Fine
         >= SumFunction(Points) * PassPercent

(* The rounded score against the pass mark as it was given.                *)
Reaches(score) == score * Fine >= PassPercent

(* passed: undecided while an item waits for a grader.                     *)
Verdict(sheet, manual) ==
  IF Ungraded(sheet, manual) # {}
  THEN NULL
  ELSE Reaches(ScorePercent(sheet, manual))

(* scoreAttempt; score_percent is stored only when nothing waits.          *)
ScoreAttempt(sheet, manual) ==
  [needsGrading |-> Ungraded(sheet, manual) # {},
   passed       |-> Verdict(sheet, manual),
   score        |-> IF Ungraded(sheet, manual) # {}
                    THEN NULL ELSE ScorePercent(sheet, manual),
   perItem      |-> [i \in Items |-> Awarded(i, sheet, manual)]]
=============================================================================
