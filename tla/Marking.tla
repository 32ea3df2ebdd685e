------------------------------ MODULE Marking ------------------------------
(***************************************************************************)
(* What scoring.js makes of every answer sheet: the sheet is filled in     *)
(* pick by pick and its constructed items are graded, again and again, so  *)
(* that what ONE more pick or ONE other grade may do to a score is an      *)
(* action property.  The bodies are those that routes.js accepts.          *)
(***************************************************************************)
EXTENDS Scoring
LOCAL INSTANCE Functions  \* Range, SumFunction

CONSTANTS
  Options,   \* what can be picked
  MaxPicks   \* bound: [Items -> the picks of an item]

ASSUME MarkingAssumption ==
  /\ NULL \notin Seq(Options)
  /\ MaxPicks \in [Items -> Nat]

VARIABLES
  filled,   \* the answers so far
  graded    \* the grades so far
markVars == <<filled, graded>>

MarkInit ==
  /\ filled = [i \in Items |-> NULL]
  /\ graded = [i \in Items |-> NULL]

Blank(i) ==
  /\ filled[i] = NULL
  /\ filled' = [filled EXCEPT ![i] = <<>>]
  /\ UNCHANGED graded

(* What a constructed answer says is never looked at: it stays blank.      *)
Pick(i, o) ==
  /\ Kind[i] # "constructed"
  /\ filled[i] # NULL /\ Len(filled[i]) < MaxPicks[i]
  /\ filled' = [filled EXCEPT ![i] = Append(@, o)]
  /\ UNCHANGED graded

Grade(i, g) ==
  /\ graded' = [graded EXCEPT ![i] = g]
  /\ UNCHANGED filled

MarkNext ==
  \E i \in Items :
    \/ Blank(i)
    \/ \E o \in Options : Pick(i, o)
    \/ \E g \in Grades : Kind[i] = "constructed" /\ Grade(i, g)

MarkSpec == MarkInit /\ [][MarkNext]_markVars

-----------------------------------------------------------------------------
result == ScoreAttempt(filled, graded)

(* What the awards add up to and could have added up to, before rounding.  *)
earned   == SumFunction([i \in Items |-> IF result.perItem[i] = NULL
                                         THEN 0 ELSE result.perItem[i]])
possible == SumFunction(Points)

(* Is it a percentage, and the exact one to the nearest hundredth?         *)
PercentEarned(score) ==
  /\ score \in 0..10000
  /\ 2 * (score * possible - earned * 10000) <= possible
  /\ 2 * (earned * 10000 - score * possible) <= possible

(* No sheet and no grade scores outside 0..100 %: wrong picks never go     *)
(* below zero, a grader's points never exceed the item's (scoring.js:18,   *)
(* 38), and the stored score is the exact quotient to the nearest          *)
(* hundredth of a percent (scoring.js:47).                                 *)
ScoreInRange ==
  result.score # NULL => PercentEarned(result.score)

(* The hundredths of a percent that reach the pass mark.                   *)
PassHundredths == (PassPercent + Fine - 1) \div Fine

(* The exact percentage is less than half a hundredth below these, or      *)
(* above, and it is further below.                                         *)
AboveMark == 2 * earned * 10000 > (2 * PassHundredths - 1) * possible
BelowMark == 2 * earned * 10000 < (2 * PassHundredths - 1) * possible

(* The verdict compares the ROUNDED percent with the pass mark             *)
(* (scoring.js:47-50).  A sheet short of the mark by less than half a      *)
(* hundredth passes, and none that is short by more does; a mark between   *)
(* two hundredths acts as the upper one, so that a sheet above such a mark *)
(* fails when it rounds below it.                                          *)
PassMarkHonoured ==
  result.passed # NULL =>
    /\ AboveMark => result.passed
    /\ BelowMark => ~ result.passed

(* One more pick (scoring.js:9-20).  Single: only the first pick counts.   *)
(* Multi: repeating a pick changes nothing, a wrong option never helps, a  *)
(* key option never hurts.                                                 *)
PickEffect(i, o) ==
  LET before == Awarded(i, filled, graded)
      after  == Awarded(i, filled', graded')
  IN  /\ Kind[i] = "single" /\ filled[i] # <<>> => after = before
      /\ Kind[i] = "multi" /\ o \in Range(filled[i]) => after = before
      /\ Kind[i] = "multi" /\ o \notin Range(Key[i]) => after <= before
      /\ Kind[i] = "multi" /\ o \in Range(Key[i]) => after >= before

PicksAreMonotone ==
  [][\A i \in Items, o \in Options : Pick(i, o) => PickEffect(i, o)]_markVars

(* A higher grade never lowers a decided score and never turns a pass into *)
(* a fail; a verdict, once reached, is not undone by grading again         *)
(* (scoring.js:36-51).                                                     *)
GradesAreMonotone ==
  [][\A i \in Items, g \in Grades :
       /\ Grade(i, g)
       /\ graded[i] # NULL /\ g >= graded[i]
       /\ result.passed # NULL
       => /\ result'.passed # NULL
          /\ result'.score >= result.score
          /\ result.passed => result'.passed]_markVars
=============================================================================
