----------------------------- MODULE MCScoring -----------------------------
(***************************************************************************)
(* Marking checked over every answer sheet of a single, a multi and a      *)
(* constructed item with at most MaxPicks picks, and every grade a grader  *)
(* may give.                                                               *)
(***************************************************************************)
EXTENDS Marking, TLC

CONSTANTS
  s, m, k,      \* a single, a multi and a constructed item
  a, b, c       \* the options

MCItems  == {s, m, k}
MCKind   == s :> "single" @@ m :> "multi" @@ k :> "constructed"
MCKey    == s :> <<a>> @@ m :> <<a, b>> @@ k :> <<>>
MCPoints == [i \in {s, m, k} |-> 2]
MCOptions == {a, b, c}
MCGrades == 0..3

(* Two picks of a single item tell the first from the rest, three of a     *)
(* multi item are right, wrong and repeated.                               *)
MCMaxPicks == s :> 2 @@ m :> 3 @@ k :> 3
=============================================================================
