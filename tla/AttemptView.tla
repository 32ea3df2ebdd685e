----------------------------- MODULE AttemptView -----------------------------
(***************************************************************************)
(* GET /v1/attempts/:id of src/src/routes.js, next to the requests of      *)
(* Attempts.tla: it reads the attempt in one statement and its items in    *)
(* another, each with a snapshot of its own, and answers with both.        *)
(***************************************************************************)
EXTENDS Attempts
LOCAL INSTANCE Functions  \* SumFunction

VARIABLE view  \* a GET under way: of which attempt, and what it has read

viewVars == <<vars, view>>

NoView == [of |-> NULL, row |-> NULL, items |-> NULL]

(* The items, LEFT JOIN their answers.                                     *)
ItemsOf(a) ==
  [i \in Items |-> [answered |-> sheet[a][i] # NULL,
                    points |-> IF sheet[a][i] = NULL THEN NULL ELSE awarded[a][i]]]

(* Mutant: the items are read first.                                       *)
StatementSwapped(n, v) ==
  IF n = 2 THEN [v EXCEPT !.row = attempt[v.of]] ELSE [v EXCEPT !.items = ItemsOf(v.of)]

(* What the n-th statement adds to v.                                      *)
Statement(n, v) ==
  IF n = 1 THEN [v EXCEPT !.row = attempt[v.of]] ELSE [v EXCEPT !.items = ItemsOf(v.of)]

ViewInit == Init /\ view = NoView

BeginView(a) ==
  /\ view = NoView
  /\ view' = Statement(1, [NoView EXCEPT !.of = a])

(* What it answers, should its second statement run now.                   *)
Reply == Statement(2, view)

(* That statement runs and the answer goes out, or it fails.               *)
EndView == view # NoView /\ view' = NoView

ViewNext ==
  \/ Next /\ UNCHANGED view
  \/ ((\E a \in AttemptIds : BeginView(a)) \/ EndView) /\ UNCHANGED vars

ViewSpec == ViewInit /\ [][ViewNext]_viewVars

-----------------------------------------------------------------------------
(* Properties.                                                             *)

(* An answer that says "scored" shows the points that the score was made   *)
(* of, although they were read later: every answered item has its points,  *)
(* and they add up to score_percent (routes.js:598-612), unless an answers *)
(* call overlapped the submit or two scoring calls overlapped.  Of other   *)
(* answers no such thing holds: "in_progress" may stand beside points.     *)
ViewAddsUp ==
  /\ view # NoView /\ Reply.row.status = "scored"
  /\ raced[view.of] \cap {"answering", "scoring"} = {}
  => /\ \A i \in Items : Reply.items[i].answered => Reply.items[i].points # NULL
     /\ Reply.row.score =
          RoundedPercent(
            SumFunction([i \in Items |-> IF Reply.items[i].answered
                                         THEN Reply.items[i].points ELSE 0]),
            SumFunction(Points))

-----------------------------------------------------------------------------
(* What makes it inductive: a scored attempt stays as the GET has seen it. *)
ViewCurrent ==
  view # NoView =>
    /\ view.of \in AttemptIds
    /\ view = [of |-> view.of, row |-> view.row, items |-> NULL]
    /\ /\ view.row.status = "scored"
       /\ raced[view.of] \cap {"answering", "scoring"} = {}
       => view.row = attempt[view.of]
=============================================================================
