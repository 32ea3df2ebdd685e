------------------------------ MODULE Progress ------------------------------
(***************************************************************************)
(* A course's lessons, a learner's progress through them, and the start of *)
(* the exam that the progress unlocks (src/src/routes.js).                 *)
(*                                                                         *)
(* Progress is never stored: recomputeProgress counts in one statement and *)
(* lists the completed lessons in the next, and READ COMMITTED gives each  *)
(* its own snapshot.  POST /v1/attempts decides on that count and on a     *)
(* count of the attempts before it inserts.  Every statement between which *)
(* another transaction can commit is a step of its own:                    *)
(*                                                                         *)
(*   complete   BeginComplete -> RecordCompletion -> CountLessons          *)
(*                            -> ListLessons -> CommitReply                *)
(*   get        BeginGet -> CountLessons -> ListLessons -> CommitReply     *)
(*   start      BeginStart -> CountLessons -> ListLessons                  *)
(*                            -> CountAttempts -> InsertAttempt            *)
(*                                                                         *)
(* One course with one published assessment.  No call publishes, retires   *)
(* or deletes a lesson: it has the status it was created with.             *)
(***************************************************************************)
EXTENDS Integers, FiniteSets

CONSTANTS
  Reqs,         \* slots for concurrent requests, each used again and again
  Lessons,      \* bound: the lessons that can be added to the course
  Enrollments,  \* enrollments of learners in the course
  AttemptIds,   \* bound: the attempts that can be started
  MaxAttempts,  \* assessment.max_attempts, NULL: no limit
  NULL

ASSUME ProgressAssumption ==
  /\ IsFiniteSet(Lessons) /\ IsFiniteSet(AttemptIds) /\ IsFiniteSet(Reqs)
  /\ NULL \notin Nat /\ NULL \notin Lessons /\ NULL \notin Enrollments
  /\ NULL \notin {"draft", "published"}
  /\ MaxAttempts \in (Nat \ {0}) \cup {NULL}

VARIABLES
  status,    \* lesson rows: their status, NULL: not added
  done,      \* committed lesson_progress rows of each enrollment
  enrolled,  \* enrollment rows
  attempt,   \* attempt rows: enrollment and, as history, the lessons that unlocked it
  pc,        \* where each request stands
  call,      \* what it was called for: get, complete or start
  on,        \* its enrollment
  lesson,    \* the lesson a complete call records
  total,     \* lessons_total as counted
  completed, \* lessons_completed as counted
  ids,       \* completed_lesson_ids as listed
  unlocking, \* history: the published lessons when they were counted
  raced      \* history: enrollments on which two start calls ever overlapped

rows == <<status, done, enrolled, attempt>>
args == <<call, on, lesson>>
reads == <<total, completed, ids, unlocking>>
vars == <<rows, pc, args, reads, raced>>

-----------------------------------------------------------------------------
Calls == {"get", "complete", "start"}

AttemptRow == [enrollment : Enrollments, unlockedBy : SUBSET Lessons]

ASSUME RowAssumption == NULL \notin AttemptRow

Published == {l \in Lessons : status[l] = "published"}

(* The foreign keys, and that only published lessons are ever completed.   *)
RowsConsistent ==
  /\ \A e \in Enrollments : done[e] # {} => e \in enrolled /\ done[e] \subseteq Published
  /\ \A a \in AttemptIds : attempt[a] # NULL => attempt[a].enrollment \in enrolled

(* A request in mid-handler holds what its steps need.                     *)
CallConsistent(r) ==
  /\ on[r] \in enrolled
  /\ pc[r] \in {"count", "list"} => call[r] \in Calls
  /\ pc[r] = "record" => call[r] = "complete"
  /\ pc[r] = "reply" => call[r] \in {"get", "complete"}
  /\ pc[r] \in {"cap", "insert"} => call[r] = "start"
  /\ call[r] = "complete" => lesson[r] \in Published

TypeOK ==
  /\ status \in [Lessons -> {"draft", "published", NULL}]
  /\ done \in [Enrollments -> SUBSET Lessons]
  /\ enrolled \subseteq Enrollments
  /\ attempt \in [AttemptIds -> AttemptRow \cup {NULL}]
  /\ pc \in [Reqs -> {"idle", "record", "count", "list", "reply", "cap", "insert"}]
  /\ call \in [Reqs -> Calls \cup {NULL}]
  /\ on \in [Reqs -> Enrollments \cup {NULL}]
  /\ lesson \in [Reqs -> Lessons \cup {NULL}]
  /\ total \in [Reqs -> Nat]
  /\ completed \in [Reqs -> Nat]
  /\ ids \in [Reqs -> SUBSET Lessons]
  /\ unlocking \in [Reqs -> SUBSET Lessons]
  /\ raced \subseteq Enrollments
  /\ RowsConsistent
  /\ \A r \in Reqs : pc[r] # "idle" => CallConsistent(r)

Init ==
  /\ status = [l \in Lessons |-> NULL]
  /\ done = [e \in Enrollments |-> {}]
  /\ enrolled = {}
  /\ attempt = [a \in AttemptIds |-> NULL]
  /\ pc = [r \in Reqs |-> "idle"]
  /\ call = [r \in Reqs |-> NULL]
  /\ on = [r \in Reqs |-> NULL]
  /\ lesson = [r \in Reqs |-> NULL]
  /\ total = [r \in Reqs |-> 0]
  /\ completed = [r \in Reqs |-> 0]
  /\ ids = [r \in Reqs |-> {}]
  /\ unlocking = [r \in Reqs |-> {}]
  /\ raced = {}

Begin(r, where, c, e, l) ==
  /\ pc[r] = "idle"
  /\ pc' = [pc EXCEPT ![r] = where]
  /\ call' = [call EXCEPT ![r] = c]
  /\ on' = [on EXCEPT ![r] = e]
  /\ lesson' = [lesson EXCEPT ![r] = l]
  /\ UNCHANGED <<rows, reads>>

Continue(r, where) == pc' = [pc EXCEPT ![r] = where] /\ UNCHANGED <<args, raced>>

(* COMMIT or ROLLBACK: the slot is free again.                             *)
End(r) ==
  /\ pc' = [pc EXCEPT ![r] = "idle"]
  /\ call' = [call EXCEPT ![r] = NULL]
  /\ on' = [on EXCEPT ![r] = NULL]
  /\ lesson' = [lesson EXCEPT ![r] = NULL]
  /\ total' = [total EXCEPT ![r] = 0]
  /\ completed' = [completed EXCEPT ![r] = 0]
  /\ ids' = [ids EXCEPT ![r] = {}]
  /\ unlocking' = [unlocking EXCEPT ![r] = {}]
  /\ UNCHANGED raced

-----------------------------------------------------------------------------
(* POST /v1/courses/:id/lessons and POST /v1/enrollments                   *)

AddLesson(l, s) ==
  /\ status[l] = NULL
  /\ status' = [status EXCEPT ![l] = s]
  /\ UNCHANGED <<done, enrolled, attempt, pc, args, reads, raced>>

(* An upsert: enrolling again finds the same row.                          *)
Enroll(e) ==
  /\ enrolled' = enrolled \cup {e}
  /\ UNCHANGED <<status, done, attempt, pc, args, reads, raced>>

-----------------------------------------------------------------------------
(* POST /v1/enrollments/:id/lessons/:lessonId/complete                     *)

(* 404 without the enrollment, 422 for a draft; recorded in the next step. *)
BeginComplete(r, e, l) ==
  /\ e \in enrolled /\ l \in Published
  /\ Begin(r, "record", "complete", e, l)
  /\ UNCHANGED raced

(* The row a transaction has inserted and not committed, if the lesson was *)
(* not yet completed: while it is uncommitted nobody else can commit it.   *)
Inserted(r) ==
  IF call[r] = "complete" /\ pc[r] \in {"count", "list", "reply"}
  THEN {lesson[r]} \ done[on[r]] ELSE {}

(* INSERT ... ON CONFLICT DO NOTHING waits for a transaction that has      *)
(* inserted the same row.                                                  *)
RecordCompletion(r) ==
  /\ pc[r] = "record"
  /\ \A q \in Reqs : on[q] = on[r] => lesson[r] \notin Inserted(q)
  /\ Continue(r, "count")
  /\ UNCHANGED <<rows, reads>>

-----------------------------------------------------------------------------
(* recomputeProgress                                                       *)

BeginGet(r, e) ==
  /\ e \in enrolled
  /\ Begin(r, "count", "get", e, NULL)
  /\ UNCHANGED raced

(* Mutant: the transaction's own INSERT does not count yet.                *)
VisibleBefore(r) == done[on[r]]

(* The progress rows a statement of r sees: committed ones and its own.    *)
Visible(r) == done[on[r]] \cup Inserted(r)

(* Both counts are subqueries of one statement, hence of one snapshot.     *)
CountLessons(r) ==
  /\ pc[r] = "count"
  /\ total' = [total EXCEPT ![r] = Cardinality(Published)]
  /\ completed' = [completed EXCEPT ![r] = Cardinality(Visible(r) \cap Published)]
  /\ unlocking' = [unlocking EXCEPT ![r] = Published]
  /\ Continue(r, "list")
  /\ UNCHANGED <<rows, ids>>

(* Mutant: a course without lessons is complete.                           *)
CompleteWhenEmpty(r) == completed[r] >= total[r]

(* progress.complete                                                       *)
Complete(r) == total[r] > 0 /\ completed[r] >= total[r]

(* The list is read later; a start call goes on only if the course is      *)
(* complete by the counts, and is refused otherwise.                       *)
ListLessons(r) ==
  /\ pc[r] = "list"
  /\ UNCHANGED rows
  /\ \/ /\ call[r] # "start" \/ Complete(r)
        /\ ids' = [ids EXCEPT ![r] = Visible(r) \cap Published]
        /\ Continue(r, IF call[r] = "start" THEN "cap" ELSE "reply")
        /\ UNCHANGED <<total, completed, unlocking>>
     \/ call[r] = "start" /\ ~ Complete(r) /\ End(r)

(* COMMIT, then the reply with the progress as read.                       *)
CommitReply(r) ==
  /\ pc[r] = "reply"
  /\ done' = [done EXCEPT ![on[r]] = @ \cup Inserted(r)]
  /\ End(r)
  /\ UNCHANGED <<status, enrolled, attempt>>

-----------------------------------------------------------------------------
(* POST /v1/attempts                                                       *)

Starting(e) ==
  \E q \in Reqs : call[q] = "start" /\ pc[q] # "idle" /\ on[q] = e

BeginStart(r, e) ==
  /\ e \in enrolled
  /\ Begin(r, "count", "start", e, NULL)
  /\ raced' = IF Starting(e) THEN raced \cup {e} ELSE raced

AttemptsOf(e) == {a \in AttemptIds : attempt[a] # NULL /\ attempt[a].enrollment = e}

(* Mutant: off by one.                                                     *)
BelowCapOrAt(n) == MaxAttempts = NULL \/ n <= MaxAttempts

(* max_attempts null: no limit.                                            *)
BelowCap(n) == IF MaxAttempts = NULL THEN TRUE ELSE n < MaxAttempts

CountAttempts(r) ==
  /\ pc[r] = "cap"
  /\ UNCHANGED rows
  /\ \/ /\ BelowCap(Cardinality(AttemptsOf(on[r])))
        /\ Continue(r, "insert")
        /\ UNCHANGED reads
     \/ ~ BelowCap(Cardinality(AttemptsOf(on[r]))) /\ End(r)

(* INSERT and COMMIT; no constraint counts the attempts again.             *)
InsertAttempt(r) ==
  /\ pc[r] = "insert"
  /\ \E a \in AttemptIds :
       /\ attempt[a] = NULL
       /\ attempt' = [attempt EXCEPT ![a] =
                        [enrollment |-> on[r], unlockedBy |-> unlocking[r]]]
  /\ End(r)
  /\ UNCHANGED <<status, done, enrolled>>

-----------------------------------------------------------------------------
(* A statement fails or the process dies: the transaction rolls back.      *)
Abort(r) ==
  /\ pc[r] # "idle"
  /\ End(r)
  /\ UNCHANGED rows

Next ==
  \/ \E l \in Lessons, s \in {"draft", "published"} : AddLesson(l, s)
  \/ \E e \in Enrollments : Enroll(e)
  \/ \E r \in Reqs :
       \/ \E e \in Enrollments :
            \/ \E l \in Lessons : BeginComplete(r, e, l)
            \/ BeginGet(r, e)
            \/ BeginStart(r, e)
       \/ RecordCompletion(r) \/ CountLessons(r) \/ ListLessons(r) \/ CommitReply(r)
       \/ CountAttempts(r) \/ InsertAttempt(r)
       \/ Abort(r)

Spec == Init /\ [][Next]_vars

-----------------------------------------------------------------------------
(* Properties.                                                             *)

(* A progress reply may mix two snapshots, but never contradicts itself    *)
(* the wrong way round: no more lessons completed than there are, none     *)
(* counted that the list lacks, and the lesson just completed is in both   *)
(* (routes.js:200-223, 512-517).                                           *)
ProgressCoherent ==
  \A r \in Reqs : pc[r] = "reply" =>
    /\ completed[r] <= total[r]
    /\ completed[r] <= Cardinality(ids[r])
    /\ call[r] = "complete" => lesson[r] \in ids[r] /\ completed[r] > 0

(* Every attempt was unlocked by a course that had lessons, all of which   *)
(* the learner had completed, as the server computed from its own rows     *)
(* (routes.js:524, 538-542); lessons added later do not count.             *)
ExamUnlockedByCompletion ==
  \A a \in AttemptIds : attempt[a] # NULL =>
    /\ attempt[a].unlockedBy # {}
    /\ attempt[a].unlockedBy \subseteq done[attempt[a].enrollment]

(* "Maximum attempts reached for this assessment." (routes.js:548): no     *)
(* enrollment has more attempts than that, unless two start calls on it    *)
(* overlapped: both count before either inserts.                           *)
MaxAttemptsUnlessRaced ==
  \A e \in Enrollments \ raced :
    MaxAttempts # NULL => Cardinality(AttemptsOf(e)) <= MaxAttempts

-----------------------------------------------------------------------------
(* What makes the properties inductive.                                    *)

(* What a request has read, since it counted: the lessons it counted are   *)
(* still published, those it counted as completed still are, and a start   *)
(* call that goes on found all of them completed.                          *)
ReadsOK ==
  \A r \in Reqs :
    /\ pc[r] \in {"list", "cap", "insert", "reply"} =>
         /\ unlocking[r] \subseteq Published
         /\ total[r] = Cardinality(unlocking[r])
         /\ completed[r] <= Cardinality(Visible(r) \cap unlocking[r])
         /\ call[r] = "complete" => completed[r] > 0
    /\ pc[r] \in {"cap", "insert"} =>
         unlocking[r] # {} /\ unlocking[r] \subseteq done[on[r]]

(* Without an overlap there is one start call at most on an enrollment,    *)
(* and one that is about to insert still has room.                         *)
LoneStart ==
  \A e \in Enrollments \ raced :
    /\ \A r, q \in Reqs :
         /\ pc[r] # "idle" /\ call[r] = "start" /\ on[r] = e
         /\ pc[q] # "idle" /\ call[q] = "start" /\ on[q] = e
         => r = q
    /\ \A r \in Reqs :
         pc[r] = "insert" /\ on[r] = e => BelowCap(Cardinality(AttemptsOf(e)))
=============================================================================
