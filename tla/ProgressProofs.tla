--------------------------- MODULE ProgressProofs ---------------------------
(***************************************************************************)
(* What Progress guarantees for every number of lessons, enrollments,      *)
(* attempts and concurrent requests, and every attempt cap.                *)
(***************************************************************************)
EXTENDS Progress, FiniteSetTheorems, TLAPS

(* Counting a finite set and its subsets.                                  *)
LEMMA SubsetCount ==
  ASSUME NEW S, IsFiniteSet(S), NEW T \in SUBSET S
  PROVE  /\ IsFiniteSet(T)
         /\ Cardinality(T) \in Nat /\ Cardinality(S) \in Nat
         /\ Cardinality(T) <= Cardinality(S)
         /\ Cardinality(T) >= Cardinality(S) => T = S
  BY FS_Subset, FS_CardinalityType

LEMMA LessonCount ==
  ASSUME NEW S \in SUBSET Lessons
  PROVE  IsFiniteSet(S) /\ Cardinality(S) \in Nat /\ (Cardinality(S) = 0 <=> S = {})
  BY ProgressAssumption, SubsetCount, FS_EmptySet

-----------------------------------------------------------------------------
(* Type correctness.                                                       *)

LEMMA InitTypeOK == Init => TypeOK
  BY DEF Init, TypeOK, RowsConsistent

LEMMA BeginTypeOK ==
  ASSUME TypeOK, NEW r \in Reqs, NEW where, NEW c, NEW e \in enrolled, NEW l,
         Begin(r, where, c, e, l), raced' \subseteq Enrollments,
         \/ where = "record" /\ c = "complete" /\ l \in Published
         \/ where = "count" /\ c \in {"get", "start"} /\ l = NULL
  PROVE  TypeOK'
<1>1. RowsConsistent'
  BY DEF TypeOK, RowsConsistent, Published, Begin, rows
<1>2. \A q \in Reqs : pc'[q] # "idle" => CallConsistent(q)'
  BY DEF TypeOK, CallConsistent, Calls, Published, Begin, rows
<1> QED
  BY <1>1, <1>2 DEF TypeOK, Begin, rows, reads, Calls, Published

(* The end of a request keeps every other request.                         *)
LEMMA EndRequests ==
  ASSUME TypeOK, NEW r \in Reqs, End(r), UNCHANGED <<status, enrolled>>
  PROVE  /\ \A q \in Reqs : pc'[q] # "idle" => CallConsistent(q)'
         /\ pc' \in [Reqs -> {"idle", "record", "count", "list", "reply", "cap", "insert"}]
         /\ call' \in [Reqs -> Calls \cup {NULL}]
         /\ on' \in [Reqs -> Enrollments \cup {NULL}]
         /\ lesson' \in [Reqs -> Lessons \cup {NULL}]
         /\ total' \in [Reqs -> Nat]
         /\ completed' \in [Reqs -> Nat]
         /\ ids' \in [Reqs -> SUBSET Lessons]
         /\ unlocking' \in [Reqs -> SUBSET Lessons]
         /\ raced' \subseteq Enrollments
<1>1. \A q \in Reqs : pc'[q] # "idle" => CallConsistent(q)'
  BY DEF TypeOK, CallConsistent, Published, End
<1> QED
  BY <1>1 DEF TypeOK, End

LEMMA ContinueTypeOK ==
  ASSUME TypeOK, NEW r \in Reqs, UNCHANGED rows,
         NEW where \in {"count", "list", "cap", "reply", "insert"}, Continue(r, where),
         pc[r] # "idle",
         where \in {"count", "list"} => call[r] \in Calls,
         where = "reply" => call[r] \in {"get", "complete"},
         where \in {"cap", "insert"} => call[r] = "start",
         total' \in [Reqs -> Nat], completed' \in [Reqs -> Nat],
         ids' \in [Reqs -> SUBSET Lessons], unlocking' \in [Reqs -> SUBSET Lessons]
  PROVE  TypeOK'
<1>1. RowsConsistent'
  BY DEF TypeOK, RowsConsistent, Published, rows
<1>2. \A q \in Reqs : pc'[q] # "idle" => CallConsistent(q)'
  BY DEF TypeOK, CallConsistent, Published, rows, Continue, args
<1> QED
  BY <1>1, <1>2 DEF TypeOK, rows, Continue, args

(* What a transaction sees are lessons of the course.                      *)
LEMMA VisibleLessons ==
  ASSUME TypeOK, NEW r \in Reqs, pc[r] # "idle"
  PROVE  Visible(r) \subseteq Lessons /\ Inserted(r) \subseteq Published
  BY DEF TypeOK, CallConsistent, Visible, Inserted, Published

LEMMA TypeStep == TypeOK /\ [Next]_vars => TypeOK'
<1> SUFFICES ASSUME TypeOK, [Next]_vars PROVE TypeOK'
  OBVIOUS
<1>1. ASSUME NEW l \in Lessons, NEW s \in {"draft", "published"}, AddLesson(l, s)
      PROVE  TypeOK'
  <2>1. Published \subseteq Published'
    BY <1>1, ProgressAssumption DEF AddLesson, Published, TypeOK
  <2>2. \A q \in Reqs : pc'[q] # "idle" => CallConsistent(q)'
    BY <1>1, <2>1 DEF AddLesson, args, TypeOK, CallConsistent
  <2>3. RowsConsistent'
    BY <1>1, <2>1 DEF AddLesson, TypeOK, RowsConsistent
  <2> QED
    BY <1>1, <2>2, <2>3 DEF AddLesson, args, reads, TypeOK
<1>2. ASSUME NEW e \in Enrollments, Enroll(e)
      PROVE  TypeOK'
  <2>1. \A q \in Reqs : pc'[q] # "idle" => CallConsistent(q)'
    BY <1>2 DEF Enroll, args, TypeOK, CallConsistent, Published
  <2>2. RowsConsistent'
    BY <1>2 DEF Enroll, TypeOK, RowsConsistent, Published
  <2> QED
    BY <1>2, <2>1, <2>2 DEF Enroll, args, reads, TypeOK
<1>3. ASSUME NEW r \in Reqs, NEW e \in Enrollments, NEW l \in Lessons, BeginComplete(r, e, l)
      PROVE  TypeOK'
  BY <1>3, BeginTypeOK DEF BeginComplete, TypeOK
<1>4. ASSUME NEW r \in Reqs, NEW e \in Enrollments, BeginGet(r, e)
      PROVE  TypeOK'
  BY <1>4, BeginTypeOK DEF BeginGet, TypeOK
<1>5. ASSUME NEW r \in Reqs, NEW e \in Enrollments, BeginStart(r, e)
      PROVE  TypeOK'
  BY <1>5, BeginTypeOK DEF BeginStart, TypeOK
<1>6. ASSUME NEW r \in Reqs, RecordCompletion(r)
      PROVE  TypeOK'
  <2>1. call[r] \in Calls
    BY <1>6 DEF RecordCompletion, TypeOK, CallConsistent, Calls
  <2> QED
    BY <1>6, <2>1, ContinueTypeOK DEF RecordCompletion, reads, TypeOK
<1>7. ASSUME NEW r \in Reqs, CountLessons(r)
      PROVE  TypeOK'
  <2>1. Published \in SUBSET Lessons /\ Visible(r) \cap Published \in SUBSET Lessons
    BY DEF Published
  <2>2. Cardinality(Published) \in Nat /\ Cardinality(Visible(r) \cap Published) \in Nat
    BY <2>1, LessonCount
  <2>3. call[r] \in Calls
    BY <1>7 DEF CountLessons, TypeOK, CallConsistent
  <2> QED
    BY <1>7, <2>1, <2>2, <2>3, ContinueTypeOK DEF CountLessons, TypeOK
<1>8. ASSUME NEW r \in Reqs, ListLessons(r)
      PROVE  TypeOK'
  <2>1. call[r] \in Calls /\ pc[r] # "idle" /\ Visible(r) \cap Published \in SUBSET Lessons
    BY <1>8 DEF ListLessons, TypeOK, CallConsistent, Published
  <2>2. CASE End(r)
    <3>1. RowsConsistent'
      BY <1>8 DEF ListLessons, rows, TypeOK, RowsConsistent, Published
    <3> QED
      BY <1>8, <2>2, <3>1, EndRequests DEF ListLessons, rows, TypeOK
  <2>3. CASE call[r] = "start" /\ Continue(r, "cap") /\ ~ End(r)
    BY <1>8, <2>1, <2>3, ContinueTypeOK DEF ListLessons, TypeOK
  <2>4. CASE call[r] # "start" /\ Continue(r, "reply") /\ ~ End(r)
    BY <1>8, <2>1, <2>4, ContinueTypeOK DEF ListLessons, TypeOK, Calls
  <2> QED
    BY <1>8, <2>2, <2>3, <2>4 DEF ListLessons
<1>9. ASSUME NEW r \in Reqs, CommitReply(r)
      PROVE  TypeOK'
  <2>1. /\ on[r] \in enrolled /\ Inserted(r) \subseteq Published
        /\ done' = [done EXCEPT ![on[r]] = @ \cup Inserted(r)]
        /\ End(r) /\ UNCHANGED <<status, enrolled, attempt>>
    BY <1>9, VisibleLessons DEF CommitReply, TypeOK, CallConsistent
  <2>2. done' \in [Enrollments -> SUBSET Lessons]
    BY <2>1 DEF TypeOK, Published
  <2>3. RowsConsistent'
    BY <2>1 DEF TypeOK, RowsConsistent, Published
  <2> QED
    BY <2>1, <2>2, <2>3, EndRequests DEF TypeOK
<1>10. ASSUME NEW r \in Reqs, CountAttempts(r)
       PROVE  TypeOK'
  <2>1. call[r] = "start" /\ UNCHANGED rows
    BY <1>10 DEF CountAttempts, TypeOK, CallConsistent
  <2>2. CASE Continue(r, "insert") /\ UNCHANGED reads
    BY <1>10, <2>1, <2>2, ContinueTypeOK DEF CountAttempts, reads, TypeOK
  <2>3. CASE End(r)
    <3>1. RowsConsistent'
      BY <2>1 DEF rows, TypeOK, RowsConsistent, Published
    <3> QED
      BY <2>1, <2>3, <3>1, EndRequests DEF rows, TypeOK
  <2> QED
    BY <1>10, <2>2, <2>3 DEF CountAttempts
<1>11. ASSUME NEW r \in Reqs, InsertAttempt(r)
       PROVE  TypeOK'
  <2>1. /\ on[r] \in enrolled /\ on[r] \in Enrollments /\ unlocking[r] \in SUBSET Lessons
        /\ End(r) /\ UNCHANGED <<status, done, enrolled>>
    BY <1>11 DEF InsertAttempt, TypeOK, CallConsistent
  <2>2. PICK a \in AttemptIds :
          attempt' = [attempt EXCEPT ![a] =
                        [enrollment |-> on[r], unlockedBy |-> unlocking[r]]]
    BY <1>11 DEF InsertAttempt
  <2>3. attempt' \in [AttemptIds -> AttemptRow \cup {NULL}]
    BY <2>1, <2>2 DEF TypeOK, AttemptRow
  <2>4. RowsConsistent'
    BY <2>1, <2>2 DEF TypeOK, RowsConsistent, Published
  <2> QED
    BY <2>1, <2>3, <2>4, EndRequests DEF TypeOK
<1>12. ASSUME NEW r \in Reqs, Abort(r)
       PROVE  TypeOK'
  <2>1. RowsConsistent'
    BY <1>12 DEF Abort, rows, TypeOK, RowsConsistent, Published
  <2> QED
    BY <1>12, <2>1, EndRequests DEF Abort, rows, TypeOK
<1>13. CASE UNCHANGED vars
  BY <1>13 DEF vars, rows, args, reads, TypeOK, RowsConsistent, CallConsistent, Published
<1> QED
  BY <1>1, <1>2, <1>3, <1>4, <1>5, <1>6, <1>7, <1>8, <1>9, <1>10, <1>11, <1>12, <1>13
     DEF Next

(* Every reachable state is well typed; only published lessons are ever    *)
(* completed, and only by enrolled learners.                               *)
THEOREM TypeCorrect == Spec => []TypeOK
<1> QED
  BY InitTypeOK, TypeStep, PTL DEF Spec

-----------------------------------------------------------------------------
(* Steps.                                                                  *)

(* Lessons stay published and completions stay recorded.                   *)
LEMMA RowsGrow ==
  ASSUME TypeOK, [Next]_vars
  PROVE  /\ Published \subseteq Published'
         /\ \A e \in Enrollments : done[e] \subseteq done'[e]
<1>1. Published \subseteq Published'
  <2>1. ASSUME NEW l \in Lessons, NEW s, AddLesson(l, s)
        PROVE  Published \subseteq Published'
    BY <2>1, ProgressAssumption DEF AddLesson, Published, TypeOK
  <2>2. CASE UNCHANGED status
    BY <2>2 DEF Published
  <2> QED
    BY <2>1, <2>2
       DEF Next, vars, rows, Enroll, BeginComplete, BeginGet, BeginStart, Begin,
           RecordCompletion, CountLessons, ListLessons, CommitReply, CountAttempts,
           InsertAttempt, Abort
<1>2. ASSUME NEW e \in Enrollments
      PROVE  done[e] \subseteq done'[e]
  <2>1. ASSUME NEW r \in Reqs, CommitReply(r)
        PROVE  done[e] \subseteq done'[e]
    BY <2>1 DEF CommitReply, TypeOK
  <2>2. CASE UNCHANGED done
    BY <2>2
  <2> QED
    BY <2>1, <2>2
       DEF Next, vars, rows, AddLesson, Enroll, BeginComplete, BeginGet, BeginStart, Begin,
           RecordCompletion, CountLessons, ListLessons, CountAttempts,
           InsertAttempt, Abort
<1> QED
  BY <1>1, <1>2

(* Nothing of the request r changes.                                       *)
Still(r) ==
  /\ pc'[r] = pc[r] /\ call'[r] = call[r] /\ on'[r] = on[r] /\ lesson'[r] = lesson[r]
  /\ total'[r] = total[r] /\ completed'[r] = completed[r]
  /\ ids'[r] = ids[r] /\ unlocking'[r] = unlocking[r]

(* Where a request that has counted comes from.                            *)
LEMMA RequestStep ==
  ASSUME TypeOK, [Next]_vars, NEW r \in Reqs,
         pc'[r] \in {"list", "cap", "insert", "reply"}
  PROVE  \/ CountLessons(r) /\ pc'[r] = "list"
         \/ ListLessons(r) /\ pc'[r] \in {"cap", "reply"}
         \/ CountAttempts(r) /\ pc'[r] = "insert"
         \/ Still(r)
<1> DEFINE Goal ==
      \/ CountLessons(r) /\ pc'[r] = "list"
      \/ ListLessons(r) /\ pc'[r] \in {"cap", "reply"}
      \/ CountAttempts(r) /\ pc'[r] = "insert"
      \/ Still(r)
<1>1. ASSUME NEW q \in Reqs, NEW where \in {"record", "count"}, NEW c, NEW e, NEW l,
             Begin(q, where, c, e, l)
      PROVE  Goal
  BY <1>1 DEF Begin, reads, Still, TypeOK
<1>2. ASSUME NEW q \in Reqs, End(q)
      PROVE  Goal
  BY <1>2 DEF End, Still, TypeOK
<1>3. ASSUME NEW q \in Reqs, RecordCompletion(q)
      PROVE  Goal
  BY <1>3 DEF RecordCompletion, Continue, args, reads, Still, TypeOK
<1>4. ASSUME NEW q \in Reqs, CountLessons(q)
      PROVE  Goal
  <2>1. CASE q = r
    BY <1>4, <2>1 DEF CountLessons, Continue, TypeOK
  <2>2. CASE q # r
    BY <1>4, <2>2 DEF CountLessons, Continue, args, Still, TypeOK
  <2> QED
    BY <2>1, <2>2
<1>5. ASSUME NEW q \in Reqs, ListLessons(q), ~ End(q)
      PROVE  Goal
  <2>1. CASE q = r
    BY <1>5, <2>1 DEF ListLessons, Continue, TypeOK
  <2>2. CASE q # r
    BY <1>5, <2>2 DEF ListLessons, Continue, args, Still, TypeOK
  <2> QED
    BY <2>1, <2>2
<1>6. ASSUME NEW q \in Reqs, CountAttempts(q), ~ End(q)
      PROVE  Goal
  <2>1. CASE q = r
    BY <1>6, <2>1 DEF CountAttempts, Continue, TypeOK
  <2>2. CASE q # r
    BY <1>6, <2>2 DEF CountAttempts, Continue, args, reads, Still, TypeOK
  <2> QED
    BY <2>1, <2>2
<1>7. CASE UNCHANGED <<pc, args, reads>>
  BY <1>7 DEF args, reads, Still
<1> QED
  BY <1>1, <1>2, <1>3, <1>4, <1>5, <1>6, <1>7
     DEF Next, vars, AddLesson, Enroll, BeginComplete, BeginGet, BeginStart,
         CommitReply, InsertAttempt, Abort

-----------------------------------------------------------------------------
(* What requests have read.                                                *)

LEMMA ReadsStep == TypeOK /\ ReadsOK /\ [Next]_vars => ReadsOK'
<1> DEFINE Counted(r) ==
      /\ unlocking[r] \subseteq Published
      /\ total[r] = Cardinality(unlocking[r])
      /\ completed[r] <= Cardinality(Visible(r) \cap unlocking[r])
      /\ call[r] = "complete" => completed[r] > 0
    Unlocked(r) == unlocking[r] # {} /\ unlocking[r] \subseteq done[on[r]]
<1> SUFFICES ASSUME TypeOK, ReadsOK, [Next]_vars, NEW r \in Reqs,
                    pc'[r] \in {"list", "cap", "insert", "reply"}
             PROVE  Counted(r)' /\ (pc'[r] \in {"cap", "insert"} => Unlocked(r)')
  BY DEF ReadsOK
<1>1. CASE CountLessons(r) /\ pc'[r] = "list"
  <2>1. /\ unlocking'[r] = Published /\ total'[r] = Cardinality(Published)
        /\ completed'[r] = Cardinality(Visible(r) \cap Published)
        /\ UNCHANGED <<rows, args>> /\ pc[r] = "count"
    BY <1>1 DEF CountLessons, Continue, TypeOK
  <2>2. Visible(r)' = Visible(r) /\ Published' = Published
    BY <1>1, <2>1 DEF Visible, Inserted, Published, rows, args
  <2>3. Cardinality(Visible(r) \cap Published) \in Nat
    BY LessonCount DEF Published
  <2>4. call[r] = "complete" => Cardinality(Visible(r) \cap Published) > 0
    <3>1. call[r] = "complete" => lesson[r] \in Visible(r) \cap Published
      BY <2>1 DEF TypeOK, CallConsistent, Visible, Inserted
    <3>2. Visible(r) \cap Published \in SUBSET Lessons
      BY DEF Published
    <3> QED
      BY <2>3, <3>1, <3>2, LessonCount
  <2>5. call'[r] = call[r]
    BY <2>1 DEF args
  <2> QED
    BY <1>1, <2>1, <2>2, <2>3, <2>4, <2>5
<1>2. CASE ListLessons(r) /\ pc'[r] \in {"cap", "reply"}
  <2>1. /\ pc[r] = "list" /\ Counted(r)
        /\ call[r] # "start" \/ Complete(r)
        /\ call[r] = "start" <=> pc'[r] = "cap"
        /\ UNCHANGED <<rows, args, total, completed, unlocking>>
    BY <1>2 DEF ListLessons, Continue, End, ReadsOK, TypeOK
  <2>2. Visible(r)' = Visible(r) /\ Published' = Published /\ done' = done
    BY <1>2, <2>1 DEF Visible, Inserted, Published, rows, args, TypeOK, CallConsistent, Calls
  <2>3. Counted(r)'
    BY <2>1, <2>2 DEF args
  <2>4. pc'[r] = "cap" => Unlocked(r)
    <3> SUFFICES ASSUME pc'[r] = "cap" PROVE Unlocked(r)
      OBVIOUS
    <3>1. Visible(r) = done[on[r]]
      BY <2>1 DEF Visible, Inserted
    <3>2. unlocking[r] \in SUBSET Lessons /\ total[r] \in Nat /\ completed[r] \in Nat
      BY DEF TypeOK
    <3>3. IsFiniteSet(unlocking[r])
      BY <3>2, LessonCount
    <3>4. Cardinality(Visible(r) \cap unlocking[r]) >= Cardinality(unlocking[r])
      <4>1. Cardinality(Visible(r) \cap unlocking[r]) \in Nat
        BY <3>3, SubsetCount
      <4> QED
        BY <2>1, <3>2, <4>1 DEF Complete
    <3>5. Visible(r) \cap unlocking[r] = unlocking[r]
      BY <3>3, <3>4, SubsetCount
    <3>6. unlocking[r] # {}
      BY <2>1, <3>2, LessonCount DEF Complete
    <3> QED
      BY <3>1, <3>5, <3>6
  <2> QED
    BY <1>2, <2>1, <2>2, <2>3, <2>4 DEF args
<1>3. CASE CountAttempts(r) /\ pc'[r] = "insert"
  <2>1. /\ pc[r] = "cap" /\ Counted(r) /\ Unlocked(r) /\ call[r] = "start"
        /\ UNCHANGED <<rows, args, reads>>
    BY <1>3 DEF CountAttempts, Continue, End, ReadsOK, TypeOK, CallConsistent
  <2>2. Visible(r)' = Visible(r) /\ Published' = Published /\ done' = done
    BY <1>3, <2>1 DEF Visible, Inserted, Published, rows, args
  <2> QED
    BY <2>1, <2>2 DEF args, reads
<1>4. CASE Still(r)
  <2>1. Counted(r) /\ (pc[r] \in {"cap", "insert"} => Unlocked(r))
    BY <1>4 DEF Still, ReadsOK
  <2>2. on[r] \in Enrollments
    BY <1>4 DEF Still, TypeOK, CallConsistent
  <2>3. Published \subseteq Published' /\ done[on[r]] \subseteq done'[on[r]]
    BY <2>2, RowsGrow
  <2>4. Visible(r) \subseteq Visible(r)'
    BY <1>4, <2>2, <2>3 DEF Still, Visible, Inserted
  <2>5. unlocking[r] \in SUBSET Lessons /\ completed[r] \in Nat
    BY DEF TypeOK
  <2>6. Cardinality(Visible(r) \cap unlocking[r]) <= Cardinality(Visible(r)' \cap unlocking[r])
    BY <2>4, <2>5, LessonCount, SubsetCount
  <2>7. /\ Cardinality(Visible(r) \cap unlocking[r]) \in Nat
        /\ Cardinality(Visible(r)' \cap unlocking[r]) \in Nat
    BY <2>5, LessonCount
  <2> QED
    BY <1>4, <2>1, <2>3, <2>5, <2>6, <2>7 DEF Still
<1> QED
  BY <1>1, <1>2, <1>3, <1>4, RequestStep

(* A progress reply never contradicts itself the wrong way round, although *)
(* its count and its list come from two snapshots.                         *)
THEOREM RepliesAreCoherent == Spec => []ProgressCoherent
<1>1. Init => ReadsOK /\ ProgressCoherent
  BY DEF Init, ReadsOK, ProgressCoherent
<1>2. TypeOK /\ ReadsOK /\ ProgressCoherent /\ [Next]_vars => ProgressCoherent'
  <2> SUFFICES ASSUME TypeOK, ReadsOK, ProgressCoherent, [Next]_vars,
                      NEW r \in Reqs, pc'[r] = "reply"
               PROVE  /\ completed'[r] <= total'[r]
                      /\ completed'[r] <= Cardinality(ids'[r])
                      /\ call'[r] = "complete" => lesson'[r] \in ids'[r] /\ completed'[r] > 0
    BY DEF ProgressCoherent
  <2>1. CASE ListLessons(r)
    <3>1. /\ pc[r] = "list" /\ ids'[r] = Visible(r) \cap Published
          /\ UNCHANGED <<args, total, completed>>
      BY <2>1 DEF ListLessons, Continue, End, TypeOK
    <3>2. /\ unlocking[r] \subseteq Published
          /\ total[r] = Cardinality(unlocking[r])
          /\ completed[r] <= Cardinality(Visible(r) \cap unlocking[r])
          /\ call[r] = "complete" => completed[r] > 0
      BY <3>1 DEF ReadsOK
    <3>3. /\ unlocking[r] \in SUBSET Lessons /\ completed[r] \in Nat
          /\ Visible(r) \cap Published \in SUBSET Lessons
      BY DEF TypeOK, Published
    <3>4. /\ Cardinality(Visible(r) \cap unlocking[r]) <= Cardinality(unlocking[r])
          /\ Cardinality(Visible(r) \cap unlocking[r]) \in Nat
          /\ Cardinality(unlocking[r]) \in Nat
      BY <3>3, LessonCount, SubsetCount
    <3>5. /\ Cardinality(Visible(r) \cap unlocking[r]) <= Cardinality(Visible(r) \cap Published)
          /\ Cardinality(Visible(r) \cap Published) \in Nat
      BY <3>2, <3>3, LessonCount, SubsetCount
    <3>6. call[r] = "complete" => lesson[r] \in Visible(r) \cap Published
      BY <3>1 DEF TypeOK, CallConsistent, Visible, Inserted
    <3> QED
      BY <3>1, <3>2, <3>3, <3>4, <3>5, <3>6 DEF args
  <2>2. CASE Still(r)
    BY <2>2 DEF Still, ProgressCoherent
  <2> QED
    BY <2>1, <2>2, RequestStep
<1> QED
  BY <1>1, <1>2, InitTypeOK, TypeStep, ReadsStep, PTL DEF Spec

(* No attempt exists whose learner had not completed every lesson that was *)
(* published when the server counted, nor one in a course without lessons. *)
THEOREM ExamsAreUnlocked == Spec => []ExamUnlockedByCompletion
<1>1. Init => ReadsOK /\ ExamUnlockedByCompletion
  BY DEF Init, ReadsOK, ExamUnlockedByCompletion
<1>2. TypeOK /\ ReadsOK /\ ExamUnlockedByCompletion /\ [Next]_vars
        => ExamUnlockedByCompletion'
  <2> SUFFICES ASSUME TypeOK, ReadsOK, ExamUnlockedByCompletion, [Next]_vars,
                      NEW a \in AttemptIds, attempt'[a] # NULL
               PROVE  /\ attempt'[a].unlockedBy # {}
                      /\ attempt'[a].unlockedBy \subseteq done'[attempt'[a].enrollment]
    BY DEF ExamUnlockedByCompletion
  <2>1. CASE attempt'[a] = attempt[a]
    <3>1. attempt[a].enrollment \in Enrollments
      BY <2>1 DEF TypeOK, RowsConsistent
    <3> QED
      BY <2>1, <3>1, RowsGrow DEF ExamUnlockedByCompletion
  <2>2. ASSUME NEW r \in Reqs, InsertAttempt(r), attempt'[a] # attempt[a]
        PROVE  /\ attempt'[a].unlockedBy # {}
               /\ attempt'[a].unlockedBy \subseteq done'[attempt'[a].enrollment]
    <3>1. attempt'[a] = [enrollment |-> on[r], unlockedBy |-> unlocking[r]]
      BY <2>2 DEF InsertAttempt, TypeOK
    <3>2. attempt'[a].enrollment = on[r] /\ attempt'[a].unlockedBy = unlocking[r]
      BY <3>1
    <3>3. unlocking[r] # {} /\ unlocking[r] \subseteq done[on[r]] /\ done' = done
      BY <2>2 DEF InsertAttempt, ReadsOK
    <3> QED
      BY <3>2, <3>3
  <2> QED
    BY <2>1, <2>2
       DEF Next, vars, rows, AddLesson, Enroll, BeginComplete, BeginGet, BeginStart, Begin,
           RecordCompletion, CountLessons, ListLessons, CommitReply, CountAttempts, Abort
<1> QED
  BY <1>1, <1>2, InitTypeOK, TypeStep, ReadsStep, PTL DEF Spec

-----------------------------------------------------------------------------
(* The attempt cap.                                                        *)

(* What a step does to the attempts of an enrollment.                      *)
LEMMA AttemptsChange ==
  ASSUME TypeOK, [Next]_vars, NEW e \in Enrollments
  PROVE  \/ AttemptsOf(e)' = AttemptsOf(e)
         \/ \E r \in Reqs : /\ InsertAttempt(r) /\ on[r] = e
                            /\ \E a \in AttemptIds : AttemptsOf(e)' = AttemptsOf(e) \cup {a}
<1>1. CASE UNCHANGED attempt
  BY <1>1 DEF AttemptsOf
<1>2. ASSUME NEW r \in Reqs, InsertAttempt(r)
      PROVE  \/ AttemptsOf(e)' = AttemptsOf(e)
             \/ /\ on[r] = e
                /\ \E a \in AttemptIds : AttemptsOf(e)' = AttemptsOf(e) \cup {a}
  <2>1. PICK a \in AttemptIds :
          /\ attempt[a] = NULL
          /\ attempt' = [attempt EXCEPT ![a] =
                [enrollment |-> on[r], unlockedBy |-> unlocking[r]]]
    BY <1>2 DEF InsertAttempt
  <2>2. /\ attempt'[a].enrollment = on[r]
        /\ \A b \in AttemptIds \ {a} : attempt'[b] = attempt[b]
    BY <2>1 DEF TypeOK
  <2>3. attempt'[a] # NULL
    <3>1. on[r] \in Enrollments /\ unlocking[r] \in SUBSET Lessons
      BY <1>2 DEF InsertAttempt, TypeOK, CallConsistent
    <3>2. attempt'[a] \in AttemptRow
      BY <2>1, <3>1 DEF TypeOK, AttemptRow
    <3> QED
      BY <3>2, RowAssumption
  <2>4. CASE on[r] = e
    BY <2>1, <2>2, <2>3, <2>4 DEF AttemptsOf
  <2>5. CASE on[r] # e
    BY <2>1, <2>2, <2>5 DEF AttemptsOf
  <2> QED
    BY <2>4, <2>5
<1> QED
  BY <1>1, <1>2
     DEF Next, vars, rows, AddLesson, Enroll, BeginComplete, BeginGet, BeginStart, Begin,
         RecordCompletion, CountLessons, ListLessons, CommitReply, CountAttempts, Abort

(* What overlapped stays on record.                                        *)
LEMMA RacedGrows == [Next]_vars => raced \subseteq raced'
  BY DEF Next, vars, AddLesson, Enroll, BeginComplete, BeginGet, BeginStart,
         RecordCompletion, CountLessons, ListLessons, CommitReply, CountAttempts,
         InsertAttempt, Abort, Continue, End

StartOf(r, e) == pc[r] # "idle" /\ call[r] = "start" /\ on[r] = e

(* Where nothing raced, a start call begins when there is no other.        *)
LEMMA StartStep ==
  ASSUME TypeOK, [Next]_vars, NEW e \in Enrollments, e \notin raced', NEW r \in Reqs
  PROVE  StartOf(r, e)' =>
           \/ StartOf(r, e)
           \/ BeginStart(r, e) /\ \A q \in Reqs : ~ StartOf(q, e)
<1> DEFINE Goal ==
      StartOf(r, e)' =>
        \/ StartOf(r, e)
        \/ BeginStart(r, e) /\ \A q \in Reqs : ~ StartOf(q, e)
<1>1. ASSUME NEW q \in Reqs, NEW d \in Enrollments, BeginStart(q, d)
      PROVE  Goal
  <2>1. d = e => ~ Starting(e)
    BY <1>1 DEF BeginStart
  <2>2. CASE q = r
    BY <1>1, <2>1, <2>2 DEF BeginStart, Begin, StartOf, Starting, TypeOK
  <2>3. CASE q # r
    BY <1>1, <2>1, <2>3 DEF BeginStart, Begin, StartOf, TypeOK
  <2> QED
    BY <2>2, <2>3
<1>2. ASSUME NEW q \in Reqs, NEW where, NEW c \in {"get", "complete"}, NEW d, NEW l,
             Begin(q, where, c, d, l), UNCHANGED raced
      PROVE  Goal
  BY <1>2 DEF Begin, StartOf, TypeOK
<1>3. ASSUME NEW q \in Reqs, End(q)
      PROVE  Goal
  BY <1>3 DEF End, StartOf, TypeOK
<1>4. ASSUME NEW q \in Reqs, NEW where, Continue(q, where), pc[q] # "idle"
      PROVE  Goal
  BY <1>4 DEF Continue, args, StartOf, TypeOK
<1>5. CASE UNCHANGED <<pc, args, raced>>
  BY <1>5 DEF args, StartOf
<1> QED
  BY <1>1, <1>2, <1>3, <1>4, <1>5
     DEF Next, vars, AddLesson, Enroll, BeginComplete, BeginGet, RecordCompletion,
         CountLessons, ListLessons, CommitReply, CountAttempts, InsertAttempt, Abort

LEMMA LoneStartStep == TypeOK /\ LoneStart /\ [Next]_vars => LoneStart'
<1> SUFFICES ASSUME TypeOK, LoneStart, [Next]_vars, NEW e \in Enrollments, e \notin raced'
             PROVE  /\ \A r, q \in Reqs : StartOf(r, e)' /\ StartOf(q, e)' => r = q
                    /\ \A r \in Reqs : pc'[r] = "insert" /\ on'[r] = e =>
                         BelowCap(Cardinality(AttemptsOf(e)'))
  BY DEF LoneStart, StartOf
<1>1. e \notin raced
  BY RacedGrows
<1>2. \A r, q \in Reqs : StartOf(r, e) /\ StartOf(q, e) => r = q
  BY <1>1 DEF LoneStart, StartOf
<1>3. \A r, q \in Reqs : StartOf(r, e)' /\ StartOf(q, e)' => r = q
  <2> SUFFICES ASSUME NEW r \in Reqs, NEW q \in Reqs, StartOf(r, e)', StartOf(q, e)'
               PROVE  r = q
    OBVIOUS
  <2>1. CASE StartOf(r, e) /\ StartOf(q, e)
    BY <1>2, <2>1
  <2>2. CASE BeginStart(r, e) /\ BeginStart(q, e)
    BY <2>2 DEF BeginStart, Begin, TypeOK
  <2> QED
    BY <2>1, <2>2, StartStep
<1>4. ASSUME NEW r \in Reqs, pc'[r] = "insert", on'[r] = e
      PROVE  BelowCap(Cardinality(AttemptsOf(e)'))
  <2>1. CASE CountAttempts(r)
    <3>1. on[r] = e /\ UNCHANGED attempt /\ BelowCap(Cardinality(AttemptsOf(e)))
      BY <1>4, <2>1 DEF CountAttempts, Continue, End, args, rows, TypeOK
    <3> QED
      BY <3>1 DEF AttemptsOf
  <2>2. CASE Still(r)
    <3>1. /\ pc[r] = "insert" /\ on[r] = e /\ StartOf(r, e)
          /\ BelowCap(Cardinality(AttemptsOf(e)))
      BY <1>1, <1>4, <2>2 DEF Still, LoneStart, StartOf, TypeOK, CallConsistent
    <3>2. ASSUME NEW q \in Reqs, InsertAttempt(q), on[q] = e
          PROVE  FALSE
      <4>1. StartOf(q, e)
        BY <3>2 DEF InsertAttempt, StartOf, TypeOK, CallConsistent
      <4>2. q = r
        BY <1>2, <3>1, <4>1
      <4> QED
        BY <1>4, <3>2, <4>2 DEF InsertAttempt, End, TypeOK
    <3>3. AttemptsOf(e)' = AttemptsOf(e)
      BY <3>2, AttemptsChange
    <3> QED
      BY <3>1, <3>3
  <2> QED
    BY <1>4, <2>1, <2>2, RequestStep DEF CountLessons, ListLessons
<1> QED
  BY <1>3, <1>4

(* The cap on attempts holds of every enrollment on which no two start     *)
(* calls ever overlapped.                                                  *)
THEOREM AttemptCapKept == Spec => []MaxAttemptsUnlessRaced
<1>1. Init => LoneStart /\ MaxAttemptsUnlessRaced
  <2> SUFFICES ASSUME Init PROVE LoneStart /\ MaxAttemptsUnlessRaced
    OBVIOUS
  <2>1. LoneStart
    BY DEF Init, LoneStart
  <2>2. \A e \in Enrollments : AttemptsOf(e) = {}
    BY DEF Init, AttemptsOf
  <2>3. Cardinality({}) = 0
    BY FS_EmptySet
  <2> QED
    BY <2>1, <2>2, <2>3, ProgressAssumption DEF MaxAttemptsUnlessRaced
<1>2. TypeOK /\ LoneStart /\ MaxAttemptsUnlessRaced /\ [Next]_vars => MaxAttemptsUnlessRaced'
  <2> SUFFICES ASSUME TypeOK, LoneStart, MaxAttemptsUnlessRaced, [Next]_vars,
                      NEW e \in Enrollments, e \notin raced', MaxAttempts # NULL
               PROVE  Cardinality(AttemptsOf(e)') <= MaxAttempts
    BY DEF MaxAttemptsUnlessRaced
  <2>1. IsFiniteSet(AttemptsOf(e)) /\ Cardinality(AttemptsOf(e)) \in Nat
    BY ProgressAssumption, SubsetCount DEF AttemptsOf
  <2>2. CASE AttemptsOf(e)' = AttemptsOf(e)
    BY <2>2, RacedGrows DEF MaxAttemptsUnlessRaced
  <2>3. ASSUME NEW r \in Reqs, InsertAttempt(r), on[r] = e,
               NEW a \in AttemptIds, AttemptsOf(e)' = AttemptsOf(e) \cup {a}
        PROVE  Cardinality(AttemptsOf(e)') <= MaxAttempts
    <3>1. Cardinality(AttemptsOf(e)) < MaxAttempts
      BY <2>3, RacedGrows DEF InsertAttempt, LoneStart, BelowCap
    <3>2. Cardinality(AttemptsOf(e) \cup {a}) =
            IF a \in AttemptsOf(e) THEN Cardinality(AttemptsOf(e))
                                  ELSE Cardinality(AttemptsOf(e)) + 1
      BY <2>1, FS_AddElement
    <3>3. Cardinality(AttemptsOf(e)') = Cardinality(AttemptsOf(e) \cup {a})
      BY <2>3
    <3> QED
      BY <2>1, <3>1, <3>2, <3>3, ProgressAssumption
  <2> QED
    BY <2>2, <2>3, AttemptsChange
<1> QED
  BY <1>1, <1>2, InitTypeOK, TypeStep, LoneStartStep, PTL DEF Spec
=============================================================================
