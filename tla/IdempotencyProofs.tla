-------------------------- MODULE IdempotencyProofs --------------------------
(***************************************************************************)
(* What the Idempotency-Key protocol guarantees for every number of        *)
(* requests, keys and fingerprints: a call takes effect at most once under *)
(* an unswept key, and the protocol implements KeyedExecution.             *)
(***************************************************************************)
EXTENDS Idempotency, TLAPS

(* Everything inductive holds before the first request.                    *)
LEMMA InitInv == Init => TypeOK /\ HoldersOK /\ RowsOK
  BY NullAssumption, RecordAssumption
     DEF Init, TypeOK, HoldersOK, RowsOK, InTransaction

(* Type correctness is inductive: one step per action.                     *)
LEMMA TypeStep == TypeOK /\ [Next]_vars => TypeOK'
<1> SUFFICES ASSUME TypeOK, [Next]_vars PROVE TypeOK'
  OBVIOUS
<1> USE NullAssumption, RecordAssumption DEF InTransaction
<1>1. ASSUME NEW r \in Reqs, NEW k \in Keys \cup {NULL}, NEW p \in Prints, Arrive(r, k, p)
      PROVE  TypeOK'
  <2>1. /\ pc' \in [Reqs -> InTransaction \cup {"new", "committed", "answered"}]
        /\ key' \in [Reqs -> Keys \cup {NULL}]
        /\ print' \in [Reqs -> Prints \cup {NULL}]
    BY <1>1 DEF Arrive, Go, TypeOK
  <2>2. \A q \in Reqs : q # r => pc'[q] = pc[q] /\ key'[q] = key[q] /\ print'[q] = print[q]
    BY <1>1 DEF Arrive, Go, TypeOK
  <2>3. pc'[r] = "begin" /\ print'[r] = p /\ ~ recorded[r] /\ response[r] = NULL
    BY <1>1 DEF Arrive, Go, TypeOK
  <2> QED
    BY <1>1, <2>1, <2>2, <2>3 DEF Arrive, TypeOK
<1>2. ASSUME NEW r \in Reqs, BeginWithoutKey(r)
      PROVE  TypeOK'
  BY <1>2 DEF BeginWithoutKey, Go, TypeOK
<1>3. ASSUME NEW r \in Reqs, MeetHolder(r)
      PROVE  TypeOK'
  BY <1>3 DEF MeetHolder, Go, TypeOK
<1>4. ASSUME NEW r \in Reqs, InsertKey(r)
      PROVE  TypeOK'
  <2>1. CASE Go(r, "work") /\ recorded' = [recorded EXCEPT ![r] = TRUE]
    BY <1>4, <2>1 DEF InsertKey, Go, TypeOK
  <2>2. CASE Go(r, "lookup") /\ UNCHANGED recorded
    BY <1>4, <2>2 DEF InsertKey, Go, TypeOK
  <2> QED
    BY <1>4, <2>1, <2>2 DEF InsertKey
<1>5. ASSUME NEW r \in Reqs, NEW kind, NEW outcome, Answer(r, kind, outcome),
             [kind |-> kind, outcome |-> outcome] \in Responses,
             pc[r] # "new", row' \in [Keys -> KeyRow \cup {NULL}],
             UNCHANGED <<key, print, recorded, ran, swept>>
      PROVE  TypeOK'
  BY <1>5 DEF Answer, Go, TypeOK
<1>6. ASSUME NEW r \in Reqs, Lookup(r)
      PROVE  TypeOK'
  <2>1. CASE row[key[r]] = NULL
    BY <1>6, <2>1 DEF Lookup, Go, TypeOK
  <2>2. CASE row[key[r]] # NULL
    <3>1. row[key[r]] \in KeyRow
      BY <1>6, <2>2 DEF Lookup, TypeOK
    <3>2. /\ AnswerOfRow(r, row[key[r]]) \in Responses
          /\ AnswerOfRow(r, row[key[r]]) =
               [kind |-> AnswerOfRow(r, row[key[r]]).kind,
                outcome |-> AnswerOfRow(r, row[key[r]]).outcome]
      BY <3>1 DEF AnswerOfRow, KeyRow, Responses
    <3> QED
      BY <1>5, <1>6, <2>2, <3>2 DEF Lookup, TypeOK
  <2> QED
    BY <2>1, <2>2
<1>7. ASSUME NEW r \in Reqs, Commit(r)
      PROVE  TypeOK'
  <2>1. CommittedRows(r) \in [Keys -> KeyRow \cup {NULL}]
    BY <1>7 DEF Commit, CommittedRows, KeyRow, TypeOK
  <2> QED
    BY <1>7, <2>1 DEF Commit, Go, TypeOK
<1>8. ASSUME NEW r \in Reqs, Respond(r)
      PROVE  TypeOK'
  BY <1>5, <1>8 DEF Respond, Responses, TypeOK
<1>9. ASSUME NEW r \in Reqs, LoseAcknowledgement(r)
      PROVE  TypeOK'
  BY <1>5, <1>9 DEF LoseAcknowledgement, Responses, TypeOK
<1>10. ASSUME NEW r \in Reqs, Fail(r)
       PROVE  TypeOK'
  BY <1>5, <1>10 DEF Fail, RowsAfterFailure, Responses, TypeOK
<1>11. ASSUME NEW k \in Keys, Sweep(k)
       PROVE  TypeOK'
  BY <1>11 DEF Sweep, TypeOK
<1>12. CASE UNCHANGED vars
  BY <1>12 DEF vars, TypeOK
<1> QED
  BY <1>1, <1>2, <1>3, <1>4, <1>6, <1>7, <1>8, <1>9, <1>10, <1>11, <1>12
     DEF Next, Advance

(* Every reachable state is well typed.                                    *)
THEOREM TypeCorrect == Spec => []TypeOK
<1>1. Init => TypeOK
  BY InitInv
<1> QED
  BY <1>1, TypeStep, PTL DEF Spec

-----------------------------------------------------------------------------
(* The holders of keys and the rows they leave.                            *)

LEMMA HoldersStep == TypeOK /\ HoldersOK /\ [Next]_vars => HoldersOK'
<1> SUFFICES ASSUME TypeOK, HoldersOK, [Next]_vars PROVE HoldersOK'
  OBVIOUS
<1> USE NullAssumption, RecordAssumption DEF InTransaction
<1>1. ASSUME NEW r \in Reqs, NEW k \in Keys \cup {NULL}, NEW p \in Prints, Arrive(r, k, p)
      PROVE  HoldersOK'
  BY <1>1 DEF Arrive, Go, TypeOK, HoldersOK
<1>2. ASSUME NEW r \in Reqs, BeginWithoutKey(r) \/ MeetHolder(r)
      PROVE  HoldersOK'
  BY <1>2 DEF BeginWithoutKey, MeetHolder, Go, TypeOK, HoldersOK
<1>3. ASSUME NEW r \in Reqs, InsertKey(r)
      PROVE  HoldersOK'
  <2>1. CASE /\ Insertable(key[r]) /\ Go(r, "work")
             /\ recorded' = [recorded EXCEPT ![r] = TRUE]
    BY <1>3, <2>1 DEF InsertKey, Insertable, Held, Go, TypeOK, HoldersOK
  <2>2. CASE row[key[r]] # NULL /\ Go(r, "lookup") /\ UNCHANGED recorded
    BY <1>3, <2>2 DEF InsertKey, Go, TypeOK, HoldersOK
  <2> QED
    BY <1>3, <2>1, <2>2 DEF InsertKey
<1>4. ASSUME NEW r \in Reqs, NEW kind, NEW outcome, Answer(r, kind, outcome),
             UNCHANGED <<row, key, recorded, swept>>
      PROVE  HoldersOK'
  BY <1>4 DEF Answer, Go, TypeOK, HoldersOK
<1>5. ASSUME NEW r \in Reqs, Lookup(r)
      PROVE  HoldersOK'
  <2>1. CASE row[key[r]] = NULL
    BY <1>5, <2>1 DEF Lookup, Go, TypeOK, HoldersOK
  <2>2. CASE row[key[r]] # NULL
    BY <1>4, <1>5, <2>2 DEF Lookup
  <2> QED
    BY <2>1, <2>2
<1>6. ASSUME NEW r \in Reqs, Commit(r)
      PROVE  HoldersOK'
  <2>1. \A k \in Keys : \/ row'[k] = row[k]
                        \/ recorded[r] /\ key[r] = k /\ row'[k] # NULL
    <3> DEFINE new == [print |-> print[r], status |-> "done", outcome |-> r]
    <3>1. new \in KeyRow
      BY <1>6 DEF Commit, KeyRow, TypeOK
    <3>2. row' = IF recorded[r] THEN [row EXCEPT ![key[r]] = new] ELSE row
      BY <1>6 DEF Commit, CommittedRows
    <3> HIDE DEF new
    <3> QED
      BY <3>1, <3>2 DEF TypeOK
  <2>2. \A q \in Reqs : q # r => pc'[q] = pc[q]
    BY <1>6 DEF Commit, Go, TypeOK
  <2>3. pc[r] = "work" /\ pc'[r] = "committed" /\ UNCHANGED <<key, recorded, swept>>
    BY <1>6 DEF Commit, Go, TypeOK
  <2> QED
    BY <2>1, <2>2, <2>3 DEF TypeOK, HoldersOK
<1>7. ASSUME NEW r \in Reqs, Respond(r) \/ LoseAcknowledgement(r) \/ Fail(r)
      PROVE  HoldersOK'
  BY <1>4, <1>7 DEF Respond, LoseAcknowledgement, Fail, RowsAfterFailure
<1>8. ASSUME NEW k \in Keys, Sweep(k)
      PROVE  HoldersOK'
  BY <1>8 DEF Sweep, TypeOK, HoldersOK
<1>9. CASE UNCHANGED vars
  BY <1>9 DEF vars, HoldersOK
<1> QED
  BY <1>1, <1>2, <1>3, <1>5, <1>6, <1>7, <1>8, <1>9 DEF Next, Advance

LEMMA RowsStep == TypeOK /\ HoldersOK /\ RowsOK /\ [Next]_vars => RowsOK'
<1> SUFFICES ASSUME TypeOK, HoldersOK, RowsOK, [Next]_vars PROVE RowsOK'
  OBVIOUS
<1> USE NullAssumption, RecordAssumption DEF InTransaction
<1>1. ASSUME NEW r \in Reqs, NEW k \in Keys \cup {NULL}, NEW p \in Prints, Arrive(r, k, p)
      PROVE  RowsOK'
  <2>1. r \notin ran
    BY <1>1 DEF Arrive, RowsOK
  <2>2. \A q \in Reqs : q # r => pc'[q] = pc[q] /\ key'[q] = key[q] /\ print'[q] = print[q]
    BY <1>1 DEF Arrive, Go, TypeOK
  <2>3. pc'[r] = "begin" /\ UNCHANGED <<row, ran, swept>>
    BY <1>1 DEF Arrive, Go, TypeOK
  <2> QED
    BY <2>1, <2>2, <2>3 DEF TypeOK, RowsOK
<1>2. ASSUME NEW r \in Reqs, NEW where \in InTransaction \cup {"answered"},
             Go(r, where), where = "answered" \/ pc[r] \in InTransaction,
             UNCHANGED <<row, key, print, ran, swept>>
      PROVE  RowsOK'
  BY <1>2 DEF Go, TypeOK, RowsOK
<1>3. ASSUME NEW r \in Reqs,
             \/ BeginWithoutKey(r) \/ MeetHolder(r) \/ InsertKey(r) \/ Lookup(r)
             \/ Respond(r) \/ LoseAcknowledgement(r) \/ Fail(r)
      PROVE  RowsOK'
  BY <1>2, <1>3 DEF BeginWithoutKey, MeetHolder, InsertKey, Lookup, Respond,
                    LoseAcknowledgement, Fail, RowsAfterFailure, Answer
<1>4. ASSUME NEW r \in Reqs, Commit(r)
      PROVE  RowsOK'
  <2>1. /\ pc[r] = "work" /\ r \notin ran /\ ran' = ran \cup {r}
        /\ pc' = [pc EXCEPT ![r] = "committed"]
        /\ UNCHANGED <<key, print, swept>>
    BY <1>4 DEF Commit, Go, RowsOK
  <2>2. CASE recorded[r]
    <3>1. /\ key[r] \in Keys /\ row[key[r]] = NULL
          /\ \A k \in Keys : k # key[r] => row'[k] = row[k]
          /\ row'[key[r]] = [print |-> print[r], status |-> "done", outcome |-> r]
      BY <1>4, <2>1, <2>2 DEF Commit, CommittedRows, TypeOK, HoldersOK
    <3>2. row'[key[r]] \in KeyRow
      BY <1>4, <2>1, <3>1 DEF KeyRow, TypeOK
    <3>3. \A q \in ran : key[q] # NULL /\ key[q] \notin swept => key[q] # key[r]
      BY <3>1 DEF RowsOK, TypeOK
    <3> QED
      BY <2>1, <3>1, <3>2, <3>3 DEF RowsOK, TypeOK
  <2>3. CASE ~ recorded[r]
    <3>1. row' = row /\ (key[r] = NULL \/ key[r] \in swept)
      BY <1>4, <2>1, <2>3 DEF Commit, CommittedRows, HoldersOK
    <3> QED
      BY <2>1, <3>1 DEF RowsOK, TypeOK
  <2> QED
    BY <2>2, <2>3
<1>5. ASSUME NEW k \in Keys, Sweep(k)
      PROVE  RowsOK'
  BY <1>5 DEF Sweep, TypeOK, RowsOK
<1>6. CASE UNCHANGED vars
  BY <1>6 DEF vars, RowsOK
<1> QED
  BY <1>1, <1>3, <1>4, <1>5, <1>6 DEF Next, Advance

(* A call takes effect at most once under an unswept key.                  *)
THEOREM EffectAtMostOnce == Spec => []AtMostOnce
<1>1. TypeOK /\ RowsOK => AtMostOnce
  BY DEF TypeOK, RowsOK, AtMostOnce
<1> QED
  BY <1>1, InitInv, TypeStep, HoldersStep, RowsStep, PTL DEF Spec

-----------------------------------------------------------------------------
(* The answers.                                                            *)

(* An answer given to one request that is true of the runs so far leaves   *)
(* all answers true.                                                       *)
LEMMA HonestAnswer ==
  ASSUME TypeOK, AnswersAreHonest, NEW r \in Reqs, NEW kind, NEW outcome,
         Answer(r, kind, outcome), UNCHANGED <<key, print, ran>>,
         [kind |-> kind, outcome |-> outcome] \in Responses,
         kind = "ok" => outcome = r /\ r \in ran,
         kind = "replay" =>
           /\ outcome \in ran /\ r \notin ran
           /\ key[outcome] = key[r] /\ print[outcome] = print[r],
         kind = "mismatch" =>
           r \notin ran /\ \E q \in ran : key[q] = key[r] /\ print[q] # print[r]
  PROVE  AnswersAreHonest'
<1>1. /\ response'[r] = [kind |-> kind, outcome |-> outcome]
      /\ \A q \in Reqs : q # r => response'[q] = response[q]
  BY DEF Answer, TypeOK
<1>2. response'[r].kind = kind /\ response'[r].outcome = outcome
  BY <1>1
<1> QED
  BY <1>1, <1>2 DEF AnswersAreHonest

(* No step makes an answer untrue: a request keeps its key and its         *)
(* fingerprint once it has arrived, a run is never undone, and a request   *)
(* that was answered does not run any more.                                *)
LEMMA AnswersStep ==
  TypeOK /\ RowsOK /\ AnswersAreHonest /\ [Next]_vars => AnswersAreHonest'
<1> SUFFICES ASSUME TypeOK, RowsOK, AnswersAreHonest, [Next]_vars PROVE AnswersAreHonest'
  OBVIOUS
<1> USE NullAssumption, RecordAssumption
<1>1. ASSUME UNCHANGED <<key, print, ran, response>>
      PROVE  AnswersAreHonest'
  BY <1>1 DEF AnswersAreHonest
<1>2. ASSUME NEW r \in Reqs, NEW k \in Keys \cup {NULL}, NEW p \in Prints, Arrive(r, k, p)
      PROVE  AnswersAreHonest'
  <2>1. r \notin ran /\ response[r] = NULL /\ UNCHANGED <<ran, response>>
    BY <1>2 DEF Arrive, TypeOK, RowsOK
  <2>2. \A q \in Reqs : q # r => key'[q] = key[q] /\ print'[q] = print[q]
    BY <1>2 DEF Arrive, TypeOK
  <2>3. ran \subseteq Reqs
    BY DEF TypeOK
  <2> QED
    BY <2>1, <2>2, <2>3 DEF AnswersAreHonest
<1>3. ASSUME NEW r \in Reqs, BeginWithoutKey(r) \/ MeetHolder(r) \/ InsertKey(r)
      PROVE  AnswersAreHonest'
  BY <1>1, <1>3 DEF BeginWithoutKey, MeetHolder, InsertKey
<1>4. ASSUME NEW r \in Reqs, Lookup(r)
      PROVE  AnswersAreHonest'
  <2> DEFINE found == row[key[r]]
             out == AnswerOfRow(r, found)
  <2>1. CASE found = NULL
    BY <1>1, <1>4, <2>1 DEF Lookup
  <2>2. CASE found # NULL
    <3>1. found \in KeyRow /\ key[r] \in Keys /\ r \notin ran
      BY <1>4, <2>2 DEF Lookup, TypeOK, RowsOK
    <3>2. /\ [kind |-> out.kind, outcome |-> out.outcome] \in Responses
          /\ out.kind # "ok"
          /\ out.kind = "replay" => out.outcome = found.outcome /\ found.print = print[r]
          /\ out.kind = "mismatch" => found.print # print[r]
      BY <3>1 DEF AnswerOfRow, KeyRow, Responses
    <3>3. /\ found.outcome \in ran /\ key[found.outcome] = key[r]
          /\ print[found.outcome] = found.print
      BY <2>2, <3>1 DEF RowsOK
    <3>4. Answer(r, out.kind, out.outcome) /\ UNCHANGED <<key, print, ran>>
      BY <1>4, <2>2 DEF Lookup
    <3> HIDE DEF out, found
    <3> QED
      BY <3>1, <3>2, <3>3, <3>4, HonestAnswer
  <2> QED
    BY <2>1, <2>2
<1>5. ASSUME NEW r \in Reqs, Commit(r)
      PROVE  AnswersAreHonest'
  <2>1. response[r] = NULL /\ ran' = ran \cup {r} /\ UNCHANGED <<key, print, response>>
    BY <1>5 DEF Commit, TypeOK
  <2> QED
    BY <2>1 DEF AnswersAreHonest
<1>6. ASSUME NEW r \in Reqs, Respond(r)
      PROVE  AnswersAreHonest'
  <2>1. Answer(r, "ok", r) /\ r \in ran /\ UNCHANGED <<key, print, ran>>
    BY <1>6 DEF Respond, RowsOK
  <2>2. [kind |-> "ok", outcome |-> r] \in Responses
    BY DEF Responses
  <2> QED
    BY <2>1, <2>2, HonestAnswer
<1>7. ASSUME NEW r \in Reqs, LoseAcknowledgement(r) \/ Fail(r)
      PROVE  AnswersAreHonest'
  <2>1. /\ Answer(r, "error", NULL) \/ Answer(r, "lost", NULL)
        /\ UNCHANGED <<key, print, ran>>
    BY <1>7 DEF LoseAcknowledgement, Fail
  <2>2. /\ [kind |-> "error", outcome |-> NULL] \in Responses
        /\ [kind |-> "lost", outcome |-> NULL] \in Responses
    BY DEF Responses
  <2>3. CASE Answer(r, "error", NULL)
    BY <2>1, <2>2, <2>3, HonestAnswer
  <2>4. CASE Answer(r, "lost", NULL)
    BY <2>1, <2>2, <2>4, HonestAnswer
  <2> QED
    BY <2>1, <2>3, <2>4
<1>8. ASSUME NEW k \in Keys, Sweep(k)
      PROVE  AnswersAreHonest'
  BY <1>1, <1>8 DEF Sweep
<1>9. CASE UNCHANGED vars
  BY <1>1, <1>9 DEF vars
<1> QED
  BY <1>2, <1>3, <1>4, <1>5, <1>6, <1>7, <1>8, <1>9 DEF Next, Advance

LEMMA AnswersAlways == Spec => [](TypeOK /\ RowsOK /\ AnswersAreHonest)
<1>1. Init => AnswersAreHonest
  BY DEF Init, AnswersAreHonest
<1> QED
  BY <1>1, InitInv, TypeStep, HoldersStep, RowsStep, AnswersStep, PTL DEF Spec

(* An answer says what happened, swept or not, whatever fails or is lost.  *)
THEOREM HonestAnswers == Spec => []AnswersAreHonest
  BY AnswersAlways, PTL

(* All successful answers under an unswept key are the outcome of the one  *)
(* run under it.                                                           *)
THEOREM OneOutcome == Spec => []OneOutcomePerKey
<1>1. TypeOK /\ RowsOK /\ AnswersAreHonest => OneOutcomePerKey
  <2> SUFFICES ASSUME TypeOK, RowsOK, AnswersAreHonest, NEW r \in Reqs, NEW q \in Reqs,
                      Succeeded(r), Succeeded(q), key[r] = key[q],
                      key[r] # NULL, key[r] \notin swept
               PROVE  response[r].outcome = response[q].outcome
    BY DEF OneOutcomePerKey
  <2>1. \A s \in Reqs : Succeeded(s) =>
          response[s].outcome \in ran /\ key[response[s].outcome] = key[s]
    BY DEF AnswersAreHonest, Succeeded
  <2>2. \A u, v \in ran :
          key[u] = key[r] /\ key[v] = key[r] => u = v
    BY DEF RowsOK, TypeOK
  <2> QED
    BY <2>1, <2>2
<1> QED
  BY <1>1, AnswersAlways, PTL

-----------------------------------------------------------------------------
(* The protocol implements KeyedExecution.                                 *)

(* A request that has neither run nor been answered may change its key;    *)
(* the runs and the answers stay.                                          *)
LEMMA SameHistory ==
  ASSUME TypeOK, RowsOK, UNCHANGED <<ran, response>>,
         \A q \in Reqs : q \in ran \/ response[q] # NULL => key'[q] = key[q]
  PROVE  Runs' = Runs /\ Answers' = Answers
<1>1. Runs' = Runs
  BY DEF Runs, TypeOK
<1>2. \A q \in Reqs : Succeeded(q)' <=> Succeeded(q)
  BY DEF Succeeded
<1>3. \A q \in Reqs : Succeeded(q) =>
        [key |-> key'[q], outcome |-> response'[q].outcome]
          = [key |-> key[q], outcome |-> response[q].outcome]
  BY DEF Succeeded
<1> QED
  BY <1>1, <1>2, <1>3 DEF Answers

(* One answer is one step of the promise: a successful one is the outcome  *)
(* of a committed run under the same key, any other one is no step at all. *)
LEMMA OneAnswer ==
  ASSUME TypeOK, NEW r \in Reqs, NEW kind, NEW outcome, Answer(r, kind, outcome),
         response[r] = NULL, UNCHANGED <<row, key, ran, swept>>,
         [kind |-> kind, outcome |-> outcome] \in Responses,
         kind \in {"ok", "replay"} =>
           outcome \in ran /\ key[outcome] = key[r]
  PROVE  [Promise!Next]_(Promise!vars)
<1> DEFINE u == [key |-> key[r], outcome |-> outcome]
<1>1. /\ response'[r] = [kind |-> kind, outcome |-> outcome]
      /\ \A q \in Reqs : q # r => response'[q] = response[q]
  BY DEF Answer, TypeOK
<1>2. /\ response'[r] # NULL
      /\ response'[r].kind = kind /\ response'[r].outcome = outcome
  BY <1>1, RecordAssumption
<1>3. Runs' = Runs /\ Remembered' = Remembered
  BY DEF Runs, Remembered
<1>4. CASE kind \in {"ok", "replay"}
  <2>1. \A q \in Reqs : Succeeded(q)' <=> (Succeeded(q) \/ q = r)
    BY <1>1, <1>2, <1>4 DEF Succeeded
  <2>2. \A q \in Reqs : q # r => response'[q].outcome = response[q].outcome
    BY <1>1
  <2>3. ~ Succeeded(r)
    BY DEF Succeeded
  <2>4. Answers' = Answers \cup {u}
    BY <1>2, <2>1, <2>2, <2>3 DEF Answers
  <2>5. u \in Runs
    BY <1>4 DEF Runs
  <2>6. Promise!Answer(u)
    BY <1>3, <2>4, <2>5 DEF Promise!Answer
  <2> QED
    BY <2>5, <2>6 DEF Promise!Next
<1>5. CASE kind \notin {"ok", "replay"}
  <2>1. \A q \in Reqs : Succeeded(q)' <=> Succeeded(q)
    BY <1>1, <1>2, <1>5 DEF Succeeded
  <2>2. \A q \in Reqs : Succeeded(q) => response'[q] = response[q]
    BY <1>1 DEF Succeeded
  <2>3. Answers' = Answers
    BY <2>1, <2>2 DEF Answers
  <2> QED
    BY <1>3, <2>3 DEF Promise!vars
<1> QED
  BY <1>4, <1>5

(* A COMMIT is a run: remembered when the transaction inserted the key,    *)
(* unprotected when there is no key or the sweep took it away.             *)
LEMMA OneRun ==
  ASSUME TypeOK, HoldersOK, RowsOK, NEW r \in Reqs, Commit(r)
  PROVE  Promise!Next
<1> USE NullAssumption, RecordAssumption
<1>1. /\ pc[r] = "work" /\ r \notin ran /\ ran' = ran \cup {r}
      /\ UNCHANGED <<key, print, response, swept>>
      /\ key[r] \in Keys \cup {NULL}
  BY DEF Commit, RowsOK, TypeOK
<1>2. Runs' = Runs \cup {[key |-> key[r], outcome |-> r]}
  BY <1>1 DEF Runs
<1>3. Answers' = Answers
  BY <1>1 DEF Answers, Succeeded
<1>4. CASE recorded[r]
  <2>1. /\ key[r] \in Keys /\ row[key[r]] = NULL
        /\ row' = [row EXCEPT ![key[r]] =
                     [print |-> print[r], status |-> "done", outcome |-> r]]
    BY <1>1, <1>4 DEF Commit, CommittedRows, TypeOK, HoldersOK
  <2>2. [print |-> print[r], status |-> "done", outcome |-> r] \in KeyRow
    BY <1>1 DEF KeyRow, TypeOK
  <2>3. Remembered' = [Remembered EXCEPT ![key[r]] = r]
    <3>1. \A k \in Keys : k # key[r] => row'[k] = row[k]
      BY <2>1 DEF TypeOK
    <3>2. row'[key[r]] # NULL /\ row'[key[r]].outcome = r
      BY <2>1, <2>2 DEF TypeOK
    <3>3. \A k \in Keys : Remembered'[k] = IF k = key[r] THEN r ELSE Remembered[k]
      BY <3>1, <3>2 DEF Remembered
    <3> QED
      BY <3>3 DEF Remembered
  <2>4. Remembered[key[r]] = NULL
    BY <2>1 DEF Remembered
  <2>5. key[r] \notin swept => \A u \in Runs : u.key # key[r]
    BY <2>1 DEF Runs, RowsOK, TypeOK
  <2> QED
    BY <1>1, <1>2, <1>3, <2>1, <2>3, <2>4, <2>5 DEF Promise!Next, Promise!Run
<1>5. CASE ~ recorded[r]
  <2>1. row' = row /\ (key[r] = NULL \/ key[r] \in swept)
    BY <1>1, <1>5 DEF Commit, CommittedRows, HoldersOK
  <2>2. Remembered' = Remembered
    BY <2>1 DEF Remembered
  <2> QED
    BY <1>1, <1>2, <1>3, <2>1, <2>2 DEF Promise!Next, Promise!RunUnprotected
<1> QED
  BY <1>4, <1>5

LEMMA PromiseStep ==
  TypeOK /\ HoldersOK /\ RowsOK /\ [Next]_vars => [Promise!Next]_(Promise!vars)
<1> SUFFICES ASSUME TypeOK, HoldersOK, RowsOK, [Next]_vars
             PROVE  [Promise!Next]_(Promise!vars)
  OBVIOUS
<1> USE NullAssumption, RecordAssumption
<1>1. ASSUME UNCHANGED <<row, swept, ran, response>>,
             \A q \in Reqs : q \in ran \/ response[q] # NULL => key'[q] = key[q]
      PROVE  [Promise!Next]_(Promise!vars)
  <2>1. Remembered' = Remembered
    BY <1>1 DEF Remembered
  <2> QED
    BY <1>1, <2>1, SameHistory DEF Promise!vars
<1>2. ASSUME NEW r \in Reqs, NEW k \in Keys \cup {NULL}, NEW p \in Prints, Arrive(r, k, p)
      PROVE  [Promise!Next]_(Promise!vars)
  <2>1. \A q \in Reqs : q \in ran \/ response[q] # NULL => q # r
    BY <1>2 DEF Arrive, TypeOK, RowsOK
  <2> QED
    BY <1>1, <1>2, <2>1 DEF Arrive, TypeOK
<1>3. ASSUME NEW r \in Reqs, BeginWithoutKey(r) \/ MeetHolder(r) \/ InsertKey(r)
      PROVE  [Promise!Next]_(Promise!vars)
  BY <1>1, <1>3 DEF BeginWithoutKey, MeetHolder, InsertKey
<1>4. ASSUME NEW r \in Reqs, Lookup(r)
      PROVE  [Promise!Next]_(Promise!vars)
  <2> DEFINE found == row[key[r]]
             out == AnswerOfRow(r, found)
  <2>1. CASE found = NULL
    BY <1>1, <1>4, <2>1 DEF Lookup
  <2>2. CASE found # NULL
    <3>1. found \in KeyRow /\ key[r] \in Keys
      BY <1>4, <2>2 DEF Lookup, TypeOK
    <3>2. /\ [kind |-> out.kind, outcome |-> out.outcome] \in Responses
          /\ out.kind \in {"ok", "replay"} => out.outcome = found.outcome
      BY <3>1 DEF AnswerOfRow, KeyRow, Responses
    <3>3. found.outcome \in ran /\ key[found.outcome] = key[r]
      BY <2>2, <3>1 DEF RowsOK
    <3>4. response[r] = NULL
      BY <1>4 DEF Lookup, TypeOK
    <3>5. Answer(r, out.kind, out.outcome) /\ UNCHANGED <<row, key, ran, swept>>
      BY <1>4, <2>2 DEF Lookup
    <3> HIDE DEF out, found
    <3> QED
      BY <3>2, <3>3, <3>4, <3>5, OneAnswer
  <2> QED
    BY <2>1, <2>2
<1>5. ASSUME NEW r \in Reqs, Respond(r)
      PROVE  [Promise!Next]_(Promise!vars)
  <2>1. /\ Answer(r, "ok", r) /\ response[r] = NULL /\ r \in ran
        /\ UNCHANGED <<row, key, ran, swept>>
    BY <1>5 DEF Respond, TypeOK, RowsOK
  <2>2. [kind |-> "ok", outcome |-> r] \in Responses
    BY DEF Responses
  <2> QED
    BY <2>1, <2>2, OneAnswer
<1>6. ASSUME NEW r \in Reqs, LoseAcknowledgement(r) \/ Fail(r)
      PROVE  [Promise!Next]_(Promise!vars)
  <2>1. /\ response[r] = NULL /\ UNCHANGED <<row, key, ran, swept>>
        /\ Answer(r, "error", NULL) \/ Answer(r, "lost", NULL)
    BY <1>6 DEF LoseAcknowledgement, Fail, RowsAfterFailure, InTransaction, TypeOK
  <2>2. /\ [kind |-> "error", outcome |-> NULL] \in Responses
        /\ [kind |-> "lost", outcome |-> NULL] \in Responses
    BY DEF Responses
  <2>3. CASE Answer(r, "error", NULL)
    BY <2>1, <2>2, <2>3, OneAnswer
  <2>4. CASE Answer(r, "lost", NULL)
    BY <2>1, <2>2, <2>4, OneAnswer
  <2> QED
    BY <2>1, <2>3, <2>4
<1>7. ASSUME NEW r \in Reqs, Commit(r)
      PROVE  [Promise!Next]_(Promise!vars)
  BY <1>7, OneRun
<1>8. ASSUME NEW k \in Keys, Sweep(k)
      PROVE  [Promise!Next]_(Promise!vars)
  <2>1. Runs' = Runs /\ Answers' = Answers
    BY <1>8, SameHistory DEF Sweep
  <2>2. /\ Remembered[k] # NULL
        /\ Remembered' = [Remembered EXCEPT ![k] = NULL]
    BY <1>8 DEF Sweep, Remembered, TypeOK, KeyRow
  <2> QED
    BY <1>8, <2>1, <2>2 DEF Sweep, Promise!Next, Promise!Forget
<1>9. CASE UNCHANGED vars
  BY <1>1, <1>9 DEF vars
<1> QED
  BY <1>2, <1>3, <1>4, <1>5, <1>6, <1>7, <1>8, <1>9 DEF Next, Advance

(* The protocol keeps the promise of KeyedExecution: initial states are    *)
(* initial states, and every step is a step of the promise or none.        *)
THEOREM KeepsThePromise == Spec => KeepsPromise
<1>1. Init => Promise!Init
  BY DEF Init, Promise!Init, Runs, Remembered, Answers, Succeeded
<1> QED
  BY <1>1, InitInv, TypeStep, HoldersStep, RowsStep, PromiseStep, PTL
     DEF Spec, KeepsPromise, Promise!Spec
=============================================================================
