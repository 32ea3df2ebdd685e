------------------------------ MODULE Attempts ------------------------------
(***************************************************************************)
(* From an attempt's first answer to its revoked credential                *)
(* (src/src/routes.js, with the triggers of src/db/migrations).            *)
(*                                                                         *)
(* Every request runs in one READ COMMITTED transaction (src/src/db.js).   *)
(* The handlers read, decide and write in SEPARATE statements and take no  *)
(* lock between them, so a handler is split here where another transaction *)
(* can commit in between:                                                  *)
(*                                                                         *)
(*   answers    BeginAnswers -> RecordAnswers                              *)
(*   submit     BeginSubmit  -> ReadSheet -> StoreScore                    *)
(*   grade      BeginGrade   -> ReadSheet -> StoreScore                    *)
(*   issue      BeginIssue   -> FindExisting -> InsertCredential           *)
(*                           -> CommitCredential                           *)
(*   revoke     BeginRevoke  -> Revoke                                     *)
(*                                                                         *)
(* The writes that end a handler are merged with its COMMIT: nobody sees   *)
(* them before it, and their row locks are held until it.  The INSERT of a *)
(* credential is NOT merged with its COMMIT, because its trigger reads the *)
(* attempt row without locking it and the competency tags are still to be  *)
(* inserted.  A refused call (404, 422, 409) changes nothing and is the    *)
(* absence of a step; a transaction that fails half way is Abort.          *)
(***************************************************************************)
EXTENDS Scoring
LOCAL INSTANCE Functions  \* Range, SumFunction

CONSTANTS
  Reqs,         \* slots for concurrent requests, each used again and again
  AttemptIds,   \* attempts of the one assessment that Scoring describes
  Creds,        \* bound: the credential rows that can be issued
  Reasons,      \* revocation reasons
  Responses,    \* what a learner can answer to an item
  AnswerBodies, \* bodies of the answers call: functions, items to responses
  GradeBodies   \* bodies of the grade call: functions, items to grades

ASSUME RequestAssumption ==
  /\ NULL \notin AttemptIds /\ NULL \notin Creds /\ NULL \notin Reasons
  /\ \A x \in Responses : x \in Seq(Range(x))
  /\ \A b \in AnswerBodies :
       DOMAIN b \subseteq Items /\ \A i \in DOMAIN b : b[i] \in Responses
  /\ \A b \in GradeBodies :
       DOMAIN b \subseteq Items /\ \A i \in DOMAIN b : b[i] \in Grades

VARIABLES
  attempt,      \* attempt rows: status, submitted_at (set or not), score_percent, passed
  sheet,        \* attempt_answer.response, NULL: no row
  awarded,      \* attempt_answer.points_awarded
  credential,   \* credential rows, NULL: not inserted
  pc,           \* where each request stands
  on,           \* the attempt or credential a request is about
  body,         \* what its caller sent: answers, grades or a reason
  read,         \* the answers a submit or grade call read
  raced         \* history: the kinds of calls that ever overlapped on an attempt

vars == <<attempt, sheet, awarded, credential, pc, on, body, read, raced>>
rows == <<attempt, sheet, awarded, credential>>

-----------------------------------------------------------------------------
(* Types.                                                                  *)

Sheets  == [Items -> Responses \cup {NULL}]
Manuals == [Items -> Grades \cup {NULL}]

(* What scoring can store: the values some sheet and some grades yield.    *)
PointValues ==
  {Awarded(i, s, m) : i \in Items, s \in Sheets, m \in Manuals} \cup {NULL}
ScoreValues ==
  {ScoreAttempt(s, m).score : s \in Sheets, m \in Manuals} \cup {NULL}

AttemptRow ==
  [status    : {"in_progress", "needs_grading", "scored"},
   submitted : BOOLEAN,
   score     : ScoreValues,
   passed    : BOOLEAN \cup {NULL}]

CredentialRow ==
  [attempt : AttemptIds, status : {"active", "revoked"}, reason : Reasons \cup {NULL}]

ASSUME RowAssumption == NULL \notin CredentialRow

ScoringPcs == {"score", "store"}
IssuingPcs == {"issue", "insert", "commit"}
AttemptPcs  == {"answers"} \cup ScoringPcs \cup IssuingPcs

(* The columns of an attempt row are written together, and CHECK           *)
(* credential_revoked_consistent holds of every credential row.            *)
RowsConsistent ==
  /\ \A a \in AttemptIds :
       /\ attempt[a].submitted <=> attempt[a].status # "in_progress"
       /\ attempt[a].passed # NULL <=> attempt[a].status = "scored"
       /\ attempt[a].score # NULL <=> attempt[a].status = "scored"
  /\ \A c \in Creds : credential[c] # NULL =>
       (credential[c].status = "revoked" <=> credential[c].reason # NULL)

(* A request in the middle of a handler holds what its steps need.         *)
RequestsConsistent ==
  \A r \in Reqs :
    /\ pc[r] \in AttemptPcs => on[r] \in AttemptIds
    /\ pc[r] = "answers" => body[r] \in AnswerBodies
    /\ pc[r] \in ScoringPcs => body[r] \in Manuals
    /\ pc[r] = "store" => read[r] \in Sheets
    /\ pc[r] = "revoke" => /\ on[r] \in Creds /\ credential[on[r]] # NULL
                          /\ body[r] \in Reasons

(* The type invariant: what the tables and the requests can hold.          *)
TypeOK ==
  /\ attempt \in [AttemptIds -> AttemptRow]
  /\ sheet \in [AttemptIds -> Sheets]
  /\ awarded \in [AttemptIds -> [Items -> PointValues]]
  /\ credential \in [Creds -> CredentialRow \cup {NULL}]
  /\ pc \in [Reqs -> AttemptPcs \cup {"idle", "revoke"}]
  /\ on \in [Reqs -> AttemptIds \cup Creds \cup {NULL}]
  /\ body \in [Reqs -> AnswerBodies \cup Manuals \cup Reasons \cup {NULL}]
  /\ read \in [Reqs -> Sheets \cup {NULL}]
  /\ raced \in [AttemptIds -> SUBSET {"answering", "scoring", "issuing"}]
  /\ RowsConsistent
  /\ RequestsConsistent

-----------------------------------------------------------------------------
(* The initial state: attempts just started, see POST /v1/attempts.        *)

Init ==
  /\ attempt = [a \in AttemptIds |-> [status |-> "in_progress", submitted |-> FALSE,
                                      score |-> NULL, passed |-> NULL]]
  /\ sheet = [a \in AttemptIds |-> [i \in Items |-> NULL]]
  /\ awarded = [a \in AttemptIds |-> [i \in Items |-> NULL]]
  /\ credential = [c \in Creds |-> NULL]
  /\ pc = [r \in Reqs |-> "idle"]
  /\ on = [r \in Reqs |-> NULL]
  /\ body = [r \in Reqs |-> NULL]
  /\ read = [r \in Reqs |-> NULL]
  /\ raced = [a \in AttemptIds |-> {}]

(* The request r arrives; its first SELECT has let it in.                  *)
Begin(r, where, target, sent) ==
  /\ pc[r] = "idle"
  /\ pc' = [pc EXCEPT ![r] = where]
  /\ on' = [on EXCEPT ![r] = target]
  /\ body' = [body EXCEPT ![r] = sent]
  /\ UNCHANGED <<rows, read>>

(* The request r moves on inside its transaction.                          *)
Continue(r, where) ==
  /\ pc' = [pc EXCEPT ![r] = where]
  /\ UNCHANGED <<on, body, raced>>

(* COMMIT or ROLLBACK: the slot is free again.                             *)
End(r) ==
  /\ pc' = [pc EXCEPT ![r] = "idle"]
  /\ on' = [on EXCEPT ![r] = NULL]
  /\ body' = [body EXCEPT ![r] = NULL]
  /\ read' = [read EXCEPT ![r] = NULL]
  /\ UNCHANGED raced

(* Some request is at one of the places pcs for the attempt a.             *)
Underway(a, pcs) == \E q \in Reqs : pc[q] \in pcs /\ on[q] = a

(* History: a call of one kind begins while calls at pcs are under way.    *)
Overlap(a, kinds) == raced' = [raced EXCEPT ![a] = @ \cup kinds]
Races(kind, a, pcs) == IF Underway(a, pcs) THEN {kind} ELSE {}

-----------------------------------------------------------------------------
(* POST /v1/attempts/:id/answers                                           *)

(* Mutant: the status check of the answers call is gone.                   *)
AnswerableAlways(a) == TRUE

(* The status an attempt must have to be answered, and to be submitted.    *)
Answerable(a) == attempt[a].status = "in_progress"

BeginAnswers(r, a, b) ==
  /\ Answerable(a)
  /\ Begin(r, "answers", a, b)
  /\ Overlap(a, Races("answering", a, ScoringPcs))

(* One upsert per answered item; points already awarded stay in the row.   *)
RecordAnswers(r) ==
  /\ pc[r] = "answers"
  /\ sheet' = [sheet EXCEPT ![on[r]] =
                 [i \in Items |-> IF i \in DOMAIN body[r] THEN body[r][i] ELSE @[i]]]
  /\ End(r)
  /\ UNCHANGED <<attempt, awarded, credential>>

-----------------------------------------------------------------------------
(* POST /v1/attempts/:id/submit and /grade, which share scoreAndStore      *)

Submittable(a) == attempt[a].status = "in_progress"

(* Mutant: a scored attempt may be graded once more.                       *)
GradableAgain(a) == attempt[a].status # "in_progress"

Gradable(a) == attempt[a].status = "needs_grading"

NoManual == [i \in Items |-> NULL]
ManualOf(g) == [i \in Items |-> IF i \in DOMAIN g THEN g[i] ELSE NULL]

BeginSubmit(r, a) ==
  /\ Submittable(a)
  /\ Begin(r, "score", a, NoManual)
  /\ Overlap(a, Races("answering", a, {"answers"})
                  \cup Races("scoring", a, ScoringPcs))

(* g: the grades of THIS call; what earlier calls awarded is not read.     *)
BeginGrade(r, a, g) ==
  /\ Gradable(a)
  /\ Begin(r, "score", a, ManualOf(g))
  /\ Overlap(a, Races("scoring", a, ScoringPcs))

(* The assessment and its items never change; the answers are read here.   *)
ReadSheet(r) ==
  /\ pc[r] = "score"
  /\ read' = [read EXCEPT ![r] = sheet[on[r]]]
  /\ Continue(r, "store")
  /\ UNCHANGED rows

(* Mutant: the per-item points are written for graded items only.          *)
StoredPointsSkipped(r, out) ==
  [i \in Items |-> IF read[r][i] # NULL /\ body[r][i] # NULL
                   THEN out.perItem[i] ELSE awarded[on[r]][i]]

(* Every item that was answered gets its points overwritten, with NULL     *)
(* when it is constructed and this call does not grade it.                 *)
StoredPoints(r, out) ==
  [i \in Items |-> IF read[r][i] # NULL
                   THEN out.perItem[i] ELSE awarded[on[r]][i]]

(* The UPDATE of the attempt has no condition on its status.               *)
StoreScore(r) ==
  LET out == ScoreAttempt(read[r], body[r])
  IN  /\ pc[r] = "store"
      /\ awarded' = [awarded EXCEPT ![on[r]] = StoredPoints(r, out)]
      /\ attempt' = [attempt EXCEPT ![on[r]] =
           [status    |-> IF out.needsGrading THEN "needs_grading" ELSE "scored",
            submitted |-> TRUE,
            score     |-> out.score,
            passed    |-> out.passed]]
      /\ End(r)
      /\ UNCHANGED <<sheet, credential>>

-----------------------------------------------------------------------------
(* POST /v1/credentials                                                    *)

BeginIssue(r, a) ==
  /\ attempt[a].passed = TRUE
  /\ Begin(r, "issue", a, NULL)
  /\ Overlap(a, Races("issuing", a, IssuingPcs))

(* Mutant: a revoked credential does not count as existing.                *)
ActiveCredentialsOf(a) ==
  {c \in Creds : credential[c] # NULL /\ credential[c].attempt = a
                                      /\ credential[c].status = "active"}

CredentialsOf(a) == {c \in Creds : credential[c] # NULL /\ credential[c].attempt = a}

(* An attempt that has a credential, revoked or not, answers with it.      *)
FindExisting(r) ==
  /\ pc[r] = "issue"
  /\ UNCHANGED rows
  /\ \/ CredentialsOf(on[r]) # {} /\ End(r)
     \/ CredentialsOf(on[r]) = {} /\ Continue(r, "insert") /\ UNCHANGED read

(* The BEFORE INSERT trigger credential_requires_pass reads the attempt    *)
(* again; when it raises, the transaction is rolled back.                  *)
InsertCredential(r) ==
  /\ pc[r] = "insert"
  /\ UNCHANGED rows
  /\ \/ attempt[on[r]].passed = TRUE /\ Continue(r, "commit") /\ UNCHANGED read
     \/ attempt[on[r]].passed # TRUE /\ End(r)

CommitCredential(r) ==
  /\ pc[r] = "commit"
  /\ \E c \in Creds :
       /\ credential[c] = NULL
       /\ credential' = [credential EXCEPT ![c] =
                           [attempt |-> on[r], status |-> "active", reason |-> NULL]]
  /\ End(r)
  /\ UNCHANGED <<attempt, sheet, awarded>>

-----------------------------------------------------------------------------
(* POST /v1/credentials/:id/revoke, and the guards of the credential table *)

(* CHECK credential_revoked_consistent                                     *)
RevokedConsistent(row) == (row.status = "revoked") <=> (row.reason # NULL)

(* Mutant: the trigger keeps the status but not the reason.                *)
OneWayStatus(old, new) == old.status = "revoked" => new.status = "revoked"

(* Trigger credential_one_way_revoke                                       *)
OneWayRevoke(old, new) ==
  old.status = "revoked" => new.status = "revoked" /\ new.reason = old.reason

(* Any UPDATE of status and reason, in SQL, by whatever client.            *)
UpdateCredential(c, status, reason) ==
  LET new == [credential[c] EXCEPT !.status = status, !.reason = reason]
  IN  /\ credential[c] # NULL
      /\ RevokedConsistent(new)
      /\ OneWayRevoke(credential[c], new)
      /\ credential' = [credential EXCEPT ![c] = new]

BeginRevoke(r, c, reason) ==
  /\ credential[c] # NULL /\ credential[c].status = "active"
  /\ Begin(r, "revoke", c, reason)
  /\ UNCHANGED raced

(* UPDATE ... WHERE status = 'active'; no row: 409, nothing changes.       *)
Revoke(r) ==
  /\ pc[r] = "revoke"
  /\ IF credential[on[r]].status = "active"
     THEN UpdateCredential(on[r], "revoked", body[r])
     ELSE UNCHANGED credential
  /\ End(r)
  /\ UNCHANGED <<attempt, sheet, awarded>>

(* An operator's own SQL on a credential, let through by CHECK and trigger.*)
OperatorUpdate(c, status, reason) ==
  /\ UpdateCredential(c, status, reason)
  /\ UNCHANGED <<attempt, sheet, awarded, pc, on, body, read, raced>>

-----------------------------------------------------------------------------
(* A statement fails, a tag code is unknown, the statement timeout or the  *)
(* deadlock detector strikes, the process dies: the transaction rolls back.*)
Abort(r) ==
  /\ pc[r] # "idle"
  /\ End(r)
  /\ UNCHANGED rows

Next ==
  \/ \E r \in Reqs :
       \/ \E a \in AttemptIds :
            \/ \E b \in AnswerBodies : BeginAnswers(r, a, b)
            \/ BeginSubmit(r, a)
            \/ \E g \in GradeBodies : BeginGrade(r, a, g)
            \/ BeginIssue(r, a)
       \/ \E c \in Creds, reason \in Reasons : BeginRevoke(r, c, reason)
       \/ RecordAnswers(r) \/ ReadSheet(r) \/ StoreScore(r)
       \/ FindExisting(r) \/ InsertCredential(r) \/ CommitCredential(r)
       \/ Revoke(r)
       \/ Abort(r)
  \/ \E c \in Creds, status \in {"active", "revoked"}, reason \in Reasons \cup {NULL} :
       OperatorUpdate(c, status, reason)

Spec == Init /\ [][Next]_vars

-----------------------------------------------------------------------------
(* Properties.                                                             *)

(* A credential cannot exist without a passing attempt (SECURITY.md:53;    *)
(* handler check, trigger at INSERT).  Nothing makes it so after the       *)
(* INSERT, or between the trigger and the COMMIT.                          *)
CredentialBacked ==
  \A c \in Creds : credential[c] # NULL => attempt[credential[c].attempt].passed = TRUE

(* It holds for every attempt on which no two submit or grade calls ever   *)
(* overlapped: a lone scoring call cannot take back a pass.                *)
CredentialBackedUnlessRaced ==
  \A c \in Creds :
    /\ credential[c] # NULL
    /\ "scoring" \notin raced[credential[c].attempt]
    => attempt[credential[c].attempt].passed = TRUE

(* Issuing is a read, a decision and an INSERT without a unique            *)
(* constraint: an attempt has at most one credential, revoked ones         *)
(* included, as long as no two issue calls on it overlapped.               *)
OneCredentialUnlessRaced ==
  \A c, d \in Creds :
    /\ c # d /\ credential[c] # NULL /\ credential[d] # NULL
    /\ "issuing" \notin raced[credential[c].attempt]
    => credential[c].attempt # credential[d].attempt

(* Points of the answered items of an attempt.                             *)
AnsweredPoints(a) ==
  [i \in Items |-> IF sheet[a][i] = NULL THEN 0 ELSE awarded[a][i]]

(* The stored score is the score of the stored answers: every answered     *)
(* item of a scored attempt has its points, they add up to score_percent,  *)
(* and the verdict follows, unless an answers call overlapped the submit   *)
(* or two scoring calls overlapped.                                        *)
ScoreOfTheStoredSheet ==
  \A a \in AttemptIds :
    attempt[a].status = "scored" /\ raced[a] \cap {"answering", "scoring"} = {} =>
      /\ \A i \in Items : AnsweredPoints(a)[i] # NULL
      /\ attempt[a].score =
           RoundedPercent(SumFunction(AnsweredPoints(a)), SumFunction(Points))
      /\ attempt[a].passed = Reaches(attempt[a].score)

(* Answers are recorded on an in-progress attempt only (routes.js:561,     *)
(* 566): after the submit they do not change, unless an answers call and   *)
(* the submit overlapped.                                                  *)
AnswersFrozenUnlessRaced ==
  [][\A a \in AttemptIds :
       attempt[a].submitted /\ "answering" \notin raced[a] => sheet'[a] = sheet[a]]_vars

(* A score is final: once an attempt is scored nothing about its row or    *)
(* its points changes, unless two scoring calls overlapped; and not even   *)
(* then does it become answerable again.                                   *)
ScoreIsFinal ==
  [][\A a \in AttemptIds :
       /\ attempt[a].submitted => attempt'[a].submitted /\ attempt'[a].status # "in_progress"
       /\ attempt[a].status = "scored" /\ "scoring" \notin raced[a] =>
            attempt'[a] = attempt[a] /\ awarded'[a] = awarded[a]]_vars

(* Revocation is permanent, with its reason, whoever updates the row       *)
(* (routes.js:683, 004:10-25), and no credential is ever deleted or moved  *)
(* to another attempt.                                                     *)
RevocationPermanent ==
  [][\A c \in Creds : credential[c] # NULL =>
       /\ credential'[c] # NULL
       /\ credential'[c].attempt = credential[c].attempt
       /\ credential[c].status = "revoked" => credential'[c] = credential[c]]_vars

-----------------------------------------------------------------------------
(* What makes the properties above inductive: what holds of the requests   *)
(* under way on an attempt on which no two calls of a kind ever overlapped.*)

(* One scoring call at most, none on a scored attempt; a credential that   *)
(* exists, or is about to be committed, still has its pass.                *)
LoneScoring ==
  \A a \in AttemptIds : "scoring" \notin raced[a] =>
    /\ \A r, q \in Reqs :
         /\ pc[r] \in ScoringPcs /\ on[r] = a
         /\ pc[q] \in ScoringPcs /\ on[q] = a
         => r = q
    /\ Underway(a, ScoringPcs) => attempt[a].status # "scored"
    /\ Underway(a, {"commit"}) => attempt[a].passed = TRUE
    /\ \A c \in Creds :
         credential[c] # NULL /\ credential[c].attempt = a => attempt[a].passed = TRUE

(* One issue call at most; one that goes on to insert found no credential  *)
(* and there still is none.                                                *)
LoneIssuing ==
  \A a \in AttemptIds : "issuing" \notin raced[a] =>
    /\ \A r, q \in Reqs :
         /\ pc[r] \in IssuingPcs /\ on[r] = a
         /\ pc[q] \in IssuingPcs /\ on[q] = a
         => r = q
    /\ Underway(a, {"insert", "commit"}) => CredentialsOf(a) = {}
    /\ \A c, d \in CredentialsOf(a) : c = d

(* An answers call under way excludes a scoring call and a submitted       *)
(* attempt.                                                                *)
LoneAnswering ==
  \A a \in AttemptIds : "answering" \notin raced[a] =>
    (Underway(a, {"answers"}) => ~ attempt[a].submitted /\ ~ Underway(a, ScoringPcs))

(* What a submit or grade call is about to score is what is stored.        *)
ReadsAreCurrent ==
  \A r \in Reqs :
    pc[r] = "store" /\ raced[on[r]] \cap {"answering", "scoring"} = {}
    => read[r] = sheet[on[r]]
=============================================================================
