----------------------------- MODULE Idempotency -----------------------------
(***************************************************************************)
(* The Idempotency-Key protocol of POST requests: src/src/idempotency.js,  *)
(* called by handle() of src/src/server.js inside the request's own        *)
(* transaction (src/src/db.js), and scripts/sweep_idempotency.js.          *)
(*                                                                         *)
(* The key row is inserted, completed and committed in ONE transaction     *)
(* with the handler's writes.  Another transaction that inserts the same   *)
(* key meanwhile waits on the unique index until that one ends.            *)
(*                                                                         *)
(* A request is one HTTP request; a client's retry is another request with *)
(* the same key.  The outcome of a run is represented by the request that  *)
(* ran: response_status and response_body are data.                        *)
(***************************************************************************)
EXTENDS Integers, FiniteSets

CONSTANTS
  Reqs,    \* bound: the POST requests that ever arrive
  Keys,    \* (tenant, Idempotency-Key) pairs: the unique constraint's columns
  Prints,  \* fingerprints of method, path and body
  NULL

ASSUME NullAssumption == NULL \notin Keys /\ NULL \notin Reqs

VARIABLES
  row,      \* committed rows of idempotency_key, NULL: none
  pc,       \* where each request stands
  key,      \* the key a request carries, NULL: none
  print,    \* its fingerprint
  recorded, \* idem.begin returned { record }: this transaction inserted the row
  response, \* what the client was answered, NULL: nothing yet
  ran,      \* history: the requests whose handler's writes are committed
  swept     \* history: keys whose row was ever deleted

vars == <<row, pc, key, print, recorded, response, ran, swept>>

-----------------------------------------------------------------------------
(* Types.                                                                  *)

(* Only a finished run is ever committed, but the column allows both.      *)
KeyRow == [print : Prints, status : {"in_flight", "done"}, outcome : Reqs]

(* lost: no answer reaches the client, who cannot tell whether it ran.     *)
Responses ==
  [kind : {"ok", "replay"}, outcome : Reqs] \cup
  [kind : {"mismatch", "in_flight", "error", "lost"}, outcome : {NULL}]

ASSUME RecordAssumption == NULL \notin KeyRow /\ NULL \notin Responses

InTransaction == {"begin", "waiting", "lookup", "work"}

(* The type invariant.                                                     *)
TypeOK ==
  /\ row \in [Keys -> KeyRow \cup {NULL}]
  /\ pc \in [Reqs -> InTransaction \cup {"new", "committed", "answered"}]
  /\ key \in [Reqs -> Keys \cup {NULL}]
  /\ print \in [Reqs -> Prints \cup {NULL}]
  /\ recorded \in [Reqs -> BOOLEAN]
  /\ response \in [Reqs -> Responses \cup {NULL}]
  /\ ran \subseteq Reqs
  /\ swept \subseteq Keys
  /\ \A r \in Reqs : pc[r] \notin {"new"} => print[r] \in Prints
  /\ \A r \in Reqs : pc[r] \in {"waiting", "lookup"} \/ recorded[r] => key[r] \in Keys
  /\ \A r \in Reqs : recorded[r] => pc[r] \in {"work", "committed", "answered"}
  /\ \A r \in Reqs : (pc[r] = "answered") <=> (response[r] # NULL)

Init ==
  /\ row = [k \in Keys |-> NULL]
  /\ pc = [r \in Reqs |-> "new"]
  /\ key = [r \in Reqs |-> NULL]
  /\ print = [r \in Reqs |-> NULL]
  /\ recorded = [r \in Reqs |-> FALSE]
  /\ response = [r \in Reqs |-> NULL]
  /\ ran = {} /\ swept = {}

-----------------------------------------------------------------------------
Go(r, where) == pc' = [pc EXCEPT ![r] = where]

Answer(r, kind, outcome) ==
  /\ Go(r, "answered")
  /\ response' = [response EXCEPT ![r] = [kind |-> kind, outcome |-> outcome]]

(* Mutant: a key stays held when the transaction that inserted it fails.   *)
HeldForever(k) == \E q \in Reqs : recorded[q] /\ key[q] = k

(* Another transaction has inserted the key and not ended.                 *)
Held(k) == \E q \in Reqs : pc[q] = "work" /\ recorded[q] /\ key[q] = k

(* A POST arrives, authenticated and validated, with or without a key;     *)
(* its transaction begins.                                                 *)
Arrive(r, k, p) ==
  /\ pc[r] = "new"
  /\ Go(r, "begin")
  /\ key' = [key EXCEPT ![r] = k]
  /\ print' = [print EXCEPT ![r] = p]
  /\ UNCHANGED <<row, recorded, response, ran, swept>>

-----------------------------------------------------------------------------
(* idem.begin                                                              *)

(* No key: the handler runs unrecorded.                                    *)
BeginWithoutKey(r) ==
  /\ pc[r] = "begin" /\ key[r] = NULL
  /\ Go(r, "work")
  /\ UNCHANGED <<row, key, print, recorded, response, ran, swept>>

(* The INSERT finds the key inserted by a running transaction: it waits.   *)
MeetHolder(r) ==
  /\ pc[r] = "begin" /\ key[r] # NULL /\ Held(key[r])
  /\ Go(r, "waiting")
  /\ UNCHANGED <<row, key, print, recorded, response, ran, swept>>

(* Mutant: nothing keeps two transactions from inserting one key.          *)
InsertableUnchecked(k) == row[k] = NULL

(* No committed row of the key, and no transaction about to commit one.    *)
Insertable(k) == row[k] = NULL /\ ~ Held(k)

(* INSERT ... ON CONFLICT DO NOTHING, once nobody holds the key.           *)
InsertKey(r) ==
  /\ pc[r] \in {"begin", "waiting"} /\ key[r] # NULL
  /\ \/ /\ Insertable(key[r])
        /\ Go(r, "work")
        /\ recorded' = [recorded EXCEPT ![r] = TRUE]
     \/ /\ row[key[r]] # NULL
        /\ Go(r, "lookup")
        /\ UNCHANGED recorded
  /\ UNCHANGED <<row, key, print, response, ran, swept>>

(* What a row answers to a request that found it.                          *)
AnswerOfRow(r, found) ==
  IF found.print # print[r] THEN [kind |-> "mismatch", outcome |-> NULL]
  ELSE IF found.status = "in_flight" THEN [kind |-> "in_flight", outcome |-> NULL]
  ELSE [kind |-> "replay", outcome |-> found.outcome]

(* The SELECT after a conflict is a statement of its own: the row it       *)
(* conflicted with may have been swept, and then the handler runs          *)
(* unrecorded (idempotency.js:37).                                         *)
Lookup(r) ==
  LET found == row[key[r]]
  IN  /\ pc[r] = "lookup"
      /\ \/ /\ found = NULL
            /\ Go(r, "work")
            /\ UNCHANGED response
         \/ /\ found # NULL
            /\ Answer(r, AnswerOfRow(r, found).kind, AnswerOfRow(r, found).outcome)
      /\ UNCHANGED <<row, key, print, recorded, ran, swept>>

-----------------------------------------------------------------------------
(* The handler, idem.finish and COMMIT.                                    *)

(* Mutant: idem.finish is left to a transaction after the COMMIT and lost. *)
CommittedRowsForgetful(r) == row

(* idem.finish completes the row this transaction inserted, if it did.     *)
CommittedRows(r) ==
  IF recorded[r]
  THEN [row EXCEPT ![key[r]] =
          [print |-> print[r], status |-> "done", outcome |-> r]]
  ELSE row

Commit(r) ==
  /\ pc[r] = "work"
  /\ row' = CommittedRows(r)
  /\ ran' = ran \cup {r}
  /\ Go(r, "committed")
  /\ UNCHANGED <<key, print, recorded, response, swept>>

(* The answer is sent and arrives; or the acknowledgement of the COMMIT    *)
(* was lost, so that the server answers 500; or the client gets nothing.   *)
Respond(r) ==
  /\ pc[r] = "committed"
  /\ Answer(r, "ok", r)
  /\ UNCHANGED <<row, key, print, recorded, ran, swept>>

LoseAcknowledgement(r) ==
  /\ pc[r] = "committed"
  /\ \/ Answer(r, "error", NULL)
     \/ Answer(r, "lost", NULL)
  /\ UNCHANGED <<row, key, print, recorded, ran, swept>>

(* Mutant: a failed request leaves its key row behind.                     *)
RowsAfterFailureKept(r) ==
  IF recorded[r]
  THEN [row EXCEPT ![key[r]] =
          [print |-> print[r], status |-> "done", outcome |-> r]]
  ELSE row

RowsAfterFailure(r) == row

(* ROLLBACK: the handler threw a problem, a statement failed or timed out, *)
(* or the worker died.  Row and writes are gone, so a retry runs again.    *)
Fail(r) ==
  /\ pc[r] \in InTransaction
  /\ \/ Answer(r, "error", NULL)
     \/ Answer(r, "lost", NULL)
  /\ row' = RowsAfterFailure(r)
  /\ UNCHANGED <<key, print, recorded, ran, swept>>

-----------------------------------------------------------------------------
(* scripts/sweep_idempotency.js deletes a committed row past retention.    *)
Sweep(k) ==
  /\ row[k] # NULL
  /\ row' = [row EXCEPT ![k] = NULL]
  /\ swept' = swept \cup {k}
  /\ UNCHANGED <<pc, key, print, recorded, response, ran>>

Advance(r) ==
  \/ BeginWithoutKey(r) \/ InsertKey(r) \/ Lookup(r) \/ Commit(r) \/ Respond(r)

Next ==
  \/ \E r \in Reqs :
       \/ \E k \in Keys \cup {NULL}, p \in Prints : Arrive(r, k, p)
       \/ Advance(r) \/ MeetHolder(r) \/ LoseAcknowledgement(r) \/ Fail(r)
  \/ \E k \in Keys : Sweep(k)

(* The event loop and the database keep running what they have begun;      *)
(* nothing has to arrive, fail or be swept.                                *)
Fairness == \A r \in Reqs : WF_vars(Advance(r))

Spec == Init /\ [][Next]_vars /\ Fairness

-----------------------------------------------------------------------------
(* Properties.                                                             *)

(* However often and however concurrently a call is repeated under a key,  *)
(* whatever fails or gets lost, it takes effect at most once for as long   *)
(* as the sweep has not touched the key (idempotency.js:2-7).              *)
AtMostOnce ==
  \A r, q \in ran : key[r] = key[q] /\ key[r] # NULL /\ key[r] \notin swept => r = q

Succeeded(r) == response[r] # NULL /\ response[r].kind \in {"ok", "replay"}

(* All successful answers under an unswept key are the same one, that of   *)
(* the only run: a replay is byte-identical (idempotency.js:4).            *)
OneOutcomePerKey ==
  \A r, q \in Reqs :
    /\ Succeeded(r) /\ Succeeded(q)
    /\ key[r] = key[q] /\ key[r] # NULL /\ key[r] \notin swept
    => response[r].outcome = response[q].outcome

(* An answer says what happened, swept or not: success means a committed   *)
(* run of the same request, one's own or that of a call with this key and  *)
(* this fingerprint; a mismatch means that one's own call did not run and  *)
(* one with another fingerprint did; so a call that failed can be retried  *)
(* under its key.                                                          *)
AnswersAreHonest ==
  \A r \in Reqs : response[r] # NULL =>
    /\ response[r].kind = "ok" => response[r].outcome = r /\ r \in ran
    /\ response[r].kind = "replay" =>
         /\ response[r].outcome \in ran
         /\ key[response[r].outcome] = key[r]
         /\ print[response[r].outcome] = print[r]
         /\ r \notin ran
    /\ response[r].kind = "mismatch" =>
         /\ r \notin ran
         /\ \E q \in ran : key[q] = key[r] /\ print[q] # print[r]

(* A request that arrived is answered, or its client knows that it is      *)
(* lost: waiting for a key's holder always ends.                           *)
EveryRequestAnswered ==
  \A r \in Reqs : pc[r] = "begin" ~> pc[r] = "answered"

(* The protocol as an implementation of KeyedExecution.                    *)
Runs       == {[key |-> key[r], outcome |-> r] : r \in ran}
Remembered == [k \in Keys |-> IF row[k] = NULL THEN NULL ELSE row[k].outcome]
Answers    == {[key |-> key[r], outcome |-> response[r].outcome] :
                 r \in {q \in Reqs : Succeeded(q)}}

Promise == INSTANCE KeyedExecution WITH
  Outcomes   <- Reqs,
  runs       <- Runs,
  remembered <- Remembered,
  forgotten  <- swept,
  answers    <- Answers

(* Every behaviour of the protocol is one of KeyedExecution.               *)
KeepsPromise == Promise!Spec

-----------------------------------------------------------------------------
(* What makes the safety properties inductive.                             *)

(* One transaction at a time holds a key, and only while no row is         *)
(* committed; who runs unrecorded has no key or one that was swept.        *)
HoldersOK ==
  /\ \A r, q \in Reqs :
       /\ pc[r] = "work" /\ recorded[r] /\ pc[q] = "work" /\ recorded[q]
       /\ key[r] = key[q]
       => r = q
  /\ \A r \in Reqs : pc[r] = "work" /\ recorded[r] => row[key[r]] = NULL
  /\ \A r \in Reqs : pc[r] = "lookup" => row[key[r]] # NULL \/ key[r] \in swept
  /\ \A r \in Reqs : pc[r] = "work" /\ ~ recorded[r] => key[r] = NULL \/ key[r] \in swept

(* The rows are the memory of the committed runs.                          *)
RowsOK ==
  /\ \A r \in ran : key[r] # NULL /\ key[r] \notin swept =>
       row[key[r]] # NULL /\ row[key[r]].outcome = r
  /\ \A k \in Keys : row[k] # NULL =>
       /\ row[k].status = "done"
       /\ row[k].outcome \in ran
       /\ key[row[k].outcome] = k
       /\ print[row[k].outcome] = row[k].print
  /\ \A r \in Reqs : pc[r] = "committed" => r \in ran
  /\ \A r \in ran : pc[r] \in {"committed", "answered"}
=============================================================================
