----------------------------- MODULE WithTenant -----------------------------
(***************************************************************************)
(* withTenant() of src/src/db.js, "the only permitted path to the          *)
(* database": every call takes a client of the worker's pool, opens a      *)
(* transaction, sets app.tenant_id in it, runs the statements of its       *)
(* caller, and commits or rolls back.  The policies of 001_init.sql read   *)
(* the setting back.                                                       *)
(*                                                                         *)
(* Between the clients and PostgreSQL stands PgBouncer: a client has a     *)
(* server connection only while its transaction is open, and the next      *)
(* client finds that connection as the transaction has left it.            *)
(*                                                                         *)
(* What a caller does is a program of statements (Statements.tla); what a  *)
(* call is promised, Transactions.tla says.                                *)
(***************************************************************************)
EXTENDS Statements

CONSTANTS
  Clients,   \* the pool's clients: config.db.max of them
  Servers,   \* PgBouncer's server connections
  EMPTY      \* the setting '' of a connection that had one before

ASSUME PoolAssumption ==
  EMPTY \notin Tenants \cup {NULL} /\ NULL \notin Clients /\ NULL \notin Servers

VARIABLES
  pc,      \* where each call is
  client,  \* the client it holds
  link,    \* the server connection that PgBouncer has given a client
  server,  \* the session at the other end of each server connection
  unsure   \* history: calls whose COMMIT was done but never acknowledged

poolVars == <<pc, program, step, client, link, server, rows, seen, outcome, unsure>>

-----------------------------------------------------------------------------
(* The session at the other end of a server connection.                    *)

(* NULLIF(current_setting('app.tenant_id', true), '')                      *)
CurrentTenant(setting) == IF setting = EMPTY THEN NULL ELSE setting

(* USING and WITH CHECK, the same everywhere.                              *)
Policy(session, r) == r.tenant = CurrentTenant(session.setting)

(* What a statement of the session sees: READ COMMITTED.                   *)
Visible(session) == {r \in rows \cup session.pending : Policy(session, r)}

Cold == [setting |-> NULL, tx |-> "none", pending |-> {}]

(* Mutant: set_config(..., false), for the session.                        *)
SettingAfterKept(setting) == setting

(* set_config(..., true): the setting ends with the transaction, and then  *)
(* it is '', no longer NULL.                                               *)
SettingAfter(setting) == IF setting = NULL THEN NULL ELSE EMPTY

Ended(session) ==
  [setting |-> SettingAfter(session.setting), tx |-> "none", pending |-> {}]

-----------------------------------------------------------------------------
(* Types.                                                                  *)

Session == [setting : Tenants \cup {NULL, EMPTY}, tx : {"none", "open", "failed"},
            pending : SUBSET Row]

PoolTypeOK ==
  /\ pc \in [Calls -> {"idle", "connect", "begin", "context", "run", "rollback", "done"}]
  /\ \A c \in Calls : program[c] \in Programs[c] \cup {<<>>}
  /\ DOMAIN program = Calls
  /\ step \in [Calls -> Nat]
  /\ client \in [Calls -> Clients \cup {NULL}]
  /\ link \in [Clients -> Servers \cup {NULL}]
  /\ server \in [Servers -> Session]
  /\ rows \subseteq Row
  /\ seen \in [Calls -> SUBSET Row]
  /\ outcome \in [Calls -> {"new", "open", "ok", "problem", "error", "gone"}]
  /\ unsure \subseteq Calls

PoolInit ==
  /\ pc = [c \in Calls |-> "idle"]
  /\ program = [c \in Calls |-> <<>>]
  /\ step = [c \in Calls |-> 0]
  /\ client = [c \in Calls |-> NULL]
  /\ link = [k \in Clients |-> NULL]
  /\ server = [s \in Servers |-> Cold]
  /\ rows = {}
  /\ seen = [c \in Calls |-> {}]
  /\ outcome = [c \in Calls |-> "new"]
  /\ unsure = {}

-----------------------------------------------------------------------------
(* The pool and PgBouncer.                                                 *)

IdleClients == {k \in Clients : \A c \in Calls : client[c] # k}

(* The connection that a query of the client goes to.                      *)
ServersFor(k) ==
  IF link[k] # NULL THEN {link[k]}
  ELSE {s \in Servers : \A j \in Clients : link[j] # s}

(* The session of a call inside its transaction.                           *)
SessionOf(c) == server[link[client[c]]]

(* A query of the call leaves the session as given; PgBouncer takes the    *)
(* connection back if no transaction is open.                              *)
Query(c, s, session) ==
  /\ server' = [server EXCEPT ![s] = session]
  /\ link' = [link EXCEPT ![client[c]] = IF session.tx = "none" THEN NULL ELSE s]

(* The connection is gone, and with it the transaction.                    *)
DropLink(k) ==
  /\ link' = [link EXCEPT ![k] = NULL]
  /\ server' = IF link[k] = NULL THEN server ELSE [server EXCEPT ![link[k]] = Cold]

(* Mutant: release comes after COMMIT, in the try.                         *)
FinishLeaking(c) ==
  /\ pc' = [pc EXCEPT ![c] = "done"]
  /\ client' = IF outcome[c] = "open" THEN [client EXCEPT ![c] = NULL] ELSE client

(* finally: the client goes back to the pool.                              *)
Finish(c) ==
  /\ pc' = [pc EXCEPT ![c] = "done"]
  /\ client' = [client EXCEPT ![c] = NULL]

Fail(c, what) ==
  /\ pc' = [pc EXCEPT ![c] = "rollback"]
  /\ outcome' = [outcome EXCEPT ![c] = what]

-----------------------------------------------------------------------------
(* withTenant.                                                             *)

(* The caller has what it wanted of a call that inserts nothing.           *)
Spent(c) == pc[c] = "done" /\ RowsMade(c, program[c]) = {}

Call(c, p) ==
  /\ pc[c] = "idle" \/ Spent(c)
  /\ pc' = [pc EXCEPT ![c] = "connect"]
  /\ program' = [program EXCEPT ![c] = p]
  /\ step' = [step EXCEPT ![c] = 0]
  /\ seen' = [seen EXCEPT ![c] = {}]
  /\ outcome' = [outcome EXCEPT ![c] = "open"]
  /\ UNCHANGED <<client, link, server, rows, unsure>>

Discard(c) ==
  /\ Spent(c)
  /\ pc' = [pc EXCEPT ![c] = "idle"]
  /\ program' = [program EXCEPT ![c] = <<>>]
  /\ step' = [step EXCEPT ![c] = 0]
  /\ seen' = [seen EXCEPT ![c] = {}]
  /\ outcome' = [outcome EXCEPT ![c] = "new"]
  /\ UNCHANGED <<client, link, server, rows, unsure>>

(* BEGIN, set_config if there is a tenant, then fn.                        *)
AfterStage(c, stage) ==
  CASE stage = "connect" -> "begin"
    [] stage = "begin" /\ TenantOf[c] # NULL -> "context"
    [] OTHER -> "run"

(* pool.connect: an idle client, or a new one if the pool is not full.     *)
Connect(c) ==
  /\ pc[c] = "connect"
  /\ \E k \in IdleClients : client' = [client EXCEPT ![c] = k]
  /\ pc' = [pc EXCEPT ![c] = AfterStage(c, "connect")]
  /\ UNCHANGED <<program, step, link, server, rows, seen, outcome, unsure>>

(* No connection can be made: nothing to release.                          *)
ConnectFails(c) ==
  /\ pc[c] = "connect"
  /\ pc' = [pc EXCEPT ![c] = "done"]
  /\ outcome' = [outcome EXCEPT ![c] = "error"]
  /\ UNCHANGED <<program, step, client, link, server, rows, seen, unsure>>

(* In an open transaction BEGIN only warns.                                *)
Begin(c) ==
  /\ pc[c] = "begin"
  /\ \E s \in ServersFor(client[c]) :
       Query(c, s, IF server[s].tx = "none" THEN [server[s] EXCEPT !.tx = "open"] ELSE server[s])
  /\ pc' = [pc EXCEPT ![c] = AfterStage(c, "begin")]
  /\ UNCHANGED <<program, step, client, rows, seen, outcome, unsure>>

SetConfig(c) ==
  /\ pc[c] = "context"
  /\ \E s \in ServersFor(client[c]) :
       LET set == [server[s] EXCEPT !.setting = TenantOf[c]]
       IN  Query(c, s, IF set.tx = "none" THEN Ended(set) ELSE set)
  /\ pc' = [pc EXCEPT ![c] = AfterStage(c, "context")]
  /\ UNCHANGED <<program, step, client, rows, seen, outcome, unsure>>

(* fn sends its next statement.                                            *)
Running(c, ops) ==
  /\ pc[c] = "run" /\ step[c] < Len(program[c])
  /\ program[c][step[c] + 1].op \in ops

Found(c) == {r \in Visible(SessionOf(c)) : Matches(program[c][step[c] + 1], r)}

(* What the handler expects is there: it goes on, or throws an ApiProblem. *)
Select(c) ==
  /\ Running(c, {"one", "none", "list"})
  /\ seen' = [seen EXCEPT ![c] = @ \cup Found(c)]
  /\ IF Refuses(program[c][step[c] + 1], Found(c))
     THEN Fail(c, "problem") /\ UNCHANGED step
     ELSE step' = [step EXCEPT ![c] = @ + 1] /\ UNCHANGED <<pc, outcome>>
  /\ UNCHANGED <<program, client, link, server, rows, unsure>>

Refused(c) ==
  /\ server' = [server EXCEPT ![link[client[c]]].tx = "failed"]
  /\ Fail(c, "error")

(* WITH CHECK, the foreign keys and the unique index: a name that another  *)
(* transaction has inserted but not committed is waited for, one that is   *)
(* there refuses.                                                          *)
Insert(c) ==
  LET r == RowMade(c, program[c], step[c] + 1)
  IN  /\ Running(c, {"insert"})
      /\ \A s \in Servers \ {link[client[c]]} :
           \A q \in server[s].pending : ~ SameName(q, r)
      /\ IF /\ Policy(SessionOf(c), r)
            /\ \A q \in rows \cup SessionOf(c).pending : ~ SameName(q, r)
            /\ KeysHeld(r)
         THEN /\ server' = [server EXCEPT ![link[client[c]]].pending = @ \cup {r}]
              /\ step' = [step EXCEPT ![c] = @ + 1]
              /\ UNCHANGED <<pc, outcome>>
         ELSE Refused(c) /\ UNCHANGED step
      /\ UNCHANGED <<program, client, link, rows, seen, unsure>>

(* PostgreSQL refuses a statement: the statement_timeout, a constraint.    *)
StatementFails(c) ==
  /\ pc[c] = "run" /\ step[c] < Len(program[c])
  /\ Refused(c)
  /\ UNCHANGED <<program, step, client, link, rows, seen, unsure>>

(* A handler throws: a check of its own fails.                             *)
HandlerThrows(c) ==
  /\ pc[c] = "run" /\ TenantOf[c] # NULL
  /\ Fail(c, "problem")
  /\ UNCHANGED <<program, step, client, link, server, rows, seen, unsure>>

(* COMMIT of a failed transaction is a rollback, and no error.             *)
Committed(session) == IF session.tx = "open" THEN rows \cup session.pending ELSE rows

AtCommit(c) == pc[c] = "run" /\ step[c] = Len(program[c])

Commit(c) ==
  /\ AtCommit(c)
  /\ rows' = Committed(SessionOf(c))
  /\ Query(c, link[client[c]], Ended(SessionOf(c)))
  /\ outcome' = [outcome EXCEPT ![c] = "ok"]
  /\ Finish(c)
  /\ UNCHANGED <<program, step, seen, unsure>>

(* COMMIT is done, but the connection goes before the answer comes.        *)
CommitUnacknowledged(c) ==
  /\ AtCommit(c)
  /\ rows' = Committed(SessionOf(c))
  /\ unsure' = unsure \cup {r.by : r \in SessionOf(c).pending}
  /\ DropLink(client[c])
  /\ Fail(c, "error")
  /\ UNCHANGED <<program, step, client, seen>>

(* A query fails with its connection.                                      *)
ConnectionLost(c) ==
  /\ pc[c] \in {"begin", "context", "run"}
  /\ DropLink(client[c])
  /\ Fail(c, "error")
  /\ UNCHANGED <<program, step, client, rows, seen, unsure>>

(* Mutant: the catch rethrows, and no more.                                *)
NotRolledBack(session) == session

RolledBack(session) == Ended(session)

(* The catch and the finally.  If the connection is gone, so is the        *)
(* transaction, and the pool replaces the client.                          *)
Rollback(c) ==
  /\ pc[c] = "rollback"
  /\ IF link[client[c]] = NULL THEN UNCHANGED <<link, server>>
     ELSE Query(c, link[client[c]], RolledBack(SessionOf(c)))
  /\ Finish(c)
  /\ UNCHANGED <<program, step, rows, seen, outcome, unsure>>

(* The worker dies, and every connection of its pool with it.              *)
Crash ==
  LET live == {c \in Calls : pc[c] \notin {"idle", "done"}}
  IN  /\ pc' = [c \in Calls |-> IF c \in live THEN "done" ELSE pc[c]]
      /\ outcome' = [c \in Calls |-> IF outcome[c] = "open" THEN "gone" ELSE outcome[c]]
      /\ client' = [c \in Calls |-> NULL]
      /\ link' = [k \in Clients |-> NULL]
      /\ server' = [s \in Servers |-> IF \E k \in Clients : link[k] = s THEN Cold ELSE server[s]]
      /\ UNCHANGED <<program, step, rows, seen, unsure>>

(* A step of a call under way.                                             *)
CallStep(c) ==
  \/ Connect(c) \/ ConnectFails(c) \/ Begin(c) \/ SetConfig(c)
  \/ Select(c) \/ Insert(c) \/ StatementFails(c) \/ HandlerThrows(c)
  \/ Commit(c) \/ CommitUnacknowledged(c) \/ ConnectionLost(c) \/ Rollback(c)

PoolNext ==
  \/ \E c \in Calls : (\E p \in Programs[c] : Call(c, p)) \/ Discard(c) \/ CallStep(c)
  \/ Crash

PoolSpec == PoolInit /\ [][PoolNext]_poolVars

-----------------------------------------------------------------------------
(* Properties.                                                             *)

(* Whatever ran on the connection before, and however it ended: a          *)
(* statement runs in the context of its own call's tenant, in none if the  *)
(* call has no tenant, and a call sees and makes rows of its tenant only.  *)
(* "No context means zero rows - fail closed, never an error, never a      *)
(* leak" (SECURITY.md:17-27; db.js:4-5, 23-24).                            *)
Isolation ==
  \A c \in Calls :
    /\ pc[c] = "run" => CurrentTenant(SessionOf(c).setting) = TenantOf[c]
    /\ \A r \in seen[c] : r.tenant = TenantOf[c]
    /\ \A r \in rows : r.by = c => r.tenant = TenantOf[c]

(* A call that returns has all of its rows committed; one that throws has  *)
(* none, unless the answer to its COMMIT was lost; and never some of them  *)
(* (db.js:29-38).                                                          *)
AllOrNothing ==
  \A c \in Calls :
    LET made == {r \in rows : r.by = c}
    IN  /\ made \in {{}, RowsMade(c, program[c])}
        /\ outcome[c] = "ok" => made = RowsMade(c, program[c])
        /\ made # {} => outcome[c] = "ok" \/ c \in unsure

(* The rows that a call has inserted in its open transaction.              *)
Made(c) == IF pc[c] = "run" THEN SessionOf(c).pending ELSE {}

Promise == INSTANCE Transactions WITH made <- [c \in Calls |-> Made(c)]

(* The pool, PgBouncer and the policies together implement isolated, all   *)
(* or nothing transactions.                                                *)
KeepsPromise == Promise!TxSpec
=============================================================================
