----------------------------- MODULE Statements -----------------------------
(***************************************************************************)
(* What the callers of withTenant() (src/src/db.js) do in a transaction:   *)
(* programs, sequences of SELECTs and INSERTs on rows that belong to one   *)
(* another.  A row is named by the call that inserts it and the place of   *)
(* the INSERT in its program.  Only what the properties tell apart of a    *)
(* row is kept: its tenant, what it belongs to, what else it refers to,    *)
(* and its unique name.                                                    *)
(***************************************************************************)
EXTENDS Integers, Sequences

CONSTANTS
  Calls,     \* calls of withTenant
  TenantOf,  \* [call -> its first argument, NULL: without tenant]
  Programs,  \* [call -> the programs it may run]
  Tenants,
  NULL

(* "one" and "none": the handler goes on only if the SELECT finds a row,   *)
(* or none.  of: the call whose row is meant, or to whose row the rows     *)
(* belong; name: the value of a unique column, in "one" also of one of the *)
(* call's rows; refs: foreign keys beside it, to rows of a table that a    *)
(* call has made.                                                          *)
Statement == [op : {"one", "none", "list", "insert"}, table : STRING,
              of : Calls \cup {NULL}, name : STRING \cup {NULL},
              refs : SUBSET (STRING \X Calls)]

(* Only a call with a tenant inserts.                                      *)
ASSUME StatementsAssumption ==
  /\ TenantOf \in [Calls -> Tenants \cup {NULL}]
  /\ NULL \notin Tenants /\ NULL \notin Calls
  /\ \A c \in Calls : Programs[c] \subseteq Seq(Statement)
  /\ \A c \in Calls : \A p \in Programs[c] : \A i \in 1..Len(p) :
       p[i].op = "insert" => TenantOf[c] # NULL

(* The state of the calls that their callers see; the rest of it is of the *)
(* pool (WithTenant.tla), or of the promise (Transactions.tla).            *)
VARIABLES
  program, \* what fn does for a call
  step,    \* how many statements of it are done
  seen,    \* the rows that the SELECTs of a call returned
  rows,    \* committed rows
  outcome  \* what became of a call; "new": not made yet

Row == [tenant : Tenants, table : STRING, by : Calls, n : Nat,
        of : Calls \cup {NULL}, name : STRING \cup {NULL},
        refs : SUBSET (STRING \X Calls)]

(* The row that statement i of the program p inserts for the call.         *)
RowMade(c, p, i) ==
  [tenant |-> TenantOf[c], table |-> p[i].table, by |-> c, n |-> i,
   of |-> p[i].of, name |-> p[i].name, refs |-> p[i].refs]

(* The rows of the first n statements, and of them all.                    *)
RowsUpTo(c, p, n) == {RowMade(c, p, i) : i \in {j \in 1..n : p[j].op = "insert"}}
RowsMade(c, p) == RowsUpTo(c, p, Len(p))

(* Does the WHERE of the SELECT hold for the row?                          *)
Matches(s, r) ==
  /\ r.table = s.table
  /\ s.op = "one" => r.by = s.of /\ s.name \in {NULL, r.name}
  /\ s.op = "list" => s.of \in {NULL, r.of}
  /\ s.op = "none" => r.name = s.name

(* Does the handler refuse, given the rows it has found?                   *)
Refuses(s, found) ==
  \/ s.op = "one" /\ found = {}
  \/ s.op = "none" /\ found # {}

(* The foreign keys: what a row refers to is there, in whatever tenant, as *)
(* PostgreSQL checks them without the policies.                            *)
KeysHeld(r) == \A ref \in r.refs : \E q \in rows : ref = <<q.table, q.by>>

(* The unique indexes, tenant_id leading.                                  *)
SameName(q, r) ==
  /\ q.name # NULL /\ q.name = r.name /\ q.of = r.of
  /\ q.table = r.table /\ q.tenant = r.tenant
=============================================================================
