---------------------------- MODULE Transactions ----------------------------
(***************************************************************************)
(* What withTenant() promises its callers: each call runs its program      *)
(* among the rows of its own tenant, and leaves all of its rows or none.   *)
(* A SELECT sees what is committed when it runs, and the call's own rows.  *)
(* WithTenant.tla shows how the pool, PgBouncer and the policies keep the  *)
(* promise.                                                                *)
(***************************************************************************)
EXTENDS Statements

VARIABLE made  \* the rows that a call has inserted and not committed

txVars == <<program, step, seen, made, rows, outcome>>

TxInit ==
  /\ program = [c \in Calls |-> <<>>]
  /\ step = [c \in Calls |-> 0]
  /\ seen = [c \in Calls |-> {}]
  /\ made = [c \in Calls |-> {}]
  /\ rows = {}
  /\ outcome = [c \in Calls |-> "new"]

(* The caller has what it wanted of a call that inserts nothing.           *)
TxSpent(c) == outcome[c] \notin {"new", "open"} /\ RowsMade(c, program[c]) = {}

(* A call is made, the first or the next of its caller.                    *)
TxCall(c, p) ==
  /\ outcome[c] = "new" \/ TxSpent(c)
  /\ program' = [program EXCEPT ![c] = p]
  /\ step' = [step EXCEPT ![c] = 0]
  /\ seen' = [seen EXCEPT ![c] = {}]
  /\ outcome' = [outcome EXCEPT ![c] = "open"]
  /\ UNCHANGED <<made, rows>>

TxDiscard(c) ==
  /\ TxSpent(c)
  /\ program' = [program EXCEPT ![c] = <<>>]
  /\ step' = [step EXCEPT ![c] = 0]
  /\ seen' = [seen EXCEPT ![c] = {}]
  /\ outcome' = [outcome EXCEPT ![c] = "new"]
  /\ UNCHANGED <<made, rows>>

TxRunning(c, ops) ==
  /\ outcome[c] = "open" /\ step[c] < Len(program[c])
  /\ program[c][step[c] + 1].op \in ops

TxFound(c) ==
  {r \in rows \cup made[c] : r.tenant = TenantOf[c] /\ Matches(program[c][step[c] + 1], r)}

TxEnds(c, what) ==
  /\ outcome' = [outcome EXCEPT ![c] = what]
  /\ made' = [made EXCEPT ![c] = {}]

TxSelect(c) ==
  /\ TxRunning(c, {"one", "none", "list"})
  /\ seen' = [seen EXCEPT ![c] = @ \cup TxFound(c)]
  /\ IF Refuses(program[c][step[c] + 1], TxFound(c))
     THEN TxEnds(c, "problem") /\ UNCHANGED step
     ELSE step' = [step EXCEPT ![c] = @ + 1] /\ UNCHANGED <<made, outcome>>
  /\ UNCHANGED <<program, rows>>

TxInsert(c) ==
  LET r == RowMade(c, program[c], step[c] + 1)
  IN  /\ TxRunning(c, {"insert"})
      /\ \A q \in rows \cup UNION {made[d] : d \in Calls} : ~ SameName(q, r)
      /\ KeysHeld(r)
      /\ made' = [made EXCEPT ![c] = @ \cup {r}]
      /\ step' = [step EXCEPT ![c] = @ + 1]
      /\ UNCHANGED <<program, seen, rows, outcome>>

(* Only a call that is told of its COMMIT may say so.                      *)
TxCommit(c) ==
  /\ outcome[c] = "open" /\ step[c] = Len(program[c])
  /\ rows' = rows \cup made[c]
  /\ \E what \in {"ok", "error"} : TxEnds(c, what)
  /\ UNCHANGED <<program, step, seen>>

TxAbort(c) ==
  /\ outcome[c] = "open"
  /\ \E what \in {"problem", "error"} : TxEnds(c, what)
  /\ UNCHANGED <<program, step, seen, rows>>

(* The worker dies, and the transactions of its calls with it.             *)
TxCrash ==
  /\ outcome' = [c \in Calls |-> IF outcome[c] = "open" THEN "gone" ELSE outcome[c]]
  /\ made' = [c \in Calls |-> IF outcome[c] = "open" THEN {} ELSE made[c]]
  /\ UNCHANGED <<program, step, seen, rows>>

TxNext ==
  \/ \E c \in Calls :
       \/ \E p \in Programs[c] : TxCall(c, p)
       \/ TxDiscard(c)
       \/ TxSelect(c) \/ TxInsert(c) \/ TxCommit(c) \/ TxAbort(c)
  \/ TxCrash

TxSpec == TxInit /\ [][TxNext]_txVars
=============================================================================
