--------------------------- MODULE KeyedExecution ---------------------------
(***************************************************************************)
(* What an Idempotency-Key promises its client, with no word about         *)
(* transactions: a call made under a key runs once for as long as the      *)
(* server remembers the key, and every successful answer given under the   *)
(* key is the outcome of a run under that key.  Forgetting is allowed (the *)
(* sweep), and after it the key protects no more.                          *)
(***************************************************************************)
CONSTANTS
  Keys,     \* (tenant, Idempotency-Key) pairs
  Outcomes, \* outcomes of runs, each unique to its run
  NULL

VARIABLES
  runs,       \* the runs that took effect: [key, outcome], key NULL if none was sent
  remembered, \* [Keys -> Outcomes or NULL]: what a repeated call is answered with
  forgotten,  \* the keys that were ever swept
  answers     \* the successful answers given: [key, outcome]

vars == <<runs, remembered, forgotten, answers>>

Init ==
  /\ runs = {}
  /\ remembered = [k \in Keys |-> NULL]
  /\ forgotten = {}
  /\ answers = {}

(* A call under a key that is not remembered runs and is remembered.       *)
Run(k, o) ==
  /\ remembered[k] = NULL
  /\ k \notin forgotten => \A u \in runs : u.key # k
  /\ runs' = runs \cup {[key |-> k, outcome |-> o]}
  /\ remembered' = [remembered EXCEPT ![k] = o]
  /\ UNCHANGED <<forgotten, answers>>

(* A call without a key, or under a key that was forgotten, just runs.     *)
RunUnprotected(k, o) ==
  /\ k = NULL \/ k \in forgotten
  /\ runs' = runs \cup {[key |-> k, outcome |-> o]}
  /\ UNCHANGED <<remembered, forgotten, answers>>

Forget(k) ==
  /\ remembered[k] # NULL
  /\ remembered' = [remembered EXCEPT ![k] = NULL]
  /\ forgotten' = forgotten \cup {k}
  /\ UNCHANGED <<runs, answers>>

Answer(u) ==
  /\ u \in runs
  /\ answers' = answers \cup {u}
  /\ UNCHANGED <<runs, remembered, forgotten>>

Next ==
  \/ \E k \in Keys, o \in Outcomes : Run(k, o)
  \/ \E k \in Keys \cup {NULL}, o \in Outcomes : RunUnprotected(k, o)
  \/ \E k \in Keys : Forget(k)
  \/ \E u \in runs : Answer(u)

Spec == Init /\ [][Next]_vars
=============================================================================
