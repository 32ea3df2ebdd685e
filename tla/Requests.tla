------------------------------ MODULE Requests ------------------------------
(***************************************************************************)
(* handle() of src/src/server.js, from the key to the answer, on top of    *)
(* the pool of WithTenant.tla.  A request makes up to three calls of       *)
(* withTenant: the lookup of its key, the touch of last_used_at that       *)
(* nobody waits for, and the one in which the route's handler runs.  The   *)
(* flushes of src/src/usage.js use the same pool.                          *)
(*                                                                         *)
(* Which keys are cached, and when one dies, is in KeyCache.tla; replays   *)
(* are in Idempotency.tla; the rate limit is in RateLimit.tla; what        *)
(* becomes of metered calls is in Usage.tla.  Here each of them may give   *)
(* any result.                                                             *)
(***************************************************************************)
EXTENDS WithTenant

CONSTANTS
  Reqs,   \* requests to authenticated routes
  Flushes \* INSERTs of usage.flush, which the timer begins

ASSUME RequestsAssumption ==
  /\ Calls = (Reqs \X {"key", "handler"}) \cup Flushes
  /\ Flushes \cap (Reqs \X {"key", "handler"}) = {}
  /\ \A r \in Reqs : TenantOf[<<r, "key">>] = NULL

VARIABLES
  stage,   \* where each request is
  metered, \* requests that usage.record was called for
  answer   \* what the client was told

reqVars == <<stage, metered, answer>>
vars == <<poolVars, reqVars>>

(* The lookup and then the touch; the handler's call.                      *)
Key(r) == <<r, "key">>
Handler(r) == <<r, "handler">>

(* The type invariant.                                                     *)
TypeOK ==
  /\ PoolTypeOK
  /\ stage \in [Reqs -> {"new", "lookup", "checks", "handler", "answered", "gone"}]
  /\ metered \subseteq Reqs
  /\ answer \in [Reqs -> {"none", "ok", "problem", "error"}]

Init ==
  /\ PoolInit
  /\ stage = [r \in Reqs |-> "new"]
  /\ metered = {}
  /\ answer = [r \in Reqs |-> "none"]

GoTo(r, s) == stage' = [stage EXCEPT ![r] = s]

Tell(r, what) ==
  /\ answer' = [answer EXCEPT ![r] = what]
  /\ GoTo(r, "answered")

-----------------------------------------------------------------------------
(* authenticate                                                            *)

(* The key is in the cache, or it is looked up.                            *)
CacheHit(r) ==
  /\ stage[r] = "new"
  /\ GoTo(r, "checks")
  /\ UNCHANGED <<poolVars, metered, answer>>

CacheMiss(r) ==
  /\ stage[r] = "new"
  /\ \E p \in Programs[Key(r)] : Call(Key(r), p)
  /\ GoTo(r, "lookup")
  /\ UNCHANGED <<metered, answer>>

(* The record is cached, and the touch begins; or there is no such key.    *)
Looked(r) ==
  /\ stage[r] = "lookup" /\ pc[Key(r)] = "done" /\ outcome[Key(r)] = "ok"
  /\ \/ /\ \E p \in Programs[Key(r)] : Call(Key(r), p)
        /\ GoTo(r, "checks")
        /\ UNCHANGED answer
     \/ Discard(Key(r)) /\ Tell(r, "problem")
  /\ UNCHANGED metered

LookupFailed(r) ==
  /\ stage[r] = "lookup" /\ pc[Key(r)] = "done" /\ outcome[Key(r)] # "ok"
  /\ Discard(Key(r)) /\ Tell(r, "error")
  /\ UNCHANGED metered

(* .catch(() => {}): whatever became of the touch.                         *)
Touched(r) ==
  /\ stage[r] # "lookup" /\ Discard(Key(r))
  /\ UNCHANGED reqVars

-----------------------------------------------------------------------------
(* The rest of handle().                                                   *)

(* The key has expired or lacks the scope, its rate limit is exceeded, or  *)
(* the body is not what it should be; or Redis fails.                      *)
TurnAway(r) ==
  /\ stage[r] = "checks"
  /\ \E what \in {"problem", "error"} : Tell(r, what)
  /\ UNCHANGED <<poolVars, metered>>

(* Mutant: the call is metered when it is made.                            *)
MeteredAtOnce(r) == metered \cup {r}

(* The handler is not run yet: nothing to meter.                           *)
MeteredBefore(r) == metered

(* Every check has passed: the route's handler, in its tenant.             *)
Handle(r) ==
  /\ stage[r] = "checks"
  /\ \E p \in Programs[Handler(r)] : Call(Handler(r), p)
  /\ GoTo(r, "handler")
  /\ metered' = MeteredBefore(r)
  /\ UNCHANGED answer

(* usage.record, then the answer.                                          *)
Answer(r) ==
  /\ stage[r] = "handler" /\ pc[Handler(r)] = "done"
  /\ metered' = IF outcome[Handler(r)] = "ok" THEN metered \cup {r} ELSE metered
  /\ Tell(r, outcome[Handler(r)])
  /\ UNCHANGED poolVars

(* usage.flush, one tenant's batch.                                        *)
Flush(c) ==
  /\ pc[c] = "idle"
  /\ \E p \in Programs[c] : Call(c, p)
  /\ UNCHANGED reqVars

(* The worker dies: PM2 starts another, with an empty cache.               *)
WorkerDies ==
  /\ Crash
  /\ stage' = [r \in Reqs |-> IF stage[r] \in {"new", "answered"} THEN stage[r] ELSE "gone"]
  /\ UNCHANGED <<metered, answer>>

PoolStep(c) == CallStep(c) /\ UNCHANGED reqVars

RequestStep(r) ==
  \/ CacheHit(r) \/ CacheMiss(r) \/ Looked(r) \/ LookupFailed(r) \/ Touched(r)
  \/ TurnAway(r) \/ Handle(r) \/ Answer(r)

Next ==
  \/ \E r \in Reqs : RequestStep(r)
  \/ \E c \in Flushes : Flush(c)
  \/ \E c \in Calls : PoolStep(c)
  \/ WorkerDies

Spec == Init /\ [][Next]_vars

(* The worker goes on with every request, Redis and the database answer:   *)
(* a call that has all that it waits for makes its next step.  That they   *)
(* fail is nowhere assumed.                                                *)
Proceeds(c) ==
  \/ Connect(c) \/ Begin(c) \/ SetConfig(c) \/ Select(c) \/ Insert(c)
  \/ Commit(c) \/ Rollback(c)

Fairness ==
  /\ \A r \in Reqs : WF_vars(RequestStep(r))
  /\ \A c \in Calls : WF_vars(Proceeds(c) /\ UNCHANGED reqVars)

FairSpec == Spec /\ Fairness

-----------------------------------------------------------------------------
(* Properties.                                                             *)

(* What the client is told is what happened: "ok" of a call whose rows are *)
(* all stored, and that is metered; anything else of one that has stored   *)
(* nothing and is not metered, unless the answer to its COMMIT was lost    *)
(* (server.js:198-222).                                                    *)
AnswerIsTrue ==
  \A r \in Reqs : stage[r] = "answered" =>
    LET made == {x \in rows : x.by = Handler(r)}
    IN  IF answer[r] = "ok"
        THEN r \in metered /\ made = RowsMade(Handler(r), program[Handler(r)])
        ELSE r \notin metered /\ (made # {} => answer[r] = "error" /\ Handler(r) \in unsure)

(* Every request is answered, however few clients the pool has and         *)
(* whatever fails, unless its worker dies (server.js:112-231, db.js:27,    *)
(* 40): no call waits for a client while it holds one.                     *)
EveryRequestAnswered ==
  \A r \in Reqs : (stage[r] # "new") ~> (stage[r] \in {"answered", "gone"})
=============================================================================
