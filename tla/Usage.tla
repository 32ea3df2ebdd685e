-------------------------------- MODULE Usage --------------------------------
(***************************************************************************)
(* Metering, from the request to the bill: the buffer of src/src/usage.js  *)
(* in every worker, filled by handle() of src/src/server.js; the nightly   *)
(* scripts/usage_rollup.js; and the sweep of old events.                   *)
(*                                                                         *)
(* A flush takes the whole buffer and then inserts it tenant by tenant,    *)
(* one transaction each.  The timer does not wait for the flush before,    *)
(* so several can run at once.  usage_event.occurred_at is now(): the time *)
(* at which the transaction of the flush began, not that of the request.   *)
(*                                                                         *)
(* The billing service is external: it records a meter event unless it has *)
(* one with that identifier.                                               *)
(***************************************************************************)
EXTENDS Integers, FiniteSets

CONSTANTS
  Workers,   \* worker processes
  Flights,   \* bound: flushes under way at one time
  Runners,   \* bound: runs of usage_rollup.js at one time
  MaxRuns,   \* bound: runs of it in all
  Tenants,
  Calls,     \* bound: the calls that succeed
  Refs,      \* the ids that extractLearnerRef finds: of enrollments and of attempts
  LearnerOf, \* [ref -> the learner whose enrollment or attempt it is]
  MaxDay,    \* bound of the calendar
  Retention, \* days for which raw events are kept
  NULL

Days == 0..MaxDay
Kinds == {"api_call", "learner_active"}

ASSUME UsageAssumption ==
  /\ MaxDay \in Nat /\ Retention \in Nat /\ MaxRuns \in Nat
  /\ IsFiniteSet(Calls) /\ IsFiniteSet(Refs)
  /\ NULL \notin Tenants /\ NULL \notin Refs /\ NULL \notin Days

VARIABLES
  today,
  tenant,   \* the tenant of a call, NULL: not made yet
  subject,  \* what extractLearnerRef found for it, NULL: nothing
  buffer,   \* each worker's buffer: events [call, kind]
  stopping, \* workers that were told to shut down
  flight,   \* flushes under way
  stored,   \* usage_event rows
  swept,    \* history: rows the sweep has deleted
  lost,     \* history: events that never became rows
  made,     \* history: the events that were recorded, with the day of the call
  daily,    \* usage_daily rows
  run,      \* runs of usage_rollup.js under way
  runs,     \* how many there were
  billed,   \* meter events the billing service has recorded
  early     \* history: days aggregated while events of theirs could still come or go

serving == <<tenant, subject, buffer, stopping, flight>>
tables == <<stored, swept, lost, made>>
billing == <<daily, run, runs, billed, early>>
vars == <<today, serving, tables, billing>>

-----------------------------------------------------------------------------
(* Types.                                                                  *)

Events == [call : Calls, kind : Kinds]
EventRow == [event : Events, day : Days]
Flight == [worker : Workers, left : SUBSET Events, writing : SUBSET Events,
           day : Days, final : BOOLEAN]
DailyRow == [calls : Nat, learners : Nat, pushed : BOOLEAN]
Run == [day : Days, rows : [Tenants -> DailyRow \cup {NULL}],
        stage : {"read", "calls", "learners", "mark"}, tenant : Tenants \cup {NULL}]
MeterEvent == [tenant : Tenants, day : Days, kind : Kinds, value : Nat]

ASSUME RowAssumption == NULL \notin Flight /\ NULL \notin DailyRow /\ NULL \notin Run

(* The type invariant; one INSERT holds events of one tenant (the policy   *)
(* of usage_event admits no other).                                        *)
TypeOK ==
  /\ today \in Days
  /\ tenant \in [Calls -> Tenants \cup {NULL}]
  /\ subject \in [Calls -> Refs \cup {NULL}]
  /\ buffer \in [Workers -> SUBSET Events]
  /\ stopping \subseteq Workers
  /\ flight \in [Flights -> Flight \cup {NULL}]
  /\ stored \subseteq EventRow /\ swept \subseteq EventRow /\ lost \subseteq Events
  /\ made \subseteq EventRow
  /\ daily \in [Tenants -> [Days -> DailyRow \cup {NULL}]]
  /\ run \in [Runners -> Run \cup {NULL}] /\ runs \in 0..MaxRuns
  /\ billed \subseteq MeterEvent
  /\ early \subseteq Days
  /\ \A f \in Flights : flight[f] # NULL =>
       /\ flight[f].left \cup flight[f].writing # {}
       /\ \A e, d \in flight[f].writing : tenant[e.call] = tenant[d.call]
  /\ \A g \in Runners : run[g] # NULL =>
       /\ (run[g].tenant = NULL) <=> (run[g].stage = "read")
       /\ run[g].tenant # NULL => run[g].rows[run[g].tenant] # NULL

Init ==
  /\ today = 0
  /\ tenant = [c \in Calls |-> NULL]
  /\ subject = [c \in Calls |-> NULL]
  /\ buffer = [w \in Workers |-> {}]
  /\ stopping = {}
  /\ flight = [f \in Flights |-> NULL]
  /\ stored = {} /\ swept = {} /\ lost = {} /\ made = {}
  /\ daily = [t \in Tenants |-> [d \in Days |-> NULL]]
  /\ run = [g \in Runners |-> NULL] /\ runs = 0
  /\ billed = {} /\ early = {}

Midnight ==
  /\ today < MaxDay
  /\ today' = today + 1
  /\ UNCHANGED <<serving, tables, billing>>

-----------------------------------------------------------------------------
(* A worker: usage.record, flush, start and stop.                          *)

(* A call has succeeded: its transaction is committed and its events are   *)
(* buffered in the same turn.  A learner is active in the calls that       *)
(* complete a lesson, start, answer or submit; ref is NULL for the start.  *)
Serve(w, c, t, active, ref) ==
  /\ tenant[c] = NULL
  /\ tenant' = [tenant EXCEPT ![c] = t]
  /\ subject' = [subject EXCEPT ![c] = ref]
  /\ LET new == [call : {c}, kind : IF active THEN Kinds ELSE {"api_call"}]
     IN  /\ buffer' = [buffer EXCEPT ![w] = @ \cup new]
         /\ made' = made \cup [event : new, day : {today}]
  /\ UNCHANGED <<today, stopping, flight, stored, swept, lost, billing>>

(* Mutant: the batch is copied but stays in the buffer.                    *)
BufferAfterFlushKept(w) == buffer

(* buffer.splice: the flush takes it all.                                  *)
BufferAfterFlush(w) == [buffer EXCEPT ![w] = {}]

TakeBuffer(f, w, final) ==
  /\ flight[f] = NULL /\ buffer[w] # {}
  /\ flight' = [flight EXCEPT ![f] =
       [worker |-> w, left |-> buffer[w], writing |-> {}, day |-> today, final |-> final]]
  /\ buffer' = BufferAfterFlush(w)

(* The timer, cleared when the worker stops.                               *)
Flush(f, w) ==
  /\ w \notin stopping
  /\ TakeBuffer(f, w, FALSE)
  /\ UNCHANGED <<today, tenant, subject, stopping, tables, billing>>

BatchOf(left, t) == {e \in left : tenant[e.call] = t}

(* The next tenant's transaction begins: its now() is taken.               *)
BeginInsert(f, t) ==
  LET left == flight[f].left
  IN  /\ flight[f] # NULL /\ flight[f].writing = {} /\ BatchOf(left, t) # {}
      /\ flight' = [flight EXCEPT ![f].writing = BatchOf(left, t),
                                  ![f].left = left \ BatchOf(left, t),
                                  ![f].day = today]
      /\ UNCHANGED <<today, tenant, subject, buffer, stopping, tables, billing>>

AfterInsert(f) ==
  flight' = [flight EXCEPT ![f] = IF @.left = {} THEN NULL ELSE [@ EXCEPT !.writing = {}]]

CommitInsert(f) ==
  /\ flight[f] # NULL /\ flight[f].writing # {}
  /\ stored' = stored \cup [event : flight[f].writing, day : {flight[f].day}]
  /\ AfterInsert(f)
  /\ UNCHANGED <<today, tenant, subject, buffer, stopping, swept, lost, made, billing>>

(* The transaction fails: a warning is logged and the batch is dropped.    *)
InsertFails(f) ==
  /\ flight[f] # NULL /\ flight[f].writing # {}
  /\ lost' = lost \cup flight[f].writing
  /\ AfterInsert(f)
  /\ UNCHANGED <<today, tenant, subject, buffer, stopping, stored, swept, made, billing>>

(* SIGINT or SIGTERM: the last flush begins, if there is anything to flush.*)
(* Requests under way go on.                                               *)
Stop(w) ==
  /\ w \notin stopping
  /\ stopping' = stopping \cup {w}
  /\ \/ \E f \in Flights : TakeBuffer(f, w, TRUE)
     \/ buffer[w] = {} /\ UNCHANGED <<buffer, flight>>
  /\ UNCHANGED <<today, tenant, subject, tables, billing>>

FlightsOf(w) == {f \in Flights : IF flight[f] = NULL THEN FALSE ELSE flight[f].worker = w}

(* The process ends, and another takes its place.                          *)
Die(w) ==
  /\ lost' = lost \cup buffer[w]
               \cup UNION {flight[f].left \cup flight[f].writing : f \in FlightsOf(w)}
  /\ buffer' = [buffer EXCEPT ![w] = {}]
  /\ flight' = [f \in Flights |-> IF f \in FlightsOf(w) THEN NULL ELSE flight[f]]
  /\ stopping' = stopping \ {w}
  /\ UNCHANGED <<today, tenant, subject, stored, swept, made, billing>>

(* process.exit, once the last flush is over; it waits for no other.       *)
Exit(w) ==
  /\ w \in stopping
  /\ \A f \in FlightsOf(w) : ~ flight[f].final
  /\ Die(w)

(* A crash, or PM2's memory limit.                                         *)
Crash(w) ==
  /\ buffer[w] # {} \/ FlightsOf(w) # {}
  /\ Die(w)

-----------------------------------------------------------------------------
(* scripts/sweep_idempotency.js: raw events past their retention, by the   *)
(* instant, so that a day may go in part.                                  *)
SweepEvent(x) ==
  /\ x \in stored /\ x.day + Retention <= today
  /\ stored' = stored \ {x}
  /\ swept' = swept \cup {x}
  /\ UNCHANGED <<today, serving, lost, made, billing>>

-----------------------------------------------------------------------------
(* scripts/usage_rollup.js                                                 *)

(* Mutant: the end of the day is included.                                 *)
RowsOfInclusive(t, d) ==
  {x \in stored : tenant[x.event.call] = t /\ x.day \in {d, d + 1}}

RowsOf(t, d) == {x \in stored : tenant[x.event.call] = t /\ x.day = d}

CallsIn(rows) == Cardinality({x \in rows : x.event.kind = "api_call"})

(* count(DISTINCT subject_ref): NULL does not count.                       *)
LearnersIn(rows) ==
  Cardinality({subject[x.event.call] :
                 x \in {y \in rows : y.event.kind = "learner_active"}} \ {NULL})

(* More events of the day d can still be stored, or some were swept.       *)
Unsettled(d) ==
  \/ d >= today
  \/ \E f \in Flights : IF flight[f] = NULL THEN FALSE
                        ELSE flight[f].writing # {} /\ flight[f].day = d
  \/ \E x \in swept : x.day = d

(* The upsert, for the day given or yesterday; pushed_at stays as it was.  *)
Aggregate(g, d) ==
  /\ run[g] = NULL /\ runs < MaxRuns
  /\ daily' = [t \in Tenants |->
       IF RowsOf(t, d) = {} THEN daily[t]
       ELSE [daily[t] EXCEPT ![d] =
               [calls    |-> CallsIn(RowsOf(t, d)),
                learners |-> LearnersIn(RowsOf(t, d)),
                pushed   |-> IF @ = NULL THEN FALSE ELSE @.pushed]]]
  /\ run' = [run EXCEPT ![g] =
       [day |-> d, rows |-> [t \in Tenants |-> NULL], stage |-> "read", tenant |-> NULL]]
  /\ runs' = runs + 1
  /\ early' = IF Unsettled(d) THEN early \cup {d} ELSE early
  /\ UNCHANGED <<today, serving, tables, billed>>

(* The SELECT reads what this or another run has stored; rows that were    *)
(* pushed are skipped.  Without any row left the run is over.              *)
ToPush(rows) == {t \in Tenants : IF rows[t] = NULL THEN FALSE ELSE ~ rows[t].pushed}

(* The run goes on with a row that it has not handled, or ends.            *)
NextRow(g, rows) ==
  \/ ToPush(rows) = {} /\ run' = [run EXCEPT ![g] = NULL]
  \/ \E t \in ToPush(rows) :
       run' = [run EXCEPT ![g].rows = rows, ![g].stage = "calls", ![g].tenant = t]

ReadDaily(g) ==
  /\ run[g] # NULL /\ run[g].stage = "read"
  /\ NextRow(g, [t \in Tenants |-> daily[t][run[g].day]])
  /\ UNCHANGED <<today, serving, tables, daily, runs, billed, early>>

(* Mutant: the identifier tells the values apart.                          *)
SameIdentifierByValue(m, n) == m = n

(* The identifier is made of meter, tenant and day.                        *)
SameIdentifier(m, n) == m.kind = n.kind /\ m.tenant = n.tenant /\ m.day = n.day

(* The billing service.                                                    *)
Record(m) == IF \E n \in billed : SameIdentifier(m, n) THEN billed ELSE billed \cup {m}

(* Mutant: the learners are not pushed.                                    *)
NextStageSkipping(stage) == "mark"

NextStage(stage) == IF stage = "calls" THEN "learners" ELSE "mark"

(* One POST to the billing service that it answers with success.           *)
Push(g) ==
  LET r == run[g]
      t == r.tenant
  IN  /\ r # NULL /\ r.stage \in {"calls", "learners"}
      /\ billed' = Record(
           [tenant |-> t, day |-> r.day,
            kind   |-> IF r.stage = "calls" THEN "api_call" ELSE "learner_active",
            value  |-> IF r.stage = "calls" THEN r.rows[t].calls ELSE r.rows[t].learners])
      /\ run' = [run EXCEPT ![g].stage = NextStage(@)]
      /\ UNCHANGED <<today, serving, tables, daily, runs, early>>

MarkPushed(g) ==
  LET r == run[g]
  IN  /\ r # NULL /\ r.stage = "mark"
      /\ daily' = [daily EXCEPT ![r.tenant][r.day].pushed = TRUE]
      /\ NextRow(g, [r.rows EXCEPT ![r.tenant].pushed = TRUE])
      /\ UNCHANGED <<today, serving, tables, runs, billed, early>>

(* A statement or a push fails, whether or not the service has recorded    *)
(* the event; the script is killed; or there is no key to push with.       *)
RunEnds(g) ==
  /\ run[g] # NULL
  /\ run' = [run EXCEPT ![g] = NULL]
  /\ UNCHANGED <<today, serving, tables, daily, runs, billed, early>>

Next ==
  \/ Midnight
  \/ \E w \in Workers :
       \/ \E c \in Calls, t \in Tenants :
            \/ Serve(w, c, t, FALSE, NULL)
            \/ \E ref \in Refs \cup {NULL} : Serve(w, c, t, TRUE, ref)
       \/ \E f \in Flights : Flush(f, w)
       \/ Stop(w) \/ Exit(w) \/ Crash(w)
  \/ \E f \in Flights :
       \/ \E t \in Tenants : BeginInsert(f, t)
       \/ CommitInsert(f) \/ InsertFails(f)
  \/ \E x \in stored : SweepEvent(x)
  \/ \E g \in Runners :
       \/ \E d \in 0..today : Aggregate(g, d)
       \/ ReadDaily(g) \/ Push(g) \/ MarkPushed(g) \/ RunEnds(g)

Spec == Init /\ [][Next]_vars

-----------------------------------------------------------------------------
(* Properties.                                                             *)

InBuffers == UNION {buffer[w] : w \in Workers}
InFlight(f) == IF flight[f] = NULL THEN {} ELSE flight[f].left \cup flight[f].writing
EverStored == {x.event : x \in stored \cup swept}

(* Every event that was recorded, of a call or of an active learner, is in *)
(* one place and only there: some worker's buffer, a flush, a row, or      *)
(* given up as lost.  Nothing is metered twice and nothing vanishes        *)
(* (usage.js:14-41, server.js:209-210).                                    *)
EventsConserved ==
  /\ \A x \in made :
       x.event \in InBuffers \cup EverStored \cup lost \cup UNION {InFlight(f) : f \in Flights}
  /\ \A v, w \in Workers : v # w => buffer[v] \cap buffer[w] = {}
  /\ \A f \in Flights :
       /\ InFlight(f) \cap (InBuffers \cup EverStored \cup lost) = {}
       /\ \A h \in Flights : f # h => InFlight(f) \cap InFlight(h) = {}
  /\ InBuffers \cap (EverStored \cup lost) = {} /\ EverStored \cap lost = {}
  /\ \A x, y \in stored \cup swept : x.event = y.event => x = y

(* One element for each call that the meter of t has for days up to d.     *)
BilledCalls(t, d) ==
  UNION {{m.day} \X (1..m.value) :
           m \in {n \in billed : n.kind = "api_call" /\ n.tenant = t /\ n.day <= d}}

(* The calls that t made up to the day d, by the day they were served.     *)
CallsBy(t, d) ==
  {x.event.call : x \in {y \in made : /\ y.event.kind = "api_call" /\ y.day <= d
                                      /\ tenant[y.event.call] = t}}

(* Whatever fails and is run again, also two runs at once, a tenant's day  *)
(* is billed once on each meter, and no call is billed twice or before it  *)
(* was made: for the days up to any d no more calls are billed than were   *)
(* served up to d (usage_rollup.js:2-4, 52).  A call counts on the day of  *)
(* its flush's transaction, so that one served before midnight may be      *)
(* billed on the day after; hence all the days up to d together.           *)
NeverOverbilled ==
  /\ \A m, n \in billed :
       m.kind = n.kind /\ m.tenant = n.tenant /\ m.day = n.day => m = n
  /\ \A t \in Tenants, d \in Days :
       Cardinality(BilledCalls(t, d)) <= Cardinality(CallsBy(t, d))

(* pushed_at says that both meters have the day (usage_rollup.js:51-71).   *)
PushedIsBilled ==
  \A t \in Tenants, d \in Days :
    daily[t][d] # NULL =>
      (daily[t][d].pushed => {m.kind : m \in {n \in billed : n.tenant = t /\ n.day = d}} = Kinds)

(* The bill is what GET /v1/usage shows, if every aggregation of the day   *)
(* came after the day was over and its events settled (usage_rollup.js:26, *)
(* 53; routes.js:708): a re-run changes neither.                           *)
BillMatchesUsage ==
  \A m \in billed : m.day \notin early =>
    /\ daily[m.tenant][m.day] # NULL
    /\ m.value = IF m.kind = "api_call" THEN daily[m.tenant][m.day].calls
                                        ELSE daily[m.tenant][m.day].learners

(* "endpoint or learner id" (001_init.sql:234), counted as active_learners *)
(* (usage_rollup.js:31): no more learners are active on a day than learners*)
(* acted.                                                                  *)
ActiveLearnersAreLearners ==
  \A t \in Tenants, d \in Days : daily[t][d] # NULL =>
    daily[t][d].learners <= Cardinality(
      {LearnerOf[subject[c]] : c \in {b \in Calls : tenant[b] = t /\ subject[b] # NULL}})

-----------------------------------------------------------------------------
(* What makes EventsConserved inductive: every event there is belongs to a *)
(* call that was made, and a flush inserts no event twice.                 *)
EventsMade ==
  /\ \A w \in Workers : \A e \in buffer[w] : tenant[e.call] # NULL
  /\ \A f \in Flights : \A e \in InFlight(f) : tenant[e.call] # NULL
  /\ \A x \in stored \cup swept : tenant[x.event.call] # NULL
  /\ \A e \in lost : tenant[e.call] # NULL
  /\ \A f \in Flights : flight[f] # NULL => flight[f].left \cap flight[f].writing = {}

(* What makes PushedIsBilled inductive: what a run has pushed, or thinks   *)
(* was pushed, is billed.                                                  *)
Billed(events, t, d, kind) ==
  \E m \in events : m.tenant = t /\ m.day = d /\ m.kind = kind

RunsOK ==
  \A g \in Runners : run[g] # NULL =>
    /\ \A t \in Tenants : run[g].rows[t] # NULL => daily[t][run[g].day] # NULL
    /\ run[g].stage \in {"learners", "mark"} => Billed(billed, run[g].tenant, run[g].day, "api_call")
    /\ run[g].stage = "mark" => Billed(billed, run[g].tenant, run[g].day, "learner_active")

(* What makes NeverOverbilled inductive.  An event was made before it is   *)
(* dated.                                                                  *)
MadeBy(e, d) == \E x \in made : x.event = e /\ x.day <= d

DatesOK ==
  /\ \A w \in Workers : \A e \in buffer[w] : MadeBy(e, today)
  /\ \A f \in Flights : flight[f] # NULL =>
       /\ \A e \in flight[f].left : MadeBy(e, today)
       /\ \A e \in flight[f].writing : MadeBy(e, flight[f].day)
  /\ \A x \in stored \cup swept : MadeBy(x.event, x.day)

(* No row, no copy of a row that a run works from, and no meter event      *)
(* counts more calls than there are events of the day, and a day is billed *)
(* once.                                                                   *)
CallsOn(t, d) ==
  {x \in stored \cup swept : /\ x.event.kind = "api_call" /\ x.day = d
                             /\ tenant[x.event.call] = t}

BillsOK ==
  \A m, n \in billed :
    /\ m.kind = n.kind /\ m.tenant = n.tenant /\ m.day = n.day => m = n
    /\ m.kind = "api_call" => m.value <= Cardinality(CallsOn(m.tenant, m.day))

CountsOK ==
  /\ \A t \in Tenants, d \in Days : daily[t][d] # NULL =>
       daily[t][d].calls <= Cardinality(CallsOn(t, d))
  /\ \A g \in Runners : run[g] # NULL =>
       \A t \in Tenants : run[g].rows[t] # NULL =>
         run[g].rows[t].calls <= Cardinality(CallsOn(t, run[g].day))
  /\ BillsOK

(* What makes BillMatchesUsage inductive.  The rows of a day that was only *)
(* aggregated when it was settled can only leave by the sweep, and what    *)
(* was counted is the count of all there ever were; copies of it agree.    *)
EverRowsOf(t, d) ==
  {x \in stored \cup swept : tenant[x.event.call] = t /\ x.day = d}

Writing(f, d) == flight[f] # NULL /\ flight[f].writing # {} /\ flight[f].day = d

SettledOK ==
  \A t \in Tenants, d \in Days : daily[t][d] # NULL /\ d \notin early =>
    /\ d < today /\ \A f \in Flights : ~ Writing(f, d)
    /\ daily[t][d].calls = CallsIn(EverRowsOf(t, d))
    /\ daily[t][d].learners = LearnersIn(EverRowsOf(t, d))

CopiesOK ==
  /\ \A g \in Runners : run[g] # NULL /\ run[g].day \notin early =>
       \A t \in Tenants : run[g].rows[t] # NULL =>
         /\ run[g].rows[t].calls = daily[t][run[g].day].calls
         /\ run[g].rows[t].learners = daily[t][run[g].day].learners
  /\ BillMatchesUsage
=============================================================================
