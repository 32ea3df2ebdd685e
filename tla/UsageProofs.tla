---------------------------- MODULE UsageProofs ----------------------------
(***************************************************************************)
(* What Usage guarantees for every number of workers, flushes, roll-up     *)
(* runs, tenants, calls and days.                                          *)
(***************************************************************************)
EXTENDS Usage, FiniteSetTheorems, TLAPS

-----------------------------------------------------------------------------
(* Counting.                                                               *)

LEMMA RowsAreFinite == IsFiniteSet(EventRow)
<1>1. IsFiniteSet(Kinds)
  <2>1. IsFiniteSet({"api_call"})
    BY FS_Singleton
  <2>2. IsFiniteSet({"api_call"} \cup {"learner_active"})
    BY <2>1, FS_AddElement
  <2>3. Kinds = {"api_call"} \cup {"learner_active"}
    BY DEF Kinds
  <2> QED
    BY <2>2, <2>3
<1>2. IsFiniteSet(Days)
  BY FS_Interval, UsageAssumption DEF Days
<1>3. IsFiniteSet(Calls \X Kinds)
  BY <1>1, FS_Product, UsageAssumption
<1>4. IsFiniteSet((Calls \X Kinds) \X Days)
  BY <1>2, <1>3, FS_Product
<1> DEFINE row(p) == [event |-> [call |-> p[1][1], kind |-> p[1][2]], day |-> p[2]]
           f == [p \in (Calls \X Kinds) \X Days |-> row(p)]
<1>5. f \in Surjection((Calls \X Kinds) \X Days, EventRow)
  <2>1. f \in [(Calls \X Kinds) \X Days -> EventRow]
    BY DEF EventRow, Events
  <2>2. ASSUME NEW x \in EventRow
        PROVE  \E p \in (Calls \X Kinds) \X Days : f[p] = x
    <3>1. <<<<x.event.call, x.event.kind>>, x.day>> \in (Calls \X Kinds) \X Days
      BY DEF EventRow, Events
    <3>2. f[<<<<x.event.call, x.event.kind>>, x.day>>] = x
      BY <3>1 DEF EventRow, Events
    <3> QED
      BY <3>1, <3>2
  <2> QED
    BY <2>1, <2>2 DEF Surjection
<1> HIDE DEF f
<1> QED
  BY <1>4, <1>5, FS_Surjection

(* What an aggregation counts are numbers.                                 *)
LEMMA CountsAreNumbers ==
  ASSUME TypeOK, NEW t, NEW d
  PROVE  CallsIn(RowsOf(t, d)) \in Nat /\ LearnersIn(RowsOf(t, d)) \in Nat
<1>1. RowsOf(t, d) \in SUBSET EventRow
  BY DEF RowsOf, TypeOK
<1>2. {x \in RowsOf(t, d) : x.event.kind = "api_call"} \in SUBSET EventRow
  BY <1>1
<1>3. CallsIn(RowsOf(t, d)) \in Nat
  BY <1>2, RowsAreFinite, FS_Subset, FS_CardinalityType DEF CallsIn
<1>4. ({subject[x.event.call] : x \in {y \in RowsOf(t, d) : y.event.kind = "learner_active"}}
        \ {NULL}) \in SUBSET Refs
  BY <1>1 DEF TypeOK, EventRow, Events
<1>5. LearnersIn(RowsOf(t, d)) \in Nat
  BY <1>4, UsageAssumption, FS_Subset, FS_CardinalityType DEF LearnersIn
<1> QED
  BY <1>3, <1>5

-----------------------------------------------------------------------------
(* Types.                                                                  *)

(* What TypeOK says of the serving side, and of the billing side.          *)
ServingOK ==
  /\ tenant \in [Calls -> Tenants \cup {NULL}]
  /\ subject \in [Calls -> Refs \cup {NULL}]
  /\ buffer \in [Workers -> SUBSET Events]
  /\ stopping \subseteq Workers
  /\ flight \in [Flights -> Flight \cup {NULL}]
  /\ stored \subseteq EventRow /\ swept \subseteq EventRow /\ lost \subseteq Events
  /\ \A f \in Flights : flight[f] # NULL =>
       /\ flight[f].left \cup flight[f].writing # {}
       /\ \A e, d \in flight[f].writing : tenant[e.call] = tenant[d.call]

BillingOK ==
  /\ daily \in [Tenants -> [Days -> DailyRow \cup {NULL}]]
  /\ run \in [Runners -> Run \cup {NULL}]
  /\ billed \subseteq MeterEvent
  /\ early \subseteq Days
  /\ \A g \in Runners : run[g] # NULL =>
       /\ (run[g].tenant = NULL) <=> (run[g].stage = "read")
       /\ run[g].tenant # NULL => run[g].rows[run[g].tenant] # NULL

LEMMA TypeParts ==
  TypeOK <=> /\ today \in Days /\ made \subseteq EventRow /\ runs \in 0..MaxRuns
             /\ ServingOK /\ BillingOK
  BY DEF TypeOK, ServingOK, BillingOK

LEMMA InitOK == Init => TypeOK /\ EventsMade /\ RunsOK
<1> SUFFICES ASSUME Init PROVE TypeOK /\ EventsMade /\ RunsOK
  OBVIOUS
<1>1. TypeOK
  BY UsageAssumption DEF Init, TypeOK, Days
<1>2. EventsMade
  BY DEF Init, EventsMade, InFlight
<1>3. RunsOK
  BY DEF Init, RunsOK
<1> QED
  BY <1>1, <1>2, <1>3

-----------------------------------------------------------------------------
(* The serving side.                                                       *)

LEMMA ServeStep ==
  ASSUME TypeOK, EventsMade, NEW w \in Workers, NEW c \in Calls, NEW t \in Tenants,
         NEW active \in BOOLEAN, NEW ref \in Refs \cup {NULL}, Serve(w, c, t, active, ref)
  PROVE  ServingOK' /\ EventsMade'
<1> DEFINE new == [call : {c}, kind : IF active THEN Kinds ELSE {"api_call"}]
<1>1. /\ tenant[c] = NULL /\ tenant' = [tenant EXCEPT ![c] = t]
      /\ subject' = [subject EXCEPT ![c] = ref]
      /\ buffer' = [buffer EXCEPT ![w] = @ \cup new]
      /\ UNCHANGED <<stopping, flight, stored, swept, lost>>
  BY DEF Serve, tables
<1>2. new \subseteq Events /\ \A e \in new : e.call = c
  BY DEF Events, Kinds
<1> HIDE DEF new
<1>3. \A d \in Calls : tenant[d] # NULL => tenant'[d] = tenant[d]
  BY <1>1 DEF TypeOK
<1>4. t # NULL /\ tenant'[c] = t
  BY <1>1, UsageAssumption DEF TypeOK
<1>5. /\ tenant' \in [Calls -> Tenants \cup {NULL}]
      /\ subject' \in [Calls -> Refs \cup {NULL}]
      /\ buffer' \in [Workers -> SUBSET Events]
  BY <1>1, <1>2 DEF TypeOK
<1>6. ASSUME NEW f \in Flights, flight[f] # NULL, NEW e \in flight[f].left \cup flight[f].writing
      PROVE  e.call \in Calls /\ tenant[e.call] # NULL
  <2>1. flight[f] \in Flight
    BY <1>6 DEF TypeOK
  <2>2. e \in InFlight(f) /\ e \in Events
    BY <1>6, <2>1 DEF InFlight, Flight
  <2> QED
    BY <2>2 DEF EventsMade, Events
<1>7. ServingOK'
  <2>1. ASSUME NEW f \in Flights, flight[f] # NULL
        PROVE  /\ flight[f].left \cup flight[f].writing # {}
               /\ \A e, d \in flight[f].writing : tenant'[e.call] = tenant'[d.call]
    BY <1>3, <1>6, <2>1 DEF TypeOK
  <2> QED
    BY <1>1, <1>5, <2>1 DEF ServingOK, TypeOK
<1>8. EventsMade'
  <2>1. \A v \in Workers : \A e \in buffer'[v] : tenant'[e.call] # NULL
    <3> SUFFICES ASSUME NEW v \in Workers, NEW e \in buffer'[v]
                 PROVE  tenant'[e.call] # NULL
      OBVIOUS
    <3>1. CASE e \in buffer[v]
      <4>1. e.call \in Calls /\ tenant[e.call] # NULL
        BY <3>1 DEF TypeOK, EventsMade, Events
      <4> QED
        BY <1>3, <4>1
    <3>2. CASE e \notin buffer[v]
      <4>1. e.call = c
        BY <1>1, <1>2, <3>2 DEF TypeOK
      <4> QED
        BY <1>4, <4>1
    <3> QED
      BY <3>1, <3>2
  <2>2. \A f \in Flights : \A e \in InFlight(f)' : tenant'[e.call] # NULL
    BY <1>1, <1>3, <1>6 DEF InFlight
  <2>3. \A x \in stored \cup swept : tenant'[x.event.call] # NULL
    BY <1>3 DEF EventsMade, TypeOK, EventRow, Events
  <2>4. \A e \in lost : tenant'[e.call] # NULL
    BY <1>3 DEF EventsMade, TypeOK, Events
  <2> QED
    BY <1>1, <2>1, <2>2, <2>3, <2>4 DEF EventsMade
<1> QED
  BY <1>7, <1>8

LEMMA TakeBufferStep ==
  ASSUME TypeOK, EventsMade, NEW f \in Flights, NEW w \in Workers, NEW final \in BOOLEAN,
         TakeBuffer(f, w, final), stopping' \subseteq Workers,
         UNCHANGED <<tenant, subject, stored, swept, lost>>
  PROVE  ServingOK' /\ EventsMade'
<1> DEFINE new == [worker |-> w, left |-> buffer[w], writing |-> {}, day |-> today,
                   final |-> final]
<1>1. /\ flight[f] = NULL /\ buffer[w] # {}
      /\ flight' = [flight EXCEPT ![f] = new]
      /\ buffer' = [buffer EXCEPT ![w] = {}]
  BY DEF TakeBuffer, BufferAfterFlush
<1>2. /\ new \in Flight /\ new # NULL
      /\ new.left = buffer[w] /\ new.writing = {}
  BY RowAssumption DEF TypeOK, Flight
<1> HIDE DEF new
<1>3. /\ flight'[f] = new /\ \A h \in Flights \ {f} : flight'[h] = flight[h]
      /\ buffer'[w] = {} /\ \A v \in Workers \ {w} : buffer'[v] = buffer[v]
  BY <1>1 DEF TypeOK
<1>4. flight' \in [Flights -> Flight \cup {NULL}] /\ buffer' \in [Workers -> SUBSET Events]
  BY <1>1, <1>2 DEF TypeOK
<1>5. ServingOK'
  BY <1>1, <1>2, <1>3, <1>4 DEF TypeOK, ServingOK
<1>6. EventsMade'
  BY <1>2, <1>3 DEF EventsMade, InFlight
<1> QED
  BY <1>5, <1>6

(* A flush that goes on keeps its events among those it had.               *)
LEMMA FlightStep ==
  ASSUME TypeOK, EventsMade, NEW f \in Flights, flight[f] # NULL,
         NEW x \in Flight \cup {NULL}, flight' = [flight EXCEPT ![f] = x],
         x # NULL =>
           /\ x.left \cup x.writing # {}
           /\ x.left \cup x.writing \subseteq flight[f].left \cup flight[f].writing
           /\ x.left \cap x.writing = {}
           /\ \A e, d \in x.writing : tenant[e.call] = tenant[d.call],
         UNCHANGED <<tenant, subject, buffer, stopping, swept>>,
         stored' \subseteq EventRow, lost' \subseteq Events,
         \A y \in stored' \ stored : y.event \in flight[f].writing,
         lost' \subseteq lost \cup flight[f].writing
  PROVE  ServingOK' /\ EventsMade'
<1>1. flight'[f] = x /\ \A h \in Flights \ {f} : flight'[h] = flight[h]
  BY DEF TypeOK
<1>2. flight' \in [Flights -> Flight \cup {NULL}]
  BY DEF TypeOK
<1>3. ServingOK'
  BY <1>1, <1>2 DEF TypeOK, ServingOK
<1>4. \A e \in flight[f].left \cup flight[f].writing : tenant[e.call] # NULL
  BY DEF EventsMade, InFlight
<1>5. EventsMade'
  BY <1>1, <1>4 DEF EventsMade, InFlight
<1> QED
  BY <1>3, <1>5

LEMMA BeginInsertStep ==
  ASSUME TypeOK, EventsMade, NEW f \in Flights, NEW t \in Tenants, BeginInsert(f, t)
  PROVE  /\ ServingOK' /\ EventsMade'
         /\ InFlight(f)' = InFlight(f) /\ \A h \in Flights \ {f} : flight'[h] = flight[h]
         /\ UNCHANGED <<tenant, buffer, stored, swept, lost>>
<1> DEFINE old == flight[f]
           batch == BatchOf(old.left, t)
           new == [old EXCEPT !.writing = batch, !.left = old.left \ batch, !.day = today]
<1>1. /\ old # NULL /\ old.writing = {} /\ batch # {} /\ old \in Flight
      /\ flight' = [flight EXCEPT ![f] = new]
      /\ UNCHANGED <<tenant, subject, buffer, stopping, stored, swept, lost>>
  BY DEF BeginInsert, tables, TypeOK
<1>2. batch \subseteq old.left /\ \A e \in batch : tenant[e.call] = t
  BY DEF BatchOf
<1> HIDE DEF batch
<1>3. new \in Flight /\ new.writing = batch /\ new.left = old.left \ batch
  BY <1>1, <1>2 DEF Flight, TypeOK
<1> HIDE DEF new
<1>4. ServingOK' /\ EventsMade'
  BY <1>1, <1>2, <1>3, FlightStep DEF TypeOK
<1>5. InFlight(f)' = InFlight(f)
  <2>1. flight'[f] = new /\ new # NULL
    BY <1>1, <1>3, RowAssumption DEF TypeOK
  <2> QED
    BY <1>1, <1>2, <1>3, <2>1 DEF InFlight
<1>6. \A h \in Flights \ {f} : flight'[h] = flight[h]
  BY <1>1 DEF TypeOK
<1> QED
  BY <1>1, <1>4, <1>5, <1>6

(* The end of an INSERT takes what was written out of the flush.           *)
LEMMA AfterInsertStep ==
  ASSUME TypeOK, EventsMade, NEW f \in Flights, flight[f] # NULL, flight[f].writing # {},
         AfterInsert(f),
         UNCHANGED <<tenant, subject, buffer, stopping, swept>>,
         stored' \subseteq EventRow, lost' \subseteq Events,
         \A y \in stored' \ stored : y.event \in flight[f].writing,
         lost' \subseteq lost \cup flight[f].writing
  PROVE  /\ ServingOK' /\ EventsMade'
         /\ InFlight(f)' = InFlight(f) \ flight[f].writing
         /\ \A h \in Flights \ {f} : flight'[h] = flight[h]
<1> DEFINE old == flight[f]
           new == IF old.left = {} THEN NULL ELSE [old EXCEPT !.writing = {}]
<1>1. old \in Flight /\ flight' = [flight EXCEPT ![f] = new]
  BY DEF AfterInsert, TypeOK
<1>2. CASE old.left = {}
  <2>1. new = NULL
    BY <1>2
  <2>2. ServingOK' /\ EventsMade'
    BY <1>1, <2>1, FlightStep
  <2>3. flight'[f] = NULL /\ \A h \in Flights \ {f} : flight'[h] = flight[h]
    BY <1>1, <2>1 DEF TypeOK
  <2> QED
    BY <1>2, <2>2, <2>3 DEF InFlight
<1>3. CASE old.left # {}
  <2>1. new \in Flight /\ new.writing = {} /\ new.left = old.left /\ new # NULL
    BY <1>1, <1>3, RowAssumption DEF Flight
  <2> HIDE DEF new
  <2>2. ServingOK' /\ EventsMade'
    BY <1>1, <1>3, <2>1, FlightStep
  <2>3. flight'[f] = new /\ \A h \in Flights \ {f} : flight'[h] = flight[h]
    BY <1>1 DEF TypeOK
  <2>4. old.left \cap old.writing = {}
    BY DEF EventsMade
  <2> QED
    BY <2>1, <2>2, <2>3, <2>4 DEF InFlight
<1> QED
  BY <1>2, <1>3

LEMMA CommitInsertStep ==
  ASSUME TypeOK, EventsMade, NEW f \in Flights, CommitInsert(f)
  PROVE  /\ ServingOK' /\ EventsMade'
         /\ InFlight(f)' = InFlight(f) \ flight[f].writing
         /\ \A h \in Flights \ {f} : flight'[h] = flight[h]
<1>1. /\ flight[f] \in Flight /\ flight[f] # NULL /\ flight[f].writing # {}
      /\ stored' = stored \cup [event : flight[f].writing, day : {flight[f].day}]
      /\ AfterInsert(f)
      /\ UNCHANGED <<tenant, subject, buffer, stopping, swept, lost>>
  BY DEF CommitInsert, TypeOK
<1>2. stored' \subseteq EventRow
  BY <1>1 DEF TypeOK, Flight, EventRow
<1>3. \A y \in stored' \ stored : y.event \in flight[f].writing
  BY <1>1
<1>4. lost' \subseteq Events /\ lost' \subseteq lost \cup flight[f].writing
  BY <1>1 DEF TypeOK
<1> QED
  BY <1>1, <1>2, <1>3, <1>4, AfterInsertStep

LEMMA InsertFailsStep ==
  ASSUME TypeOK, EventsMade, NEW f \in Flights, InsertFails(f)
  PROVE  /\ ServingOK' /\ EventsMade'
         /\ InFlight(f)' = InFlight(f) \ flight[f].writing
         /\ \A h \in Flights \ {f} : flight'[h] = flight[h]
<1>1. /\ flight[f] \in Flight /\ flight[f] # NULL /\ flight[f].writing # {}
      /\ lost' = lost \cup flight[f].writing
      /\ AfterInsert(f)
      /\ UNCHANGED <<tenant, subject, buffer, stopping, swept, stored>>
  BY DEF InsertFails, TypeOK
<1>2. lost' \subseteq Events /\ stored' \subseteq EventRow
  BY <1>1 DEF TypeOK, Flight
<1> QED
  BY <1>1, <1>2, AfterInsertStep

LEMMA DieStep ==
  ASSUME TypeOK, EventsMade, NEW w \in Workers, Die(w)
  PROVE  ServingOK' /\ EventsMade'
<1>1. /\ lost' = lost \cup buffer[w]
                \cup UNION {flight[f].left \cup flight[f].writing : f \in FlightsOf(w)}
      /\ buffer' = [buffer EXCEPT ![w] = {}]
      /\ flight' = [f \in Flights |-> IF f \in FlightsOf(w) THEN NULL ELSE flight[f]]
      /\ stopping' = stopping \ {w}
      /\ UNCHANGED <<tenant, subject, stored, swept>>
  BY DEF Die
<1>2. \A f \in FlightsOf(w) : f \in Flights /\ flight[f] # NULL /\ flight[f] \in Flight
  BY DEF FlightsOf, TypeOK
<1>3. lost' \subseteq Events
  BY <1>1, <1>2 DEF TypeOK, Flight
<1>4. ServingOK'
  BY <1>1, <1>3 DEF TypeOK, ServingOK
<1>5. \A e \in lost' : tenant[e.call] # NULL
  BY <1>1, <1>2 DEF EventsMade, InFlight
<1>6. EventsMade'
  BY <1>1, <1>5 DEF EventsMade, InFlight, TypeOK
<1> QED
  BY <1>4, <1>6

LEMMA SweepStep ==
  ASSUME TypeOK, EventsMade, NEW x \in stored, SweepEvent(x)
  PROVE  ServingOK' /\ EventsMade'
<1>1. /\ stored' = stored \ {x} /\ swept' = swept \cup {x}
      /\ UNCHANGED <<tenant, subject, buffer, stopping, flight, lost>>
  BY DEF SweepEvent, serving
<1>2. ServingOK'
  BY <1>1 DEF TypeOK, ServingOK
<1>3. EventsMade'
  BY <1>1 DEF EventsMade, InFlight
<1> QED
  BY <1>2, <1>3

-----------------------------------------------------------------------------
(* The billing side.                                                       *)

(* A run that is replaced by another, or is over, disturbs no other.       *)
LEMMA RunStep ==
  ASSUME TypeOK, NEW g \in Runners, NEW x \in Run \cup {NULL}, run' = [run EXCEPT ![g] = x],
         x # NULL => /\ (x.tenant = NULL) <=> (x.stage = "read")
                     /\ x.tenant # NULL => x.rows[x.tenant] # NULL,
         daily' \in [Tenants -> [Days -> DailyRow \cup {NULL}]],
         billed' \subseteq MeterEvent, early' \subseteq Days
  PROVE  BillingOK'
  BY DEF TypeOK, BillingOK

(* What a run relies on: rows stay, and what is billed stays billed.       *)
LEMMA BilledStays ==
  ASSUME billed \subseteq billed', NEW t, NEW d, NEW kind, Billed(billed, t, d, kind)
  PROVE  Billed(billed', t, d, kind)
  BY DEF Billed

LEMMA RunsOKStep ==
  ASSUME TypeOK, RunsOK, NEW g \in Runners, NEW x, run' = [run EXCEPT ![g] = x],
         \A t \in Tenants, d \in Days : daily[t][d] # NULL => daily'[t][d] # NULL,
         billed \subseteq billed',
         x # NULL =>
           /\ \A t \in Tenants : x.rows[t] # NULL => daily'[t][x.day] # NULL
           /\ x.stage \in {"learners", "mark"} => Billed(billed', x.tenant, x.day, "api_call")
           /\ x.stage = "mark" => Billed(billed', x.tenant, x.day, "learner_active")
  PROVE  RunsOK'
<1> SUFFICES ASSUME NEW h \in Runners, run'[h] # NULL
             PROVE  /\ \A t \in Tenants : run'[h].rows[t] # NULL
                                          => daily'[t][run'[h].day] # NULL
                    /\ run'[h].stage \in {"learners", "mark"} =>
                         Billed(billed', run'[h].tenant, run'[h].day, "api_call")
                    /\ run'[h].stage = "mark" =>
                         Billed(billed', run'[h].tenant, run'[h].day, "learner_active")
  BY DEF RunsOK
<1>1. CASE h = g
  <2>1. run'[h] = x
    BY <1>1 DEF TypeOK
  <2> QED
    BY <2>1
<1>2. CASE h # g
  <2>1. run'[h] = run[h] /\ run[h] \in Run
    BY <1>2 DEF TypeOK
  <2>2. run[h].day \in Days
    BY <2>1 DEF Run
  <2>3. \A t \in Tenants : run[h].rows[t] # NULL => daily'[t][run[h].day] # NULL
    BY <2>1, <2>2 DEF RunsOK
  <2>4. /\ run[h].stage \in {"learners", "mark"} =>
             Billed(billed, run[h].tenant, run[h].day, "api_call")
        /\ run[h].stage = "mark" => Billed(billed, run[h].tenant, run[h].day, "learner_active")
    BY <2>1 DEF RunsOK
  <2>5. /\ run[h].stage \in {"learners", "mark"} =>
             Billed(billed', run[h].tenant, run[h].day, "api_call")
        /\ run[h].stage = "mark" => Billed(billed', run[h].tenant, run[h].day, "learner_active")
    BY <2>4, BilledStays
  <2> QED
    BY <2>1, <2>3, <2>5
<1> QED
  BY <1>1, <1>2

LEMMA AggregateStep ==
  ASSUME TypeOK, RunsOK, NEW g \in Runners, NEW d \in 0..today, Aggregate(g, d)
  PROVE  /\ BillingOK' /\ RunsOK'
         /\ \A t \in Tenants, e \in Days :
              /\ daily[t][e] # NULL => daily'[t][e] # NULL
              /\ daily'[t][e] # NULL /\ daily'[t][e].pushed =>
                   daily[t][e] # NULL /\ daily[t][e].pushed
<1> DEFINE new(t) == [calls    |-> CallsIn(RowsOf(t, d)),
                      learners |-> LearnersIn(RowsOf(t, d)),
                      pushed   |-> IF daily[t][d] = NULL THEN FALSE ELSE daily[t][d].pushed]
           x == [day |-> d, rows |-> [t \in Tenants |-> NULL], stage |-> "read", tenant |-> NULL]
<1>1. d \in Days
  BY UsageAssumption DEF TypeOK, Days
<1>2. /\ daily' = [t \in Tenants |-> IF RowsOf(t, d) = {} THEN daily[t]
                                     ELSE [daily[t] EXCEPT ![d] = new(t)]]
      /\ run' = [run EXCEPT ![g] = x]
      /\ early' \subseteq early \cup {d}
      /\ UNCHANGED billed
  BY DEF Aggregate
<1>3. ASSUME NEW t \in Tenants
      PROVE  /\ new(t) \in DailyRow /\ new(t) # NULL
             /\ new(t).pushed => daily[t][d] # NULL /\ daily[t][d].pushed
  <2>1. daily[t][d] \in DailyRow \cup {NULL}
    BY <1>1 DEF TypeOK
  <2>2. new(t) \in DailyRow
    BY <2>1, CountsAreNumbers DEF DailyRow
  <2> QED
    BY <2>2, RowAssumption
<1>4. x \in Run
  BY <1>1 DEF Run
<1> HIDE DEF new
<1>5. ASSUME NEW t \in Tenants
      PROVE  /\ daily'[t] \in [Days -> DailyRow \cup {NULL}]
             /\ \A e \in Days \ {d} : daily'[t][e] = daily[t][e]
             /\ daily'[t][d] \in {daily[t][d], new(t)}
  BY <1>1, <1>2, <1>3 DEF TypeOK
<1>6. daily' \in [Tenants -> [Days -> DailyRow \cup {NULL}]]
  BY <1>2, <1>5
<1>7. BillingOK'
  BY <1>1, <1>2, <1>4, <1>6, RunStep DEF TypeOK
<1>8. \A t \in Tenants, e \in Days :
        /\ daily[t][e] # NULL => daily'[t][e] # NULL
        /\ daily'[t][e] # NULL /\ daily'[t][e].pushed =>
             daily[t][e] # NULL /\ daily[t][e].pushed
  BY <1>3, <1>5
<1>9. RunsOK'
  BY <1>2, <1>8, RunsOKStep
<1> QED
  BY <1>7, <1>8, <1>9

(* NextRow leaves the run over, or at a row that is in the table.          *)
LEMMA NextRowStep ==
  ASSUME TypeOK, RunsOK, NEW g \in Runners, run[g] # NULL,
         NEW rows \in [Tenants -> DailyRow \cup {NULL}], NextRow(g, rows),
         \A t \in Tenants : rows[t] # NULL => daily'[t][run[g].day] # NULL,
         \A t \in Tenants, d \in Days : daily[t][d] # NULL => daily'[t][d] # NULL,
         daily' \in [Tenants -> [Days -> DailyRow \cup {NULL}]],
         UNCHANGED <<billed, early>>
  PROVE  BillingOK' /\ RunsOK'
<1>1. run[g] \in Run
  BY DEF TypeOK
<1>2. CASE run' = [run EXCEPT ![g] = NULL]
  <2>1. BillingOK'
    BY <1>2, RunStep DEF TypeOK
  <2>2. RunsOK'
    BY <1>2, RunsOKStep
  <2> QED
    BY <2>1, <2>2
<1>3. ASSUME NEW t \in ToPush(rows),
             run' = [run EXCEPT ![g].rows = rows, ![g].stage = "calls", ![g].tenant = t]
      PROVE  BillingOK' /\ RunsOK'
  <2> DEFINE x == [run[g] EXCEPT !.rows = rows, !.stage = "calls", !.tenant = t]
  <2>1. t \in Tenants /\ rows[t] # NULL
    BY DEF ToPush
  <2>2. /\ x \in Run /\ x.day = run[g].day /\ x.rows = rows
        /\ x.stage = "calls" /\ x.tenant = t
    BY <1>1, <2>1 DEF Run
  <2>3. run' = [run EXCEPT ![g] = x]
    BY <1>3
  <2> HIDE DEF x
  <2>4. BillingOK'
    BY <2>1, <2>2, <2>3, RunStep, UsageAssumption DEF TypeOK
  <2>5. RunsOK'
    BY <2>2, <2>3, RunsOKStep
  <2> QED
    BY <2>4, <2>5
<1> QED
  BY <1>2, <1>3 DEF NextRow

LEMMA ReadDailyStep ==
  ASSUME TypeOK, RunsOK, NEW g \in Runners, ReadDaily(g)
  PROVE  BillingOK' /\ RunsOK'
<1> DEFINE rows == [t \in Tenants |-> daily[t][run[g].day]]
<1>1. run[g] # NULL /\ run[g] \in Run /\ NextRow(g, rows) /\ UNCHANGED <<daily, billed, early>>
  BY DEF ReadDaily, TypeOK
<1>2. rows \in [Tenants -> DailyRow \cup {NULL}]
  BY <1>1 DEF TypeOK, Run
<1>3. daily' \in [Tenants -> [Days -> DailyRow \cup {NULL}]]
  BY <1>1 DEF TypeOK
<1>4. \A t \in Tenants : rows[t] # NULL => daily'[t][run[g].day] # NULL
  BY <1>1
<1> HIDE DEF rows
<1> QED
  BY <1>1, <1>2, <1>3, <1>4, NextRowStep

(* The billing service has the event it was sent, from now on.             *)
LEMMA RecordAdds ==
  ASSUME NEW m
  PROVE  /\ billed \subseteq Record(m) /\ Record(m) \subseteq billed \cup {m}
         /\ Billed(Record(m), m.tenant, m.day, m.kind)
<1>1. CASE \E n \in billed : SameIdentifier(m, n)
  BY <1>1 DEF Record, Billed, SameIdentifier
<1>2. CASE ~ \E n \in billed : SameIdentifier(m, n)
  BY <1>2 DEF Record, Billed
<1> QED
  BY <1>1, <1>2

LEMMA PushStep ==
  ASSUME TypeOK, RunsOK, NEW g \in Runners, Push(g)
  PROVE  BillingOK' /\ RunsOK' /\ billed \subseteq billed'
<1> DEFINE r == run[g]
           t == r.tenant
           kind == IF r.stage = "calls" THEN "api_call" ELSE "learner_active"
           value == IF r.stage = "calls" THEN r.rows[t].calls ELSE r.rows[t].learners
           m == [tenant |-> t, day |-> r.day, kind |-> kind, value |-> value]
           x == [r EXCEPT !.stage = NextStage(r.stage)]
<1>1. /\ r # NULL /\ r \in Run /\ r.stage \in {"calls", "learners"}
      /\ billed' = Record(m) /\ run' = [run EXCEPT ![g] = x]
      /\ UNCHANGED <<daily, early>>
  BY DEF Push, TypeOK
<1>2. t \in Tenants /\ r.rows[t] # NULL /\ r.rows[t] \in DailyRow /\ r.day \in Days
  BY <1>1 DEF TypeOK, Run
<1>3. value \in Nat
  BY <1>2 DEF DailyRow
<1>4. m \in MeterEvent /\ m.tenant = t /\ m.day = r.day /\ m.kind = kind
  BY <1>2, <1>3 DEF MeterEvent, Kinds
<1> HIDE DEF m
<1>5. /\ billed \subseteq billed' /\ billed' \subseteq MeterEvent
      /\ Billed(billed', t, r.day, kind)
  BY <1>1, <1>4, RecordAdds DEF TypeOK
<1>6. /\ x \in Run /\ x.tenant = t /\ x.day = r.day /\ x.rows = r.rows
      /\ x.stage = IF r.stage = "calls" THEN "learners" ELSE "mark"
  BY <1>1 DEF Run, NextStage
<1> HIDE DEF x
<1>7. BillingOK'
  BY <1>1, <1>2, <1>5, <1>6, RunStep, UsageAssumption DEF TypeOK
<1>8. \A s \in Tenants : x.rows[s] # NULL => daily'[s][x.day] # NULL
  BY <1>1, <1>6 DEF RunsOK
<1>9. Billed(billed', x.tenant, x.day, "api_call")
  <2>1. CASE r.stage = "calls"
    BY <1>5, <1>6, <2>1
  <2>2. CASE r.stage = "learners"
    BY <1>1, <1>5, <1>6, <2>2, BilledStays DEF RunsOK
  <2> QED
    BY <1>1, <2>1, <2>2
<1>10. x.stage = "mark" => Billed(billed', x.tenant, x.day, "learner_active")
  BY <1>1, <1>5, <1>6
<1>11. RunsOK'
  BY <1>1, <1>5, <1>8, <1>9, <1>10, RunsOKStep
<1> QED
  BY <1>5, <1>7, <1>11

LEMMA MarkPushedStep ==
  ASSUME TypeOK, RunsOK, NEW g \in Runners, MarkPushed(g)
  PROVE  /\ BillingOK' /\ RunsOK' /\ UNCHANGED billed
         /\ run[g].tenant \in Tenants /\ run[g].day \in Days
         /\ Billed(billed, run[g].tenant, run[g].day, "api_call")
         /\ Billed(billed, run[g].tenant, run[g].day, "learner_active")
         /\ \A t \in Tenants, d \in Days :
              t # run[g].tenant \/ d # run[g].day => daily'[t][d] = daily[t][d]
<1> DEFINE r == run[g]
           old == daily[r.tenant][r.day]
           rows == [r.rows EXCEPT ![r.tenant].pushed = TRUE]
<1>1. /\ r # NULL /\ r \in Run /\ r.stage = "mark"
      /\ daily' = [daily EXCEPT ![r.tenant][r.day].pushed = TRUE]
      /\ NextRow(g, rows) /\ UNCHANGED <<billed, early>>
  BY DEF MarkPushed, TypeOK
<1>2. /\ r.tenant \in Tenants /\ r.day \in Days
      /\ r.rows \in [Tenants -> DailyRow \cup {NULL}]
      /\ r.rows[r.tenant] # NULL /\ r.rows[r.tenant] \in DailyRow
  BY <1>1 DEF TypeOK, Run
<1>3. old # NULL /\ old \in DailyRow
  BY <1>1, <1>2 DEF RunsOK, TypeOK
<1>4. [old EXCEPT !.pushed = TRUE] \in DailyRow
  BY <1>3 DEF DailyRow
<1>5. /\ daily'[r.tenant][r.day] = [old EXCEPT !.pushed = TRUE]
      /\ \A t \in Tenants, d \in Days :
           t # r.tenant \/ d # r.day => daily'[t][d] = daily[t][d]
  BY <1>1, <1>2 DEF TypeOK
<1>6. daily' \in [Tenants -> [Days -> DailyRow \cup {NULL}]]
  BY <1>1, <1>2, <1>4 DEF TypeOK
<1>7. \A t \in Tenants, d \in Days : daily[t][d] # NULL => daily'[t][d] # NULL
  BY <1>4, <1>5, RowAssumption
<1>8. [r.rows[r.tenant] EXCEPT !.pushed = TRUE] \in DailyRow
  BY <1>2 DEF DailyRow
<1>9. rows \in [Tenants -> DailyRow \cup {NULL}]
  BY <1>2, <1>8
<1>10. \A t \in Tenants : rows[t] # NULL => daily'[t][r.day] # NULL
  <2>1. \A t \in Tenants : rows[t] # NULL => r.rows[t] # NULL
    BY <1>2, ZenonT(30)
  <2> QED
    BY <1>1, <1>2, <1>7, <2>1 DEF RunsOK
<1> HIDE DEF rows
<1>11. BillingOK' /\ RunsOK'
  BY <1>1, <1>6, <1>7, <1>9, <1>10, NextRowStep, ZenonT(30)
<1>12. /\ Billed(billed, r.tenant, r.day, "api_call")
       /\ Billed(billed, r.tenant, r.day, "learner_active")
  BY <1>1 DEF RunsOK
<1> QED
  BY <1>1, <1>2, <1>5, <1>11, <1>12

LEMMA RunEndsStep ==
  ASSUME TypeOK, RunsOK, NEW g \in Runners, RunEnds(g)
  PROVE  BillingOK' /\ RunsOK'
<1>1. run' = [run EXCEPT ![g] = NULL] /\ UNCHANGED <<daily, billed, early>>
  BY DEF RunEnds
<1>2. BillingOK'
  BY <1>1, RunStep DEF TypeOK
<1>3. RunsOK'
  BY <1>1, RunsOKStep
<1> QED
  BY <1>2, <1>3

-----------------------------------------------------------------------------
(* Both sides together.                                                    *)

LEMMA ServingFrame ==
  ASSUME TypeOK, EventsMade, UNCHANGED <<serving, tables>>
  PROVE  ServingOK' /\ EventsMade'
  BY DEF serving, tables, TypeOK, ServingOK, EventsMade, InFlight

LEMMA BillingFrame ==
  ASSUME TypeOK, RunsOK, UNCHANGED billing
  PROVE  BillingOK' /\ RunsOK'
  BY DEF billing, TypeOK, BillingOK, RunsOK, Billed

(* The actions of a worker, of its flushes and of the sweep.               *)
ServingNext ==
  \/ \E w \in Workers :
       \/ \E c \in Calls, t \in Tenants, active \in BOOLEAN, ref \in Refs \cup {NULL} :
            Serve(w, c, t, active, ref)
       \/ \E f \in Flights, final \in BOOLEAN :
            TakeBuffer(f, w, final) /\ stopping' \subseteq Workers
                                    /\ UNCHANGED <<tenant, subject, tables>>
       \/ Die(w)
       \/ stopping' \subseteq Workers /\ UNCHANGED <<tenant, subject, buffer, flight, tables>>
  \/ \E f \in Flights :
       \/ \E t \in Tenants : BeginInsert(f, t)
       \/ CommitInsert(f) \/ InsertFails(f)
  \/ \E x \in stored : SweepEvent(x)

(* The actions of a roll-up.                                               *)
BillingNext ==
  \E g \in Runners :
    \/ \E d \in 0..today : Aggregate(g, d)
    \/ ReadDaily(g) \/ Push(g) \/ MarkPushed(g) \/ RunEnds(g)

LEMMA TwoSides ==
  ASSUME TypeOK, Next
  PROVE  \/ today' \in Days /\ today' >= today /\ UNCHANGED <<serving, tables, billing>>
         \/ ServingNext /\ UNCHANGED <<today, billing>>
         \/ BillingNext /\ UNCHANGED <<today, serving, tables>>
<1>1. CASE Midnight
  BY <1>1, UsageAssumption DEF Midnight, Days, TypeOK
<1>2. ASSUME NEW w \in Workers, NEW c \in Calls, NEW t \in Tenants,
             \/ Serve(w, c, t, FALSE, NULL)
             \/ \E ref \in Refs \cup {NULL} : Serve(w, c, t, TRUE, ref)
      PROVE  ServingNext /\ UNCHANGED <<today, billing>>
  <2>1. PICK active \in BOOLEAN, ref \in Refs \cup {NULL} : Serve(w, c, t, active, ref)
    BY <1>2
  <2>2. UNCHANGED <<today, billing>>
    BY <2>1 DEF Serve
  <2> QED
    BY <2>1, <2>2 DEF ServingNext
<1>3. ASSUME NEW w \in Workers, \/ \E f \in Flights : Flush(f, w)
                               \/ Stop(w)
      PROVE  ServingNext /\ UNCHANGED <<today, billing>>
  BY <1>3 DEF ServingNext, Flush, Stop, TypeOK
<1>4. ASSUME NEW w \in Workers, Exit(w) \/ Crash(w)
      PROVE  ServingNext /\ UNCHANGED <<today, billing>>
  BY <1>4 DEF ServingNext, Exit, Crash, Die
<1>5. ASSUME NEW f \in Flights, \/ \E t \in Tenants : BeginInsert(f, t)
                               \/ CommitInsert(f) \/ InsertFails(f)
      PROVE  ServingNext /\ UNCHANGED <<today, billing>>
  BY <1>5 DEF ServingNext, BeginInsert, CommitInsert, InsertFails
<1>6. ASSUME NEW x \in stored, SweepEvent(x)
      PROVE  ServingNext /\ UNCHANGED <<today, billing>>
  BY <1>6, ZenonT(30) DEF ServingNext, SweepEvent
<1>7. ASSUME NEW g \in Runners, \/ \E d \in 0..today : Aggregate(g, d)
                               \/ ReadDaily(g) \/ Push(g) \/ MarkPushed(g) \/ RunEnds(g)
      PROVE  BillingNext /\ UNCHANGED <<today, serving, tables>>
  BY <1>7, ZenonT(30) DEF BillingNext, Aggregate, ReadDaily, Push, MarkPushed, RunEnds
<1> QED
  BY <1>1, <1>2, <1>3, <1>4, <1>5, <1>6, <1>7 DEF Next

LEMMA ServingStep ==
  ASSUME TypeOK, EventsMade, ServingNext
  PROVE  ServingOK' /\ EventsMade'
<1>1. ASSUME NEW w \in Workers, stopping' \subseteq Workers,
             UNCHANGED <<tenant, subject, buffer, flight, tables>>
      PROVE  ServingOK' /\ EventsMade'
  BY <1>1 DEF tables, TypeOK, ServingOK, EventsMade, InFlight
<1>2. ASSUME NEW w \in Workers, NEW f \in Flights, NEW final \in BOOLEAN,
             TakeBuffer(f, w, final), stopping' \subseteq Workers,
             UNCHANGED <<tenant, subject, tables>>
      PROVE  ServingOK' /\ EventsMade'
  BY <1>2, TakeBufferStep DEF tables
<1> QED
  BY <1>1, <1>2, ServeStep, DieStep, BeginInsertStep, CommitInsertStep, InsertFailsStep,
     SweepStep DEF ServingNext

LEMMA BillingStep ==
  ASSUME TypeOK, RunsOK, BillingNext
  PROVE  BillingOK' /\ RunsOK'
  BY AggregateStep, ReadDailyStep, PushStep, MarkPushedStep, RunEndsStep DEF BillingNext

(* The events that were recorded stay.                                     *)
LEMMA MadeStep ==
  ASSUME TypeOK, [Next]_vars
  PROVE  made' \subseteq EventRow /\ made \subseteq made' /\ runs' \in 0..MaxRuns
<1>1. ASSUME NEW w \in Workers, NEW c \in Calls, NEW t \in Tenants, NEW active \in BOOLEAN,
             NEW ref \in Refs \cup {NULL}, Serve(w, c, t, active, ref)
      PROVE  made' \subseteq EventRow /\ made \subseteq made'
  <2> DEFINE new == [call : {c}, kind : IF active THEN Kinds ELSE {"api_call"}]
  <2>1. made' = made \cup [event : new, day : {today}]
    BY <1>1 DEF Serve
  <2>2. new \subseteq Events
    BY DEF Events, Kinds
  <2> HIDE DEF new
  <2> QED
    BY <2>1, <2>2 DEF TypeOK, EventRow
<1>2. ASSUME UNCHANGED made
      PROVE  made' \subseteq EventRow /\ made \subseteq made'
  BY <1>2 DEF TypeOK
<1>3. ASSUME ServingNext
      PROVE  made' \subseteq EventRow /\ made \subseteq made'
  <2>1. ASSUME NEW f \in Flights, \/ \E t \in Tenants : BeginInsert(f, t)
                                 \/ CommitInsert(f) \/ InsertFails(f)
        PROVE  UNCHANGED made
    BY <2>1 DEF BeginInsert, CommitInsert, InsertFails, tables
  <2>2. ASSUME NEW w \in Workers, Die(w)
        PROVE  UNCHANGED made
    BY <2>2 DEF Die
  <2>3. ASSUME NEW x \in stored, SweepEvent(x)
        PROVE  UNCHANGED made
    BY <2>3 DEF SweepEvent
  <2>4. ASSUME UNCHANGED tables
        PROVE  UNCHANGED made
    BY <2>4 DEF tables
  <2> QED
    BY <1>1, <1>2, <1>3, <2>1, <2>2, <2>3, <2>4, ZenonT(30) DEF ServingNext
<1>4. ASSUME UNCHANGED tables
      PROVE  made' \subseteq EventRow /\ made \subseteq made'
  BY <1>2, <1>4 DEF tables
<1>5. ASSUME UNCHANGED billing
      PROVE  runs' \in 0..MaxRuns
  BY <1>5 DEF billing, TypeOK
<1>6. ASSUME BillingNext
      PROVE  runs' \in 0..MaxRuns
  <2>1. ASSUME NEW g \in Runners, NEW d \in 0..today, Aggregate(g, d)
        PROVE  runs' \in 0..MaxRuns
    BY <2>1, UsageAssumption DEF Aggregate, TypeOK
  <2>2. ASSUME NEW g \in Runners, ReadDaily(g) \/ Push(g) \/ MarkPushed(g) \/ RunEnds(g)
        PROVE  UNCHANGED runs
    BY <2>2 DEF ReadDaily, Push, MarkPushed, RunEnds
  <2> QED
    BY <1>6, <2>1, <2>2 DEF BillingNext, TypeOK
<1> QED
  BY <1>3, <1>4, <1>5, <1>6, TwoSides DEF vars

LEMMA TypeStep ==
  ASSUME TypeOK, EventsMade, RunsOK, [Next]_vars
  PROVE  TypeOK' /\ EventsMade' /\ RunsOK'
<1>1. TypeOK' <=> /\ today' \in Days /\ made' \subseteq EventRow /\ runs' \in 0..MaxRuns
                  /\ ServingOK' /\ BillingOK'
  BY DEF TypeOK, ServingOK, BillingOK
<1>2. today' \in Days /\ ServingOK' /\ EventsMade' /\ BillingOK' /\ RunsOK'
  <2>1. CASE UNCHANGED vars
    BY <2>1, ServingFrame, BillingFrame DEF vars, TypeOK
  <2>2. CASE today' \in Days /\ UNCHANGED <<serving, tables, billing>>
    BY <2>2, ServingFrame, BillingFrame
  <2>3. CASE ServingNext /\ UNCHANGED <<today, billing>>
    BY <2>3, ServingStep, BillingFrame DEF TypeOK
  <2>4. CASE BillingNext /\ UNCHANGED <<today, serving, tables>>
    BY <2>4, BillingStep, ServingFrame DEF TypeOK
  <2> QED
    BY <2>1, <2>2, <2>3, <2>4, TwoSides
<1> QED
  BY <1>1, <1>2, MadeStep

(* Rows, flushes and runs are well formed: a flush under way has something *)
(* to store and writes one tenant's events at a time, and a run of the     *)
(* roll-up is at a row it has read (usage.js:29-44, usage_rollup.js:38-71).*)
THEOREM TypeCorrect == Spec => []TypeOK
<1>1. TypeOK /\ EventsMade /\ RunsOK /\ [Next]_vars => (TypeOK /\ EventsMade /\ RunsOK)'
  BY TypeStep
<1>2. Spec => [](TypeOK /\ EventsMade /\ RunsOK)
  BY InitOK, <1>1, PTL DEF Spec
<1> QED
  BY <1>2, PTL

-----------------------------------------------------------------------------
(* Pushed days.                                                            *)

(* PushedIsBilled, meter by meter.                                         *)
BothBilled ==
  \A t \in Tenants, d \in Days :
    daily[t][d] # NULL /\ daily[t][d].pushed =>
      Billed(billed, t, d, "api_call") /\ Billed(billed, t, d, "learner_active")

LEMMA BothIsAll ==
  ASSUME TypeOK, BothBilled
  PROVE  PushedIsBilled
<1> SUFFICES ASSUME NEW t \in Tenants, NEW d \in Days, daily[t][d] # NULL, daily[t][d].pushed
             PROVE  {m.kind : m \in {n \in billed : n.tenant = t /\ n.day = d}} = Kinds
  BY DEF PushedIsBilled
<1>1. \A n \in billed : n.kind \in Kinds
  BY DEF TypeOK, MeterEvent
<1>2. Billed(billed, t, d, "api_call") /\ Billed(billed, t, d, "learner_active")
  BY DEF BothBilled
<1> QED
  BY <1>1, <1>2 DEF Billed, Kinds

LEMMA BilledStep ==
  ASSUME TypeOK, RunsOK, BothBilled, [Next]_vars
  PROVE  BothBilled'
<1>1. ASSUME UNCHANGED <<daily, billed>>
      PROVE  BothBilled'
  BY <1>1 DEF BothBilled, Billed
<1>2. ASSUME NEW g \in Runners, NEW d \in 0..today, Aggregate(g, d)
      PROVE  BothBilled'
  <2>1. UNCHANGED billed
    BY <1>2 DEF Aggregate
  <2>2. \A t \in Tenants, e \in Days : daily'[t][e] # NULL /\ daily'[t][e].pushed =>
                                       daily[t][e] # NULL /\ daily[t][e].pushed
    BY <1>2, AggregateStep
  <2> QED
    BY <2>1, <2>2 DEF BothBilled
<1>3. ASSUME NEW g \in Runners, Push(g)
      PROVE  BothBilled'
  <2>1. billed \subseteq billed' /\ UNCHANGED daily
    BY <1>3, PushStep DEF Push
  <2> QED
    BY <2>1, BilledStays, SMTT(30) DEF BothBilled
<1>4. ASSUME NEW g \in Runners, MarkPushed(g)
      PROVE  BothBilled'
  BY <1>4, MarkPushedStep DEF BothBilled
<1>5. ASSUME NEW g \in Runners, ReadDaily(g) \/ RunEnds(g)
      PROVE  BothBilled'
  BY <1>1, <1>5 DEF ReadDaily, RunEnds
<1>6. CASE UNCHANGED vars
  BY <1>1, <1>6 DEF vars, billing
<1>7. CASE UNCHANGED billing
  BY <1>1, <1>7 DEF billing
<1>8. CASE BillingNext
  BY <1>2, <1>3, <1>4, <1>5, <1>8 DEF BillingNext
<1> QED
  BY <1>6, <1>7, <1>8, TwoSides

(* A day marked as pushed is on both meters of the billing service,        *)
(* however runs fail, repeat and overlap (usage_rollup.js:51-71).          *)
THEOREM PushedDaysAreBilled == Spec => []PushedIsBilled
<1>1. Init => BothBilled
  BY DEF Init, BothBilled
<1>2. /\ TypeOK /\ EventsMade /\ RunsOK /\ BothBilled /\ [Next]_vars
      => (TypeOK /\ EventsMade /\ RunsOK /\ BothBilled)'
  BY TypeStep, BilledStep
<1>3. TypeOK /\ BothBilled => PushedIsBilled
  BY BothIsAll
<1>4. Spec => [](TypeOK /\ EventsMade /\ RunsOK /\ BothBilled)
  BY InitOK, <1>1, <1>2, PTL DEF Spec
<1> QED
  BY <1>3, <1>4, PTL

-----------------------------------------------------------------------------
(* Events.                                                                 *)

(* The parts of EventsConserved: nothing is gone, nothing is twice.        *)
Everywhere == InBuffers \cup EverStored \cup lost \cup UNION {InFlight(f) : f \in Flights}

NothingGone ==
  \A x \in made : x.event \in Everywhere

BuffersApart ==
  /\ \A v, w \in Workers : v # w => buffer[v] \cap buffer[w] = {}
  /\ InBuffers \cap (EverStored \cup lost) = {}

FlightsApart ==
  \A f \in Flights :
    /\ InFlight(f) \cap (InBuffers \cup EverStored \cup lost) = {}
    /\ \A h \in Flights : f # h => InFlight(f) \cap InFlight(h) = {}

RowsApart ==
  /\ EverStored \cap lost = {}
  /\ \A x, y \in stored \cup swept : x.event = y.event => x = y

LEMMA ConservedParts ==
  EventsConserved <=> NothingGone /\ BuffersApart /\ FlightsApart /\ RowsApart
  BY DEF EventsConserved, NothingGone, Everywhere, BuffersApart, FlightsApart, RowsApart

LEMMA ConservedInit == Init => EventsConserved
<1> SUFFICES ASSUME Init PROVE EventsConserved
  OBVIOUS
<1>1. InBuffers = {} /\ EverStored = {} /\ lost = {} /\ \A f \in Flights : InFlight(f) = {}
  BY DEF Init, InBuffers, EverStored, InFlight
<1> QED
  BY <1>1 DEF Init, EventsConserved

(* Events of a call that was not made are nowhere.                         *)
LEMMA NotYetMade ==
  ASSUME TypeOK, EventsMade, NEW e, tenant[e.call] = NULL
  PROVE  e \notin InBuffers \cup EverStored \cup lost /\ \A f \in Flights : e \notin InFlight(f)
  BY DEF EventsMade, InBuffers, EverStored

(* Without a new call, nothing is gone as long as no event is dropped.     *)
LEMMA GoneByDropping ==
  ASSUME NothingGone, Everywhere \subseteq Everywhere', UNCHANGED made
  PROVE  NothingGone'
  BY DEF NothingGone

LEMMA ConservedByServe ==
  ASSUME TypeOK, EventsMade, EventsConserved, NEW w \in Workers, NEW c \in Calls,
         NEW t \in Tenants, NEW active \in BOOLEAN, NEW ref \in Refs \cup {NULL},
         Serve(w, c, t, active, ref)
  PROVE  EventsConserved'
<1> DEFINE new == [call : {c}, kind : IF active THEN Kinds ELSE {"api_call"}]
<1>1. /\ tenant[c] = NULL /\ tenant' = [tenant EXCEPT ![c] = t]
      /\ buffer' = [buffer EXCEPT ![w] = @ \cup new]
      /\ made' = made \cup [event : new, day : {today}]
      /\ UNCHANGED <<flight, stored, swept, lost>>
  BY DEF Serve
<1>2. \A e \in new : e.call = c
  BY DEF Kinds
<1> HIDE DEF new
<1>3. /\ new \cap (InBuffers \cup EverStored \cup lost) = {}
      /\ \A f \in Flights : new \cap InFlight(f) = {}
  BY <1>1, <1>2, NotYetMade
<1>4. /\ buffer'[w] = buffer[w] \cup new
      /\ \A v \in Workers \ {w} : buffer'[v] = buffer[v]
  BY <1>1 DEF TypeOK
<1>5. InBuffers' = InBuffers \cup new
  BY <1>4 DEF InBuffers
<1>6. EverStored' = EverStored /\ lost' = lost /\ \A f \in Flights : InFlight(f)' = InFlight(f)
  BY <1>1 DEF EverStored, InFlight
<1>7. NothingGone'
  <2>1. Everywhere' = Everywhere \cup new
    BY <1>5, <1>6 DEF Everywhere
  <2>2. \A x \in made' \ made : x.event \in new
    BY <1>1
  <2> QED
    BY <2>1, <2>2, ConservedParts DEF NothingGone
<1>8. BuffersApart'
  <2>1. \A v \in Workers : new \cap buffer[v] = {}
    BY <1>3 DEF InBuffers
  <2>2. \A u, v \in Workers : u # v => buffer'[u] \cap buffer'[v] = {}
    BY <1>4, <2>1, ConservedParts DEF BuffersApart
  <2>3. InBuffers' \cap (EverStored' \cup lost') = {}
    BY <1>3, <1>5, <1>6, ConservedParts DEF BuffersApart
  <2> QED
    BY <2>2, <2>3 DEF BuffersApart
<1>9. FlightsApart'
  BY <1>3, <1>5, <1>6, ConservedParts DEF FlightsApart
<1>10. RowsApart'
  BY <1>1, <1>6, ConservedParts DEF RowsApart
<1> QED
  BY <1>7, <1>8, <1>9, <1>10 DEF EventsConserved, NothingGone, Everywhere, BuffersApart,
     FlightsApart, RowsApart

LEMMA ConservedByTakeBuffer ==
  ASSUME TypeOK, EventsConserved, NEW f \in Flights, NEW w \in Workers,
         NEW final \in BOOLEAN, TakeBuffer(f, w, final), UNCHANGED <<tenant, tables>>
  PROVE  EventsConserved'
<1> DEFINE new == [worker |-> w, left |-> buffer[w], writing |-> {}, day |-> today,
                   final |-> final]
<1>1. /\ flight[f] = NULL /\ flight' = [flight EXCEPT ![f] = new]
      /\ buffer' = [buffer EXCEPT ![w] = {}]
      /\ UNCHANGED <<stored, swept, lost, made>>
  BY DEF TakeBuffer, BufferAfterFlush, tables
<1>2. new # NULL /\ new.left \cup new.writing = buffer[w]
  <2>1. new \in Flight
    BY DEF TypeOK, Flight
  <2> QED
    BY <2>1, RowAssumption
<1> HIDE DEF new
<1>3. buffer'[w] = {} /\ \A v \in Workers \ {w} : buffer'[v] = buffer[v]
  BY <1>1 DEF TypeOK
<1>4. /\ InFlight(f) = {} /\ InFlight(f)' = buffer[w]
      /\ \A h \in Flights \ {f} : InFlight(h)' = InFlight(h)
  BY <1>1, <1>2 DEF InFlight, TypeOK
<1>5. /\ InBuffers = InBuffers' \cup buffer[w] /\ EverStored' = EverStored
      /\ InBuffers' \cap buffer[w] = {}
  BY <1>1, <1>3, ConservedParts DEF InBuffers, EverStored, BuffersApart
<1>6. NothingGone'
  <2>1. Everywhere \subseteq Everywhere'
    BY <1>1, <1>4, <1>5 DEF Everywhere
  <2> QED
    BY <1>1, <2>1, ConservedParts, GoneByDropping
<1>7. BuffersApart'
  BY <1>1, <1>3, <1>5, ConservedParts DEF BuffersApart
<1>8. FlightsApart'
  BY <1>1, <1>4, <1>5, ConservedParts DEF FlightsApart, BuffersApart
<1>9. RowsApart'
  BY <1>1, <1>5, ConservedParts DEF RowsApart
<1> QED
  BY <1>6, <1>7, <1>8, <1>9 DEF EventsConserved, NothingGone, Everywhere, BuffersApart,
     FlightsApart, RowsApart

(* Events that leave buffers and flushes for rows or for good.             *)
LEMMA ConservedByMoving ==
  ASSUME TypeOK, EventsConserved, UNCHANGED made,
         NEW moved, moved \cap (EverStored \cup lost) = {},
         \A v \in Workers : buffer'[v] \in {buffer[v], {}},
         InBuffers' = InBuffers \ moved,
         \A h \in Flights : InFlight(h)' = InFlight(h) \ moved,
         \/ EverStored' = EverStored \cup moved /\ lost' = lost
         \/ EverStored' = EverStored /\ lost' = lost \cup moved,
         \A x, y \in stored' \cup swept' : x.event = y.event => x = y
  PROVE  EventsConserved'
<1>1. NothingGone'
  <2>1. Everywhere \subseteq Everywhere'
    BY DEF Everywhere
  <2> QED
    BY <2>1, ConservedParts, GoneByDropping
<1>2. BuffersApart'
  <2>1. \A u, v \in Workers : u # v => buffer'[u] \cap buffer'[v] = {}
    BY ConservedParts DEF BuffersApart
  <2>2. InBuffers' \cap (EverStored' \cup lost') = {}
    BY ConservedParts DEF BuffersApart
  <2> QED
    BY <2>1, <2>2 DEF BuffersApart
<1>3. FlightsApart'
  BY ConservedParts DEF FlightsApart
<1>4. RowsApart'
  BY ConservedParts DEF RowsApart
<1> QED
  BY <1>1, <1>2, <1>3, <1>4 DEF EventsConserved, NothingGone, Everywhere, BuffersApart,
     FlightsApart, RowsApart

LEMMA ConservedByInsert ==
  ASSUME TypeOK, EventsMade, EventsConserved, NEW f \in Flights,
         CommitInsert(f) \/ InsertFails(f)
  PROVE  EventsConserved'
<1> DEFINE moved == flight[f].writing
<1>1. /\ flight[f] # NULL /\ moved \subseteq InFlight(f)
      /\ UNCHANGED <<made, buffer, swept>>
  BY DEF CommitInsert, InsertFails, InFlight
<1>2. /\ InFlight(f)' = InFlight(f) \ moved
      /\ \A h \in Flights \ {f} : flight'[h] = flight[h]
  BY CommitInsertStep, InsertFailsStep
<1>3. /\ moved \cap (InBuffers \cup EverStored \cup lost) = {}
      /\ \A h \in Flights \ {f} : moved \cap InFlight(h) = {}
  BY <1>1, ConservedParts DEF FlightsApart
<1>4. InBuffers' = InBuffers \ moved
  BY <1>1, <1>3 DEF InBuffers
<1>5. \A h \in Flights : InFlight(h)' = InFlight(h) \ moved
  <2>1. ASSUME NEW h \in Flights \ {f}
        PROVE  InFlight(h)' = InFlight(h) \ moved
    <3>1. InFlight(h)' = InFlight(h)
      BY <1>2 DEF InFlight
    <3> QED
      BY <1>3, <3>1
  <2> QED
    BY <1>2, <2>1
<1>6. CASE CommitInsert(f)
  <2> DEFINE new == [event : moved, day : {flight[f].day}]
  <2>1. stored' = stored \cup new /\ lost' = lost
    BY <1>6 DEF CommitInsert
  <2>2. /\ {x.event : x \in new} = moved
        /\ \A x, y \in new : x.event = y.event => x = y
    <3> HIDE DEF moved
    <3>1. \A e \in moved : [event |-> e, day |-> flight[f].day] \in new
      OBVIOUS
    <3>2. \A x \in new : x.event \in moved /\ x = [event |-> x.event, day |-> flight[f].day]
      OBVIOUS
    <3> HIDE DEF new
    <3>3. {x.event : x \in new} \subseteq moved
      BY <3>2
    <3>4. \A e \in moved : \E x \in new : x.event = e
      BY <3>1
    <3> QED
      BY <3>2, <3>3, <3>4
  <2> HIDE DEF new, moved
  <2>3. EverStored' = EverStored \cup moved
    BY <1>1, <2>1, <2>2 DEF EverStored
  <2>4. \A x, y \in stored' \cup swept' : x.event = y.event => x = y
    <3>1. \A x \in stored \cup swept, y \in new : x.event # y.event
      BY <1>3, <2>2 DEF EverStored
    <3> QED
      BY <1>1, <2>1, <2>2, <3>1, ConservedParts DEF RowsApart
  <2> QED
    BY <1>1, <1>3, <1>4, <1>5, <2>1, <2>3, <2>4, ConservedByMoving
<1>7. CASE InsertFails(f)
  <2>1. lost' = lost \cup moved /\ stored' = stored
    BY <1>7 DEF InsertFails
  <2>2. EverStored' = EverStored /\ \A x, y \in stored' \cup swept' : x.event = y.event => x = y
    BY <1>1, <2>1, ConservedParts DEF EverStored, RowsApart
  <2> HIDE DEF moved
  <2> QED
    BY <1>1, <1>3, <1>4, <1>5, <2>1, <2>2, ConservedByMoving
<1> QED
  BY <1>6, <1>7

LEMMA ConservedByDie ==
  ASSUME TypeOK, EventsConserved, NEW w \in Workers, Die(w)
  PROVE  EventsConserved'
<1> DEFINE inFlight == UNION {flight[f].left \cup flight[f].writing : f \in FlightsOf(w)}
           moved == buffer[w] \cup inFlight
<1>1. /\ lost' = lost \cup moved /\ buffer' = [buffer EXCEPT ![w] = {}]
      /\ flight' = [f \in Flights |-> IF f \in FlightsOf(w) THEN NULL ELSE flight[f]]
      /\ UNCHANGED <<made, stored, swept>>
  BY DEF Die
<1>2. \A e : e \in inFlight <=> \E f \in FlightsOf(w) : e \in InFlight(f)
  BY DEF FlightsOf, InFlight
<1> HIDE DEF inFlight
<1>3. FlightsOf(w) \subseteq Flights
  BY DEF FlightsOf
<1>4. /\ buffer'[w] = {} /\ \A v \in Workers \ {w} : buffer'[v] = buffer[v]
      /\ \A f \in Flights : InFlight(f)' = IF f \in FlightsOf(w) THEN {} ELSE InFlight(f)
  BY <1>1 DEF TypeOK, InFlight
<1>5. inFlight \cap (InBuffers \cup EverStored \cup lost) = {}
  BY <1>2, <1>3, ConservedParts DEF FlightsApart
<1>6. /\ buffer[w] \subseteq InBuffers
      /\ \A v \in Workers \ {w} : buffer[v] \cap buffer[w] = {}
      /\ buffer[w] \cap (EverStored \cup lost) = {}
  BY ConservedParts DEF InBuffers, BuffersApart
<1>7. InBuffers' = InBuffers \ moved
  BY <1>4, <1>5, <1>6 DEF InBuffers
<1>8. \A h \in Flights : InFlight(h)' = InFlight(h) \ moved
  <2> SUFFICES ASSUME NEW h \in Flights
               PROVE  InFlight(h)' = InFlight(h) \ moved
    OBVIOUS
  <2>1. CASE h \in FlightsOf(w)
    <3>1. InFlight(h) \subseteq inFlight
      BY <1>2, <2>1
    <3> QED
      BY <1>4, <2>1, <3>1
  <2>2. CASE h \notin FlightsOf(w)
    <3>1. InFlight(h) \cap inFlight = {}
      BY <1>2, <1>3, <2>2, ConservedParts DEF FlightsApart
    <3>2. InFlight(h) \cap buffer[w] = {}
      BY <1>6, ConservedParts DEF FlightsApart
    <3> QED
      BY <1>4, <2>2, <3>1, <3>2
  <2> QED
    BY <2>1, <2>2
<1>9. moved \cap (EverStored \cup lost) = {}
  BY <1>5, <1>6
<1>10. EverStored' = EverStored /\ \A x, y \in stored' \cup swept' : x.event = y.event => x = y
  BY <1>1, ConservedParts DEF EverStored, RowsApart
<1> HIDE DEF moved
<1> QED
  BY <1>1, <1>4, <1>7, <1>8, <1>9, <1>10, ConservedByMoving

LEMMA ConservedByStutter ==
  ASSUME EventsConserved, UNCHANGED <<made, buffer, lost>>,
         stored' \cup swept' = stored \cup swept,
         \A f \in Flights : InFlight(f)' = InFlight(f)
  PROVE  EventsConserved'
<1>1. InBuffers' = InBuffers /\ EverStored' = EverStored
  BY DEF InBuffers, EverStored
<1>2. NothingGone'
  <2>1. Everywhere \subseteq Everywhere'
    BY <1>1 DEF Everywhere
  <2> QED
    BY <2>1, ConservedParts, GoneByDropping
<1>3. BuffersApart' /\ FlightsApart' /\ RowsApart'
  BY <1>1, ConservedParts DEF BuffersApart, FlightsApart, RowsApart
<1> QED
  BY <1>2, <1>3 DEF EventsConserved, NothingGone, Everywhere, BuffersApart, FlightsApart,
     RowsApart

LEMMA ConservedStep ==
  ASSUME TypeOK, EventsMade, EventsConserved, [Next]_vars
  PROVE  EventsConserved'
<1>1. ASSUME UNCHANGED <<buffer, flight, tables>>
      PROVE  EventsConserved'
  BY <1>1, ConservedByStutter DEF tables, InFlight
<1>2. ASSUME NEW f \in Flights, NEW t \in Tenants, BeginInsert(f, t)
      PROVE  EventsConserved'
  <2>1. \A h \in Flights : InFlight(h)' = InFlight(h)
    BY <1>2, BeginInsertStep DEF InFlight
  <2>2. UNCHANGED <<made, buffer, lost, stored, swept>>
    BY <1>2 DEF BeginInsert, tables
  <2> QED
    BY <2>1, <2>2, ConservedByStutter
<1>3. ASSUME NEW x \in stored, SweepEvent(x)
      PROVE  EventsConserved'
  <2>1. /\ stored' = stored \ {x} /\ swept' = swept \cup {x}
        /\ UNCHANGED <<made, buffer, flight, lost>>
    BY <1>3 DEF SweepEvent, serving
  <2> QED
    BY <2>1, ConservedByStutter DEF InFlight
<1>4. CASE UNCHANGED <<serving, tables>>
  BY <1>1, <1>4 DEF serving
<1>5. CASE ServingNext
  BY <1>1, <1>2, <1>3, <1>5, ConservedByServe, ConservedByTakeBuffer, ConservedByInsert,
     ConservedByDie DEF ServingNext
<1> QED
  BY <1>4, <1>5, TwoSides DEF vars

(* No event is metered twice and none vanishes: it is in one               *)
(* buffer, one flush or one row, or was given up with a warning or a       *)
(* process (usage.js:14-41, server.js:209-210).                            *)
THEOREM NothingMeteredTwice == Spec => []EventsConserved
<1>1. /\ TypeOK /\ EventsMade /\ RunsOK /\ EventsConserved /\ [Next]_vars
      => (TypeOK /\ EventsMade /\ RunsOK /\ EventsConserved)'
  BY TypeStep, ConservedStep
<1>2. Spec => [](TypeOK /\ EventsMade /\ RunsOK /\ EventsConserved)
  BY InitOK, ConservedInit, <1>1, PTL DEF Spec
<1> QED
  BY <1>2, PTL
-----------------------------------------------------------------------------
(* The bill.                                                               *)

BillInv == CountsOK /\ SettledOK /\ CopiesOK

EverRows == stored \cup swept

(* The rows counted as calls are those of the day, as far as they are.     *)
LEMMA CountedRows ==
  ASSUME TypeOK, NEW t, NEW d
  PROVE  /\ IsFiniteSet(CallsOn(t, d))
         /\ CallsIn(EverRowsOf(t, d)) = Cardinality(CallsOn(t, d))
         /\ CallsIn(RowsOf(t, d)) <= Cardinality(CallsOn(t, d))
         /\ CallsIn(RowsOf(t, d)) \in Nat /\ Cardinality(CallsOn(t, d)) \in Nat
<1> DEFINE some == {x \in RowsOf(t, d) : x.event.kind = "api_call"}
<1>1. CallsOn(t, d) \in SUBSET EventRow
  BY DEF CallsOn, TypeOK
<1>2. IsFiniteSet(CallsOn(t, d))
  BY <1>1, RowsAreFinite, FS_Subset
<1>3. {x \in EverRowsOf(t, d) : x.event.kind = "api_call"} = CallsOn(t, d)
  BY DEF EverRowsOf, CallsOn
<1>4. some \in SUBSET CallsOn(t, d)
  BY DEF RowsOf, CallsOn
<1>5. IsFiniteSet(some) /\ Cardinality(some) <= Cardinality(CallsOn(t, d))
  BY <1>2, <1>4, FS_Subset
<1>6. Cardinality(some) \in Nat /\ Cardinality(CallsOn(t, d)) \in Nat
  BY <1>2, <1>5, FS_CardinalityType
<1> QED
  BY <1>2, <1>3, <1>5, <1>6 DEF CallsIn

(* What a step of the serving side does to the rows there ever were: it    *)
(* adds those of a transaction that is writing, with the day on which that *)
(* began, and touches the call of no other.                                *)
RowsKept ==
  /\ EverRows \subseteq EverRows'
  /\ \A x \in EverRows : /\ tenant'[x.event.call] = tenant[x.event.call]
                         /\ subject'[x.event.call] = subject[x.event.call]
  /\ \A x \in EverRows' \ EverRows : \E f \in Flights : Writing(f, x.day)
  /\ \A f \in Flights, d \in Days : Writing(f, d)' => Writing(f, d) \/ d = today

LEMMA KeptByFlight ==
  ASSUME UNCHANGED <<tenant, subject>>, EverRows' = EverRows,
         NEW f \in Flights, \A h \in Flights \ {f} : flight'[h] = flight[h],
         flight'[f] # NULL /\ flight'[f].writing # {} => flight'[f].day = today
  PROVE  RowsKept
  BY DEF RowsKept, Writing

LEMMA KeptByServe ==
  ASSUME TypeOK, EventsMade, NEW w \in Workers, NEW c \in Calls, NEW t \in Tenants,
         NEW active \in BOOLEAN, NEW ref \in Refs \cup {NULL}, Serve(w, c, t, active, ref)
  PROVE  RowsKept
<1>1. /\ tenant[c] = NULL /\ tenant' = [tenant EXCEPT ![c] = t]
      /\ subject' = [subject EXCEPT ![c] = ref]
      /\ UNCHANGED <<flight, stored, swept>>
  BY DEF Serve, tables
<1>2. \A x \in EverRows : x.event.call \in Calls /\ x.event.call # c
  BY <1>1 DEF EverRows, EventsMade, TypeOK, EventRow, Events
<1>3. \A x \in EverRows : /\ tenant'[x.event.call] = tenant[x.event.call]
                          /\ subject'[x.event.call] = subject[x.event.call]
  BY <1>1, <1>2 DEF TypeOK
<1> QED
  BY <1>1, <1>3 DEF RowsKept, EverRows, Writing

LEMMA KeptByInsert ==
  ASSUME TypeOK, EventsMade, NEW f \in Flights, CommitInsert(f) \/ InsertFails(f)
  PROVE  RowsKept
<1> DEFINE old == flight[f]
           new == IF old.left = {} THEN NULL ELSE [old EXCEPT !.writing = {}]
<1>1. /\ old \in Flight /\ old # NULL /\ old.writing # {}
      /\ flight' = [flight EXCEPT ![f] = new]
      /\ UNCHANGED <<tenant, subject, swept>>
  BY DEF CommitInsert, InsertFails, AfterInsert, TypeOK
<1>2. /\ flight'[f] = new /\ \A h \in Flights \ {f} : flight'[h] = flight[h]
      /\ new # NULL => new.writing = {}
  BY <1>1 DEF TypeOK, Flight
<1> HIDE DEF new
<1>3. \A h \in Flights, d \in Days : Writing(h, d)' => Writing(h, d)
  BY <1>2 DEF Writing
<1>4. stored \subseteq stored' /\ \A x \in stored' \ stored : x.day = old.day
  BY DEF CommitInsert, InsertFails
<1>5. Writing(f, old.day)
  BY <1>1 DEF Writing
<1>6. EverRows \subseteq EverRows' /\ EverRows' \ EverRows \subseteq stored' \ stored
  BY <1>1, <1>4 DEF EverRows
<1> QED
  BY <1>1, <1>3, <1>4, <1>5, <1>6 DEF RowsKept

LEMMA KeptByServing ==
  ASSUME TypeOK, EventsMade, ServingNext
  PROVE  RowsKept
<1>1. ASSUME UNCHANGED <<tenant, subject, flight, stored, swept>>
      PROVE  RowsKept
  BY <1>1 DEF RowsKept, EverRows, Writing
<1>2. ASSUME NEW w \in Workers, NEW f \in Flights, NEW final \in BOOLEAN,
             TakeBuffer(f, w, final), UNCHANGED <<tenant, subject, tables>>
      PROVE  RowsKept
  <2> DEFINE new == [worker |-> w, left |-> buffer[w], writing |-> {}, day |-> today,
                     final |-> final]
  <2>1. flight' = [flight EXCEPT ![f] = new]
    BY <1>2 DEF TakeBuffer
  <2>2. flight'[f].writing = {} /\ \A h \in Flights \ {f} : flight'[h] = flight[h]
    BY <2>1 DEF TypeOK
  <2>3. EverRows' = EverRows
    BY <1>2 DEF EverRows, tables
  <2> QED
    BY <1>2, <2>2, <2>3, KeptByFlight
<1>3. ASSUME NEW w \in Workers, Die(w)
      PROVE  RowsKept
  <2>1. /\ \A h \in Flights : flight'[h] \in {NULL, flight[h]}
        /\ UNCHANGED <<tenant, subject, stored, swept>>
    BY <1>3 DEF Die
  <2> QED
    BY <2>1 DEF RowsKept, EverRows, Writing
<1>4. ASSUME NEW f \in Flights, NEW t \in Tenants, BeginInsert(f, t)
      PROVE  RowsKept
  <2> DEFINE old == flight[f]
             batch == BatchOf(old.left, t)
  <2>1. /\ old \in Flight
        /\ flight' = [flight EXCEPT ![f].writing = batch, ![f].left = old.left \ batch,
                                    ![f].day = today]
        /\ UNCHANGED <<tenant, subject, stored, swept>>
    BY <1>4 DEF BeginInsert, tables, TypeOK
  <2> HIDE DEF batch
  <2>2. flight'[f].day = today /\ \A h \in Flights \ {f} : flight'[h] = flight[h]
    BY <2>1 DEF TypeOK, Flight
  <2>3. EverRows' = EverRows
    BY <2>1 DEF EverRows
  <2> QED
    BY <2>1, <2>2, <2>3, KeptByFlight
<1>5. ASSUME NEW x \in stored, SweepEvent(x)
      PROVE  RowsKept
  <2>1. EverRows' = EverRows /\ UNCHANGED <<tenant, subject, flight>>
    BY <1>5 DEF SweepEvent, serving, EverRows
  <2> QED
    BY <2>1 DEF RowsKept, Writing
<1> QED
  BY <1>1, <1>2, <1>3, <1>4, <1>5, KeptByServe, KeptByInsert DEF ServingNext, tables
(* So the calls of a day can only become more, and a settled day keeps its *)
(* rows and their learners.                                                *)
LEMMA CallsGrow ==
  ASSUME TypeOK, TypeOK', RowsKept, NEW t, NEW d
  PROVE  Cardinality(CallsOn(t, d)) <= Cardinality(CallsOn(t, d))'
<1>1. CallsOn(t, d) \subseteq CallsOn(t, d)'
  BY DEF RowsKept, EverRows, CallsOn
<1>2. IsFiniteSet(CallsOn(t, d)')
  <2>1. CallsOn(t, d)' \in SUBSET EventRow
    BY DEF CallsOn, TypeOK
  <2> QED
    BY <2>1, RowsAreFinite, FS_Subset
<1>3. Cardinality(CallsOn(t, d)) <= Cardinality(CallsOn(t, d)')
  BY <1>1, <1>2, FS_Subset
<1> QED
  BY <1>3

LEMMA SettledDay ==
  ASSUME TypeOK, RowsKept, NEW t \in Tenants, NEW d \in Days, d < today,
         \A f \in Flights : ~ Writing(f, d)
  PROVE  /\ \A f \in Flights : ~ Writing(f, d)'
         /\ CallsIn(EverRowsOf(t, d))' = CallsIn(EverRowsOf(t, d))
         /\ LearnersIn(EverRowsOf(t, d))' = LearnersIn(EverRowsOf(t, d))
<1>1. \A f \in Flights : ~ Writing(f, d)'
  BY DEF RowsKept, TypeOK, Days
<1>2. EverRowsOf(t, d)' = EverRowsOf(t, d)
  <2>1. \A x \in EverRows' \ EverRows : x.day # d
    BY DEF RowsKept
  <2> QED
    BY <2>1 DEF RowsKept, EverRows, EverRowsOf
<1>3. CallsIn(EverRowsOf(t, d))' = CallsIn(EverRowsOf(t, d))
  BY <1>2 DEF CallsIn
<1>4. LearnersIn(EverRowsOf(t, d))' = LearnersIn(EverRowsOf(t, d))
  <2> DEFINE rows == {y \in EverRowsOf(t, d) : y.event.kind = "learner_active"}
  <2>1. \A x \in rows : subject'[x.event.call] = subject[x.event.call]
    BY DEF RowsKept, EverRows, EverRowsOf
  <2>2. rows' = rows
    BY <1>2
  <2>3. {subject'[x.event.call] : x \in rows} = {subject[x.event.call] : x \in rows}
    BY <2>1
  <2> HIDE DEF rows
  <2>4. Cardinality({subject'[x.event.call] : x \in rows'} \ {NULL})
          = Cardinality({subject[x.event.call] : x \in rows} \ {NULL})
    BY <2>2, <2>3
  <2> QED
    BY <2>4 DEF rows, LearnersIn
<1> QED
  BY <1>1, <1>3, <1>4

(* Whatever the serving side does leaves the bill as right as it was.      *)
LEMMA BillByServing ==
  ASSUME TypeOK, TypeOK', RunsOK, BillInv, RowsKept, today' >= today, UNCHANGED billing
  PROVE  BillInv'
<1>1. UNCHANGED <<daily, run, billed, early>>
  BY DEF billing
<1>2. ASSUME NEW t \in Tenants, NEW d \in Days, NEW n \in Nat,
             n <= Cardinality(CallsOn(t, d))
      PROVE  n <= Cardinality(CallsOn(t, d))'
  <2>1. Cardinality(CallsOn(t, d)) <= Cardinality(CallsOn(t, d))'
    BY CallsGrow
  <2>2. Cardinality(CallsOn(t, d)) \in Nat
    BY CountedRows
  <2>3. Cardinality(CallsOn(t, d))' \in Nat
    <3>1. CallsOn(t, d)' \in SUBSET EventRow
      BY DEF CallsOn, TypeOK
    <3> QED
      BY <3>1, RowsAreFinite, FS_Subset, FS_CardinalityType
  <2> QED
    BY <1>2, <2>1, <2>2, <2>3
<1>3. CountsOK'
  <2>1. ASSUME NEW t \in Tenants, NEW d \in Days, daily[t][d] # NULL
        PROVE  daily[t][d].calls <= Cardinality(CallsOn(t, d))'
    <3>1. daily[t][d].calls \in Nat
      BY <2>1 DEF TypeOK, DailyRow
    <3> QED
      BY <1>2, <2>1, <3>1 DEF BillInv, CountsOK
  <2>2. ASSUME NEW g \in Runners, run[g] # NULL, NEW t \in Tenants, run[g].rows[t] # NULL
        PROVE  run[g].rows[t].calls <= Cardinality(CallsOn(t, run[g].day))'
    <3>1. run[g].rows[t].calls \in Nat /\ run[g].day \in Days
      BY <2>2 DEF TypeOK, Run, DailyRow
    <3>2. run[g].rows[t].calls <= Cardinality(CallsOn(t, run[g].day))
      BY <2>2 DEF BillInv, CountsOK
    <3> QED
      BY <1>1, <1>2, <3>1, <3>2
  <2>3. ASSUME NEW m \in billed, m.kind = "api_call"
        PROVE  m.value <= Cardinality(CallsOn(m.tenant, m.day))'
    <3>1. m.value \in Nat /\ m.tenant \in Tenants /\ m.day \in Days
      BY DEF TypeOK, MeterEvent
    <3>2. m.value <= Cardinality(CallsOn(m.tenant, m.day))
      BY <2>3 DEF BillInv, CountsOK, BillsOK
    <3> QED
      BY <1>2, <3>1, <3>2
  <2>4. BillsOK'
    BY <1>1, <2>3 DEF BillInv, CountsOK, BillsOK
  <2> QED
    BY <1>1, <2>1, <2>2, <2>4 DEF CountsOK
<1>4. SettledOK'
  <2> SUFFICES ASSUME NEW t \in Tenants, NEW d \in Days, daily[t][d] # NULL, d \notin early
               PROVE  /\ d < today' /\ \A f \in Flights : ~ Writing(f, d)'
                      /\ daily[t][d].calls = CallsIn(EverRowsOf(t, d))'
                      /\ daily[t][d].learners = LearnersIn(EverRowsOf(t, d))'
    BY <1>1 DEF SettledOK
  <2>1. /\ d < today /\ \A f \in Flights : ~ Writing(f, d)
        /\ daily[t][d].calls = CallsIn(EverRowsOf(t, d))
        /\ daily[t][d].learners = LearnersIn(EverRowsOf(t, d))
    BY DEF BillInv, SettledOK
  <2>2. d < today'
    BY <2>1 DEF TypeOK, Days
  <2> QED
    BY <2>1, <2>2, SettledDay
<1>5. CopiesOK'
  BY <1>1 DEF BillInv, CopiesOK, BillMatchesUsage
<1> QED
  BY <1>3, <1>4, <1>5 DEF BillInv

(* A step of the billing side sees the rows of the serving side stand.     *)
LEMMA RowsStand ==
  ASSUME UNCHANGED <<today, serving, tables>>
  PROVE  /\ \A t, d : CallsOn(t, d)' = CallsOn(t, d)
         /\ \A t, d : CallsIn(EverRowsOf(t, d))' = CallsIn(EverRowsOf(t, d))
         /\ \A t, d : LearnersIn(EverRowsOf(t, d))' = LearnersIn(EverRowsOf(t, d))
         /\ \A f, d : Writing(f, d)' <=> Writing(f, d)
  BY DEF serving, tables, CallsOn, CallsIn, LearnersIn, EverRowsOf, Writing

(* A step that changes only one run, what is billed and pushed_at: if the  *)
(* run's copies come from the table, and what is billed from its copies,   *)
(* the bill is right.                                                      *)
LEMMA BillByRun ==
  ASSUME TypeOK, RunsOK, BillInv, UNCHANGED <<today, serving, tables, early>>,
         NEW g \in Runners, NEW x, run' = [run EXCEPT ![g] = x],
         \A t \in Tenants, d \in Days :
           /\ daily'[t][d] # NULL <=> daily[t][d] # NULL
           /\ daily[t][d] # NULL => /\ daily'[t][d].calls = daily[t][d].calls
                                    /\ daily'[t][d].learners = daily[t][d].learners,
         x # NULL =>
           /\ run[g] # NULL /\ x.day = run[g].day
           /\ \A t \in Tenants : x.rows[t] # NULL =>
                \/ /\ run[g].rows[t] # NULL
                   /\ x.rows[t].calls = run[g].rows[t].calls
                   /\ x.rows[t].learners = run[g].rows[t].learners
                \/ daily[t][x.day] # NULL /\ x.rows[t] = daily[t][x.day],
         BillsOK', BillMatchesUsage'
  PROVE  BillInv'
<1>1. /\ run'[g] = x /\ \A h \in Runners \ {g} : run'[h] = run[h]
      /\ \A h \in Runners : run[h] # NULL => run[h].day \in Days
  BY DEF TypeOK, Run
<1>2. CountsOK'
  <2>1. \A t \in Tenants, d \in Days : daily'[t][d] # NULL =>
          daily'[t][d].calls <= Cardinality(CallsOn(t, d))
    BY DEF BillInv, CountsOK
  <2>2. ASSUME x # NULL, NEW t \in Tenants, x.rows[t] # NULL
        PROVE  x.rows[t].calls <= Cardinality(CallsOn(t, x.day))
    BY <1>1, <2>2 DEF BillInv, CountsOK
  <2>3. \A h \in Runners : run'[h] # NULL =>
          \A t \in Tenants : run'[h].rows[t] # NULL =>
            run'[h].rows[t].calls <= Cardinality(CallsOn(t, run'[h].day))
    BY <1>1, <2>2 DEF BillInv, CountsOK
  <2>4. \A t, d : CallsOn(t, d)' = CallsOn(t, d)
    BY RowsStand
  <2> QED
    BY <2>1, <2>3, <2>4 DEF CountsOK
<1>3. SettledOK'
  <2>1. \A t, d : /\ CallsIn(EverRowsOf(t, d))' = CallsIn(EverRowsOf(t, d))
                  /\ LearnersIn(EverRowsOf(t, d))' = LearnersIn(EverRowsOf(t, d))
    BY RowsStand
  <2>2. \A f, d : Writing(f, d)' <=> Writing(f, d)
    BY RowsStand
  <2> QED
    BY <2>1, <2>2 DEF BillInv, SettledOK
<1>4. CopiesOK'
  <2>1. ASSUME x # NULL, x.day \notin early, NEW t \in Tenants, x.rows[t] # NULL
        PROVE  /\ x.rows[t].calls = daily'[t][x.day].calls
               /\ x.rows[t].learners = daily'[t][x.day].learners
    <3>1. x.day \in Days /\ x.day = run[g].day /\ run[g] # NULL
      BY <1>1, <2>1
    <3>2. CASE /\ run[g].rows[t] # NULL
               /\ x.rows[t].calls = run[g].rows[t].calls
               /\ x.rows[t].learners = run[g].rows[t].learners
      <4>1. daily[t][x.day] # NULL
        BY <3>1, <3>2 DEF RunsOK
      <4>2. /\ run[g].rows[t].calls = daily[t][x.day].calls
            /\ run[g].rows[t].learners = daily[t][x.day].learners
        BY <2>1, <3>1, <3>2 DEF BillInv, CopiesOK
      <4> QED
        BY <3>1, <3>2, <4>1, <4>2
    <3>3. CASE daily[t][x.day] # NULL /\ x.rows[t] = daily[t][x.day]
      BY <3>1, <3>3
    <3> QED
      BY <2>1, <3>2, <3>3
  <2>2. ASSUME NEW h \in Runners \ {g}, run[h] # NULL, run[h].day \notin early,
               NEW t \in Tenants, run[h].rows[t] # NULL
        PROVE  /\ run[h].rows[t].calls = daily'[t][run[h].day].calls
               /\ run[h].rows[t].learners = daily'[t][run[h].day].learners
    <3>1. daily[t][run[h].day] # NULL /\ run[h].day \in Days
      BY <1>1, <2>2 DEF RunsOK
    <3> QED
      BY <2>2, <3>1 DEF BillInv, CopiesOK
  <2> QED
    BY <1>1, <2>1, <2>2 DEF CopiesOK
<1> QED
  BY <1>2, <1>3, <1>4 DEF BillInv

(* What is billed stays right as long as nothing is billed and no count of *)
(* a settled day changes.                                                  *)
LEMMA BilledStands ==
  ASSUME TypeOK, BillInv, UNCHANGED <<today, serving, tables, billed>>, early \subseteq early',
         \A t \in Tenants, d \in Days \ early' : daily[t][d] # NULL =>
           /\ daily'[t][d] # NULL
           /\ daily'[t][d].calls = daily[t][d].calls
           /\ daily'[t][d].learners = daily[t][d].learners
  PROVE  BillsOK' /\ BillMatchesUsage'
<1>1. BillsOK'
  <2>1. \A t, d : CallsOn(t, d)' = CallsOn(t, d)
    BY RowsStand
  <2> QED
    BY <2>1 DEF BillInv, CountsOK, BillsOK
<1>2. BillMatchesUsage'
  <2>1. \A m \in billed : m.tenant \in Tenants /\ m.day \in Days
    BY DEF TypeOK, MeterEvent
  <2> QED
    BY <2>1 DEF BillInv, CopiesOK, BillMatchesUsage
<1> QED
  BY <1>1, <1>2

LEMMA BillByNextRow ==
  ASSUME TypeOK, RunsOK, BillInv, UNCHANGED <<today, serving, tables, billed, early>>,
         NEW g \in Runners, run[g] # NULL, NEW rows, NextRow(g, rows),
         \A t \in Tenants, d \in Days :
           /\ daily'[t][d] # NULL <=> daily[t][d] # NULL
           /\ daily[t][d] # NULL => /\ daily'[t][d].calls = daily[t][d].calls
                                    /\ daily'[t][d].learners = daily[t][d].learners,
         \A t \in Tenants : rows[t] # NULL =>
           \/ /\ run[g].rows[t] # NULL
              /\ rows[t].calls = run[g].rows[t].calls
              /\ rows[t].learners = run[g].rows[t].learners
           \/ daily[t][run[g].day] # NULL /\ rows[t] = daily[t][run[g].day]
  PROVE  BillInv'
<1>1. BillsOK' /\ BillMatchesUsage'
  BY BilledStands
<1>2. CASE run' = [run EXCEPT ![g] = NULL]
  BY <1>1, <1>2, BillByRun
<1>3. ASSUME NEW t \in ToPush(rows),
             run' = [run EXCEPT ![g].rows = rows, ![g].stage = "calls", ![g].tenant = t]
      PROVE  BillInv'
  <2> DEFINE x == [run[g] EXCEPT !.rows = rows, !.stage = "calls", !.tenant = t]
  <2>1. x.day = run[g].day /\ x.rows = rows
    BY DEF TypeOK, Run
  <2>2. run' = [run EXCEPT ![g] = x]
    BY <1>3
  <2> HIDE DEF x
  <2> QED
    BY <1>1, <2>1, <2>2, BillByRun
<1> QED
  BY <1>2, <1>3 DEF NextRow

LEMMA BillByReadDaily ==
  ASSUME TypeOK, RunsOK, BillInv, NEW g \in Runners, ReadDaily(g)
  PROVE  BillInv'
<1> DEFINE rows == [t \in Tenants |-> daily[t][run[g].day]]
<1>1. /\ run[g] # NULL /\ NextRow(g, rows)
      /\ UNCHANGED <<today, serving, tables, daily, billed, early>>
  BY DEF ReadDaily
<1>2. \A t \in Tenants : rows[t] = daily[t][run[g].day]
  OBVIOUS
<1> HIDE DEF rows
<1> QED
  BY <1>1, <1>2, BillByNextRow

LEMMA BillByMarkPushed ==
  ASSUME TypeOK, RunsOK, BillInv, NEW g \in Runners, MarkPushed(g)
  PROVE  BillInv'
<1> DEFINE r == run[g]
           old == daily[r.tenant][r.day]
           rows == [r.rows EXCEPT ![r.tenant].pushed = TRUE]
<1>1. /\ r # NULL /\ r \in Run /\ r.stage = "mark"
      /\ daily' = [daily EXCEPT ![r.tenant][r.day].pushed = TRUE]
      /\ NextRow(g, rows) /\ UNCHANGED <<today, serving, tables, billed, early>>
  BY DEF MarkPushed, TypeOK
<1>2. /\ r.tenant \in Tenants /\ r.day \in Days
      /\ r.rows \in [Tenants -> DailyRow \cup {NULL}]
      /\ r.rows[r.tenant] # NULL /\ r.rows[r.tenant] \in DailyRow
  BY <1>1 DEF TypeOK, Run
<1>3. old # NULL /\ old \in DailyRow
  BY <1>1, <1>2 DEF RunsOK, TypeOK
<1>4. /\ [old EXCEPT !.pushed = TRUE] # NULL
      /\ [old EXCEPT !.pushed = TRUE].calls = old.calls
      /\ [old EXCEPT !.pushed = TRUE].learners = old.learners
  <2>1. [old EXCEPT !.pushed = TRUE] \in DailyRow
    BY <1>3 DEF DailyRow
  <2> QED
    BY <1>3, <2>1, RowAssumption DEF DailyRow
<1>5. /\ daily'[r.tenant][r.day] = [old EXCEPT !.pushed = TRUE]
      /\ \A t \in Tenants, d \in Days :
           t # r.tenant \/ d # r.day => daily'[t][d] = daily[t][d]
  BY <1>1, <1>2 DEF TypeOK
<1>6. \A t \in Tenants, d \in Days :
        /\ daily'[t][d] # NULL <=> daily[t][d] # NULL
        /\ daily[t][d] # NULL => /\ daily'[t][d].calls = daily[t][d].calls
                                 /\ daily'[t][d].learners = daily[t][d].learners
  BY <1>3, <1>4, <1>5
<1>7. \A t \in Tenants : rows[t] # NULL =>
        /\ r.rows[t] # NULL
        /\ rows[t].calls = r.rows[t].calls
        /\ rows[t].learners = r.rows[t].learners
  BY <1>2 DEF DailyRow
<1> HIDE DEF rows, old
<1>8. \A t \in Tenants : rows[t] # NULL =>
        \/ /\ run[g].rows[t] # NULL
           /\ rows[t].calls = run[g].rows[t].calls
           /\ rows[t].learners = run[g].rows[t].learners
        \/ daily[t][run[g].day] # NULL /\ rows[t] = daily[t][run[g].day]
  BY <1>7
<1>9. run[g] # NULL /\ NextRow(g, rows) /\ UNCHANGED <<today, serving, tables, billed, early>>
  BY <1>1
<1> HIDE DEF r
<1> QED
  BY <1>6, <1>8, <1>9, BillByNextRow

LEMMA BillByRunEnds ==
  ASSUME TypeOK, RunsOK, BillInv, NEW g \in Runners, RunEnds(g)
  PROVE  BillInv'
<1>1. /\ run' = [run EXCEPT ![g] = NULL]
      /\ UNCHANGED <<today, serving, tables, daily, billed, early>>
  BY DEF RunEnds
<1>2. BillsOK' /\ BillMatchesUsage'
  BY <1>1, BilledStands
<1> QED
  BY <1>1, <1>2, BillByRun

(* One identifier, one event: a day that is sent again is not recorded.    *)
LEMMA RecordOnce ==
  ASSUME NEW m, NEW n \in Record(m), NEW o \in Record(m),
         \A u, v \in billed : SameIdentifier(u, v) => u = v, SameIdentifier(n, o)
  PROVE  n = o
  BY DEF Record, SameIdentifier

LEMMA BillByPush ==
  ASSUME TypeOK, RunsOK, BillInv, NEW g \in Runners, Push(g)
  PROVE  BillInv'
<1> DEFINE r == run[g]
           t == r.tenant
           kind == IF r.stage = "calls" THEN "api_call" ELSE "learner_active"
           value == IF r.stage = "calls" THEN r.rows[t].calls ELSE r.rows[t].learners
           m == [tenant |-> t, day |-> r.day, kind |-> kind, value |-> value]
           x == [r EXCEPT !.stage = NextStage(r.stage)]
<1>1. /\ r # NULL /\ r \in Run /\ r.stage \in {"calls", "learners"}
      /\ billed' = Record(m) /\ run' = [run EXCEPT ![g] = x]
      /\ UNCHANGED <<today, serving, tables, daily, early>>
  BY DEF Push, TypeOK
<1>2. t \in Tenants /\ r.rows[t] # NULL /\ r.day \in Days /\ daily[t][r.day] # NULL
  BY <1>1 DEF TypeOK, Run, RunsOK
<1>3. m.tenant = t /\ m.day = r.day /\ m.kind = kind /\ m.value = value
  OBVIOUS
<1>4. x.day = r.day /\ x.rows = r.rows
  BY <1>1 DEF Run
<1> HIDE DEF m, x
<1>5. billed' \subseteq billed \cup {m}
  BY <1>1, RecordAdds
<1>6. \A u, d : CallsOn(u, d)' = CallsOn(u, d)
  BY <1>1, RowsStand
<1>7. BillsOK'
  <2>1. \A u, v \in billed : SameIdentifier(u, v) => u = v
    BY DEF BillInv, CountsOK, BillsOK, SameIdentifier
  <2>2. \A u, v \in billed' : SameIdentifier(u, v) => u = v
    BY <1>1, <2>1, RecordOnce
  <2>3. m.kind = "api_call" => m.value <= Cardinality(CallsOn(m.tenant, m.day))
    BY <1>1, <1>2, <1>3 DEF BillInv, CountsOK
  <2>4. \A n \in billed' :
          n.kind = "api_call" => n.value <= Cardinality(CallsOn(n.tenant, n.day))
    BY <1>5, <2>3 DEF BillInv, CountsOK, BillsOK
  <2> QED
    BY <1>6, <2>2, <2>4 DEF BillsOK, SameIdentifier
<1>8. BillMatchesUsage'
  <2>1. m.day \notin early =>
          m.value = IF m.kind = "api_call" THEN daily[m.tenant][m.day].calls
                                           ELSE daily[m.tenant][m.day].learners
    BY <1>1, <1>2, <1>3 DEF BillInv, CopiesOK
  <2> QED
    BY <1>1, <1>2, <1>3, <1>5, <2>1 DEF BillInv, CopiesOK, BillMatchesUsage
<1> QED
  BY <1>1, <1>4, <1>7, <1>8, BillByRun

(* An aggregation counts no more than the calls of the day; and one of a   *)
(* settled day counts all of them, again and again.                        *)
LEMMA BillByAggregate ==
  ASSUME TypeOK, RunsOK, BillInv, NEW g \in Runners, NEW d \in 0..today, Aggregate(g, d)
  PROVE  BillInv'
<1> DEFINE new(t) == [calls    |-> CallsIn(RowsOf(t, d)),
                      learners |-> LearnersIn(RowsOf(t, d)),
                      pushed   |-> IF daily[t][d] = NULL THEN FALSE ELSE daily[t][d].pushed]
           x == [day |-> d, rows |-> [t \in Tenants |-> NULL], stage |-> "read", tenant |-> NULL]
<1>1. d \in Days /\ d <= today /\ d \in Nat /\ today \in Nat
  BY UsageAssumption DEF TypeOK, Days
<1>2. /\ daily' = [t \in Tenants |-> IF RowsOf(t, d) = {} THEN daily[t]
                                     ELSE [daily[t] EXCEPT ![d] = new(t)]]
      /\ run[g] = NULL /\ run' = [run EXCEPT ![g] = x]
      /\ early' = IF Unsettled(d) THEN early \cup {d} ELSE early
      /\ UNCHANGED <<today, serving, tables, billed>>
  BY DEF Aggregate
<1>3. ASSUME NEW t \in Tenants
      PROVE  new(t).calls = CallsIn(RowsOf(t, d)) /\ new(t).learners = LearnersIn(RowsOf(t, d))
  OBVIOUS
<1> HIDE DEF new
<1>4. ASSUME NEW t \in Tenants
      PROVE  /\ \A e \in Days \ {d} : daily'[t][e] = daily[t][e]
             /\ RowsOf(t, d) = {} => daily'[t][d] = daily[t][d]
             /\ RowsOf(t, d) # {} => daily'[t][d] = new(t)
  BY <1>1, <1>2 DEF TypeOK
<1>5. ASSUME NEW t \in Tenants, d \notin early'
      PROVE  /\ d < today /\ \A f \in Flights : ~ Writing(f, d)
             /\ RowsOf(t, d) = EverRowsOf(t, d) /\ d \notin early
  <2>1. ~ Unsettled(d) /\ d \notin early
    BY <1>2, <1>5
  <2>2. d < today /\ \A f \in Flights : ~ Writing(f, d)
    BY <1>1, <2>1 DEF Unsettled, Writing
  <2>3. \A y \in swept : y.day # d
    BY <2>1 DEF Unsettled
  <2>4. RowsOf(t, d) = EverRowsOf(t, d)
    BY <2>3 DEF RowsOf, EverRowsOf
  <2> QED
    BY <2>1, <2>2, <2>4
(* A settled day keeps its counts.                                         *)
<1>6. ASSUME NEW t \in Tenants, NEW e \in Days, e \notin early', daily[t][e] # NULL
      PROVE  /\ daily'[t][e] # NULL
             /\ daily'[t][e].calls = daily[t][e].calls
             /\ daily'[t][e].learners = daily[t][e].learners
  <2>1. e \notin early
    BY <1>2, <1>6
  <2>2. CASE e # d \/ RowsOf(t, d) = {}
    BY <1>4, <1>6, <2>2
  <2>3. CASE e = d /\ RowsOf(t, d) # {}
    <3>1. RowsOf(t, d) = EverRowsOf(t, d)
      BY <1>5, <1>6, <2>3
    <3>2. /\ daily[t][d].calls = CallsIn(EverRowsOf(t, d))
          /\ daily[t][d].learners = LearnersIn(EverRowsOf(t, d))
      BY <1>6, <2>1, <2>3 DEF BillInv, SettledOK
    <3>3. daily'[t][d] # NULL
      BY <1>1, <1>6, <2>3, AggregateStep
    <3> QED
      BY <1>3, <1>4, <2>3, <3>1, <3>2, <3>3
  <2> QED
    BY <2>2, <2>3
<1>7. BillsOK' /\ BillMatchesUsage'
  BY <1>2, <1>6, BilledStands
<1>8. /\ run'[g] = x /\ \A h \in Runners \ {g} : run'[h] = run[h]
      /\ \A t \in Tenants : x.rows[t] = NULL
      /\ \A h \in Runners : run[h] # NULL => run[h].day \in Days
  BY <1>2 DEF TypeOK, Run
<1> HIDE DEF x
<1>9. CountsOK'
  <2>1. \A t, e : CallsOn(t, e)' = CallsOn(t, e)
    BY <1>2, RowsStand
  <2>2. ASSUME NEW t \in Tenants, NEW e \in Days, daily'[t][e] # NULL
        PROVE  daily'[t][e].calls <= Cardinality(CallsOn(t, e))
    <3>1. CASE e = d /\ RowsOf(t, d) # {}
      BY <1>3, <1>4, <3>1, CountedRows
    <3>2. CASE e # d \/ RowsOf(t, d) = {}
      BY <1>4, <2>2, <3>2 DEF BillInv, CountsOK
    <3> QED
      BY <3>1, <3>2
  <2>3. \A h \in Runners : run'[h] # NULL =>
          \A t \in Tenants : run'[h].rows[t] # NULL =>
            run'[h].rows[t].calls <= Cardinality(CallsOn(t, run'[h].day))
    BY <1>8 DEF BillInv, CountsOK
  <2> QED
    BY <1>7, <2>1, <2>2, <2>3 DEF CountsOK
<1>10. SettledOK'
  <2>1. \A t, e : /\ CallsIn(EverRowsOf(t, e))' = CallsIn(EverRowsOf(t, e))
                  /\ LearnersIn(EverRowsOf(t, e))' = LearnersIn(EverRowsOf(t, e))
    BY <1>2, RowsStand
  <2>2. \A f, e : Writing(f, e)' <=> Writing(f, e)
    BY <1>2, RowsStand
  <2>3. ASSUME NEW t \in Tenants, NEW e \in Days, daily'[t][e] # NULL, e \notin early'
        PROVE  /\ e < today /\ \A f \in Flights : ~ Writing(f, e)
               /\ daily'[t][e].calls = CallsIn(EverRowsOf(t, e))
               /\ daily'[t][e].learners = LearnersIn(EverRowsOf(t, e))
    <3>1. CASE e = d /\ RowsOf(t, d) # {}
      BY <1>3, <1>4, <1>5, <2>3, <3>1
    <3>2. CASE e # d \/ RowsOf(t, d) = {}
      <4>1. e \notin early /\ daily'[t][e] = daily[t][e]
        BY <1>2, <1>4, <2>3, <3>2
      <4> QED
        BY <2>3, <4>1 DEF BillInv, SettledOK
    <3> QED
      BY <3>1, <3>2
  <2> QED
    BY <1>2, <2>1, <2>2, <2>3 DEF SettledOK
<1>11. CopiesOK'
  <2>1. ASSUME NEW h \in Runners \ {g}, run[h] # NULL, run[h].day \notin early',
               NEW t \in Tenants, run[h].rows[t] # NULL
        PROVE  /\ run[h].rows[t].calls = daily'[t][run[h].day].calls
               /\ run[h].rows[t].learners = daily'[t][run[h].day].learners
    <3>1. daily[t][run[h].day] # NULL /\ run[h].day \in Days /\ run[h].day \notin early
      BY <1>2, <1>8, <2>1 DEF RunsOK
    <3>2. /\ run[h].rows[t].calls = daily[t][run[h].day].calls
          /\ run[h].rows[t].learners = daily[t][run[h].day].learners
      BY <2>1, <3>1 DEF BillInv, CopiesOK
    <3> QED
      BY <1>6, <2>1, <3>1, <3>2
  <2> QED
    BY <1>7, <1>8, <2>1 DEF CopiesOK
<1> QED
  BY <1>9, <1>10, <1>11 DEF BillInv

LEMMA BillStep ==
  ASSUME TypeOK, EventsMade, RunsOK, BillInv, [Next]_vars
  PROVE  BillInv'
<1>1. TypeOK'
  BY TypeStep
<1>2. ASSUME UNCHANGED <<serving, tables, billing>>, today' >= today
      PROVE  BillInv'
  <2>1. RowsKept
    BY <1>2 DEF RowsKept, EverRows, Writing, serving, tables
  <2> QED
    BY <1>1, <1>2, <2>1, BillByServing
<1>3. CASE UNCHANGED vars
  BY <1>2, <1>3 DEF vars, TypeOK, Days
<1>4. CASE ServingNext /\ UNCHANGED <<today, billing>>
  <2>1. today' >= today
    BY <1>4 DEF TypeOK, Days
  <2> QED
    BY <1>1, <1>4, <2>1, KeptByServing, BillByServing
<1>5. CASE BillingNext
  BY <1>5, BillByAggregate, BillByReadDaily, BillByPush, BillByMarkPushed, BillByRunEnds
     DEF BillingNext
<1> QED
  BY <1>2, <1>3, <1>4, <1>5, TwoSides

LEMMA BillAlways == Spec => []BillInv
<1>1. Init => BillInv
  BY DEF Init, BillInv, CountsOK, SettledOK, CopiesOK, BillsOK, BillMatchesUsage
<1>2. /\ TypeOK /\ EventsMade /\ RunsOK /\ BillInv /\ [Next]_vars
      => (TypeOK /\ EventsMade /\ RunsOK /\ BillInv)'
  BY TypeStep, BillStep
<1>3. Spec => [](TypeOK /\ EventsMade /\ RunsOK /\ BillInv)
  BY InitOK, <1>1, <1>2, PTL DEF Spec
<1> QED
  BY <1>3, PTL

(* The calls that are billed, and those that were made.                    *)

LEMMA DatesByServe ==
  ASSUME TypeOK, DatesOK, made \subseteq made', NEW w \in Workers, NEW c \in Calls,
         NEW t \in Tenants, NEW active \in BOOLEAN, NEW ref \in Refs \cup {NULL},
         Serve(w, c, t, active, ref)
  PROVE  DatesOK'
<1> DEFINE new == [call : {c}, kind : IF active THEN Kinds ELSE {"api_call"}]
<1>1. /\ buffer' = [buffer EXCEPT ![w] = @ \cup new]
      /\ made' = made \cup [event : new, day : {today}]
      /\ UNCHANGED <<today, flight, stored, swept>>
  BY DEF Serve
<1>2. \A e, d : MadeBy(e, d) => MadeBy(e, d)'
  BY DEF MadeBy
<1>3. ASSUME NEW e \in new
      PROVE  MadeBy(e, today)'
  <2> HIDE DEF new
  <2>1. [event |-> e, day |-> today] \in made'
    BY <1>1
  <2>2. today' = today /\ today <= today
    BY <1>1 DEF TypeOK, Days
  <2> QED
    BY <2>1, <2>2 DEF MadeBy
<1> HIDE DEF new
<1>4. \A v \in Workers : buffer'[v] \subseteq buffer[v] \cup new
  BY <1>1 DEF TypeOK
<1>5. \A e : MadeBy(e, today) => MadeBy(e, today)'
  BY <1>1, <1>2
<1> QED
  BY <1>1, <1>2, <1>3, <1>4, <1>5 DEF DatesOK

(* Events that go on in a buffer or a flush, or are stored by their flush. *)
LEMMA DatesByMoving ==
  ASSUME TypeOK, TypeOK', DatesOK, made \subseteq made', today' >= today,
         \A v \in Workers : buffer'[v] \subseteq buffer[v],
         \A f \in Flights : flight'[f] # NULL =>
           /\ \A e \in flight'[f].left :
                \/ \E v \in Workers : e \in buffer[v]
                \/ flight[f] # NULL /\ e \in flight[f].left
           /\ \A e \in flight'[f].writing :
                /\ flight[f] # NULL
                /\ \/ e \in flight[f].left /\ flight'[f].day = today
                   \/ e \in flight[f].writing /\ flight'[f].day = flight[f].day,
         \A x \in stored' \cup swept' :
           \/ x \in stored \cup swept
           \/ \E f \in Flights : /\ flight[f] # NULL /\ x.event \in flight[f].writing
                                 /\ x.day = flight[f].day
  PROVE  DatesOK'
<1>1. today \in Days /\ today' \in Days
  BY DEF TypeOK
<1>2. \A e : MadeBy(e, today) => MadeBy(e, today)'
  <2> TAKE e
  <2>1. MadeBy(e, today) => \E x \in made' : x.event = e /\ x.day <= today'
    BY <1>1 DEF MadeBy, TypeOK, EventRow, Days
  <2> QED
    BY <2>1 DEF MadeBy
<1>3. \A e, d : MadeBy(e, d) => \E x \in made' : x.event = e /\ x.day <= d
  BY DEF MadeBy
<1>4. ASSUME NEW v \in Workers, NEW e \in buffer'[v]
      PROVE  MadeBy(e, today)'
  BY <1>2, <1>4 DEF DatesOK
<1>5. ASSUME NEW f \in Flights, flight'[f] # NULL, NEW e \in flight'[f].left
      PROVE  MadeBy(e, today)'
  BY <1>2, <1>5 DEF DatesOK
<1>6. ASSUME NEW f \in Flights, flight'[f] # NULL, NEW e \in flight'[f].writing
      PROVE  \E x \in made' : x.event = e /\ x.day <= flight'[f].day
  <2>1. CASE e \in flight[f].left /\ flight'[f].day = today
    BY <1>3, <1>6, <2>1 DEF DatesOK
  <2>2. CASE e \in flight[f].writing /\ flight'[f].day = flight[f].day
    BY <1>3, <1>6, <2>2 DEF DatesOK
  <2> QED
    BY <1>6, <2>1, <2>2
<1>7. ASSUME NEW x \in stored' \cup swept'
      PROVE  \E y \in made' : y.event = x.event /\ y.day <= x.day
  <2>1. CASE x \in stored \cup swept
    BY <1>3, <2>1 DEF DatesOK
  <2>2. CASE x \notin stored \cup swept
    <3>1. PICK f \in Flights : /\ flight[f] # NULL /\ x.event \in flight[f].writing
                              /\ x.day = flight[f].day
      BY <1>7, <2>2
    <3> QED
      BY <1>3, <3>1 DEF DatesOK
  <2> QED
    BY <2>1, <2>2
<1> QED
  BY <1>4, <1>5, <1>6, <1>7 DEF DatesOK, MadeBy

LEMMA DatesStep ==
  ASSUME TypeOK, EventsMade, RunsOK, DatesOK, [Next]_vars
  PROVE  DatesOK'
<1>1. TypeOK' /\ made \subseteq made'
  BY TypeStep, MadeStep
<1>2. today \in Nat
  BY DEF TypeOK, Days
<1>3. ASSUME UNCHANGED <<buffer, flight, stored, swept>>, today' >= today
      PROVE  DatesOK'
  BY <1>1, <1>3, DatesByMoving
<1>4. ASSUME NEW w \in Workers, NEW f \in Flights, NEW final \in BOOLEAN,
             TakeBuffer(f, w, final), UNCHANGED <<today, tables>>
      PROVE  DatesOK'
  <2> DEFINE new == [worker |-> w, left |-> buffer[w], writing |-> {}, day |-> today,
                     final |-> final]
  <2>1. /\ flight' = [flight EXCEPT ![f] = new] /\ buffer' = [buffer EXCEPT ![w] = {}]
        /\ UNCHANGED <<stored, swept>>
    BY <1>4 DEF TakeBuffer, BufferAfterFlush, tables
  <2>2. \A v \in Workers : buffer'[v] \subseteq buffer[v]
    BY <2>1 DEF TypeOK
  <2>3. /\ flight'[f].left = buffer[w] /\ flight'[f].writing = {}
        /\ \A h \in Flights \ {f} : flight'[h] = flight[h]
    BY <2>1 DEF TypeOK
  <2>4. today' >= today
    BY <1>2, <1>4
  <2> HIDE DEF new
  <2>5. ASSUME NEW h \in Flights, flight'[h] # NULL
        PROVE  /\ \A e \in flight'[h].left :
                    \/ \E v \in Workers : e \in buffer[v]
                    \/ flight[h] # NULL /\ e \in flight[h].left
               /\ \A e \in flight'[h].writing :
                    /\ flight[h] # NULL
                    /\ e \in flight[h].writing /\ flight'[h].day = flight[h].day
    BY <2>3, <2>5
  <2> QED
    BY <1>1, <2>1, <2>2, <2>4, <2>5, DatesByMoving
<1>5. ASSUME NEW w \in Workers, Die(w), UNCHANGED today
      PROVE  DatesOK'
  <2>1. /\ buffer' = [buffer EXCEPT ![w] = {}]
        /\ \A f \in Flights : flight'[f] \in {NULL, flight[f]}
        /\ UNCHANGED <<stored, swept>>
    BY <1>5 DEF Die
  <2>2. \A v \in Workers : buffer'[v] \subseteq buffer[v]
    BY <2>1 DEF TypeOK
  <2>3. today' >= today
    BY <1>2, <1>5
  <2> QED
    BY <1>1, <2>1, <2>2, <2>3, DatesByMoving
<1>6. ASSUME NEW f \in Flights, NEW t \in Tenants, BeginInsert(f, t)
      PROVE  DatesOK'
  <2> DEFINE old == flight[f]
             batch == BatchOf(old.left, t)
  <2>1. /\ old \in Flight /\ old # NULL
        /\ flight' = [flight EXCEPT ![f].writing = batch, ![f].left = old.left \ batch,
                                    ![f].day = today]
        /\ UNCHANGED <<today, buffer, stored, swept>>
    BY <1>6 DEF BeginInsert, tables, TypeOK
  <2>2. batch \subseteq old.left
    BY DEF BatchOf
  <2> HIDE DEF batch
  <2>3. /\ flight'[f].day = today /\ flight'[f].writing = batch
        /\ flight'[f].left = old.left \ batch
        /\ \A h \in Flights \ {f} : flight'[h] = flight[h]
    BY <2>1 DEF TypeOK, Flight
  <2>4. today' >= today
    BY <1>2, <2>1
  <2>5. ASSUME NEW h \in Flights, flight'[h] # NULL
        PROVE  /\ \A e \in flight'[h].left : flight[h] # NULL /\ e \in flight[h].left
               /\ \A e \in flight'[h].writing :
                    /\ flight[h] # NULL
                    /\ \/ e \in flight[h].left /\ flight'[h].day = today
                       \/ e \in flight[h].writing /\ flight'[h].day = flight[h].day
    BY <2>1, <2>2, <2>3, <2>5
  <2> QED
    BY <1>1, <2>1, <2>4, <2>5, DatesByMoving
<1>7. ASSUME NEW f \in Flights, CommitInsert(f) \/ InsertFails(f)
      PROVE  DatesOK'
  <2> DEFINE old == flight[f]
             new == IF old.left = {} THEN NULL ELSE [old EXCEPT !.writing = {}]
  <2>1. /\ old \in Flight /\ old # NULL
        /\ flight' = [flight EXCEPT ![f] = new]
        /\ UNCHANGED <<today, buffer, swept>>
    BY <1>7 DEF CommitInsert, InsertFails, AfterInsert, TypeOK
  <2>2. new # NULL => new.left = old.left /\ new.writing = {}
    BY <2>1 DEF Flight
  <2> HIDE DEF new
  <2>3. flight'[f] = new /\ \A h \in Flights \ {f} : flight'[h] = flight[h]
    BY <2>1 DEF TypeOK
  <2>4. ASSUME NEW x \in stored' \cup swept', x \notin stored \cup swept
        PROVE  x.event \in old.writing /\ x.day = old.day
    BY <1>7, <2>1, <2>4 DEF CommitInsert, InsertFails
  <2>5. today' >= today
    BY <1>2, <2>1
  <2>6. ASSUME NEW h \in Flights, flight'[h] # NULL
        PROVE  /\ \A e \in flight'[h].left : flight[h] # NULL /\ e \in flight[h].left
               /\ \A e \in flight'[h].writing :
                    /\ flight[h] # NULL
                    /\ e \in flight[h].writing /\ flight'[h].day = flight[h].day
    BY <2>1, <2>2, <2>3, <2>6
  <2>7. ASSUME NEW x \in stored' \cup swept'
        PROVE  \/ x \in stored \cup swept
               \/ \E h \in Flights : /\ flight[h] # NULL /\ x.event \in flight[h].writing
                                     /\ x.day = flight[h].day
    BY <2>1, <2>4, <2>7
  <2> QED
    BY <1>1, <2>1, <2>5, <2>6, <2>7, DatesByMoving
<1>8. ASSUME NEW x \in stored, SweepEvent(x)
      PROVE  DatesOK'
  <2>1. /\ stored' \cup swept' = stored \cup swept
        /\ UNCHANGED <<today, buffer, flight>>
    BY <1>8 DEF SweepEvent, serving
  <2>2. today' >= today
    BY <1>2, <2>1
  <2> QED
    BY <1>1, <2>1, <2>2, DatesByMoving
<1>9. CASE ServingNext /\ UNCHANGED <<today, billing>>
  <2>1. today' >= today
    BY <1>2, <1>9
  <2>2. ASSUME UNCHANGED <<buffer, flight, tables>>
        PROVE  DatesOK'
    BY <1>3, <2>1, <2>2 DEF tables
  <2> QED
    BY <1>1, <1>4, <1>5, <1>6, <1>7, <1>8, <1>9, <2>2, DatesByServe DEF ServingNext
<1>10. CASE UNCHANGED <<serving, tables>> /\ today' >= today
  BY <1>3, <1>10 DEF serving, tables
<1> QED
  BY <1>2, <1>9, <1>10, TwoSides DEF vars

(* Each billed call is one of the rows that were counted, on its day; the  *)
(* rows are of different calls, and each call was made by the day of its   *)
(* row.                                                                    *)
LEMMA BilledCallsWereMade ==
  ASSUME TypeOK, BillsOK, EventsConserved, DatesOK, NEW t \in Tenants, NEW d \in Days
  PROVE  Cardinality(BilledCalls(t, d)) <= Cardinality(CallsBy(t, d))
<1> DEFINE count(e) == Cardinality(CallsOn(t, e))
           row(e) == CHOOSE b : b \in Bijection(1..count(e), CallsOn(t, e))
           f == [u \in BilledCalls(t, d) |-> row(u[1])[u[2]].event.call]
<1>1. ASSUME NEW e
      PROVE  count(e) \in Nat /\ row(e) \in Bijection(1..count(e), CallsOn(t, e))
  <2>1. IsFiniteSet(CallsOn(t, e))
    BY CountedRows
  <2>2. count(e) \in Nat /\ ExistsBijection(1..count(e), CallsOn(t, e))
    BY <2>1, FS_CardinalityType
  <2>3. \E b : b \in Bijection(1..count(e), CallsOn(t, e))
    BY <2>2 DEF ExistsBijection
  <2> QED
    BY <2>2, <2>3
<1> HIDE DEF row
<1>2. ASSUME NEW u \in BilledCalls(t, d)
      PROVE  /\ u = <<u[1], u[2]>> /\ u[1] \in Days /\ u[1] <= d
             /\ u[2] \in 1..count(u[1])
  <2>1. PICK m \in billed : /\ m.kind = "api_call" /\ m.tenant = t /\ m.day <= d
                            /\ u \in {m.day} \X (1..m.value)
    BY DEF BilledCalls
  <2>2. m.day \in Days /\ m.value \in Nat
    BY <2>1 DEF TypeOK, MeterEvent
  <2>3. m.value <= count(m.day)
    BY <2>1 DEF BillsOK
  <2>4. count(m.day) \in Nat
    BY <1>1
  <2> HIDE DEF count
  <2> QED
    BY <2>1, <2>2, <2>3, <2>4
<1>3. ASSUME NEW u \in BilledCalls(t, d)
      PROVE  row(u[1])[u[2]] \in CallsOn(t, u[1])
  BY <1>1, <1>2 DEF Bijection, Injection
<1>4. ASSUME NEW x \in EventRow, NEW e \in Days, e <= d, x \in CallsOn(t, e)
      PROVE  x.event.call \in CallsBy(t, d)
  <2>1. /\ x \in stored \cup swept /\ x.event.kind = "api_call" /\ x.day = e
        /\ tenant[x.event.call] = t
    BY <1>4 DEF CallsOn
  <2>2. PICK y \in made : y.event = x.event /\ y.day <= e
    BY <2>1 DEF DatesOK, MadeBy
  <2>3. y.day \in Days
    BY <2>2 DEF TypeOK, EventRow
  <2>4. y.day <= d
    BY <1>4, <2>2, <2>3 DEF Days
  <2> QED
    BY <2>1, <2>2, <2>4 DEF CallsBy
<1>5. \A e : CallsOn(t, e) \subseteq EventRow
  BY DEF CallsOn, TypeOK
<1>6. f \in [BilledCalls(t, d) -> CallsBy(t, d)]
  BY <1>2, <1>3, <1>4, <1>5
<1>7. ASSUME NEW u \in BilledCalls(t, d), NEW v \in BilledCalls(t, d), f[u] = f[v]
      PROVE  u = v
  <2> DEFINE x == row(u[1])[u[2]]
             y == row(v[1])[v[2]]
  <2>1. x \in CallsOn(t, u[1]) /\ y \in CallsOn(t, v[1]) /\ x.event.call = y.event.call
    BY <1>3, <1>7
  <2>2. x \in EventRow /\ y \in EventRow
    BY <1>5, <2>1
  <2>3. x.event.kind = y.event.kind /\ x.day = u[1] /\ y.day = v[1]
        /\ x \in stored \cup swept /\ y \in stored \cup swept
    BY <2>1 DEF CallsOn
  <2>4. x.event = y.event
    BY <2>1, <2>2, <2>3 DEF EventRow, Events
  <2>5. x = y
    BY <2>3, <2>4, ConservedParts DEF RowsApart
  <2>6. u[1] = v[1]
    BY <2>3, <2>5
  <2>7. u[2] = v[2]
    BY <1>1, <1>2, <2>5, <2>6 DEF Bijection, Injection, IsInjective
  <2> QED
    BY <1>2, <2>6, <2>7
<1>8. f \in Injection(BilledCalls(t, d), CallsBy(t, d))
  BY <1>6, <1>7 DEF Injection, IsInjective
<1>9. IsFiniteSet(CallsBy(t, d))
  <2>1. CallsBy(t, d) \in SUBSET Calls
    BY DEF CallsBy, TypeOK, EventRow, Events
  <2> QED
    BY <2>1, UsageAssumption, FS_Subset
<1> HIDE DEF f
<1> QED
  BY <1>8, <1>9, FS_Injection

(* However runs fail, repeat and overlap, a tenant's day is billed once on *)
(* each meter, and for the days up to any d no more calls are billed than  *)
(* were served up to d: none is billed twice, or before it was made        *)
(* (usage.js:14-41, usage_rollup.js:2-4, 52).                              *)
THEOREM BilledOnceAndNoMore == Spec => []NeverOverbilled
<1>1. Init => DatesOK
  BY DEF Init, DatesOK
<1>2. TypeOK /\ EventsMade /\ RunsOK /\ DatesOK /\ [Next]_vars
      => (TypeOK /\ EventsMade /\ RunsOK /\ DatesOK)'
  BY TypeStep, DatesStep
<1>3. Spec => [](TypeOK /\ EventsMade /\ RunsOK /\ DatesOK)
  BY InitOK, <1>1, <1>2, PTL DEF Spec
<1>4. TypeOK /\ DatesOK /\ EventsConserved /\ BillInv => NeverOverbilled
  BY BilledCallsWereMade DEF BillInv, CountsOK, BillsOK, NeverOverbilled
<1> QED
  BY <1>3, <1>4, NothingMeteredTwice, BillAlways, PTL

(* A day that was never aggregated too early is billed as GET /v1/usage    *)
(* shows it, and a re-run changes neither (usage_rollup.js:26, 53).        *)
THEOREM BillIsUsage == Spec => []BillMatchesUsage
<1>1. BillInv => BillMatchesUsage
  BY DEF BillInv, CopiesOK
<1> QED
  BY <1>1, BillAlways, PTL
=============================================================================
