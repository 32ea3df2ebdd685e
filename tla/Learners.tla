------------------------------- MODULE Learners -------------------------------
(***************************************************************************)
(* The learners of a tenant: POST creates one or finds the one that has    *)
(* the external_ref, PATCH may move the external_ref, and GET lists them   *)
(* page by page (src/src/routes.js, src/src/pagination.js).  The other     *)
(* lists page in the same way.                                             *)
(*                                                                         *)
(* created_at is now(): the time at which the transaction of the POST      *)
(* began, so a row can appear in front of rows that were listed before.    *)
(* PATCH reads, checks that the external_ref is free and updates:          *)
(*                                                                         *)
(*   create   BeginCreate -> Create                                        *)
(*   patch    BeginPatch [-> CheckRef] -> Update                           *)
(*   list     BeginList -> Page -> ... -> Page, a transaction for each     *)
(*                                                                         *)
(* display_name is data that is stored unread; it is left out.             *)
(***************************************************************************)
EXTENDS Integers, FiniteSets

CONSTANTS
  Reqs,     \* slots for concurrent POST and PATCH calls, each used again and again
  Readers,  \* clients that list the learners
  Ids,      \* bound: the ids that learners can get; a larger one sorts later
  Refs,     \* external_refs
  Limits,   \* the page sizes that are asked for
  MaxTime,  \* bound of the clock
  NULL

Time == 0..MaxTime

(* parseLimit refuses any other size.                                      *)
ASSUME LimitAssumption == Limits \subseteq 1..200
ASSUME LearnerAssumption ==
  /\ Ids \subseteq Nat /\ IsFiniteSet(Ids) /\ MaxTime \in Nat
  /\ NULL \notin Refs /\ NULL \notin Ids

VARIABLES
  now,
  learner, \* learner rows: external_ref and created_at, NULL: none
  pc,      \* where each POST or PATCH stands
  target,  \* the learner a PATCH is about
  ref,     \* the external_ref a call carries, NULL: a PATCH of the name only
  began,   \* when its transaction began
  failed,  \* history: slots whose last call ended in the unique constraint, a 500
  taken,   \* history: calls whose ref another learner was given meanwhile
  cursor,  \* what a reader goes on from, NULL: from the beginning
  reading, \* readers that have a page to come
  page,    \* ids on a reader's last page
  listed,  \* history: ids on the pages before
  present  \* history: ids there were when its listing began

calls == <<pc, target, ref, began, failed, taken>>
lists == <<cursor, reading, page, listed, present>>
vars == <<now, learner, calls, lists>>

-----------------------------------------------------------------------------
Row == [ref : Refs, created : Time]
Cursor == [created : Time, id : Ids]

ASSUME RowAssumption == NULL \notin Row /\ NULL \notin Cursor

Rows == {i \in Ids : learner[i] # NULL}
HoldersOf(x) == {i \in Rows : learner[i].ref = x}

(* The type invariant; UNIQUE (tenant_id, external_ref).                   *)
TypeOK ==
  /\ now \in Time
  /\ learner \in [Ids -> Row \cup {NULL}]
  /\ \A i, j \in Rows : learner[i].ref = learner[j].ref => i = j
  /\ pc \in [Reqs -> {"idle", "create", "check", "update"}]
  /\ target \in [Reqs -> Ids \cup {NULL}]
  /\ ref \in [Reqs -> Refs \cup {NULL}]
  /\ began \in [Reqs -> Time]
  /\ failed \subseteq Reqs /\ taken \subseteq Reqs
  /\ \A r \in Reqs :
       /\ pc[r] \in {"create", "check"} => ref[r] # NULL
       /\ pc[r] \in {"check", "update"} => target[r] \in Rows
  /\ cursor \in [Readers -> Cursor \cup {NULL}]
  /\ reading \subseteq Readers
  /\ page \in [Readers -> SUBSET Rows]
  /\ listed \in [Readers -> SUBSET Rows]
  /\ present \in [Readers -> SUBSET Rows]

Init ==
  /\ now = 0
  /\ learner = [i \in Ids |-> NULL]
  /\ pc = [r \in Reqs |-> "idle"]
  /\ target = [r \in Reqs |-> NULL]
  /\ ref = [r \in Reqs |-> NULL]
  /\ began = [r \in Reqs |-> 0]
  /\ failed = {} /\ taken = {}
  /\ cursor = [v \in Readers |-> NULL]
  /\ reading = {}
  /\ page = [v \in Readers |-> {}]
  /\ listed = [v \in Readers |-> {}]
  /\ present = [v \in Readers |-> {}]

Tick ==
  /\ now < MaxTime
  /\ now' = now + 1
  /\ UNCHANGED <<learner, calls, lists>>

-----------------------------------------------------------------------------
(* POST /v1/learners and PATCH /v1/learners/:id                            *)

Begin(r, where, i, x) ==
  /\ pc[r] = "idle"
  /\ pc' = [pc EXCEPT ![r] = where]
  /\ target' = [target EXCEPT ![r] = i]
  /\ ref' = [ref EXCEPT ![r] = x]
  /\ began' = [began EXCEPT ![r] = now]
  /\ failed' = failed \ {r} /\ taken' = taken \ {r}
  /\ UNCHANGED <<now, learner, lists>>

(* COMMIT or ROLLBACK: the slot is free again.                             *)
End(r) ==
  /\ pc' = [pc EXCEPT ![r] = "idle"]
  /\ target' = [target EXCEPT ![r] = NULL]
  /\ ref' = [ref EXCEPT ![r] = NULL]
  /\ began' = [began EXCEPT ![r] = 0]
  /\ UNCHANGED <<now, lists>>

(* The learner i has the ref x from now on; the calls that carry the same  *)
(* ref for another learner are overtaken.                                  *)
Give(r, i, x) ==
  taken' = (taken \ {r}) \cup {q \in Reqs \ {r} : ref[q] = x /\ target[q] # i}

BeginCreate(r, x) == Begin(r, "create", NULL, x)

(* INSERT ... ON CONFLICT DO UPDATE: inserts, or finds the holder.         *)
Create(r) ==
  /\ pc[r] = "create"
  /\ \/ /\ HoldersOf(ref[r]) # {}
        /\ taken' = taken \ {r}
        /\ UNCHANGED learner
     \/ /\ HoldersOf(ref[r]) = {}
        /\ \E i \in Ids \ Rows :
             /\ learner' = [learner EXCEPT ![i] = [ref |-> ref[r], created |-> began[r]]]
             /\ Give(r, i, ref[r])
  /\ End(r)
  /\ UNCHANGED failed

(* Mutant: does not check whether the external_ref is free.                *)
BeginPatchUnchecked(r, i, x) ==
  /\ i \in Rows
  /\ Begin(r, "update", i, x)

(* The learner is read; only an external_ref that is given and differs     *)
(* from what was read is checked.                                          *)
BeginPatch(r, i, x) ==
  /\ i \in Rows
  /\ Begin(r, IF x \in {NULL, learner[i].ref} THEN "update" ELSE "check", i, x)

CheckRef(r) ==
  /\ pc[r] = "check"
  /\ HoldersOf(ref[r]) \ {target[r]} = {}
  /\ pc' = [pc EXCEPT ![r] = "update"]
  /\ UNCHANGED <<now, learner, target, ref, began, failed, taken, lists>>

(* The 409.                                                                *)
RefuseRef(r) ==
  /\ pc[r] = "check"
  /\ HoldersOf(ref[r]) \ {target[r]} # {}
  /\ taken' = taken \ {r}
  /\ End(r)
  /\ UNCHANGED <<learner, failed>>

(* The UPDATE, of the external_ref if one was given.                       *)
Update(r) ==
  /\ pc[r] = "update"
  /\ \/ /\ ref[r] = NULL
        /\ taken' = taken \ {r}
        /\ UNCHANGED learner
     \/ /\ ref[r] # NULL /\ HoldersOf(ref[r]) \subseteq {target[r]}
        /\ learner' = [learner EXCEPT ![target[r]].ref = ref[r]]
        /\ Give(r, target[r], ref[r])
  /\ End(r)
  /\ UNCHANGED failed

(* The unique constraint refuses it, which no handler expects: a 500.      *)
UpdateFails(r) ==
  /\ pc[r] = "update"
  /\ ref[r] # NULL /\ ~ (HoldersOf(ref[r]) \subseteq {target[r]})
  /\ failed' = failed \cup {r}
  /\ End(r)
  /\ UNCHANGED <<learner, taken>>

(* Any statement may fail for reasons of its own.                          *)
Abort(r) ==
  /\ pc[r] # "idle"
  /\ taken' = taken \ {r}
  /\ End(r)
  /\ UNCHANGED <<learner, failed>>

-----------------------------------------------------------------------------
(* GET /v1/learners                                                        *)

(* ORDER BY created_at, id                                                 *)
Key(i) == [created |-> learner[i].created, id |-> i]
Precedes(p, q) == p.created < q.created \/ (p.created = q.created /\ p.id < q.id)

(* Mutant: the cursor is cut to whole milliseconds, two units of the clock *)
(* here, as Date.toISOString would.                                        *)
AfterTruncated(c) ==
  IF c = NULL THEN Rows
  ELSE {i \in Rows : Precedes([c EXCEPT !.created = @ - (@ % 2)], Key(i))}

(* listWhere: (created_at, id) > the cursor.                               *)
After(c) == IF c = NULL THEN Rows ELSE {i \in Rows : Precedes(c, Key(i))}

(* LIMIT n: the first n rows, or all.                                      *)
FirstOf(rows, candidates, n) ==
  /\ \A i \in rows, j \in candidates \ rows : Precedes(Key(i), Key(j))
  /\ Cardinality(rows) <= n
  /\ rows # candidates => Cardinality(rows) = n

LastOf(i, rows) == i \in rows /\ \A j \in rows : j = i \/ Precedes(Key(j), Key(i))

(* Mutant: the cursor is made of the row that was fetched to see whether   *)
(* there are more.                                                         *)
PackPageFromSentinel(v, rows, limit) ==
  \E i \in rows :
    /\ LastOf(i, rows)
    /\ page' = [page EXCEPT ![v] = IF Cardinality(rows) > limit THEN rows \ {i} ELSE rows]
    /\ cursor' = [cursor EXCEPT ![v] = IF Cardinality(rows) > limit THEN Key(i) ELSE NULL]
    /\ reading' = IF Cardinality(rows) > limit THEN reading ELSE reading \ {v}

(* packPage: one row more than asked for says that there are more; it is   *)
(* not shown, and the last row shown becomes the cursor.                   *)
PackPage(v, rows, limit) ==
  \/ /\ Cardinality(rows) <= limit
     /\ page' = [page EXCEPT ![v] = rows]
     /\ cursor' = [cursor EXCEPT ![v] = NULL]
     /\ reading' = reading \ {v}
  \/ \E last \in rows, shown \in rows :
     /\ Cardinality(rows) > limit
     /\ LastOf(last, rows) /\ LastOf(shown, rows \ {last})
     /\ page' = [page EXCEPT ![v] = rows \ {last}]
     /\ cursor' = [cursor EXCEPT ![v] = Key(shown)]
     /\ UNCHANGED reading

(* A client sets out to read all pages.                                    *)
BeginList(v) ==
  /\ v \notin reading
  /\ cursor' = [cursor EXCEPT ![v] = NULL]
  /\ reading' = reading \cup {v}
  /\ page' = [page EXCEPT ![v] = {}]
  /\ listed' = [listed EXCEPT ![v] = {}]
  /\ present' = [present EXCEPT ![v] = Rows]
  /\ UNCHANGED <<now, learner, calls>>

(* One call with the cursor of the page before.                            *)
Page(v, limit) ==
  /\ v \in reading
  /\ \E rows \in SUBSET After(cursor[v]) :
       /\ FirstOf(rows, After(cursor[v]), limit + 1)
       /\ PackPage(v, rows, limit)
  /\ listed' = [listed EXCEPT ![v] = @ \cup page[v]]
  /\ UNCHANGED <<now, learner, calls, present>>

-----------------------------------------------------------------------------
Next ==
  \/ Tick
  \/ \E r \in Reqs :
       \/ \E x \in Refs : BeginCreate(r, x)
       \/ \E i \in Ids, x \in Refs \cup {NULL} : BeginPatch(r, i, x)
       \/ Create(r) \/ CheckRef(r) \/ RefuseRef(r) \/ Update(r) \/ UpdateFails(r) \/ Abort(r)
  \/ \E v \in Readers :
       \/ BeginList(v)
       \/ \E limit \in Limits : Page(v, limit)

Spec == Init /\ [][Next]_vars

-----------------------------------------------------------------------------
(* Properties.                                                             *)

(* "no row may repeat across pages" (test/http.test.js:64), also when rows *)
(* commit late, in front of the cursor or behind it (pagination.js:17-22). *)
NoneListedTwice == \A v \in Readers : page[v] \cap listed[v] = {}

(* A listing that has come to its end shows every learner there was when   *)
(* it began; it may lack one that was committed meanwhile, with a          *)
(* created_at before the cursor (routes.js:240, 270-271).                  *)
AllPresentAreListed ==
  \A v \in Readers : v \notin reading => present[v] \subseteq listed[v] \cup page[v]

(* "may only be moved to a value no other learner of yours holds (409      *)
(* otherwise)" (routes.js:286): the unique constraint, which is answered   *)
(* with a 500, strikes only a PATCH whose value another learner was given  *)
(* between its check and its UPDATE.                                       *)
ConflictIs409UnlessTaken == failed \subseteq taken

-----------------------------------------------------------------------------
(* What makes the properties inductive.                                    *)

(* A PATCH that is about to update found its value free, or its own, and   *)
(* it still is unless another learner was given the value.                 *)
CheckedRefIsFree ==
  \A r \in Reqs :
    pc[r] = "update" /\ ref[r] # NULL /\ r \notin taken => HoldersOf(ref[r]) \subseteq {target[r]}

(* It is the last call of a slot that failed: the slot is free.            *)
FailedHaveEnded == \A r \in failed : pc[r] = "idle"

(* A reader has seen nothing behind its cursor, and everything up to it    *)
(* that was there when it began.                                           *)
CursorOK ==
  \A v \in reading :
    /\ cursor[v] = NULL => listed[v] \cup page[v] = {}
    /\ cursor[v] # NULL =>
         /\ \A i \in listed[v] \cup page[v] : ~ Precedes(cursor[v], Key(i))
         /\ \A i \in present[v] :
              ~ Precedes(cursor[v], Key(i)) => i \in listed[v] \cup page[v]
=============================================================================
