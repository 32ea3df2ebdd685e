---------------------------- MODULE LearnersProofs ----------------------------
(***************************************************************************)
(* What Learners guarantees for every number of calls, readers, learners   *)
(* and page sizes.                                                         *)
(***************************************************************************)
EXTENDS Learners, FiniteSetTheorems, TLAPS

-----------------------------------------------------------------------------
(* The order of the list.                                                  *)

LEMMA CursorParts ==
  ASSUME NEW p \in Cursor
  PROVE  p.created \in Int /\ p.id \in Int /\ p = [created |-> p.created, id |-> p.id]
<1>1. p.created \in Time /\ p.id \in Ids /\ p = [created |-> p.created, id |-> p.id]
  BY DEF Cursor
<1>2. Ids \subseteq Int /\ Time \subseteq Int
  BY LearnerAssumption DEF Time
<1> QED
  BY <1>1, <1>2

LEMMA PrecedesTransitive ==
  ASSUME NEW p \in Cursor, NEW q \in Cursor, NEW s \in Cursor, Precedes(p, q), Precedes(q, s)
  PROVE  Precedes(p, s)
<1>1. /\ p.created \in Int /\ p.id \in Int /\ q.created \in Int /\ q.id \in Int
      /\ s.created \in Int /\ s.id \in Int
  BY CursorParts
<1> QED
  BY <1>1 DEF Precedes

LEMMA PrecedesStrict ==
  ASSUME NEW p \in Cursor, NEW q \in Cursor, Precedes(p, q)
  PROVE  ~ Precedes(q, p)
<1>1. p.created \in Int /\ p.id \in Int /\ q.created \in Int /\ q.id \in Int
  BY CursorParts
<1> QED
  BY <1>1 DEF Precedes

LEMMA NotBeforeItself ==
  ASSUME NEW p \in Cursor
  PROVE  ~ Precedes(p, p)
  BY PrecedesStrict

LEMMA KeyType ==
  ASSUME TypeOK, NEW i \in Rows
  PROVE  Key(i) \in Cursor /\ Key(i).id = i
  BY DEF TypeOK, Rows, Row, Key, Cursor

-----------------------------------------------------------------------------
(* Types.                                                                  *)

(* The inductive invariants, next to TypeOK.                               *)
CallsInv == CheckedRefIsFree /\ FailedHaveEnded /\ ConflictIs409UnlessTaken
ListsInv == CursorOK /\ NoneListedTwice /\ AllPresentAreListed

LEMMA InitOK == Init => TypeOK /\ CallsInv /\ ListsInv
  BY LearnerAssumption
  DEF Init, TypeOK, CallsInv, CheckedRefIsFree, FailedHaveEnded, ConflictIs409UnlessTaken,
      ListsInv, CursorOK, NoneListedTwice, AllPresentAreListed, Time, Rows

(* What TypeOK says of the calls and the rows, and of the readers.         *)
CallsOK ==
  /\ now \in Time
  /\ learner \in [Ids -> Row \cup {NULL}]
  /\ \A i, j \in Rows : learner[i].ref = learner[j].ref => i = j
  /\ pc \in [Reqs -> {"idle", "create", "check", "update"}]
  /\ target \in [Reqs -> Ids \cup {NULL}]
  /\ ref \in [Reqs -> Refs \cup {NULL}]
  /\ began \in [Reqs -> Time]
  /\ failed \subseteq Reqs /\ taken \subseteq Reqs
  /\ \A r \in Reqs :
       /\ pc[r] \in {"create", "check"} => ref[r] # NULL
       /\ pc[r] \in {"check", "update"} => target[r] \in Rows

ListsOK ==
  /\ cursor \in [Readers -> Cursor \cup {NULL}]
  /\ reading \subseteq Readers
  /\ page \in [Readers -> SUBSET Rows]
  /\ listed \in [Readers -> SUBSET Rows]
  /\ present \in [Readers -> SUBSET Rows]

LEMMA TypeParts == TypeOK <=> CallsOK /\ ListsOK
  BY DEF TypeOK, CallsOK, ListsOK

(* What every step of a call does to the lists: nothing, but there may be  *)
(* more rows.                                                              *)
LEMMA ListsFrame ==
  ASSUME TypeOK, UNCHANGED lists, Rows \subseteq Rows'
  PROVE  ListsOK'
  BY DEF TypeOK, ListsOK, lists

LEMMA EndStep ==
  ASSUME TypeOK, NEW r \in Reqs, End(r)
  PROVE  /\ pc' \in [Reqs -> {"idle", "create", "check", "update"}]
         /\ target' \in [Reqs -> Ids \cup {NULL}]
         /\ ref' \in [Reqs -> Refs \cup {NULL}]
         /\ began' \in [Reqs -> Time]
         /\ pc'[r] = "idle"
         /\ \A q \in Reqs \ {r} :
              pc'[q] = pc[q] /\ target'[q] = target[q] /\ ref'[q] = ref[q]
         /\ UNCHANGED <<now, lists>>
  BY LearnerAssumption DEF End, TypeOK, Time

(* The end of a call that changes no row.                                  *)
LEMMA QuietEnd ==
  ASSUME TypeOK, NEW r \in Reqs, End(r), UNCHANGED learner,
         failed' \subseteq Reqs, taken' \subseteq Reqs
  PROVE  TypeOK'
<1>1. Rows' = Rows
  BY DEF Rows
<1>2. CallsOK'
  BY <1>1, EndStep DEF TypeOK, CallsOK
<1>3. ListsOK'
  BY <1>1, EndStep, ListsFrame
<1> QED
  BY <1>2, <1>3 DEF TypeOK, CallsOK, ListsOK

LEMMA BeginStep ==
  ASSUME TypeOK, NEW r \in Reqs, NEW where \in {"create", "check", "update"},
         NEW i \in Ids \cup {NULL}, NEW x \in Refs \cup {NULL}, Begin(r, where, i, x),
         where \in {"create", "check"} => x # NULL,
         where \in {"check", "update"} => i \in Rows
  PROVE  TypeOK'
<1>1. /\ pc' = [pc EXCEPT ![r] = where] /\ target' = [target EXCEPT ![r] = i]
      /\ ref' = [ref EXCEPT ![r] = x] /\ began' = [began EXCEPT ![r] = now]
      /\ failed' = failed \ {r} /\ taken' = taken \ {r}
      /\ UNCHANGED <<now, learner, lists>>
  BY DEF Begin
<1>2. Rows' = Rows
  BY <1>1 DEF Rows
<1>3. CallsOK'
  BY <1>1, <1>2 DEF TypeOK, CallsOK
<1>4. ListsOK'
  BY <1>1, <1>2, ListsFrame
<1> QED
  BY <1>3, <1>4 DEF TypeOK, CallsOK, ListsOK

LEMMA CreateRow ==
  ASSUME TypeOK, NEW r \in Reqs, Create(r), learner' # learner
  PROVE  \E i \in Ids \ Rows :
           /\ ref[r] \in Refs /\ HoldersOf(ref[r]) = {}
           /\ learner' = [learner EXCEPT ![i] = [ref |-> ref[r], created |-> began[r]]]
           /\ [ref |-> ref[r], created |-> began[r]] \in Row
           /\ Rows' = Rows \cup {i}
           /\ \A j \in Rows : learner'[j] = learner[j]
           /\ Give(r, i, ref[r])
<1>1. PICK i \in Ids \ Rows :
        /\ HoldersOf(ref[r]) = {}
        /\ learner' = [learner EXCEPT ![i] = [ref |-> ref[r], created |-> began[r]]]
        /\ Give(r, i, ref[r])
  BY DEF Create
<1>2. ref[r] \in Refs /\ began[r] \in Time
  BY DEF Create, TypeOK
<1>3. [ref |-> ref[r], created |-> began[r]] \in Row
  BY <1>2 DEF Row
<1>4. Rows' = Rows \cup {i} /\ \A j \in Rows : learner'[j] = learner[j]
  BY <1>1, <1>3, RowAssumption DEF TypeOK, Rows
<1> QED
  BY <1>1, <1>2, <1>3, <1>4

LEMMA CreateStep ==
  ASSUME TypeOK, NEW r \in Reqs, Create(r)
  PROVE  TypeOK'
<1>1. End(r) /\ UNCHANGED failed /\ taken' \subseteq Reqs
  BY DEF Create, Give, TypeOK
<1>2. CASE learner' = learner
  BY <1>1, <1>2, QuietEnd DEF TypeOK
<1>3. CASE learner' # learner
  <2>1. PICK i \in Ids \ Rows :
          /\ ref[r] \in Refs /\ HoldersOf(ref[r]) = {}
          /\ learner' = [learner EXCEPT ![i] = [ref |-> ref[r], created |-> began[r]]]
          /\ [ref |-> ref[r], created |-> began[r]] \in Row
          /\ Rows' = Rows \cup {i}
          /\ \A j \in Rows : learner'[j] = learner[j]
    BY <1>3, CreateRow
  <2>2. learner' \in [Ids -> Row \cup {NULL}] /\ learner'[i].ref = ref[r]
    BY <2>1 DEF TypeOK
  <2>3. \A j, k \in Rows' : learner'[j].ref = learner'[k].ref => j = k
    BY <2>1, <2>2 DEF TypeOK, HoldersOf
  <2>4. CallsOK'
    BY <1>1, <2>1, <2>2, <2>3, EndStep DEF TypeOK, CallsOK
  <2>5. ListsOK'
    BY <1>1, <2>1, EndStep, ListsFrame
  <2> QED
    BY <2>4, <2>5 DEF TypeOK, CallsOK, ListsOK
<1> QED
  BY <1>2, <1>3

LEMMA CheckStep ==
  ASSUME TypeOK, NEW r \in Reqs, CheckRef(r)
  PROVE  TypeOK'
<1>1. /\ pc[r] = "check" /\ pc' = [pc EXCEPT ![r] = "update"]
      /\ UNCHANGED <<now, learner, target, ref, began, failed, taken, lists>>
  BY DEF CheckRef
<1>2. Rows' = Rows
  BY <1>1 DEF Rows
<1>3. CallsOK'
  BY <1>1, <1>2 DEF TypeOK, CallsOK
<1>4. ListsOK'
  BY <1>1, <1>2, ListsFrame
<1> QED
  BY <1>3, <1>4 DEF TypeOK, CallsOK, ListsOK

(* An UPDATE of the external_ref keeps every row and its place.            *)
LEMMA UpdatedRow ==
  ASSUME TypeOK, NEW r \in Reqs, Update(r), ref[r] # NULL
  PROVE  /\ target[r] \in Rows /\ ref[r] \in Refs
         /\ HoldersOf(ref[r]) \subseteq {target[r]}
         /\ learner' \in [Ids -> Row \cup {NULL}]
         /\ learner'[target[r]].ref = ref[r]
         /\ learner'[target[r]].created = learner[target[r]].created
         /\ \A j \in Ids \ {target[r]} : learner'[j] = learner[j]
         /\ Rows' = Rows
         /\ Give(r, target[r], ref[r])
<1> DEFINE i == target[r]
<1>1. /\ HoldersOf(ref[r]) \subseteq {i} /\ learner' = [learner EXCEPT ![i].ref = ref[r]]
      /\ Give(r, i, ref[r])
  BY DEF Update
<1>2. i \in Rows /\ ref[r] \in Refs /\ learner[i] \in Row /\ learner[i] # NULL
  BY DEF Update, TypeOK, Rows
<1>3. [learner[i] EXCEPT !.ref = ref[r]] \in Row
  BY <1>2 DEF Row
<1>4. /\ learner'[i] = [learner[i] EXCEPT !.ref = ref[r]]
      /\ \A j \in Ids \ {i} : learner'[j] = learner[j]
  BY <1>1, <1>2 DEF TypeOK, Rows
<1>5. learner' \in [Ids -> Row \cup {NULL}]
  BY <1>1, <1>2, <1>3 DEF TypeOK
<1>6. learner'[i].ref = ref[r] /\ learner'[i].created = learner[i].created
  BY <1>2, <1>4 DEF Row
<1>7. Rows' = Rows
  BY <1>2, <1>3, <1>4, RowAssumption DEF Rows
<1> QED
  BY <1>1, <1>2, <1>4, <1>5, <1>6, <1>7

LEMMA UpdateStep ==
  ASSUME TypeOK, NEW r \in Reqs, Update(r)
  PROVE  TypeOK'
<1>1. End(r) /\ UNCHANGED failed /\ taken' \subseteq Reqs
  BY DEF Update, Give, TypeOK
<1>2. CASE ref[r] = NULL
  <2>1. UNCHANGED learner
    BY <1>2 DEF Update
  <2> QED
    BY <1>1, <2>1, QuietEnd DEF TypeOK
<1>3. CASE ref[r] # NULL
  <2>1. \A j, k \in Rows' : learner'[j].ref = learner'[k].ref => j = k
    BY <1>3, UpdatedRow DEF TypeOK, HoldersOf, Rows
  <2>2. CallsOK'
    BY <1>1, <1>3, <2>1, EndStep, UpdatedRow DEF TypeOK, CallsOK
  <2>3. ListsOK'
    BY <1>1, <1>3, EndStep, UpdatedRow, ListsFrame
  <2> QED
    BY <2>2, <2>3 DEF TypeOK, CallsOK, ListsOK
<1> QED
  BY <1>2, <1>3

(* What a page holds, and where its reader stands after it.                *)
LEMMA PageStep ==
  ASSUME TypeOK, NEW v \in Readers, NEW limit \in Limits, Page(v, limit)
  PROVE  /\ ListsOK' /\ v \in reading
         /\ UNCHANGED <<now, learner, calls, present>>
         /\ listed' = [listed EXCEPT ![v] = @ \cup page[v]]
         /\ \A u \in Readers \ {v} : page'[u] = page[u] /\ cursor'[u] = cursor[u]
         /\ page'[v] \subseteq After(cursor[v])
         /\ \/ reading' = reading \ {v} /\ page'[v] = After(cursor[v])
            \/ /\ reading' = reading /\ cursor'[v] \in Cursor
               /\ cursor[v] # NULL => Precedes(cursor[v], cursor'[v])
               /\ \A i \in page'[v] : ~ Precedes(cursor'[v], Key(i))
               /\ \A i \in After(cursor[v]) : ~ Precedes(cursor'[v], Key(i)) => i \in page'[v]
<1>1. PICK rows \in SUBSET After(cursor[v]) :
        FirstOf(rows, After(cursor[v]), limit + 1) /\ PackPage(v, rows, limit)
  BY DEF Page
<1>2. /\ v \in reading /\ listed' = [listed EXCEPT ![v] = @ \cup page[v]]
      /\ UNCHANGED <<now, learner, calls, present>>
  BY DEF Page
<1>3. After(cursor[v]) \subseteq Rows /\ Rows' = Rows
  BY <1>2 DEF After, Rows
<1>4. IsFiniteSet(rows) /\ Cardinality(rows) \in Nat /\ limit \in Nat
  BY <1>1, <1>3, LearnerAssumption, LimitAssumption, FS_Subset, FS_CardinalityType DEF Rows
<1>5. listed' \in [Readers -> SUBSET Rows]
  BY <1>2 DEF TypeOK
<1>6. CASE /\ Cardinality(rows) <= limit
           /\ page' = [page EXCEPT ![v] = rows]
           /\ cursor' = [cursor EXCEPT ![v] = NULL]
           /\ reading' = reading \ {v}
  <2>1. rows = After(cursor[v])
    BY <1>1, <1>4, <1>6 DEF FirstOf
  <2>2. ListsOK'
    BY <1>1, <1>2, <1>3, <1>5, <1>6 DEF ListsOK, TypeOK
  <2> QED
    BY <1>1, <1>2, <1>6, <2>1, <2>2 DEF TypeOK
<1>7. ASSUME NEW last \in rows, NEW shown \in rows,
             /\ LastOf(last, rows) /\ LastOf(shown, rows \ {last})
             /\ page' = [page EXCEPT ![v] = rows \ {last}]
             /\ cursor' = [cursor EXCEPT ![v] = Key(shown)]
             /\ UNCHANGED reading
      PROVE  /\ ListsOK'
             /\ \A u \in Readers \ {v} : page'[u] = page[u] /\ cursor'[u] = cursor[u]
             /\ page'[v] \subseteq After(cursor[v]) /\ cursor'[v] \in Cursor
             /\ cursor[v] # NULL => Precedes(cursor[v], cursor'[v])
             /\ \A i \in page'[v] : ~ Precedes(cursor'[v], Key(i))
             /\ \A i \in After(cursor[v]) : ~ Precedes(cursor'[v], Key(i)) => i \in page'[v]
  <2>1. rows \subseteq Rows /\ Key(shown) \in Cursor /\ Key(last) \in Cursor
    BY <1>1, <1>3, KeyType
  <2>2. page'[v] = rows \ {last} /\ cursor'[v] = Key(shown)
    BY <1>7 DEF TypeOK
  <2>3. ListsOK'
    BY <1>1, <1>2, <1>3, <1>5, <1>7, <2>1 DEF ListsOK, TypeOK
  <2>4. ASSUME NEW i \in rows \ {last}
        PROVE  ~ Precedes(Key(shown), Key(i))
    <3>1. Key(i) \in Cursor
      BY <2>1, KeyType
    <3>2. i = shown \/ Precedes(Key(i), Key(shown))
      BY <1>7 DEF LastOf
    <3> QED
      BY <2>1, <3>1, <3>2, PrecedesStrict, NotBeforeItself
  <2>5. Precedes(Key(shown), Key(last))
    BY <1>7 DEF LastOf
  <2>6. ASSUME NEW i \in After(cursor[v]), ~ Precedes(Key(shown), Key(i))
        PROVE  i \in rows \ {last}
    <3>1. i # last
      BY <2>5, <2>6
    <3>2. CASE i \notin rows
      BY <1>1, <2>6, <3>2 DEF FirstOf
    <3> QED
      BY <3>1, <3>2
  <2>7. cursor[v] # NULL => Precedes(cursor[v], Key(shown))
    BY <1>1 DEF After
  <2> QED
    BY <1>1, <1>7, <2>1, <2>2, <2>3, <2>4, <2>6, <2>7 DEF TypeOK
<1> QED
  BY <1>1, <1>2, <1>6, <1>7 DEF PackPage

(* What a step of a call keeps: the rows there are, and their keys.        *)
LEMMA CreateKeepsKeys ==
  ASSUME TypeOK, NEW r \in Reqs, Create(r)
  PROVE  /\ UNCHANGED lists /\ Rows \subseteq Rows'
         /\ \A i \in Rows : learner'[i].created = learner[i].created
<1>1. UNCHANGED lists
  BY EndStep DEF Create
<1>2. CASE learner' = learner
  BY <1>1, <1>2 DEF Rows
<1>3. CASE learner' # learner
  BY <1>1, <1>3, CreateRow
<1> QED
  BY <1>2, <1>3

LEMMA UpdateKeepsKeys ==
  ASSUME TypeOK, NEW r \in Reqs, Update(r)
  PROVE  /\ UNCHANGED lists /\ Rows \subseteq Rows'
         /\ \A i \in Rows : learner'[i].created = learner[i].created
<1>1. UNCHANGED lists
  BY EndStep DEF Update
<1>2. CASE ref[r] = NULL
  BY <1>1, <1>2 DEF Rows, Update
<1>3. CASE ref[r] # NULL
  <2>1. \A i \in Rows : learner'[i].created = learner[i].created
    BY <1>3, UpdatedRow DEF Rows
  <2> QED
    BY <1>1, <1>3, <2>1, UpdatedRow
<1> QED
  BY <1>2, <1>3

LEMMA BeginListStep ==
  ASSUME TypeOK, NEW v \in Readers, BeginList(v)
  PROVE  TypeOK'
<1>1. Rows' = Rows
  BY DEF BeginList, Rows
<1>2. CallsOK'
  BY <1>1 DEF TypeOK, CallsOK, BeginList, calls
<1>3. ListsOK'
  BY <1>1 DEF TypeOK, ListsOK, BeginList
<1> QED
  BY <1>2, <1>3 DEF TypeOK, CallsOK, ListsOK

LEMMA TypeStep ==
  ASSUME TypeOK, [Next]_vars
  PROVE  TypeOK'
<1>1. CASE Tick
  <2>1. Rows' = Rows
    BY <1>1 DEF Tick, Rows
  <2> QED
    BY <1>1, <2>1, LearnerAssumption DEF Tick, TypeOK, calls, lists, Time
<1>2. ASSUME NEW r \in Reqs, NEW x \in Refs, BeginCreate(r, x)
      PROVE  TypeOK'
  BY <1>2, BeginStep, LearnerAssumption DEF BeginCreate
<1>3. ASSUME NEW r \in Reqs, NEW i \in Ids, NEW x \in Refs \cup {NULL}, BeginPatch(r, i, x)
      PROVE  TypeOK'
  <2>1. CASE x \in {NULL, learner[i].ref}
    BY <1>3, <2>1, BeginStep DEF BeginPatch
  <2>2. CASE x \notin {NULL, learner[i].ref}
    BY <1>3, <2>2, BeginStep DEF BeginPatch
  <2> QED
    BY <2>1, <2>2
<1>4. ASSUME NEW r \in Reqs, RefuseRef(r) \/ UpdateFails(r) \/ Abort(r)
      PROVE  TypeOK'
  <2>1. End(r) /\ UNCHANGED learner /\ failed' \subseteq Reqs /\ taken' \subseteq Reqs
    BY <1>4 DEF RefuseRef, UpdateFails, Abort, TypeOK
  <2> QED
    BY <2>1, QuietEnd
<1>5. ASSUME NEW v \in Readers, NEW limit \in Limits, Page(v, limit)
      PROVE  TypeOK'
  <2>1. ListsOK' /\ UNCHANGED <<now, learner, calls>>
    BY <1>5, PageStep
  <2>2. Rows' = Rows
    BY <2>1 DEF Rows
  <2>3. CallsOK'
    BY <2>1, <2>2 DEF TypeOK, CallsOK, calls
  <2> QED
    BY <2>1, <2>3 DEF TypeOK, CallsOK, ListsOK
<1>6. CASE UNCHANGED vars
  <2>1. Rows' = Rows
    BY <1>6 DEF vars, Rows
  <2> QED
    BY <1>6, <2>1 DEF vars, TypeOK, calls, lists
<1> QED
  BY <1>1, <1>2, <1>3, <1>4, <1>5, <1>6, CreateStep, CheckStep, UpdateStep, BeginListStep
  DEF Next

-----------------------------------------------------------------------------
(* The calls.                                                              *)

LEMMA QuietKeepsFree ==
  ASSUME TypeOK, CallsInv, NEW r \in Reqs, End(r), UNCHANGED learner,
         taken \ {r} \subseteq taken'
  PROVE  CheckedRefIsFree'
<1>1. \A x : HoldersOf(x)' = HoldersOf(x)
  BY DEF HoldersOf, Rows
<1> QED
  BY <1>1, EndStep DEF CallsInv, CheckedRefIsFree

(* Whoever finds its value gone has been overtaken.                        *)
LEMMA GiveKeepsFree ==
  ASSUME TypeOK, CallsInv, NEW r \in Reqs, NEW i \in Ids, NEW x \in Refs,
         End(r), Give(r, i, x), i \in Rows', learner'[i].ref = x,
         \A j \in Rows' \ {i} : j \in Rows /\ learner'[j] = learner[j]
  PROVE  CheckedRefIsFree'
<1>1. SUFFICES ASSUME NEW q \in Reqs, pc'[q] = "update", ref'[q] # NULL, q \notin taken',
                      NEW j \in Rows', learner'[j].ref = ref'[q]
               PROVE  j = target'[q]
  BY DEF CheckedRefIsFree, HoldersOf
<1>2. q # r /\ pc[q] = "update" /\ ref'[q] = ref[q] /\ target'[q] = target[q]
  BY <1>1, EndStep
<1>3. q \notin taken /\ (ref[q] # x \/ target[q] = i)
  BY <1>1, <1>2 DEF Give
<1>4. CASE j = i
  BY <1>1, <1>2, <1>3, <1>4
<1>5. CASE j # i
  <2>1. j \in HoldersOf(ref[q])
    BY <1>1, <1>2, <1>5 DEF HoldersOf
  <2> QED
    BY <1>1, <1>2, <1>3, <2>1 DEF CallsInv, CheckedRefIsFree
<1> QED
  BY <1>4, <1>5

(* A call that ends otherwise than in the unique constraint.               *)
LEMMA EndKeepsFailed ==
  ASSUME TypeOK, CallsInv, NEW r \in Reqs, pc[r] # "idle", End(r), UNCHANGED failed,
         taken \ {r} \subseteq taken'
  PROVE  FailedHaveEnded' /\ ConflictIs409UnlessTaken'
<1>1. r \notin failed
  BY DEF CallsInv, FailedHaveEnded
<1>2. \A q \in failed : q \in Reqs /\ pc'[q] = "idle" /\ q \in taken'
  BY <1>1, EndStep DEF TypeOK, CallsInv, FailedHaveEnded, ConflictIs409UnlessTaken
<1> QED
  BY <1>2 DEF FailedHaveEnded, ConflictIs409UnlessTaken

LEMMA BeginKeepsCalls ==
  ASSUME TypeOK, CallsInv, NEW r \in Reqs, NEW where \in {"create", "check", "update"},
         NEW i \in Ids \cup {NULL}, NEW x \in Refs \cup {NULL}, Begin(r, where, i, x),
         where = "update" /\ x # NULL => HoldersOf(x) \subseteq {i}
  PROVE  CallsInv'
<1>1. /\ pc' = [pc EXCEPT ![r] = where] /\ target' = [target EXCEPT ![r] = i]
      /\ ref' = [ref EXCEPT ![r] = x] /\ UNCHANGED learner
      /\ failed' = failed \ {r} /\ taken' = taken \ {r}
  BY DEF Begin
<1>2. \A y : HoldersOf(y)' = HoldersOf(y)
  BY <1>1 DEF HoldersOf, Rows
<1>3. CheckedRefIsFree'
  <2>1. SUFFICES ASSUME NEW q \in Reqs, pc'[q] = "update", ref'[q] # NULL, q \notin taken'
                 PROVE  HoldersOf(ref'[q]) \subseteq {target'[q]}
    BY <1>2 DEF CheckedRefIsFree
  <2>2. CASE q = r
    BY <1>1, <2>1, <2>2 DEF TypeOK
  <2>3. CASE q # r
    BY <1>1, <2>1, <2>3 DEF TypeOK, CallsInv, CheckedRefIsFree
  <2> QED
    BY <2>2, <2>3
<1>4. FailedHaveEnded' /\ ConflictIs409UnlessTaken'
  BY <1>1 DEF TypeOK, CallsInv, FailedHaveEnded, ConflictIs409UnlessTaken
<1> QED
  BY <1>3, <1>4 DEF CallsInv

LEMMA BeginPatchKeepsCalls ==
  ASSUME TypeOK, CallsInv, NEW r \in Reqs, NEW i \in Ids, NEW x \in Refs \cup {NULL},
         BeginPatch(r, i, x)
  PROVE  CallsInv'
<1>1. CASE x \in {NULL, learner[i].ref}
  <2>1. Begin(r, "update", i, x) /\ i \in Rows
    BY <1>1 DEF BeginPatch
  <2>2. x # NULL => HoldersOf(x) \subseteq {i}
    BY <1>1, <2>1 DEF HoldersOf, TypeOK
  <2> QED
    BY <2>1, <2>2, BeginKeepsCalls
<1>2. CASE x \notin {NULL, learner[i].ref}
  BY <1>2, BeginKeepsCalls DEF BeginPatch
<1> QED
  BY <1>1, <1>2

LEMMA CreateKeepsCalls ==
  ASSUME TypeOK, CallsInv, NEW r \in Reqs, Create(r)
  PROVE  CallsInv'
<1>1. pc[r] # "idle" /\ End(r) /\ UNCHANGED failed /\ taken \ {r} \subseteq taken'
  BY DEF Create, Give
<1>2. CheckedRefIsFree'
  <2>1. CASE learner' = learner
    BY <1>1, <2>1, QuietKeepsFree
  <2>2. CASE learner' # learner
    <3>1. PICK i \in Ids \ Rows :
            /\ ref[r] \in Refs
            /\ learner' = [learner EXCEPT ![i] = [ref |-> ref[r], created |-> began[r]]]
            /\ Rows' = Rows \cup {i}
            /\ \A j \in Rows : learner'[j] = learner[j]
            /\ Give(r, i, ref[r])
      BY <2>2, CreateRow
    <3>2. learner'[i].ref = ref[r]
      BY <3>1 DEF TypeOK
    <3> QED
      BY <1>1, <3>1, <3>2, GiveKeepsFree
  <2> QED
    BY <2>1, <2>2
<1> QED
  BY <1>1, <1>2, EndKeepsFailed DEF CallsInv

LEMMA CheckKeepsCalls ==
  ASSUME TypeOK, CallsInv, NEW r \in Reqs, CheckRef(r)
  PROVE  CallsInv'
<1>1. /\ HoldersOf(ref[r]) \subseteq {target[r]} /\ pc' = [pc EXCEPT ![r] = "update"]
      /\ pc[r] # "idle" /\ UNCHANGED <<learner, target, ref, failed, taken>>
  BY DEF CheckRef
<1>2. \A y : HoldersOf(y)' = HoldersOf(y)
  BY <1>1 DEF HoldersOf, Rows
<1> QED
  BY <1>1, <1>2
  DEF TypeOK, CallsInv, CheckedRefIsFree, FailedHaveEnded, ConflictIs409UnlessTaken

LEMMA UpdateKeepsCalls ==
  ASSUME TypeOK, CallsInv, NEW r \in Reqs, Update(r)
  PROVE  CallsInv'
<1>1. pc[r] # "idle" /\ End(r) /\ UNCHANGED failed /\ taken \ {r} \subseteq taken'
  BY DEF Update, Give
<1>2. CheckedRefIsFree'
  <2>1. CASE ref[r] = NULL
    BY <1>1, <2>1, QuietKeepsFree DEF Update
  <2>2. CASE ref[r] # NULL
    <3>1. target[r] \in Ids /\ target[r] \in Rows' /\ \A j \in Rows' : j \in Rows /\ j \in Ids
      BY <2>2, UpdatedRow DEF Rows
    <3> QED
      BY <1>1, <2>2, <3>1, UpdatedRow, GiveKeepsFree
  <2> QED
    BY <2>1, <2>2
<1> QED
  BY <1>1, <1>2, EndKeepsFailed DEF CallsInv

(* The unique constraint strikes: the value was free when it was checked.  *)
LEMMA UpdateFailsKeepsCalls ==
  ASSUME TypeOK, CallsInv, NEW r \in Reqs, UpdateFails(r)
  PROVE  CallsInv'
<1>1. End(r) /\ UNCHANGED <<learner, taken>> /\ failed' = failed \cup {r}
  BY DEF UpdateFails
<1>2. r \in taken
  BY DEF UpdateFails, CallsInv, CheckedRefIsFree
<1>3. CheckedRefIsFree'
  BY <1>1, QuietKeepsFree
<1>4. FailedHaveEnded' /\ ConflictIs409UnlessTaken'
  BY <1>1, <1>2, EndStep DEF TypeOK, CallsInv, FailedHaveEnded, ConflictIs409UnlessTaken
<1> QED
  BY <1>3, <1>4 DEF CallsInv

LEMMA CallsStep ==
  ASSUME TypeOK, CallsInv, [Next]_vars
  PROVE  CallsInv'
<1>1. ASSUME UNCHANGED <<learner, calls>>
      PROVE  CallsInv'
  <2>1. \A y : HoldersOf(y)' = HoldersOf(y)
    BY <1>1 DEF HoldersOf, Rows
  <2> QED
    BY <1>1, <2>1
    DEF calls, CallsInv, CheckedRefIsFree, FailedHaveEnded, ConflictIs409UnlessTaken
<1>2. CASE Tick \/ UNCHANGED vars
  BY <1>1, <1>2 DEF Tick, vars
<1>3. ASSUME NEW r \in Reqs, NEW x \in Refs, BeginCreate(r, x)
      PROVE  CallsInv'
  BY <1>3, BeginKeepsCalls DEF BeginCreate
<1>4. ASSUME NEW r \in Reqs, RefuseRef(r) \/ Abort(r)
      PROVE  CallsInv'
  <2>1. /\ pc[r] # "idle" /\ End(r) /\ UNCHANGED <<learner, failed>>
        /\ taken \ {r} \subseteq taken'
    BY <1>4 DEF RefuseRef, Abort
  <2> QED
    BY <2>1, QuietKeepsFree, EndKeepsFailed DEF CallsInv
<1>5. ASSUME NEW v \in Readers, BeginList(v) \/ \E limit \in Limits : Page(v, limit)
      PROVE  CallsInv'
  BY <1>1, <1>5 DEF BeginList, Page
<1> QED
  BY <1>2, <1>3, <1>4, <1>5, BeginPatchKeepsCalls, CreateKeepsCalls, CheckKeepsCalls,
     UpdateKeepsCalls, UpdateFailsKeepsCalls
  DEF Next

-----------------------------------------------------------------------------
(* The lists.                                                              *)

LEMMA KeysKeepLists ==
  ASSUME TypeOK, ListsInv, UNCHANGED lists, Rows \subseteq Rows',
         \A i \in Rows : learner'[i].created = learner[i].created
  PROVE  ListsInv'
<1>1. \A i \in Rows : Key(i)' = Key(i)
  BY DEF Key
<1>2. \A v \in reading : v \in Readers /\ listed[v] \cup page[v] \cup present[v] \subseteq Rows
  BY DEF TypeOK
<1>3. CursorOK'
  BY <1>1, <1>2 DEF lists, ListsInv, CursorOK, Precedes
<1>4. NoneListedTwice' /\ AllPresentAreListed'
  BY DEF lists, ListsInv, NoneListedTwice, AllPresentAreListed
<1> QED
  BY <1>3, <1>4 DEF ListsInv

LEMMA PageKeepsLists ==
  ASSUME TypeOK, ListsInv, NEW v \in Readers, NEW limit \in Limits, Page(v, limit)
  PROVE  ListsInv'
<1> DEFINE seen == listed[v] \cup page[v]
<1>1. /\ v \in reading /\ UNCHANGED <<learner, present>>
      /\ listed' = [listed EXCEPT ![v] = @ \cup page[v]]
      /\ \A u \in Readers \ {v} : page'[u] = page[u] /\ cursor'[u] = cursor[u]
      /\ page'[v] \subseteq After(cursor[v])
  BY PageStep
<1>2. listed'[v] = seen /\ \A u \in Readers \ {v} : listed'[u] = listed[u]
  BY <1>1 DEF TypeOK
<1>3. seen \subseteq Rows /\ present[v] \subseteq Rows
  BY DEF TypeOK
<1>4. \A i : Key(i)' = Key(i)
  BY <1>1 DEF Key
<1>5. seen \cap After(cursor[v]) = {}
  BY <1>1, <1>3 DEF ListsInv, CursorOK, After
<1>6. \A i \in present[v] : i \in seen \/ i \in After(cursor[v])
  BY <1>1, <1>3 DEF ListsInv, CursorOK, After
<1>7. NoneListedTwice'
  BY <1>1, <1>2, <1>5 DEF ListsInv, NoneListedTwice
<1>8. CASE reading' = reading \ {v} /\ page'[v] = After(cursor[v])
  <2>1. AllPresentAreListed'
    BY <1>1, <1>2, <1>6, <1>8 DEF ListsInv, AllPresentAreListed
  <2>2. CursorOK'
    BY <1>1, <1>2, <1>4, <1>8 DEF TypeOK, ListsInv, CursorOK, Precedes
  <2> QED
    BY <1>7, <2>1, <2>2 DEF ListsInv
<1>9. CASE /\ reading' = reading /\ cursor'[v] \in Cursor
           /\ cursor[v] # NULL => Precedes(cursor[v], cursor'[v])
           /\ \A i \in page'[v] : ~ Precedes(cursor'[v], Key(i))
           /\ \A i \in After(cursor[v]) : ~ Precedes(cursor'[v], Key(i)) => i \in page'[v]
  <2>1. AllPresentAreListed'
    BY <1>1, <1>2, <1>9 DEF ListsInv, AllPresentAreListed
  <2>2. ASSUME NEW i \in seen
        PROVE  ~ Precedes(cursor'[v], Key(i))
    <3>1. cursor[v] # NULL /\ ~ Precedes(cursor[v], Key(i))
      BY <1>1, <2>2 DEF ListsInv, CursorOK
    <3>2. cursor[v] \in Cursor /\ Key(i) \in Cursor
      BY <1>3, <3>1, KeyType DEF TypeOK
    <3> QED
      BY <1>9, <3>1, <3>2, PrecedesTransitive
  <2>3. cursor'[v] # NULL
    BY <1>9, RowAssumption
  <2>4. /\ \A i \in listed'[v] \cup page'[v] : ~ Precedes(cursor'[v], Key(i))
        /\ \A i \in present[v] :
             ~ Precedes(cursor'[v], Key(i)) => i \in listed'[v] \cup page'[v]
    BY <1>2, <1>6, <1>9, <2>2
  <2>5. CursorOK'
    <3>1. SUFFICES ASSUME NEW u \in reading'
                   PROVE  /\ cursor'[u] = NULL => listed'[u] \cup page'[u] = {}
                          /\ cursor'[u] # NULL =>
                               /\ \A i \in listed'[u] \cup page'[u] :
                                    ~ Precedes(cursor'[u], Key(i))
                               /\ \A i \in present[u] :
                                    ~ Precedes(cursor'[u], Key(i)) =>
                                      i \in listed'[u] \cup page'[u]
      BY <1>1, <1>4 DEF CursorOK, Precedes
    <3>2. CASE u = v
      BY <2>3, <2>4, <3>2
    <3>3. CASE u # v
      BY <1>1, <1>2, <1>9, <3>1, <3>3 DEF TypeOK, ListsInv, CursorOK
    <3> QED
      BY <3>2, <3>3
  <2> QED
    BY <1>7, <2>1, <2>5 DEF ListsInv
<1> QED
  BY <1>8, <1>9, PageStep

LEMMA BeginListKeepsLists ==
  ASSUME TypeOK, ListsInv, NEW v \in Readers, BeginList(v)
  PROVE  ListsInv'
<1>1. /\ reading' = reading \cup {v} /\ UNCHANGED learner
      /\ cursor'[v] = NULL /\ page'[v] = {} /\ listed'[v] = {}
      /\ \A u \in Readers \ {v} : /\ cursor'[u] = cursor[u] /\ page'[u] = page[u]
                                  /\ listed'[u] = listed[u] /\ present'[u] = present[u]
  BY DEF BeginList, TypeOK
<1>2. \A i : Key(i)' = Key(i)
  BY <1>1 DEF Key
<1>3. CursorOK'
  BY <1>1, <1>2 DEF TypeOK, ListsInv, CursorOK, Precedes
<1>4. NoneListedTwice' /\ AllPresentAreListed'
  BY <1>1 DEF ListsInv, NoneListedTwice, AllPresentAreListed
<1> QED
  BY <1>3, <1>4 DEF ListsInv

LEMMA ListsStep ==
  ASSUME TypeOK, ListsInv, [Next]_vars
  PROVE  ListsInv'
<1>1. ASSUME UNCHANGED <<learner, lists>>
      PROVE  ListsInv'
  BY <1>1, KeysKeepLists DEF Rows
<1>2. CASE Tick \/ UNCHANGED vars
  BY <1>1, <1>2 DEF Tick, vars
<1>3. ASSUME NEW r \in Reqs,
             \/ \E x \in Refs : BeginCreate(r, x)
             \/ \E i \in Ids, x \in Refs \cup {NULL} : BeginPatch(r, i, x)
             \/ CheckRef(r) \/ RefuseRef(r) \/ UpdateFails(r) \/ Abort(r)
      PROVE  ListsInv'
  BY <1>1, <1>3
  DEF BeginCreate, BeginPatch, Begin, CheckRef, RefuseRef, UpdateFails, Abort, End
<1>4. ASSUME NEW r \in Reqs, Create(r) \/ Update(r)
      PROVE  ListsInv'
  BY <1>4, CreateKeepsKeys, UpdateKeepsKeys, KeysKeepLists
<1> QED
  BY <1>2, <1>3, <1>4, PageKeepsLists, BeginListKeepsLists DEF Next

-----------------------------------------------------------------------------
(* The state of every run is well typed; of two learners, no two have the  *)
(* same external_ref (001_init.sql).                                       *)
THEOREM TypeCorrect == Spec => []TypeOK
<1>1. Init => TypeOK
  BY InitOK
<1>2. TypeOK /\ [Next]_vars => TypeOK'
  BY TypeStep
<1> QED
  BY <1>1, <1>2, PTL DEF Spec

THEOREM ListsInvariant == Spec => []ListsInv
<1>1. Init => ListsInv
  BY InitOK
<1>2. TypeOK /\ ListsInv /\ [Next]_vars => ListsInv'
  BY ListsStep
<1> QED
  BY <1>1, <1>2, TypeCorrect, PTL DEF Spec

(* Whatever is created and patched between its pages, a listing shows no   *)
(* learner twice (pagination.js).                                          *)
THEOREM NoneTwice == Spec => []NoneListedTwice
<1>1. ListsInv => NoneListedTwice
  BY DEF ListsInv
<1> QED
  BY <1>1, ListsInvariant, PTL

(* Nor does it leave out one that was there when it began.                 *)
THEOREM NoneMissed == Spec => []AllPresentAreListed
<1>1. ListsInv => AllPresentAreListed
  BY DEF ListsInv
<1> QED
  BY <1>1, ListsInvariant, PTL

(* A PATCH ends in the unique constraint only if the value it had checked  *)
(* was given to another learner before its UPDATE (routes.js, PATCH).      *)
THEOREM ConflictsAreRaces == Spec => []ConflictIs409UnlessTaken
<1>1. Init => CallsInv
  BY InitOK
<1>2. TypeOK /\ CallsInv /\ [Next]_vars => CallsInv'
  BY CallsStep
<1>3. CallsInv => ConflictIs409UnlessTaken
  BY DEF CallsInv
<1> QED
  BY <1>1, <1>2, <1>3, TypeCorrect, PTL DEF Spec
===============================================================================
