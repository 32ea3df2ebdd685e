------------------------------ MODULE Catalog ------------------------------
(***************************************************************************)
(* The programs of the authoring routes of src/src/routes.js: courses with *)
(* modules, lessons with citations, assessments with items, schemes with   *)
(* ranks, approvals.  A whole is made by several INSERTs in one            *)
(* transaction and shown from several SELECTs, each with a snapshot of its *)
(* own.  Checks of the body alone are left to the requests (Requests.tla). *)
(***************************************************************************)
EXTENDS Transactions

CONSTANT Names  \* the names and positions that bodies give

One(table, of, name) ==
  [op |-> "one", table |-> table, of |-> of, name |-> name, refs |-> {}]
Many(table, of) == [op |-> "list", table |-> table, of |-> of, name |-> NULL, refs |-> {}]
Ins(table, of, name, refs) ==
  [op |-> "insert", table |-> table, of |-> of, name |-> name, refs |-> refs]

(* c: the call itself, to which the rows below its own belong, one for     *)
(* each name: the loops over the parts that a body gives.                  *)
Parts(table, c, names) == [i \in 1..Len(names) |-> Ins(table, c, names[i], {})]

(* The course with its scheme and rank, if the body names them: held by    *)
(* foreign keys alone.  That the positions of the modules differ is left   *)
(* to the index.                                                           *)
PostCourse(c, refs, positions) ==
  <<Ins("course", NULL, NULL, refs)>> \o Parts("course_module", c, positions)

GetCourses == <<Many("course", NULL)>>

GetCourse(course) ==
  <<One("course", course, NULL), Many("course_module", course), Many("lesson", course),
    Many("assessment", course)>>

(* A lesson's position in its course is unique, its citations are unnamed. *)
PostLesson(c, course, position, citations) ==
  <<One("course", course, NULL), Ins("lesson", course, position, {})>>
    \o Parts("citation", c, [i \in 1..citations |-> NULL])

(* With a module_position, the module must be there.                       *)
PostLessonInModule(c, course, position, module, citations) ==
  <<One("course", course, NULL), One("course_module", course, module),
    Ins("lesson", course, position, {<<"course_module", course>>})>>
    \o Parts("citation", c, [i \in 1..citations |-> NULL])

GetLesson(lesson) == <<One("lesson", lesson, NULL), Many("citation", lesson)>>

(* Two items at one position, the index refuses; an item that lacks its    *)
(* answer key, the handler, when it comes to it (TxAbort).                 *)
PostAssessment(c, course, positions) ==
  <<One("course", course, NULL), Ins("assessment", course, NULL, {})>>
    \o Parts("assessment_item", c, positions)

(* Also the answer keys are shown so.                                      *)
GetAssessment(assessment) ==
  <<One("assessment", assessment, NULL), Many("assessment_item", assessment)>>

(* The name must be free, says the SELECT; the index says it again.        *)
PostScheme(c, name, positions) ==
  <<[op |-> "none", table |-> "progression_scheme", of |-> NULL, name |-> name, refs |-> {}],
    Ins("progression_scheme", NULL, name, {})>> \o Parts("rank", c, positions)

(* Mutant: the ranks are read first.                                       *)
GetSchemesRanksFirst == <<Many("rank", NULL), Many("progression_scheme", NULL)>>

GetSchemes == <<Many("progression_scheme", NULL), Many("rank", NULL)>>

GetScheme(scheme) == <<One("progression_scheme", scheme, NULL), Many("rank", scheme)>>

(* Mutant: the subject is not looked up.                                   *)
PostApprovalUnchecked(kind, subject) == <<Ins("approval", subject, NULL, {})>>

(* No foreign key holds the subject: only the SELECT does.                 *)
PostApproval(kind, subject) ==
  <<One(kind, subject, NULL), Ins("approval", subject, NULL, {})>>

(* Of one subject, or of all.                                              *)
GetApprovals(subject) == <<Many("approval", subject)>>

(* Citations joined with their lessons, in one statement.                  *)
GetStale == <<Many("citation", NULL)>>

(* The names or positions in a body of up to n parts; the ranks of a       *)
(* scheme are one at least, at positions that differ, and an assessment    *)
(* has one item at least.                                                  *)
Bodies(n) == UNION {[1..m -> Names] : m \in 0..n}
Distinct(names) == \A i, j \in DOMAIN names : names[i] = names[j] => i = j

(* May a call of an authoring route run p?  It refers to rows of other     *)
(* calls: the ids of its own are not known before it has returned.         *)
IsRoute(c, p) ==
  LET others == Calls \ {c}
      bodies == Bodies(Len(p))
      MayRefer(table) == {{}} \cup {{<<table, d>>} : d \in others}
  IN  \/ \E s \in MayRefer("progression_scheme"), r \in MayRefer("rank"), b \in bodies :
            p = PostCourse(c, s \cup r, b)
      \/ \E name \in Names, b \in bodies \ {<<>>} : Distinct(b) /\ p = PostScheme(c, name, b)
      \/ \E d \in others :
            \/ \E q \in Names, k \in 0..Len(p) : p = PostLesson(c, d, q, k)
            \/ \E q, m \in Names, k \in 0..Len(p) : p = PostLessonInModule(c, d, q, m, k)
            \/ \E b \in bodies \ {<<>>} : p = PostAssessment(c, d, b)
            \/ \E k \in {"course", "lesson", "assessment"} : p = PostApproval(k, d)
            \/ p \in {GetCourse(d), GetLesson(d), GetAssessment(d), GetScheme(d), GetApprovals(d)}
      \/ p \in {GetCourses, GetSchemes, GetApprovals(NULL), GetStale}

(* What runs beside the routes: the lookup of a key, then its touch, and   *)
(* a batch of usage events.                                                *)
OnKey == <<Many("api_key", NULL)>>
UsageBatch(n) == [i \in 1..n |-> Ins("usage_event", NULL, NULL, {})]

ASSUME CatalogAssumption ==
  /\ Names \subseteq STRING
  /\ \A c \in Calls : \A p \in Programs[c] :
       IsRoute(c, p) \/ p = OnKey \/ p = UsageBatch(Len(p))

-----------------------------------------------------------------------------
(* Properties.                                                             *)

(* What an answer shows, it shows whole, though each SELECT has its own    *)
(* snapshot: of the rows that were made together with one that it shows,   *)
(* none is missing that its statements ask for (routes.js:340, 401, 444,   *)
(* 746: one answer tells of them all).                                     *)
ShownWhole ==
  \A c \in Calls : outcome[c] = "ok" =>
    \A r \in seen[c], x \in rows :
      /\ x.by = r.by /\ x.of = x.by /\ r.of # r.by
      /\ \E i \in 1..Len(program[c]) : Matches(program[c][i], x)
      => x \in seen[c]

(* Every row that belongs to a whole is there with it, in the same tenant, *)
(* be it one of its own parts or what another call has added; also the     *)
(* subject of an approval, which no foreign key holds: "the subject must   *)
(* exist in your tenant" (routes.js:821).  What a row refers to beside it  *)
(* is there too: a lesson's module in its tenant; a course's scheme and    *)
(* rank in some tenant, since no handler looks them up and their foreign   *)
(* keys say nothing of a tenant (routes.js:326-330; 001_init.sql:63-64).   *)
OwnersExist ==
  \A r \in rows :
    /\ r.of # NULL =>
         \E q \in rows : q.by = r.of /\ q.of # q.by /\ q.tenant = r.tenant
    /\ \A ref \in r.refs :
         \E q \in rows : /\ ref = <<q.table, q.by>>
                        /\ (q.tenant = r.tenant \/ r.table = "course")

-----------------------------------------------------------------------------
(* What makes the properties inductive.                                    *)

Inserts(p) == {i \in 1..Len(p) : p[i].op = "insert"}
Picks(s) == s.op \in {"one", "list"}

(* The tables of a whole and of its parts.                                 *)
PartOf(part, whole) ==
  <<whole, part>> \in {<<"course", "course_module">>, <<"lesson", "citation">>,
                       <<"assessment", "assessment_item">>, <<"progression_scheme", "rank">>}

(* Of a route's program: what an INSERT refers to has been inserted or     *)
(* looked up, a course's scheme and rank aside; parts are of their whole;  *)
(* wholes are read before parts; and SELECTs come before INSERTs.          *)
ProgramOK(c, p) ==
  /\ \A i \in Inserts(p) :
       \/ p[i].of = NULL
       \/ p[i].of = c /\ \E j \in Inserts(p) : j < i /\ p[j].of # c
       \/ p[i].of # c /\ \E j \in 1..Len(p) : j < i /\ p[j].op = "one" /\ p[j].of = p[i].of
  /\ \A i \in Inserts(p) : p[i].table # "course" =>
       \A ref \in p[i].refs :
         \E j \in 1..Len(p) : j < i /\ p[j].op = "one" /\ ref = <<p[j].table, p[j].of>>
  /\ \A i, j \in Inserts(p) : p[i].of # c /\ p[j].of = c => PartOf(p[j].table, p[i].table)
  /\ \A i, j \in 1..Len(p) :
       Picks(p[i]) /\ PartOf(p[j].table, p[i].table) => Picks(p[j]) /\ i < j
  /\ \A i \in 1..Len(p), j \in Inserts(p) : p[i].op # "insert" => i < j

CatalogTypeOK ==
  /\ /\ DOMAIN program = Calls /\ DOMAIN step = Calls /\ DOMAIN seen = Calls
     /\ DOMAIN made = Calls /\ DOMAIN outcome = Calls
  /\ \A c \in Calls : /\ program[c] \in Programs[c] \cup {<<>>}
                       /\ step[c] \in 0..Len(program[c])

(* A call's rows are its transaction's, and then, once, the database's;    *)
(* what they refer to by a foreign key is there before them.               *)
StoredOK ==
  /\ \A c \in Calls : \A r \in made[c] : KeysHeld(r)
  /\ \A c \in Calls :
       made[c] = IF outcome[c] = "open" THEN RowsUpTo(c, program[c], step[c]) ELSE {}
  /\ \A r \in rows : /\ r.by \in Calls /\ outcome[r.by] \notin {"new", "open"}
                     /\ r \in RowsMade(r.by, program[r.by])

(* What a call has looked up is there, and what it has seen it has seen    *)
(* whole, as far as its statements have come.                              *)
ShownOK(c) ==
  /\ seen[c] \subseteq rows
  /\ \A r \in seen[c] :
       /\ r.tenant = TenantOf[c]
       /\ \E i \in 1..step[c] : Picks(program[c][i]) /\ program[c][i].table = r.table
  /\ \A i \in 1..step[c] : program[c][i].op = "one" =>
       \E q \in rows : /\ q.tenant = TenantOf[c] /\ q.by = program[c][i].of
                       /\ q.table = program[c][i].table
  /\ \A r \in seen[c], x \in rows, i \in 1..step[c] :
       /\ x.by = r.by /\ x.of = x.by /\ r.of # r.by
       /\ Picks(program[c][i]) /\ Matches(program[c][i], x)
       => x \in seen[c]

ReadOK ==
  \A c \in Calls : /\ outcome[c] \in {"open", "ok"} => ShownOK(c)
                   /\ outcome[c] = "ok" => step[c] = Len(program[c])
=============================================================================
