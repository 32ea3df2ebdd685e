------------------------------ MODULE MCCatalog ------------------------------
(***************************************************************************)
(* The authoring routes on four calls: one makes a whole of no, one or two *)
(* parts, one adds to it, refers to it or makes the like, one shows or     *)
(* approves either, and one is of another tenant.  Every call runs one of  *)
(* its programs, at any time.                                              *)
(***************************************************************************)
EXTENDS Catalog, TLC

CONSTANTS make, add, show, other, t1, t2

MCTenantOf == make :> t1 @@ add :> t1 @@ show :> t1 @@ other :> t2

(* What a course refers to.                                                *)
SchemeOf(c) == {<<"progression_scheme", c>>}
RankOf(c) == {<<"rank", c>>}

MCPrograms ==
     make  :> {PostCourse(make, {}, <<"1", "2">>), PostScheme(make, "belts", <<"1", "2">>)}
  @@ add   :> {PostLesson(add, make, "1", 1), PostLessonInModule(add, make, "1", "2", 2),
               PostAssessment(add, make, <<"1", "2">>), PostAssessment(add, make, <<"1", "1">>),
               PostScheme(add, "belts", <<"1">>),
               PostCourse(add, SchemeOf(make) \cup RankOf(make), <<"1">>)}
  @@ show  :> {GetCourses, GetCourse(make), GetCourse(add), GetLesson(add), GetAssessment(add),
               GetSchemes, GetScheme(make), GetStale, GetApprovals(NULL),
               PostLesson(show, make, "1", 0), PostLessonInModule(show, add, "1", "1", 1),
               PostApproval("lesson", add), PostApproval("assessment", add)}
  @@ other :> {PostApproval("course", make), PostCourse(other, RankOf(make), <<>>)}
=============================================================================
