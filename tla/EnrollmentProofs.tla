-------------------------- MODULE EnrollmentProofs --------------------------
(***************************************************************************)
(* Enrollment counts and enrollment rows (Courses.tla), for all values of  *)
(* the constants.                                                          *)
(*                                                                         *)
(* An id is known to clients only after the INSERT that generated it, so   *)
(* nothing was counted for a course before its row was there (Fresh); an   *)
(* enrollment that was not counted has found its course gone, and only a   *)
(* save can bring that back, which is remembered in clobbered (Uncounted). *)
(* That a course with an enrollment stays is the migration's foreign key:  *)
(* the removal fails, and no save of a loaded entity empties the row.      *)
(***************************************************************************)
EXTENDS CoursesProofs, FiniteSetTheorems

USE ConstantsAssumption, DistinctAssumption

\* Before a course is inserted there is no row and nobody asks for it
Fresh ==
    \A c \in Requests : pc[c] \in {"idle", "insertCourse"} =>
      /\ courses[c] = None
      /\ \A r \in Requests : req[r] # None => req[r].target # c

\* Who was counted enrolls and is past the increment
BumpedOK ==
    \A r \in bumped :
      /\ pc[r] \in {"invalidate", "insertEnrollment", "ok", "error"}
      /\ req[r] # None /\ req[r].op = "enroll"

\* Past the increment, without having been counted
Uncounted(r) ==
    /\ req[r] # None /\ req[r].op = "enroll" /\ r \notin bumped
    /\ pc[r] \in {"invalidate", "insertEnrollment", "ok"}

UncountedOK ==
    \A r \in Requests : Uncounted(r) =>
      courses[req[r].target] = None \/ req[r].target \in clobbered

\* Enrollment rows are those of answered enrollments
RowsOK ==
    \A n \in enrollments :
      /\ pc[n.id] = "ok" /\ req[n.id] # None /\ req[n.id].op = "enroll"
      /\ n.userId = req[n.id].user /\ n.courseId = req[n.id].target

CountOf(c) == Cardinality({r \in bumped : req[r].target = c})

CountsOK ==
    \A c \in CourseIds :
      courses[c] # None /\ c \notin clobbered =>
        courses[c].enrollmentCount = CountOf(c)

\* Nobody has a count of c that c has not reached
Below(n, c) == n <= CountOf(c)

\* ... no row, no cache entry and no entity in a handler
RowsBelow ==
    \A c \in CourseIds : courses[c] # None => Below(courses[c].enrollmentCount, c)

EntriesBelow ==
    \A c \in CourseIds : cache[c] # None => Below(cache[c].row.enrollmentCount, c)

EntitiesBelow ==
    \A r \in Requests :
      pc[r] \in {"fill", "reload", "save"} /\ req[r].op # "list" =>
        Below(ent[r].row.enrollmentCount, req[r].target)

BelowInv == RowsBelow /\ EntriesBelow /\ EntitiesBelow

EInv == /\ TypeOK /\ Fresh /\ BumpedOK /\ UncountedOK /\ RowsOK /\ CountsOK
        /\ BelowInv

----------------------------------------------------------------------------
(* What a step does to requests, courses and enrollments *)

\* A request keeps what it asks for
LEMMA Asked ==
    ASSUME TypeOK, [Next]_vars, NEW r \in Requests
    PROVE  /\ pc[r] # "idle" => pc'[r] # "idle" /\ req'[r] = req[r]
           /\ req[r] # None <=> pc[r] # "idle"
<1>1. req[r] # None <=> pc[r] # "idle"
  BY DEF TypeOK, StepOK, CallOK
<1> DEFINE Goal == pc[r] # "idle" => pc'[r] # "idle" /\ req'[r] = req[r]
<1>2. ASSUME NEW x \in Requests, Arrival(x)
      PROVE  Goal
  <2> USE DEF TypeOK, Arrive
  <2>1. ASSUME NEW q, FindById(x, q) PROVE Goal
    BY <2>1 DEF FindById, Found, Goto
  <2>2. QED BY <1>2, <2>1, ArrivalCall DEF CreateCourse, ListCourses, Goto
<1>3. ASSUME NEW x \in Requests, Serve(x)
      PROVE  Goal
  <2> USE DEF TypeOK, Goto, Invalidate, Settle, locals
  <2>1. CASE ReadCourse(x) \/ ReadList(x)
    BY <2>1 DEF ReadCourse, ReadList
  <2>2. CASE Fill(x)
    BY <2>2 DEF Fill, Found, Continue
  <2>3. CASE (\E k \in Keys : Del(x, k)) \/ Scan(x)
    BY <2>3 DEF Del, Scan
  <2>4. CASE Reload(x) \/ Save(x)
    BY <2>4 DEF Reload, Save
  <2>5. CASE InsertCourse(x) \/ Delete(x) \/ InsertLesson(x)
    BY <2>5 DEF InsertCourse, Delete, InsertLesson
  <2>6. CASE FindLesson(x) \/ ReloadLesson(x) \/ SaveLesson(x) \/ DeleteLesson(x)
    BY <2>6 DEF FindLesson, ReloadLesson, SaveLesson, DeleteLesson
  <2>7. CASE FindEnrollment(x) \/ Increment(x) \/ InsertEnrollment(x)
    BY <2>7 DEF FindEnrollment, Increment, InsertEnrollment
  <2>8. QED BY <1>3, <2>1, <2>2, <2>3, <2>4, <2>5, <2>6, <2>7 DEF Serve
<1>4. ASSUME NEW x \in Requests, Fail(x)
      PROVE  Goal
  BY <1>4 DEF Fail, Goto, TypeOK
<1>5. ASSUME NEW k \in Keys, Expire(k)
      PROVE  Goal
  BY <1>5 DEF Expire, locals
<1>6. ASSUME UNCHANGED vars
      PROVE  Goal
  BY <1>6 DEF vars, locals
<1>7. QED BY <1>1, <1>2, <1>3, <1>4, <1>5, <1>6, NextCases

\* Who arrives asks for what clients can know
LEMMA Arrives ==
    ASSUME TypeOK, NEW r \in Requests, Arrival(r)
    PROVE  /\ pc[r] = "idle"
           /\ pc'[r] \notin {"idle", "increment", "invalidate", "insertEnrollment"}
           /\ pc'[r] = "ok" => req'[r].op # "enroll"
           /\ pc'[r] = "insertCourse" => req'[r].op = "create"
           /\ req'[r].target \in Known \cup ListKeys \cup {None}
           /\ \A x \in Requests \ {r} : req'[x] = req[x] /\ pc'[x] = pc[x]
           /\ UNCHANGED <<courses, enrollments, bumped, clobbered>>
<1> USE DEF TypeOK, Goto, Arrive, db, history
<1> DEFINE Goal ==
      /\ pc[r] = "idle"
      /\ pc'[r] \notin {"idle", "increment", "invalidate", "insertEnrollment"}
      /\ pc'[r] = "ok" => req'[r].op # "enroll"
      /\ pc'[r] = "insertCourse" => req'[r].op = "create"
      /\ req'[r].target \in Known \cup ListKeys \cup {None}
      /\ \A x \in Requests \ {r} : req'[x] = req[x] /\ pc'[x] = pc[x]
      /\ UNCHANGED <<courses, enrollments, bumped, clobbered>>
<1>1. ASSUME NEW q, FindById(r, q), q.target \in Known
      PROVE  Goal
  BY <1>1 DEF FindById, Found, Continue
<1>2. CASE CreateCourse(r)
  BY <1>2 DEF CreateCourse, On
<1>3. CASE ListCourses(r)
  BY <1>3 DEF ListCourses, On
<1>4. CASE ~CreateCourse(r) /\ ~ListCourses(r)
  <2>1. PICK q : FindById(r, q) /\ q.target \in Known
    <3>1. CASE GetCourse(r)
      <4>1. PICK c \in Known : FindById(r, On("get", None, c))
        BY <3>1 DEF GetCourse
      <4>2. QED BY <4>1 DEF On
    <3>2. CASE RemoveCourse(r)
      <4>1. PICK u \in Users, c \in Known : FindById(r, On("remove", u, c))
        BY <3>2 DEF RemoveCourse
      <4>2. QED BY <4>1 DEF On
    <3>3. CASE Enroll(r)
      <4>1. PICK u \in Users, c \in Known : FindById(r, On("enroll", u, c))
        BY <3>3 DEF Enroll
      <4>2. QED BY <4>1 DEF On
    <3>4. CASE UpdateCourse(r)
      <4>1. PICK u \in Users, c \in Known, dto \in Patches :
              FindById(r, [On("update", u, c) EXCEPT !.dto = dto])
        BY <3>4 DEF UpdateCourse
      <4>2. QED BY <4>1 DEF On
    <3>5. CASE AddLesson(r)
      <4>1. PICK u \in Users, c \in Known, t \in Titles :
              FindById(r, [On("addLesson", u, c) EXCEPT !.dto.title = t])
        BY <3>5 DEF AddLesson
      <4>2. QED BY <4>1 DEF On
    <3>6. CASE UpdateLesson(r)
      <4>1. PICK u \in Users, c \in Known, l \in KnownLessons, t \in Titles :
              FindById(r, [On("updateLesson", u, c)
                             EXCEPT !.lesson = l, !.dto.title = t])
        BY <3>6 DEF UpdateLesson
      <4> DEFINE q == [On("updateLesson", u, c)
                         EXCEPT !.lesson = l, !.dto.title = t]
      <4>2. q.target = c
        BY DEF On
      <4>3. FindById(r, q)
        BY <4>1
      <4> HIDE DEF q
      <4>4. QED BY <4>2, <4>3
    <3>7. CASE RemoveLesson(r)
      <4>1. PICK u \in Users, c \in Known, l \in KnownLessons :
              FindById(r, [On("removeLesson", u, c) EXCEPT !.lesson = l])
        BY <3>7 DEF RemoveLesson
      <4>2. QED BY <4>1 DEF On
    <3>8. QED
      BY <1>4, <3>1, <3>2, <3>3, <3>4, <3>5, <3>6, <3>7 DEF Arrival
  <2>2. QED BY <1>1, <2>1
<1>5. QED BY <1>2, <1>3, <1>4

\* A step of the service that writes none of the tables looked at here
LEMMA QuietStep ==
    ASSUME TypeOK, NEW r \in Requests, Serve(r) \/ Fail(r),
           ~(Save(r) \/ InsertCourse(r) \/ Delete(r) \/ Increment(r)
             \/ InsertEnrollment(r))
    PROVE  /\ UNCHANGED <<courses, enrollments, bumped, clobbered, req>>
           /\ \A x \in Requests \ {r} : pc'[x] = pc[x]
           /\ pc[r] \in Steps /\ pc'[r] \notin {"idle", "insertCourse"}
           /\ pc[r] \in {"invalidate", "insertEnrollment"} =>
                pc'[r] \in {"invalidate", "insertEnrollment", "ok", "error"}
           /\ pc'[r] \in {"invalidate", "insertEnrollment", "ok"} =>
                pc[r] = "invalidate" \/ req[r].op # "enroll"
           /\ pc'[r] = "increment" => pc[r] = "findEnrollment"
<1> USE DEF TypeOK, Goto, Invalidate, Settle, locals, db, history, Steps
<1> DEFINE Goal ==
      /\ UNCHANGED <<courses, enrollments, bumped, clobbered, req>>
      /\ \A x \in Requests \ {r} : pc'[x] = pc[x]
      /\ pc[r] \in Steps /\ pc'[r] \notin {"idle", "insertCourse"}
      /\ pc[r] \in {"invalidate", "insertEnrollment"} =>
           pc'[r] \in {"invalidate", "insertEnrollment", "ok", "error"}
      /\ pc'[r] \in {"invalidate", "insertEnrollment", "ok"} =>
           pc[r] = "invalidate" \/ req[r].op # "enroll"
      /\ pc'[r] = "increment" => pc[r] = "findEnrollment"
<1>0. pc[r] \in Steps => OpOK(pc[r], req[r].op)
  BY AtStep
<1>1. CASE ReadCourse(r) \/ ReadList(r)
  BY <1>1 DEF ReadCourse, ReadList
<1>2. CASE Fill(r)
  <2>1. req[r].op = "list" => pc'[r] = "ok"
    BY <1>2 DEF Fill
  <2>2. req[r].op # "list" =>
          /\ pc'[r] \in {"forbidden", "ok", "reload", "delete", "insertLesson",
                         "findEnrollment", "findLesson"}
          /\ pc'[r] = "ok" => req[r].op = "get"
    BY <1>2 DEF Fill, Found, Continue
  <2>3. QED BY <1>2, <2>1, <2>2 DEF Fill, Found
<1>3. CASE (\E k \in Keys : Del(r, k)) \/ Scan(r)
  <2>1. pc[r] = "invalidate"
    BY <1>3 DEF Del, Scan, StepOK
  <2>2. QED BY <1>3, <2>1 DEF Del, Scan
<1>4. CASE Reload(r)
  BY <1>4 DEF Reload
<1>5. CASE InsertLesson(r) \/ SaveLesson(r) \/ DeleteLesson(r)
  <2>1. /\ pc[r] \in {"insertLesson", "saveLesson", "deleteLesson"}
        /\ req[r].op # "enroll"
    BY <1>0, <1>5 DEF InsertLesson, SaveLesson, DeleteLesson, OpOK
  <2>2. QED BY <1>5, <2>1 DEF InsertLesson, SaveLesson, DeleteLesson
<1>6. CASE FindLesson(r) \/ ReloadLesson(r) \/ FindEnrollment(r)
  BY <1>6 DEF FindLesson, ReloadLesson, FindEnrollment
<1>7. CASE Fail(r)
  BY <1>7 DEF Fail
<1>8. QED BY <1>1, <1>2, <1>3, <1>4, <1>5, <1>6, <1>7 DEF Serve

\* The steps that write, whose request they are, and the others
LEMMA StepCases ==
    ASSUME TypeOK, [Next]_vars
    PROVE  \/ \E r \in Requests : Arrival(r)
           \/ \E r \in Requests : Save(r)
           \/ \E r \in Requests : InsertCourse(r)
           \/ \E r \in Requests : Delete(r)
           \/ \E r \in Requests : Increment(r)
           \/ \E r \in Requests : InsertEnrollment(r)
           \/ \E r \in Requests :
                /\ Serve(r) \/ Fail(r)
                /\ ~(Save(r) \/ InsertCourse(r) \/ Delete(r) \/ Increment(r)
                     \/ InsertEnrollment(r))
           \/ UNCHANGED <<courses, enrollments, bumped, clobbered, req, pc>>
<1>1. \A k \in Keys : Expire(k) =>
        UNCHANGED <<courses, enrollments, bumped, clobbered, req, pc>>
  BY DEF Expire, db, locals
<1>2. UNCHANGED vars => UNCHANGED <<courses, enrollments, bumped, clobbered, req, pc>>
  BY DEF vars, db, locals, history
<1>3. QED BY <1>1, <1>2, NextCases

\* A writer stays who it is, and the other requests do not notice
LEMMA WriterStep ==
    ASSUME TypeOK, NEW r \in Requests,
           \/ Save(r) \/ InsertCourse(r) \/ Delete(r) \/ Increment(r)
           \/ InsertEnrollment(r)
    PROVE  /\ UNCHANGED req
           /\ \A x \in Requests \ {r} : pc'[x] = pc[x]
           /\ pc[r] \in {"save", "insertCourse", "delete", "increment",
                         "insertEnrollment"}
           /\ pc[r] \notin {"increment", "insertEnrollment"} =>
                req[r].op \in {"update", "create", "remove"}
           /\ pc[r] \in {"increment", "insertEnrollment"} => req[r].op = "enroll"
           /\ pc'[r] \in {"invalidate", "ok", "error"}
           /\ pc'[r] = "ok" => InsertEnrollment(r)
           /\ clobbered \subseteq clobbered'
           /\ bumped \subseteq bumped'
           /\ Increment(r) <=> pc[r] = "increment"
<1> USE DEF TypeOK, Goto, Invalidate, locals, db, history
<1>0. pc[r] # "idle" => OpOK(pc[r], req[r].op)
  BY AtStep
<1>1. CASE Save(r)
  BY <1>0, <1>1 DEF Save, Increment, OpOK
<1>2. CASE InsertCourse(r)
  BY <1>0, <1>2 DEF InsertCourse, Increment, OpOK
<1>3. CASE Delete(r)
  BY <1>0, <1>3 DEF Delete, Increment, OpOK
<1>4. CASE Increment(r)
  BY <1>0, <1>4 DEF Increment, OpOK
<1>5. CASE InsertEnrollment(r)
  BY <1>0, <1>5 DEF InsertEnrollment, Increment, OpOK
<1>6. QED BY <1>1, <1>2, <1>3, <1>4, <1>5

\* What a step does to the count of a course
LEMMA CountStep ==
    ASSUME TypeOK, [Next]_vars, NEW c \in CourseIds, courses'[c] # None,
           c \notin clobbered'
    PROVE  \/ /\ courses[c] # None
              /\ courses'[c].enrollmentCount = courses[c].enrollmentCount
              /\ \A q \in bumped' \ bumped : req[q].target # c
           \/ /\ c \in Requests /\ pc[c] = "insertCourse" /\ courses[c] = None
              /\ courses'[c].enrollmentCount = 0 /\ bumped' = bumped
           \/ /\ courses[c] # None
              /\ courses'[c].enrollmentCount = courses[c].enrollmentCount + 1
              /\ \E q \in Requests : /\ pc[q] = "increment" /\ req[q].target = c
                                     /\ bumped' = bumped \cup {q}
<1> USE DEF TypeOK
<1>1. ASSUME NEW r \in Requests, Save(r)
      PROVE  /\ courses[c] # None
             /\ courses'[c].enrollmentCount = courses[c].enrollmentCount
             /\ bumped' = bumped
  <2> DEFINE t == req[r].target
  <2>1. bumped' = bumped /\ t \in CourseIds
    BY <1>1, AtStep DEF Save, OpOK
  <2>2. CASE courses' = courses
    BY <2>1, <2>2
  <2>3. CASE courses' # courses
    <3>1. courses' = [courses EXCEPT ![t] = SavedRow(t, ent[r], old[r])]
      BY <1>1, <2>3 DEF Save
    <3>2. \/ old[r] # None /\ Counts(SavedRow(t, ent[r], old[r])) = Counts(courses[t])
          \/ t \in clobbered'
      BY <1>1, <2>3 DEF Save
    <3>3. CASE t # c
      BY <2>1, <3>1, <3>3
    <3>4. CASE t = c
      <4>1. old[r] # None /\ Counts(courses'[c]) = Counts(courses[c])
        BY <2>1, <3>1, <3>2, <3>4
      <4>2. courses[c] # None
        BY <2>1, <3>1, <3>4, <4>1 DEF SavedRow
      <4>3. QED BY <2>1, <4>1, <4>2 DEF Counts
    <3>5. QED BY <3>3, <3>4
  <2>4. QED BY <2>2, <2>3
<1>2. ASSUME NEW r \in Requests, InsertCourse(r)
      PROVE  \/ courses'[c] = courses[c] /\ bumped' = bumped
             \/ /\ c = r /\ pc[c] = "insertCourse" /\ courses[c] = None
                /\ courses'[c].enrollmentCount = 0 /\ bumped' = bumped
  BY <1>2 DEF InsertCourse, history
<1>3. ASSUME NEW r \in Requests, Delete(r)
      PROVE  courses'[c] = courses[c] /\ bumped' = bumped
  BY <1>3 DEF Delete, history
<1>4. ASSUME NEW r \in Requests, Increment(r)
      PROVE  \/ /\ courses'[c] = courses[c]
                /\ \A q \in bumped' \ bumped : req[q].target # c
             \/ /\ courses[c] # None
                /\ courses'[c].enrollmentCount = courses[c].enrollmentCount + 1
                /\ pc[r] = "increment" /\ req[r].target = c
                /\ bumped' = bumped \cup {r}
  <2> DEFINE t == req[r].target
  <2>1. pc[r] = "increment"
    BY <1>4 DEF Increment
  <2>2. CASE courses[t] = None
    BY <1>4, <2>2 DEF Increment
  <2>3. CASE courses[t] # None /\ t # c
    BY <1>4, <2>3 DEF Increment
  <2>4. CASE courses[t] # None /\ t = c
    <3>1. /\ courses' = [courses EXCEPT ![c].enrollmentCount = Incremented(c)]
          /\ bumped' = bumped \cup {r} /\ courses[c] \in CourseRow
      BY <1>4, <2>4 DEF Increment
    <3>2. courses'[c].enrollmentCount = Incremented(c)
      BY <3>1 DEF CourseRow
    <3>3. QED BY <2>1, <2>4, <3>1, <3>2 DEF Incremented
  <2>5. QED BY <2>2, <2>3, <2>4
<1>5. ASSUME NEW r \in Requests, InsertEnrollment(r)
      PROVE  courses'[c] = courses[c] /\ bumped' = bumped
  BY <1>5 DEF InsertEnrollment, history
<1>6. QED
  BY <1>1, <1>2, <1>3, <1>4, <1>5, StepCases, Arrives, QuietStep

\* Courses that are gone come back by a save only, and are remembered
LEMMA GoneStep ==
    ASSUME TypeOK, [Next]_vars, NEW c \in CourseIds, courses[c] = None
    PROVE  \/ courses'[c] = None \/ c \in clobbered'
           \/ c \in Requests /\ pc[c] = "insertCourse"
BY CountStep

LEMMA HistoryGrows ==
    ASSUME TypeOK, [Next]_vars
    PROVE  clobbered \subseteq clobbered' /\ bumped \subseteq bumped'
BY StepCases, WriterStep, Arrives, QuietStep

----------------------------------------------------------------------------
(* The parts of the invariant *)

LEMMA FreshStep ==
    ASSUME EInv, [Next]_vars
    PROVE  Fresh'
<1> USE DEF EInv
<1> SUFFICES ASSUME NEW c \in Requests, pc'[c] \in {"idle", "insertCourse"}
             PROVE  /\ courses'[c] = None
                    /\ \A r \in Requests : req'[r] # None => req'[r].target # c
  BY DEF Fresh
<1>0. c \in CourseIds /\ c # Sample /\ c \notin ListKeys /\ c # None
  BY DEF CourseIds, Keys
<1>1. ASSUME NEW r \in Requests, Arrival(r)
      PROVE  /\ courses'[c] = None
             /\ \A x \in Requests : req'[x] # None => req'[x].target # c
  <2>1. pc[c] \in {"idle", "insertCourse"}
    BY <1>1, Arrives
  <2>2. c \notin Known
    BY <1>0, <2>1, Asked DEF Known
  <2>3. req'[r].target # c
    BY <1>0, <1>1, <2>2, Arrives
  <2>4. QED BY <1>1, <2>1, <2>3, Arrives DEF Fresh
<1>2. ASSUME NEW r \in Requests, Serve(r) \/ Fail(r)
      PROVE  pc[c] \in {"idle", "insertCourse"} /\ UNCHANGED req
  BY <1>2, WriterStep, QuietStep
<1>3. ASSUME NEW r \in Requests, Serve(r)
      PROVE  courses'[c] = None
  <2>1. /\ courses[c] = None /\ req[r].target # c
        /\ pc[c] \in {"idle", "insertCourse"}
    <3>1. req[r] # None
      BY <1>3, WriterStep, QuietStep, Asked DEF Steps
    <3>2. QED BY <1>2, <1>3, <3>1 DEF Fresh
  <2>2. CASE Save(r) \/ Delete(r) \/ Increment(r)
    <3>1. courses'[c] = courses[c]
      <4>1. CASE Save(r)
        BY <1>0, <2>1, <4>1 DEF Save, TypeOK
      <4>2. CASE Delete(r)
        BY <1>0, <2>1, <4>2 DEF Delete, TypeOK
      <4>3. CASE Increment(r)
        BY <1>0, <2>1, <4>3 DEF Increment, TypeOK
      <4>4. QED BY <2>2, <4>1, <4>2, <4>3
    <3>2. QED BY <2>1, <3>1
  <2>3. CASE InsertCourse(r)
    <3>1. pc'[r] = "invalidate"
      BY <2>3 DEF InsertCourse, Invalidate, Goto, TypeOK
    <3>2. QED BY <2>1, <2>3, <3>1 DEF InsertCourse, TypeOK
  <2>4. CASE InsertEnrollment(r)
    BY <2>1, <2>4 DEF InsertEnrollment
  <2>5. QED BY <1>3, <2>1, <2>2, <2>3, <2>4, QuietStep
<1>4. ASSUME NEW r \in Requests, Fail(r)
      PROVE  courses'[c] = None
  BY <1>2, <1>4 DEF Fresh, Fail, db
<1>5. ASSUME UNCHANGED <<courses, req, pc>>
      PROVE  /\ courses'[c] = None
             /\ \A x \in Requests : req'[x] # None => req'[x].target # c
  BY <1>5 DEF Fresh
<1>6. ASSUME NEW r \in Requests, Serve(r) \/ Fail(r)
      PROVE  /\ courses'[c] = None
             /\ \A x \in Requests : req'[x] # None => req'[x].target # c
  BY <1>2, <1>3, <1>4, <1>6 DEF Fresh
<1>7. QED BY <1>1, <1>5, <1>6, NextCases DEF Expire, vars, db, locals

LEMMA BumpedStep ==
    ASSUME EInv, [Next]_vars
    PROVE  BumpedOK'
<1> USE DEF EInv
<1> SUFFICES ASSUME NEW r \in bumped'
             PROVE  /\ pc'[r] \in {"invalidate", "insertEnrollment", "ok", "error"}
                    /\ req'[r] # None /\ req'[r].op = "enroll"
  BY DEF BumpedOK
<1>1. r \in Requests
  BY NextType DEF TypeOK
<1>2. CASE r \in bumped
  <2>1. /\ pc[r] \in {"invalidate", "insertEnrollment", "ok", "error"}
        /\ req[r] # None /\ req[r].op = "enroll"
    BY <1>2 DEF BumpedOK
  <2>2. req'[r] = req[r]
    BY <1>1, <2>1, Asked
  <2>3. pc'[r] \in {"invalidate", "insertEnrollment", "ok", "error"}
    BY <1>1, <2>1, StepCases, Arrives, WriterStep, QuietStep DEF Steps
  <2>4. QED BY <2>1, <2>2, <2>3
<1>3. CASE r \notin bumped
  <2>1. Increment(r)
    <3>1. ASSUME NEW x \in Requests, Increment(x)
          PROVE  x = r
      BY <1>3, <3>1 DEF Increment
    <3>2. bumped' # bumped
      BY <1>3
    <3>3. QED
      BY <1>1, <3>1, <3>2, StepCases, Arrives, QuietStep
         DEF Save, InsertCourse, Delete, InsertEnrollment, history
  <2>2. pc'[r] = "invalidate"
    BY <1>1, <2>1 DEF Increment, Invalidate, Goto, TypeOK
  <2>3. pc[r] = "increment" /\ UNCHANGED req /\ req[r].op = "enroll"
    BY <1>1, <2>1, WriterStep
  <2>4. req[r] # None
    BY <1>1, <2>3, Asked
  <2>5. QED BY <2>2, <2>3, <2>4
<1>4. QED BY <1>2, <1>3

LEMMA UncountedStep ==
    ASSUME EInv, [Next]_vars
    PROVE  UncountedOK'
<1> USE DEF EInv
<1> SUFFICES ASSUME NEW r \in Requests, Uncounted(r)'
             PROVE  courses'[req'[r].target] = None \/ req'[r].target \in clobbered'
  BY DEF UncountedOK
<1>1. /\ req'[r] # None /\ req'[r].op = "enroll" /\ r \notin bumped'
      /\ pc'[r] \in {"invalidate", "insertEnrollment", "ok"}
  BY DEF Uncounted
<1>2. CASE Increment(r)
  <2>1. UNCHANGED req /\ pc[r] = "increment"
    BY <1>2, WriterStep
  <2>2. courses[req[r].target] = None /\ courses' = courses
    BY <1>1, <1>2 DEF Increment
  <2>3. QED BY <2>1, <2>2
<1>3. CASE ~Increment(r)
  <2>1. ~Arrival(r)
    BY <1>1, Arrives
  <2>2. pc[r] # "idle"
    BY <1>1, <2>1, StepCases, Arrives, WriterStep, QuietStep DEF Steps
  <2>3. req'[r] = req[r]
    BY <2>2, Asked
  <2>4. pc[r] \in {"invalidate", "insertEnrollment", "ok"}
    BY <1>1, <1>3, <2>1, <2>3, StepCases, Arrives, WriterStep, QuietStep
  <2>5. Uncounted(r)
    BY <1>1, <2>3, <2>4, HistoryGrows DEF Uncounted
  <2>6. courses[req[r].target] = None \/ req[r].target \in clobbered
    BY <2>5 DEF UncountedOK
  <2>7. req[r].target \in CourseIds
    BY <1>1, <2>2, <2>3, AtStep
  <2>8. ~(req[r].target \in Requests /\ pc[req[r].target] = "insertCourse")
    BY <1>1, <2>3 DEF Fresh
  <2>9. QED BY <2>3, <2>6, <2>7, <2>8, GoneStep, HistoryGrows
<1>4. QED BY <1>2, <1>3

\* A new row of enrollments is that of the request that answers
LEMMA NewRow ==
    ASSUME TypeOK, [Next]_vars, NEW n \in enrollments' \ enrollments
    PROVE  \E r \in Requests :
             /\ InsertEnrollment(r) /\ ~EnrollmentFails(req[r].user, req[r].target)
             /\ n = [id |-> r, userId |-> req[r].user, courseId |-> req[r].target]
             /\ pc'[r] = "ok"
<1>1. enrollments' # enrollments
  OBVIOUS
<1>2. PICK r \in Requests : InsertEnrollment(r)
  BY <1>1, StepCases, Arrives, QuietStep DEF Save, InsertCourse, Delete, Increment
<1>3. QED BY <1>2 DEF InsertEnrollment, Goto, TypeOK

LEMMA EnrollmentRowsStep ==
    ASSUME EInv, [Next]_vars
    PROVE  RowsOK'
<1> USE DEF EInv
<1> SUFFICES ASSUME NEW n \in enrollments'
             PROVE  /\ pc'[n.id] = "ok" /\ req'[n.id] # None
                    /\ req'[n.id].op = "enroll"
                    /\ n.userId = req'[n.id].user /\ n.courseId = req'[n.id].target
  BY DEF RowsOK
<1>1. CASE n \in enrollments
  <2>1. /\ n.id \in Requests /\ pc[n.id] = "ok" /\ req[n.id] # None
        /\ req[n.id].op = "enroll"
        /\ n.userId = req[n.id].user /\ n.courseId = req[n.id].target
    BY <1>1 DEF RowsOK, TypeOK, Enrollment
  <2>2. req'[n.id] = req[n.id]
    BY <2>1, Asked
  <2>3. pc'[n.id] = "ok"
    BY <2>1, StepCases, Arrives, WriterStep, QuietStep DEF Steps
  <2>4. QED BY <2>1, <2>2, <2>3
<1>2. CASE n \notin enrollments
  <2>1. PICK r \in Requests :
          /\ InsertEnrollment(r)
          /\ n = [id |-> r, userId |-> req[r].user, courseId |-> req[r].target]
          /\ pc'[r] = "ok"
    BY <1>2, NewRow
  <2>2. UNCHANGED req /\ req[r].op = "enroll" /\ req[r] # None
    BY <2>1, WriterStep, Asked DEF InsertEnrollment
  <2>3. QED BY <2>1, <2>2
<1>3. QED BY <1>1, <1>2

\* Who was counted stays so, for the same course
LEMMA CountedStay ==
    ASSUME EInv, [Next]_vars
    PROVE  /\ bumped \subseteq Requests /\ bumped' \subseteq Requests
           /\ bumped \subseteq bumped'
           /\ \A r \in bumped' : req'[r] = req[r]
<1> USE DEF EInv
<1>1. bumped \subseteq Requests /\ bumped' \subseteq Requests /\ bumped \subseteq bumped'
  BY NextType, HistoryGrows DEF TypeOK
<1>2. \A r \in bumped' : req'[r] = req[r]
  <2>1. ASSUME NEW r \in bumped'
        PROVE  ~Arrival(r)
    <3>1. pc'[r] \in {"invalidate", "insertEnrollment", "ok", "error"}
          /\ req'[r].op = "enroll"
      BY BumpedStep DEF BumpedOK
    <3>2. CASE Arrival(r)
      <4>1. r \notin bumped
        BY <1>1, <3>2, Arrives DEF BumpedOK
      <4>2. QED BY <1>1, <3>2, <4>1, Arrives
    <3>3. QED BY <3>2
  <2>2. QED BY <1>1, <2>1, StepCases, Arrives, WriterStep, QuietStep
<1>3. QED BY <1>1, <1>2

LEMMA CountsStep ==
    ASSUME EInv, [Next]_vars
    PROVE  CountsOK'
<1> USE DEF EInv
<1> SUFFICES ASSUME NEW c \in CourseIds, courses'[c] # None, c \notin clobbered'
             PROVE  courses'[c].enrollmentCount =
                      Cardinality({r \in bumped' : req'[r].target = c})
  BY DEF CountsOK, CountOf
<1> DEFINE S == {r \in bumped : req[r].target = c}
           T == {r \in bumped' : req'[r].target = c}
<1>1. bumped \subseteq Requests /\ bumped' \subseteq Requests /\ bumped \subseteq bumped'
  BY CountedStay
<1>2. \A r \in bumped' : req'[r] = req[r]
  BY CountedStay
<1>3. IsFiniteSet(S) /\ IsFiniteSet(T)
  BY <1>1, FS_Subset
<1>4. c \notin clobbered
  BY HistoryGrows
<1>5. CASE /\ courses[c] # None
           /\ courses'[c].enrollmentCount = courses[c].enrollmentCount
           /\ \A q \in bumped' \ bumped : req[q].target # c
  <2>1. S = T
    BY <1>1, <1>2, <1>5
  <2>2. courses[c].enrollmentCount = Cardinality(S)
    BY <1>4, <1>5 DEF CountsOK, CountOf
  <2>3. QED BY <1>5, <2>1, <2>2
<1>6. CASE /\ c \in Requests /\ pc[c] = "insertCourse" /\ courses[c] = None
           /\ courses'[c].enrollmentCount = 0 /\ bumped' = bumped
  <2>1. T = {}
    BY <1>1, <1>2, <1>6 DEF Fresh, BumpedOK
  <2>2. QED BY <1>6, <2>1, FS_EmptySet
<1>7. CASE /\ courses[c] # None
           /\ courses'[c].enrollmentCount = courses[c].enrollmentCount + 1
           /\ \E q \in Requests : /\ pc[q] = "increment" /\ req[q].target = c
                                  /\ bumped' = bumped \cup {q}
  <2>1. PICK q \in Requests : /\ pc[q] = "increment" /\ req[q].target = c
                              /\ bumped' = bumped \cup {q}
    BY <1>7
  <2>2. q \notin bumped
    BY <2>1 DEF BumpedOK
  <2>3. T = S \cup {q} /\ q \notin S
    BY <1>1, <1>2, <2>1, <2>2
  <2>4. courses[c].enrollmentCount = Cardinality(S)
    BY <1>4, <1>7 DEF CountsOK, CountOf
  <2>5. Cardinality(T) = Cardinality(S) + 1
    BY <1>3, <2>3, FS_AddElement
  <2>6. QED BY <1>7, <2>4, <2>5
<1>8. QED BY <1>5, <1>6, <1>7, CountStep

----------------------------------------------------------------------------
(* Counts nobody has reached are nowhere *)

LEMMA CountOfType ==
    ASSUME TypeOK, NEW c
    PROVE  CountOf(c) \in Nat /\ IsFiniteSet({r \in bumped : req[r].target = c})
<1>1. {r \in bumped : req[r].target = c} \subseteq Requests
  BY DEF TypeOK
<1>2. QED BY <1>1, FS_Subset, FS_CardinalityType DEF CountOf

\* CountOf(c) after the step
CountNext(c) == Cardinality({r \in bumped' : req'[r].target = c})

\* A count that was reached once stays reached
LEMMA BelowStays ==
    ASSUME EInv, [Next]_vars, NEW c, NEW n \in Nat, Below(n, c)
    PROVE  n <= CountNext(c)
<1> DEFINE S == {r \in bumped : req[r].target = c}
           T == {r \in bumped' : req'[r].target = c}
<1>1. S \subseteq T
  BY CountedStay
<1>2. IsFiniteSet(T) /\ CountNext(c) \in Nat
  <2>1. T \subseteq Requests
    BY CountedStay
  <2>2. QED BY <2>1, FS_Subset, FS_CardinalityType DEF CountNext
<1>3. Cardinality(S) <= Cardinality(T)
  BY <1>1, <1>2, FS_Subset
<1>4. CountOf(c) \in Nat
  BY CountOfType DEF EInv
<1>5. QED BY <1>2, <1>3, <1>4 DEF Below, CountOf, CountNext

\* A body changes neither the owner nor the count
LEMMA AssignKeeps ==
    ASSUME NEW e \in Entity, NEW dto
    PROVE  /\ Assign(e, dto).row.instructorId = e.row.instructorId
           /\ Assign(e, dto).row.enrollmentCount = e.row.enrollmentCount
<1> DEFINE title == IF dto.title = None THEN e.row.title ELSE dto.title
           status == IF dto.status = None THEN e.row.status ELSE dto.status
           titled == [e EXCEPT !.row.title = title]
<1>1. e.row \in CourseRow /\ DOMAIN e = {"row", "lessons"}
  BY DEF Entity
<1>2. titled.row = [e.row EXCEPT !.title = title] /\ DOMAIN titled = DOMAIN e
  BY <1>1
<1>3. /\ titled.row.instructorId = e.row.instructorId
      /\ titled.row.enrollmentCount = e.row.enrollmentCount
  BY <1>1, <1>2 DEF CourseRow
<1>4. titled.row.status = e.row.status
  BY <1>1, <1>2 DEF CourseRow
<1>5. Assign(e, dto) = [titled EXCEPT !.row.status = status]
  BY <1>4 DEF Assign
<1>6. Assign(e, dto).row = [titled.row EXCEPT !.status = status]
  BY <1>1, <1>2, <1>5
<1>7. QED BY <1>1, <1>2, <1>3, <1>6 DEF CourseRow

LEMMA RowsBelowStep ==
    ASSUME EInv, [Next]_vars
    PROVE  RowsBelow'
<1> USE DEF EInv, BelowInv
<1>1. ASSUME NEW c \in CourseIds, courses'[c] # None
      PROVE  courses'[c].enrollmentCount <= CountNext(c)
  <2>0. courses'[c] \in CourseRow /\ courses'[c].enrollmentCount \in Nat
    <3>1. TypeOK'
      BY NextType
    <3>2. QED BY <1>1, <3>1 DEF TypeOK, CourseRow
  <2>1. CASE courses'[c] = courses[c]
    <3>1. Below(courses'[c].enrollmentCount, c)
      BY <1>1, <2>1 DEF RowsBelow
    <3>2. QED BY <2>0, <3>1, BelowStays
  <2>2. ASSUME NEW r \in Requests, Save(r), courses'[c] # courses[c]
        PROVE  courses'[c].enrollmentCount <= CountNext(c)
    <3> DEFINE e == ent[r]
               o == old[r]
    <3>1. /\ pc[r] = "save" /\ req[r].op = "update" /\ req[r].target \in CourseIds
      BY <2>2, AtStep DEF Save, OpOK
    <3>2. c = req[r].target /\ courses'[c] = SavedRow(c, e, o)
      BY <2>2, <3>1 DEF Save, TypeOK
    <3>3. Below(e.row.enrollmentCount, c)
      BY <3>1, <3>2 DEF EntitiesBelow
    <3>4. Below(courses'[c].enrollmentCount, c)
      <4>1. CASE o = None
        BY <3>2, <3>3, <4>1 DEF SavedRow
      <4>2. CASE o # None
        <5>1. courses[c] # None
          BY <1>1, <3>2, <4>2 DEF SavedRow
        <5>2. courses'[c].enrollmentCount
                \in {e.row.enrollmentCount, courses[c].enrollmentCount}
          BY <3>2, <4>2, <5>1 DEF SavedRow, Changed
        <5>3. QED BY <3>3, <5>1, <5>2 DEF RowsBelow
      <4>3. QED BY <4>1, <4>2
    <3>5. QED BY <2>0, <3>4, BelowStays
  <2>3. ASSUME NEW r \in Requests, InsertCourse(r), courses'[c] # courses[c]
        PROVE  courses'[c].enrollmentCount <= CountNext(c)
    <3>1. courses'[c].enrollmentCount = 0
      BY <2>3 DEF InsertCourse, TypeOK
    <3>2. CountOf(c) \in Nat
      BY CountOfType
    <3>3. Below(0, c)
      BY <3>2 DEF Below
    <3>4. QED BY <3>1, <3>3, BelowStays
  <2>4. ASSUME NEW r \in Requests, Delete(r), courses'[c] # courses[c]
        PROVE  FALSE
    BY <1>1, <2>4 DEF Delete, TypeOK
  <2>5. ASSUME NEW r \in Requests, Increment(r), courses'[c] # courses[c]
        PROVE  courses'[c].enrollmentCount <= CountNext(c)
    <3> DEFINE S == {q \in bumped : req[q].target = c}
               T == {q \in bumped' : req'[q].target = c}
    <3>1. /\ pc[r] = "increment" /\ c = req[r].target
          /\ courses[c] # None /\ courses[c] \in CourseRow
          /\ courses' = [courses EXCEPT ![c].enrollmentCount = Incremented(c)]
          /\ bumped' = bumped \cup {r}
      BY <2>5 DEF Increment, TypeOK
    <3>2. courses'[c].enrollmentCount = courses[c].enrollmentCount + 1
      BY <3>1 DEF CourseRow, TypeOK, Incremented
    <3>3. r \notin bumped
      BY <3>1 DEF BumpedOK
    <3>4. T = S \cup {r} /\ r \notin S
      BY <3>1, <3>3, CountedStay
    <3>5. IsFiniteSet(S) /\ CountOf(c) \in Nat
      BY CountOfType
    <3>6. CountNext(c) = CountOf(c) + 1
      BY <3>4, <3>5, FS_AddElement DEF CountOf, CountNext
    <3>7. /\ courses[c].enrollmentCount <= CountOf(c)
          /\ courses[c].enrollmentCount \in Nat
      BY <3>1 DEF RowsBelow, Below, CourseRow
    <3>8. QED BY <3>2, <3>5, <3>6, <3>7 DEF Below
  <2>6. QED
    BY <2>1, <2>2, <2>3, <2>4, <2>5, StepCases, Arrives, QuietStep
       DEF InsertEnrollment
<1>2. QED BY <1>1 DEF RowsBelow, Below, CountOf, CountNext

LEMMA EntriesBelowStep ==
    ASSUME EInv, [Next]_vars
    PROVE  EntriesBelow'
<1> USE DEF EInv, BelowInv
<1>1. ASSUME NEW c \in CourseIds, cache'[c] # None
      PROVE  Below(cache'[c].row.enrollmentCount, c)
  <2>1. CASE cache'[c] = cache[c]
    BY <1>1, <2>1 DEF EntriesBelow
  <2>2. CASE cache'[c] # cache[c]
    <3>1. ASSUME NEW r \in Requests, Fill(r)
          PROVE  Below(cache'[c].row.enrollmentCount, c)
      <4>1. c = req[r].target /\ cache'[c] = ent[r] /\ pc[r] = "fill"
        BY <2>2, <3>1 DEF Fill, TypeOK
      <4>2. req[r].op # "list"
        BY <4>1, AtStep DEF Keys
      <4>3. QED BY <4>1, <4>2 DEF EntitiesBelow
    <3>2. ASSUME NEW r \in Requests, NEW k \in Keys, Del(r, k)
          PROVE  FALSE
      BY <1>1, <2>2, <3>2 DEF Del, TypeOK
    <3>3. ASSUME NEW k \in Keys, Expire(k)
          PROVE  FALSE
      BY <1>1, <2>2, <3>3 DEF Expire, TypeOK
    <3>4. ASSUME NEW r \in Requests, Serve(r)
          PROVE  Below(cache'[c].row.enrollmentCount, c)
      BY <2>2, <3>1, <3>2, <3>4
         DEF Serve, ReadCourse, ReadList, Scan, Reload, Save, InsertCourse,
             Delete, InsertLesson, FindLesson, ReloadLesson, SaveLesson,
             DeleteLesson, FindEnrollment, Increment, InsertEnrollment
    <3>5. ASSUME NEW r \in Requests, Arrival(r) \/ Fail(r)
          PROVE  FALSE
      BY <2>2, <3>5, ArrivalFrame DEF Fail
    <3>6. QED BY <2>2, <3>3, <3>4, <3>5, NextCases DEF vars
  <2>3. QED BY <2>1, <2>2
<1>2. ASSUME NEW c \in CourseIds, cache'[c] # None
      PROVE  cache'[c].row.enrollmentCount \in Nat
  <2>1. TypeOK'
    BY NextType
  <2>2. cache'[c] \in Entity
    BY <1>2, <2>1 DEF TypeOK, Keys
  <2>3. QED BY <2>2 DEF Entity, CourseRow
<1>3. \A c \in CourseIds : cache'[c] # None => cache'[c].row.enrollmentCount <= CountNext(c)
  BY <1>1, <1>2, BelowStays
<1>4. QED BY <1>3 DEF EntriesBelow, Below, CountOf, CountNext

\* The steps that leave a handler with an entity
LEMMA EntityHolders ==
    ASSUME TypeOK, NEW r \in Requests, Serve(r), ~ReadCourse(r), ~Fill(r), ~Reload(r),
           pc'[r] \in {"fill", "reload", "save"}
    PROVE  req'[r].op = "list"
<1>1. CASE ReadList(r)
  <2>1. req[r].op = "list"
    BY <1>1, AtStep DEF ReadList, CallOK
  <2>2. QED BY <1>1, <2>1 DEF ReadList
<1>2. CASE (\E k \in Keys : Del(r, k)) \/ Scan(r)
  BY <1>2 DEF Del, Scan, Settle, Goto, TypeOK
<1>3. CASE Save(r) \/ InsertCourse(r) \/ Delete(r) \/ InsertLesson(r)
           \/ SaveLesson(r) \/ DeleteLesson(r) \/ Increment(r)
  BY <1>3 DEF Save, InsertCourse, Delete, InsertLesson, SaveLesson,
              DeleteLesson, Increment, Invalidate, Goto, TypeOK
<1>4. CASE FindLesson(r) \/ ReloadLesson(r) \/ FindEnrollment(r)
           \/ InsertEnrollment(r)
  BY <1>4 DEF FindLesson, ReloadLesson, FindEnrollment, InsertEnrollment, Goto,
              TypeOK
<1>5. QED BY <1>1, <1>2, <1>3, <1>4 DEF Serve

LEMMA EntitiesBelowStep ==
    ASSUME EInv, [Next]_vars
    PROVE  EntitiesBelow'
<1> USE DEF EInv, BelowInv
<1>1. ASSUME NEW r \in Requests, pc'[r] \in {"fill", "reload", "save"},
             req'[r].op # "list"
      PROVE  /\ Below(ent'[r].row.enrollmentCount, req'[r].target)
             /\ ent'[r].row.enrollmentCount \in Nat
  <2>0. req'[r].target \in CourseIds /\ ent'[r].row.enrollmentCount \in Nat
    <3>1. TypeOK'
      BY NextType
    <3>2. /\ CallOK(req'[r]) /\ OpOK(pc'[r], req'[r].op)
          /\ ent'[r] \in Entity
      BY <1>1, <3>1 DEF TypeOK, StepOK
    <3>3. req'[r].op # "create"
      BY <1>1, <3>2 DEF OpOK
    <3>4. ent'[r].row.enrollmentCount \in Nat
      BY <3>2 DEF Entity, CourseRow
    <3>5. QED BY <1>1, <3>2, <3>3, <3>4 DEF CallOK, Call, Keys
  <2>1. CASE pc'[r] = pc[r] /\ ent'[r] = ent[r] /\ req'[r] = req[r]
    BY <1>1, <2>0, <2>1 DEF EntitiesBelow
  <2>2. CASE Arrival(r)
    <3>1. /\ cache[req'[r].target] # None /\ req'[r] \in Call
          /\ ent'[r] = Assign(cache[req'[r].target], req'[r].dto)
      BY <1>1, <2>2, ArrivalFrame
    <3>2. cache[req'[r].target] \in Entity
      BY <2>0, <3>1 DEF TypeOK, Keys
    <3>3. ent'[r].row.enrollmentCount = cache[req'[r].target].row.enrollmentCount
      BY <3>1, <3>2, AssignKeeps
    <3>4. QED BY <2>0, <3>1, <3>3 DEF EntriesBelow
  <2>3. CASE ReadCourse(r)
    <3>1. UNCHANGED req /\ ent'[r] = View(req[r].target) /\ pc'[r] # "notFound"
      BY <1>1, <2>3 DEF ReadCourse, Goto, TypeOK
    <3>2. View(req[r].target) # None
      BY <2>3, <3>1 DEF ReadCourse, Goto, TypeOK
    <3>3. ent'[r].row = courses[req[r].target] /\ courses[req[r].target] # None
      BY <3>1, <3>2 DEF View
    <3>4. QED BY <2>0, <3>1, <3>3 DEF RowsBelow
  <2>4. CASE Fill(r)
    <3>1. /\ pc[r] = "fill" /\ UNCHANGED req /\ req[r].op # "list"
          /\ Found(r, req[r], ent[r])
      BY <1>1, <2>4 DEF Fill
    <3>2. ent[r] \in Entity
      BY <3>1, AtStep DEF TypeOK, StepOK, OpOK
    <3>3. pc'[r] = "reload"
      BY <1>1, <3>1 DEF Found, Goto, Continue, TypeOK
    <3>4. ent'[r] = Assign(ent[r], req[r].dto)
      BY <3>1, <3>3 DEF Found, Goto, TypeOK
    <3>5. ent'[r].row.enrollmentCount = ent[r].row.enrollmentCount
      BY <3>2, <3>4, AssignKeeps
    <3>6. QED BY <2>0, <3>1, <3>5 DEF EntitiesBelow
  <2>5. CASE Reload(r)
    BY <1>1, <2>0, <2>5 DEF Reload, EntitiesBelow
  <2>6. ASSUME Serve(r), ~ReadCourse(r), ~Fill(r), ~Reload(r)
        PROVE  FALSE
    BY <1>1, <2>6, EntityHolders
  <2>7. CASE Fail(r)
    BY <1>1, <2>7 DEF Fail, Goto, TypeOK
  <2>8. ASSUME NEW x \in Requests \ {r}, Arrival(x) \/ Serve(x) \/ Fail(x)
        PROVE  pc'[r] = pc[r] /\ ent'[r] = ent[r] /\ req'[r] = req[r]
    <3>1. pc'[r] = pc[r] /\ ent'[r] = ent[r]
      BY <2>8, ArrivalFrame, ServeFrame
    <3>2. QED BY <1>1, <3>1, Asked
  <2>9. ASSUME NEW k \in Keys, Expire(k)
        PROVE  pc'[r] = pc[r] /\ ent'[r] = ent[r] /\ req'[r] = req[r]
    BY <2>9 DEF Expire, locals
  <2>10. QED
    BY <2>0, <2>1, <2>2, <2>3, <2>4, <2>5, <2>6, <2>7, <2>8, <2>9, NextCases
       DEF vars, locals
<1>2. \A r \in Requests :
        pc'[r] \in {"fill", "reload", "save"} /\ req'[r].op # "list" =>
          ent'[r].row.enrollmentCount <= CountNext(req'[r].target)
  BY <1>1, BelowStays
<1>3. QED BY <1>2 DEF EntitiesBelow, Below, CountOf, CountNext

----------------------------------------------------------------------------

LEMMA EInit == Init => EInv
<1> SUFFICES ASSUME Init
             PROVE  EInv
  OBVIOUS
<1>1. TypeOK
  BY InitType
<1>2. Fresh
  BY DEF Init, Fresh, CourseIds
<1>3. BumpedOK /\ UncountedOK /\ RowsOK
  BY DEF Init, BumpedOK, UncountedOK, Uncounted, RowsOK
<1>4. CountsOK /\ BelowInv
  <2>1. ASSUME NEW c \in CourseIds, courses[c] # None
        PROVE  courses[c].enrollmentCount = 0
    BY <2>1 DEF Init
  <2>2. ASSUME NEW c \in CourseIds
        PROVE  CountOf(c) = 0
    <3>1. {r \in bumped : req[r].target = c} = {}
      BY DEF Init
    <3>2. QED BY <3>1, FS_EmptySet DEF CountOf
  <2>3. EntriesBelow /\ EntitiesBelow
    BY DEF Init, EntriesBelow, EntitiesBelow, Keys
  <2>4. QED BY <2>1, <2>2, <2>3 DEF CountsOK, BelowInv, RowsBelow, Below
<1>5. QED BY <1>1, <1>2, <1>3, <1>4 DEF EInv

LEMMA EStep == EInv /\ [Next]_vars => EInv'
BY NextType, FreshStep, BumpedStep, UncountedStep, EnrollmentRowsStep, CountsStep,
   RowsBelowStep, EntriesBelowStep, EntitiesBelowStep
   DEF EInv, BelowInv

LEMMA EImplies == EInv => CountAccounted
<1> SUFFICES ASSUME EInv, NEW c \in CourseIds, courses[c] # None
             PROVE  /\ Below(courses[c].enrollmentCount, c)
                    /\ c \notin clobbered =>
                         /\ courses[c].enrollmentCount = CountOf(c)
                         /\ \A n \in enrollments : n.courseId = c => n.id \in bumped
  BY DEF CountAccounted, Below, CountOf
<1>1. /\ Below(courses[c].enrollmentCount, c)
      /\ c \notin clobbered => courses[c].enrollmentCount = CountOf(c)
  BY DEF EInv, CountsOK, BelowInv, RowsBelow
<1>2. ASSUME c \notin clobbered, NEW n \in enrollments, n.courseId = c
      PROVE  n.id \in bumped
  <2>1. n.id \in Requests
    BY DEF EInv, TypeOK, Enrollment
  <2>2. ~Uncounted(n.id)
    BY <1>2, <2>1 DEF EInv, RowsOK, UncountedOK
  <2>3. QED BY <1>2, <2>2 DEF EInv, RowsOK, Uncounted
<1>3. QED BY <1>1, <1>2

\* The count of a course is the number of increments that reached its row, and
\* who has an enrollment row was counted, in every order and with every
\* failure, except where a save of a stale entity wrote an older count back;
\* and no save ever writes a count that was not reached
THEOREM Counted == Spec => []CountAccounted
<1>1. Init => EInv
  BY EInit
<1>2. EInv /\ [Next]_vars => EInv'
  BY EStep
<1>3. EInv => CountAccounted
  BY EImplies
<1>4. QED BY <1>1, <1>2, <1>3, PTL DEF Spec

----------------------------------------------------------------------------
(* Under the migrated schema, answered enrollments stay *)

CourseOfRow == \A n \in enrollments : courses[n.courseId] # None

KInv == EInv /\ CourseOfRow /\ EnrollmentKept

\* Enrollments are never deleted
LEMMA EnrollmentsStay ==
    ASSUME TypeOK, [Next]_vars
    PROVE  enrollments \subseteq enrollments'
BY StepCases, Arrives, QuietStep
   DEF Save, InsertCourse, Delete, Increment, InsertEnrollment

\* An enrollment is answered "ok" by its INSERT
LEMMA Answered ==
    ASSUME TypeOK, [Next]_vars, NEW r \in Requests, pc'[r] = "ok", pc[r] # "ok",
           req'[r].op = "enroll"
    PROVE  InsertEnrollment(r) /\ req'[r] = req[r]
<1>1. ~Arrival(r)
  BY Arrives
<1>2. CASE Serve(r) \/ Fail(r)
  <2>1. UNCHANGED req
    BY <1>2, WriterStep, QuietStep
  <2>2. CASE (\E k \in Keys : Del(r, k)) \/ Scan(r)
    BY <2>1, <2>2 DEF Del, Scan, Settle, Goto, TypeOK
  <2>3. CASE Fail(r)
    BY <2>3 DEF Fail, Goto, TypeOK
  <2>4. CASE Serve(r) /\ ~((\E k \in Keys : Del(r, k)) \/ Scan(r))
    <3>1. CASE Save(r) \/ InsertCourse(r) \/ Delete(r) \/ Increment(r)
               \/ InsertEnrollment(r)
      BY <2>1, <3>1, WriterStep
    <3>2. ASSUME ~(Save(r) \/ InsertCourse(r) \/ Delete(r) \/ Increment(r)
                   \/ InsertEnrollment(r))
          PROVE  FALSE
      <4>1. pc[r] = "invalidate"
        BY <1>2, <2>1, <3>2, QuietStep
      <4>2. QED
        BY <2>4, <3>2, <4>1
           DEF Serve, ReadCourse, ReadList, Fill, Reload, InsertLesson, FindLesson,
               ReloadLesson, SaveLesson, DeleteLesson, FindEnrollment
    <3>3. QED BY <3>1, <3>2
  <2>5. QED BY <1>2, <2>2, <2>3, <2>4
<1>3. QED
  BY <1>1, <1>2, NextCases, ArrivalFrame, ServeFrame DEF Expire, vars

\* No step takes away a course that somebody is enrolled in
LEMMA CourseStays ==
    ASSUME Migrated, TypeOK, [Next]_vars, NEW n \in enrollments,
           courses[n.courseId] # None
    PROVE  courses'[n.courseId] # None
<1> DEFINE c == n.courseId
<1>0. c \in CourseIds /\ courses[c] \in CourseRow
  BY DEF TypeOK, Enrollment
<1>1. ASSUME NEW r \in Requests, Save(r)
      PROVE  courses'[c] # None
  <2> DEFINE t == req[r].target
             e == ent[r]
             o == old[r]
  <2>1. t \in CourseIds /\ e \in Entity /\ o \in Entity \cup {None}
    BY <1>1, AtStep DEF Save, OpOK, TypeOK, StepOK
  <2>2. CASE courses' = courses
    BY <2>2
  <2>3. CASE courses' # courses /\ c # t
    BY <1>0, <1>1, <2>1, <2>3 DEF Save, TypeOK
  <2>4. CASE courses' # courses /\ c = t
    <3>1. ~SaveFails(t, e, o) /\ courses' = [courses EXCEPT ![t] = SavedRow(t, e, o)]
      BY <1>1, <2>4 DEF Save
    <3>2. o # None
      BY <2>4, <3>1 DEF SaveFails
    <3>3. SavedRow(t, e, o) =
            [title |-> Changed(e.row.title, o.row.title, courses[t].title),
             status |-> Changed(e.row.status, o.row.status, courses[t].status),
             instructorId |-> Changed(e.row.instructorId, o.row.instructorId,
                                      courses[t].instructorId),
             enrollmentCount |-> Changed(e.row.enrollmentCount,
                                         o.row.enrollmentCount,
                                         courses[t].enrollmentCount)]
      BY <2>4, <3>2 DEF SavedRow
    <3>4. e.row \in CourseRow
      BY <2>1 DEF Entity
    <3>5. SavedRow(t, e, o) \in CourseRow
      BY <1>0, <2>4, <3>3, <3>4 DEF CourseRow, Changed
    <3>6. courses'[c] = SavedRow(t, e, o)
      BY <2>1, <2>4, <3>1 DEF TypeOK
    <3>7. QED BY <3>5, <3>6
  <2>5. QED BY <2>2, <2>3, <2>4
<1>2. ASSUME NEW r \in Requests, Delete(r)
      PROVE  courses'[c] # None
  <2>1. req[r].target = c => courses' = courses
    BY <1>2 DEF Delete, RemoveFails
  <2>2. QED BY <1>0, <1>2, <2>1 DEF Delete, TypeOK
<1>3. ASSUME NEW r \in Requests, InsertCourse(r)
      PROVE  courses'[c] # None
  BY <1>0, <1>3 DEF InsertCourse, TypeOK
<1>4. ASSUME NEW r \in Requests, Increment(r)
      PROVE  courses'[c] # None
  <2>1. CASE courses' = courses
    BY <2>1
  <2>2. CASE courses' # courses
    <3>1. courses' = [courses EXCEPT ![req[r].target] =
                        [courses[req[r].target] EXCEPT
                           !.enrollmentCount = Incremented(req[r].target)]]
      BY <1>4, <2>2 DEF Increment
    <3>2. courses[c].enrollmentCount + 1 \in Nat
      BY <1>0 DEF CourseRow
    <3>3. [courses[c] EXCEPT !.enrollmentCount = courses[c].enrollmentCount + 1]
            \in CourseRow
      BY <1>0, <3>2 DEF CourseRow
    <3>4. QED BY <1>0, <3>1, <3>3 DEF Incremented, TypeOK
  <2>3. QED BY <2>1, <2>2
<1>5. QED
  BY <1>1, <1>2, <1>3, <1>4, StepCases, Arrives, QuietStep DEF InsertEnrollment

LEMMA KStep ==
    ASSUME Migrated, KInv, [Next]_vars
    PROVE  KInv'
<1> USE DEF KInv
<1>0. TypeOK /\ EInv'
  BY EStep DEF EInv
<1>1. CourseOfRow'
  <2>1. ASSUME NEW n \in enrollments'
        PROVE  courses'[n.courseId] # None
    <3>1. CASE n \in enrollments
      BY <1>0, <3>1, CourseStays DEF CourseOfRow
    <3>2. CASE n \notin enrollments
      <4>1. PICK r \in Requests :
              /\ InsertEnrollment(r)
              /\ ~EnrollmentFails(req[r].user, req[r].target)
              /\ n = [id |-> r, userId |-> req[r].user, courseId |-> req[r].target]
        BY <1>0, <3>2, NewRow
      <4>2. courses[n.courseId] # None /\ courses' = courses
        BY <4>1 DEF InsertEnrollment, EnrollmentFails
      <4>3. QED BY <4>2
    <3>3. QED BY <3>1, <3>2
  <2>2. QED BY <2>1 DEF CourseOfRow
<1>2. UniqueEnrollment'
  <2>1. ASSUME NEW m \in enrollments' \ enrollments, NEW n \in enrollments',
               m.userId = n.userId, m.courseId = n.courseId
        PROVE  m = n
    <3>1. PICK r \in Requests :
            /\ InsertEnrollment(r)
            /\ ~EnrollmentFails(req[r].user, req[r].target)
            /\ m = [id |-> r, userId |-> req[r].user, courseId |-> req[r].target]
      BY <1>0, NewRow
    <3>2. n \notin enrollments
      BY <2>1, <3>1 DEF EnrollmentFails, Existing
    <3>3. enrollments' = enrollments \cup {m}
      BY <3>1, <3>2 DEF InsertEnrollment
    <3>4. QED BY <3>2, <3>3
  <2>2. QED BY <2>1 DEF EnrollmentKept, UniqueEnrollment
<1>3. ASSUME NEW r \in Requests, pc'[r] = "ok", req'[r].op = "enroll"
      PROVE  \E n \in enrollments' : n.id = r /\ n.courseId = req'[r].target
  <2>1. CASE pc[r] = "ok"
    <3>1. req'[r] = req[r]
      BY <1>0, <2>1, Asked
    <3>2. PICK n \in enrollments : n.id = r /\ n.courseId = req[r].target
      BY <1>3, <2>1, <3>1 DEF EnrollmentKept
    <3>3. n \in enrollments'
      BY <1>0, EnrollmentsStay
    <3>4. QED BY <3>1, <3>2, <3>3
  <2>2. CASE pc[r] # "ok"
    <3>1. InsertEnrollment(r) /\ req'[r] = req[r]
      BY <1>0, <1>3, <2>2, Answered
    <3>2. [id |-> r, userId |-> req[r].user, courseId |-> req[r].target]
            \in enrollments'
      BY <1>0, <1>3, <3>1 DEF InsertEnrollment, Goto, TypeOK
    <3>3. QED BY <3>1, <3>2
  <2>3. QED BY <2>1, <2>2
<1>4. ASSUME NEW r \in Requests, pc'[r] = "ok", req'[r].op = "enroll"
      PROVE  courses'[req'[r].target] # None
  BY <1>1, <1>3, <1>4 DEF CourseOfRow
<1>5. EnrollmentKept'
  BY <1>2, <1>3, <1>4 DEF EnrollmentKept
<1>6. QED BY <1>0, <1>1, <1>5

\* With the migration's constraints an answered enrollment has its row and its
\* course for good, and no user is enrolled twice, whatever overlaps or fails
THEOREM Kept ==
    ASSUME Migrated
    PROVE  Spec => []EnrollmentKept
<1>1. Init => KInv
  <2>1. Init => EInv
    BY EInit
  <2>2. Init => CourseOfRow /\ EnrollmentKept
    BY DEF Init, CourseOfRow, EnrollmentKept, UniqueEnrollment
  <2>3. QED BY <2>1, <2>2 DEF KInv
<1>2. KInv /\ [Next]_vars => KInv'
  BY KStep
<1>3. KInv => EnrollmentKept
  BY DEF KInv
<1>4. QED BY <1>1, <1>2, <1>3, PTL DEF Spec
=============================================================================
