----------------------------- MODULE BoardProofs -----------------------------
(***************************************************************************)
(* The courses service against CourseBoard: who changes a course, and that *)
(* the service without overlap and failures implements the board           *)
(* (Courses.tla, CourseBoard.tla), for all values of the other constants.  *)
(*                                                                         *)
(* Rows, cache entries and entities name the instructor their course was   *)
(* created by, so a handler past the check belongs to the owner or an      *)
(* admin, and a write shows only under the course it was made for.  This   *)
(* holds whatever overlaps.  Where one request is served at a time, what a *)
(* handler read is moreover what the tables hold when it writes.           *)
(***************************************************************************)
EXTENDS EnrollmentProofs

USE ConstantsAssumption, DistinctAssumption

----------------------------------------------------------------------------
(* Who changes a course *)

\* The course was there at start, or was created by this user
IsOwner(u, c) ==
    IF c = Sample THEN u = Instructor ELSE req[c] # None /\ u = req[c].user

\* Rows, cache entries and entities name the user who created the course
RowsOwned ==
    \A c \in CourseIds : courses[c] # None => IsOwner(courses[c].instructorId, c)

EntriesOwned ==
    \A c \in CourseIds : cache[c] # None => IsOwner(cache[c].row.instructorId, c)

EntitiesOwned ==
    \A r \in Requests :
      pc[r] \in {"fill", "reload", "save"} /\ req[r].op # "list" =>
        IsOwner(ent[r].row.instructorId, req[r].target)

\* The steps a handler takes once its user has been found to own the course
Writing == {"reload", "save", "delete", "insertLesson", "findLesson",
            "reloadLesson", "saveLesson", "deleteLesson"}

May(q) == RoleOf[q.user] = "admin" \/ IsOwner(q.user, q.target)

AdmittedOwners == \A r \in Requests : pc[r] \in Writing => May(req[r])

OInv == RowsOwned /\ EntriesOwned /\ EntitiesOwned /\ AdmittedOwners

\* A course keeps its owner
LEMMA OwnerStays ==
    ASSUME TypeOK, [Next]_vars, NEW c \in CourseIds, NEW u, IsOwner(u, c)
    PROVE  IsOwner(u, c)'
BY HomeStable DEF IsOwner, CourseIds

\* Whoever passes the check of findById's caller owns the course or is an admin
LEMMA FoundOwner ==
    ASSUME TypeOK, NEW r \in Requests, NEW q, CallOK(q), q.op \notin {"list", "create"},
           NEW e, IsOwner(e.row.instructorId, q.target), Found(r, q, e)
    PROVE  pc'[r] \in Writing => May(q)
<1> SUFFICES ASSUME pc'[r] \in Writing
             PROVE  May(q)
  OBVIOUS
<1>1. ~Denied(q, e) /\ pc'[r] = Continue(q.op)
  BY DEF Found, Goto, Writing, TypeOK
<1>2. q.op \in OwnerOps
  BY <1>1 DEF Continue, Writing, CallOK, Call, Ops
<1>3. e.row.instructorId = q.user \/ RoleOf[q.user] = "admin"
  BY <1>1, <1>2 DEF Denied
<1>4. QED BY <1>3 DEF May

LEMMA RowsOwnedStep ==
    ASSUME TypeOK, OInv, [Next]_vars
    PROVE  RowsOwned'
<1> USE DEF OInv
<1>1. ASSUME NEW c \in CourseIds, courses'[c] # None
      PROVE  IsOwner(courses'[c].instructorId, c)
  <2>1. CASE courses'[c] = courses[c]
    BY <1>1, <2>1 DEF RowsOwned
  <2>2. ASSUME NEW r \in Requests, Save(r), courses'[c] # courses[c]
        PROVE  IsOwner(courses'[c].instructorId, c)
    <3> DEFINE e == ent[r]
               o == old[r]
    <3>1. /\ pc[r] = "save" /\ req[r].op = "update" /\ req[r].target \in CourseIds
      BY <2>2, AtStep DEF Save, OpOK
    <3>2. c = req[r].target /\ courses'[c] = SavedRow(c, e, o)
      BY <2>2, <3>1 DEF Save, TypeOK
    <3>3. IsOwner(e.row.instructorId, c)
      BY <3>1, <3>2 DEF EntitiesOwned
    <3>4. CASE o = None
      BY <3>2, <3>3, <3>4 DEF SavedRow
    <3>5. CASE o # None
      <4>1. courses[c] # None
        BY <1>1, <3>2, <3>5 DEF SavedRow
      <4>2. courses'[c].instructorId \in {e.row.instructorId, courses[c].instructorId}
        BY <3>2, <3>5, <4>1 DEF SavedRow, Changed
      <4>3. QED BY <3>3, <4>1, <4>2 DEF RowsOwned
    <3>6. QED BY <3>4, <3>5
  <2>3. ASSUME NEW r \in Requests, InsertCourse(r), courses'[c] # courses[c]
        PROVE  IsOwner(courses'[c].instructorId, c)
    <3>1. c = r /\ courses'[c].instructorId = req[r].user
      BY <2>3 DEF InsertCourse, TypeOK
    <3>2. req[r] # None /\ r # Sample
      BY <2>3, Asked DEF InsertCourse
    <3>3. QED BY <3>1, <3>2 DEF IsOwner
  <2>4. ASSUME NEW r \in Requests, Delete(r), courses'[c] # courses[c]
        PROVE  FALSE
    BY <1>1, <2>4 DEF Delete, TypeOK
  <2>5. ASSUME NEW r \in Requests, Increment(r), courses'[c] # courses[c]
        PROVE  IsOwner(courses'[c].instructorId, c)
    <3>1. /\ courses[c] # None /\ courses[c] \in CourseRow
          /\ courses' = [courses EXCEPT ![c].enrollmentCount = Incremented(c)]
      BY <2>5 DEF Increment, TypeOK
    <3>2. courses'[c].instructorId = courses[c].instructorId
      BY <3>1 DEF CourseRow, TypeOK
    <3>3. QED BY <3>1, <3>2 DEF RowsOwned
  <2>6. QED
    BY <2>1, <2>2, <2>3, <2>4, <2>5, StepCases, Arrives, QuietStep
       DEF InsertEnrollment
<1>2. QED BY <1>1, OwnerStays DEF RowsOwned

LEMMA EntriesOwnedStep ==
    ASSUME TypeOK, OInv, [Next]_vars
    PROVE  EntriesOwned'
<1> USE DEF OInv
<1>1. ASSUME NEW c \in CourseIds, cache'[c] # None
      PROVE  IsOwner(cache'[c].row.instructorId, c)
  <2>1. CASE cache'[c] = cache[c]
    BY <1>1, <2>1 DEF EntriesOwned
  <2>2. CASE cache'[c] # cache[c]
    <3>1. ASSUME NEW r \in Requests, Fill(r)
          PROVE  IsOwner(cache'[c].row.instructorId, c)
      <4>1. c = req[r].target /\ cache'[c] = ent[r] /\ pc[r] = "fill"
        BY <2>2, <3>1 DEF Fill, TypeOK
      <4>2. req[r].op # "list"
        BY <4>1, AtStep DEF Keys
      <4>3. QED BY <4>1, <4>2 DEF EntitiesOwned
    <3>2. ASSUME NEW r \in Requests, NEW k \in Keys, Del(r, k)
          PROVE  FALSE
      BY <1>1, <2>2, <3>2 DEF Del, TypeOK
    <3>3. ASSUME NEW k \in Keys, Expire(k)
          PROVE  FALSE
      BY <1>1, <2>2, <3>3 DEF Expire, TypeOK
    <3>4. ASSUME NEW r \in Requests, Serve(r)
          PROVE  IsOwner(cache'[c].row.instructorId, c)
      BY <2>2, <3>1, <3>2, <3>4
         DEF Serve, ReadCourse, ReadList, Scan, Reload, Save, InsertCourse,
             Delete, InsertLesson, FindLesson, ReloadLesson, SaveLesson,
             DeleteLesson, FindEnrollment, Increment, InsertEnrollment
    <3>5. ASSUME NEW r \in Requests, Arrival(r) \/ Fail(r)
          PROVE  FALSE
      BY <2>2, <3>5, ArrivalFrame DEF Fail
    <3>6. QED BY <2>2, <3>3, <3>4, <3>5, NextCases DEF vars
  <2>3. QED BY <2>1, <2>2
<1>2. QED BY <1>1, OwnerStays DEF EntriesOwned

LEMMA EntitiesOwnedStep ==
    ASSUME TypeOK, OInv, [Next]_vars
    PROVE  EntitiesOwned'
<1> USE DEF OInv
<1>1. ASSUME NEW r \in Requests, pc'[r] \in {"fill", "reload", "save"},
             req'[r].op # "list"
      PROVE  /\ IsOwner(ent'[r].row.instructorId, req'[r].target)
             /\ req'[r].target \in CourseIds
  <2>0. req'[r].target \in CourseIds
    <3>1. TypeOK'
      BY NextType
    <3>2. CallOK(req'[r]) /\ OpOK(pc'[r], req'[r].op)
      BY <1>1, <3>1 DEF TypeOK, StepOK
    <3>3. req'[r].op # "create"
      BY <1>1, <3>2 DEF OpOK
    <3>4. QED BY <1>1, <3>2, <3>3 DEF CallOK, Call, Keys
  <2>1. CASE pc'[r] = pc[r] /\ ent'[r] = ent[r] /\ req'[r] = req[r]
    BY <1>1, <2>0, <2>1 DEF EntitiesOwned
  <2>2. CASE Arrival(r)
    <3>1. /\ cache[req'[r].target] # None /\ req'[r] \in Call
          /\ ent'[r] = Assign(cache[req'[r].target], req'[r].dto)
      BY <1>1, <2>2, ArrivalFrame
    <3>2. cache[req'[r].target] \in Entity
      BY <2>0, <3>1 DEF TypeOK, Keys
    <3>3. ent'[r].row.instructorId = cache[req'[r].target].row.instructorId
      BY <3>1, <3>2, AssignKeeps
    <3>4. QED BY <2>0, <3>1, <3>3 DEF EntriesOwned
  <2>3. CASE ReadCourse(r)
    <3>1. UNCHANGED req /\ ent'[r] = View(req[r].target) /\ pc'[r] # "notFound"
      BY <1>1, <2>3 DEF ReadCourse, Goto, TypeOK
    <3>2. View(req[r].target) # None
      BY <2>3, <3>1 DEF ReadCourse, Goto, TypeOK
    <3>3. ent'[r].row = courses[req[r].target] /\ courses[req[r].target] # None
      BY <3>1, <3>2 DEF View
    <3>4. QED BY <2>0, <3>1, <3>3 DEF RowsOwned
  <2>4. CASE Fill(r)
    <3>1. /\ pc[r] = "fill" /\ UNCHANGED req /\ req[r].op # "list"
          /\ Found(r, req[r], ent[r])
      BY <1>1, <2>4 DEF Fill
    <3>2. ent[r] \in Entity
      BY <3>1, AtStep DEF TypeOK, StepOK, OpOK
    <3>3. pc'[r] = "reload"
      BY <1>1, <3>1 DEF Found, Goto, Continue, TypeOK
    <3>4. ent'[r] = Assign(ent[r], req[r].dto)
      BY <3>1, <3>3 DEF Found, Goto, TypeOK
    <3>5. ent'[r].row.instructorId = ent[r].row.instructorId
      BY <3>2, <3>4, AssignKeeps
    <3>6. QED BY <2>0, <3>1, <3>5 DEF EntitiesOwned
  <2>5. CASE Reload(r)
    BY <1>1, <2>0, <2>5 DEF Reload, EntitiesOwned
  <2>6. ASSUME Serve(r), ~ReadCourse(r), ~Fill(r), ~Reload(r)
        PROVE  FALSE
    BY <1>1, <2>6, EntityHolders
  <2>7. CASE Fail(r)
    BY <1>1, <2>7 DEF Fail, Goto, TypeOK
  <2>8. ASSUME NEW x \in Requests \ {r}, Arrival(x) \/ Serve(x) \/ Fail(x)
        PROVE  pc'[r] = pc[r] /\ ent'[r] = ent[r] /\ req'[r] = req[r]
    <3>1. pc'[r] = pc[r] /\ ent'[r] = ent[r]
      BY <2>8, ArrivalFrame, ServeFrame
    <3>2. QED BY <1>1, <3>1, Asked
  <2>9. ASSUME NEW k \in Keys, Expire(k)
        PROVE  pc'[r] = pc[r] /\ ent'[r] = ent[r] /\ req'[r] = req[r]
    BY <2>9 DEF Expire, locals
  <2>10. QED
    BY <2>1, <2>2, <2>3, <2>4, <2>5, <2>6, <2>7, <2>8, <2>9, NextCases
       DEF vars, locals
<1>2. QED BY <1>1, OwnerStays DEF EntitiesOwned

LEMMA AdmittedStep ==
    ASSUME TypeOK, OInv, [Next]_vars
    PROVE  AdmittedOwners'
<1> USE DEF OInv
<1>1. ASSUME NEW r \in Requests, pc'[r] \in Writing
      PROVE  May(req'[r]) /\ req'[r].target \in CourseIds
  <2>0. req'[r].target \in CourseIds
    <3>1. TypeOK'
      BY NextType
    <3>2. CallOK(req'[r]) /\ OpOK(pc'[r], req'[r].op)
      BY <1>1, <3>1 DEF TypeOK, StepOK, Writing
    <3>3. req'[r].op \notin {"create", "list"}
      BY <1>1, <3>2 DEF OpOK, Writing
    <3>4. QED BY <1>1, <3>2, <3>3 DEF CallOK, Call, Keys
  <2>1. CASE pc[r] \in Writing
    <3>1. req'[r] = req[r]
      BY <2>1, Asked DEF Writing
    <3>2. QED BY <2>0, <2>1, <3>1 DEF AdmittedOwners
  <2>2. CASE pc[r] \notin Writing /\ Arrival(r)
    <3>1. ~CreateCourse(r) /\ ~ListCourses(r)
      BY <1>1 DEF CreateCourse, ListCourses, Goto, Writing, TypeOK
    <3>2. PICK q : CallOK(q) /\ q.op \notin {"list", "create"} /\ FindById(r, q)
      BY <2>2, <3>1, ArrivalCall
    <3>3. req'[r] = q
      BY <3>2 DEF FindById, Arrive, TypeOK
    <3>4. cache[q.target] # None /\ Found(r, q, cache[q.target])
      BY <1>1, <3>2 DEF FindById, Goto, Writing, TypeOK
    <3>5. IsOwner(cache[q.target].row.instructorId, q.target)
      BY <2>0, <3>3, <3>4 DEF EntriesOwned
    <3>6. QED BY <1>1, <2>0, <3>2, <3>3, <3>4, <3>5, FoundOwner
  <2>3. CASE pc[r] \notin Writing /\ Serve(r)
    <3>1. CASE Fill(r)
      <4>1. pc[r] = "fill" /\ UNCHANGED req
        BY <3>1 DEF Fill
      <4>2. req[r].op # "list"
        BY <1>1, <3>1 DEF Fill, Goto, Writing, TypeOK
      <4>3. /\ CallOK(req[r]) /\ req[r].op # "create"
            /\ Found(r, req[r], ent[r])
        BY <3>1, <4>1, <4>2, AtStep DEF Fill, OpOK
      <4>4. IsOwner(ent[r].row.instructorId, req[r].target)
        BY <4>1, <4>2 DEF EntitiesOwned
      <4>5. QED BY <1>1, <2>0, <4>1, <4>2, <4>3, <4>4, FoundOwner
    <3>2. CASE ReadCourse(r) \/ ReadList(r)
      BY <1>1, <3>2 DEF ReadCourse, ReadList, Goto, Writing, TypeOK
    <3>3. CASE (\E k \in Keys : Del(r, k)) \/ Scan(r)
      BY <1>1, <3>3 DEF Del, Scan, Settle, Goto, Writing, TypeOK
    <3>4. CASE Save(r) \/ InsertCourse(r) \/ Delete(r) \/ InsertLesson(r)
               \/ SaveLesson(r) \/ DeleteLesson(r) \/ Increment(r)
      BY <1>1, <3>4 DEF Save, InsertCourse, Delete, InsertLesson, SaveLesson,
                        DeleteLesson, Increment, Invalidate, Goto, Writing, TypeOK
    <3>5. CASE FindEnrollment(r) \/ InsertEnrollment(r)
      BY <1>1, <3>5 DEF FindEnrollment, InsertEnrollment, Goto, Writing, TypeOK
    <3>6. CASE Reload(r) \/ FindLesson(r) \/ ReloadLesson(r)
      BY <2>3, <3>6 DEF Reload, FindLesson, ReloadLesson, Writing
    <3>7. QED BY <2>3, <3>1, <3>2, <3>3, <3>4, <3>5, <3>6 DEF Serve
  <2>4. CASE Fail(r)
    BY <1>1, <2>4 DEF Fail, Goto, Writing, TypeOK
  <2>5. ASSUME NEW x \in Requests \ {r}, Arrival(x) \/ Serve(x) \/ Fail(x)
        PROVE  pc'[r] = pc[r]
    BY <2>5, ArrivalFrame, ServeFrame
  <2>6. ASSUME NEW k \in Keys, Expire(k)
        PROVE  pc'[r] = pc[r]
    BY <2>6 DEF Expire
  <2>7. QED
    BY <1>1, <2>1, <2>2, <2>3, <2>4, <2>5, <2>6, NextCases DEF vars
<1>2. QED BY <1>1, OwnerStays DEF AdmittedOwners, May

LEMMA OInit == Init => OInv
BY DEF Init, OInv, RowsOwned, EntriesOwned, EntitiesOwned, AdmittedOwners,
       IsOwner, Writing, Keys

LEMMA OStep == TypeOK /\ OInv /\ [Next]_vars => OInv'
BY RowsOwnedStep, EntriesOwnedStep, EntitiesOwnedStep, AdmittedStep DEF OInv

\* The steps that change what course c shows
LEMMA ViewChanges ==
    ASSUME TypeOK, LessonsStayHome, [Next]_vars, NEW c \in CourseIds,
           courses[c] # None, View(c)' # View(c)
    PROVE  \E r \in Requests :
             /\ req[r].target = c
             /\ \/ Save(r) \/ Delete(r) \/ Increment(r)
                \/ InsertLesson(r) \/ SaveLesson(r) \/ DeleteLesson(r)
<1>1. ASSUME NEW r \in Requests, Serve(r)
      PROVE  /\ req[r].target = c
             /\ \/ Save(r) \/ Delete(r) \/ Increment(r)
                \/ InsertLesson(r) \/ SaveLesson(r) \/ DeleteLesson(r)
  <2>1. CASE \/ ReadCourse(r) \/ ReadList(r) \/ Reload(r) \/ FindLesson(r)
             \/ ReloadLesson(r) \/ FindEnrollment(r) \/ InsertEnrollment(r)
             \/ Fill(r) \/ (\E k \in Keys : Del(r, k)) \/ Scan(r)
    <3>1. UNCHANGED <<courses, lessons>>
      BY <2>1 DEF ReadCourse, ReadList, Reload, FindLesson, ReloadLesson,
                  FindEnrollment, InsertEnrollment, Fill, Del, Scan, db
    <3>2. QED BY <3>1, ViewSame
  <2>2. CASE InsertCourse(r)
    <3>1. c # r /\ courses'[c] = courses[c] /\ UNCHANGED lessons
      BY <2>2 DEF InsertCourse, TypeOK
    <3>2. QED BY <3>1, ViewSame
  <2>3. CASE Save(r)
    BY <2>3, SaveViews
  <2>4. CASE Delete(r)
    <3>1. CASE req[r].target # c
      <4>1. courses'[c] = courses[c]
        BY <2>4, <3>1 DEF Delete, TypeOK
      <4>2. \A l \in LessonIds :
              \/ lessons'[l] = lessons[l]
              \/ /\ lessons[l] = None \/ lessons[l].courseId # c
                 /\ lessons'[l] = None \/ lessons'[l].courseId # c
        BY <2>4, <3>1 DEF Delete
      <4>3. QED BY <4>1, <4>2, ViewSame
    <3>2. QED BY <2>4, <3>1
  <2>5. CASE Increment(r)
    <3>1. CASE req[r].target # c
      <4>1. courses'[c] = courses[c] /\ UNCHANGED lessons
        BY <2>5, <3>1 DEF Increment, TypeOK
      <4>2. QED BY <4>1, ViewSame
    <3>2. QED BY <2>5, <3>1
  <2>6. CASE InsertLesson(r) \/ SaveLesson(r) \/ DeleteLesson(r)
    BY <2>6, LessonViews
  <2>7. QED BY <1>1, <2>1, <2>2, <2>3, <2>4, <2>5, <2>6 DEF Serve
<1>2. ASSUME NEW r \in Requests, Arrival(r) \/ Fail(r)
      PROVE  FALSE
  <2>1. UNCHANGED <<courses, lessons>>
    BY <1>2, ArrivalFrame DEF Fail, db
  <2>2. QED BY <2>1, ViewSame
<1>3. ASSUME NEW k \in Keys, Expire(k)
      PROVE  FALSE
  BY <1>3, ViewSame DEF Expire, db
<1>4. ASSUME UNCHANGED vars
      PROVE  FALSE
  BY <1>4, ViewSame DEF vars, db
<1>5. QED BY <1>1, <1>2, <1>3, <1>4, NextCases

\* Whoever changes a course other than in its count is its instructor or an
\* admin, however long ago and on whatever entry that was checked
LEMMA ChangedByOwner ==
    ASSUME TypeOK, LessonsStayHome, OInv, [Next]_vars, NEW c \in CourseIds,
           courses[c] # None, View(c)' # View(c)
    PROVE  \E r \in Requests :
             /\ pc'[r] # pc[r]
             /\ \/ MayChange(r, c)
                \/ /\ req[r].op = "enroll" /\ req[r].target = c
                   /\ courses'[c] = [courses[c] EXCEPT !.enrollmentCount = @ + 1]
<1>1. PICK r \in Requests :
        /\ req[r].target = c
        /\ \/ Save(r) \/ Delete(r) \/ Increment(r)
           \/ InsertLesson(r) \/ SaveLesson(r) \/ DeleteLesson(r)
  BY ViewChanges
<1>2. pc'[r] # pc[r]
  BY <1>1 DEF Save, Delete, Increment, InsertLesson, SaveLesson, DeleteLesson,
              Invalidate, Goto, TypeOK
<1>3. CASE Increment(r)
  <2>1. pc[r] = "increment" /\ req[r].op = "enroll"
    BY <1>3, AtStep DEF Increment, OpOK
  <2>2. courses' = [courses EXCEPT ![c].enrollmentCount = Incremented(c)]
    BY <1>1, <1>3 DEF Increment
  <2>3. courses'[c] = [courses[c] EXCEPT !.enrollmentCount = @ + 1]
    BY <2>2 DEF TypeOK, Incremented
  <2>4. QED BY <1>1, <1>2, <2>1, <2>3
<1>4. CASE Save(r) \/ Delete(r) \/ InsertLesson(r) \/ SaveLesson(r) \/ DeleteLesson(r)
  <2>1. pc[r] \in Writing /\ pc[r] # "idle"
    BY <1>4 DEF Save, Delete, InsertLesson, SaveLesson, DeleteLesson, Writing
  <2>2. req[r] # None /\ req[r].op \in OwnerOps
    <3>1. pc[r] \in {"save", "delete", "insertLesson", "saveLesson", "deleteLesson"}
      BY <1>4 DEF Save, Delete, InsertLesson, SaveLesson, DeleteLesson
    <3>2. QED BY <2>1, <3>1, AtStep, Asked DEF OpOK, OwnerOps
  <2>3. RoleOf[req[r].user] = "admin" \/ IsOwner(req[r].user, c)
    BY <1>1, <2>1 DEF OInv, AdmittedOwners, May
  <2>4. IsOwner(courses[c].instructorId, c)
    BY DEF OInv, RowsOwned
  <2>5. MayChange(r, c)
    BY <1>1, <2>2, <2>3, <2>4 DEF MayChange, IsOwner
  <2>6. QED BY <1>2, <2>5
<1>5. QED BY <1>1, <1>3, <1>4

\* A course and its lessons change only in a step of a request by its
\* instructor or an admin, whatever is cached, saved or removed meanwhile
THEOREM OwnersChange == Spec => OnlyOwnersChange
<1>1. Init => OInv
  BY OInit
<1>2. TypeOK /\ OInv /\ [Next]_vars => OInv'
  BY OStep
<1>3. TypeOK /\ LessonsStayHome /\ OInv /\ [Next]_vars =>
        [\A c \in CourseIds :
           courses[c] # None /\ View(c)' # View(c) =>
             \E r \in Requests :
               /\ pc'[r] # pc[r]
               /\ \/ MayChange(r, c)
                  \/ /\ req[r].op = "enroll" /\ req[r].target = c
                     /\ courses'[c] = [courses[c] EXCEPT !.enrollmentCount = @ + 1]]_vars
  BY ChangedByOwner
<1>4. QED
  BY <1>1, <1>2, <1>3, TypeCorrect, LessonsHome, PTL DEF Spec, OnlyOwnersChange
----------------------------------------------------------------------------
(* One request at a time *)

\* No overlap, no failures, and the migration's foreign keys
Serial == MaxInFlight = 1 /\ ~MayFail /\ Migrated

Alone == \A r, s \in InFlight : r = s

\* Clients send the bodies of Patches, and pass the guard of POST
ClientsOK ==
    \A r \in Requests :
      /\ req[r] # None /\ req[r].op = "update" => req[r].dto \in Patches
      /\ pc[r] = "insertCourse" => RoleOf[req[r].user] \in {"instructor", "admin"}

\* Who was counted has its enrollment row, or is about to insert it
RowOf(r) == [id |-> r, userId |-> req[r].user, courseId |-> req[r].target]

Recorded ==
    \A r \in bumped : \/ pc[r] \in {"invalidate", "insertEnrollment"}
                      \/ RowOf(r) \in enrollments

\* The steps before a write to the tables
Checked == Writing \cup {"findEnrollment", "increment"}

\* What the handler of r read is what the tables hold
Held(r) ==
    LET c == req[r].target
        l == req[r].lesson
    IN  /\ pc[r] = "fill" => ent[r] = Current(c)
        /\ pc[r] \in Checked => courses[c] # None
        /\ pc[r] \in {"reload", "save"} => ent[r] = Assign(View(c), req[r].dto)
        /\ pc[r] = "save" => old[r] = View(c)
        /\ pc[r] \in {"reloadLesson", "saveLesson", "deleteLesson"} => IsLessonOf(l, c)
        /\ pc[r] = "saveLesson" => old[r] = lessons[l]
        /\ pc[r] \in {"findEnrollment", "increment"} => courses[c].status = "published"
        /\ pc[r] = "increment" => ~Existing(req[r].user, c)
        /\ req[r].op = "enroll" /\ pc[r] \in {"invalidate", "insertEnrollment"} =>
             courses[c] # None /\ ~Existing(req[r].user, c)

AllHeld == \A r \in InFlight : Held(r)

SInv == /\ Alone /\ raced = {} /\ clobbered = {}
        /\ ClientsOK /\ Recorded /\ AllHeld

----------------------------------------------------------------------------
(* Who is being served *)

LEMMA StepTypes == \A step \in Steps : step # "idle" /\ step \notin Answers
BY DEF Steps, Answers

\* A request that is served is in flight
LEMMA Serving ==
    ASSUME TypeOK, NEW r \in Requests, Serve(r)
    PROVE  pc[r] \in Steps
<1>1. CASE (\E k \in Keys : Del(r, k)) \/ Scan(r)
  BY <1>1 DEF Del, Scan, TypeOK, StepOK, Steps
<1>2. CASE \/ ReadCourse(r) \/ ReadList(r) \/ Fill(r) \/ Reload(r) \/ Save(r)
           \/ InsertCourse(r) \/ Delete(r) \/ InsertLesson(r)
  BY <1>2 DEF ReadCourse, ReadList, Fill, Reload, Save, InsertCourse, Delete,
              InsertLesson, Steps
<1>3. CASE \/ FindLesson(r) \/ ReloadLesson(r) \/ SaveLesson(r) \/ DeleteLesson(r)
           \/ FindEnrollment(r) \/ Increment(r) \/ InsertEnrollment(r)
  BY <1>3 DEF FindLesson, ReloadLesson, SaveLesson, DeleteLesson,
              FindEnrollment, Increment, InsertEnrollment, Steps
<1>4. QED BY <1>1, <1>2, <1>3 DEF Serve

\* A request arrives when no other is being served
LEMMA ArrivesAlone ==
    ASSUME Serial, TypeOK, NEW r \in Requests, Arrival(r)
    PROVE  \A x \in Requests : pc[x] \notin Steps
<1>1. PICK q : Arrive(r, q)
  BY DEF Arrival, GetCourse, UpdateCourse, RemoveCourse, CreateCourse,
         AddLesson, UpdateLesson, RemoveLesson, Enroll, ListCourses, FindById
<1>2. IsFiniteSet(InFlight)
  BY FS_Subset DEF InFlight
<1>3. Cardinality(InFlight) = 0
  BY <1>1, <1>2, FS_CardinalityType DEF Arrive, Serial
<1>4. InFlight = {}
  BY <1>2, <1>3, FS_EmptySet
<1>5. QED BY <1>4 DEF InFlight

\* ... and while it is served no other moves
LEMMA OthersRest ==
    ASSUME Serial, TypeOK, Alone, NEW r \in Requests, Arrival(r) \/ Serve(r)
    PROVE  \A x \in Requests \ {r} : /\ pc[x] \notin Steps /\ pc'[x] \notin Steps
                                     /\ pc'[x] = pc[x]
<1>1. CASE Arrival(r)
  BY <1>1, ArrivesAlone, ArrivalFrame
<1>2. CASE Serve(r)
  BY <1>2, Serving, ServeFrame DEF Alone, InFlight
<1>3. QED BY <1>1, <1>2

\* The steps there are: nothing fails
LEMMA SerialCases ==
    ASSUME Serial, [Next]_vars
    PROVE  \/ \E r \in Requests : Arrival(r)
           \/ \E r \in Requests : Serve(r)
           \/ \E k \in Keys : Expire(k)
           \/ UNCHANGED vars
BY NextCases DEF Fail, Serial

LEMMA AloneStep ==
    ASSUME Serial, TypeOK, Alone, [Next]_vars
    PROVE  Alone'
<1>1. ASSUME NEW r \in Requests, Arrival(r) \/ Serve(r)
      PROVE  Alone'
  BY <1>1, OthersRest DEF Alone, InFlight
<1>2. ASSUME UNCHANGED pc
      PROVE  Alone'
  BY <1>2 DEF Alone, InFlight
<1>3. QED BY <1>1, <1>2, SerialCases DEF Expire, vars

\* Between requests the cache holds what the tables hold
LEMMA EntryCurrent ==
    ASSUME TypeOK, CacheCoherent, raced = {},
           \A x \in Requests : pc[x] \notin Steps,
           NEW k \in Keys, cache[k] # None
    PROVE  cache[k] = Current(k)
<1>1. \A x \in Requests : pend[x] = {}
  BY DEF TypeOK, StepOK, Steps
<1>2. QED BY <1>1 DEF CacheCoherent, Owed
----------------------------------------------------------------------------
(* What clients send, and what was counted *)

LEMMA ClientsStep ==
    ASSUME TypeOK, ClientsOK, [Next]_vars
    PROVE  ClientsOK'
<1>1. ASSUME NEW r \in Requests, Arrival(r)
      PROVE  /\ req'[r].op = "update" => req'[r].dto \in Patches
             /\ pc'[r] = "insertCourse" =>
                  RoleOf[req'[r].user] \in {"instructor", "admin"}
  <2> USE DEF TypeOK, Arrive, Goto
  <2>1. CASE CreateCourse(r)
    BY <2>1 DEF CreateCourse, On
  <2>2. CASE ListCourses(r)
    BY <2>2 DEF ListCourses, On
  <2>3. ASSUME NEW q, FindById(r, q)
        PROVE  req'[r] = q /\ pc'[r] # "insertCourse"
    BY <2>3 DEF FindById, Found, Continue
  <2>4. CASE UpdateCourse(r)
    <3>1. PICK u \in Users, c \in Known, dto \in Patches :
            FindById(r, [On("update", u, c) EXCEPT !.dto = dto])
      BY <2>4 DEF UpdateCourse
    <3>2. req'[r].dto = dto /\ pc'[r] # "insertCourse"
      BY <2>3, <3>1 DEF On
    <3>3. QED BY <3>2
  <2>5. CASE ~(CreateCourse(r) \/ ListCourses(r) \/ UpdateCourse(r))
    <3>1. \A u, c, l, t :
            /\ On("get", u, c).op = "get" /\ On("remove", u, c).op = "remove"
            /\ On("enroll", u, c).op = "enroll"
            /\ [On("addLesson", u, c) EXCEPT !.dto.title = t].op = "addLesson"
            /\ [On("updateLesson", u, c) EXCEPT !.lesson = l, !.dto.title = t].op
                 = "updateLesson"
            /\ [On("removeLesson", u, c) EXCEPT !.lesson = l].op = "removeLesson"
      BY DEF On
    <3>2. PICK q : FindById(r, q) /\ q.op # "update"
      <4> HIDE DEF TypeOK, Arrive, Goto
      <4> QED
        BY <1>1, <2>5, <3>1 DEF Arrival, GetCourse, RemoveCourse, Enroll,
           AddLesson, UpdateLesson, RemoveLesson
    <3>3. QED BY <2>3, <3>2
  <2>6. QED BY <2>1, <2>2, <2>4, <2>5
<1>2. ASSUME NEW r \in Requests, Arrival(r)
      PROVE  ClientsOK'
  BY <1>1, <1>2, Arrives DEF ClientsOK
<1>3. ASSUME NEW r \in Requests, Serve(r) \/ Fail(r)
      PROVE  ClientsOK'
  BY <1>3, WriterStep, QuietStep DEF ClientsOK
<1>4. QED
  BY <1>2, <1>3, NextCases DEF ClientsOK, Expire, vars, locals

\* Rows of enrollments are not deleted, and one is inserted after each
\* increment: without failures by the request that counted
LEMMA RecordedStep ==
    ASSUME Serial, TypeOK, BumpedOK, Recorded, AllHeld, [Next]_vars
    PROVE  Recorded'
<1>1. ASSUME NEW r \in bumped
      PROVE  req'[r] = req[r]
  BY <1>1, Asked DEF BumpedOK, TypeOK
<1>2. enrollments \subseteq enrollments'
  BY EnrollmentsStay
<1>3. ASSUME NEW x \in Requests, InsertEnrollment(x)
      PROVE  RowOf(x) \in enrollments'
  <2>1. /\ pc[x] = "insertEnrollment" /\ req[x].op = "enroll"
        /\ x \in InFlight
    BY <1>3, WriterStep DEF InsertEnrollment, InFlight, Steps
  <2>2. courses[req[x].target] # None /\ ~Existing(req[x].user, req[x].target)
    BY <2>1 DEF AllHeld, Held
  <2>3. QED BY <1>3, <2>2 DEF InsertEnrollment, EnrollmentFails, RowOf
<1>4. ASSUME NEW r \in bumped, pc'[r] \notin {"invalidate", "insertEnrollment"},
             pc[r] \in {"invalidate", "insertEnrollment"}
      PROVE  InsertEnrollment(r)
  <2>1. r \in Requests /\ req[r].op = "enroll" /\ pc'[r] # pc[r]
    BY <1>4 DEF TypeOK, BumpedOK
  <2>2. Serve(r)
    BY <1>4, <2>1, SerialCases, Arrives, ServeFrame DEF Expire, vars
  <2>3. CASE (\E k \in Keys : Del(r, k)) \/ Scan(r)
    BY <1>4, <2>1, <2>3 DEF Del, Scan, Settle, Goto, TypeOK
  <2>4. QED
    BY <1>4, <2>2, <2>3 DEF Serve, ReadCourse, ReadList, Fill, Reload, Save,
       InsertCourse, Delete, InsertLesson, FindLesson, ReloadLesson, SaveLesson,
       DeleteLesson, FindEnrollment, Increment
<1>5. ASSUME NEW r \in bumped' \ bumped
      PROVE  pc'[r] = "invalidate"
  <2>1. PICK x \in Requests : Increment(x)
    BY <1>5, StepCases, Arrives, QuietStep
       DEF Save, InsertCourse, Delete, InsertEnrollment, history
  <2>2. r = x
    BY <1>5, <2>1 DEF Increment
  <2>3. QED BY <2>1, <2>2 DEF Increment, Invalidate, Goto, TypeOK
<1>6. ASSUME NEW r \in bumped, pc'[r] \notin {"invalidate", "insertEnrollment"}
      PROVE  RowOf(r)' \in enrollments'
  <2>1. CASE pc[r] \in {"invalidate", "insertEnrollment"}
    BY <1>1, <1>3, <1>4, <1>6, <2>1 DEF TypeOK, RowOf
  <2>2. CASE RowOf(r) \in enrollments
    BY <1>1, <1>2, <2>2 DEF RowOf
  <2>3. QED BY <2>1, <2>2 DEF Recorded
<1>7. QED BY <1>5, <1>6 DEF Recorded
----------------------------------------------------------------------------
(* What a handler read is what the tables hold *)

\* findById has returned the course as it is
LEMMA FoundHeld ==
    ASSUME TypeOK, NEW r \in Requests, NEW q, CallOK(q),
           q.op \notin {"list", "create"}, q.target \in CourseIds,
           courses[q.target] # None, Found(r, q, View(q.target)), req'[r] = q,
           UNCHANGED <<courses, lessons, enrollments>>
    PROVE  Held(r)'
<1> DEFINE c == q.target
<1>1. /\ View(c)' = View(c) /\ courses'[c] # None
      /\ View(c).row = courses[c]
  BY ViewSame DEF View
<1>2. CASE Denied(q, View(c))
  BY <1>2 DEF Found, Goto, Held, Checked, Writing, TypeOK
<1>3. CASE ~Denied(q, View(c))
  <2>1. pc'[r] = Continue(q.op)
    BY <1>3 DEF Found, Goto, TypeOK
  <2>2. pc'[r] \in {"ok", "reload", "delete", "insertLesson", "findEnrollment",
                    "findLesson"}
    BY <2>1 DEF Continue
  <2>3. pc'[r] = "reload" => ent'[r] = Assign(View(c), q.dto)
    BY <1>3, <2>1 DEF Found, TypeOK
  <2>4. pc'[r] = "findEnrollment" => courses'[c].status = "published"
    <3>1. pc'[r] = "findEnrollment" => q.op = "enroll"
      BY <2>1 DEF Continue, CallOK, Call, Ops, OwnerOps
    <3>2. QED BY <1>1, <1>3, <3>1 DEF Denied
  <2>5. QED BY <1>1, <2>2, <2>3, <2>4 DEF Held
<1>4. QED BY <1>2, <1>3

LEMMA HeldArrival ==
    ASSUME Serial, TypeOK, CacheCoherent, raced = {}, NEW r \in Requests, Arrival(r)
    PROVE  Held(r)'
<1>1. CASE CreateCourse(r) \/ ListCourses(r)
  <2>1. pc'[r] \in {"insertCourse", "forbidden", "ok", "read"}
    BY <1>1 DEF CreateCourse, ListCourses, Goto, TypeOK
  <2>2. QED BY <2>1 DEF Held, Checked, Writing
<1>2. CASE ~CreateCourse(r) /\ ~ListCourses(r)
  <2>1. PICK q : CallOK(q) /\ q.op \notin {"list", "create"} /\ FindById(r, q)
    BY <1>2, ArrivalCall
  <2>2. /\ q.target \in CourseIds /\ q.target \notin ListKeys
        /\ req'[r] = q /\ UNCHANGED <<courses, lessons, enrollments>>
    BY <2>1 DEF CallOK, Call, Keys, FindById, Arrive, db, TypeOK
  <2>3. CASE cache[q.target] # None /\ Found(r, q, cache[q.target])
    <3>1. cache[q.target] = View(q.target)
      BY <2>2, <2>3, ArrivesAlone, EntryCurrent DEF Current, Keys
    <3>2. courses[q.target] # None
      BY <2>3, <3>1 DEF View
    <3>3. QED BY <2>1, <2>2, <2>3, <3>1, <3>2, FoundHeld
  <2>4. CASE Goto(r, "read")
    BY <2>4 DEF Goto, Held, Checked, Writing, TypeOK
  <2>5. QED BY <2>1, <2>3, <2>4 DEF FindById
<1>3. QED BY <1>1, <1>2

\* The queries that lead to a write
LEMMA HeldQuery ==
    ASSUME TypeOK, NEW r \in Requests, Held(r),
           \/ ReadCourse(r) \/ ReadList(r) \/ Fill(r) \/ Reload(r) \/ FindLesson(r)
           \/ ReloadLesson(r) \/ FindEnrollment(r)
    PROVE  Held(r)'
<1> DEFINE c == req[r].target
<1>0. /\ UNCHANGED <<courses, lessons, enrollments, req>>
      /\ pc[r] # "idle" /\ pc[r] # "invalidate"
  BY DEF ReadCourse, ReadList, Fill, Reload, FindLesson, ReloadLesson,
         FindEnrollment, db, locals
<1>1. c \in Keys => Current(c)' = Current(c)
  BY <1>0, CurrentSame
<1>2. c \in CourseIds => View(c)' = View(c)
  BY <1>0, ViewSame
<1>3. CASE ReadCourse(r)
  <2>1. pc'[r] \in {"fill", "notFound"} /\ ent'[r] = View(c)
    BY <1>3 DEF ReadCourse, Goto, TypeOK
  <2>2. c \in Keys /\ Current(c) = View(c)
    BY <1>3 DEF ReadCourse, Current, Keys
  <2>3. QED BY <1>0, <1>1, <2>1, <2>2 DEF Held, Checked, Writing
<1>4. CASE ReadList(r)
  <2>1. pc'[r] = "fill" /\ ent'[r] = List(c)
    BY <1>4 DEF ReadList, Goto, TypeOK
  <2>2. c \in Keys /\ Current(c) = List(c)
    BY <1>4 DEF ReadList, Current, Keys
  <2>3. QED BY <1>0, <1>1, <2>1, <2>2 DEF Held, Checked, Writing
<1>5. CASE Fill(r)
  <2>1. CASE req[r].op = "list"
    BY <1>5, <2>1 DEF Fill, Goto, Held, Checked, Writing, TypeOK
  <2>2. CASE req[r].op # "list"
    <3>1. /\ pc[r] = "fill" /\ Found(r, req[r], ent[r])
          /\ CallOK(req[r]) /\ req[r].op # "create"
      BY <1>5, <2>2, AtStep DEF Fill, OpOK
    <3>2. c \in CourseIds /\ ent[r] \in Entity
      BY <2>2, <3>1, AtStep DEF TypeOK, StepOK
    <3>3. ent[r] = View(c) /\ courses[c] # None
      BY <3>1, <3>2 DEF Held, Current, View
    <3>4. QED BY <1>0, <2>2, <3>1, <3>2, <3>3, FoundHeld
  <2>3. QED BY <2>1, <2>2
<1>6. CASE Reload(r)
  <2>1. /\ pc[r] = "reload" /\ pc'[r] = "save" /\ UNCHANGED ent
        /\ old'[r] = View(c)
    BY <1>6 DEF Reload, Goto, TypeOK
  <2>2. c \in CourseIds
    BY <1>6, AtStep DEF Reload, OpOK
  <2>3. QED BY <1>0, <1>2, <2>1, <2>2 DEF Held, Checked, Writing
<1>7. CASE FindLesson(r)
  <2>1. /\ pc[r] = "findLesson"
        /\ pc'[r] \in {"notFound", "reloadLesson", "deleteLesson"}
        /\ pc'[r] # "notFound" => IsLessonOf(req[r].lesson, c)
    BY <1>7 DEF FindLesson, Goto, TypeOK
  <2>2. QED BY <1>0, <2>1 DEF Held, Checked, Writing, IsLessonOf
<1>8. CASE ReloadLesson(r)
  <2>1. /\ pc[r] = "reloadLesson" /\ pc'[r] = "saveLesson"
        /\ old'[r] = lessons[req[r].lesson]
    BY <1>8 DEF ReloadLesson, Goto, TypeOK
  <2>2. QED BY <1>0, <2>1 DEF Held, Checked, Writing, IsLessonOf
<1>9. CASE FindEnrollment(r)
  <2>1. /\ pc[r] = "findEnrollment" /\ pc'[r] \in {"conflict", "increment"}
        /\ pc'[r] = "increment" => ~Existing(req[r].user, c)
    BY <1>9 DEF FindEnrollment, Goto, TypeOK
  <2>2. QED BY <1>0, <2>1 DEF Held, Checked, Writing, Existing
<1>10. QED BY <1>3, <1>4, <1>5, <1>6, <1>7, <1>8, <1>9

\* After the write
LEMMA HeldWrite ==
    ASSUME TypeOK, NEW r \in Requests, Held(r), Serve(r),
           ~(\/ ReadCourse(r) \/ ReadList(r) \/ Fill(r) \/ Reload(r) \/ FindLesson(r)
             \/ ReloadLesson(r) \/ FindEnrollment(r))
    PROVE  Held(r)'
<1>1. CASE (\E k \in Keys : Del(r, k)) \/ Scan(r)
  <2>1. /\ pc[r] = "invalidate" /\ UNCHANGED <<courses, enrollments, req>>
        /\ pc'[r] \in {"invalidate", "insertEnrollment", "ok"}
    BY <1>1 DEF Del, Scan, Settle, Goto, db, locals, TypeOK, StepOK
  <2>2. QED BY <2>1 DEF Held, Checked, Writing, Existing
<1>2. CASE Increment(r)
  <2>1. /\ pc[r] = "increment" /\ UNCHANGED <<req, enrollments>>
        /\ pc'[r] = "invalidate" /\ ~Existing(req[r].user, req[r].target)
        /\ courses[req[r].target] # None /\ req[r].target \in CourseIds
    BY <1>2, AtStep
       DEF Increment, Held, Checked, Invalidate, Goto, locals, OpOK, TypeOK
  <2>2. courses'[req[r].target] # None
    <3>1. courses' = [courses EXCEPT ![req[r].target].enrollmentCount
                                       = Incremented(req[r].target)]
      BY <1>2, <2>1 DEF Increment
    <3>2. courses[req[r].target] \in CourseRow
      BY <2>1 DEF TypeOK
    <3>3. courses'[req[r].target] \in CourseRow
      BY <2>1, <3>1, <3>2 DEF CourseRow, Incremented, TypeOK
    <3>4. QED BY <3>3
  <2>3. QED BY <2>1, <2>2 DEF Held, Checked, Writing, Existing
<1>3. CASE InsertEnrollment(r)
  BY <1>3 DEF InsertEnrollment, Goto, Held, Checked, Writing, TypeOK
<1>4. CASE \/ Save(r) \/ InsertCourse(r) \/ Delete(r) \/ InsertLesson(r)
           \/ SaveLesson(r) \/ DeleteLesson(r)
  <2>1. /\ UNCHANGED req /\ req[r].op # "enroll"
        /\ pc'[r] \in {"invalidate", "error"}
    BY <1>4, AtStep
       DEF Save, InsertCourse, Delete, InsertLesson, SaveLesson, DeleteLesson,
           Invalidate, Goto, locals, OpOK, TypeOK
  <2>2. QED BY <2>1 DEF Held, Checked, Writing
<1>5. QED BY <1>1, <1>2, <1>3, <1>4 DEF Serve

LEMMA HeldStep ==
    ASSUME Serial, TypeOK, CacheCoherent, SInv, [Next]_vars
    PROVE  AllHeld'
<1> USE DEF SInv
<1>1. ASSUME NEW r \in Requests, Arrival(r) \/ Serve(r)
      PROVE  AllHeld'
  <2>1. Held(r)'
    <3>1. CASE Arrival(r)
      BY <3>1, HeldArrival
    <3>2. CASE Serve(r)
      <4>1. Held(r)
        BY <3>2, Serving DEF AllHeld, InFlight
      <4>2. QED BY <3>2, <4>1, HeldQuery, HeldWrite
    <3>3. QED BY <1>1, <3>1, <3>2
  <2>2. \A x \in Requests \ {r} : pc'[x] \notin Steps
    BY <1>1, OthersRest
  <2>3. QED BY <2>1, <2>2 DEF AllHeld, InFlight
<1>2. ASSUME UNCHANGED <<db, locals, pc>>
      PROVE  AllHeld'
  <2>1. ASSUME NEW r \in InFlight
        PROVE  Held(r)'
    <3>1. Held(r) /\ r \in Requests /\ pc[r] # "idle"
      BY <2>1, StepTypes DEF AllHeld, InFlight
    <3>2. /\ \A k \in Keys : Current(k)' = Current(k)
          /\ \A c \in CourseIds : View(c)' = View(c)
      BY <1>2, CurrentSame, ViewSame DEF db
    <3>3. /\ pc[r] = "fill" => req[r].target \in Keys
          /\ pc[r] \in {"reload", "save"} => req[r].target \in CourseIds
      BY <3>1, AtStep DEF OpOK, Keys
    <3>4. QED
      BY <1>2, <3>1, <3>2, <3>3
         DEF Held, Checked, Writing, IsLessonOf, Existing, db, locals
  <2>2. QED BY <1>2, <2>1 DEF AllHeld, InFlight
<1>3. QED BY <1>1, <1>2, SerialCases DEF Expire, vars

\* Object.assign, field by field
LEMMA AssignFields ==
    ASSUME NEW e \in Entity, NEW dto
    PROVE  /\ Assign(e, dto).lessons = e.lessons
           /\ Assign(e, dto).row =
                [title |-> IF dto.title = None THEN e.row.title ELSE dto.title,
                 status |-> IF dto.status = None THEN e.row.status ELSE dto.status,
                 instructorId |-> e.row.instructorId,
                 enrollmentCount |-> e.row.enrollmentCount]
<1> DEFINE title == IF dto.title = None THEN e.row.title ELSE dto.title
           status == IF dto.status = None THEN e.row.status ELSE dto.status
           titled == [e EXCEPT !.row.title = title]
<1>1. e.row \in CourseRow /\ DOMAIN e = {"row", "lessons"}
  BY DEF Entity
<1>2. /\ titled.row = [e.row EXCEPT !.title = title] /\ DOMAIN titled = DOMAIN e
      /\ titled.lessons = e.lessons
  BY <1>1
<1>3. titled.row = [title |-> title, status |-> e.row.status,
                    instructorId |-> e.row.instructorId,
                    enrollmentCount |-> e.row.enrollmentCount]
  BY <1>1, <1>2 DEF CourseRow
<1>4. Assign(e, dto) = [titled EXCEPT !.row.status = status]
  BY <1>3 DEF Assign
<1>5. /\ Assign(e, dto).row = [titled.row EXCEPT !.status = status]
      /\ Assign(e, dto).lessons = titled.lessons
  BY <1>1, <1>2, <1>4
<1> HIDE DEF title, status, titled
<1>6. [titled.row EXCEPT !.status = status]
        = [title |-> title, status |-> status,
           instructorId |-> e.row.instructorId,
           enrollmentCount |-> e.row.enrollmentCount]
  BY <1>3
<1>7. QED BY <1>2, <1>5, <1>6 DEF title, status

\* A save of what the tables hold, with the body assigned, writes no count
LEMMA SaveHeld ==
    ASSUME TypeOK, NEW r \in Requests, Held(r), Save(r),
           NEW c, c = req[r].target, NEW dto, dto = req[r].dto
    PROVE  /\ pc[r] = "save" /\ req[r].op = "update" /\ c \in CourseIds
           /\ courses[c] # None /\ old[r] = View(c) /\ old[r] \in Entity
           /\ ent[r] = Assign(old[r], dto) /\ ent[r].lessons = old[r].lessons
           /\ Added(ent[r], old[r]) = {} /\ ~SaveFails(c, ent[r], old[r])
           /\ SavedRow(c, ent[r], old[r]) = ent[r].row
           /\ ent[r].row.enrollmentCount = courses[c].enrollmentCount
<1> DEFINE e == ent[r]
           o == old[r]
<1>1. /\ pc[r] = "save" /\ req[r].op = "update" /\ c \in CourseIds
  BY AtStep DEF Save, OpOK
<1>2. /\ courses[c] # None /\ o = View(c) /\ e = Assign(o, dto)
      /\ o.row = courses[c] /\ courses[c] \in CourseRow
  BY <1>1 DEF Held, Checked, Writing, View, TypeOK
<1>3. o \in Entity
  BY <1>1, <1>2, ViewEntity
<1>4. /\ e.lessons = o.lessons
      /\ e.row = [title |-> e.row.title, status |-> e.row.status,
                  instructorId |-> o.row.instructorId,
                  enrollmentCount |-> o.row.enrollmentCount]
  <2> DEFINE row == Assign(o, dto).row
  <2>1. row = [title |-> IF dto.title = None THEN o.row.title ELSE dto.title,
               status |-> IF dto.status = None THEN o.row.status ELSE dto.status,
               instructorId |-> o.row.instructorId,
               enrollmentCount |-> o.row.enrollmentCount]
    BY <1>3, AssignFields
  <2> HIDE DEF row
  <2>2. row = [title |-> row.title, status |-> row.status,
               instructorId |-> o.row.instructorId,
               enrollmentCount |-> o.row.enrollmentCount]
    BY <2>1
  <2>3. e.row = row
    BY <1>2 DEF row
  <2>4. Assign(o, dto).lessons = o.lessons
    BY <1>3, AssignFields
  <2>5. QED BY <1>2, <2>2, <2>3, <2>4
<1>5. Added(e, o) = {} /\ Dropped(e, o) = {}
  BY <1>3, <1>4 DEF Added, Dropped
<1>6. ~SaveFails(c, e, o)
  BY <1>2, <1>3, <1>5 DEF SaveFails
<1>7. SavedRow(c, e, o) = e.row
  <2>1. /\ e.row.instructorId = courses[c].instructorId
        /\ e.row.enrollmentCount = courses[c].enrollmentCount
    BY <1>2, <1>4
  <2>2. SavedRow(c, e, o) = [title |-> e.row.title, status |-> e.row.status,
                             instructorId |-> courses[c].instructorId,
                             enrollmentCount |-> courses[c].enrollmentCount]
    BY <1>2, <1>3, <2>1 DEF SavedRow, Changed
  <2>3. QED BY <1>2, <1>4, <2>2
<1>8. e.row.enrollmentCount = courses[c].enrollmentCount
  BY <1>2, <1>4
<1>9. QED BY <1>1, <1>2, <1>3, <1>4, <1>5, <1>6, <1>7, <1>8

\* No entry is stored stale, no count is written back
LEMMA RacedStep ==
    ASSUME Serial, TypeOK, SInv, [Next]_vars
    PROVE  raced' = {} /\ clobbered' = {}
<1> USE DEF SInv
<1>1. ASSUME NEW r \in Requests, Fill(r)
      PROVE  raced' = {}
  <2>1. ent[r] = Current(req[r].target)
    BY <1>1 DEF Fill, AllHeld, Held, InFlight, Steps
  <2>2. QED BY <1>1, <2>1 DEF Fill
<1>2. ASSUME NEW r \in Requests, Save(r)
      PROVE  clobbered' = {}
  <2> PICK c, dto : c = req[r].target /\ dto = req[r].dto
    OBVIOUS
  <2>1. Held(r)
    BY <1>2 DEF Save, AllHeld, InFlight, Steps
  <2>2. /\ old[r] \in Entity /\ courses[c] # None /\ c \in CourseIds
        /\ SavedRow(c, ent[r], old[r]) = ent[r].row
        /\ ent[r].row.enrollmentCount = courses[c].enrollmentCount
        /\ ~SaveFails(c, ent[r], old[r])
    BY <1>2, <2>1, SaveHeld
  <2>3. ent[r].row # None
    BY <1>2, AtStep DEF Save, TypeOK, StepOK, Entity
  <2>4. Counts(SavedRow(c, ent[r], old[r])) = Counts(courses[c])
    BY <2>2, <2>3 DEF Counts
  <2>5. old[r] # None
    BY <2>2
  <2>6. QED BY <1>2, <2>2, <2>4, <2>5 DEF Save
<1>3. ASSUME NEW r \in Requests, Serve(r)
      PROVE  raced' = {} /\ clobbered' = {}
  BY <1>1, <1>2, <1>3
     DEF Serve, ReadCourse, ReadList, Fill, Del, Scan, Reload, Save, InsertCourse,
         Delete, InsertLesson, FindLesson, ReloadLesson, SaveLesson,
         DeleteLesson, FindEnrollment, Increment, InsertEnrollment, history
<1>4. ASSUME NEW r \in Requests, Arrival(r)
      PROVE  raced' = {} /\ clobbered' = {}
  BY <1>4, ArrivalFrame, Arrives
<1>5. QED BY <1>3, <1>4, SerialCases DEF Expire, vars, history

LEMMA SInit == Init => SInv
BY DEF Init, SInv, Alone, ClientsOK, Recorded, AllHeld, InFlight, Steps

LEMMA SStep ==
    ASSUME Serial, TypeOK, CacheCoherent, BumpedOK, SInv, [Next]_vars
    PROVE  SInv'
BY AloneStep, RacedStep, ClientsStep, RecordedStep, HeldStep DEF SInv
----------------------------------------------------------------------------
(* The writes, as steps of the board *)

Shown    == [c \in CourseIds |-> View(c)]
Enrolled == {<<req[r].user, req[r].target>> : r \in bumped}

Replaced(f, c, e) == [f EXCEPT ![c] = e]

\* A write of one course
LEMMA ShownStep ==
    ASSUME NEW c \in CourseIds, \A d \in CourseIds \ {c} : View(d)' = View(d)
    PROVE  Shown' = Replaced(Shown, c, View(c)')
BY DEF Shown, Replaced

LEMMA ShownSame ==
    ASSUME \A c \in CourseIds : View(c)' = View(c)
    PROVE  Shown' = Shown
BY DEF Shown

LEMMA EnrolledSame ==
    ASSUME TypeOK, BumpedOK, [Next]_vars, UNCHANGED bumped
    PROVE  Enrolled' = Enrolled
<1>1. \A r \in bumped : req'[r] = req[r]
  BY Asked DEF BumpedOK, TypeOK
<1>2. QED BY <1>1 DEF Enrolled

\* Whoever writes owns the course, or is an admin
LEMMA WriterOwns ==
    ASSUME TypeOK, OInv, NEW r \in Requests, pc[r] \in Writing,
           req[r].target \in CourseIds, courses[req[r].target] # None
    PROVE  /\ req[r].user \in Users
           /\ \/ View(req[r].target).row.instructorId = req[r].user
              \/ RoleOf[req[r].user] = "admin"
<1> DEFINE c == req[r].target
<1>1. CallOK(req[r]) /\ OpOK(pc[r], req[r].op) /\ pc[r] # "idle"
  BY AtStep DEF Writing
<1>2. req[r].user \in Users
  BY <1>1 DEF OpOK, CallOK, Writing
<1>3. May(req[r]) /\ IsOwner(courses[c].instructorId, c)
  BY DEF OInv, AdmittedOwners, RowsOwned
<1>4. View(c).row = courses[c]
  BY DEF View
<1>5. QED BY <1>2, <1>3, <1>4 DEF May, IsOwner

\* Object.assign on one entity of a board
Patched(f, c, dto) ==
    [f EXCEPT ![c].row.title  = IF dto.title = None THEN @ ELSE dto.title,
              ![c].row.status = IF dto.status = None THEN @ ELSE dto.status]

LEMMA PatchedBoard ==
    ASSUME NEW f \in [CourseIds -> Entity \cup {None}], NEW c \in CourseIds,
           f[c] \in Entity, NEW dto
    PROVE  Patched(f, c, dto) = Replaced(f, c, Assign(f[c], dto))
<1> DEFINE e == f[c]
           title == IF dto.title = None THEN e.row.title ELSE dto.title
           status == IF dto.status = None THEN e.row.status ELSE dto.status
           titled == [e EXCEPT !.row.title = title]
           g == [f EXCEPT ![c].row.title = title]
           new == [titled EXCEPT !.row.status = status]
<1>1. g = [f EXCEPT ![c] = titled] /\ g[c] = titled
  OBVIOUS
<1>2. titled.row.status = e.row.status
  BY DEF Entity, CourseRow
<1>3. Assign(e, dto) = new
  BY <1>2 DEF Assign
<1>4. [g EXCEPT ![c].row.status = status] = [g EXCEPT ![c] = new]
  <2> HIDE DEF g, titled, status
  <2>1. QED BY <1>1
<1>5. [g EXCEPT ![c] = new] = [f EXCEPT ![c] = new]
  <2> HIDE DEF new, titled
  <2>1. QED BY <1>1
<1>6. QED
  <2>1. [g EXCEPT ![c].row.status = status] = [f EXCEPT ![c] = Assign(e, dto)]
    <3> HIDE DEF new, g, e, status
    <3>1. QED BY <1>3, <1>4, <1>5
  <2>2. QED BY <1>1, <1>2, <2>1 DEF Patched, Replaced

LEMMA PatchStep ==
    ASSUME TypeOK, BumpedOK, LessonsStayHome, OInv, ClientsOK, [Next]_vars,
           NEW r \in Requests, Held(r), Save(r),
           NEW c, c = req[r].target, NEW dto, dto = req[r].dto
    PROVE  /\ req[r].user \in Users /\ c \in CourseIds /\ dto \in Patches
           /\ Board!Patch(req[r].user, c, dto)
<1> DEFINE e == ent[r]
           o == old[r]
<1>1. /\ pc[r] = "save" /\ req[r].op = "update" /\ c \in CourseIds
      /\ req[r] # None
  BY SaveHeld, Asked
<1>2. /\ courses[c] # None /\ o = View(c) /\ e = Assign(o, dto)
  BY SaveHeld
<1>3. o \in Entity
  BY SaveHeld
<1>4. e.lessons = o.lessons
  BY SaveHeld
<1>5. Added(e, o) = {}
  BY SaveHeld
<1>6. /\ courses' = [courses EXCEPT ![c] = SavedRow(c, e, o)]
      /\ lessons' = [l \in LessonIds |-> SavedLesson(c, e, o, l)]
  BY SaveHeld DEF Save
<1>7. SavedRow(c, e, o) = e.row
  BY SaveHeld
<1>8. lessons' = lessons
  <2>1. ASSUME NEW l \in LessonIds
        PROVE  SavedLesson(c, e, o, l) = lessons[l]
    <3>1. CASE e.lessons[l] = None \/ lessons[l] = None
      BY <1>5, <3>1 DEF SavedLesson
    <3>2. CASE e.lessons[l] # None /\ lessons[l] # None
      <4>1. o.lessons[l] = IF lessons[l].courseId = c THEN lessons[l].title
                           ELSE None
        BY <1>2, <3>2 DEF View
      <4>2. /\ lessons[l] \in LessonRow /\ lessons[l].courseId = c
            /\ e.lessons[l] = lessons[l].title /\ o.lessons[l] = e.lessons[l]
        BY <1>4, <3>2, <4>1 DEF TypeOK
      <4>3. QED
        BY <1>5, <3>2, <4>2 DEF SavedLesson, Changed, LessonRow
    <3>3. QED BY <3>1, <3>2
  <2>2. QED BY <1>6, <2>1 DEF TypeOK
<1>9. View(c)' = Assign(View(c), dto)
  <2>1. courses'[c] = e.row /\ e.row # None
    <3>1. e.row \in CourseRow
      <4>1. dto \in Dto
        BY <1>1, AtStep DEF Call
      <4>2. QED BY <1>2, <1>3, <4>1, AssignType DEF Entity
    <3>2. QED BY <1>1, <1>6, <1>7, <3>1 DEF TypeOK
  <2>2. e = [row |-> e.row, lessons |-> o.lessons]
    <3>1. dto \in Dto
      BY <1>1, AtStep DEF Call
    <3>2. QED BY <1>2, <1>3, <1>4, <3>1, AssignType DEF Entity
  <2>3. View(c)' = [row |-> e.row, lessons |-> o.lessons]
    BY <1>2, <1>8, <2>1 DEF View
  <2>4. QED BY <1>2, <2>2, <2>3
<1>10. Shown' = Replaced(Shown, c, Assign(Shown[c], dto))
  BY <1>1, <1>9, SaveViews, ShownStep DEF Shown
<1>11. Shown \in [CourseIds -> Entity \cup {None}] /\ Shown[c] \in Entity
  BY <1>1, <1>2, <1>3, ViewType DEF Shown
<1>12. Shown' = Patched(Shown, c, dto)
  BY <1>1, <1>10, <1>11, PatchedBoard
<1>13. Enrolled' = Enrolled
  BY EnrolledSame DEF Save
<1>14. dto \in Patches
  BY <1>1 DEF ClientsOK
<1>15. Board!Owns(req[r].user, c) /\ req[r].user \in Users
  BY <1>1, <1>2, WriterOwns DEF Board!Owns, Writing
<1>16. Shown[c] # None
  BY <1>11
<1>17. QED
  BY <1>1, <1>12, <1>13, <1>14, <1>15, <1>16 DEF Board!Patch, Patched, Shown, Enrolled

\* POST inserts a blank draft: nobody added a lesson to it before
LEMMA CreateStep ==
    ASSUME TypeOK, Fresh, BumpedOK, LessonsStayHome, ClientsOK, [Next]_vars,
           NEW r \in Requests, InsertCourse(r)
    PROVE  /\ req[r].user \in Users /\ r \in CourseIds /\ req[r].dto.title \in Titles
           /\ Board!Create(req[r].user, r, req[r].dto.title)
<1>1. /\ pc[r] = "insertCourse" /\ req[r].op = "create" /\ courses[r] = None
      /\ r \in CourseIds /\ CallOK(req[r])
  BY AtStep DEF InsertCourse, OpOK, CourseIds
<1>2. /\ req[r].user \in Users /\ req[r].dto.title \in Titles
      /\ RoleOf[req[r].user] \in {"instructor", "admin"}
  BY <1>1 DEF CallOK, ClientsOK
<1> DEFINE row == [title |-> req[r].dto.title, status |-> "draft",
                   instructorId |-> req[r].user, enrollmentCount |-> 0]
<1>3. /\ courses' = [courses EXCEPT ![r] = row] /\ UNCHANGED lessons
      /\ courses'[r] = row /\ row \in CourseRow
  BY <1>1, <1>2 DEF InsertCourse, TypeOK, CourseRow, Statuses
<1>4. \A l \in LessonIds : lessons[l] = None \/ lessons[l].courseId # r
  <2>1. ASSUME NEW l \in LessonIds, lessons[l] # None, lessons[l].courseId = r
        PROVE  FALSE
    <3>1. InHome(l, r)
      BY <2>1 DEF LessonsStayHome, RowsAtHome
    <3>2. l \in Requests /\ req[l] # None /\ req[l].target = r
      BY <3>1 DEF InHome, LessonIds
    <3>3. QED BY <1>1, <3>2 DEF Fresh
  <2>2. QED BY <2>1
<1>5. View(r)' = [row |-> row, lessons |-> Board!Blank]
  <2>1. [l \in LessonIds |-> IF lessons'[l] # None /\ lessons'[l].courseId = r
                             THEN lessons'[l].title ELSE None] = Board!Blank
    BY <1>3, <1>4 DEF Board!Blank, Board!LessonIds, LessonIds
  <2>2. courses'[r] # None
    BY <1>3
  <2>3. QED BY <1>3, <2>1, <2>2 DEF View
<1>6. \A d \in CourseIds \ {r} : View(d)' = View(d)
  BY <1>1, <1>3, ViewSame DEF TypeOK
<1>7. Shown' = Replaced(Shown, r, [row |-> row, lessons |-> Board!Blank])
  BY <1>1, <1>5, <1>6, ShownStep
<1>8. Enrolled' = Enrolled
  BY EnrolledSame DEF InsertCourse, history
<1>9. Shown[r] = None
  BY <1>1 DEF Shown, View
<1>10. QED
  BY <1>1, <1>2, <1>7, <1>8, <1>9 DEF Board!Create, Replaced, Shown, Enrolled

\* DELETE removes the course, or fails because somebody is enrolled
LEMMA RemoveStep ==
    ASSUME Serial, TypeOK, BumpedOK, OInv, Alone, Recorded, [Next]_vars,
           NEW r \in Requests, Held(r), Delete(r), NEW c, c = req[r].target
    PROVE  \/ Shown' = Shown /\ Enrolled' = Enrolled
           \/ /\ req[r].user \in Users /\ c \in CourseIds
              /\ Board!Remove(req[r].user, c)
<1>1. /\ pc[r] = "delete" /\ c \in CourseIds /\ courses[c] # None
      /\ r \in InFlight
  BY AtStep DEF Delete, OpOK, Held, Checked, Writing, InFlight, Steps
<1>2. Enrolled' = Enrolled
  BY EnrolledSame DEF Delete, history
<1>3. CASE RemoveFails(c)
  <2>1. UNCHANGED <<courses, lessons>>
    BY <1>3 DEF Delete
  <2>2. QED BY <1>2, <2>1, ViewSame, ShownSame
<1>4. CASE ~RemoveFails(c)
  <2>1. /\ courses' = [courses EXCEPT ![c] = None]
        /\ lessons' = [l \in LessonIds |->
                         IF lessons[l] # None /\ lessons[l].courseId = c
                         THEN None ELSE lessons[l]]
    BY <1>4 DEF Delete
  <2>2. View(c)' = None
    BY <1>1, <2>1 DEF View, TypeOK
  <2>3. \A d \in CourseIds \ {c} : View(d)' = View(d)
    BY <2>1, ViewSame DEF TypeOK
  <2>4. Shown' = Replaced(Shown, c, None)
    BY <1>1, <2>2, <2>3, ShownStep
  <2>5. \A e \in Enrolled : e[2] # c
    <3>1. ASSUME NEW q \in bumped, req[q].target = c
          PROVE  FALSE
      <4>1. q \in Requests /\ q # r
        BY <1>1 DEF TypeOK, BumpedOK
      <4>2. pc[q] \notin {"invalidate", "insertEnrollment"}
        BY <1>1, <4>1 DEF Alone, InFlight, Steps
      <4>3. Existing(req[q].user, c)
        BY <3>1, <4>2 DEF Recorded, RowOf, Existing
      <4>4. QED BY <1>4, <4>3 DEF Existing, RemoveFails, Serial
    <3>2. QED BY <3>1 DEF Enrolled
  <2>6. /\ Board!Owns(req[r].user, c) /\ req[r].user \in Users
        /\ Shown[c] # None
    <3>1. View(c) # None
      BY <1>1, ViewEntity
    <3>2. QED
      BY <1>1, <3>1, WriterOwns DEF Board!Owns, Writing, Shown
  <2>7. QED
    BY <1>1, <1>2, <2>4, <2>5, <2>6 DEF Board!Remove, Replaced, Shown, Enrolled
<1>5. QED BY <1>3, <1>4

\* The board with lesson l of course c set to t
WithLesson(f, c, l, t) == [f EXCEPT ![c].lessons[l] = t]

LEMMA LessonShown ==
    ASSUME TypeOK, NEW c \in CourseIds, courses[c] # None, UNCHANGED courses,
           NEW l \in LessonIds, \A m \in LessonIds \ {l} : lessons'[m] = lessons[m],
           lessons[l] = None \/ lessons[l].courseId = c,
           NEW t,
           \/ lessons'[l] = None /\ t = None
           \/ lessons'[l] # None /\ lessons'[l].courseId = c /\ lessons'[l].title = t
    PROVE  Shown' = WithLesson(Shown, c, l, t)
<1> DEFINE now == [m \in LessonIds |-> IF lessons[m] # None /\ lessons[m].courseId = c
                                       THEN lessons[m].title ELSE None]
           new == [m \in LessonIds |->
                     IF lessons'[m] # None /\ lessons'[m].courseId = c
                     THEN lessons'[m].title ELSE None]
<1>1. new = [now EXCEPT ![l] = t]
  OBVIOUS
<1>2. View(c) = [row |-> courses[c], lessons |-> now]
  BY DEF View
<1>3. View(c)' = [row |-> courses[c], lessons |-> new]
  BY DEF View
<1> HIDE DEF now, new
<1>4. View(c)' = [View(c) EXCEPT !.lessons[l] = t]
  BY <1>1, <1>2, <1>3
<1>5. \A d \in CourseIds \ {c} : View(d)' = View(d)
  BY ViewSame
<1>6. Shown' = Replaced(Shown, c, View(c)')
  BY <1>5, ShownStep
<1>7. Shown[c] = View(c)
  BY DEF Shown
<1>8. QED BY <1>4, <1>6, <1>7 DEF Replaced, WithLesson

\* A lesson request sets one lesson of its course
LEMMA LessonStep ==
    ASSUME TypeOK, BumpedOK, OInv, [Next]_vars, NEW r \in Requests, Held(r),
           InsertLesson(r) \/ SaveLesson(r) \/ DeleteLesson(r),
           NEW c, c = req[r].target
    PROVE  \E l \in LessonIds, t \in Titles \cup {None} :
             /\ req[r].user \in Users /\ c \in CourseIds
             /\ Board!SetLesson(req[r].user, c, l, t)
<1>1. /\ pc[r] \in {"insertLesson", "saveLesson", "deleteLesson"}
      /\ c \in CourseIds /\ courses[c] # None /\ UNCHANGED <<courses, bumped>>
      /\ CallOK(req[r]) /\ OpOK(pc[r], req[r].op)
  BY AtStep DEF InsertLesson, SaveLesson, DeleteLesson, OpOK, Held, Checked,
                Writing, history
<1>2. \E l \in LessonIds, t \in Titles \cup {None} :
        Shown' = WithLesson(Shown, c, l, t)
  <2>1. CASE InsertLesson(r)
    <3> DEFINE t == req[r].dto.title
    <3>1. r \in LessonIds /\ t \in Titles /\ lessons[r] = None
      BY <1>1, <2>1 DEF InsertLesson, LessonIds, OpOK, CallOK
    <3>2. lessons' = [lessons EXCEPT ![r] = [courseId |-> c, title |-> t]]
      BY <1>1, <2>1 DEF InsertLesson
    <3>3. lessons'[r] = [courseId |-> c, title |-> t] /\ lessons'[r] \in LessonRow
      BY <1>1, <3>1, <3>2 DEF TypeOK, LessonRow
    <3>4. \A m \in LessonIds \ {r} : lessons'[m] = lessons[m]
      BY <3>2 DEF TypeOK
    <3> HIDE DEF t
    <3>5. Shown' = WithLesson(Shown, c, r, t)
      BY <1>1, <3>1, <3>3, <3>4, LessonShown
    <3>6. QED BY <3>1, <3>5
  <2>2. CASE SaveLesson(r)
    <3> DEFINE t == req[r].dto.title
               l == req[r].lesson
    <3>1. /\ l \in LessonIds /\ t \in Titles /\ lessons[l] \in LessonRow
          /\ lessons[l].courseId = c /\ old[r] = lessons[l] /\ old[r] # None
      BY <1>1, <2>2
         DEF SaveLesson, OpOK, CallOK, Held, IsLessonOf, TypeOK
    <3>2. lessons' = [lessons EXCEPT ![l] =
                        [courseId |-> lessons[l].courseId,
                         title |-> Changed(t, old[r].title, lessons[l].title)]]
      BY <2>2, <3>1 DEF SaveLesson
    <3>3. lessons'[l] = [courseId |-> c, title |-> t] /\ lessons'[l] \in LessonRow
      BY <1>1, <3>1, <3>2 DEF TypeOK, LessonRow, Changed
    <3>4. \A m \in LessonIds \ {l} : lessons'[m] = lessons[m]
      BY <3>2 DEF TypeOK
    <3> HIDE DEF t, l
    <3>5. Shown' = WithLesson(Shown, c, l, t)
      BY <1>1, <3>1, <3>3, <3>4, LessonShown
    <3>6. QED BY <3>1, <3>5
  <2>3. CASE DeleteLesson(r)
    <3> DEFINE l == req[r].lesson
    <3>1. l \in LessonIds /\ lessons[l] # None /\ lessons[l].courseId = c
      BY <1>1, <2>3 DEF DeleteLesson, OpOK, CallOK, Held, IsLessonOf
    <3>2. lessons' = [lessons EXCEPT ![l] = None]
      BY <2>3 DEF DeleteLesson
    <3>3. lessons'[l] = None /\ \A m \in LessonIds \ {l} : lessons'[m] = lessons[m]
      BY <3>1, <3>2 DEF TypeOK
    <3> HIDE DEF l
    <3>4. Shown' = WithLesson(Shown, c, l, None)
      BY <1>1, <3>1, <3>3, LessonShown
    <3>5. QED BY <3>1, <3>4
  <2>4. QED BY <2>1, <2>2, <2>3
<1>3. Enrolled' = Enrolled
  BY <1>1, EnrolledSame
<1>4. /\ Board!Owns(req[r].user, c) /\ req[r].user \in Users
      /\ Shown[c] # None
  <2>1. View(c) # None
    BY <1>1, ViewEntity
  <2>2. QED BY <1>1, <2>1, WriterOwns DEF Board!Owns, Writing, Shown
<1>5. QED
  BY <1>1, <1>2, <1>3, <1>4 DEF Board!SetLesson, WithLesson, Shown, Enrolled

\* The board with one more enrollment in course c
Raised(f, c) == [f EXCEPT ![c].row.enrollmentCount = @ + 1]

\* POST enroll counts a user who was not enrolled in a published course
LEMMA EnrollStep ==
    ASSUME TypeOK, BumpedOK, Alone, Recorded, [Next]_vars,
           NEW r \in Requests, Held(r), Increment(r), NEW c, c = req[r].target
    PROVE  /\ req[r].user \in Users /\ c \in CourseIds
           /\ Board!Enroll(req[r].user, c)
<1>1. /\ pc[r] = "increment" /\ req[r].op = "enroll" /\ c \in CourseIds
      /\ req[r].user \in Users /\ r \in InFlight
      /\ courses[c] # None /\ courses[c] \in CourseRow
      /\ courses[c].status = "published" /\ ~Existing(req[r].user, c)
  BY AtStep DEF Increment, OpOK, CallOK, InFlight, Steps, Held, Checked, TypeOK
<1>2. /\ courses' = [courses EXCEPT ![c].enrollmentCount = Incremented(c)]
      /\ bumped' = bumped \cup {r} /\ UNCHANGED <<lessons, req>>
  BY <1>1 DEF Increment, locals
<1>3. /\ courses'[c] = [courses[c] EXCEPT !.enrollmentCount = @ + 1]
      /\ courses'[c] \in CourseRow
  BY <1>1, <1>2 DEF TypeOK, Incremented, CourseRow
<1>4. View(c)' = [View(c) EXCEPT !.row.enrollmentCount = @ + 1]
  <2> DEFINE ls == [m \in LessonIds |->
                      IF lessons[m] # None /\ lessons[m].courseId = c
                      THEN lessons[m].title ELSE None]
  <2>1. View(c) = [row |-> courses[c], lessons |-> ls]
    BY <1>1 DEF View
  <2>2. View(c)' = [row |-> courses'[c], lessons |-> ls]
    BY <1>2, <1>3 DEF View
  <2> HIDE DEF ls
  <2>3. QED BY <1>3, <2>1, <2>2
<1>5. \A d \in CourseIds \ {c} : View(d)' = View(d)
  BY <1>1, <1>2, ViewSame DEF TypeOK
<1>6. Shown' = Replaced(Shown, c, View(c)') /\ Shown[c] = View(c)
  BY <1>1, <1>5, ShownStep DEF Shown
<1>7. Shown' = Raised(Shown, c)
  BY <1>1, <1>4, <1>6 DEF Replaced, Raised
<1>8. Enrolled' = Enrolled \cup {<<req[r].user, c>>}
  BY <1>2 DEF Enrolled
<1>9. <<req[r].user, c>> \notin Enrolled
  <2>1. ASSUME NEW q \in bumped, req[q].user = req[r].user, req[q].target = c
        PROVE  FALSE
    <3>1. q \in Requests /\ q # r
      BY <1>1 DEF TypeOK, BumpedOK
    <3>2. pc[q] \notin {"invalidate", "insertEnrollment"}
      BY <1>1, <3>1 DEF Alone, InFlight, Steps
    <3>3. QED BY <1>1, <2>1, <3>2 DEF Recorded, RowOf, Existing
  <2>2. QED BY <2>1 DEF Enrolled
<1>10. Shown[c] # None /\ Shown[c].row.status = "published"
  <2>1. View(c) # None /\ View(c).row = courses[c]
    BY <1>1, ViewEntity DEF View
  <2>2. QED BY <1>1, <1>6, <2>1
<1>11. QED
  BY <1>1, <1>7, <1>8, <1>9, <1>10 DEF Board!Enroll, Raised, Shown, Enrolled

\* Nothing else shows
LEMMA QuietBoard ==
    ASSUME TypeOK, BumpedOK, [Next]_vars, UNCHANGED <<courses, lessons, bumped>>
    PROVE  Shown' = Shown /\ Enrolled' = Enrolled
BY ViewSame, ShownSame, EnrolledSame

\* A step of the service is a step of the board, or does not show
LEMMA BoardStep ==
    ASSUME Serial, TypeOK, Fresh, BumpedOK, LessonsStayHome, OInv, SInv, [Next]_vars
    PROVE  [Board!Next]_Board!vars
<1> USE DEF SInv
<1>1. Shown' = Shown /\ Enrolled' = Enrolled => [Board!Next]_Board!vars
  BY DEF Board!vars, Shown, Enrolled
<1> DEFINE Stays == Shown' = Shown /\ Enrolled' = Enrolled
           OnBoard == \E u \in Users, c \in CourseIds :
                        \/ \E t \in Titles : Board!Create(u, c, t)
                        \/ \E dto \in Patches : Board!Patch(u, c, dto)
                        \/ Board!Remove(u, c)
                        \/ \E l \in LessonIds, t \in Titles \cup {None} :
                             Board!SetLesson(u, c, l, t)
                        \/ Board!Enroll(u, c)
<1>2. OnBoard => Board!Next
  BY DEF Board!Next, Board!CourseIds, Board!LessonIds, CourseIds, LessonIds
<1>3. ASSUME NEW r \in Requests, Serve(r)
      PROVE  Stays \/ OnBoard
  <2>0. Held(r)
    BY <1>3, Serving DEF AllHeld, InFlight
  <2> PICK c : c = req[r].target
    OBVIOUS
  <2>1. CASE \/ ReadCourse(r) \/ ReadList(r) \/ Reload(r) \/ FindLesson(r)
             \/ ReloadLesson(r) \/ FindEnrollment(r) \/ InsertEnrollment(r)
             \/ Fill(r) \/ (\E k \in Keys : Del(r, k)) \/ Scan(r)
    <3>1. UNCHANGED <<courses, lessons, bumped>>
      BY <2>1 DEF ReadCourse, ReadList, Reload, FindLesson, ReloadLesson,
                  FindEnrollment, InsertEnrollment, Fill, Del, Scan, db, history
    <3>2. QED BY <3>1, QuietBoard
  <2>2. CASE Save(r)
    <3>1. /\ req[r].user \in Users /\ c \in CourseIds /\ req[r].dto \in Patches
          /\ Board!Patch(req[r].user, c, req[r].dto)
      BY <2>0, <2>2, PatchStep
    <3>2. QED BY <3>1
  <2>3. CASE InsertCourse(r)
    <3>1. /\ req[r].user \in Users /\ r \in CourseIds /\ req[r].dto.title \in Titles
          /\ Board!Create(req[r].user, r, req[r].dto.title)
      BY <2>3, CreateStep
    <3>2. QED BY <3>1
  <2>4. CASE Delete(r)
    <3>1. \/ Stays
          \/ req[r].user \in Users /\ c \in CourseIds /\ Board!Remove(req[r].user, c)
      BY <2>0, <2>4, RemoveStep
    <3>2. QED BY <3>1
  <2>5. CASE InsertLesson(r) \/ SaveLesson(r) \/ DeleteLesson(r)
    <3>1. \E l \in LessonIds, t \in Titles \cup {None} :
            /\ req[r].user \in Users /\ c \in CourseIds
            /\ Board!SetLesson(req[r].user, c, l, t)
      BY <2>0, <2>5, LessonStep
    <3>2. QED BY <3>1
  <2>6. CASE Increment(r)
    <3>1. /\ req[r].user \in Users /\ c \in CourseIds
          /\ Board!Enroll(req[r].user, c)
      BY <2>0, <2>6, EnrollStep
    <3>2. QED BY <3>1
  <2>7. QED BY <1>3, <2>1, <2>2, <2>3, <2>4, <2>5, <2>6 DEF Serve
<1>4. ASSUME NEW r \in Requests, Arrival(r)
      PROVE  Stays
  <2>1. UNCHANGED <<courses, lessons, bumped>>
    BY <1>4, ArrivalFrame, Arrives DEF db
  <2>2. QED BY <2>1, QuietBoard
<1>5. ASSUME NEW k \in Keys, Expire(k)
      PROVE  Stays
  BY <1>5, QuietBoard DEF Expire, db
<1>6. ASSUME UNCHANGED vars
      PROVE  Stays
  <2>1. UNCHANGED <<courses, lessons, bumped>>
    BY <1>6 DEF vars, db, history
  <2>2. QED BY <2>1, QuietBoard
<1> HIDE DEF Stays, OnBoard
<1>7. Stays \/ OnBoard
  BY <1>3, <1>4, <1>5, <1>6, SerialCases
<1>8. QED BY <1>1, <1>2, <1>7 DEF Stays

LEMMA BoardInit == Init => Board!Init
<1> SUFFICES ASSUME Init
             PROVE  Board!Init
  OBVIOUS
<1>1. PICK t \in Titles, s \in StartStatuses :
        courses = [c \in CourseIds |->
                     IF c = Sample
                     THEN [title |-> t, status |-> s,
                           instructorId |-> Instructor, enrollmentCount |-> 0]
                     ELSE None]
  BY DEF Init
<1>2. PICK u \in Titles \cup {None} :
        lessons = [l \in LessonIds |->
                     IF l = Intro /\ u # None
                     THEN [courseId |-> Sample, title |-> u] ELSE None]
  BY DEF Init
<1> DEFINE row == [title |-> t, status |-> s,
                   instructorId |-> Instructor, enrollmentCount |-> 0]
           first == [courseId |-> Sample, title |-> u]
           ls == [Board!Blank EXCEPT ![Intro] = u]
<1>3. courses[Sample] = row /\ row # None /\ \A c \in Requests : courses[c] = None
  <2>1. row \in CourseRow
    BY DEF CourseRow, Statuses
  <2>2. QED BY <1>1, <2>1 DEF CourseIds
<1>4. u # None => first # None
  BY DEF LessonRow, CourseIds
<1>5. [l \in LessonIds |-> IF lessons[l] # None /\ lessons[l].courseId = Sample
                           THEN lessons[l].title ELSE None] = ls
  <2>1. /\ lessons[Intro] = IF u = None THEN None ELSE first
        /\ \A l \in LessonIds \ {Intro} : lessons[l] = None
    BY <1>2 DEF LessonIds
  <2>2. QED BY <1>4, <2>1 DEF Board!Blank, Board!LessonIds, LessonIds
<1>6. View(Sample) = [row |-> row, lessons |-> ls]
  BY <1>3, <1>5 DEF View
<1>7. \A c \in Requests : View(c) = None
  BY <1>3 DEF View
<1> HIDE DEF row, ls, first
<1>8. Shown = [c \in CourseIds |-> IF c = Sample THEN [row |-> row, lessons |-> ls]
                                                 ELSE None]
  BY <1>6, <1>7 DEF Shown, CourseIds
<1>9. Enrolled = {}
  BY DEF Enrolled, Init
<1>10. s \in Board!Statuses
  BY DEF Board!Statuses, Statuses
<1>11. QED
  BY <1>8, <1>9, <1>10
     DEF Board!Init, Board!CourseIds, CourseIds, Shown, Enrolled, row, ls

BInv == LessonsStayHome /\ CacheCoherent /\ EInv /\ OInv /\ SInv

LEMMA BInvariant ==
    ASSUME Serial
    PROVE  Spec => []BInv
<1>1. Init => BInv
  BY HomeInit, CoherentInit, EInit, OInit, SInit DEF BInv
<1>2. BInv /\ [Next]_vars => BInv'
  <2> SUFFICES ASSUME BInv, [Next]_vars
               PROVE  BInv'
    OBVIOUS
  <2>1. TypeOK /\ BumpedOK
    BY DEF BInv, EInv
  <2>2. EInv' /\ OInv'
    BY <2>1, EStep, OStep DEF BInv
  <2>3. LessonsStayHome' /\ CacheCoherent'
    BY <2>1, HomeStep, CoherentStep DEF BInv
  <2>4. SInv'
    BY <2>1, SStep DEF BInv
  <2>5. QED BY <2>2, <2>3, <2>4 DEF BInv
<1>3. QED BY <1>1, <1>2, PTL DEF Spec

\* Where one request is served at a time and none fails, the tables behind the
\* cache are a board: every request takes effect in one step or not at all
THEOREM ImplementsBoard ==
    ASSUME Serial
    PROVE  Spec => BoardSpec
<1>1. Init => Board!Init
  BY BoardInit
<1>2. BInv /\ [Next]_vars => [Board!Next]_Board!vars
  BY BoardStep DEF BInv, EInv
<1>3. QED BY <1>1, <1>2, BInvariant, PTL DEF Spec, BoardSpec, Board!Spec

\* ... and every read, from the cache or past it, shows what is on the board
THEOREM ReadsBoard ==
    ASSUME Serial
    PROVE  Spec => []ReadsCurrent
<1>1. BInv => ReadsCurrent
  <2> SUFFICES ASSUME BInv
               PROVE  ReadsCurrent
    OBVIOUS
  <2>1. ASSUME InFlight = {}, NEW k \in Keys
        PROVE  cache[k] \in {None, Current(k)}
    BY <2>1, EntryCurrent DEF BInv, EInv, SInv, InFlight
  <2>2. ASSUME NEW r \in Requests, pc[r] = "fill"
        PROVE  ent[r] = Current(req[r].target)
    BY <2>2 DEF BInv, SInv, AllHeld, Held, InFlight, Steps
  <2>3. QED BY <2>1, <2>2 DEF ReadsCurrent
<1>2. QED BY <1>1, BInvariant, PTL

\* ... and the count of a course is the number of its enrollments
THEOREM CountsBoard ==
    ASSUME Serial
    PROVE  Spec => []CountsEnrolled
<1>1. ASSUME BInv, InFlight = {}, NEW c \in CourseIds, courses[c] # None
      PROVE  courses[c].enrollmentCount
               = Cardinality({n \in enrollments : n.courseId = c})
  <2> DEFINE S == {r \in bumped : req[r].target = c}
             T == {n \in enrollments : n.courseId = c}
             f == [r \in S |-> RowOf(r)]
  <2>1. TypeOK /\ CountAccounted /\ RowsOK /\ Recorded /\ clobbered = {}
    BY <1>1, EImplies DEF BInv, EInv, SInv
  <2>2. courses[c].enrollmentCount = Cardinality(S)
    BY <1>1, <2>1 DEF CountAccounted
  <2>3. ASSUME NEW r \in S
        PROVE  f[r] \in T /\ f[r].id = r
    <3>1. r \in Requests /\ pc[r] \notin {"invalidate", "insertEnrollment"}
      BY <1>1, <2>1 DEF TypeOK, InFlight, Steps
    <3>2. QED BY <2>1, <3>1 DEF Recorded, RowOf
  <2>4. ASSUME NEW n \in T
        PROVE  \E r \in S : f[r] = n
    <3>1. n.id \in S
      BY <1>1, <2>1 DEF CountAccounted, RowsOK
    <3>2. n = RowOf(n.id)
      BY <2>1 DEF TypeOK, Enrollment, RowsOK, RowOf
    <3>3. QED BY <3>1, <3>2
  <2>5. f \in Bijection(S, T)
    <3>1. f \in [S -> T] /\ \A r, q \in S : f[r] = f[q] => r = q
      BY <2>3
    <3> HIDE DEF f, S, T
    <3>2. QED BY <2>4, <3>1 DEF Bijection, Injection, Surjection, IsInjective
  <2>6. IsFiniteSet(S)
    BY <2>1, FS_Subset DEF TypeOK
  <2>7. Cardinality(T) = Cardinality(S)
    <3> HIDE DEF f, S, T
    <3>1. QED BY <2>5, <2>6, FS_Bijection DEF ExistsBijection
  <2>8. QED BY <2>2, <2>7
<1>2. BInv => CountsEnrolled
  BY <1>1 DEF CountsEnrolled
<1>3. QED BY <1>2, BInvariant, PTL

\* ... so the exceptions that CacheCoherent and CountAccounted make for what
\* overlap and failures leave behind are never needed
THEOREM NoExceptions ==
    ASSUME Serial
    PROVE  Spec => [](raced = {} /\ clobbered = {})
<1>1. BInv => raced = {} /\ clobbered = {}
  BY DEF BInv, SInv
<1>2. QED BY <1>1, BInvariant, PTL
----------------------------------------------------------------------------
(* What overlap breaks holds without it *)

\* A request that goes on to the enrollment query has read a published course
LEMMA AdmittedStepPublished ==
    ASSUME Serial, TypeOK, SInv, TypeOK', SInv', [Next]_vars,
           NEW r \in Requests, InFlight = {}, pc'[r] = "findEnrollment"
    PROVE  /\ courses[req'[r].target] # None
           /\ courses[req'[r].target].status = "published"
<1>1. \A x \in Requests : ~Serve(x)
  BY Serving DEF InFlight
<1>2. pc[r] # "findEnrollment"
  BY DEF InFlight, Steps
<1>3. PICK x \in Requests : Arrival(x)
  BY <1>1, <1>2, SerialCases DEF Expire, vars
<1>4. courses' = courses
  BY <1>3, ArrivalFrame DEF db
<1>5. Held(r)'
  BY DEF SInv, AllHeld, InFlight, Steps
<1>6. /\ courses'[req'[r].target] # None
      /\ courses'[req'[r].target].status = "published"
  BY <1>5 DEF Held, Checked
<1>7. QED BY <1>4, <1>6

\* Where one request is served at a time, nobody gets past the check of an
\* enrollment on an entry of a course that was published once
THEOREM AdmittedAlone ==
    ASSUME Serial
    PROVE  Spec => AdmittedOnlyPublished
<1>1. BInv /\ BInv' /\ [Next]_vars =>
        [\A r \in Requests :
           InFlight = {} /\ pc[r] = "idle" /\ pc'[r] = "findEnrollment" =>
             /\ courses[req'[r].target] # None
             /\ courses[req'[r].target].status = "published"]_vars
  BY AdmittedStepPublished DEF BInv, EInv
<1>2. QED BY <1>1, BInvariant, PTL DEF Spec, AdmittedOnlyPublished

LEMMA GoneStays ==
    ASSUME Serial, TypeOK, SInv, [Next]_vars, courses[Sample] = None
    PROVE  courses'[Sample] = None
<1>1. Sample \in CourseIds /\ Sample \notin Requests
  BY DEF CourseIds
<1>2. ASSUME NEW r \in Requests, Serve(r)
      PROVE  courses'[Sample] = None
  <2>1. Held(r)
    BY <1>2, Serving DEF SInv, AllHeld, InFlight
  <2>2. CASE Save(r)
    <3>1. courses[req[r].target] # None
      BY <2>1, <2>2 DEF Save, Held, Checked, Writing
    <3>2. courses'[Sample] = courses[Sample]
      BY <1>1, <2>2, <3>1 DEF Save, TypeOK
    <3>3. QED BY <3>2
  <2>3. CASE InsertCourse(r)
    BY <1>1, <2>3 DEF InsertCourse, TypeOK
  <2>4. CASE Delete(r)
    BY <1>1, <2>4 DEF Delete, TypeOK
  <2>5. CASE Increment(r)
    BY <1>1, <2>5 DEF Increment, TypeOK
  <2>6. QED
    BY <1>2, <2>2, <2>3, <2>4, <2>5
       DEF Serve, ReadCourse, ReadList, Fill, Del, Scan, Reload, InsertLesson,
           FindLesson, ReloadLesson, SaveLesson, DeleteLesson, FindEnrollment,
           InsertEnrollment, db
<1>3. ASSUME UNCHANGED courses
      PROVE  courses'[Sample] = None
  BY <1>3
<1>4. QED BY <1>2, <1>3, SerialCases, ArrivalFrame DEF Expire, vars, db

\* ... and a course that was removed stays removed
THEOREM RemovedAlone ==
    ASSUME Serial
    PROVE  Spec => RemovedStaysRemoved
<1>1. BInv /\ [Next]_vars =>
        [courses[Sample] = None => courses'[Sample] = None]_vars
  BY GoneStays DEF BInv, EInv
<1>2. QED BY <1>1, BInvariant, PTL DEF Spec, RemovedStaysRemoved
=============================================================================
