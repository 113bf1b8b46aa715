---------------------------- MODULE SearchProofs ----------------------------
(***************************************************************************)
(* The search index follows the table (SearchIndex.tla), for all values of *)
(* the constants.                                                          *)
(*                                                                         *)
(* IndexFollows says that an index which differs from the table is about   *)
(* to be told; it must also be told the right thing.  That what a handler  *)
(* will tell is the row (ToldOK) holds because what a save selected is     *)
(* still the row when it writes (SelectedOK), or another write came        *)
(* between and the course has strayed.                                     *)
(***************************************************************************)
EXTENDS SearchIndex, CoursesProofs

USE ConstantsAssumption, DistinctAssumption

\* The row a save selected is the row it writes over
SelectedOK(r) ==
    pc[r] = "save" /\ old[r] # None =>
      LET c == req[r].target
      IN  \/ courses[c] # None /\ Doc(old[r].row) = Doc(courses[c])
          \/ c \in strayed

\* What a handler will tell the index is what the table holds
ToldOK(r) ==
    \A c \in CourseIds : Untold(r, c) => \/ saved[r] = Doc(courses[c])
                                         \/ c \in strayed

\* A call to the index is made by a handler that has answered
CallsAnswered ==
    \A r \in calls : pc[r] = "ok" /\ req[r] # None /\ req[r].op \in IndexOps

SInv == /\ TypeOK
        /\ IndexTypeOK
        /\ CallsAnswered
        /\ \A r \in Requests : SelectedOK(r) /\ ToldOK(r)
        /\ IndexFollows

SStep == Next /\ Track

----------------------------------------------------------------------------
(* What the index is told, and where requests go *)

LEMMA DocType ==
    ASSUME NEW row \in CourseRow \cup {None}
    PROVE  Doc(row) \in Document \cup {None}
BY DEF Doc, Document, CourseRow

LEMMA SubjectType ==
    ASSUME TypeOK, NEW r \in Requests, pc[r] # "idle", req[r].op \in IndexOps
    PROVE  Subject(r) \in CourseIds
BY AtStep DEF Subject, IndexOps, CourseIds, Call, Ops

\* An arrival owes nothing yet, and the other requests do not notice
LEMMA ArrivalQuiet ==
    ASSUME TypeOK, NEW x \in Requests, Arrival(x)
    PROVE  /\ pc'[x] # "invalidate"
           /\ UNCHANGED old
           /\ \A r \in Requests \ {x} : req'[r] = req[r]
<1> USE DEF TypeOK, Goto, Arrive
<1>1. ASSUME NEW q, FindById(x, q)
      PROVE  /\ pc'[x] # "invalidate"
             /\ UNCHANGED old
             /\ \A r \in Requests \ {x} : req'[r] = req[r]
  BY <1>1 DEF FindById, Found, Continue
<1>2. CASE CreateCourse(x)
  BY <1>2 DEF CreateCourse
<1>3. CASE ListCourses(x)
  BY <1>3 DEF ListCourses
<1>4. QED BY <1>1, <1>2, <1>3, ArrivalCall

\* How one step moves a request: what it selects, writes and answers
LEMMA Moves ==
    ASSUME TypeOK, [Next]_vars, NEW r \in Requests
    PROVE  /\ pc[r] # "idle" => req'[r] = req[r]
           /\ pc[r] = "ok" => pc'[r] = "ok"
           /\ pc'[r] = "save" =>
                \/ pc[r] = "save" /\ old'[r] = old[r] /\ req'[r] = req[r]
                \/ /\ old'[r] = View(req[r].target) /\ req'[r] = req[r]
                   /\ pc[r] = "reload" /\ UNCHANGED courses
           /\ pc[r] = "invalidate" =>
                \/ pc'[r] \in {"invalidate", "ok", "error"}
                \/ req[r].op = "enroll"
           /\ pc'[r] = "invalidate" /\ pc[r] # "invalidate" =>
                \/ WritesCourse(r)
                \/ pc[r] \in {"insertLesson", "saveLesson", "deleteLesson",
                              "increment"}
<1> USE DEF TypeOK, Goto
<1> DEFINE Goal ==
      /\ pc[r] # "idle" => req'[r] = req[r]
      /\ pc[r] = "ok" => pc'[r] = "ok"
      /\ pc'[r] = "save" =>
           \/ pc[r] = "save" /\ old'[r] = old[r] /\ req'[r] = req[r]
           \/ /\ old'[r] = View(req[r].target) /\ req'[r] = req[r]
              /\ pc[r] = "reload" /\ UNCHANGED courses
      /\ pc[r] = "invalidate" =>
           \/ pc'[r] \in {"invalidate", "ok", "error"}
           \/ req[r].op = "enroll"
      /\ pc'[r] = "invalidate" /\ pc[r] # "invalidate" =>
           \/ WritesCourse(r)
           \/ pc[r] \in {"insertLesson", "saveLesson", "deleteLesson",
                         "increment"}
<1>1. ASSUME NEW x \in Requests, Arrival(x)
      PROVE  Goal
  <2>1. pc[x] = "idle" /\ pc'[x] # "save" /\ pc'[x] # "invalidate"
    BY <1>1, ArrivalFrame, ArrivalQuiet
  <2>2. x # r => /\ pc'[r] = pc[r] /\ req'[r] = req[r] /\ old'[r] = old[r]
    BY <1>1, ArrivalFrame, ArrivalQuiet
  <2>3. QED BY <2>1, <2>2
<1>2. ASSUME NEW x \in Requests, Fail(x)
      PROVE  Goal
  BY <1>2 DEF Fail, Steps
<1>3. ASSUME NEW k \in Keys, Expire(k)
      PROVE  Goal
  BY <1>3 DEF Expire, locals
<1>4. ASSUME UNCHANGED vars
      PROVE  Goal
  BY <1>4 DEF vars, locals, db
<1>5. ASSUME NEW x \in Requests, Serve(x)
      PROVE  Goal
  <2> USE DEF locals, db, history, Invalidate, Settle, Found, Continue, WritesCourse
  <2>1. CASE ReadCourse(x) \/ ReadList(x)
    BY <2>1 DEF ReadCourse, ReadList
  <2>2. CASE Fill(x)
    BY <2>2 DEF Fill
  <2>3. CASE (\E k \in Keys : Del(x, k)) \/ Scan(x)
    <3>1. pc[x] = "invalidate"
      BY <2>3 DEF Del, Scan, StepOK
    <3>2. QED BY <2>3, <3>1 DEF Del, Scan
  <2>4. CASE Reload(x)
    BY <2>4 DEF Reload
  <2>5. CASE Save(x)
    BY <2>5 DEF Save
  <2>6. CASE InsertCourse(x) \/ Delete(x)
    BY <2>6 DEF InsertCourse, Delete
  <2>7. CASE InsertLesson(x) \/ FindLesson(x) \/ ReloadLesson(x)
    BY <2>7 DEF InsertLesson, FindLesson, ReloadLesson
  <2>8. CASE SaveLesson(x) \/ DeleteLesson(x)
    BY <2>8 DEF SaveLesson, DeleteLesson
  <2>9. CASE FindEnrollment(x) \/ Increment(x) \/ InsertEnrollment(x)
    BY <2>9 DEF FindEnrollment, Increment, InsertEnrollment
  <2>10. QED
    BY <1>5, <2>1, <2>2, <2>3, <2>4, <2>5, <2>6, <2>7, <2>8, <2>9 DEF Serve
<1>6. QED BY <1>1, <1>2, <1>3, <1>4, <1>5, NextCases
\* What writes a course
LEMMA Writers ==
    ASSUME TypeOK, [Next]_vars, NEW r \in Requests, WritesCourse(r)
    PROVE  Save(r) \/ InsertCourse(r) \/ Delete(r)
<1>1. pc[r] \in {"save", "insertCourse", "delete"} /\ pc'[r] = "invalidate"
  BY DEF WritesCourse
<1>2. ASSUME NEW x \in Requests, Arrival(x)
      PROVE  FALSE
  BY <1>1, <1>2, ArrivalFrame, ArrivalQuiet
<1>3. ASSUME NEW x \in Requests, Fail(x)
      PROVE  FALSE
  BY <1>1, <1>3 DEF Fail, Goto, TypeOK
<1>4. ASSUME NEW k \in Keys, Expire(k)
      PROVE  FALSE
  BY <1>1, <1>4 DEF Expire
<1>5. ASSUME NEW x \in Requests, Serve(x)
      PROVE  Save(r) \/ InsertCourse(r) \/ Delete(r)
  <2>1. x = r
    BY <1>1, <1>5, ServeFrame
  <2>2. pc[r] # "invalidate"
    BY <1>1
  <2>3. ~((\E k \in Keys : Del(r, k)) \/ Scan(r))
    BY <1>1 DEF Del, Scan, TypeOK, StepOK
  <2>4. QED
    BY <1>1, <1>5, <2>1, <2>3
       DEF Serve, ReadCourse, ReadList, Fill, Reload, InsertLesson, FindLesson,
           ReloadLesson, SaveLesson, DeleteLesson, FindEnrollment, Increment,
           InsertEnrollment
<1>6. QED BY <1>1, <1>2, <1>3, <1>4, <1>5, NextCases DEF vars

\* The operation and the course of a write
LEMMA WriteSubject ==
    ASSUME TypeOK, NEW r \in Requests, pc[r] \in {"save", "insertCourse", "delete"}
    PROVE  /\ req[r] # None /\ req[r].op \in IndexOps /\ Subject(r) \in CourseIds
           /\ pc[r] = "insertCourse" => Subject(r) = r
           /\ pc[r] # "insertCourse" => Subject(r) = req[r].target
<1>1. req[r].op \in IndexOps
  BY AtStep DEF OpOK, IndexOps
<1>2. Subject(r) \in CourseIds
  BY <1>1, SubjectType
<1>3. QED BY <1>1, <1>2, AtStep DEF Subject, OpOK

\* What a step does to the rows a search shows: nothing, or it is a write the
\* index will be told about
LEMMA RowsKept ==
    ASSUME TypeOK, [Next]_vars, NEW c \in CourseIds
    PROVE  \/ /\ Doc(courses'[c]) = Doc(courses[c])
              /\ courses'[c] = None <=> courses[c] = None
           \/ \E r \in Requests : WritesCourse(r) /\ Subject(r) = c
<1>1. CASE courses'[c] = courses[c]
  BY <1>1
<1>2. CASE courses'[c] # courses[c]
  <2>1. PICK r \in Requests : Save(r) \/ InsertCourse(r) \/ Delete(r) \/ Increment(r)
    <3>1. ASSUME NEW x \in Requests, Arrival(x) PROVE FALSE
      BY <1>2, <3>1, ArrivalFrame DEF db
    <3>2. QED
      BY <1>2, <3>1, NextCases
         DEF vars, db, Fail, Expire, Serve, ReadCourse, ReadList, Fill, Del, Scan,
             Reload, InsertLesson, FindLesson, ReloadLesson, SaveLesson,
             DeleteLesson, FindEnrollment, InsertEnrollment
  <2>2. CASE Increment(r)
    <3>1. /\ courses[req[r].target] # None
          /\ courses' = [courses EXCEPT ![req[r].target].enrollmentCount =
                           Incremented(req[r].target)]
      BY <1>2, <2>2 DEF Increment
    <3>2. c = req[r].target /\ courses[c] \in CourseRow
      BY <1>2, <3>1 DEF TypeOK
    <3>3. courses'[c] = [courses[c] EXCEPT !.enrollmentCount = Incremented(c)]
      BY <3>1, <3>2 DEF TypeOK
    <3>4. Incremented(c) \in Nat
      BY <3>2 DEF Incremented, CourseRow
    <3>5. courses'[c] \in CourseRow
      BY <3>2, <3>3, <3>4 DEF CourseRow
    <3>6. /\ courses'[c].title = courses[c].title
          /\ courses'[c].status = courses[c].status
      BY <3>2, <3>3 DEF CourseRow
    <3>7. courses'[c] # None /\ courses[c] # None
      BY <3>2, <3>5
    <3>8. QED BY <3>6, <3>7 DEF Doc
  <2>3. CASE Save(r)
    <3>1. pc[r] = "save" /\ pc'[r] = "invalidate" /\ req[r].target = c
      BY <1>2, <2>3 DEF Save, Invalidate, Goto, TypeOK
    <3>2. QED BY <3>1, WriteSubject DEF WritesCourse
  <2>4. CASE InsertCourse(r)
    <3>1. pc[r] = "insertCourse" /\ pc'[r] = "invalidate" /\ r = c
      BY <1>2, <2>4 DEF InsertCourse, Invalidate, Goto, TypeOK
    <3>2. QED BY <3>1, WriteSubject DEF WritesCourse
  <2>5. CASE Delete(r)
    <3>1. pc[r] = "delete" /\ pc'[r] = "invalidate" /\ req[r].target = c
      BY <1>2, <2>5 DEF Delete, Invalidate, Goto, TypeOK
    <3>2. QED BY <3>1, WriteSubject DEF WritesCourse
  <2>6. QED BY <2>1, <2>2, <2>3, <2>4, <2>5
<1>3. QED BY <1>1, <1>2

\* A save writes what it returns, over the row it selected
LEMMA SavedDoc ==
    ASSUME NEW c \in CourseIds, NEW e \in Entity, NEW o \in Entity \cup {None},
           TypeOK,
           o # None => courses[c] # None /\ Doc(o.row) = Doc(courses[c])
    PROVE  Doc(SavedRow(c, e, o)) = Doc(e.row)
<1>1. CASE o = None
  BY <1>1 DEF SavedRow
<1>2. CASE o # None
  <2>1. /\ courses[c] \in CourseRow /\ o.row \in CourseRow /\ e.row \in CourseRow
        /\ o.row # None /\ e.row # None
    BY <1>2 DEF TypeOK, Entity
  <2>2. o.row.title = courses[c].title /\ o.row.status = courses[c].status
    BY <1>2, <2>1 DEF Doc
  <2> DEFINE row == SavedRow(c, e, o)
  <2>3. /\ row = [title |-> Changed(e.row.title, o.row.title, courses[c].title),
                  status |-> Changed(e.row.status, o.row.status, courses[c].status),
                  instructorId |-> Changed(e.row.instructorId, o.row.instructorId,
                                           courses[c].instructorId),
                  enrollmentCount |-> Changed(e.row.enrollmentCount,
                                              o.row.enrollmentCount,
                                              courses[c].enrollmentCount)]
    BY <1>2 DEF SavedRow
  <2>4. row.title = e.row.title /\ row.status = e.row.status
    BY <2>2, <2>3 DEF Changed
  <2>5. row # None
    BY <2>1, <2>3 DEF CourseRow, Changed
  <2>6. QED BY <2>1, <2>4, <2>5 DEF Doc
<1>3. QED BY <1>1, <1>2

\* A write leaves its handler with what it wrote
LEMMA WriteTold ==
    ASSUME TypeOK, [Next]_vars, NEW r \in Requests, WritesCourse(r), SelectedOK(r)
    PROVE  \/ Returned(r) = Doc(courses'[Subject(r)])
           \/ Subject(r) \in strayed
<1>1. CASE pc[r] # "save"
  BY <1>1 DEF Returned
<1>2. CASE pc[r] = "save"
  <2>1. Save(r)
    BY <1>2, Writers DEF InsertCourse, Delete
  <2>2. /\ courses' = [courses EXCEPT ![req[r].target] =
                         SavedRow(req[r].target, ent[r], old[r])]
    BY <2>1 DEF Save, WritesCourse, Goto, TypeOK
  <2>3. /\ Subject(r) = req[r].target /\ req[r].target \in CourseIds
        /\ ent[r] \in Entity /\ old[r] \in Entity \cup {None}
    BY <1>2, WriteSubject DEF TypeOK, StepOK
  <2>4. courses'[req[r].target] = SavedRow(req[r].target, ent[r], old[r])
    BY <2>2, <2>3 DEF TypeOK
  <2>5. CASE req[r].target \in strayed
    BY <2>3, <2>5
  <2>6. CASE req[r].target \notin strayed
    BY <1>2, <2>3, <2>4, <2>6, SavedDoc DEF SelectedOK, Returned
  <2>7. QED BY <2>5, <2>6
<1>3. QED BY <1>1, <1>2
----------------------------------------------------------------------------
(* A step of the courses service *)

LEMMA TrackTypes ==
    ASSUME SInv, [Next]_vars, TypeOK', Track
    PROVE  IndexTypeOK' /\ CallsAnswered'
<1>1. ASSUME NEW r \in Requests, WritesCourse(r)
      PROVE  Returned(r) \in Document \cup {None}
  <2>1. Subject(r) \in CourseIds
    BY <1>1, WriteSubject DEF WritesCourse, SInv
  <2>2. courses'[Subject(r)] \in CourseRow \cup {None}
    BY <2>1 DEF TypeOK
  <2>3. pc[r] = "save" => ent[r].row \in CourseRow \cup {None}
    BY DEF SInv, TypeOK, StepOK, Entity
  <2>4. QED BY <2>2, <2>3, DocType DEF Returned
<1>2. saved' \in [Requests -> Document \cup {None}]
  BY <1>1 DEF Track, SInv, IndexTypeOK
<1>3. IndexTypeOK'
  BY <1>2 DEF Track, SInv, IndexTypeOK
<1>4. ASSUME NEW r \in calls'
      PROVE  pc'[r] = "ok" /\ req'[r] # None /\ req'[r].op \in IndexOps
  <2>1. r \in Requests
    BY <1>3 DEF IndexTypeOK
  <2>2. CASE r \in calls
    <3>1. pc[r] = "ok" /\ req[r] # None /\ req[r].op \in IndexOps
      BY <2>2 DEF SInv, CallsAnswered
    <3>2. QED BY <2>1, <3>1, Moves DEF SInv
  <2>3. CASE r \notin calls
    <3>1. Tells(r)
      BY <2>3 DEF Track
    <3>2. req[r] # None
      BY <2>1, <3>1 DEF Tells, SInv, TypeOK, StepOK, CallOK
    <3>3. QED BY <2>1, <3>1, <3>2, Moves DEF Tells, SInv
  <2>4. QED BY <2>2, <2>3
<1>5. QED BY <1>3, <1>4 DEF CallsAnswered

\* Where c is written, other writers of c and those the index has not heard
\* of leave it strayed
LEMMA OverlapStrays ==
    ASSUME SInv, Track, NEW c \in CourseIds,
           NEW r \in Requests, WritesCourse(r), Subject(r) = c,
           NEW q \in Requests, q # r, Untold(q, c) \/ Saving(q, c)
    PROVE  c \in strayed'
BY DEF Track, Strays

LEMMA TrackSelected ==
    ASSUME SInv, [Next]_vars, Track, NEW r \in Requests
    PROVE  SelectedOK(r)'
<1> SUFFICES ASSUME pc'[r] = "save", old'[r] # None
             PROVE  \/ /\ courses'[req'[r].target] # None
                       /\ Doc(old'[r].row) = Doc(courses'[req'[r].target])
                    \/ req'[r].target \in strayed'
  BY DEF SelectedOK, Doc
<1> DEFINE c == req[r].target
<1>0. strayed \subseteq strayed'
  BY DEF Track
<1>1. CASE pc[r] = "save" /\ old'[r] = old[r] /\ req'[r] = req[r]
  <2>1. c \in CourseIds
    BY <1>1, WriteSubject DEF SInv
  <2>2. \/ courses[c] # None /\ Doc(old[r].row) = Doc(courses[c])
        \/ c \in strayed
    BY <1>1 DEF SInv, SelectedOK
  <2>3. CASE /\ Doc(courses'[c]) = Doc(courses[c])
             /\ courses'[c] = None <=> courses[c] = None
    BY <1>0, <1>1, <2>2, <2>3
  <2>4. ASSUME NEW q \in Requests, WritesCourse(q), Subject(q) = c
        PROVE  c \in strayed'
    <3>1. q # r
      BY <2>4 DEF WritesCourse
    <3>2. Saving(r, c)
      BY <1>1 DEF Saving
    <3>3. QED BY <2>1, <2>4, <3>1, <3>2, OverlapStrays
  <2>5. QED BY <1>1, <2>1, <2>3, <2>4, RowsKept DEF SInv
<1>2. CASE /\ old'[r] = View(req[r].target) /\ req'[r] = req[r]
           /\ pc[r] = "reload" /\ UNCHANGED courses
  <2>1. View(c) # None
    BY <1>2
  <2>2. courses[c] # None /\ View(c).row = courses[c]
    BY <2>1 DEF View
  <2>3. QED BY <1>2, <2>2
<1>3. QED BY <1>1, <1>2, Moves DEF SInv

LEMMA TrackTold ==
    ASSUME SInv, [Next]_vars, TypeOK', Track, CallsAnswered', NEW r \in Requests
    PROVE  ToldOK(r)'
<1> SUFFICES ASSUME NEW c \in CourseIds, Untold(r, c)'
             PROVE  saved'[r] = Doc(courses'[c]) \/ c \in strayed'
  BY DEF ToldOK, Doc
<1>0. strayed \subseteq strayed'
  BY DEF Track
<1>1. CASE WritesCourse(r)
  <2>1. /\ Subject(r) \in CourseIds /\ pc[r] # "idle"
        /\ saved'[r] = Returned(r)
    BY <1>1, WriteSubject DEF WritesCourse, SInv, Track
  <2>2. Subject(r) = c
    <3>1. req'[r] = req[r]
      BY <2>1, Moves DEF SInv
    <3>2. QED BY <3>1 DEF Untold, Subject
  <2>3. QED BY <1>0, <1>1, <2>1, <2>2, WriteTold DEF SInv
<1>2. CASE ~WritesCourse(r)
  <2>1. pc'[r] = "invalidate" \/ pc'[r] = "ok"
    BY DEF Untold, CallsAnswered
  <2>2. saved'[r] = saved[r]
    BY <1>2, <2>1 DEF Track
  <2>3. pc[r] = "invalidate" \/ r \in calls
    <3>1. CASE r \in calls'
      BY <3>1 DEF Track, Tells
    <3>2. CASE pc'[r] = "invalidate" /\ pc[r] # "invalidate"
      <4>1. pc[r] \in {"insertLesson", "saveLesson", "deleteLesson", "increment"}
        BY <1>2, <3>2, Moves DEF SInv
      <4>2. req'[r] = req[r] /\ req[r].op \notin IndexOps
        BY <4>1, Moves, AtStep DEF SInv, OpOK, IndexOps
      <4>3. QED BY <4>2 DEF Untold
    <3>3. QED BY <3>1, <3>2 DEF Untold
  <2>4. pc[r] # "idle"
    BY <2>3 DEF SInv, CallsAnswered
  <2>5. req'[r] = req[r]
    BY <2>4, Moves DEF SInv
  <2>6. Untold(r, c)
    BY <2>3, <2>5 DEF Untold, Subject
  <2>7. saved[r] = Doc(courses[c]) \/ c \in strayed
    BY <2>6 DEF SInv, ToldOK
  <2>8. CASE Doc(courses'[c]) = Doc(courses[c])
    BY <1>0, <2>2, <2>7, <2>8
  <2>9. ASSUME NEW q \in Requests, WritesCourse(q), Subject(q) = c
        PROVE  c \in strayed'
    BY <1>2, <2>6, <2>9, OverlapStrays
  <2>10. QED BY <2>8, <2>9, RowsKept DEF SInv
<1>3. QED BY <1>1, <1>2

LEMMA TrackFollows ==
    ASSUME SInv, [Next]_vars, Track
    PROVE  IndexFollows'
<1> SUFFICES ASSUME NEW c \in CourseIds
             PROVE  \/ index'[c] = Doc(courses'[c])
                    \/ \E r \in Requests : Untold(r, c)'
                    \/ c \in strayed'
  BY DEF IndexFollows, Doc
<1>0. strayed \subseteq strayed' /\ index' = index
  BY DEF Track
<1>1. ASSUME NEW r \in Requests, Untold(r, c)
      PROVE  Untold(r, c)' \/ c \in strayed'
  <2>1. pc[r] # "idle"
    BY <1>1 DEF Untold, SInv, CallsAnswered
  <2>2. req'[r] = req[r]
    BY <2>1, Moves DEF SInv
  <2>3. req[r] # None /\ req[r].op \in IndexOps /\ Subject(r) = c
    BY <1>1 DEF Untold
  <2>4. CASE r \in calls
    BY <2>2, <2>3, <2>4 DEF Untold, Subject, Track
  <2>5. CASE pc[r] = "invalidate"
    <3>1. pc'[r] \in {"invalidate", "ok", "error"}
      BY <2>3, <2>5, Moves DEF SInv, IndexOps
    <3>2. CASE pc'[r] = "invalidate"
      BY <2>2, <2>3, <3>2 DEF Untold, Subject
    <3>3. CASE pc'[r] = "ok"
      <4>1. r \in calls'
        BY <2>3, <2>5, <3>3 DEF Track, Tells
      <4>2. QED BY <2>2, <2>3, <4>1 DEF Untold, Subject
    <3>4. CASE pc'[r] = "error"
      BY <1>1, <2>5, <3>4 DEF Track, Strays
    <3>5. QED BY <3>1, <3>2, <3>3, <3>4
  <2>6. QED BY <1>1, <2>4, <2>5 DEF Untold
<1>2. ASSUME NEW r \in Requests, WritesCourse(r), Subject(r) = c
      PROVE  Untold(r, c)'
  <2>1. pc[r] # "idle" /\ req[r] # None /\ req[r].op \in IndexOps
    BY <1>2, WriteSubject DEF WritesCourse, SInv
  <2>2. req'[r] = req[r]
    BY <2>1, Moves DEF SInv
  <2>3. QED BY <1>2, <2>1, <2>2 DEF Untold, Subject, WritesCourse
<1>3. CASE Doc(courses'[c]) = Doc(courses[c])
  BY <1>0, <1>1, <1>3 DEF SInv, IndexFollows
<1>4. QED BY <1>2, <1>3, RowsKept DEF SInv

----------------------------------------------------------------------------
(* A step of Elasticsearch *)

LEMMA OverSteps ==
    ASSUME SInv, NEW r \in Requests, Deliver(r) \/ Lose(r)
    PROVE  SInv'
<1>1. /\ r \in calls /\ calls' = calls \ {r}
      /\ saved' = [saved EXCEPT ![r] = None]
      /\ UNCHANGED vars
      /\ strayed \subseteq strayed'
  BY DEF Deliver, Lose, Over
<1>2. /\ pc[r] = "ok" /\ req[r] # None /\ req[r].op \in IndexOps
      /\ Subject(r) \in CourseIds
  BY <1>1, SubjectType DEF SInv, CallsAnswered
<1>3. TypeOK'
  BY <1>1, NextType DEF SInv
<1>4. index' \in [CourseIds -> Document \cup {None}] /\ strayed' \subseteq CourseIds
  BY <1>2 DEF Deliver, Lose, SInv, IndexTypeOK
<1>5. IndexTypeOK' /\ CallsAnswered'
  BY <1>1, <1>4 DEF SInv, IndexTypeOK, CallsAnswered, vars, locals
<1>6. ASSUME NEW q \in Requests
      PROVE  SelectedOK(q)'
  <2>1. SelectedOK(q)
    BY DEF SInv
  <2>2. QED BY <1>1, <2>1 DEF SelectedOK, Doc, vars, locals, db
<1>7. ASSUME NEW q \in Requests, NEW c \in CourseIds
      PROVE  /\ Untold(q, c)' => Untold(q, c) /\ q # r
             /\ Untold(q, c) => Untold(q, c)' \/ q = r
  BY <1>1, <1>2 DEF Untold, Subject, vars, locals
<1>8. ASSUME NEW q \in Requests
      PROVE  ToldOK(q)'
  <2> SUFFICES ASSUME NEW c \in CourseIds, Untold(q, c)'
               PROVE  saved'[q] = Doc(courses'[c]) \/ c \in strayed'
    BY DEF ToldOK, Doc
  <2>1. Untold(q, c) /\ q # r
    BY <1>7
  <2>2. saved[q] = Doc(courses[c]) \/ c \in strayed
    BY <2>1 DEF SInv, ToldOK
  <2>3. saved'[q] = saved[q] /\ courses' = courses
    BY <1>1, <2>1 DEF SInv, IndexTypeOK, vars, db
  <2>4. QED BY <1>1, <2>2, <2>3
<1>9. ASSUME NEW c \in CourseIds
      PROVE  \/ index'[c] = Doc(courses'[c])
             \/ \E q \in Requests : Untold(q, c)'
             \/ c \in strayed'
  <2>1. courses' = courses
    BY <1>1 DEF vars, db
  <2>2. CASE c # Subject(r)
    <3>1. index'[c] = index[c]
      BY <2>2 DEF Deliver, Lose, SInv, IndexTypeOK
    <3>2. ~Untold(r, c)
      BY <2>2 DEF Untold
    <3>3. QED BY <1>1, <1>7, <2>1, <3>1, <3>2 DEF SInv, IndexFollows
  <2>3. CASE c = Subject(r) /\ Deliver(r)
    <3>1. index'[c] = saved[r]
      BY <1>2, <2>3 DEF Deliver, SInv, IndexTypeOK
    <3>2. Untold(r, c)
      BY <1>1, <1>2, <2>3 DEF Untold
    <3>3. saved[r] = Doc(courses[c]) \/ c \in strayed
      BY <3>2 DEF SInv, ToldOK
    <3>4. QED BY <1>1, <2>1, <3>1, <3>3
  <2>4. CASE c = Subject(r) /\ Lose(r)
    BY <2>4 DEF Lose
  <2>5. QED BY <2>2, <2>3, <2>4
<1>10. IndexFollows'
  BY <1>9 DEF IndexFollows, Doc
<1>11. QED BY <1>3, <1>5, <1>6, <1>8, <1>10 DEF SInv
----------------------------------------------------------------------------
(* The theorems *)

LEMMA SInitInv == SInit => SInv
<1> SUFFICES ASSUME SInit PROVE SInv
  OBVIOUS
<1>1. TypeOK
  BY InitType DEF SInit
<1>2. \A c \in CourseIds : Doc(courses[c]) \in Document \cup {None}
  BY <1>1, DocType DEF TypeOK
<1>3. IndexTypeOK
  BY <1>2 DEF SInit, IndexTypeOK
<1>4. \A r \in Requests : pc[r] = "idle"
  BY DEF SInit, Init
<1>5. QED
  BY <1>1, <1>3, <1>4
     DEF SInit, SInv, CallsAnswered, SelectedOK, ToldOK, Untold, IndexFollows

LEMMA SNextInv == SInv /\ [SNext]_svars => SInv'
<1> SUFFICES ASSUME SInv, [SNext]_svars PROVE SInv'
  OBVIOUS
<1>1. ASSUME Next, Track
      PROVE  SInv'
  <2>1. TypeOK'
    BY <1>1, NextType DEF SInv
  <2>2. IndexTypeOK' /\ CallsAnswered'
    BY <1>1, <2>1, TrackTypes
  <2>3. \A r \in Requests : SelectedOK(r)' /\ ToldOK(r)'
    BY <1>1, <2>1, <2>2, TrackSelected, TrackTold
  <2>4. IndexFollows'
    BY <1>1, TrackFollows
  <2>5. QED BY <2>1, <2>2, <2>3, <2>4 DEF SInv
<1>2. ASSUME NEW r \in Requests, Deliver(r) \/ Lose(r)
      PROVE  SInv'
  BY <1>2, OverSteps
<1>3. CASE UNCHANGED svars
  <2>1. TypeOK'
    BY <1>3, NextType DEF SInv, svars
  <2>2. UNCHANGED <<index, saved, calls, strayed, courses, pc, req, old>>
    BY <1>3 DEF svars, vars, db, locals
  <2>3. IndexTypeOK' /\ CallsAnswered'
    BY <2>2 DEF SInv, IndexTypeOK, CallsAnswered
  <2>4. ASSUME NEW r \in Requests
        PROVE  SelectedOK(r)' /\ ToldOK(r)'
    <3>1. SelectedOK(r) /\ ToldOK(r)
      BY DEF SInv
    <3>2. QED BY <2>2, <3>1 DEF SelectedOK, ToldOK, Untold, Subject, Doc
  <2>5. IndexFollows'
    BY <2>2 DEF SInv, IndexFollows, Untold, Subject, Doc
  <2>6. QED BY <2>1, <2>3, <2>4, <2>5 DEF SInv
<1>4. QED BY <1>1, <1>2, <1>3 DEF SNext, Next

\* The index holds documents, and calls are made by requests
THEOREM IndexTypes == SSpec => []IndexTypeOK
<1>1. SInit => SInv
  BY SInitInv
<1>2. SInv /\ [SNext]_svars => SInv'
  BY SNextInv
<1>3. SInv => IndexTypeOK
  BY DEF SInv
<1>4. QED BY <1>1, <1>2, <1>3, PTL DEF SSpec

\* However late and in whatever order the calls arrive, a course whose index
\* differs from its row is about to be told, or writes of it overlapped, or a
\* failure kept the index from hearing of one
THEOREM Follows == SSpec => []IndexFollows
<1>1. SInit => SInv
  BY SInitInv
<1>2. SInv /\ [SNext]_svars => SInv'
  BY SNextInv
<1>3. SInv => IndexFollows
  BY DEF SInv
<1>4. QED BY <1>1, <1>2, <1>3, PTL DEF SSpec
=============================================================================
