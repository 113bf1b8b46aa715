---------------------------- MODULE CoursesProofs ----------------------------
(***************************************************************************)
(* Proofs about Courses.tla, for any number of requests, users, titles and *)
(* any schema and workload: type correctness, action by action; lessons    *)
(* stay in their course; the cache is coherent up to owed deletions and    *)
(* races.                                                                  *)
(*                                                                         *)
(* CacheCoherent is not inductive alone.  That a write under course c      *)
(* changes what other courses' entries should hold is excluded by          *)
(* LessonsStayHome: a lesson a handler writes is a lesson of its course.   *)
(***************************************************************************)
EXTENDS CoursesProps, TLAPS

USE ConstantsAssumption, DistinctAssumption

----------------------------------------------------------------------------
(* What the queries return *)

LEMMA ViewEntity ==
    ASSUME TypeOK, NEW c \in CourseIds, courses[c] # None
    PROVE  View(c) \in Entity
<1>1. courses[c] \in CourseRow
  BY DEF TypeOK
<1>2. [l \in LessonIds |-> IF lessons[l] # None /\ lessons[l].courseId = c
                           THEN lessons[l].title ELSE None]
        \in [LessonIds -> Titles \cup {None}]
  BY DEF TypeOK, LessonRow
<1>3. QED BY <1>1, <1>2 DEF View, Entity

LEMMA ViewType ==
    ASSUME TypeOK, NEW c \in CourseIds
    PROVE  View(c) \in Entity \cup {None}
BY ViewEntity DEF View

LEMMA ListType ==
    ASSUME TypeOK, NEW k \in ListKeys
    PROVE  List(k) \in Listing
<1>1. \A c \in CourseIds : courses[c] # None =>
        [id |-> c, title |-> courses[c].title, status |-> courses[c].status]
          \in [id: CourseIds, title: Titles, status: Statuses]
  BY DEF TypeOK, CourseRow
<1>2. QED BY <1>1 DEF List, Listing

LEMMA AssignType ==
    ASSUME NEW e \in Entity, NEW dto \in Dto
    PROVE  Assign(e, dto) \in Entity
BY DEF Assign, Entity, CourseRow, Dto

\* A request that an action does not touch keeps its place
LEMMA StepFrame ==
    ASSUME NEW x, StepOK(x), pc'[x] = pc[x], req'[x] = req[x],
           ent'[x] = ent[x], old'[x] = old[x], pend'[x] = pend[x]
    PROVE  StepOK(x)'
BY DEF StepOK

----------------------------------------------------------------------------
(* findById has returned *)

LEMMA FoundType ==
    ASSUME TypeOK, NEW r \in Requests, NEW q \in Call, CallOK(q),
           q.op \notin {"list", "create"}, NEW e \in Entity,
           Found(r, q, e), req'[r] = q, pend[r] = {},
           UNCHANGED <<old, pend>>
    PROVE  /\ pc' \in [Requests -> {"idle"} \cup Steps \cup Answers]
           /\ ent' \in [Requests -> Entity \cup Listing \cup {None}]
           /\ StepOK(r)'
           /\ \A x \in Requests \ {r} : pc'[x] = pc[x] /\ ent'[x] = ent[x]
<1> DEFINE next == IF Denied(q, e) THEN "forbidden" ELSE Continue(q.op)
<1>1. pc' = [pc EXCEPT ![r] = next]
  BY DEF Found, Goto
<1>2. /\ next \in {"forbidden", "ok", "reload", "delete", "insertLesson",
                   "findLesson", "findEnrollment"}
      /\ OpOK(next, q.op)
  <2>1. q.op \in {"get", "enroll", "update", "remove", "addLesson",
                  "updateLesson", "removeLesson"}
    BY DEF Call, Ops, OwnerOps
  <2>2. QED BY <2>1 DEF Continue, OpOK
<1>3. Assign(e, q.dto) \in Entity
  BY AssignType DEF Call
<1>4. ent' = [ent EXCEPT ![r] = IF next = "reload" THEN Assign(e, q.dto)
                               ELSE None]
  BY DEF Found
<1> HIDE DEF next
<1>5. ent'[r] \in Entity \cup {None} /\ (next = "reload" => ent'[r] \in Entity)
  BY <1>2, <1>3, <1>4 DEF TypeOK
<1>6. pc'[r] = next
  BY <1>1 DEF TypeOK
<1>7. StepOK(r)'
  BY <1>2, <1>5, <1>6 DEF StepOK
<1>8. QED
  BY <1>1, <1>2, <1>4, <1>5, <1>7 DEF TypeOK, Steps, Answers

----------------------------------------------------------------------------
(* Arrival *)

LEMMA FindByIdType ==
    ASSUME TypeOK, NEW r \in Requests, NEW q, CallOK(q),
           q.op \notin {"list", "create"}, FindById(r, q)
    PROVE  TypeOK'
<1>1. q \in Call /\ q.target \in CourseIds
  BY DEF CallOK, Call, Keys
<1>2. /\ pc[r] = "idle" /\ pend[r] = {}
      /\ req' = [req EXCEPT ![r] = q]
      /\ UNCHANGED <<db, cache, old, pend, history>>
  BY DEF FindById, Arrive, TypeOK, StepOK
<1>3. req'[r] = q /\ req' \in [Requests -> Call \cup {None}]
  BY <1>1, <1>2 DEF TypeOK
<1>4. /\ pc' \in [Requests -> {"idle"} \cup Steps \cup Answers]
      /\ ent' \in [Requests -> Entity \cup Listing \cup {None}]
      /\ StepOK(r)'
      /\ \A x \in Requests \ {r} : pc'[x] = pc[x] /\ ent'[x] = ent[x]
  <2>1. CASE cache[q.target] # None /\ Found(r, q, cache[q.target])
    <3>1. cache[q.target] \in Entity
      BY <1>1, <2>1 DEF TypeOK, Keys
    <3>2. QED BY <1>1, <1>2, <1>3, <2>1, <3>1, FoundType
  <2>2. CASE Goto(r, "read") /\ UNCHANGED ent
    <3>1. OpOK("read", q.op)
      BY DEF OpOK
    <3>2. pc'[r] = "read"
      BY <2>2 DEF Goto, TypeOK
    <3>3. StepOK(r)'
      BY <1>2, <1>3, <3>1, <3>2 DEF StepOK
    <3>4. QED BY <2>2, <3>3 DEF Goto, TypeOK, Steps
  <2>3. QED BY <2>1, <2>2 DEF FindById
<1>5. \A x \in Requests : StepOK(x)'
  <2>1. ASSUME NEW x \in Requests \ {r} PROVE StepOK(x)'
    <3>1. /\ StepOK(x) /\ req'[x] = req[x]
          /\ old'[x] = old[x] /\ pend'[x] = pend[x]
      BY <1>2 DEF TypeOK
    <3>2. QED BY <1>4, <3>1, StepFrame
  <2>2. QED BY <1>4, <2>1
<1>6. QED BY <1>2, <1>3, <1>4, <1>5 DEF TypeOK, db, history

\* Calls without a body, and with one
LEMMA OnType ==
    ASSUME NEW op \in Ops, NEW u \in Users \cup {None},
           NEW t \in Keys \cup {None}
    PROVE  /\ On(op, u, t) \in Call
           /\ \A dto \in Dto : [On(op, u, t) EXCEPT !.dto = dto] \in Call
           /\ \A x \in Titles : [On(op, u, t) EXCEPT !.dto.title = x] \in Call
           /\ \A l \in LessonIds : [On(op, u, t) EXCEPT !.lesson = l] \in Call
           /\ \A l \in LessonIds, x \in Titles :
                [On(op, u, t) EXCEPT !.lesson = l, !.dto.title = x] \in Call
BY DEF On, Call, Dto, NoDto

LEMMA KnownType == Known \subseteq CourseIds /\ KnownLessons \subseteq LessonIds
BY DEF Known, KnownLessons, CourseIds, LessonIds

\* Apart from POST and the list, an endpoint begins with findById
LEMMA ArrivalCall ==
    ASSUME NEW r, Arrival(r), ~CreateCourse(r), ~ListCourses(r)
    PROVE  \E q : CallOK(q) /\ q.op \notin {"list", "create"} /\ FindById(r, q)
<1> USE KnownType DEF Keys
<1>0. \A c \in CourseIds : c \notin ListKeys /\ c # None
  BY DEF Keys
<1>1. CASE GetCourse(r)
  <2>1. PICK c \in Known : FindById(r, On("get", None, c))
    BY <1>1 DEF GetCourse
  <2>2. CallOK(On("get", None, c))
    BY <1>0, OnType DEF CallOK, On, Ops
  <2>3. QED BY <2>1, <2>2 DEF On
<1>2. CASE UpdateCourse(r)
  <2>1. PICK u \in Users, c \in Known, dto \in Patches :
          FindById(r, [On("update", u, c) EXCEPT !.dto = dto])
    BY <1>2 DEF UpdateCourse
  <2>2. CallOK([On("update", u, c) EXCEPT !.dto = dto])
    BY <1>0, OnType DEF CallOK, On, Ops, OwnerOps
  <2>3. QED BY <2>1, <2>2 DEF On
<1>3. CASE RemoveCourse(r)
  <2>1. PICK u \in Users, c \in Known : FindById(r, On("remove", u, c))
    BY <1>3 DEF RemoveCourse
  <2>2. CallOK(On("remove", u, c))
    BY <1>0, OnType DEF CallOK, On, Ops, OwnerOps
  <2>3. QED BY <2>1, <2>2 DEF On
<1>4. CASE AddLesson(r)
  <2>1. PICK u \in Users, c \in Known, t \in Titles :
          FindById(r, [On("addLesson", u, c) EXCEPT !.dto.title = t])
    BY <1>4 DEF AddLesson
  <2>2. CallOK([On("addLesson", u, c) EXCEPT !.dto.title = t])
    BY <1>0, OnType DEF CallOK, On, Ops, OwnerOps, NoDto
  <2>3. QED BY <2>1, <2>2 DEF On
<1>5. CASE UpdateLesson(r)
  <2>1. PICK u \in Users, c \in Known, l \in KnownLessons, t \in Titles :
          FindById(r, [On("updateLesson", u, c)
                         EXCEPT !.lesson = l, !.dto.title = t])
    BY <1>5 DEF UpdateLesson
  <2>2. CallOK([On("updateLesson", u, c) EXCEPT !.lesson = l, !.dto.title = t])
    BY <1>0, OnType DEF CallOK, On, Ops, OwnerOps, NoDto
  <2>3. QED BY <2>1, <2>2 DEF On
<1>6. CASE RemoveLesson(r)
  <2>1. PICK u \in Users, c \in Known, l \in KnownLessons :
          FindById(r, [On("removeLesson", u, c) EXCEPT !.lesson = l])
    BY <1>6 DEF RemoveLesson
  <2>2. CallOK([On("removeLesson", u, c) EXCEPT !.lesson = l])
    BY <1>0, OnType DEF CallOK, On, Ops, OwnerOps
  <2>3. QED BY <2>1, <2>2 DEF On
<1>7. CASE Enroll(r)
  <2>1. PICK u \in Users, c \in Known : FindById(r, On("enroll", u, c))
    BY <1>7 DEF Enroll
  <2>2. CallOK(On("enroll", u, c))
    BY <1>0, OnType DEF CallOK, On, Ops
  <2>3. QED BY <2>1, <2>2 DEF On
<1>8. QED
  BY <1>1, <1>2, <1>3, <1>4, <1>5, <1>6, <1>7 DEF Arrival

LEMMA ArrivalType ==
    ASSUME TypeOK, NEW r \in Requests, Arrival(r)
    PROVE  TypeOK'
<1>0. \A c \in CourseIds : c \notin ListKeys /\ c # None
  BY DEF Keys
<1> USE DEF Keys
<1>8. ASSUME NEW q, CallOK(q), Arrive(r, q), UNCHANGED ent,
             NEW step \in Steps \cup Answers, Goto(r, step), OpOK(step, q.op),
             step \notin {"fill", "reload", "save", "delete", "saveLesson",
                         "invalidate"}
      PROVE  TypeOK'
  <2>1. /\ pc[r] = "idle" /\ pend[r] = {}
        /\ req' = [req EXCEPT ![r] = q]
        /\ UNCHANGED <<db, cache, old, pend, history>>
    BY <1>8 DEF Arrive, TypeOK, StepOK
  <2>2. q \in Call
    BY <1>8 DEF CallOK
  <2>3. pc'[r] = step /\ req'[r] = q
    BY <1>8, <2>1 DEF Goto, TypeOK
  <2>4. StepOK(r)'
    <3>1. step # "idle"
      BY DEF Steps, Answers
    <3>2. QED BY <1>8, <2>1, <2>3, <3>1 DEF StepOK
  <2>5. ASSUME NEW x \in Requests \ {r} PROVE StepOK(x)'
    BY <1>8, <2>1, StepFrame DEF TypeOK, Goto
  <2>6. QED BY <1>8, <2>1, <2>2, <2>4, <2>5 DEF TypeOK, db, history, Goto
<1>9. CASE CreateCourse(r)
  <2>1. PICK u \in Users, t \in Titles :
          /\ Arrive(r, [On("create", u, None) EXCEPT !.dto.title = t])
          /\ Goto(r, IF RoleOf[u] \in {"instructor", "admin"}
                     THEN "insertCourse" ELSE "forbidden")
          /\ UNCHANGED ent
    BY <1>9 DEF CreateCourse
  <2> DEFINE q == [On("create", u, None) EXCEPT !.dto.title = t]
  <2>2. CallOK(q) /\ q.op = "create"
    BY <1>0, OnType DEF CallOK, On, Ops, OwnerOps, NoDto
  <2>3. OpOK("insertCourse", q.op) /\ OpOK("forbidden", q.op)
    BY <2>2 DEF OpOK
  <2> HIDE DEF q
  <2>4. CASE Goto(r, "insertCourse")
    BY <1>8, <2>1, <2>2, <2>3, <2>4 DEF Steps, q
  <2>5. CASE Goto(r, "forbidden")
    BY <1>8, <2>1, <2>2, <2>3, <2>5 DEF Answers, q
  <2>6. QED BY <2>1, <2>4, <2>5
<1>10. CASE ListCourses(r)
  <2>1. PICK k \in ListKeys :
          /\ Arrive(r, On("list", None, k))
          /\ Goto(r, IF cache[k] # None THEN "ok" ELSE "read")
          /\ UNCHANGED ent
    BY <1>10 DEF ListCourses
  <2>2. CallOK(On("list", None, k)) /\ On("list", None, k).op = "list"
    BY OnType DEF CallOK, On, Ops, OwnerOps
  <2>3. OpOK("read", "list") /\ OpOK("ok", "list")
    BY DEF OpOK
  <2>4. CASE Goto(r, "ok")
    BY <1>8, <2>1, <2>2, <2>3, <2>4 DEF Answers
  <2>5. CASE Goto(r, "read")
    BY <1>8, <2>1, <2>2, <2>3, <2>5 DEF Steps
  <2>6. QED BY <2>1, <2>4, <2>5
<1>11. QED
  BY <1>9, <1>10, ArrivalCall, FindByIdType

----------------------------------------------------------------------------
(* Steps of a request *)

LEMMA OthersOK ==
    ASSUME TypeOK, NEW r \in Requests, UNCHANGED req,
           \A x \in Requests \ {r} : /\ pc'[x] = pc[x] /\ ent'[x] = ent[x]
                                     /\ old'[x] = old[x] /\ pend'[x] = pend[x]
    PROVE  \A x \in Requests \ {r} : StepOK(x)'
BY StepFrame DEF TypeOK

\* What is known of a request at a step
LEMMA AtStep ==
    ASSUME TypeOK, NEW r \in Requests, pc[r] # "idle"
    PROVE  /\ req[r] \in Call /\ CallOK(req[r]) /\ OpOK(pc[r], req[r].op)
           /\ req[r].op \notin {"list", "create"} => req[r].target \in CourseIds
           /\ req[r].op = "list" => req[r].target \in ListKeys
BY DEF TypeOK, StepOK, CallOK, Call, Keys

LEMMA InvalidateType ==
    ASSUME TypeOK, NEW r \in Requests, pc[r] # "idle", Invalidate(r),
           UNCHANGED req
    PROVE  /\ pc' \in [Requests -> {"idle"} \cup Steps \cup Answers]
           /\ pend' \in [Requests -> SUBSET (Keys \cup {"scan"})]
           /\ StepOK(r)'
           /\ \A x \in Requests \ {r} : pc'[x] = pc[x] /\ pend'[x] = pend[x]
<1>1. /\ pc' = [pc EXCEPT ![r] = "invalidate"]
      /\ pend' = [pend EXCEPT ![r] = Invalidations(req[r])]
  BY DEF Invalidate, Goto
<1>2. Invalidations(req[r]) \subseteq Keys \cup {"scan"}
  BY AtStep DEF Invalidations, CallOK, Call
<1>3. OpOK("invalidate", req[r].op) /\ CallOK(req[r])
  BY AtStep DEF OpOK
<1>4. QED BY <1>1, <1>2, <1>3 DEF TypeOK, StepOK, Steps

LEMMA SettleType ==
    ASSUME TypeOK, NEW r \in Requests, pc[r] = "invalidate",
           NEW left \in SUBSET (Keys \cup {"scan"}), Settle(r, left),
           UNCHANGED req
    PROVE  /\ pc' \in [Requests -> {"idle"} \cup Steps \cup Answers]
           /\ pend' \in [Requests -> SUBSET (Keys \cup {"scan"})]
           /\ StepOK(r)'
           /\ \A x \in Requests \ {r} : pc'[x] = pc[x] /\ pend'[x] = pend[x]
<1>1. pend' = [pend EXCEPT ![r] = left]
  BY DEF Settle
<1>2. PICK step \in {"invalidate", "insertEnrollment", "ok"} :
        /\ pc' = [pc EXCEPT ![r] = step]
        /\ step # "invalidate" => left = {}
        /\ step = "insertEnrollment" => req[r].op = "enroll"
  BY DEF Settle, Goto
<1>3. OpOK(step, req[r].op) /\ CallOK(req[r])
  BY <1>2, AtStep DEF OpOK
<1>4. QED BY <1>1, <1>2, <1>3 DEF TypeOK, StepOK, Steps, Answers

LEMMA ReadType ==
    ASSUME TypeOK, NEW r \in Requests, ReadCourse(r) \/ ReadList(r)
    PROVE  TypeOK'
<1>1. /\ pc[r] = "read" /\ pend[r] = {}
      /\ UNCHANGED <<db, cache, req, old, pend, history>>
  BY DEF ReadCourse, ReadList, TypeOK, StepOK
<1>2. PICK e, step :
        /\ step \in {"notFound", "fill"}
        /\ pc' = [pc EXCEPT ![r] = step]
        /\ ent' = [ent EXCEPT ![r] = e]
        /\ e \in Entity \cup Listing \cup {None}
        /\ step = "fill" => e \in IF req[r].op = "list" THEN Listing ELSE Entity
  <2>1. CASE ReadCourse(r)
    <3>1. req[r].target \in CourseIds /\ req[r].op # "list"
      BY <1>1, <2>1, AtStep DEF ReadCourse, Keys
    <3>2. QED BY <2>1, <3>1, ViewType DEF ReadCourse, Goto
  <2>2. CASE ReadList(r)
    <3>1. req[r].target \in ListKeys /\ req[r].op = "list"
      BY <1>1, <2>2, AtStep DEF ReadList, CallOK
    <3>2. QED BY <2>2, <3>1, ListType DEF ReadList, Goto
  <2>3. QED BY <2>1, <2>2
<1>3. OpOK(step, req[r].op) /\ CallOK(req[r])
  BY <1>1, <1>2, AtStep DEF OpOK
<1>4. StepOK(r)'
  BY <1>1, <1>2, <1>3 DEF StepOK, TypeOK
<1>5. \A x \in Requests \ {r} : StepOK(x)'
  BY <1>1, <1>2, OthersOK
<1>6. QED BY <1>1, <1>2, <1>4, <1>5 DEF TypeOK, db, history, Steps, Answers

LEMMA FillType ==
    ASSUME TypeOK, NEW r \in Requests, Fill(r)
    PROVE  TypeOK'
<1> DEFINE k == req[r].target
<1>1. /\ pc[r] = "fill" /\ pend[r] = {}
      /\ ent[r] \in IF req[r].op = "list" THEN Listing ELSE Entity
      /\ cache' = [cache EXCEPT ![k] = ent[r]]
      /\ raced' \in {raced \ {k}, raced \cup {k}}
      /\ UNCHANGED <<db, req, old, pend, clobbered, bumped>>
  BY DEF Fill, TypeOK, StepOK
<1>2. /\ req[r] \in Call /\ CallOK(req[r]) /\ req[r].op # "create"
      /\ k \in Keys /\ (k \in ListKeys <=> req[r].op = "list")
  BY <1>1, AtStep DEF OpOK, CallOK, Keys
<1>3. /\ cache' \in [Keys -> Entity \cup Listing \cup {None}]
      /\ \A j \in Keys : cache'[j] # None =>
           cache'[j] \in IF j \in ListKeys THEN Listing ELSE Entity
  BY <1>1, <1>2 DEF TypeOK
<1>4. /\ pc' \in [Requests -> {"idle"} \cup Steps \cup Answers]
      /\ ent' \in [Requests -> Entity \cup Listing \cup {None}]
      /\ StepOK(r)'
      /\ \A x \in Requests \ {r} : pc'[x] = pc[x] /\ ent'[x] = ent[x]
  <2>1. CASE req[r].op = "list"
    <3>1. pc' = [pc EXCEPT ![r] = "ok"] /\ ent' = [ent EXCEPT ![r] = None]
      BY <2>1 DEF Fill, Goto
    <3>2. OpOK("ok", req[r].op)
      BY DEF OpOK
    <3>3. QED BY <1>1, <1>2, <3>1, <3>2 DEF TypeOK, StepOK, Answers
  <2>2. CASE req[r].op # "list"
    BY <1>1, <1>2, <2>2, FoundType DEF Fill
  <2>3. QED BY <2>1, <2>2
<1>5. \A x \in Requests \ {r} : StepOK(x)'
  BY <1>1, <1>4, OthersOK
<1>6. raced' \subseteq Keys
  BY <1>1, <1>2 DEF TypeOK
<1>7. QED BY <1>1, <1>3, <1>4, <1>5, <1>6 DEF TypeOK, db

LEMMA DeletionType ==
    ASSUME TypeOK, NEW r \in Requests, (\E k \in Keys : Del(r, k)) \/ Scan(r)
    PROVE  TypeOK'
<1>1. pc[r] = "invalidate"
  BY DEF Del, Scan, TypeOK, StepOK
<1>2. UNCHANGED <<db, req, ent, old, clobbered, bumped>>
  BY DEF Del, Scan, locals, history
<1>3. PICK left \in SUBSET (Keys \cup {"scan"}) : Settle(r, left)
  BY DEF Del, Scan, TypeOK, Keys
<1>4. /\ pc' \in [Requests -> {"idle"} \cup Steps \cup Answers]
      /\ pend' \in [Requests -> SUBSET (Keys \cup {"scan"})]
      /\ StepOK(r)'
      /\ \A x \in Requests \ {r} : pc'[x] = pc[x] /\ pend'[x] = pend[x]
  BY <1>1, <1>2, <1>3, SettleType
<1>5. \A x \in Requests \ {r} : StepOK(x)'
  BY <1>2, <1>4, OthersOK
<1>6. /\ raced' \subseteq Keys
      /\ cache' \in [Keys -> Entity \cup Listing \cup {None}]
      /\ \A k \in Keys : cache'[k] # None =>
           cache'[k] \in IF k \in ListKeys THEN Listing ELSE Entity
  <2>1. ASSUME NEW k \in Keys, Del(r, k)
        PROVE  cache' = [cache EXCEPT ![k] = None] /\ raced' \subseteq raced
    BY <2>1 DEF Del
  <2>2. CASE Scan(r)
    BY <2>2 DEF Scan, TypeOK, history
  <2>3. CASE \E k \in Keys : Del(r, k)
    BY <2>1, <2>3 DEF TypeOK
  <2>4. QED BY <2>2, <2>3
<1>7. QED BY <1>2, <1>4, <1>5, <1>6 DEF TypeOK, db

----------------------------------------------------------------------------
(* Writes *)

\* A step to a place that asks nothing of the locals
LEMMA GotoType ==
    ASSUME TypeOK, NEW r \in Requests, pc[r] \notin {"idle", "invalidate"},
           NEW step \in Steps \cup Answers, Goto(r, step), UNCHANGED <<req, pend>>,
           OpOK(step, req[r].op),
           step \notin {"fill", "reload", "save", "delete", "saveLesson"}
    PROVE  /\ pc' \in [Requests -> {"idle"} \cup Steps \cup Answers]
           /\ pend' \in [Requests -> SUBSET (Keys \cup {"scan"})]
           /\ StepOK(r)'
           /\ \A x \in Requests \ {r} : pc'[x] = pc[x] /\ pend'[x] = pend[x]
<1>1. CallOK(req[r]) /\ pend[r] = {}
  BY AtStep DEF TypeOK, StepOK
<1>2. step # "idle"
  BY DEF Steps, Answers
<1>3. QED BY <1>1, <1>2 DEF Goto, TypeOK, StepOK

LEMMA ReloadType ==
    ASSUME TypeOK, NEW r \in Requests, Reload(r)
    PROVE  TypeOK'
<1>1. /\ pc[r] = "reload" /\ pend[r] = {} /\ ent[r] \in Entity
      /\ pc' = [pc EXCEPT ![r] = "save"]
      /\ old' = [old EXCEPT ![r] = View(req[r].target)]
      /\ UNCHANGED <<db, cache, req, ent, pend, history>>
  BY DEF Reload, Goto, TypeOK, StepOK
<1>2. /\ CallOK(req[r]) /\ req[r].op = "update"
      /\ View(req[r].target) \in Entity \cup {None}
  BY <1>1, AtStep, ViewType DEF OpOK
<1>3. StepOK(r)'
  BY <1>1, <1>2 DEF StepOK, TypeOK, OpOK
<1>4. \A x \in Requests \ {r} : StepOK(x)'
  BY <1>1, OthersOK
<1>5. QED BY <1>1, <1>2, <1>3, <1>4 DEF TypeOK, db, history, Steps

LEMMA SavedType ==
    ASSUME TypeOK, NEW c \in CourseIds, NEW e \in Entity,
           NEW o \in Entity \cup {None}
    PROVE  /\ SavedRow(c, e, o) \in CourseRow \cup {None}
           /\ \A l \in LessonIds : SavedLesson(c, e, o, l) \in LessonRow \cup {None}
<1>1. SavedRow(c, e, o) \in CourseRow \cup {None}
  <2>1. CASE o = None
    BY <2>1 DEF SavedRow, Entity
  <2>2. CASE o # None /\ courses[c] = None
    BY <2>2 DEF SavedRow
  <2>3. CASE o # None /\ courses[c] # None
    <3>1. courses[c] \in CourseRow /\ e.row \in CourseRow /\ o.row \in CourseRow
      BY <2>3 DEF TypeOK, Entity
    <3>2. QED BY <2>3, <3>1 DEF SavedRow, CourseRow, Changed
  <2>4. QED BY <2>1, <2>2, <2>3
<1>2. ASSUME NEW l \in LessonIds
      PROVE  SavedLesson(c, e, o, l) \in LessonRow \cup {None}
  <2>1. e.lessons[l] \in Titles \cup {None}
    BY DEF Entity
  <2>2. lessons[l] \in LessonRow \cup {None}
    BY DEF TypeOK
  <2>3. CASE l \in Added(e, o)
    BY <2>1, <2>3 DEF SavedLesson, Added, LessonRow
  <2>4. CASE l \notin Added(e, o) /\ (e.lessons[l] = None \/ lessons[l] = None)
    BY <2>2, <2>4 DEF SavedLesson
  <2>5. CASE l \notin Added(e, o) /\ e.lessons[l] # None /\ lessons[l] # None
    BY <2>1, <2>2, <2>5 DEF SavedLesson, Changed, LessonRow
  <2>6. QED BY <2>3, <2>4, <2>5
<1>3. QED BY <1>1, <1>2

LEMMA SaveType ==
    ASSUME TypeOK, NEW r \in Requests, Save(r)
    PROVE  TypeOK'
<1> DEFINE c == req[r].target
           e == ent[r]
           o == old[r]
<1>1. /\ pc[r] = "save" /\ e \in Entity /\ o \in Entity \cup {None}
      /\ ent' = [ent EXCEPT ![r] = None]
      /\ old' = [old EXCEPT ![r] = None]
      /\ UNCHANGED <<enrollments, cache, req, raced, bumped>>
  BY DEF Save, TypeOK, StepOK
<1>2. req[r].op = "update" /\ c \in CourseIds
  BY <1>1, AtStep DEF OpOK
<1>3. /\ courses' \in [CourseIds -> CourseRow \cup {None}]
      /\ lessons' \in [LessonIds -> LessonRow \cup {None}]
      /\ clobbered' \subseteq CourseIds
      /\ pc' \in [Requests -> {"idle"} \cup Steps \cup Answers]
      /\ pend' \in [Requests -> SUBSET (Keys \cup {"scan"})]
      /\ StepOK(r)'
      /\ \A x \in Requests \ {r} : pc'[x] = pc[x] /\ pend'[x] = pend[x]
  <2>1. CASE SaveFails(c, e, o)
    <3>1. Goto(r, "error") /\ UNCHANGED <<courses, lessons, pend, clobbered>>
      BY <2>1 DEF Save
    <3>2. OpOK("error", req[r].op)
      BY DEF OpOK
    <3>3. QED BY <1>1, <3>1, <3>2, GotoType DEF TypeOK, Answers
  <2>2. CASE ~SaveFails(c, e, o)
    <3>1. /\ courses' = [courses EXCEPT ![c] = SavedRow(c, e, o)]
          /\ lessons' = [l \in LessonIds |-> SavedLesson(c, e, o, l)]
          /\ clobbered' \in {clobbered, clobbered \cup {c}}
          /\ Invalidate(r)
      BY <2>2 DEF Save
    <3>2. QED BY <1>1, <1>2, <3>1, SavedType, InvalidateType DEF TypeOK
  <2>3. QED BY <2>1, <2>2
<1>4. \A x \in Requests \ {r} : StepOK(x)'
  BY <1>1, <1>3, OthersOK
<1>5. QED BY <1>1, <1>3, <1>4 DEF TypeOK

LEMMA InsertCourseType ==
    ASSUME TypeOK, NEW r \in Requests, InsertCourse(r)
    PROVE  TypeOK'
<1>1. /\ pc[r] = "insertCourse" /\ Invalidate(r)
      /\ UNCHANGED <<lessons, enrollments, cache, req, ent, old, history>>
  BY DEF InsertCourse, locals
<1>2. req[r].dto.title \in Titles /\ req[r].user \in Users
  BY <1>1, AtStep DEF OpOK, CallOK
<1>3. courses' \in [CourseIds -> CourseRow \cup {None}]
  BY <1>2 DEF InsertCourse, TypeOK, CourseRow, Statuses, CourseIds
<1>4. /\ pc' \in [Requests -> {"idle"} \cup Steps \cup Answers]
      /\ pend' \in [Requests -> SUBSET (Keys \cup {"scan"})]
      /\ StepOK(r)'
      /\ \A x \in Requests \ {r} : pc'[x] = pc[x] /\ pend'[x] = pend[x]
  BY <1>1, InvalidateType
<1>5. \A x \in Requests \ {r} : StepOK(x)'
  BY <1>1, <1>4, OthersOK
<1>6. QED BY <1>1, <1>3, <1>4, <1>5 DEF TypeOK, history

----------------------------------------------------------------------------
(* Lessons and enrollments *)

\* A write to one row that may fail: the request answers or goes on
LEMMA WriteType ==
    ASSUME TypeOK, NEW r \in Requests, pc[r] \notin {"idle", "invalidate"},
           \/ Goto(r, "error") /\ UNCHANGED pend
           \/ Invalidate(r),
           UNCHANGED <<cache, req, ent, history>>,
           \A x \in Requests \ {r} : old'[x] = old[x],
           old' \in [Requests -> Entity \cup LessonRow \cup {None}],
           courses' \in [CourseIds -> CourseRow \cup {None}],
           lessons' \in [LessonIds -> LessonRow \cup {None}],
           UNCHANGED enrollments
    PROVE  TypeOK'
<1>1. /\ pc' \in [Requests -> {"idle"} \cup Steps \cup Answers]
      /\ pend' \in [Requests -> SUBSET (Keys \cup {"scan"})]
      /\ StepOK(r)'
      /\ \A x \in Requests \ {r} : pc'[x] = pc[x] /\ pend'[x] = pend[x]
  <2>1. CASE Goto(r, "error") /\ UNCHANGED pend
    <3>1. OpOK("error", req[r].op)
      BY DEF OpOK
    <3>2. QED BY <2>1, <3>1, GotoType DEF Answers
  <2>2. CASE Invalidate(r)
    BY <2>2, InvalidateType
  <2>3. QED BY <2>1, <2>2
<1>2. \A x \in Requests \ {r} : StepOK(x)'
  BY <1>1, OthersOK
<1>3. QED BY <1>1, <1>2 DEF TypeOK, history

LEMMA DeleteType ==
    ASSUME TypeOK, NEW r \in Requests, Delete(r)
    PROVE  TypeOK'
<1> DEFINE c == req[r].target
<1>1. /\ courses' \in [CourseIds -> CourseRow \cup {None}]
      /\ lessons' \in [LessonIds -> LessonRow \cup {None}]
  <2>1. CASE UNCHANGED <<courses, lessons>>
    BY <2>1 DEF TypeOK
  <2>2. CASE /\ courses' = [courses EXCEPT ![c] = None]
             /\ lessons' = [l \in LessonIds |->
                              IF lessons[l] # None /\ lessons[l].courseId = c
                              THEN None ELSE lessons[l]]
    BY <2>2 DEF TypeOK
  <2>3. QED BY <2>1, <2>2 DEF Delete
<1>2. QED BY <1>1, WriteType DEF Delete, TypeOK, locals

LEMMA LessonWriteType ==
    ASSUME TypeOK, NEW r \in Requests,
           InsertLesson(r) \/ SaveLesson(r) \/ DeleteLesson(r)
    PROVE  TypeOK'
<1>1. CASE InsertLesson(r)
  <2>1. /\ pc[r] = "insertLesson" /\ req[r].target \in CourseIds
        /\ req[r].dto.title \in Titles
    BY <1>1, AtStep DEF InsertLesson, OpOK, CallOK
  <2>2. lessons' \in [LessonIds -> LessonRow \cup {None}]
    BY <1>1, <2>1 DEF InsertLesson, TypeOK, LessonRow, LessonIds
  <2>3. QED BY <1>1, <2>1, <2>2, WriteType DEF InsertLesson, TypeOK, locals
<1>2. CASE SaveLesson(r)
  <2>1. /\ pc[r] = "saveLesson" /\ req[r].target \in CourseIds
        /\ req[r].lesson \in LessonIds /\ req[r].dto.title \in Titles
    BY <1>2, AtStep DEF SaveLesson, OpOK, CallOK
  <2>2. lessons' \in [LessonIds -> LessonRow \cup {None}]
    BY <1>2, <2>1 DEF SaveLesson, TypeOK, LessonRow, Changed
  <2>3. old' = [old EXCEPT ![r] = None]
    BY <1>2 DEF SaveLesson
  <2>4. QED BY <1>2, <2>1, <2>2, <2>3, WriteType DEF SaveLesson, TypeOK
<1>3. CASE DeleteLesson(r)
  <2>1. pc[r] = "deleteLesson"
    BY <1>3 DEF DeleteLesson
  <2>2. lessons' \in [LessonIds -> LessonRow \cup {None}]
    BY <1>3 DEF DeleteLesson, TypeOK
  <2>3. QED BY <1>3, <2>1, <2>2, WriteType DEF DeleteLesson, TypeOK, locals
<1>4. QED BY <1>1, <1>2, <1>3

LEMMA IncrementType ==
    ASSUME TypeOK, NEW r \in Requests, Increment(r)
    PROVE  TypeOK'
<1> DEFINE c == req[r].target
<1>1. /\ pc[r] = "increment" /\ Invalidate(r)
      /\ bumped' \in {bumped, bumped \cup {r}}
      /\ UNCHANGED <<lessons, enrollments, cache, req, ent, old, raced, clobbered>>
  BY DEF Increment, locals
<1>2. courses' \in [CourseIds -> CourseRow \cup {None}]
  <2>1. c \in CourseIds
    BY <1>1, AtStep DEF OpOK
  <2>2. CASE courses[c] = None
    BY <2>2 DEF Increment, TypeOK
  <2>3. CASE courses[c] # None
    <3>1. courses' = [courses EXCEPT ![c].enrollmentCount =
                                       courses[c].enrollmentCount + 1]
      BY <2>3 DEF Increment, Incremented
    <3>2. courses[c] \in CourseRow
      BY <2>1, <2>3 DEF TypeOK
    <3>3. [courses[c] EXCEPT !.enrollmentCount = courses[c].enrollmentCount + 1]
            \in CourseRow
      BY <3>2 DEF CourseRow
    <3>4. QED BY <2>1, <3>1, <3>3 DEF TypeOK
  <2>4. QED BY <2>2, <2>3
<1>3. /\ pc' \in [Requests -> {"idle"} \cup Steps \cup Answers]
      /\ pend' \in [Requests -> SUBSET (Keys \cup {"scan"})]
      /\ StepOK(r)'
      /\ \A x \in Requests \ {r} : pc'[x] = pc[x] /\ pend'[x] = pend[x]
  BY <1>1, InvalidateType
<1>4. \A x \in Requests \ {r} : StepOK(x)'
  BY <1>1, <1>3, OthersOK
<1>5. QED BY <1>1, <1>2, <1>3, <1>4 DEF TypeOK

LEMMA ReloadLessonType ==
    ASSUME TypeOK, NEW r \in Requests, ReloadLesson(r)
    PROVE  TypeOK'
<1>1. /\ pc[r] = "reloadLesson" /\ pend[r] = {}
      /\ pc' = [pc EXCEPT ![r] = "saveLesson"]
      /\ old' = [old EXCEPT ![r] = lessons[req[r].lesson]]
      /\ UNCHANGED <<db, cache, req, ent, pend, history>>
  BY DEF ReloadLesson, Goto, TypeOK, StepOK
<1>2. CallOK(req[r]) /\ req[r].op = "updateLesson"
  BY <1>1, AtStep DEF OpOK
<1>3. lessons[req[r].lesson] \in LessonRow \cup {None}
  BY <1>2 DEF CallOK, TypeOK
<1>4. StepOK(r)'
  BY <1>1, <1>2, <1>3 DEF StepOK, TypeOK, OpOK
<1>5. \A x \in Requests \ {r} : StepOK(x)'
  BY <1>1, OthersOK
<1>6. QED BY <1>1, <1>3, <1>4, <1>5 DEF TypeOK, db, history, Steps

\* Steps that read, and the INSERT of an enrollment
LEMMA FindType ==
    ASSUME TypeOK, NEW r \in Requests,
           FindLesson(r) \/ FindEnrollment(r) \/ InsertEnrollment(r)
    PROVE  TypeOK'
<1>1. /\ pc[r] \in {"findLesson", "findEnrollment", "insertEnrollment"}
      /\ UNCHANGED <<courses, lessons, cache, req, ent, old, pend, history>>
  BY DEF FindLesson, FindEnrollment, InsertEnrollment, db, locals
<1>2. PICK step \in {"notFound", "reloadLesson", "deleteLesson", "conflict",
                     "increment", "error", "ok"} :
        Goto(r, step) /\ OpOK(step, req[r].op)
  BY <1>1, AtStep DEF FindLesson, FindEnrollment, InsertEnrollment, OpOK
<1>3. enrollments' \subseteq Enrollment
  <2>1. CASE InsertEnrollment(r)
    <3>1. req[r].user \in Users /\ req[r].target \in CourseIds
      BY <2>1, AtStep DEF InsertEnrollment, OpOK, CallOK
    <3>2. QED BY <2>1, <3>1 DEF InsertEnrollment, TypeOK, Enrollment
  <2>2. CASE FindLesson(r) \/ FindEnrollment(r)
    BY <2>2 DEF FindLesson, FindEnrollment, db, TypeOK
  <2>3. QED BY <2>1, <2>2
<1>4. /\ pc' \in [Requests -> {"idle"} \cup Steps \cup Answers]
      /\ pend' \in [Requests -> SUBSET (Keys \cup {"scan"})]
      /\ StepOK(r)'
      /\ \A x \in Requests \ {r} : pc'[x] = pc[x] /\ pend'[x] = pend[x]
  BY <1>1, <1>2, GotoType DEF Steps, Answers
<1>5. \A x \in Requests \ {r} : StepOK(x)'
  BY <1>1, <1>4, OthersOK
<1>6. QED BY <1>1, <1>3, <1>4, <1>5 DEF TypeOK, history

----------------------------------------------------------------------------
(* Failures and expiry *)

LEMMA FailType ==
    ASSUME TypeOK, NEW r \in Requests, Fail(r)
    PROVE  TypeOK'
<1>1. /\ pc[r] \in Steps
      /\ pc' = [pc EXCEPT ![r] = "error"]
      /\ ent' = [ent EXCEPT ![r] = None]
      /\ old' = [old EXCEPT ![r] = None]
      /\ pend' = [pend EXCEPT ![r] = {}]
      /\ raced' = raced \cup Lost(r)
      /\ UNCHANGED <<db, cache, req, clobbered, bumped>>
  BY DEF Fail, Goto
<1>2. CallOK(req[r]) /\ OpOK("error", req[r].op)
  BY <1>1, AtStep DEF OpOK, Steps
<1>3. StepOK(r)'
  BY <1>1, <1>2 DEF StepOK, TypeOK
<1>4. \A x \in Requests \ {r} : StepOK(x)'
  BY <1>1, OthersOK
<1>5. QED BY <1>1, <1>3, <1>4 DEF TypeOK, db, Lost, Answers

LEMMA ExpireType ==
    ASSUME TypeOK, NEW k \in Keys, Expire(k)
    PROVE  TypeOK'
<1>1. \A x \in Requests : StepOK(x)'
  BY StepFrame DEF TypeOK, Expire, locals
<1>2. QED BY <1>1 DEF TypeOK, Expire, db, locals

----------------------------------------------------------------------------
(* Type correctness *)

LEMMA InitType == Init => TypeOK
<1> SUFFICES ASSUME Init PROVE TypeOK
  OBVIOUS
<1>1. courses \in [CourseIds -> CourseRow \cup {None}]
  BY DEF Init, CourseRow
<1>2. lessons \in [LessonIds -> LessonRow \cup {None}]
  BY DEF Init, LessonRow, CourseIds
<1>3. \A r \in Requests : StepOK(r)
  BY DEF Init, StepOK
<1>4. QED BY <1>1, <1>2, <1>3 DEF Init, TypeOK

LEMMA StepType ==
    ASSUME TypeOK, NEW r \in Requests, Serve(r)
    PROVE  TypeOK'
BY ReadType, FillType, DeletionType, ReloadType, SaveType, InsertCourseType,
   DeleteType, LessonWriteType, ReloadLessonType, FindType, IncrementType
   DEF Serve

LEMMA NextType == TypeOK /\ [Next]_vars => TypeOK'
<1> SUFFICES ASSUME TypeOK, [Next]_vars PROVE TypeOK'
  OBVIOUS
<1>1. ASSUME NEW r \in Requests, Arrival(r) PROVE TypeOK'
  BY <1>1, ArrivalType
<1>2. ASSUME NEW r \in Requests, Serve(r) PROVE TypeOK'
  BY <1>2, StepType
<1>3. ASSUME NEW r \in Requests, Fail(r) PROVE TypeOK'
  BY <1>3, FailType
<1>4. ASSUME NEW k \in Keys, Expire(k) PROVE TypeOK'
  BY <1>4, ExpireType
<1>5. CASE UNCHANGED vars
  <2>1. \A x \in Requests : StepOK(x)'
    BY <1>5, StepFrame DEF TypeOK, vars, locals
  <2>2. QED BY <1>5, <2>1 DEF TypeOK, vars, db, locals, history
<1>6. QED BY <1>1, <1>2, <1>3, <1>4, <1>5 DEF Next

\* Whatever the requests do and in whatever order, tables, cache and handlers
\* hold values of their types, and each handler holds what its step needs
THEOREM TypeCorrect == Spec => []TypeOK
<1>1. Init => TypeOK
  BY InitType
<1>2. TypeOK /\ [Next]_vars => TypeOK'
  BY NextType
<1>3. QED BY <1>1, <1>2, PTL DEF Spec
----------------------------------------------------------------------------
(* Homes of lessons *)

\* What a course's entity shows are lessons of that course
LEMMA ViewHome ==
    ASSUME TypeOK, LessonsStayHome, NEW c \in CourseIds, View(c) # None,
           NEW l \in LessonIds, View(c).lessons[l] # None
    PROVE  InHome(l, c)
<1>1. lessons[l] # None /\ lessons[l].courseId = c
  BY DEF View
<1>2. QED BY <1>1 DEF LessonsStayHome, RowsAtHome

\* A lesson has one home
LEMMA HomeUnique ==
    ASSUME NEW l, NEW c, NEW d, InHome(l, c), InHome(l, d)
    PROVE  c = d
BY DEF InHome

\* Homes are never lost: a request that has arrived stays what it is
LEMMA HomeStable ==
    ASSUME TypeOK, [Next]_vars
    PROVE  /\ \A r \in Requests : req[r] # None => req'[r] = req[r]
           /\ \A l \in LessonIds : \A c : InHome(l, c) => InHome(l, c)'
<1>1. \A r \in Requests : req[r] # None => req'[r] = req[r]
  <2>1. ASSUME NEW r \in Requests, NEW q, Arrive(r, q)
        PROVE  \A x \in Requests : req[x] # None => req'[x] = req[x]
    BY <2>1 DEF Arrive, TypeOK, StepOK
  <2>2. ASSUME NEW r \in Requests, Arrival(r)
        PROVE  \E q : Arrive(r, q)
    BY <2>2 DEF Arrival, GetCourse, UpdateCourse, RemoveCourse, CreateCourse,
                AddLesson, UpdateLesson, RemoveLesson, Enroll, ListCourses, FindById
  <2>3. ASSUME NEW r \in Requests, Serve(r)
        PROVE  UNCHANGED req
    BY <2>3 DEF Serve, ReadCourse, ReadList, Fill, Del, Scan, Reload, Save,
                InsertCourse, Delete, InsertLesson, FindLesson, ReloadLesson,
                SaveLesson, DeleteLesson, FindEnrollment, Increment,
                InsertEnrollment, locals
  <2>4. ASSUME NEW r \in Requests, Fail(r)
        PROVE  UNCHANGED req
    BY <2>4 DEF Fail
  <2>5. ASSUME NEW k \in Keys, Expire(k)
        PROVE  UNCHANGED req
    BY <2>5 DEF Expire, locals
  <2>6. QED BY <2>1, <2>2, <2>3, <2>4, <2>5 DEF Next, vars, locals
<1>2. QED BY <1>1 DEF InHome, LessonIds

----------------------------------------------------------------------------
(* Lessons stay in their course *)

\* A step of one request leaves the place and the locals of the others alone
LEMMA ServeFrame ==
    ASSUME TypeOK, NEW r \in Requests, Serve(r) \/ Fail(r)
    PROVE  \A x \in Requests \ {r} : /\ pc'[x] = pc[x] /\ ent'[x] = ent[x]
                                     /\ req'[x] = req[x] /\ pend'[x] = pend[x]
<1> USE DEF Goto, Invalidate, Settle, locals, TypeOK
<1>1. CASE ReadCourse(r) \/ ReadList(r)
  BY <1>1 DEF ReadCourse, ReadList
<1>2. CASE Fill(r)
  BY <1>2 DEF Fill, Found
<1>3. CASE (\E k \in Keys : Del(r, k)) \/ Scan(r)
  BY <1>3 DEF Del, Scan
<1>4. CASE Reload(r)
  BY <1>4 DEF Reload
<1>5. CASE Save(r)
  BY <1>5 DEF Save
<1>6. CASE InsertCourse(r) \/ Delete(r)
  BY <1>6 DEF InsertCourse, Delete
<1>7. CASE InsertLesson(r) \/ FindLesson(r) \/ ReloadLesson(r)
  BY <1>7 DEF InsertLesson, FindLesson, ReloadLesson
<1>8. CASE SaveLesson(r) \/ DeleteLesson(r)
  BY <1>8 DEF SaveLesson, DeleteLesson
<1>9. CASE FindEnrollment(r) \/ Increment(r) \/ InsertEnrollment(r)
  BY <1>9 DEF FindEnrollment, Increment, InsertEnrollment
<1>10. CASE Fail(r)
  BY <1>10 DEF Fail
<1>11. QED
  BY <1>1, <1>2, <1>3, <1>4, <1>5, <1>6, <1>7, <1>8, <1>9, <1>10 DEF Serve

\* What an arrival does besides finding or missing an entity
LEMMA ArrivalFrame ==
    ASSUME TypeOK, NEW r \in Requests, Arrival(r)
    PROVE  /\ UNCHANGED <<db, cache, pend, raced>>
           /\ pc[r] = "idle"
           /\ \A x \in Requests \ {r} : pc'[x] = pc[x] /\ ent'[x] = ent[x]
           /\ pc'[r] \notin {"fill", "save", "saveLesson", "deleteLesson",
                            "reloadLesson"}
           /\ pc'[r] = "reload" =>
                /\ cache[req'[r].target] # None /\ req'[r].target \in CourseIds
                /\ req'[r] \in Call
                /\ ent'[r] = Assign(cache[req'[r].target], req'[r].dto)
<1>1. ASSUME NEW q \in Call, q.target \in CourseIds, q.op # "list", FindById(r, q)
      PROVE  /\ UNCHANGED <<db, cache, pend, raced>>
             /\ pc[r] = "idle"
             /\ \A x \in Requests \ {r} : pc'[x] = pc[x] /\ ent'[x] = ent[x]
             /\ pc'[r] \notin {"fill", "save", "saveLesson", "deleteLesson",
                              "reloadLesson"}
             /\ pc'[r] = "reload" =>
                  /\ cache[req'[r].target] # None /\ req'[r].target \in CourseIds
                  /\ req'[r] \in Call
                  /\ ent'[r] = Assign(cache[req'[r].target], req'[r].dto)
  <2>1. /\ UNCHANGED <<db, cache, pend, raced>> /\ pc[r] = "idle" /\ req'[r] = q
    BY <1>1 DEF FindById, Arrive, history, TypeOK
  <2>2. CASE cache[q.target] # None /\ Found(r, q, cache[q.target])
    BY <1>1, <2>1, <2>2 DEF Found, Goto, Continue, TypeOK
  <2>3. CASE Goto(r, "read") /\ UNCHANGED ent
    BY <2>1, <2>3 DEF Goto, TypeOK
  <2>4. QED BY <1>1, <2>2, <2>3 DEF FindById
<1>2. CASE CreateCourse(r)
  BY <1>2 DEF CreateCourse, Arrive, Goto, history, TypeOK
<1>3. CASE ListCourses(r)
  BY <1>3 DEF ListCourses, Arrive, Goto, history, TypeOK
<1>4. CASE ~CreateCourse(r) /\ ~ListCourses(r)
  <2>1. PICK q : CallOK(q) /\ q.op \notin {"list", "create"} /\ FindById(r, q)
    BY <1>4, ArrivalCall
  <2>2. QED BY <1>1, <2>1 DEF CallOK, Call, Keys
<1>5. QED BY <1>2, <1>3, <1>4

\* A step of the service, told apart by who takes it
LEMMA NextCases ==
    ASSUME [Next]_vars
    PROVE  \/ \E r \in Requests : Arrival(r)
           \/ \E r \in Requests : Serve(r)
           \/ \E r \in Requests : Fail(r)
           \/ \E k \in Keys : Expire(k)
           \/ UNCHANGED vars
BY DEF Next

LEMMA RowsStep ==
    ASSUME TypeOK, LessonsStayHome, [Next]_vars
    PROVE  RowsAtHome'
<1>1. \A l \in LessonIds : lessons'[l] # None =>
        \/ lessons[l] # None /\ lessons'[l].courseId = lessons[l].courseId
        \/ InHome(l, lessons'[l].courseId)
  <2>1. ASSUME NEW r \in Requests, Serve(r), lessons' # lessons,
               NEW l \in LessonIds, lessons'[l] # None
        PROVE  \/ lessons[l] # None /\ lessons'[l].courseId = lessons[l].courseId
               \/ InHome(l, lessons'[l].courseId)
    <3>1. CASE Save(r)
      <4>1. pc[r] = "save" /\ req[r].op = "update"
        BY <3>1, AtStep DEF Save, OpOK
      <4>2. lessons'[l] = SavedLesson(req[r].target, ent[r], old[r], l)
        BY <2>1, <3>1 DEF Save
      <4>3. CASE l \in Added(ent[r], old[r])
        <5>1. InHome(l, req[r].target)
          BY <4>1, <4>3 DEF Added, LessonsStayHome, EntitiesAtHome
        <5>2. QED BY <4>2, <4>3, <5>1 DEF SavedLesson
      <4>4. CASE l \notin Added(ent[r], old[r])
        BY <2>1, <4>2, <4>4 DEF SavedLesson
      <4>5. QED BY <4>3, <4>4
    <3>2. CASE Delete(r)
      BY <2>1, <3>2 DEF Delete
    <3>3. CASE InsertLesson(r)
      <4>1. req[r] # None /\ req[r].op = "addLesson"
        BY <3>3, AtStep DEF InsertLesson, OpOK
      <4>2. lessons' = [lessons EXCEPT ![r] =
                          [courseId |-> req[r].target, title |-> req[r].dto.title]]
        BY <2>1, <3>3 DEF InsertLesson
      <4>3. QED BY <2>1, <4>1, <4>2 DEF TypeOK, InHome
    <3>4. CASE SaveLesson(r)
      <4>1. InHome(req[r].lesson, req[r].target)
        BY <3>4 DEF SaveLesson, LessonsStayHome, TargetsAtHome
      <4>2. QED BY <2>1, <3>4, <4>1 DEF SaveLesson, TypeOK
    <3>5. CASE DeleteLesson(r)
      BY <2>1, <3>5 DEF DeleteLesson, TypeOK
    <3>6. QED
      BY <2>1, <3>1, <3>2, <3>3, <3>4, <3>5
         DEF Serve, db, ReadCourse, ReadList, Fill, Del, Scan, Reload,
             InsertCourse, FindLesson, ReloadLesson, FindEnrollment, Increment,
             InsertEnrollment
  <2>2. ASSUME NEW r \in Requests, Arrival(r) \/ Fail(r)
        PROVE  UNCHANGED lessons
    BY <2>2, ArrivalFrame DEF Fail, db
  <2>3. ASSUME NEW k \in Keys, Expire(k)
        PROVE  UNCHANGED lessons
    BY <2>3 DEF Expire, db
  <2>4. QED BY <2>1, <2>2, <2>3, NextCases DEF vars, db
<1>2. QED
  BY <1>1, HomeStable DEF RowsAtHome, LessonsStayHome

LEMMA EntriesStep ==
    ASSUME TypeOK, LessonsStayHome, [Next]_vars
    PROVE  EntriesAtHome'
<1>1. ASSUME NEW c \in CourseIds, NEW l \in LessonIds,
             cache'[c] # None, cache'[c].lessons[l] # None
      PROVE  InHome(l, c)
  <2>1. CASE cache'[c] = cache[c]
    BY <1>1, <2>1 DEF LessonsStayHome, EntriesAtHome
  <2>2. CASE cache'[c] # cache[c]
    <3>1. ASSUME NEW r \in Requests, Fill(r)
          PROVE  InHome(l, c)
      <4>1. c = req[r].target /\ cache'[c] = ent[r] /\ pc[r] = "fill"
        BY <2>2, <3>1 DEF Fill, TypeOK
      <4>2. req[r].op # "list"
        BY <4>1, AtStep DEF Keys
      <4>3. QED BY <1>1, <4>1, <4>2 DEF LessonsStayHome, EntitiesAtHome
    <3>2. ASSUME NEW r \in Requests, NEW k \in Keys, Del(r, k)
          PROVE  FALSE
      BY <1>1, <2>2, <3>2 DEF Del, TypeOK
    <3>3. ASSUME NEW k \in Keys, Expire(k)
          PROVE  FALSE
      BY <1>1, <2>2, <3>3 DEF Expire, TypeOK
    <3>4. ASSUME NEW r \in Requests, Serve(r)
          PROVE  InHome(l, c)
      BY <2>2, <3>1, <3>2, <3>4
         DEF Serve, ReadCourse, ReadList, Scan, Reload, Save, InsertCourse,
             Delete, InsertLesson, FindLesson, ReloadLesson, SaveLesson,
             DeleteLesson, FindEnrollment, Increment, InsertEnrollment
    <3>5. ASSUME NEW r \in Requests, Arrival(r) \/ Fail(r)
          PROVE  FALSE
      BY <2>2, <3>5, ArrivalFrame DEF Fail
    <3>6. QED BY <2>2, <3>3, <3>4, <3>5, NextCases DEF vars
  <2>3. QED BY <2>1, <2>2
<1>2. QED BY <1>1, HomeStable DEF EntriesAtHome

LEMMA EntitiesStep ==
    ASSUME TypeOK, LessonsStayHome, [Next]_vars
    PROVE  EntitiesAtHome'
<1>1. ASSUME NEW r \in Requests, NEW l \in LessonIds,
             pc'[r] \in {"fill", "reload", "save"}, req'[r].op # "list",
             ent'[r].lessons[l] # None
      PROVE  InHome(l, req'[r].target)
  <2>1. CASE pc'[r] = pc[r] /\ ent'[r] = ent[r] /\ req'[r] = req[r]
    BY <1>1, <2>1 DEF LessonsStayHome, EntitiesAtHome
  <2>2. CASE Arrival(r)
    <3>1. /\ cache[req'[r].target] # None /\ req'[r].target \in CourseIds
          /\ ent'[r] = Assign(cache[req'[r].target], req'[r].dto)
      BY <1>1, <2>2, ArrivalFrame
    <3>2. cache[req'[r].target] \in Entity
      BY <3>1 DEF TypeOK, Keys
    <3>3. ent'[r].lessons = cache[req'[r].target].lessons
      BY <3>1, <3>2 DEF Assign, Entity, CourseRow
    <3>4. QED BY <1>1, <3>1, <3>3 DEF LessonsStayHome, EntriesAtHome
  <2>3. CASE ReadCourse(r)
    <3>1. /\ req[r].target \in CourseIds /\ UNCHANGED req
          /\ ent'[r] = View(req[r].target) /\ pc'[r] # "notFound"
      BY <1>1, <2>3 DEF ReadCourse, Goto, TypeOK
    <3>2. View(req[r].target) # None
      BY <2>3, <3>1 DEF ReadCourse, Goto, TypeOK
    <3>3. QED BY <1>1, <3>1, <3>2, ViewHome
  <2>4. CASE Fill(r)
    <3>1. /\ pc[r] = "fill" /\ UNCHANGED req /\ req[r].op # "list"
          /\ Found(r, req[r], ent[r])
      BY <1>1, <2>4 DEF Fill
    <3>2. ent[r] \in Entity /\ req[r].op # "create"
      BY <3>1, AtStep DEF TypeOK, StepOK, OpOK
    <3>3. ent'[r] \in {Assign(ent[r], req[r].dto), ent[r], None}
          /\ pc'[r] # "fill" /\ pc'[r] # "save"
      BY <3>1 DEF Found, Goto, Continue, TypeOK
    <3>4. pc'[r] = "reload" => ent'[r] = Assign(ent[r], req[r].dto)
      BY <3>1 DEF Found, Goto, TypeOK
    <3>5. ent'[r].lessons = ent[r].lessons
      BY <1>1, <3>2, <3>3, <3>4 DEF Assign, Entity, CourseRow
    <3>6. QED BY <1>1, <3>1, <3>5 DEF LessonsStayHome, EntitiesAtHome
  <2>5. CASE Reload(r)
    BY <1>1, <2>5 DEF Reload, LessonsStayHome, EntitiesAtHome
  <2>6. ASSUME Serve(r), ~ReadCourse(r), ~Fill(r), ~Reload(r)
        PROVE  FALSE
    <3>1. CASE ReadList(r)
      <4>1. req[r].op = "list"
        BY <3>1, AtStep DEF ReadList, CallOK
      <4>2. QED BY <1>1, <3>1, <4>1 DEF ReadList
    <3>2. CASE (\E k \in Keys : Del(r, k)) \/ Scan(r)
      BY <1>1, <3>2 DEF Del, Scan, Settle, Goto, TypeOK
    <3>3. CASE Save(r) \/ InsertCourse(r) \/ Delete(r) \/ InsertLesson(r)
               \/ SaveLesson(r) \/ DeleteLesson(r) \/ Increment(r)
      BY <1>1, <3>3 DEF Save, InsertCourse, Delete, InsertLesson, SaveLesson,
                        DeleteLesson, Increment, Invalidate, Goto, TypeOK
    <3>4. CASE FindLesson(r) \/ ReloadLesson(r) \/ FindEnrollment(r)
               \/ InsertEnrollment(r)
      BY <1>1, <3>4 DEF FindLesson, ReloadLesson, FindEnrollment,
                        InsertEnrollment, Goto, TypeOK
    <3>5. QED BY <2>6, <3>1, <3>2, <3>3, <3>4 DEF Serve
  <2>7. CASE Fail(r)
    BY <1>1, <2>7 DEF Fail, Goto, TypeOK
  <2>8. ASSUME NEW x \in Requests \ {r}, Arrival(x) \/ Serve(x) \/ Fail(x)
        PROVE  pc'[r] = pc[r] /\ ent'[r] = ent[r] /\ req'[r] = req[r]
    <3>1. pc'[r] = pc[r] /\ ent'[r] = ent[r]
      BY <2>8, ArrivalFrame, ServeFrame
    <3>2. pc[r] # "idle"
      BY <1>1, <3>1
    <3>3. req[r] # None
      BY <3>2, AtStep
    <3>4. QED BY <3>1, <3>3, HomeStable
  <2>9. ASSUME NEW k \in Keys, Expire(k)
        PROVE  pc'[r] = pc[r] /\ ent'[r] = ent[r] /\ req'[r] = req[r]
    BY <2>9 DEF Expire, locals
  <2>10. QED
    BY <2>1, <2>2, <2>3, <2>4, <2>5, <2>6, <2>7, <2>8, <2>9, NextCases
       DEF vars, locals
<1>2. ASSUME NEW r \in Requests, NEW l \in LessonIds,
             pc'[r] \in {"fill", "reload", "save"} /\ req'[r].op # "list",
             ent'[r].lessons[l] # None
      PROVE  InHome(l, req[r].target)'
  BY <1>1, <1>2, HomeStable
<1>3. QED BY <1>2 DEF EntitiesAtHome

LEMMA TargetsStep ==
    ASSUME TypeOK, LessonsStayHome, [Next]_vars
    PROVE  TargetsAtHome'
<1> DEFINE Writes == {"reloadLesson", "saveLesson", "deleteLesson"}
<1>1. ASSUME NEW r \in Requests, pc'[r] \in Writes
      PROVE  InHome(req'[r].lesson, req'[r].target) /\ req'[r].lesson \in LessonIds
  <2>1. CASE pc'[r] = pc[r] /\ req'[r] = req[r]
    <3>1. req[r].op = "updateLesson" \/ req[r].op = "removeLesson"
      BY <1>1, <2>1, AtStep DEF OpOK
    <3>2. req[r].lesson \in LessonIds
      BY <1>1, <2>1, <3>1, AtStep DEF CallOK
    <3>3. QED BY <1>1, <2>1, <3>2 DEF LessonsStayHome, TargetsAtHome
  <2>2. CASE FindLesson(r)
    <3>1. /\ req[r].lesson \in LessonIds
          /\ IsLessonOf(req[r].lesson, req[r].target)
          /\ UNCHANGED req
      BY <1>1, <2>2, AtStep DEF FindLesson, Goto, TypeOK, OpOK, CallOK, locals
    <3>2. QED BY <3>1 DEF IsLessonOf, LessonsStayHome, RowsAtHome
  <2>3. CASE ReloadLesson(r)
    <3>1. pc[r] = "reloadLesson" /\ UNCHANGED req
      BY <2>3 DEF ReloadLesson
    <3>2. req[r].lesson \in LessonIds
      BY <3>1, AtStep DEF CallOK, OpOK
    <3>3. QED BY <3>1, <3>2 DEF LessonsStayHome, TargetsAtHome
  <2>4. ASSUME Serve(r), ~FindLesson(r), ~ReloadLesson(r)
        PROVE  FALSE
    <3>1. CASE ReadCourse(r) \/ ReadList(r) \/ Reload(r)
      BY <1>1, <3>1 DEF ReadCourse, ReadList, Reload, Goto, TypeOK
    <3>2. CASE Fill(r)
      BY <1>1, <3>2 DEF Fill, Found, Continue, Goto, TypeOK
    <3>3. CASE (\E k \in Keys : Del(r, k)) \/ Scan(r)
      BY <1>1, <3>3 DEF Del, Scan, Settle, Goto, TypeOK
    <3>4. CASE Save(r) \/ InsertCourse(r) \/ Delete(r) \/ InsertLesson(r)
               \/ SaveLesson(r) \/ DeleteLesson(r) \/ Increment(r)
      BY <1>1, <3>4 DEF Save, InsertCourse, Delete, InsertLesson, SaveLesson,
                        DeleteLesson, Increment, Invalidate, Goto, TypeOK
    <3>5. CASE FindEnrollment(r) \/ InsertEnrollment(r)
      BY <1>1, <3>5 DEF FindEnrollment, InsertEnrollment, Goto, TypeOK
    <3>6. QED BY <2>4, <3>1, <3>2, <3>3, <3>4, <3>5 DEF Serve
  <2>5. ASSUME Arrival(r) \/ Fail(r)
        PROVE  FALSE
    BY <1>1, <2>5, ArrivalFrame DEF Fail, Goto, TypeOK
  <2>6. ASSUME NEW x \in Requests \ {r}, Arrival(x) \/ Serve(x) \/ Fail(x)
        PROVE  pc'[r] = pc[r] /\ req'[r] = req[r]
    <3>1. pc'[r] = pc[r]
      BY <2>6, ArrivalFrame, ServeFrame
    <3>2. req[r] # None
      BY <1>1, <3>1, AtStep
    <3>3. QED BY <3>1, <3>2, HomeStable
  <2>7. ASSUME NEW k \in Keys, Expire(k)
        PROVE  pc'[r] = pc[r] /\ req'[r] = req[r]
    BY <2>7 DEF Expire, locals
  <2>8. QED
    BY <2>1, <2>2, <2>3, <2>4, <2>5, <2>6, <2>7, NextCases DEF vars, locals
<1>2. ASSUME NEW r \in Requests, pc'[r] \in Writes
      PROVE  InHome(req[r].lesson, req[r].target)'
  BY <1>1, <1>2, HomeStable
<1>3. QED BY <1>2 DEF TargetsAtHome

LEMMA HomeInit == Init => LessonsStayHome
BY DEF Init, LessonsStayHome, RowsAtHome, EntriesAtHome, EntitiesAtHome,
       TargetsAtHome, InHome, LessonIds, Keys

LEMMA HomeStep ==
    ASSUME TypeOK, LessonsStayHome, [Next]_vars
    PROVE  LessonsStayHome'
BY RowsStep, EntriesStep, EntitiesStep, TargetsStep DEF LessonsStayHome

\* A lesson stays in the course it was added to, however saves of stale
\* entities, removals and lesson requests under other courses interleave
THEOREM LessonsHome == Spec => []LessonsStayHome
<1>1. Init => LessonsStayHome
  BY HomeInit
<1>2. TypeOK /\ LessonsStayHome /\ [Next]_vars => LessonsStayHome'
  BY HomeStep
<1>3. QED BY <1>1, <1>2, TypeCorrect, PTL DEF Spec
----------------------------------------------------------------------------
(* The cache is coherent *)

\* What a course's entity should be depends on its row and its lessons only
LEMMA ViewSame ==
    ASSUME NEW c \in CourseIds, courses'[c] = courses[c],
           \A l \in LessonIds :
             \/ lessons'[l] = lessons[l]
             \/ /\ lessons[l] = None \/ lessons[l].courseId # c
                /\ lessons'[l] = None \/ lessons'[l].courseId # c
    PROVE  View(c)' = View(c)
<1>1. \A l \in LessonIds :
        (IF lessons'[l] # None /\ lessons'[l].courseId = c
         THEN lessons'[l].title ELSE None)
          = (IF lessons[l] # None /\ lessons[l].courseId = c
             THEN lessons[l].title ELSE None)
  OBVIOUS
<1>2. QED BY <1>1 DEF View

\* ... and a list on the titles and statuses of the courses
LEMMA ListSame ==
    ASSUME NEW k \in ListKeys,
           \A c \in CourseIds :
             /\ courses'[c] = None <=> courses[c] = None
             /\ courses[c] # None => /\ courses'[c].title = courses[c].title
                                     /\ courses'[c].status = courses[c].status
    PROVE  List(k)' = List(k)
<1> DEFINE L == {c \in CourseIds :
                   /\ courses[c] # None
                   /\ k = "published" => courses[c].status = "published"}
<1>1. L' = L
  OBVIOUS
<1>2. \A c \in L : [id |-> c, title |-> courses'[c].title,
                    status |-> courses'[c].status]
                     = [id |-> c, title |-> courses[c].title,
                        status |-> courses[c].status]
  OBVIOUS
<1>3. {[id |-> c, title |-> courses'[c].title,
        status |-> courses'[c].status] : c \in L}
        = {[id |-> c, title |-> courses[c].title,
            status |-> courses[c].status] : c \in L}
  BY <1>2
<1>4. QED BY <1>1, <1>3 DEF List

LEMMA CurrentSame ==
    ASSUME NEW k \in Keys, UNCHANGED <<courses, lessons>>
    PROVE  Current(k)' = Current(k)
BY ViewSame, ListSame DEF Current, Keys

\* A step that touches neither tables nor cache, and owes what was owed
LEMMA QuietCoherent ==
    ASSUME CacheCoherent, UNCHANGED <<courses, lessons, cache, pend, raced>>
    PROVE  CacheCoherent'
BY CurrentSame DEF CacheCoherent, Owed

\* A write after which the deletion of every key it made stale is owed
LEMMA WriteCoherent ==
    ASSUME TypeOK, CacheCoherent, NEW r \in Requests,
           pc[r] # "invalidate", Invalidate(r),
           UNCHANGED <<cache, raced>>,
           \A k \in Keys :
             \/ Current(k)' = Current(k)
             \/ Current(k) = None
             \/ k \in Invalidations(req[r])
             \/ k \in ListKeys /\ "scan" \in Invalidations(req[r])
    PROVE  CacheCoherent'
<1>1. /\ pend[r] = {} /\ pend'[r] = Invalidations(req[r])
      /\ \A x \in Requests \ {r} : pend'[x] = pend[x]
  BY DEF TypeOK, StepOK, Invalidate
<1>2. ASSUME NEW k \in Keys
      PROVE  cache'[k] \in {None, Current(k)'} \/ Owed(k)' \/ k \in raced'
  <2>1. CASE k \in Invalidations(req[r])
               \/ (k \in ListKeys /\ "scan" \in Invalidations(req[r]))
    BY <1>1, <2>1 DEF Owed
  <2>2. CASE Owed(k)
    BY <1>1, <2>2 DEF Owed
  <2>3. CASE cache[k] \in {None, Current(k)}
               /\ (Current(k)' = Current(k) \/ Current(k) = None)
    BY <2>3
  <2>4. QED BY <2>1, <2>2, <2>3 DEF CacheCoherent
<1>3. QED BY <1>2 DEF CacheCoherent

LEMMA CacheStepCoherent ==
    ASSUME TypeOK, CacheCoherent, NEW r \in Requests,
           Fill(r) \/ (\E k \in Keys : Del(r, k)) \/ Scan(r) \/ Fail(r)
    PROVE  CacheCoherent'
<1>0. UNCHANGED <<courses, lessons>>
  BY DEF Fill, Del, Scan, Fail, db
<1>1. CASE Fill(r)
  <2> DEFINE c == req[r].target
  <2>1. /\ pc[r] = "fill" /\ UNCHANGED pend
        /\ cache' = [cache EXCEPT ![c] = ent[r]]
        /\ raced' = IF ent[r] = Current(c) THEN raced \ {c} ELSE raced \cup {c}
    BY <1>1 DEF Fill
  <2>2. c \in Keys
    BY <2>1, AtStep DEF OpOK, CallOK, Call
  <2>3. ASSUME NEW k \in Keys
        PROVE  cache'[k] \in {None, Current(k)'} \/ Owed(k)' \/ k \in raced'
    <3>1. CASE k = c
      BY <1>0, <2>1, <2>2, <3>1, CurrentSame DEF TypeOK
    <3>2. CASE k # c
      BY <1>0, <2>1, <2>2, <3>2, CurrentSame DEF TypeOK, CacheCoherent, Owed
    <3>3. QED BY <3>1, <3>2
  <2>4. QED BY <2>3 DEF CacheCoherent
<1>2. ASSUME NEW c \in Keys, Del(r, c)
      PROVE  CacheCoherent'
  <2>1. /\ cache' = [cache EXCEPT ![c] = None]
        /\ pend' = [pend EXCEPT ![r] = pend[r] \ {c}]
        /\ raced' = raced \ {c}
    BY <1>2 DEF Del, Settle
  <2>2. ASSUME NEW k \in Keys
        PROVE  cache'[k] \in {None, Current(k)'} \/ Owed(k)' \/ k \in raced'
    <3>1. CASE k = c
      BY <2>1, <3>1 DEF TypeOK
    <3>2. CASE k # c /\ Owed(k)
      <4>1. PICK x \in Requests : k \in pend[x] \/ (k \in ListKeys /\ "scan" \in pend[x])
        BY <3>2 DEF Owed
      <4>2. c # "scan"
        BY DEF Keys, ListKeys
      <4>3. QED BY <2>1, <3>2, <4>1, <4>2 DEF Owed, TypeOK
    <3>3. CASE k # c /\ ~Owed(k)
      BY <1>0, <2>1, <3>3, CurrentSame DEF TypeOK, CacheCoherent
    <3>4. QED BY <3>1, <3>2, <3>3
  <2>3. QED BY <2>2 DEF CacheCoherent
<1>3. CASE Scan(r)
  <2>1. /\ pend' = [pend EXCEPT ![r] = (pend[r] \ {"scan"})
                                        \cup {k \in ListKeys : cache[k] # None}]
        /\ UNCHANGED <<cache, raced>>
    BY <1>3 DEF Scan, Settle, history
  <2>2. ASSUME NEW k \in Keys
        PROVE  cache'[k] \in {None, Current(k)'} \/ Owed(k)' \/ k \in raced'
    <3>1. CASE cache[k] # None /\ Owed(k)
      <4>1. PICK x \in Requests : k \in pend[x] \/ (k \in ListKeys /\ "scan" \in pend[x])
        BY <3>1 DEF Owed
      <4>2. k # "scan"
        BY DEF Keys, ListKeys
      <4>3. QED BY <2>1, <3>1, <4>1, <4>2 DEF Owed, TypeOK
    <3>2. CASE cache[k] = None
      BY <2>1, <3>2
    <3>3. CASE ~Owed(k)
      BY <1>0, <2>1, <3>3, CurrentSame DEF CacheCoherent
    <3>4. QED BY <3>1, <3>2, <3>3
  <2>3. QED BY <2>2 DEF CacheCoherent
<1>4. CASE Fail(r)
  <2>1. /\ pend' = [pend EXCEPT ![r] = {}] /\ UNCHANGED cache
        /\ raced' = raced \cup Lost(r)
    BY <1>4 DEF Fail
  <2>2. ASSUME NEW k \in Keys
        PROVE  cache'[k] \in {None, Current(k)'} \/ Owed(k)' \/ k \in raced'
    <3>1. CASE cache[k] # None /\ Owed(k)
      <4>1. PICK x \in Requests : k \in pend[x] \/ (k \in ListKeys /\ "scan" \in pend[x])
        BY <3>1 DEF Owed
      <4>2. QED BY <2>1, <3>1, <4>1 DEF Owed, TypeOK, Lost
    <3>2. CASE cache[k] = None
      BY <2>1, <3>2
    <3>3. CASE ~Owed(k)
      BY <1>0, <2>1, <3>3, CurrentSame DEF CacheCoherent
    <3>4. QED BY <3>1, <3>2, <3>3
  <2>3. QED BY <2>2 DEF CacheCoherent
<1>5. QED BY <1>1, <1>2, <1>3, <1>4

LEMMA ExpireCoherent ==
    ASSUME TypeOK, CacheCoherent, NEW c \in Keys, Expire(c)
    PROVE  CacheCoherent'
<1>1. /\ cache' = [cache EXCEPT ![c] = None] /\ raced' = raced \ {c}
      /\ UNCHANGED <<courses, lessons, pend>>
  BY DEF Expire, db
<1>2. ASSUME NEW k \in Keys
      PROVE  cache'[k] \in {None, Current(k)'} \/ Owed(k)' \/ k \in raced'
  BY <1>1, CurrentSame DEF TypeOK, CacheCoherent, Owed
<1>3. QED BY <1>2 DEF CacheCoherent

\* Saving an entity changes the rows of its course and of its lessons only,
\* because the lessons it shows are lessons of the course
LEMMA SaveViews ==
    ASSUME TypeOK, LessonsStayHome, NEW r \in Requests, Save(r),
           NEW d \in CourseIds, d # req[r].target
    PROVE  View(d)' = View(d)
<1> DEFINE c == req[r].target
           e == ent[r]
           o == old[r]
<1>1. pc[r] = "save" /\ req[r].op = "update" /\ c \in CourseIds
  BY AtStep DEF Save, OpOK
<1>2. CASE SaveFails(c, e, o)
  BY <1>2, ViewSame DEF Save
<1>3. CASE ~SaveFails(c, e, o)
  <2>1. /\ courses' = [courses EXCEPT ![c] = SavedRow(c, e, o)]
        /\ lessons' = [l \in LessonIds |-> SavedLesson(c, e, o, l)]
    BY <1>3 DEF Save
  <2>2. courses'[d] = courses[d]
    BY <2>1 DEF TypeOK
  <2>3. ASSUME NEW l \in LessonIds
        PROVE  \/ lessons'[l] = lessons[l]
               \/ /\ lessons[l] = None \/ lessons[l].courseId # d
                  /\ lessons'[l] = None \/ lessons'[l].courseId # d
    <3>1. lessons'[l] = SavedLesson(c, e, o, l)
      BY <2>1
    <3>2. CASE l \in Added(e, o)
      BY <1>3, <3>1, <3>2 DEF SavedLesson, SaveFails
    <3>3. CASE l \notin Added(e, o) /\ (e.lessons[l] = None \/ lessons[l] = None)
      BY <3>1, <3>3 DEF SavedLesson
    <3>4. CASE l \notin Added(e, o) /\ e.lessons[l] # None /\ lessons[l] # None
      <4>1. InHome(l, c) /\ InHome(l, lessons[l].courseId)
        BY <1>1, <3>4 DEF LessonsStayHome, EntitiesAtHome, RowsAtHome
      <4>2. lessons[l].courseId = c
        BY <4>1, HomeUnique
      <4>3. lessons'[l].courseId = c
        BY <3>1, <3>4, <4>2 DEF SavedLesson
      <4>4. QED BY <4>2, <4>3
    <3>5. QED BY <3>2, <3>3, <3>4
  <2>4. QED BY <2>2, <2>3, ViewSame
<1>4. QED BY <1>2, <1>3

LEMMA SaveCoherent ==
    ASSUME TypeOK, LessonsStayHome, CacheCoherent, NEW r \in Requests, Save(r)
    PROVE  CacheCoherent'
<1> DEFINE c == req[r].target
           e == ent[r]
           o == old[r]
<1>1. /\ pc[r] = "save" /\ req[r].op = "update" /\ c \in CourseIds
      /\ UNCHANGED <<cache, raced>>
  BY AtStep DEF Save, OpOK
<1>2. CASE SaveFails(c, e, o)
  BY <1>1, <1>2, QuietCoherent DEF Save
<1>3. CASE ~SaveFails(c, e, o)
  <2>1. Invalidate(r)
    BY <1>3 DEF Save
  <2>2. c \in Invalidations(req[r]) /\ "scan" \in Invalidations(req[r])
    BY <1>1 DEF Invalidations
  <2>3. \A d \in CourseIds : d # c => View(d)' = View(d)
    BY SaveViews
  <2>4. \A k \in Keys : \/ Current(k)' = Current(k)
                        \/ k \in Invalidations(req[r])
                        \/ k \in ListKeys /\ "scan" \in Invalidations(req[r])
    BY <2>2, <2>3 DEF Current, Keys
  <2>5. QED BY <1>1, <2>1, <2>4, WriteCoherent
<1>4. QED BY <1>2, <1>3

LEMMA InsertCourseCoherent ==
    ASSUME TypeOK, CacheCoherent, NEW r \in Requests, InsertCourse(r)
    PROVE  CacheCoherent'
<1>1. /\ pc[r] = "insertCourse" /\ req[r].op = "create" /\ courses[r] = None
      /\ UNCHANGED <<cache, raced, lessons>> /\ Invalidate(r)
  BY AtStep DEF InsertCourse, OpOK, history
<1>2. \A d \in CourseIds : d # r => courses'[d] = courses[d]
  BY DEF InsertCourse, TypeOK
<1>3. "scan" \in Invalidations(req[r])
  BY <1>1 DEF Invalidations
<1>4. \A k \in Keys : k \notin ListKeys => \/ Current(k)' = Current(k)
                                          \/ Current(k) = None
  BY <1>1, <1>2, ViewSame DEF Current, Keys, View
<1>5. QED BY <1>1, <1>3, <1>4, WriteCoherent

LEMMA DeleteCoherent ==
    ASSUME TypeOK, CacheCoherent, NEW r \in Requests, Delete(r)
    PROVE  CacheCoherent'
<1> DEFINE c == req[r].target
<1>1. /\ pc[r] = "delete" /\ req[r].op = "remove" /\ c \in CourseIds
      /\ UNCHANGED <<cache, raced>>
  BY AtStep DEF Delete, OpOK, history
<1>2. CASE RemoveFails(c)
  BY <1>1, <1>2, QuietCoherent DEF Delete
<1>3. CASE ~RemoveFails(c)
  <2>1. /\ courses' = [courses EXCEPT ![c] = None]
        /\ lessons' = [l \in LessonIds |->
                         IF lessons[l] # None /\ lessons[l].courseId = c
                         THEN None ELSE lessons[l]]
        /\ Invalidate(r)
    BY <1>3 DEF Delete
  <2>2. c \in Invalidations(req[r]) /\ "scan" \in Invalidations(req[r])
    BY <1>1 DEF Invalidations
  <2>3. \A d \in CourseIds : d # c => View(d)' = View(d)
    BY <2>1, ViewSame DEF TypeOK
  <2>4. QED BY <1>1, <2>1, <2>2, <2>3, WriteCoherent DEF Current, Keys
<1>4. QED BY <1>2, <1>3

\* A lesson request changes a lesson of its course only
LEMMA LessonViews ==
    ASSUME TypeOK, LessonsStayHome, NEW r \in Requests,
           InsertLesson(r) \/ SaveLesson(r) \/ DeleteLesson(r),
           NEW d \in CourseIds, d # req[r].target
    PROVE  View(d)' = View(d)
<1> DEFINE c == req[r].target
<1>1. UNCHANGED courses
  BY DEF InsertLesson, SaveLesson, DeleteLesson
<1>2. CASE UNCHANGED lessons
  BY <1>1, <1>2, ViewSame
<1>3. CASE ~UNCHANGED lessons
  <2>1. PICK l \in LessonIds :
          /\ \A m \in LessonIds : m # l => lessons'[m] = lessons[m]
          /\ lessons[l] = None \/ lessons[l].courseId = c
          /\ lessons'[l] = None \/ lessons'[l].courseId = c
    <3>1. CASE InsertLesson(r)
      BY <1>3, <3>1 DEF InsertLesson, TypeOK, LessonIds
    <3>2. CASE SaveLesson(r)
      <4>1. /\ req[r].lesson \in LessonIds
            /\ InHome(req[r].lesson, c)
        BY <3>2, AtStep DEF SaveLesson, LessonsStayHome, TargetsAtHome, OpOK, CallOK
      <4>2. lessons[req[r].lesson] # None => lessons[req[r].lesson].courseId = c
        BY <4>1, HomeUnique DEF LessonsStayHome, RowsAtHome
      <4>3. QED BY <1>3, <3>2, <4>1, <4>2 DEF SaveLesson, TypeOK
    <3>3. CASE DeleteLesson(r)
      <4>1. /\ req[r].lesson \in LessonIds
            /\ InHome(req[r].lesson, c)
        BY <3>3, AtStep DEF DeleteLesson, LessonsStayHome, TargetsAtHome, OpOK, CallOK
      <4>2. lessons[req[r].lesson] # None => lessons[req[r].lesson].courseId = c
        BY <4>1, HomeUnique DEF LessonsStayHome, RowsAtHome
      <4>3. QED BY <3>3, <4>1, <4>2 DEF DeleteLesson, TypeOK
    <3>4. QED BY <3>1, <3>2, <3>3
  <2>2. QED BY <1>1, <2>1, ViewSame
<1>4. QED BY <1>2, <1>3

\* ... and deletes the entry of that course
LEMMA LessonCoherent ==
    ASSUME TypeOK, LessonsStayHome, CacheCoherent, NEW r \in Requests,
           InsertLesson(r) \/ SaveLesson(r) \/ DeleteLesson(r)
    PROVE  CacheCoherent'
<1> DEFINE c == req[r].target
<1>1. /\ pc[r] \in {"insertLesson", "saveLesson", "deleteLesson"}
      /\ req[r].op \in {"addLesson", "updateLesson", "removeLesson"}
      /\ UNCHANGED <<cache, raced, courses>>
  BY AtStep DEF InsertLesson, SaveLesson, DeleteLesson, OpOK, history
<1>2. c \in CourseIds /\ Invalidations(req[r]) = {c}
  BY <1>1, AtStep DEF Invalidations
<1>3. CASE UNCHANGED <<lessons, pend>>
  BY <1>1, <1>3, QuietCoherent
<1>4. CASE Invalidate(r)
  <2>1. \A d \in CourseIds : d # c => View(d)' = View(d)
    BY LessonViews
  <2>2. \A k \in ListKeys : List(k)' = List(k)
    BY <1>1, ListSame
  <2>3. QED BY <1>1, <1>2, <1>4, <2>1, <2>2, WriteCoherent DEF Current, Keys
<1>5. QED BY <1>3, <1>4 DEF InsertLesson, SaveLesson, DeleteLesson

LEMMA IncrementCoherent ==
    ASSUME TypeOK, CacheCoherent, NEW r \in Requests, Increment(r)
    PROVE  CacheCoherent'
<1> DEFINE c == req[r].target
<1>1. /\ pc[r] = "increment" /\ req[r].op = "enroll" /\ c \in CourseIds
      /\ UNCHANGED <<cache, raced, lessons>> /\ Invalidate(r)
  BY AtStep DEF Increment, OpOK
<1>2. Invalidations(req[r]) = {c}
  BY <1>1 DEF Invalidations
<1>3. CASE UNCHANGED courses
  BY <1>1, <1>3, WriteCoherent, CurrentSame
<1>4. CASE courses[c] # None
            /\ courses' = [courses EXCEPT ![c].enrollmentCount = Incremented(c)]
  <2>1. courses[c] \in CourseRow
    BY <1>1, <1>4 DEF TypeOK
  <2>2. /\ courses'[c].title = courses[c].title
        /\ courses'[c].status = courses[c].status
        /\ courses'[c] = [courses[c] EXCEPT !.enrollmentCount
                                               = courses[c].enrollmentCount + 1]
    BY <1>1, <1>4, <2>1 DEF TypeOK, CourseRow, Incremented
  <2>3. courses'[c] # None
    <3>1. courses'[c] \in CourseRow
      BY <2>1, <2>2 DEF CourseRow
    <3>2. QED BY <3>1
  <2>4. \A d \in CourseIds : d # c => courses'[d] = courses[d]
    BY <1>4 DEF TypeOK
  <2>5. \A k \in ListKeys : List(k)' = List(k)
    BY <1>4, <2>2, <2>3, <2>4, ListSame
  <2>6. \A d \in CourseIds : d # c => View(d)' = View(d)
    BY <1>1, <2>4, ViewSame
  <2>7. QED BY <1>1, <1>2, <2>5, <2>6, WriteCoherent DEF Current, Keys
<1>5. QED BY <1>3, <1>4 DEF Increment

LEMMA CoherentStep ==
    ASSUME TypeOK, LessonsStayHome, CacheCoherent, [Next]_vars
    PROVE  CacheCoherent'
<1>1. ASSUME NEW r \in Requests, Arrival(r)
      PROVE  CacheCoherent'
  BY <1>1, ArrivalFrame, QuietCoherent DEF db
<1>2. ASSUME NEW r \in Requests,
             \/ ReadCourse(r) \/ ReadList(r) \/ Reload(r) \/ FindLesson(r)
             \/ ReloadLesson(r) \/ FindEnrollment(r) \/ InsertEnrollment(r)
      PROVE  CacheCoherent'
  <2>1. UNCHANGED <<courses, lessons, cache, pend, raced>>
    BY <1>2 DEF ReadCourse, ReadList, Reload, FindLesson, ReloadLesson,
                FindEnrollment, InsertEnrollment, db, history
  <2>2. QED BY <2>1, QuietCoherent
<1>3. ASSUME NEW r \in Requests, Serve(r) \/ Fail(r)
      PROVE  CacheCoherent'
  BY <1>2, <1>3, CacheStepCoherent, SaveCoherent, InsertCourseCoherent,
     DeleteCoherent, LessonCoherent, IncrementCoherent DEF Serve
<1>4. CASE UNCHANGED vars
  BY <1>4, QuietCoherent DEF vars, db, history
<1>5. QED BY <1>1, <1>3, <1>4, ExpireCoherent, NextCases

LEMMA CoherentInit == Init => CacheCoherent
BY DEF Init, CacheCoherent

\* A cache entry differs from the database only while the request that made
\* it stale still has to delete it, or after a race or a lost deletion
THEOREM Coherent == Spec => []CacheCoherent
<1>1. Init => CacheCoherent
  BY CoherentInit
<1>2. TypeOK /\ LessonsStayHome /\ CacheCoherent /\ [Next]_vars => CacheCoherent'
  BY CoherentStep
<1>3. QED BY <1>1, <1>2, TypeCorrect, LessonsHome, PTL DEF Spec
=============================================================================
