------------------------------- MODULE Courses -------------------------------
(***************************************************************************)
(* CoursesService (courses.service.ts): courses, lessons and enrollments   *)
(* in PostgreSQL, course entities and course lists in the Redis cache, and *)
(* the HTTP requests that read and write both.                             *)
(*                                                                         *)
(* A request r is a process.  One action is one call the handler awaits on *)
(* a store, together with the local code up to its next await; between two *)
(* actions every other request may run.  The uuid a request makes the      *)
(* database generate is named after the request, so CourseIds and          *)
(* LessonIds are the seeded ids and the requests.                          *)
(*                                                                         *)
(* Data kept: of a course its title, status, instructor and enrollment     *)
(* count, of a lesson its title.  The other columns are written and read   *)
(* with the title and behave like it.  A list is its first page.           *)
(***************************************************************************)
EXTENDS Naturals, FiniteSets

CONSTANTS
    Requests,      \* the requests of one behaviour (bounds the run)
    Users,         \* authenticated users (JwtAuthGuard)
    RoleOf,        \* [Users -> Roles]
    Sample,        \* a course that exists at start
    Intro,         \* its lesson, if it has one
    Instructor,    \* the user who owns Sample
    StartStatuses, \* the statuses Sample may have by then
    Titles,        \* titles of courses and lessons
    Patches,       \* the UpdateCourseDto bodies clients send
    Workload,      \* the operations clients call
    MaxInFlight,   \* how many requests may overlap
    MayFail,       \* may an awaited call reject, or the process die?
    Migrated,      \* schema: TRUE by migrations, FALSE by synchronize
    None           \* null

Roles     == {"student", "instructor", "admin"}
Statuses  == {"draft", "published", "archived"}
ListKeys  == {"published", "all"}
CourseIds == {Sample} \cup Requests
LessonIds == {Intro} \cup Requests
Keys      == CourseIds \cup ListKeys

CourseRow == [title: Titles, status: Statuses, instructorId: Users,
              enrollmentCount: Nat]
LessonRow == [courseId: CourseIds, title: Titles]
Entity    == [row: CourseRow, lessons: [LessonIds -> Titles \cup {None}]]
Listing   == [data: SUBSET [id: CourseIds, title: Titles, status: Statuses]]
Enrollment == [id: Requests, userId: Users, courseId: CourseIds]
Dto       == [title: Titles \cup {None}, status: Statuses \cup {None}]
NoDto     == [title |-> None, status |-> None]

OwnerOps  == {"update", "remove", "addLesson", "updateLesson", "removeLesson"}
Ops       == OwnerOps \cup {"get", "enroll", "list", "create"}
Call      == [op: Ops, user: Users \cup {None}, target: Keys \cup {None},
              lesson: LessonIds \cup {None}, dto: Dto]

Answers   == {"ok", "forbidden", "notFound", "conflict", "error"}
Steps     == {"read", "fill", "reload", "save", "delete", "insertLesson",
              "findLesson", "reloadLesson", "saveLesson", "deleteLesson",
              "findEnrollment", "increment", "insertEnrollment",
              "insertCourse", "invalidate"}

ASSUME ConstantsAssumption ==
    /\ RoleOf \in [Users -> Roles]
    /\ Instructor \in Users
    /\ StartStatuses \subseteq Statuses
    /\ Titles # {}
    /\ Patches \subseteq Dto
    /\ Workload \subseteq Ops
    /\ MaxInFlight \in Nat
    /\ MayFail \in BOOLEAN
    /\ Migrated \in BOOLEAN
    /\ IsFiniteSet(Requests)
    /\ Sample \notin Requests
    /\ Intro \notin Requests

ASSUME DistinctAssumption ==
    /\ CourseIds \cap (ListKeys \cup {"scan"}) = {}
    /\ None \notin Users \cup Titles \cup Statuses \cup Keys \cup LessonIds
    /\ None \notin CourseRow
    /\ None \notin LessonRow
    /\ None \notin Entity
    /\ None \notin Listing
    /\ None \notin Call

VARIABLES
    courses,       \* table courses
    lessons,       \* table lessons
    enrollments,   \* table enrollments
    cache,         \* Redis: courses:<id> and courses:all:<published>:1:20
    pc,            \* the step a request is at, or its answer
    req,           \* the request
    ent,           \* what its handler holds: an entity or a list
    old,           \* the row a repository.save read before it writes
    pend,          \* the cache deletions its handler still waits for
    raced,         \* history: keys holding a value that was stale when
                   \*   stored, or whose deletion was lost
    clobbered,     \* history: courses whose count a save overwrote
    bumped         \* history: requests whose increment found its row

db      == <<courses, lessons, enrollments>>
locals  == <<req, ent, old>>
history == <<raced, clobbered, bumped>>
vars    == <<db, cache, pc, locals, pend, history>>

----------------------------------------------------------------------------
(* What a query returns now *)

\* findOne({ where: { id }, relations: ['instructor', 'lessons'] })
View(c) ==
    IF courses[c] = None THEN None
    ELSE [row |-> courses[c],
          lessons |-> [l \in LessonIds |->
              IF lessons[l] # None /\ lessons[l].courseId = c
              THEN lessons[l].title ELSE None]]

\* findAndCount({ where }): the course list, without the counts
List(k) ==
    LET listed == {c \in CourseIds :
                     /\ courses[c] # None
                     /\ k = "published" => courses[c].status = "published"}
    IN  [data |-> {[id |-> c, title |-> courses[c].title,
                    status |-> courses[c].status] : c \in listed}]

Current(k) == IF k \in ListKeys THEN List(k) ELSE View(k)

InFlight == {r \in Requests : pc[r] \in Steps}

\* Ids a client can know: of an INSERT that was made, or that failed
Known ==
    {Sample} \cup {r \in Requests :
        req[r] # None /\ req[r].op = "create" /\ pc[r] # "insertCourse"}
KnownLessons ==
    {Intro} \cup {r \in Requests :
        /\ req[r] # None /\ req[r].op = "addLesson"
        /\ pc[r] \notin {"read", "fill", "insertLesson"}}

Init ==
    /\ \E t \in Titles, s \in StartStatuses :
         courses = [c \in CourseIds |->
                      IF c = Sample
                      THEN [title |-> t, status |-> s,
                            instructorId |-> Instructor, enrollmentCount |-> 0]
                      ELSE None]
    /\ \E t \in Titles \cup {None} :
         lessons = [l \in LessonIds |->
                      IF l = Intro /\ t # None
                      THEN [courseId |-> Sample, title |-> t] ELSE None]
    /\ enrollments = {}
    /\ cache = [k \in Keys |-> None]
    /\ pc = [r \in Requests |-> "idle"]
    /\ req = [r \in Requests |-> None]
    /\ ent = [r \in Requests |-> None]
    /\ old = [r \in Requests |-> None]
    /\ pend = [r \in Requests |-> {}]
    /\ raced = {} /\ clobbered = {} /\ bumped = {}

----------------------------------------------------------------------------
(* A request arrives: guards of the controller, then cache.get *)

Goto(r, step) == pc' = [pc EXCEPT ![r] = step]

Arrive(r, call) ==
    /\ pc[r] = "idle"
    /\ call.op \in Workload
    /\ Cardinality(InFlight) < MaxInFlight
    /\ req' = [req EXCEPT ![r] = call]
    /\ UNCHANGED <<db, cache, old, pend, history>>

\* A variant with a bug: the ownership check of PATCH only
DeniedUpdatesOnly(call, e) ==
    \/ call.op = "update" /\ e.row.instructorId # call.user
    \/ call.op = "enroll" /\ e.row.status # "published"

\* instructorId !== userId && role !== ADMIN; status !== PUBLISHED
Denied(call, e) ==
    \/ /\ call.op \in OwnerOps
       /\ e.row.instructorId # call.user
       /\ RoleOf[call.user] # "admin"
    \/ call.op = "enroll" /\ e.row.status # "published"

\* A variant with a bug: fields the body leaves out become null
AssignAll(e, dto) ==
    [e EXCEPT !.row.title = dto.title, !.row.status = dto.status]

\* Object.assign(course, dto)
Assign(e, dto) ==
    [e EXCEPT !.row.title  = IF dto.title = None THEN @ ELSE dto.title,
              !.row.status = IF dto.status = None THEN @ ELSE dto.status]

\* The call a handler makes once findById has returned
Continue(op) ==
    IF op = "get" THEN "ok"
    ELSE IF op = "update" THEN "reload"
    ELSE IF op = "remove" THEN "delete"
    ELSE IF op = "addLesson" THEN "insertLesson"
    ELSE IF op = "enroll" THEN "findEnrollment"
    ELSE "findLesson"

\* findById returned e to the handler of call
Found(r, call, e) ==
    LET next == IF Denied(call, e) THEN "forbidden" ELSE Continue(call.op)
    IN  /\ Goto(r, next)
        /\ ent' = [ent EXCEPT ![r] =
                     IF next = "reload" THEN Assign(e, call.dto) ELSE None]

FindById(r, call) ==
    /\ Arrive(r, call)
    /\ \/ /\ cache[call.target] # None
          /\ Found(r, call, cache[call.target])
       \/ /\ cache[call.target] = None
          /\ Goto(r, "read")
          /\ UNCHANGED ent

On(op, u, c) ==
    [op |-> op, user |-> u, target |-> c, lesson |-> None, dto |-> NoDto]

GetCourse(r) == \E c \in Known : FindById(r, On("get", None, c))

UpdateCourse(r) ==
    \E u \in Users, c \in Known, dto \in Patches :
        FindById(r, [On("update", u, c) EXCEPT !.dto = dto])

RemoveCourse(r) ==
    \E u \in Users, c \in Known : FindById(r, On("remove", u, c))

AddLesson(r) ==
    \E u \in Users, c \in Known, t \in Titles :
        FindById(r, [On("addLesson", u, c) EXCEPT !.dto.title = t])

UpdateLesson(r) ==
    \E u \in Users, c \in Known, l \in KnownLessons, t \in Titles :
        FindById(r, [On("updateLesson", u, c)
                       EXCEPT !.lesson = l, !.dto.title = t])

RemoveLesson(r) ==
    \E u \in Users, c \in Known, l \in KnownLessons :
        FindById(r, [On("removeLesson", u, c) EXCEPT !.lesson = l])

Enroll(r) == \E u \in Users, c \in Known : FindById(r, On("enroll", u, c))

\* RolesGuard admits instructors and admins; the entity is a fresh draft
CreateCourse(r) ==
    \E u \in Users, t \in Titles :
        /\ Arrive(r, [On("create", u, None) EXCEPT !.dto.title = t])
        /\ Goto(r, IF RoleOf[u] \in {"instructor", "admin"}
                   THEN "insertCourse" ELSE "forbidden")
        /\ UNCHANGED ent

ListCourses(r) ==
    \E k \in ListKeys :
        /\ Arrive(r, On("list", None, k))
        /\ Goto(r, IF cache[k] # None THEN "ok" ELSE "read")
        /\ UNCHANGED ent

----------------------------------------------------------------------------
(* The cache miss: query, then cache.set *)

ReadCourse(r) ==
    /\ pc[r] = "read" /\ req[r].target \in CourseIds
    /\ LET e == View(req[r].target)
       IN  /\ Goto(r, IF e = None THEN "notFound" ELSE "fill")
           /\ ent' = [ent EXCEPT ![r] = e]
    /\ UNCHANGED <<db, cache, req, old, pend, history>>

ReadList(r) ==
    /\ pc[r] = "read" /\ req[r].target \in ListKeys
    /\ Goto(r, "fill")
    /\ ent' = [ent EXCEPT ![r] = List(req[r].target)]
    /\ UNCHANGED <<db, cache, req, old, pend, history>>

Fill(r) ==
    LET k == req[r].target
    IN  /\ pc[r] = "fill"
        /\ cache' = [cache EXCEPT ![k] = ent[r]]
        /\ raced' = IF ent[r] = Current(k) THEN raced \ {k} ELSE raced \cup {k}
        /\ IF req[r].op = "list"
           THEN Goto(r, "ok") /\ ent' = [ent EXCEPT ![r] = None]
           ELSE Found(r, req[r], ent[r])
        /\ UNCHANGED <<db, req, old, pend, clobbered, bumped>>

----------------------------------------------------------------------------
(* After a write: the deletions the handler awaits, in any order *)

\* Variants with a bug: one of the two kinds of key is forgotten
ListKeysOnly(call)  == {"scan"}
CourseKeyOnly(call) == {call.target} \cap CourseIds

\* Promise.all([del(courseKey), invalidateCourseListCache()]) or one of them
Invalidations(call) ==
    IF call.op \in {"update", "remove"} THEN {call.target, "scan"}
    ELSE IF call.op = "create" THEN {"scan"}
    ELSE {call.target}

Invalidate(r) ==
    /\ Goto(r, "invalidate")
    /\ pend' = [pend EXCEPT ![r] = Invalidations(req[r])]

\* All deletions done: enroll goes on to its INSERT, the others answer
Settle(r, left) ==
    /\ pend' = [pend EXCEPT ![r] = left]
    /\ Goto(r, IF left # {} THEN "invalidate"
               ELSE IF req[r].op = "enroll" THEN "insertEnrollment" ELSE "ok")

\* cache.del(k)
Del(r, k) ==
    /\ k \in pend[r] \cap Keys
    /\ cache' = [cache EXCEPT ![k] = None]
    /\ raced' = raced \ {k}
    /\ Settle(r, pend[r] \ {k})
    /\ UNCHANGED <<db, locals, clobbered, bumped>>

\* A variant with a bug: scans until nothing is found
ScanAgain(r) ==
    /\ "scan" \in pend[r]
    /\ Settle(r, pend[r] \cup {k \in ListKeys : cache[k] # None})
    /\ UNCHANGED <<db, cache, locals, history>>

\* cache.store.keys('courses:all:*'): the list keys that exist now
Scan(r) ==
    /\ "scan" \in pend[r]
    /\ Settle(r, (pend[r] \ {"scan"}) \cup {k \in ListKeys : cache[k] # None})
    /\ UNCHANGED <<db, cache, locals, history>>

\* The TTL of an entry runs out, or Redis evicts it
Expire(k) ==
    /\ cache[k] # None
    /\ cache' = [cache EXCEPT ![k] = None]
    /\ raced' = raced \ {k}
    /\ UNCHANGED <<db, pc, locals, pend, clobbered, bumped>>

----------------------------------------------------------------------------
(* courseRepo.save(course), lessons cascaded: a SELECT of what is there,   *)
(* then one transaction that writes the difference                         *)

Reload(r) ==
    /\ pc[r] = "reload"
    /\ Goto(r, "save")
    /\ old' = [old EXCEPT ![r] = View(req[r].target)]
    /\ UNCHANGED <<db, cache, req, ent, pend, history>>

\* Lessons the entity holds and the SELECT did not find are INSERTed; those
\* it found and the entity lacks lose their courseId, which is NOT NULL
Added(e, o)   == {l \in LessonIds : /\ e.lessons[l] # None
                                    /\ o # None => o.lessons[l] = None}
Dropped(e, o) == {l \in LessonIds : /\ e.lessons[l] = None
                                    /\ o # None /\ o.lessons[l] # None}

SaveFails(c, e, o) ==
    \/ \E l \in Dropped(e, o) : lessons[l] # None
    \/ \E l \in Added(e, o) : lessons[l] # None
    \/ o = None /\ courses[c] # None
    \/ o # None /\ courses[c] = None /\ Added(e, o) # {}

\* SET column = new only where the entity differs from the row selected
Changed(new, was, now) == IF new # was THEN new ELSE now

SavedRow(c, e, o) ==
    IF o = None THEN e.row
    ELSE IF courses[c] = None THEN None
    ELSE [title |-> Changed(e.row.title, o.row.title, courses[c].title),
          status |-> Changed(e.row.status, o.row.status, courses[c].status),
          instructorId |-> Changed(e.row.instructorId, o.row.instructorId,
                                   courses[c].instructorId),
          enrollmentCount |-> Changed(e.row.enrollmentCount,
                                      o.row.enrollmentCount,
                                      courses[c].enrollmentCount)]

SavedLesson(c, e, o, l) ==
    IF l \in Added(e, o) THEN [courseId |-> c, title |-> e.lessons[l]]
    ELSE IF e.lessons[l] = None \/ lessons[l] = None THEN lessons[l]
    ELSE [courseId |-> lessons[l].courseId,
          title |-> Changed(e.lessons[l], o.lessons[l], lessons[l].title)]

Counts(row) == IF row = None THEN 0 ELSE row.enrollmentCount

Save(r) ==
    LET c == req[r].target
        e == ent[r]
        o == old[r]
    IN  /\ pc[r] = "save"
        /\ IF SaveFails(c, e, o)
           THEN /\ Goto(r, "error")
                /\ UNCHANGED <<courses, lessons, pend, clobbered>>
           ELSE /\ courses' = [courses EXCEPT ![c] = SavedRow(c, e, o)]
                /\ lessons' = [l \in LessonIds |-> SavedLesson(c, e, o, l)]
                /\ clobbered' =
                     IF o # None /\ Counts(SavedRow(c, e, o)) = Counts(courses[c])
                     THEN clobbered ELSE clobbered \cup {c}
                /\ Invalidate(r)
        /\ ent' = [ent EXCEPT ![r] = None]
        /\ old' = [old EXCEPT ![r] = None]
        /\ UNCHANGED <<enrollments, cache, req, raced, bumped>>

\* courseRepo.save of a new entity: INSERT under an id no row has
InsertCourse(r) ==
    /\ pc[r] = "insertCourse" /\ courses[r] = None
    /\ courses' = [courses EXCEPT ![r] =
                     [title |-> req[r].dto.title, status |-> "draft",
                      instructorId |-> req[r].user, enrollmentCount |-> 0]]
    /\ Invalidate(r)
    /\ UNCHANGED <<lessons, enrollments, cache, locals, history>>

\* A variant with a bug: enrollments do not reference their course
RemoveNeverFails(c) == FALSE

\* courseRepo.remove(course) fails on a foreign key: migrated, enrollments
\* reference the course and lessons go with it; synchronized, lessons do, as
\* neither the schema nor TypeORM cascades the removal
RemoveFails(c) ==
    IF Migrated THEN \E n \in enrollments : n.courseId = c
    ELSE \E l \in LessonIds : lessons[l] # None /\ lessons[l].courseId = c

Delete(r) ==
    LET c == req[r].target
    IN  /\ pc[r] = "delete"
        /\ IF RemoveFails(c)
           THEN Goto(r, "error") /\ UNCHANGED <<courses, lessons, pend>>
           ELSE /\ courses' = [courses EXCEPT ![c] = None]
                /\ lessons' = [l \in LessonIds |->
                     IF lessons[l] # None /\ lessons[l].courseId = c
                     THEN None ELSE lessons[l]]
                /\ Invalidate(r)
        /\ UNCHANGED <<enrollments, cache, locals, history>>

----------------------------------------------------------------------------
(* Lessons *)

\* lessonRepo.save of a new entity; its course must exist
InsertLesson(r) ==
    LET c == req[r].target
    IN  /\ pc[r] = "insertLesson" /\ lessons[r] = None
        /\ IF courses[c] = None
           THEN Goto(r, "error") /\ UNCHANGED <<lessons, pend>>
           ELSE /\ lessons' = [lessons EXCEPT ![r] =
                                 [courseId |-> c, title |-> req[r].dto.title]]
                /\ Invalidate(r)
        /\ UNCHANGED <<courses, enrollments, cache, locals, history>>

\* A variant with a bug: findOne({ where: { id: lessonId } })
IsAnyLesson(l, c) == lessons[l] # None

\* findOne({ where: { id: lessonId, courseId } })
IsLessonOf(l, c) == lessons[l] # None /\ lessons[l].courseId = c

FindLesson(r) ==
    /\ pc[r] = "findLesson"
    /\ Goto(r, IF ~IsLessonOf(req[r].lesson, req[r].target) THEN "notFound"
               ELSE IF req[r].op = "updateLesson" THEN "reloadLesson"
               ELSE "deleteLesson")
    /\ UNCHANGED <<db, cache, locals, pend, history>>

ReloadLesson(r) ==
    /\ pc[r] = "reloadLesson"
    /\ Goto(r, "saveLesson")
    /\ old' = [old EXCEPT ![r] = lessons[req[r].lesson]]
    /\ UNCHANGED <<db, cache, req, ent, pend, history>>

\* lessonRepo.save: INSERT if the SELECT found no row, else UPDATE, which
\* does nothing when the row is gone by now
SaveLesson(r) ==
    LET l == req[r].lesson
        c == req[r].target
        t == req[r].dto.title
    IN  /\ pc[r] = "saveLesson"
        /\ IF old[r] = None /\ (lessons[l] # None \/ courses[c] = None)
           THEN Goto(r, "error") /\ UNCHANGED <<lessons, pend>>
           ELSE /\ lessons' = [lessons EXCEPT ![l] =
                     IF old[r] = None THEN [courseId |-> c, title |-> t]
                     ELSE IF lessons[l] = None THEN None
                     ELSE [courseId |-> lessons[l].courseId,
                           title |-> Changed(t, old[r].title, lessons[l].title)]]
                /\ Invalidate(r)
        /\ old' = [old EXCEPT ![r] = None]
        /\ UNCHANGED <<courses, enrollments, cache, req, ent, history>>

DeleteLesson(r) ==
    /\ pc[r] = "deleteLesson"
    /\ lessons' = [lessons EXCEPT ![req[r].lesson] = None]
    /\ Invalidate(r)
    /\ UNCHANGED <<courses, enrollments, cache, locals, history>>

----------------------------------------------------------------------------
(* Enrollment *)

Existing(u, c) == \E n \in enrollments : n.userId = u /\ n.courseId = c

FindEnrollment(r) ==
    /\ pc[r] = "findEnrollment"
    /\ Goto(r, IF Existing(req[r].user, req[r].target)
               THEN "conflict" ELSE "increment")
    /\ UNCHANGED <<db, cache, locals, pend, history>>

\* A variant with a bug: the count is computed from the rows found
Recounted(c) == Cardinality({n \in enrollments : n.courseId = c}) + 1

\* UPDATE courses SET enrollmentCount = enrollmentCount + 1 WHERE id
Incremented(c) == courses[c].enrollmentCount + 1

Increment(r) ==
    LET c == req[r].target
    IN  /\ pc[r] = "increment"
        /\ IF courses[c] = None
           THEN UNCHANGED <<courses, bumped>>
           ELSE /\ courses' = [courses EXCEPT ![c].enrollmentCount = Incremented(c)]
                /\ bumped' = bumped \cup {r}
        /\ Invalidate(r)
        /\ UNCHANGED <<lessons, enrollments, cache, locals, raced, clobbered>>

\* enrollmentRepo.save; the constraints are the migration's
EnrollmentFails(u, c) == Migrated /\ (Existing(u, c) \/ courses[c] = None)

InsertEnrollment(r) ==
    LET c == req[r].target
        u == req[r].user
    IN  /\ pc[r] = "insertEnrollment"
        /\ IF EnrollmentFails(u, c)
           THEN Goto(r, "error") /\ UNCHANGED enrollments
           ELSE /\ enrollments' = enrollments \cup
                                    {[id |-> r, userId |-> u, courseId |-> c]}
                /\ Goto(r, "ok")
        /\ UNCHANGED <<courses, lessons, cache, locals, pend, history>>

----------------------------------------------------------------------------
(* The call a handler awaits rejects, or its process dies: what it did     *)
(* stays, what it still had to do is lost                                  *)

Lost(r) == {k \in Keys : /\ cache[k] # None
                         /\ \/ k \in pend[r]
                            \/ k \in ListKeys /\ "scan" \in pend[r]}

Fail(r) ==
    /\ MayFail
    /\ pc[r] \in Steps
    /\ Goto(r, "error")
    /\ ent' = [ent EXCEPT ![r] = None]
    /\ old' = [old EXCEPT ![r] = None]
    /\ pend' = [pend EXCEPT ![r] = {}]
    /\ raced' = raced \cup Lost(r)
    /\ UNCHANGED <<db, cache, req, clobbered, bumped>>

Arrival(r) ==
    \/ GetCourse(r) \/ UpdateCourse(r) \/ RemoveCourse(r) \/ CreateCourse(r)
    \/ AddLesson(r) \/ UpdateLesson(r) \/ RemoveLesson(r)
    \/ Enroll(r) \/ ListCourses(r)

Serve(r) ==
    \/ ReadCourse(r) \/ ReadList(r) \/ Fill(r)
    \/ (\E k \in Keys : Del(r, k)) \/ Scan(r)
    \/ Reload(r) \/ Save(r) \/ InsertCourse(r) \/ Delete(r)
    \/ InsertLesson(r) \/ FindLesson(r) \/ ReloadLesson(r)
    \/ SaveLesson(r) \/ DeleteLesson(r)
    \/ FindEnrollment(r) \/ Increment(r) \/ InsertEnrollment(r)

Next ==
    \/ \E r \in Requests : Arrival(r) \/ Serve(r) \/ Fail(r)
    \/ \E k \in Keys : Expire(k)

Spec == Init /\ [][Next]_vars
=============================================================================
