---------------------------- MODULE CoursesProps ----------------------------
(***************************************************************************)
(* What the courses service promises (Courses.tla), and what its documents *)
(* promise that it keeps only without overlap.                             *)
(***************************************************************************)
EXTENDS Courses

\* A request as a client can send it
CallOK(q) ==
    /\ q \in Call
    /\ q.op = "list" <=> q.target \in ListKeys
    /\ q.op = "create" <=> q.target = None
    /\ q.op \notin {"get", "list"} => q.user \in Users
    /\ q.op \in {"updateLesson", "removeLesson"} => q.lesson \in LessonIds
    /\ q.op \in {"create", "addLesson", "updateLesson"} => q.dto.title \in Titles

\* At each step a handler serves the operation that has this step
OpOK(step, op) ==
    /\ step \in {"read", "fill"} => op # "create"
    /\ step \in {"reload", "save"} => op = "update"
    /\ step = "delete" => op = "remove"
    /\ step = "insertCourse" => op = "create"
    /\ step = "insertLesson" => op = "addLesson"
    /\ step \in {"reloadLesson", "saveLesson"} => op = "updateLesson"
    /\ step = "deleteLesson" => op = "removeLesson"
    /\ step = "findLesson" => op \in {"updateLesson", "removeLesson"}
    /\ step \in {"findEnrollment", "increment", "insertEnrollment"} => op = "enroll"

\* ... and holds what the step needs
StepOK(r) ==
    /\ pc[r] = "idle" => req[r] = None
    /\ pc[r] # "idle" => CallOK(req[r]) /\ OpOK(pc[r], req[r].op)
    /\ pc[r] = "fill" => ent[r] \in IF req[r].op = "list" THEN Listing ELSE Entity
    /\ pc[r] \in {"reload", "save"} => ent[r] \in Entity
    /\ pc[r] = "save" => old[r] \in Entity \cup {None}
    /\ pc[r] = "saveLesson" => old[r] \in LessonRow \cup {None}
    /\ pc[r] # "invalidate" => pend[r] = {}

\* Type invariant: every variable holds what its table, key or step may hold
TypeOK ==
    /\ courses \in [CourseIds -> CourseRow \cup {None}]
    /\ lessons \in [LessonIds -> LessonRow \cup {None}]
    /\ enrollments \subseteq Enrollment
    /\ cache \in [Keys -> Entity \cup Listing \cup {None}]
    /\ \A k \in Keys : cache[k] # None =>
         cache[k] \in IF k \in ListKeys THEN Listing ELSE Entity
    /\ pc \in [Requests -> {"idle"} \cup Steps \cup Answers]
    /\ req \in [Requests -> Call \cup {None}]
    /\ ent \in [Requests -> Entity \cup Listing \cup {None}]
    /\ old \in [Requests -> Entity \cup LessonRow \cup {None}]
    /\ pend \in [Requests -> SUBSET (Keys \cup {"scan"})]
    /\ \A r \in Requests : StepOK(r)
    /\ raced \subseteq Keys
    /\ clobbered \subseteq CourseIds
    /\ bumped \subseteq Requests

----------------------------------------------------------------------------
(* Safety *)

\* A deletion of key k is still owed by the handler of r
Owed(k) == \E r \in Requests : \/ k \in pend[r]
                               \/ k \in ListKeys /\ "scan" \in pend[r]

\* Every write of the service is followed by the deletion of the cache keys
\* it makes stale: an entry that differs from the database is about to be
\* deleted by the request that wrote, or was stale already when it was stored
\* (a miss that raced a write), or its deletion was lost in a failure
CacheCoherent ==
    \A k \in Keys : \/ cache[k] \in {None, Current(k)}
                    \/ Owed(k)
                    \/ k \in raced

\* The course lesson l was added to
InHome(l, c) ==
    IF l = Intro THEN c = Sample
    ELSE req[l] # None /\ req[l].op = "addLesson" /\ req[l].target = c

RowsAtHome ==
    \A l \in LessonIds : lessons[l] # None => InHome(l, lessons[l].courseId)

EntriesAtHome ==
    \A c \in CourseIds, l \in LessonIds :
        cache[c] # None /\ cache[c].lessons[l] # None => InHome(l, c)

EntitiesAtHome ==
    \A r \in Requests, l \in LessonIds :
        pc[r] \in {"fill", "reload", "save"} /\ req[r].op # "list" =>
            (ent[r].lessons[l] # None => InHome(l, req[r].target))

TargetsAtHome ==
    \A r \in Requests :
        pc[r] \in {"reloadLesson", "saveLesson", "deleteLesson"} =>
            InHome(req[r].lesson, req[r].target)

\* A lesson belongs for good to the course it was added to: no save of a stale
\* entity, no repeated INSERT and no request made under another course moves
\* it, and no cache entry or handler is about to
LessonsStayHome ==
    RowsAtHome /\ EntriesAtHome /\ EntitiesAtHome /\ TargetsAtHome

\* enrollmentCount is the number of increments that reached the row, and an
\* enrollment row is always preceded by its increment, whatever order
\* requests run in and wherever they fail, unless a save of a stale entity
\* wrote an older count back; also then the count is never ahead of the
\* increments: no save, fill or second INSERT brings in a count that was not
\* reached
CountAccounted ==
    \A c \in CourseIds : courses[c] # None =>
      LET counted == {r \in bumped : req[r].target = c}
      IN  /\ courses[c].enrollmentCount <= Cardinality(counted)
          /\ c \notin clobbered =>
               /\ courses[c].enrollmentCount = Cardinality(counted)
               /\ \A n \in enrollments : n.courseId = c => n.id \in bumped

\* InitialSchema.ts:70 UNIQUE("userId", "courseId"): no two rows of enrollments
\* are for one user and course
UniqueEnrollment ==
    \A m, n \in enrollments :
        m.userId = n.userId /\ m.courseId = n.courseId => m = n

\* An answered enrollment stays: one row per user and course, its course
\* still there, whatever is removed, saved or enrolled at the same time
EnrollmentKept ==
    /\ \A r \in Requests :
         pc[r] = "ok" /\ req[r].op = "enroll" =>
           /\ \E n \in enrollments : n.id = r /\ n.courseId = req[r].target
           /\ courses[req[r].target] # None
    /\ UniqueEnrollment

\* Is r a request that may change course c?
MayChange(r, c) ==
    /\ req[r] # None /\ req[r].op \in OwnerOps /\ req[r].target = c
    /\ \/ RoleOf[req[r].user] = "admin"
       \/ courses[c] # None => courses[c].instructorId = req[r].user

\* A course changes other than in its count, or gains, loses or changes a
\* lesson, only in a step of a request by its instructor or an admin, even
\* when the check was made on a cached entity the request outlived
OnlyOwnersChange ==
    [][\A c \in CourseIds :
         courses[c] # None /\ View(c)' # View(c) =>
           \E r \in Requests :
             /\ pc'[r] # pc[r]
             /\ \/ MayChange(r, c)
                \/ /\ req[r].op = "enroll" /\ req[r].target = c
                   /\ courses'[c] = [courses[c] EXCEPT !.enrollmentCount = @ + 1]]_vars

----------------------------------------------------------------------------
(* Liveness *)

\* An entry that a write has made stale goes before its TTL: the writer's
\* handler deletes it, or it is overwritten, unless a miss stored a stale value
\* or a failure lost the deletion.  No expiry is assumed
StaleEntryDeleted ==
    \A k \in Keys :
        cache[k] \notin {None, Current(k)} /\ k \notin raced
          ~> cache[k] \in {None, Current(k)} \/ k \in raced

\* Every request is answered, and owes no deletion once it is
EveryRequestAnswered ==
    \A r \in Requests : pc[r] \in Steps ~> pc[r] \in Answers /\ pend[r] = {}

----------------------------------------------------------------------------
(* Refinement: without overlap and failures the service is a course board  *)
(* whose operations are atomic; the cache and its invalidation are not     *)
(* visible                                                                 *)

Board == INSTANCE CourseBoard WITH
    board    <- [c \in CourseIds |-> View(c)],
    enrolled <- {<<req[r].user, req[r].target>> : r \in bumped}

BoardSpec == Board!Spec

\* ... and every read shows the board: an entry a request can find is what the
\* tables hold, and so is what a miss answers with and stores
ReadsCurrent ==
    /\ InFlight = {} => \A k \in Keys : cache[k] \in {None, Current(k)}
    /\ \A r \in Requests : pc[r] = "fill" => ent[r] = Current(req[r].target)

\* ... and between requests the count of a course is the number of its
\* enrollments: no save of a cached course sets it back
CountsEnrolled ==
    InFlight = {} =>
      \A c \in CourseIds : courses[c] # None =>
        courses[c].enrollmentCount = Cardinality({n \in enrollments : n.courseId = c})

----------------------------------------------------------------------------
(* What documents and tests say, and the code keeps only as long as no      *)
(* requests overlap                                                        *)

\* courses.service.spec.ts:218 "throws ForbiddenException when course is not
\* published": a request that arrives while no other is being served goes past
\* the check only if the course is published now
AdmittedOnlyPublished ==
    [][\A r \in Requests :
         InFlight = {} /\ pc[r] = "idle" /\ pc'[r] = "findEnrollment" =>
           /\ courses[req'[r].target] # None
           /\ courses[req'[r].target].status = "published"]_vars

\* README "Delete course": a course that is gone does not come back
RemovedStaysRemoved ==
    [][courses[Sample] = None => courses'[Sample] = None]_vars
=============================================================================
