----------------------------- MODULE CourseBoard -----------------------------
(***************************************************************************)
(* What the courses API promises its clients: a board of courses with      *)
(* their lessons that owners change and students enroll in, one atomic     *)
(* step per operation.  There is no cache and no second copy of anything.  *)
(***************************************************************************)
EXTENDS Naturals

CONSTANTS Requests, Users, RoleOf, Sample, Intro, Instructor, Titles, Patches,
          None

CourseIds == {Sample} \cup Requests
LessonIds == {Intro} \cup Requests
Statuses  == {"draft", "published", "archived"}

VARIABLES board,      \* the courses, as GET /courses/:id shows them
          enrolled    \* <<user, course>> pairs

vars == <<board, enrolled>>

Blank == [l \in LessonIds |-> None]

Init ==
    /\ \E t \in Titles, u \in Titles \cup {None}, s \in Statuses :
         board = [c \in CourseIds |->
           IF c = Sample
           THEN [row |-> [title |-> t, status |-> s,
                          instructorId |-> Instructor, enrollmentCount |-> 0],
                 lessons |-> [Blank EXCEPT ![Intro] = u]]
           ELSE None]
    /\ enrolled = {}

Owns(u, c) == \/ board[c].row.instructorId = u
              \/ RoleOf[u] = "admin"

Create(u, c, t) ==
    /\ RoleOf[u] \in {"instructor", "admin"}
    /\ board[c] = None
    /\ board' = [board EXCEPT ![c] =
         [row |-> [title |-> t, status |-> "draft",
                   instructorId |-> u, enrollmentCount |-> 0],
          lessons |-> Blank]]
    /\ UNCHANGED enrolled

\* A patch changes the fields it names and no other
Patch(u, c, dto) ==
    /\ board[c] # None /\ Owns(u, c)
    /\ board' = [board EXCEPT
         ![c].row.title  = IF dto.title = None THEN @ ELSE dto.title,
         ![c].row.status = IF dto.status = None THEN @ ELSE dto.status]
    /\ UNCHANGED enrolled

Remove(u, c) ==
    /\ board[c] # None /\ Owns(u, c)
    /\ \A e \in enrolled : e[2] # c
    /\ board' = [board EXCEPT ![c] = None]
    /\ UNCHANGED enrolled

\* Adds, changes or removes one lesson
SetLesson(u, c, l, t) ==
    /\ board[c] # None /\ Owns(u, c)
    /\ board' = [board EXCEPT ![c].lessons[l] = t]
    /\ UNCHANGED enrolled

Enroll(u, c) ==
    /\ board[c] # None /\ board[c].row.status = "published"
    /\ <<u, c>> \notin enrolled
    /\ enrolled' = enrolled \cup {<<u, c>>}
    /\ board' = [board EXCEPT ![c].row.enrollmentCount = @ + 1]

Next ==
    \E u \in Users, c \in CourseIds :
        \/ \E t \in Titles : Create(u, c, t)
        \/ \E dto \in Patches : Patch(u, c, dto)
        \/ Remove(u, c)
        \/ \E l \in LessonIds, t \in Titles \cup {None} : SetLesson(u, c, l, t)
        \/ Enroll(u, c)

Spec == Init /\ [][Next]_vars
=============================================================================
