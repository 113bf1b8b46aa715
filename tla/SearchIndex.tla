---------------------------- MODULE SearchIndex ----------------------------
(***************************************************************************)
(* The search index (search.service.ts) behind the courses service: what   *)
(* create, update and remove tell Elasticsearch once they are done.        *)
(*                                                                         *)
(* Nobody awaits indexDocument and deleteDocument, so their calls arrive   *)
(* in any order, later than the answer, or never: SearchService catches    *)
(* their errors.  A call is named after the request that made it.          *)
(***************************************************************************)
EXTENDS CoursesProps

VARIABLES
    index,     \* index courses: the documents by id
    saved,     \* what a handler will index: the entity as save left it
    calls,     \* requests whose call to Elasticsearch is under way
    strayed    \* history: courses whose index a failure or an overlap of
               \*   writes may have left behind

svars == <<vars, index, saved, calls, strayed>>

IndexOps == {"create", "update", "remove"}
Document == [title: Titles, status: Statuses]

\* { title, description, category, tags, status }
Doc(row) == IF row = None THEN None
            ELSE [title |-> row.title, status |-> row.status]

\* The course request r is about
Subject(r) == IF req[r].op = "create" THEN r ELSE req[r].target

\* The course at start was created through the service
SInit ==
    /\ Init
    /\ index = [c \in CourseIds |-> Doc(courses[c])]
    /\ saved = [r \in Requests |-> None]
    /\ calls = {}
    /\ strayed = {}

----------------------------------------------------------------------------
(* A step of the courses service, and what it means for the index *)

\* In this step r writes a course
WritesCourse(r) ==
    /\ pc[r] \in {"save", "insertCourse", "delete"}
    /\ pc'[r] = "invalidate"

\* A variant with a bug: the whole entity is indexed
ReturnedWhole(r) == IF pc[r] = "save" THEN ent[r].row ELSE courses'[Subject(r)]

\* save returns the entity it was given
Returned(r) ==
    IF pc[r] = "save" THEN Doc(ent[r].row) ELSE Doc(courses'[Subject(r)])

\* A variant with a bug: update indexes nothing
TellsOnCreation(r) ==
    /\ pc[r] = "invalidate" /\ pc'[r] = "ok"
    /\ req[r].op \in {"create", "remove"}

\* The deletions are done: the handler calls the index and answers
Tells(r) ==
    /\ pc[r] = "invalidate" /\ pc'[r] = "ok"
    /\ req[r].op \in IndexOps

\* r has written course c and the index has not heard of it
Untold(r, c) ==
    /\ req[r] # None /\ req[r].op \in IndexOps /\ Subject(r) = c
    /\ pc[r] = "invalidate" \/ r \in calls

\* r is about to write over the row of c it selected
Saving(r, c) == pc[r] = "save" /\ req[r].target = c

\* In this step c is written while another write of c is being made or is on
\* its way to the index, or r has written c and fails before it tells the index
Strays(c) ==
    \E r \in Requests :
        \/ /\ WritesCourse(r) /\ Subject(r) = c
           /\ \E q \in Requests \ {r} : Untold(q, c) \/ Saving(q, c)
        \/ /\ pc[r] = "invalidate" /\ pc'[r] = "error"
           /\ Untold(r, c)

Track ==
    /\ saved' = [r \in Requests |->
                   IF WritesCourse(r) THEN Returned(r)
                   ELSE IF pc'[r] = "error" THEN None ELSE saved[r]]
    /\ calls' = calls \cup {r \in Requests : Tells(r)}
    /\ strayed' = strayed \cup {c \in CourseIds : Strays(c)}
    /\ UNCHANGED index

----------------------------------------------------------------------------
(* Elasticsearch *)

Over(r) ==
    /\ calls' = calls \ {r}
    /\ saved' = [saved EXCEPT ![r] = None]
    /\ UNCHANGED vars

\* A variant with a bug: deleteDocument is not called for removed courses
DeliverDocument(r) ==
    /\ r \in calls
    /\ index' = IF saved[r] = None THEN index
                ELSE [index EXCEPT ![Subject(r)] = saved[r]]
    /\ Over(r)
    /\ UNCHANGED strayed

\* client.index with the document, or client.delete
Deliver(r) ==
    /\ r \in calls
    /\ index' = [index EXCEPT ![Subject(r)] = saved[r]]
    /\ Over(r)
    /\ UNCHANGED strayed

\* Elasticsearch is not available: the error is logged
Lose(r) ==
    /\ MayFail
    /\ r \in calls
    /\ strayed' = strayed \cup {Subject(r)}
    /\ Over(r)
    /\ UNCHANGED index

SNext ==
    \/ /\ \/ \E r \in Requests : Arrival(r) \/ Serve(r) \/ Fail(r)
          \/ \E k \in Keys : Expire(k)
       /\ Track
    \/ \E r \in Requests : Deliver(r) \/ Lose(r)

SSpec == SInit /\ [][SNext]_svars

\* Node runs what waits for a settled promise, and a call to Elasticsearch
\* arrives or fails
SFairness == /\ \A r \in Requests : WF_svars(Serve(r) /\ Track)
             /\ \A r \in Requests : WF_svars(Deliver(r) \/ Lose(r))

FairSSpec == SSpec /\ SFairness

----------------------------------------------------------------------------
(* Properties *)

IndexTypeOK ==
    /\ index \in [CourseIds -> Document \cup {None}]
    /\ saved \in [Requests -> Document \cup {None}]
    /\ calls \subseteq Requests
    /\ strayed \subseteq CourseIds

\* Search finds what the tables hold: once every write of a course has been
\* told to the index, its document is the course's row, or is gone with it.
\* It may stray where two writes of the course overlapped, or where a failure
\* kept the index from hearing of one
IndexFollows ==
    \A c \in CourseIds :
        \/ index[c] = Doc(courses[c])
        \/ \E r \in Requests : Untold(r, c)
        \/ c \in strayed

\* ... and it does hear of every write, however late
IndexCatchesUp ==
    \A c \in CourseIds :
        index[c] # Doc(courses[c]) ~> index[c] = Doc(courses[c]) \/ c \in strayed
=============================================================================
