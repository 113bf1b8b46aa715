------------------------------ MODULE MCCourses ------------------------------
(***************************************************************************)
(* Small instances of Courses for TLC.                                     *)
(***************************************************************************)
EXTENDS CoursesProps, TLC

CONSTANTS ann, bob, eve,      \* instructor, student, admin
          r1, r2, r3,         \* requests
          t1, t2              \* titles

TwoRequests   == {r1, r2}
ThreeRequests == {r1, r2, r3}
Alike3        == Permutations(ThreeRequests)

Everyone == {ann, bob, eve}
Staff    == {ann, bob}
Owners   == {ann, eve}
RoleAmong(users) == [u \in users |-> CASE u = ann -> "instructor"
                                       [] u = bob -> "student"
                                       [] u = eve -> "admin"]
EveryoneRoles == RoleAmong(Everyone)
StaffRoles    == RoleAmong(Staff)
OwnerRoles    == RoleAmong(Owners)

Published   == {"published"}
AnyStatus   == Statuses

OneTitle  == {t1}
TwoTitles == {t1, t2}
Alike     == Alike3 \cup Permutations(TwoTitles)

Publish   == [title |-> None, status |-> "published"]
Unpublish == [title |-> None, status |-> "archived"]
Rename(t) == [title |-> t, status |-> None]

StatusPatches == {Publish, Unpublish}
AllPatches    == {Unpublish, Rename(t1), Rename(t2)}
RenamePatches == {Rename(t1), Rename(t2)}

LessonLoad == {"update", "create", "addLesson", "updateLesson", "removeLesson"}
EnrollLoad == {"get", "update", "remove", "enroll"}
AdmitLoad  == EnrollLoad \ {"remove"}
FullLoad   == Ops
=============================================================================
