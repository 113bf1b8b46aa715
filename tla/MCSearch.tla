------------------------------ MODULE MCSearch ------------------------------
(***************************************************************************)
(* Small instances of SearchIndex for TLC.                                 *)
(***************************************************************************)
EXTENDS MCCourses, SearchIndex

OneOwner      == {ann}
OneOwnerRoles == RoleAmong(OneOwner)
=============================================================================
