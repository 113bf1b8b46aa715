------------------------------ MODULE MCVideo ------------------------------
(***************************************************************************)
(* Small instances of Video for TLC.                                       *)
(***************************************************************************)
EXTENDS Video

SmallFiles == 1 .. 7
=============================================================================
