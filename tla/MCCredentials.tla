---------------------------- MODULE MCCredentials ----------------------------
(***************************************************************************)
(* Small instances of Credentials for TLC.                                 *)
(***************************************************************************)
EXTENDS Credentials, TLC

Alike == Permutations(Requests) \cup Permutations(Learners)
=============================================================================
