----------------------------- MODULE MCAccounts -----------------------------
(***************************************************************************)
(* Small instances of Accounts for TLC.                                    *)
(***************************************************************************)
EXTENDS Accounts, TLC

CONSTANTS r1, r2, r3, home, work

ThreeRequests == {r1, r2, r3}
Alike         == Permutations(ThreeRequests)
Addresses     == {home, work}
FullLoad      == Ops
=============================================================================
