---------------------------- MODULE MCZaloSession ----------------------------
(***************************************************************************)
(* An instance of ZaloSession for TLC.                                     *)
(***************************************************************************)
EXTENDS ZaloSession, TLC

\* Logins are interchangeable.
Symmetry == Permutations(Logins)

=============================================================================
