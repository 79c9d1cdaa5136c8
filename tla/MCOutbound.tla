----------------------------- MODULE MCOutbound -----------------------------
(***************************************************************************)
(* Instances of Outbound for TLC.                                          *)
(***************************************************************************)
EXTENDS Outbound, TLC

\* The slots are interchangeable (safety run only).
Symmetry == Permutations(Workers)

\* What the liveness run tells apart: accepted, faulted and overran are history
\* that no guard and no other variable reads.
Observed == <<jobVars, lock, workerVars>>
=============================================================================
