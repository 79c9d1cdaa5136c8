----------------------------- MODULE MCContacts -----------------------------
(***************************************************************************)
(* An instance of Contacts for TLC.                                        *)
(***************************************************************************)
EXTENDS Contacts, TLC

\* Persons, calls and syncs are interchangeable.
Symmetry == Permutations(People) \cup Permutations(Calls) \cup Permutations(Syncs)

=============================================================================
