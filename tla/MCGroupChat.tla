---------------------------- MODULE MCGroupChat ----------------------------
(***************************************************************************)
(* An instance of GroupChat for TLC.                                       *)
(***************************************************************************)
EXTENDS GroupChat, TLC

\* Persons are interchangeable, and so are messages.
Symmetry == Permutations(People) \cup Permutations(Pins)

\* Everybody is in the group, nobody a deputy, and nothing is pinned.
MCInit == Init /\ group = [members |-> People, admins |-> {}, pins |-> {}]

MCSpec == MCInit /\ [][Next]_vars

=============================================================================
