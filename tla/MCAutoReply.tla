----------------------------- MODULE MCAutoReply -----------------------------
(***************************************************************************)
(* An instance of AutoReply for TLC: a group in which two messages mention *)
(* the bot, among others that do not.                                      *)
(***************************************************************************)
EXTENDS AutoReply, TLC

CONSTANTS asks,    \* messages that mention the bot
          others   \* an echo of ours, and messages that do not mention it

MCEvents == asks \cup others
MCKind == [e \in MCEvents |-> IF e \in asks THEN "mention" ELSE "plain"]

\* Messages of one kind are interchangeable.
Symmetry == Permutations(asks) \cup Permutations(others)

=============================================================================
