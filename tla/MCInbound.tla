----------------------------- MODULE MCInbound -----------------------------
(***************************************************************************)
(* Instances of Inbound for TLC: one conversation with a message of the    *)
(* peer and an echo of a message of our own.                               *)
(***************************************************************************)
EXTENDS Inbound, TLC

CONSTANTS peer, echo, chat, text

MCConversationOf == [m \in Messages |-> chat]
MCTextOf == [m \in OwnMessages |-> text]

\* The slots are interchangeable (safety run only).
Symmetry == Permutations(Workers)

\* What the delivery run tells apart: unseen and overlapped are history that
\* no guard, no other variable and none of that run's properties reads.
Observed == <<queueVars, workerVars, known, unread, members, row, replyVars, emitted>>
=============================================================================
