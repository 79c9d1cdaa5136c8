-------------------------- MODULE OutboundDelivery --------------------------
(***************************************************************************)
(* What the outbound queue promises its callers (BotResponseService and    *)
(* SendMessageHandler), without workers, locks, retries or stalls.  A      *)
(* published message is settled once, as completed or failed; it completes *)
(* only after the channel has accepted at least one copy of it; and the    *)
(* channel never accepts more than Budget copies.  A copy may still be     *)
(* accepted after the message is settled: a worker that the queue has      *)
(* given up on keeps running.                                              *)
(***************************************************************************)
EXTENDS Naturals

CONSTANTS Jobs,    \* the jobs the queue may carry
          Budget   \* the most copies of one message the channel accepts

VARIABLES status,  \* status[j]: what the caller may know of job j
          copies   \* copies[j]: which of the Budget executions were accepted

vars == <<status, copies>>

Statuses == {"unpublished", "pending", "completed", "failed"}

Init ==
    /\ status = [j \in Jobs |-> "unpublished"]
    /\ copies = [j \in Jobs |-> {}]

Publish(j) ==
    /\ status[j] = "unpublished"
    /\ status' = [status EXCEPT ![j] = "pending"]
    /\ UNCHANGED copies

AcceptCopy(j) ==
    /\ status[j] # "unpublished"
    /\ \E n \in (1 .. Budget) \ copies[j] :
          copies' = [copies EXCEPT ![j] = @ \cup {n}]
    /\ UNCHANGED status

Complete(j) ==
    /\ status[j] = "pending"
    /\ copies[j] # {}
    /\ status' = [status EXCEPT ![j] = "completed"]
    /\ UNCHANGED copies

Drop(j) ==
    /\ status[j] = "pending"
    /\ status' = [status EXCEPT ![j] = "failed"]
    /\ UNCHANGED copies

Next == \E j \in Jobs : Publish(j) \/ AcceptCopy(j) \/ Complete(j) \/ Drop(j)

Spec == Init /\ [][Next]_vars

=============================================================================
