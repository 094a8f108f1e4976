----------------------------- MODULE MCTxQueues -----------------------------
(* TLC instances of TxQueues: two queues of one interface. *)
EXTENDS TxQueues

CONSTANTS m1, m2, u0, u1, u2

\* u2 is in the queue of low priority, the other frames in the first one.
QueueOfFrames == [f \in Frames |-> IF f = u2 THEN 2 ELSE 0]
Priorities    == [q \in Queues |-> IF q = 0 THEN 1 ELSE 64]

=============================================================================
