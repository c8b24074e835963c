-------------------------------- MODULE Fifo --------------------------------
(***************************************************************************)
(* What a stream of events promises: the consumer receives what was pushed   *)
(* before the stream was closed or failed, in order and once, and then learns *)
(* of the end.                                                              *)
(***************************************************************************)
EXTENDS Sequences

CONSTANTS Item, END, FAIL

VARIABLES queue, closed, consumer, received

vars == <<queue, closed, consumer, received>>

Init ==
    /\ queue = <<>>
    /\ closed = FALSE
    /\ consumer = "running"
    /\ received = <<>>

Put(slot) ==
    /\ ~closed
    /\ queue' = Append(queue, slot)
    /\ closed' = (slot \in {END, FAIL})
    /\ UNCHANGED <<consumer, received>>

Get ==
    /\ consumer = "running" /\ queue # <<>>
    /\ queue' = Tail(queue)
    /\ IF Head(queue) \in Item
       THEN received' = Append(received, Head(queue)) /\ UNCHANGED consumer
       ELSE /\ consumer' = IF Head(queue) = END THEN "done" ELSE "failed"
            /\ UNCHANGED received
    /\ UNCHANGED closed

\* The consumer stops iterating.
Return ==
    /\ consumer = "running"
    /\ consumer' = "returned"
    /\ UNCHANGED <<queue, closed, received>>

Next == (\E slot \in Item \cup {END, FAIL} : Put(slot)) \/ Get \/ Return

Spec == Init /\ [][Next]_vars
=============================================================================
