------------------------------ MODULE FastFifo ------------------------------
(***************************************************************************)
(* fast_fifo.ts: the queue between a browse and its consumer.  A chain of     *)
(* ring buffers, each twice as large as the one before, and the promise of a  *)
(* consumer that found it empty.  push, close and fail run to completion;     *)
(* between the settling of the promise and the consumer's next step anything  *)
(* may happen.                                                              *)
(***************************************************************************)
EXTENDS Naturals, Sequences

CONSTANTS
    Hwm,                    \* size of the first ring
    MaxItems,               \* bound on the items pushed
    END, FAIL, Undefined

ASSUME HwmAssumption == Hwm \in Nat \ {0} /\ \E k \in 0..Hwm : Hwm = 2^k
ASSUME ItemsAssumption == MaxItems \in Nat

Item == 1..MaxItems
Slot == Item \cup {END, FAIL}
ASSUME SlotAssumption ==
    {END, FAIL, Undefined} \cap Item = {} /\ Undefined \notin {END, FAIL} /\ END # FAIL

VARIABLES
    rings,      \* from the tail, where the consumer reads, to the head
    resolve,    \* resolve # null: a promise is waiting for a slot
    settled,    \* the slot the promise was given, Undefined if none
    closed,
    consumer,   \* running, waiting at the promise, done, failed or returned
    received,   \* the items yielded
    log         \* history: every slot enqueued, the items numbered in order

vars == <<rings, resolve, settled, closed, consumer, received, log>>

------------------------------------------------------------------------------
(* One ring: FixedFIFO *)

NewRing(hwm) ==
    [buffer |-> [k \in 0..(hwm - 1) |-> Undefined], mask |-> hwm - 1, top |-> 0, btm |-> 0]

Length(ring) == ring.mask + 1

\* k & mask, which is the remainder as a ring's length is a power of two.
Wrap(ring, k) == k % Length(ring)

IsFull(ring)  == ring.buffer[ring.top] # Undefined
IsEmpty(ring) == ring.buffer[ring.btm] = Undefined

RingPush(ring, slot) ==
    [ring EXCEPT !.buffer[ring.top] = slot, !.top = Wrap(ring, @ + 1)]

\* Mutant: the slot read keeps its value.
RingShift_KeepsSlot(ring) == [ring EXCEPT !.btm = Wrap(ring, @ + 1)]

\* Removing the slot at btm, if there is one.
RingShift(ring) ==
    IF IsEmpty(ring) THEN ring
    ELSE [ring EXCEPT !.buffer[ring.btm] = Undefined, !.btm = Wrap(ring, @ + 1)]

------------------------------------------------------------------------------
(* The chain: FastFIFO *)

\* The newest ring, which slots are pushed to (the code's head), and its place.
Newest == Len(rings)

\* A full ring gets a successor of twice its size.
Grow(slot) == Append(rings, RingPush(NewRing(2 * Length(rings[Newest])), slot))

Buffer(slot) ==
    rings' = IF IsFull(rings[Newest]) THEN Grow(slot)
             ELSE [rings EXCEPT ![Newest] = RingPush(@, slot)]

\* Mutant: the promise is settled but not forgotten.
Enqueue_KeepsPromise(slot) ==
    /\ IF resolve THEN settled' = slot /\ UNCHANGED <<resolve, rings>>
                  ELSE Buffer(slot) /\ UNCHANGED <<resolve, settled>>
    /\ log' = Append(log, slot)

\* A waiting consumer is handed the slot; otherwise it is buffered.
Enqueue(slot) ==
    /\ IF resolve THEN resolve' = FALSE /\ settled' = slot /\ UNCHANGED rings
                  ELSE Buffer(slot) /\ UNCHANGED <<resolve, settled>>
    /\ log' = Append(log, slot)

\* Mutant: shift() looks at the tail only.
Readable_TailOnly == rings

\* An empty tail is left behind when it has a successor.
Readable == IF IsEmpty(Head(rings)) /\ Len(rings) > 1 THEN Tail(rings) ELSE rings

------------------------------------------------------------------------------
(* Actions *)

Init ==
    /\ rings = <<NewRing(Hwm)>>
    /\ resolve = FALSE /\ settled = Undefined
    /\ closed = FALSE
    /\ consumer = "running"
    /\ received = <<>> /\ log = <<>>

Push ==
    /\ ~closed /\ Len(log) < MaxItems
    /\ Enqueue(Len(log) + 1)
    /\ UNCHANGED <<closed, consumer, received>>

\* close() and fail(): a last slot, behind all the items.
Close(slot) ==
    /\ ~closed
    /\ closed' = TRUE
    /\ Enqueue(slot)
    /\ UNCHANGED <<consumer, received>>

\* What the iterator does with a slot: it returns, throws or yields.
Deliver(slot) ==
    IF slot \in Item
    THEN consumer' = "running" /\ received' = Append(received, slot)
    ELSE /\ consumer' = IF slot = END THEN "done" ELSE "failed"
         /\ UNCHANGED received

\* The iterator asks for the next slot and finds one, or waits for it.
Take ==
    /\ consumer = "running"
    /\ LET tail == Head(Readable)
       IN  /\ rings' = [Readable EXCEPT ![1] = RingShift(tail)]
           /\ IF IsEmpty(tail)
              THEN resolve' = TRUE /\ consumer' = "waiting" /\ UNCHANGED received
              ELSE Deliver(tail.buffer[tail.btm]) /\ UNCHANGED resolve
    /\ UNCHANGED <<settled, closed, log>>

\* The iterator resumes after its promise was settled.
Resume ==
    /\ consumer = "waiting" /\ settled # Undefined
    /\ Deliver(settled)
    /\ settled' = Undefined
    /\ UNCHANGED <<rings, resolve, closed, log>>

\* The consumer leaves its loop: possible only between two items.
Return ==
    /\ consumer = "running"
    /\ consumer' = "returned"
    /\ UNCHANGED <<rings, resolve, settled, closed, received, log>>

Next ==
    \/ Push
    \/ \E slot \in {END, FAIL} : Close(slot)
    \/ Take \/ Resume \/ Return

Spec == Init /\ [][Next]_vars

\* The consumer keeps asking, and the event loop runs settled promises.
FairSpec == Spec /\ WF_vars(Take) /\ WF_vars(Resume)

------------------------------------------------------------------------------
(* Properties *)

\* The slots the consumer has been given, and those it still has to get.
Taken == Len(received) + (IF consumer \in {"done", "failed"} THEN 1 ELSE 0)
Queue == SubSeq(log, Taken + 1, Len(log))

TypeOK ==
    /\ \A n \in 1..Len(rings) :
          /\ rings[n].top \in DOMAIN rings[n].buffer
          /\ rings[n].btm \in DOMAIN rings[n].buffer
          /\ \A k \in DOMAIN rings[n].buffer : rings[n].buffer[k] \in Slot \cup {Undefined}
    /\ resolve \in BOOLEAN /\ closed \in BOOLEAN
    /\ settled \in Slot \cup {Undefined}
    /\ consumer \in {"running", "waiting", "done", "failed", "returned"}
    /\ received \in Seq(Item) /\ log \in Seq(Slot)

\* No lost wake-up: a consumer waits only for a promise that is still to be
\* settled, with nothing pushed behind its back, or has just been.
NoLostWakeup ==
    /\ consumer = "waiting" <=> resolve \/ settled # Undefined
    /\ resolve => Queue = <<>>

Abstract == INSTANCE Fifo WITH
    queue <- Queue,
    consumer <- IF consumer = "waiting" THEN "running" ELSE consumer

\* The chain of rings and the promise implement a plain queue.
ImplementsFifo == Abstract!Spec

\* A closed or failed queue ends every iteration (close, fail).
Ends == closed ~> consumer \in {"done", "failed", "returned"}
=============================================================================
