------------------------ MODULE BrowseStreamProofs ------------------------
(***************************************************************************)
(* Proofs about BrowseStream: whichever of the timeout, the signal, the          *)
(* consumer and the rejection comes first, everything started is stopped at most *)
(* once, and every end of the stream has its reason.                           *)
(***************************************************************************)
EXTENDS BrowseStream, TLAPS

Slots == {Event, END, FAIL}

TypeInv ==
    /\ gen \in {"fresh", "running", "yielded", "done", "failed"}
    /\ queue \in Seq(Slots) /\ closed \in BOOLEAN
    /\ stopped \in BOOLEAN /\ calls \in Nat /\ stops \in Nat
    /\ handle \in {"pending", "ok", "rejected"}
    /\ advert \in {"pending", "ok", "rejected"}
    /\ advertStop \in BOOLEAN /\ advertStops \in Nat

\* The stop closure has run, and left one continuation or one call of h.stop().
StopInv ==
    /\ ~stopped => stops = 0 /\ calls = 0
    /\ stops + calls <= 1
    /\ stops > 0 => handle = "ok"
    /\ stopped => closed /\ (stops + calls = 1 \/ handle = "rejected")
    /\ closed => stopped \/ handle = "rejected"

\* A failure is only ever queued, and delivered, when the start was rejected.
FailInv ==
    /\ \A k \in 1..Len(queue) : queue[k] = FAIL => handle = "rejected"
    /\ gen = "failed" => handle = "rejected"

AdvertInv ==
    /\ advertStops = IF advertStop THEN 1 ELSE 0
    /\ advertStop => advert = "ok"

BSInv == TypeInv /\ StopInv /\ FailInv /\ AdvertInv

\* An end is the queue's last slot, and has its cause: a stream that was stopped
\* while it is read was stopped by its timeout or its signal.
EndInv ==
    /\ \A k \in 1..Len(queue) : queue[k] # Event => closed /\ k = Len(queue)
    /\ \A k \in 1..Len(queue) : queue[k] = END => stopped
    /\ gen = "fresh" => ~stopped /\ timer = "none" /\ signal # "listening"
    /\ stopped /\ gen \in {"running", "yielded"} => timer = "fired" \/ signal = "aborted"

------------------------------------------------------------------------------
(* The stop closure and the queue *)

\* A slot joins an open queue and closes it unless it is an event; a closed
\* queue ignores it.
LEMMA PutLemma ==
    ASSUME TypeInv, FailInv, NEW slot \in Slots, Put(slot),
           handle' \in {handle, "rejected"},
           gen' = "failed" => handle' = "rejected",
           slot = FAIL => handle' = "rejected"
    PROVE  /\ queue' \in Seq(Slots) /\ closed' \in BOOLEAN
           /\ closed' = (closed \/ slot # Event)
           /\ FailInv'
<1>1. CASE closed
  <2>1. queue' = queue /\ closed' = closed
    BY <1>1 DEF Put
  <2>. QED  BY <2>1, <1>1 DEF TypeInv, FailInv
<1>2. CASE ~closed
  <2>1. queue' = Append(queue, slot) /\ closed' = (slot # Event)
    BY <1>2 DEF Put
  <2>2. queue' \in Seq(Slots) /\ Len(queue') = Len(queue) + 1
    BY <2>1 DEF TypeInv
  <2>3. \A k \in 1..Len(queue') :
           queue'[k] = IF k = Len(queue) + 1 THEN slot ELSE queue[k]
    BY <2>1, <2>2 DEF TypeInv
  <2>4. ASSUME NEW k \in 1..Len(queue'), queue'[k] = FAIL PROVE handle' = "rejected"
    <3>1. CASE k = Len(queue) + 1
      BY <3>1, <2>3, <2>4
    <3>2. CASE k # Len(queue) + 1
      <4>1. k \in 1..Len(queue) /\ queue[k] = FAIL
        BY <3>2, <2>2, <2>3, <2>4 DEF TypeInv
      <4>. QED  BY <4>1 DEF FailInv
    <3>. QED  BY <3>1, <3>2
  <2>. QED  BY <1>2, <2>1, <2>2, <2>4 DEF FailInv
<1>. QED  BY <1>1, <1>2 DEF TypeInv

\* stop(), the first time or again, keeps every part of the invariant.
LEMMA StopLemma ==
    ASSUME BSInv, Stop, gen' \in {gen, "running"}, UNCHANGED <<backend, advertising>>
    PROVE  BSInv'
<1>. USE SlotAssumption DEF BSInv, backend, advertising
<1>1. CASE stopped
  BY <1>1 DEF Stop, TypeInv, StopInv, FailInv, AdvertInv
<1>2. CASE ~stopped
  <2>1. stopped' = TRUE /\ calls' = calls + 1 /\ Put(END)
    BY <1>2 DEF Stop
  <2>2. gen' = "failed" => handle' = "rejected"
    BY DEF FailInv
  <2>3. queue' \in Seq(Slots) /\ closed' = TRUE /\ FailInv'
    BY <2>1, <2>2, PutLemma DEF Slots
  <2>4. calls = 0 /\ stops = 0
    BY <1>2 DEF StopInv
  <2>. QED  BY <2>1, <2>3, <2>4 DEF TypeInv, StopInv, AdvertInv
<1>. QED  BY <1>1, <1>2 DEF TypeInv

\* The end of the generator: it stops what nobody stopped before.
LEMMA FinishLemma ==
    ASSUME BSInv, NEW end \in {"done", "failed"}, Finish(end),
           end = "failed" => handle = "rejected",
           queue' \in Seq(Slots),
           \A k \in 1..Len(queue') : queue'[k] = FAIL => handle = "rejected",
           UNCHANGED <<backend, advertising>>
    PROVE  BSInv'
<1>. USE DEF BSInv, Finish, backend, advertising
<1>1. stopped' = TRUE /\ closed' = TRUE /\ calls' = IF stopped THEN calls ELSE calls + 1
  BY DEF TypeInv, StopInv
<1>2. TypeInv'
  BY <1>1 DEF TypeInv
<1>3. StopInv'
  BY DEF TypeInv, StopInv
<1>4. FailInv' /\ AdvertInv'
  BY DEF FailInv, AdvertInv
<1>. QED  BY <1>2, <1>3, <1>4

\* doStop: the first call stops, the others do not.
LEMMA AdvertDoStopLemma ==
    ASSUME BSInv, AdvertDoStop, advert' = "ok", UNCHANGED <<stream, backend>>
    PROVE  BSInv'
BY DEF BSInv, AdvertDoStop, stream, backend, TypeInv, StopInv, FailInv, AdvertInv

------------------------------------------------------------------------------
(* The inductive invariant *)

LEMMA InitLemma == Init => BSInv
<1>. SUFFICES ASSUME Init PROVE BSInv
  OBVIOUS
<1>1. queue \in Seq(Slots) /\ Len(queue) = 0
  BY DEF Init
<1>2. TypeInv
  BY <1>1 DEF Init, TypeInv
<1>3. StopInv /\ AdvertInv
  BY DEF Init, StopInv, AdvertInv
<1>4. FailInv
  BY <1>1 DEF Init, FailInv
<1>. QED  BY <1>2, <1>3, <1>4 DEF BSInv

LEMMA DeliverLemma == ASSUME BSInv, Deliver PROVE BSInv'
<1>. USE SlotAssumption DEF BSInv
<1>1. queue \in Seq(Slots) /\ queue # <<>> /\ queue' = Tail(queue)
      /\ UNCHANGED <<backend, advertising>>
  BY DEF Deliver, TypeInv
<1>2. Head(queue) \in Slots /\ Len(queue) >= 1 /\ Head(queue) = queue[1]
      /\ queue' \in Seq(Slots) /\ Len(queue') = Len(queue) - 1
      /\ \A k \in 1..Len(queue') : queue'[k] = queue[k + 1]
  BY <1>1
<1>3. \A k \in 1..Len(queue') : queue'[k] = FAIL => handle = "rejected"
  <2>1. ASSUME NEW k \in 1..Len(queue'), queue'[k] = FAIL PROVE handle = "rejected"
    <3>1. k + 1 \in 1..Len(queue) /\ queue[k + 1] = FAIL
      BY <1>1, <1>2, <2>1
    <3>. QED  BY <3>1 DEF FailInv
  <2>. QED  BY <2>1
<1>4. CASE Head(queue) = Event
  <2>1. gen' = "yielded" /\ UNCHANGED <<leaving, closed, stopped, calls, timer, signal>>
    BY <1>4 DEF Deliver
  <2>. QED  BY <1>1, <1>2, <1>3, <2>1
            DEF backend, advertising, TypeInv, StopInv, FailInv, AdvertInv
<1>5. CASE Head(queue) = END
  <2>1. Finish("done")
    BY <1>5 DEF Deliver
  <2>. QED  BY <1>1, <1>2, <1>3, <2>1, FinishLemma
<1>6. CASE Head(queue) = FAIL
  <2>1. Finish("failed")
    BY <1>6 DEF Deliver
  <2>2. 1 \in 1..Len(queue)
    BY <1>1, <1>2
  <2>3. handle = "rejected"
    BY <1>2, <1>6, <2>2 DEF FailInv
  <2>. QED  BY <1>1, <1>2, <1>3, <2>1, <2>3, FinishLemma
<1>. QED  BY <1>2, <1>4, <1>5, <1>6 DEF Slots

LEMMA NextLemma == BSInv /\ [Next]_vars => BSInv'
<1>. SUFFICES ASSUME BSInv, [Next]_vars PROVE BSInv'
  OBVIOUS
<1>. USE SlotAssumption
<1>1. CASE FirstNext
  <2>1. CASE signal = "aborted"
    <3>1. Stop /\ gen' = "running" /\ UNCHANGED <<backend, advertising>>
      BY <1>1, <2>1 DEF FirstNext
    <3>. QED  BY <3>1, StopLemma
  <2>2. CASE signal # "aborted"
    BY <1>1, <2>2 DEF FirstNext, BSInv, backend, advertising,
                      TypeInv, StopInv, FailInv, AdvertInv
  <2>. QED  BY <2>1, <2>2
<1>2. CASE NextItem
  BY <1>2 DEF NextItem, BSInv, backend, advertising, TypeInv, StopInv, FailInv, AdvertInv
<1>3. CASE Deliver
  BY <1>3, DeliverLemma
<1>4. CASE ReturnFresh
  BY <1>4 DEF ReturnFresh, BSInv, backend, advertising, TypeInv, StopInv, FailInv, AdvertInv
<1>5. CASE ReturnWhilePending
  BY <1>5 DEF ReturnWhilePending, BSInv, backend, advertising,
              TypeInv, StopInv, FailInv, AdvertInv
<1>6. CASE Return
  <2>1. Finish("done") /\ UNCHANGED <<queue, backend, advertising>>
    BY <1>6 DEF Return
  <2>2. queue' \in Seq(Slots) /\ \A k \in 1..Len(queue') : queue'[k] = FAIL => handle = "rejected"
    BY <2>1 DEF BSInv, TypeInv, FailInv
  <2>. QED  BY <2>1, <2>2, FinishLemma
<1>7. CASE TimerFires
  BY <1>7, StopLemma DEF TimerFires
<1>8. CASE Abort
  <2>1. CASE signal = "listening"
    BY <1>8, <2>1, StopLemma DEF Abort
  <2>2. CASE signal # "listening"
    BY <1>8, <2>2 DEF Abort, BSInv, backend, advertising,
                      TypeInv, StopInv, FailInv, AdvertInv
  <2>. QED  BY <2>1, <2>2
<1>9. CASE NativeEvent
  <2>1. /\ Put(Event) /\ UNCHANGED <<gen, stopped, calls, handle, stops, advertising>>
    BY <1>9 DEF NativeEvent
  <2>2. queue' \in Seq(Slots) /\ closed' = closed /\ FailInv'
    BY <2>1, PutLemma DEF BSInv, TypeInv, FailInv, Slots
  <2>. QED  BY <2>1, <2>2 DEF BSInv, advertising, TypeInv, StopInv, AdvertInv
<1>10. CASE BrowseStarted
  BY <1>10 DEF BrowseStarted, BSInv, stream, advertising, TypeInv, StopInv, FailInv, AdvertInv
<1>11. CASE BrowseRejected
  <2>1. /\ Put(FAIL) /\ handle = "pending" /\ handle' = "rejected" /\ calls' = 0
        /\ UNCHANGED <<gen, stopped, stops, advertising>>
    BY <1>11 DEF BrowseRejected
  <2>2. queue' \in Seq(Slots) /\ closed' = TRUE /\ FailInv'
    BY <2>1, PutLemma DEF BSInv, TypeInv, FailInv, Slots
  <2>. QED  BY <2>1, <2>2 DEF BSInv, advertising, TypeInv, StopInv, AdvertInv
<1>12. CASE StopHandle
  BY <1>12 DEF StopHandle, BSInv, advertising, TypeInv, StopInv, FailInv, AdvertInv
<1>13. CASE NativeStops
  BY <1>13 DEF NativeStops, BSInv, stream, advertising, TypeInv, StopInv, FailInv, AdvertInv
<1>14. CASE NativeDies
  BY <1>14 DEF NativeDies, BSInv, stream, advertising, TypeInv, StopInv, FailInv, AdvertInv
<1>15. CASE AdvertStarted
  <2>1. advert' = "ok" /\ UNCHANGED <<stream, backend>>
    BY <1>15 DEF AdvertStarted
  <2>2. CASE advertSignal = "aborted"
    BY <1>15, <2>1, <2>2, AdvertDoStopLemma DEF AdvertStarted
  <2>3. CASE advertSignal # "aborted"
    BY <1>15, <2>3 DEF AdvertStarted, BSInv, stream, backend,
                       TypeInv, StopInv, FailInv, AdvertInv
  <2>. QED  BY <2>2, <2>3
<1>16. CASE AdvertRejected
  BY <1>16 DEF AdvertRejected, BSInv, stream, backend, TypeInv, StopInv, FailInv, AdvertInv
<1>17. CASE AdvertAbort
  <2>1. CASE advert = "ok"
    BY <1>17, <2>1, AdvertDoStopLemma DEF AdvertAbort
  <2>2. CASE advert # "ok"
    BY <1>17, <2>2 DEF AdvertAbort, BSInv, stream, backend,
                       TypeInv, StopInv, FailInv, AdvertInv
  <2>. QED  BY <2>1, <2>2
<1>18. CASE AdvertHandleStop
  BY <1>18, AdvertDoStopLemma DEF AdvertHandleStop
<1>19. CASE UNCHANGED vars
  BY <1>19 DEF vars, stream, backend, advertising, BSInv,
               TypeInv, StopInv, FailInv, AdvertInv
<1>. QED  BY <1>1, <1>2, <1>3, <1>4, <1>5, <1>6, <1>7, <1>8, <1>9, <1>10, <1>11, <1>12,
             <1>13, <1>14, <1>15, <1>16, <1>17, <1>18, <1>19 DEF Next

\* The inductive invariant of browse() and advertise() over an adapter.
THEOREM StreamInvariant == Spec => []BSInv
<1>. QED  BY InitLemma, NextLemma, PTL DEF Spec

\* StopsOnce: what was started is stopped at most once (withStop, makeAdvertiseHandle).
THEOREM StopsAtMostOnce == Spec => []StopsOnce
<1>1. BSInv => StopsOnce
  BY DEF BSInv, TypeInv, StopInv, AdvertInv, StopsOnce
<1>. QED  BY <1>1, StreamInvariant, PTL

------------------------------------------------------------------------------
(* Why a stream ends *)

LEMMA PutEnds ==
    ASSUME TypeInv, EndInv, NEW slot \in Slots, Put(slot), stopped' \in {stopped, TRUE},
           slot = END => stopped'
    PROVE  /\ \A k \in 1..Len(queue') : queue'[k] # Event => closed' /\ k = Len(queue')
           /\ \A k \in 1..Len(queue') : queue'[k] = END => stopped'
<1>1. CASE closed
  <2>1. queue' = queue /\ closed' = closed
    BY <1>1 DEF Put
  <2>. QED  BY <2>1, <1>1 DEF TypeInv, EndInv
<1>2. CASE ~closed
  <2>1. queue' = Append(queue, slot) /\ closed' = (slot # Event)
    BY <1>2 DEF Put
  <2>2. queue' \in Seq(Slots) /\ Len(queue') = Len(queue) + 1 /\ Len(queue) \in Nat
    BY <2>1 DEF TypeInv
  <2>3. /\ queue'[Len(queue')] = slot
        /\ \A k \in 1..Len(queue) : queue'[k] = queue[k]
    BY <2>1, <2>2 DEF TypeInv
  <2>4. \A k \in 1..Len(queue) : queue[k] = Event
    BY <1>2 DEF EndInv
  <2>5. \A k \in 1..Len(queue') : k = Len(queue') \/ queue'[k] = Event
    <3>1. \A k \in 1..Len(queue') : k = Len(queue') \/ k \in 1..Len(queue)
      BY <2>2
    <3>. QED  BY <2>3, <2>4, <3>1
  <2>. QED  BY <2>1, <2>3, <2>5, SlotAssumption
<1>. QED  BY <1>1, <1>2 DEF TypeInv

LEMMA StopEnds ==
    ASSUME TypeInv, EndInv, Stop, gen' \in {gen, "running"}, gen' # "fresh",
           timer' = "fired" \/ signal' = "aborted"
    PROVE  EndInv'
<1>1. CASE stopped
  BY <1>1 DEF Stop, EndInv
<1>2. CASE ~stopped
  <2>1. stopped' = TRUE /\ Put(END)
    BY <1>2 DEF Stop
  <2>. QED  BY <2>1, PutEnds DEF Slots, EndInv
<1>. QED  BY <1>1, <1>2 DEF TypeInv

\* The first slot is taken; what is left has its reasons still.
LEMMA DeliverEnds ==
    ASSUME TypeInv, EndInv, queue # <<>>, queue' = Tail(queue)
    PROVE  /\ \A k \in 1..Len(queue') : queue'[k] # Event => closed /\ k = Len(queue')
           /\ \A k \in 1..Len(queue') : queue'[k] = END => stopped
           /\ Head(queue) # Event => closed /\ queue' = <<>>
           /\ Head(queue) = END => stopped
           /\ Head(queue) \in Slots
<1>1. /\ Head(queue) \in Slots /\ Len(queue) >= 1 /\ Head(queue) = queue[1]
      /\ queue' \in Seq(Slots) /\ Len(queue') = Len(queue) - 1 /\ Len(queue) \in Nat
      /\ \A k \in 1..Len(queue') : queue'[k] = queue[k + 1]
  BY DEF TypeInv
<1>2. \A k \in 1..Len(queue') : k + 1 \in 1..Len(queue)
  BY <1>1
<1>3. 1 \in 1..Len(queue)
  BY <1>1
<1>4. ASSUME NEW k \in 1..Len(queue'), queue'[k] # Event
      PROVE  closed /\ k = Len(queue')
  <2>1. closed /\ k + 1 = Len(queue)
    BY <1>1, <1>2, <1>4 DEF EndInv
  <2>2. Len(queue') \in Nat /\ Len(queue) \in Nat /\ Len(queue') = Len(queue) - 1
    BY <1>1
  <2>3. k = Len(queue')
    <3>1. \A m, n \in Nat : \A x \in 1..m : x + 1 = n /\ m = n - 1 => x = m
      OBVIOUS
    <3>. QED  BY <2>1, <2>2, <3>1
  <2>. QED  BY <2>1, <2>3
<1>5. \A k \in 1..Len(queue') : queue'[k] = END => stopped
  BY <1>1, <1>2 DEF EndInv
<1>6. ASSUME Head(queue) # Event PROVE closed /\ queue' = <<>>
  <2>1. closed /\ Len(queue) = 1
    BY <1>1, <1>3, <1>6 DEF EndInv
  <2>. QED  BY <1>1, <2>1
<1>7. Head(queue) = END => stopped
  BY <1>1, <1>3 DEF EndInv
<1>. QED  BY <1>1, <1>4, <1>5, <1>6, <1>7

LEMMA EndLemma ==
    ASSUME BSInv, EndInv, [Next]_vars
    PROVE  EndInv'
<1>. USE SlotAssumption DEF BSInv
<1>1. CASE FirstNext
  <2>1. gen = "fresh" /\ gen' = "running" /\ ~stopped
    BY <1>1 DEF FirstNext, EndInv
  <2>2. CASE signal = "aborted"
    <3>1. Stop /\ signal' = "aborted"
      BY <1>1, <2>2 DEF FirstNext
    <3>. QED  BY <2>1, <3>1, StopEnds
  <2>3. CASE signal # "aborted"
    BY <1>1, <2>1, <2>3 DEF FirstNext, EndInv
  <2>. QED  BY <2>2, <2>3
<1>2. CASE NextItem \/ ReturnFresh \/ ReturnWhilePending \/ StopHandle
  BY <1>2 DEF NextItem, ReturnFresh, ReturnWhilePending, StopHandle, EndInv
<1>3. CASE Deliver
  <2>1. queue # <<>> /\ queue' = Tail(queue) /\ gen = "running"
    BY <1>3 DEF Deliver
  <2>2. CASE gen' = "yielded" /\ UNCHANGED <<closed, stopped, timer, signal>>
    BY <2>1, <2>2, DeliverEnds DEF EndInv
  <2>3. ASSUME NEW end \in {"done", "failed"}, Finish(end) PROVE EndInv'
    <3>1. gen' = end /\ stopped' = TRUE /\ closed' = TRUE
      BY <2>3 DEF Finish, TypeInv, StopInv
    <3>. QED  BY <2>1, <3>1, DeliverEnds DEF EndInv
  <2>. QED  BY <1>3, <2>2, <2>3 DEF Deliver
<1>4. CASE Return
  <2>1. gen' = "done" /\ stopped' = TRUE /\ closed' = TRUE /\ queue' = queue
    BY <1>4 DEF Return, Finish, TypeInv, StopInv
  <2>. QED  BY <2>1 DEF EndInv
<1>5. CASE TimerFires
  <2>1. Stop /\ timer = "armed" /\ timer' = "fired" /\ gen' = gen
    BY <1>5 DEF TimerFires
  <2>. QED  BY <2>1, StopEnds DEF EndInv
<1>6. CASE Abort
  <2>1. signal' = "aborted" /\ UNCHANGED <<gen, timer>>
    BY <1>6 DEF Abort
  <2>2. CASE signal = "listening"
    <3>1. Stop
      BY <1>6, <2>2 DEF Abort
    <3>2. CASE gen = "fresh"
      BY <2>1, <2>2, <3>2, <3>1 DEF EndInv
    <3>3. CASE gen # "fresh"
      BY <2>1, <3>1, <3>3, StopEnds
    <3>. QED  BY <3>2, <3>3
  <2>3. CASE signal # "listening"
    BY <1>6, <2>1, <2>3 DEF Abort, EndInv
  <2>. QED  BY <2>2, <2>3
<1>7. CASE NativeEvent
  <2>1. Put(Event) /\ UNCHANGED <<gen, stopped, timer, signal>>
    BY <1>7 DEF NativeEvent
  <2>. QED  BY <2>1, PutEnds DEF Slots, EndInv
<1>8. CASE BrowseRejected
  <2>1. Put(FAIL) /\ UNCHANGED <<gen, stopped, timer, signal>>
    BY <1>8 DEF BrowseRejected
  <2>. QED  BY <2>1, PutEnds DEF Slots, EndInv
<1>9. CASE BrowseStarted \/ NativeStops \/ NativeDies
  BY <1>9 DEF BrowseStarted, NativeStops, NativeDies, stream, EndInv
<1>10. CASE AdvertStarted \/ AdvertRejected \/ AdvertAbort \/ AdvertHandleStop
  BY <1>10 DEF AdvertStarted, AdvertRejected, AdvertAbort, AdvertHandleStop, stream, EndInv
<1>11. CASE UNCHANGED vars
  BY <1>11 DEF vars, stream, EndInv
<1>. QED  BY <1>1, <1>2, <1>3, <1>4, <1>5, <1>6, <1>7, <1>8, <1>9, <1>10, <1>11 DEF Next

\* EndIsExplained: a stream that is being read ends only because it timed out, was
\* aborted or failed to start, and not before what the queue had taken was read
\* (withStop, dnsSdOverAdapter.browse).
THEOREM EndsAreExplained == Spec => EndIsExplained
<1> DEFINE Step ==
        gen = "running" =>
           /\ gen' = "done" => timer = "fired" \/ signal = "aborted"
           /\ gen' = "failed" => handle = "rejected"
           /\ gen' \in {"done", "failed"} => queue' = <<>>
<1>1. Init => EndInv
  <2>1. ASSUME Init PROVE Len(queue) = 0
    BY <2>1 DEF Init
  <2>. QED  BY <2>1 DEF Init, EndInv
<1>2. Spec => []EndInv
  BY <1>1, StreamInvariant, EndLemma, PTL DEF Spec
<1>3. ASSUME BSInv, EndInv, [Next]_vars PROVE [Step]_vars
  <2>1. SUFFICES ASSUME gen = "running", gen' \in {"done", "failed"}, Next PROVE Step
    BY <1>3 DEF vars, stream
  <2>2. Deliver
    BY <2>1 DEF Next, FirstNext, NextItem, ReturnFresh, ReturnWhilePending, Return,
                TimerFires, Abort, NativeEvent, BrowseStarted, BrowseRejected, StopHandle,
                NativeStops, NativeDies, AdvertStarted, AdvertRejected, AdvertAbort,
                AdvertHandleStop, stream
  <2>3. queue # <<>> /\ queue' = Tail(queue)
    BY <2>2 DEF Deliver
  <2>4. /\ gen' = "done" => Head(queue) = END
        /\ gen' = "failed" => Head(queue) = FAIL
    BY <2>1, <2>2 DEF Deliver, Finish
  <2>5. queue' = <<>> /\ (gen' = "done" => stopped)
    BY <1>3, <2>1, <2>3, <2>4, DeliverEnds, SlotAssumption DEF BSInv
  <2>6. gen' = "failed" => handle = "rejected"
    <3>1. BSInv'
      BY <1>3, NextLemma
    <3>2. handle' = handle
      BY <2>2 DEF Deliver, backend
    <3>. QED  BY <3>1, <3>2 DEF BSInv, FailInv
  <2>. QED  BY <1>3, <2>1, <2>5, <2>6 DEF EndInv
<1>. QED  BY <1>2, <1>3, StreamInvariant, PTL DEF Spec, EndIsExplained
=============================================================================
