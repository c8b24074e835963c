---------------------------- MODULE BrowseStream ----------------------------
(***************************************************************************)
(* api.ts over an adapter: the stream browse() returns, from the native browse *)
(* that is started at once to the generator the consumer iterates, and the     *)
(* handle of advertise().  Handlers run to completion; the native side answers *)
(* each call later.  (Over a transport the same stream has a handle that is    *)
(* there from the start.)                                                    *)
(***************************************************************************)
EXTENDS Naturals, Sequences

CONSTANTS
    MaxEvents,      \* bound on the events of the native browse
    Event, END, FAIL

ASSUME SlotAssumption == MaxEvents \in Nat /\ Event \notin {END, FAIL} /\ END # FAIL

VARIABLES
    gen,        \* the generator: fresh, running, yielded, done or failed
    leaving,    \* return() was called while a next() was pending, and waits behind it
    queue, closed,
    stopped,    \* the flag of the stop closure
    calls,      \* continuations of the handle promise that will call h.stop()
    stops,      \* calls of h.stop()
    timer,      \* none, armed, fired or cleared
    signal,     \* none, listening (from the first next() on), aborted
    handle,     \* adapter.browseStart: pending, ok or rejected
    native,     \* the native browse: running, stopping, ended
    events      \* events pushed

stream == <<gen, leaving, queue, closed, stopped, calls, timer, signal>>
backend == <<handle, native, events, stops>>

VARIABLES
    advert,         \* adapter.advertiseStart: pending, ok or rejected
    advertSignal,   \* none, or aborted
    advertStop,     \* makeAdvertiseHandle: the promise of the one stop
    advertStops     \* calls of the native handle's stop

advertising == <<advert, advertSignal, advertStop, advertStops>>
vars == <<stream, backend, advertising>>

Init ==
    /\ gen = "fresh" /\ leaving = FALSE
    /\ queue = <<>> /\ closed = FALSE
    /\ stopped = FALSE /\ calls = 0 /\ stops = 0
    /\ timer = "none" /\ signal \in {"none", "aborted"}
    /\ handle = "pending" /\ native = "running" /\ events = 0
    /\ advert = "pending" /\ advertSignal = "none"
    /\ advertStop = FALSE /\ advertStops = 0

------------------------------------------------------------------------------
(* The stop closure, called by the timeout, the signal and the generator's end *)

Put(slot) ==
    IF closed THEN UNCHANGED <<queue, closed>>
    ELSE queue' = Append(queue, slot) /\ closed' = (slot # Event)

\* Mutant: the closure runs every time it is called.
Stop_Again ==
    /\ stopped' = TRUE /\ Put(END)
    /\ calls' = calls + 1

\* Mutant: it stops the native browse only if it has started by now.
Stop_IfStarted ==
    IF stopped THEN UNCHANGED <<stopped, queue, closed, calls>>
    ELSE /\ stopped' = TRUE /\ Put(END)
         /\ calls' = IF handle = "ok" THEN calls + 1 ELSE calls

Stop ==
    IF stopped THEN UNCHANGED <<stopped, queue, closed, calls>>
    ELSE /\ stopped' = TRUE /\ Put(END)
         /\ calls' = calls + 1

\* The finally block of withStop.
Finish(end) ==
    /\ gen' = end /\ leaving' = FALSE
    /\ timer' = IF timer = "armed" THEN "cleared" ELSE timer
    /\ signal' = IF signal = "listening" THEN "none" ELSE signal
    /\ IF stopped THEN UNCHANGED <<stopped, calls, closed>>
       ELSE stopped' = TRUE /\ calls' = calls + 1 /\ closed' = TRUE

------------------------------------------------------------------------------
(* The consumer and the generator *)

\* The first next() runs the head of withStop: no stop is set up before it.
FirstNext ==
    /\ gen = "fresh" /\ gen' = "running"
    /\ timer' \in {"none", "armed"}
    /\ signal' \in IF signal = "aborted" THEN {"aborted"} ELSE {"none", "listening"}
    /\ IF signal = "aborted" THEN Stop ELSE UNCHANGED <<stopped, queue, closed, calls>>
    /\ UNCHANGED <<leaving, backend, advertising>>

NextItem ==
    /\ gen = "yielded" /\ ~leaving /\ gen' = "running"
    /\ UNCHANGED <<leaving, queue, closed, stopped, calls, timer, signal, backend,
                   advertising>>

\* The queue settles the next() that waits for it.
Deliver ==
    /\ gen = "running" /\ queue # <<>>
    /\ queue' = Tail(queue)
    /\ \/ Head(queue) = Event /\ gen' = "yielded"
          /\ UNCHANGED <<leaving, closed, stopped, calls, timer, signal>>
       \/ Head(queue) = END /\ Finish("done")
       \/ Head(queue) = FAIL /\ Finish("failed")
    /\ UNCHANGED <<backend, advertising>>

\* return() of a stream never iterated: nothing of withStop runs.
ReturnFresh ==
    /\ gen = "fresh" /\ gen' = "done"
    /\ UNCHANGED <<leaving, queue, closed, stopped, calls, timer, signal, backend,
                   advertising>>

\* return() while next() is pending waits until that has been answered.
ReturnWhilePending ==
    /\ gen = "running" /\ ~leaving /\ leaving' = TRUE
    /\ UNCHANGED <<gen, queue, closed, stopped, calls, timer, signal, backend,
                   advertising>>

\* The consumer leaves its loop between two items.
Return ==
    /\ gen = "yielded"
    /\ Finish("done")
    /\ UNCHANGED <<queue, backend, advertising>>

TimerFires ==
    /\ timer = "armed" /\ timer' = "fired"
    /\ Stop
    /\ UNCHANGED <<gen, leaving, signal, backend, advertising>>

\* The signal aborts; a stream that is not listening yet finds it so later.
Abort ==
    /\ signal = "listening" \/ (signal = "none" /\ gen = "fresh")
    /\ signal' = "aborted"
    /\ IF signal = "listening" THEN Stop ELSE UNCHANGED <<stopped, queue, closed, calls>>
    /\ UNCHANGED <<gen, leaving, timer, backend, advertising>>

------------------------------------------------------------------------------
(* The native side and what it calls back *)

\* sink: an event of the native browse, before or after browseStart has answered.
NativeEvent ==
    /\ native \in {"running", "stopping"} /\ handle # "rejected" /\ events < MaxEvents
    /\ events' = events + 1
    /\ Put(Event)
    /\ UNCHANGED <<gen, leaving, stopped, calls, timer, signal, handle, native, stops,
                   advertising>>

BrowseStarted ==
    /\ handle = "pending" /\ handle' = "ok"
    /\ UNCHANGED <<stream, native, events, stops, advertising>>

\* browse_start is rejected: the consumer is told, unless it has stopped.
BrowseRejected ==
    /\ handle = "pending" /\ handle' = "rejected" /\ native' = "ended"
    /\ Put(FAIL)
    /\ calls' = 0
    /\ UNCHANGED <<gen, leaving, stopped, timer, signal, events, stops, advertising>>

\* h.stop(): invokes browse_stop.
StopHandle ==
    /\ handle = "ok" /\ calls > 0
    /\ calls' = calls - 1 /\ stops' = stops + 1
    /\ native' = IF native = "running" THEN "stopping" ELSE native
    /\ UNCHANGED <<gen, leaving, queue, closed, stopped, timer, signal, handle, events,
                   advertising>>

NativeStops ==
    /\ native = "stopping" /\ native' = "ended"
    /\ UNCHANGED <<stream, handle, events, stops, advertising>>

\* The native browse ends by itself; its "stopped" message is not for the stream.
NativeDies ==
    /\ native = "running" /\ handle = "ok" /\ native' = "ended"
    /\ UNCHANGED <<stream, handle, events, stops, advertising>>

------------------------------------------------------------------------------
(* advertise() *)

\* doStop: the promise of the first call is the answer to the others.
AdvertDoStop ==
    /\ advertStop' = TRUE
    /\ advertStops' = IF advertStop THEN advertStops ELSE advertStops + 1

\* The handle is made when advertiseStart answers; only then the signal counts.
AdvertStarted ==
    /\ advert = "pending" /\ advert' = "ok"
    /\ IF advertSignal = "aborted" THEN AdvertDoStop ELSE UNCHANGED <<advertStop, advertStops>>
    /\ UNCHANGED <<advertSignal, stream, backend>>

AdvertRejected ==
    /\ advert = "pending" /\ advert' = "rejected"
    /\ UNCHANGED <<advertSignal, advertStop, advertStops, stream, backend>>

AdvertAbort ==
    /\ advertSignal = "none" /\ advertSignal' = "aborted"
    /\ IF advert = "ok" THEN AdvertDoStop ELSE UNCHANGED <<advertStop, advertStops>>
    /\ UNCHANGED <<advert, stream, backend>>

\* stop() and Symbol.asyncDispose
AdvertHandleStop ==
    /\ advert = "ok"
    /\ AdvertDoStop
    /\ UNCHANGED <<advert, advertSignal, stream, backend>>

Next ==
    \/ FirstNext \/ NextItem \/ Deliver \/ ReturnFresh \/ ReturnWhilePending \/ Return
    \/ TimerFires \/ Abort
    \/ NativeEvent \/ BrowseStarted \/ BrowseRejected \/ StopHandle \/ NativeStops
    \/ NativeDies
    \/ AdvertStarted \/ AdvertRejected \/ AdvertAbort \/ AdvertHandleStop

Spec == Init /\ [][Next]_vars

\* Calls to the native side are answered, timers fire, promises settle, and a
\* consumer that has asked to leave does.
FairSpec ==
    /\ Spec
    /\ WF_vars(BrowseStarted \/ BrowseRejected) /\ WF_vars(StopHandle)
    /\ WF_vars(NativeStops) /\ WF_vars(AdvertStarted \/ AdvertRejected)
    /\ WF_vars(TimerFires) /\ WF_vars(Deliver)
    /\ WF_vars(NextItem \/ Return)

------------------------------------------------------------------------------
(* Properties *)

\* Timeout, signal, the end of the loop and stop() race: whatever their order,
\* the native side is asked to stop once, and only what it has started.
StopsOnce ==
    /\ stops + calls <= 1
    /\ stops > 0 => handle = "ok" /\ stopped
    /\ advertStops <= 1
    /\ advertStops > 0 => advert = "ok"

\* A stream ends under its reading consumer only because it timed out, was aborted or
\* could not be started: a next() is answered with the end only if the timeout fired
\* or the signal aborted, and with an error only if the start was rejected.  Whatever
\* the queue had taken before the end has been read by then.
EndIsExplained ==
    [][gen = "running" =>
         /\ gen' = "done" => timer = "fired" \/ signal = "aborted"
         /\ gen' = "failed" => handle = "rejected"
         /\ gen' \in {"done", "failed"} => queue' = <<>>]_vars

\* No native browse outlives its stream: once the stream was stopped, by whatever
\* means, or timed, the native browse comes to an end, and so does the stream
\* when its consumer goes on; nor does an advertisement outlive its signal.
StopsEverything ==
    /\ stopped \/ timer = "armed" ~> native = "ended"
    /\ stopped \/ timer = "armed" ~> gen \in {"done", "failed"}
    /\ advertSignal = "aborted" ~> advert = "rejected" \/ advertStops = 1

------------------------------------------------------------------------------
(* What comments say and the code does not do: see the findings *)

\* api.ts: withStop "always cleans up when the consumer stops iterating".  One that
\* returns before its first next() leaves the native browse running.
CleansUp == gen = "done" => stopped \/ handle = "rejected"
=============================================================================
