---------------------------- MODULE AndroidPlugin ----------------------------
(***************************************************************************)
(* dns-sd-tauri, android/.../DnsSdPlugin.kt: a browse session fed by two        *)
(* threads, the discovery listener on NsdManager's and the service-info         *)
(* callbacks on the main one, which may be behind by any number of them.  Each  *)
(* callback is taken as one step.                                            *)
(***************************************************************************)
EXTENDS NativeBrowse, SequencesExt

CONSTANTS
    MaxCallbacks,   \* bound on the callbacks registered
    NoCallback

ASSUME CallbackAssumption == NoCallback \notin Nat \ {0}

VARIABLES
    modern,         \* SDK_INT >= 34
    browse,         \* the session in browseMap: none, open or closed
    tracked,        \* BrowseSession.services, the keys
    infoCallbacks,  \* BrowseSession.infoCallbacks: the callback's number, or NoCallback
    registered,     \* the callbacks NsdManager knows
    created,        \* the number of callbacks made
    nsdQueue,       \* events on their way to NsdManager's thread
    mainQueue,      \* callbacks posted to the main executor
    failed,         \* instances whose resolution failed since they were found
    late            \* instances last told of by a callback no longer registered

androidVars == <<modern, browse, tracked, infoCallbacks, registered, created, nsdQueue,
                 mainQueue, failed, late>>

AndroidInit ==
    /\ modern \in BOOLEAN
    /\ browse = "none" /\ tracked = {}
    /\ infoCallbacks = [i \in Insts |-> NoCallback]
    /\ registered = {} /\ created = 0
    /\ nsdQueue = <<>> /\ mainQueue = <<>> /\ failed = {} /\ late = {}

On(kind, i) == [kind |-> kind, inst |-> i]
With(kind, cb) == [kind |-> kind, cb |-> cb]
Present == {i \in Insts : net[i] # Absent}

\* browse_start: the listener is told of the services there are.
AndroidBrowseStart ==
    /\ browse = "none" /\ browse' = "open"
    /\ nsdQueue' = [k \in 1..Cardinality(Present) |-> On("found", SetToSeq(Present)[k])]
    /\ SendNothing
    /\ UNCHANGED <<modern, tracked, infoCallbacks, registered, created, mainQueue, failed,
                   late, net, changes>>

\* browse_stop and stopBrowseSession: the callbacks it knows of are unregistered.
AndroidBrowseStop ==
    /\ browse = "open" /\ browse' = "closed"
    /\ registered' = {c \in registered : c.id # infoCallbacks[c.inst]}
    /\ infoCallbacks' = [i \in Insts |-> NoCallback]
    /\ SendNothing
    /\ UNCHANGED <<modern, tracked, created, nsdQueue, mainQueue, failed, late, net,
                   changes>>

\* The system tells the listener and every callback registered for the instance;
\* of a loss it may tell either first.
AndroidNetChanges(i, version) ==
    LET tell(kind) == SetToSeq({With(kind, c) : c \in {c \in registered : c.inst = i}})
    IN  /\ NetChanges(i, version)
        /\ nsdQueue' \in
             IF version = Absent
             THEN {nsdQueue \o <<On("lost", i)>> \o tell("cbLost"),
                   nsdQueue \o tell("cbLost") \o <<On("lost", i)>>}
             ELSE {nsdQueue \o (IF net[i] = Absent /\ browse = "open"
                                THEN <<On("found", i)>> ELSE <<>>) \o tell("updated")}
        /\ SendNothing
        /\ UNCHANGED <<modern, browse, tracked, infoCallbacks, registered, created,
                       mainQueue, failed, late>>

\* handleLost, of the listener or a callback: only the first finds something.
\* (Unregistering is answered later: see AndroidRunNsd.)
HandleLost(i, isListener) ==
    /\ tracked' = tracked \ {i}
    /\ infoCallbacks' = [infoCallbacks EXCEPT ![i] = NoCallback]
    /\ registered' = {c \in registered : c.id # infoCallbacks[i]}
    /\ late' = late \ {i}
    /\ IF i \in tracked \/ (infoCallbacks[i] # NoCallback /\ isListener)
       THEN Send({Inactive(i)}) ELSE SendNothing

\* The answers to the callbacks a step unregisters.
Unregistered == SetToSeq({With("unregistered", c) : c \in registered \ registered'})

\* startInfoCallback.  The system tells a callback at once of the service there is;
\* or it refuses the callback, at once or in a callback of its own.
StartInfoCallback(i) ==
    LET cb == [id |-> created + 1, inst |-> i]
    IN  \/ /\ created < MaxCallbacks /\ created' = cb.id
           /\ infoCallbacks' = [infoCallbacks EXCEPT ![i] = cb.id]
           /\ \/ /\ registered' = registered \cup {cb}
                 /\ nsdQueue' = Tail(nsdQueue) \o
                       (IF i \in Present THEN <<With("updated", cb)>> ELSE <<>>)
                 /\ failed' = failed \ {i}
              \/ /\ nsdQueue' = Append(Tail(nsdQueue), With("refused", cb))
                 /\ failed' = failed \cup {i}
                 /\ UNCHANGED registered
        \/ /\ nsdQueue' = Tail(nsdQueue) /\ failed' = failed \cup {i}
           /\ UNCHANGED <<created, infoCallbacks, registered>>

\* onServiceFound: the instance is tracked, and resolved for good or once.
OnServiceFound(i) ==
    /\ tracked' = tracked \cup {i}
    /\ IF modern /\ infoCallbacks[i] = NoCallback
       THEN StartInfoCallback(i)
       ELSE /\ nsdQueue' = IF modern THEN Tail(nsdQueue)
                           ELSE Append(Tail(nsdQueue), On("resolve", i))
            /\ failed' = failed \ {i}
            /\ UNCHANGED <<created, infoCallbacks, registered>>
    /\ SendNothing
    /\ UNCHANGED <<mainQueue, late>>

\* onServiceResolved, whose addresses may be none, or onResolveFailed.
OnResolveAnswered(i) ==
    \/ /\ i \in Present
       /\ tracked' = tracked \cup {i}
       /\ \E hasHost \in BOOLEAN : Send({Active(i, hasHost)})
       /\ UNCHANGED failed
    \/ /\ Send({Inactive(i)})
       /\ failed' = failed \cup {i}
       /\ UNCHANGED tracked

\* What NsdManager's thread posts to the main one.
Posted == {"updated", "cbLost", "unregistered", "refused"}

\* The next event on NsdManager's thread.
AndroidRunNsd ==
    /\ nsdQueue # <<>>
    /\ LET e == Head(nsdQueue)
       IN  \/ /\ e.kind = "found" /\ browse = "open"
              /\ OnServiceFound(e.inst)
           \/ /\ e.kind = "lost" /\ browse = "open"
              /\ HandleLost(e.inst, TRUE)
              /\ nsdQueue' = Tail(nsdQueue) \o Unregistered
              /\ UNCHANGED <<created, mainQueue, failed>>
           \/ /\ e.kind = "resolve" /\ browse = "open"
              /\ nsdQueue' = Tail(nsdQueue)
              /\ OnResolveAnswered(e.inst)
              /\ UNCHANGED <<infoCallbacks, registered, created, mainQueue, late>>
           \/ /\ e.kind \in Posted \/ browse # "open"
              /\ nsdQueue' = Tail(nsdQueue)
              /\ mainQueue' = IF e.kind \in Posted THEN Append(mainQueue, e) ELSE mainQueue
              /\ SendNothing
              /\ UNCHANGED <<tracked, infoCallbacks, registered, created, failed, late>>
    /\ UNCHANGED <<modern, browse, net, changes>>

\* onServiceUpdated, whose addresses may be none: nobody asks whether the callback is
\* still the instance's.
OnServiceUpdated(cb) ==
    /\ tracked' = tracked \cup {cb.inst}
    /\ \E hasHost \in BOOLEAN : Send({Active(cb.inst, hasHost)})
    /\ late' = IF cb \in registered THEN late \ {cb.inst} ELSE late \cup {cb.inst}

\* The next callback on the main thread.  A callback that is over or was refused is
\* forgotten by its key: it may be another one's by now.
AndroidRunMain ==
    /\ mainQueue # <<>>
    /\ mainQueue' = Tail(mainQueue)
    /\ LET e == Head(mainQueue)
       IN  IF browse # "open"
           THEN SendNothing /\ UNCHANGED <<tracked, infoCallbacks, registered, nsdQueue, late>>
           ELSE \/ /\ e.kind = "updated" /\ OnServiceUpdated(e.cb)
                   /\ UNCHANGED <<infoCallbacks, registered, nsdQueue>>
                \/ /\ e.kind = "cbLost" /\ HandleLost(e.cb.inst, FALSE)
                   /\ nsdQueue' = nsdQueue \o Unregistered
                \/ /\ e.kind \in {"unregistered", "refused"}
                   /\ infoCallbacks' = [infoCallbacks EXCEPT ![e.cb.inst] = NoCallback]
                   /\ SendNothing
                   /\ UNCHANGED <<tracked, registered, nsdQueue, late>>
    /\ UNCHANGED <<modern, browse, created, failed, net, changes>>

AndroidNext ==
    \/ AndroidBrowseStart \/ AndroidBrowseStop
    \/ \E i \in Insts : \E v \in Versions \cup {Absent} : AndroidNetChanges(i, v)
    \/ AndroidRunNsd \/ AndroidRunMain

AndroidSettled == browse = "open" /\ nsdQueue = <<>> /\ mainQueue = <<>>
=============================================================================
