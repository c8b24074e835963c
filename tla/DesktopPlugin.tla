--------------------------- MODULE DesktopPlugin ---------------------------
(***************************************************************************)
(* dns-sd-tauri, desktop/commands.rs: the browse and advertise commands of   *)
(* the Tauri plug-in share one mdns-sd daemon, started by the first and shut  *)
(* down when no session is left.  Commands and tasks are tokio tasks: an      *)
(* action is what one of them does between two awaits.                       *)
(***************************************************************************)
EXTENDS Naturals, FiniteSets

CONSTANTS
    Browse,         \* the browse_start commands, each named by its handle id
    Advert,         \* the advertise_start commands, likewise
    Types,          \* service types
    MaxDaemons      \* bound on the daemons started

ASSUME CallAssumption == Browse \cap Advert = {}
ASSUME DaemonAssumption == MaxDaemons \in Nat \ {0}

None == 0
Daemon == 1..MaxDaemons

VARIABLES
    daemon,         \* MdnsState.daemon
    running,        \* daemons started and not shut down
    created,        \* the number of daemons started
    sessions,       \* MdnsState.browse_sessions, the keys
    adverts,        \* MdnsState.advertise_sessions, the keys
    call,           \* per start command: where it is, its daemon, the types it has yet to browse
    knownTypes,     \* BrowseSession.known_types
    timer,          \* BrowseSession.timeout_task
    receiver,       \* per browse and type, the receiver task
    cancelled,      \* browses whose CancellationToken is cancelled
    stop,           \* per session, how far its stop has come, who runs it, the types it
                    \* has yet to stop, and whether it began before the start had ended
    told,           \* per browse, the reasons of the Stopped messages sent
    listeners,      \* the browses a daemon serves: <<daemon, type, browse>>
    registered      \* the services a daemon announces: <<daemon, advert>>

start == <<daemon, running, created>>
vars == <<daemon, running, created, sessions, adverts, call, knownTypes, timer,
          receiver, cancelled, stop, told, listeners, registered>>

Session == Browse \cup Advert
StopIdle == [pc |-> "none", by |-> "command", types |-> {}, early |-> FALSE]

\* A command between its first step and its last.
Starting(c) == call[c].pc \in {"ensured", "inserted", "browsing", "registering", "registered"}
Stopping(c) == stop[c].pc \in {"removed", "aborted", "notified"}

------------------------------------------------------------------------------
(* The daemon *)

\* ensure_daemon: the one there is, or a new one; d is what the caller clones.
EnsureDaemon(d) ==
    IF daemon # None
    THEN d = daemon /\ UNCHANGED start
    ELSE /\ created < MaxDaemons
         /\ d = created + 1
         /\ created' = d /\ daemon' = d /\ running' = running \cup {d}

\* Mutant: the daemon is shut down and stays the one handed out.
MaybeShutdownDaemon_Kept ==
    IF sessions = {} /\ adverts = {} /\ daemon # None
    THEN /\ running' = running \ {daemon}
         /\ listeners' = {l \in listeners : l[1] # daemon}
         /\ registered' = {r \in registered : r[1] # daemon}
         /\ UNCHANGED daemon
    ELSE UNCHANGED <<daemon, running, listeners, registered>>

\* maybe_shutdown_daemon, which holds all three locks.
MaybeShutdownDaemon ==
    IF sessions = {} /\ adverts = {} /\ daemon # None
    THEN /\ daemon' = None /\ running' = running \ {daemon}
         /\ listeners' = {l \in listeners : l[1] # daemon}
         /\ registered' = {r \in registered : r[1] # daemon}
    ELSE UNCHANGED <<daemon, running, listeners, registered>>

------------------------------------------------------------------------------
(* browse_start *)

Init ==
    /\ daemon = None /\ running = {} /\ created = 0
    /\ sessions = {} /\ adverts = {}
    /\ call = [c \in Session |-> [pc |-> "idle", daemon |-> None, todo |-> {}]]
    /\ knownTypes = [b \in Browse |-> {}]
    /\ timer = [b \in Browse |-> "none"]
    /\ receiver = [b \in Browse |-> [ty \in Types |-> "none"]]
    /\ cancelled = {}
    /\ stop = [c \in Session |-> StopIdle]
    /\ told = [b \in Browse |-> {}]
    /\ listeners = {} /\ registered = {}

\* Up to the lock of browse_sessions; the timeout, if there is one, runs.  (A start
\* that finds no daemon and cannot create one returns, and nothing has changed.)
BrowseStart(b) ==
    /\ call[b].pc = "idle"
    /\ \E d \in Daemon, types \in SUBSET Types \ {{}} :
          /\ EnsureDaemon(d)
          /\ call' = [call EXCEPT ![b] = [pc |-> "ensured", daemon |-> d, todo |-> types]]
    /\ \E t \in {"none", "armed"} : timer' = [timer EXCEPT ![b] = t]
    /\ UNCHANGED <<sessions, adverts, knownTypes, receiver, cancelled, stop, told,
                   listeners, registered>>

BrowseInsert(b) ==
    /\ call[b].pc = "ensured"
    /\ sessions' = sessions \cup {b}
    /\ call' = [call EXCEPT ![b].pc = "inserted"]
    /\ UNCHANGED <<start, adverts, knownTypes, timer, receiver, cancelled, stop,
                   told, listeners, registered>>

\* The types are recorded before the first of them is browsed.
BrowseTypes(b) ==
    /\ call[b].pc = "inserted"
    /\ knownTypes' = [knownTypes EXCEPT ![b] = call[b].todo]
    /\ call' = [call EXCEPT ![b].pc = "browsing"]
    /\ UNCHANGED <<start, sessions, adverts, timer, receiver, cancelled, stop, told,
                   listeners, registered>>

\* daemon.browse and the receiver task.  A second browse of a type may take the
\* place of the first; a daemon that is shut down accepts it and closes the
\* receiver.
BrowseType(b, ty) ==
    /\ call[b].pc = "browsing" /\ ty \in call[b].todo
    /\ LET d == call[b].daemon
           older == {l \in listeners : l[1] = d /\ l[2] = ty}
       IN  IF d \in running
           THEN \E gone \in {{}, older} :
                   listeners' = (listeners \ gone) \cup {<<d, ty, b>>}
           ELSE UNCHANGED listeners
    /\ receiver' = [receiver EXCEPT ![b][ty] = "running"]
    /\ call' = [call EXCEPT ![b].pc = "registering"]
    /\ UNCHANGED <<start, sessions, adverts, knownTypes, timer, cancelled, stop, told,
                   registered>>

\* daemon.browse fails: the command returns an error, with its session still registered.
BrowseFails(b) ==
    /\ call[b].pc = "browsing" /\ call[b].todo # {}
    /\ call' = [call EXCEPT ![b].pc = "failed"]
    /\ UNCHANGED <<start, sessions, adverts, knownTypes, timer, receiver, cancelled,
                   stop, told, listeners, registered>>

\* register_task: the late receiver of a session already stopped is aborted; the
\* others are aborted by StopTasks, on top of the cancelled token they obey.
RegisterTask(b, ty) ==
    /\ call[b].pc = "registering" /\ ty \in call[b].todo /\ receiver[b][ty] # "none"
    /\ call' = [call EXCEPT ![b] =
                    [call[b] EXCEPT !.todo = @ \ {ty},
                                    !.pc = IF call[b].todo = {ty} THEN "started" ELSE "browsing"]]
    /\ receiver' = [receiver EXCEPT ![b][ty] = IF b \in sessions THEN @ ELSE "ended"]
    /\ UNCHANGED <<start, sessions, adverts, knownTypes, timer, cancelled, stop, told,
                   listeners, registered>>

------------------------------------------------------------------------------
(* The receiver tasks *)

\* Mutant: the flag is never looked at.
Notify_Again(b, reason) == told' = [told EXCEPT ![b] = @ \cup {reason}]

\* notify_browse_stop: the flag lets one message through.
Notify(b, reason) == told' = [told EXCEPT ![b] = IF @ = {} THEN {reason} ELSE @]

ReceiverCancelled(b, ty) ==
    /\ receiver[b][ty] = "running" /\ b \in cancelled
    /\ receiver' = [receiver EXCEPT ![b][ty] = "ended"]
    /\ UNCHANGED <<start, sessions, adverts, call, knownTypes, timer, cancelled, stop,
                   told, listeners, registered>>

\* Mutant: the loop is left without a word.
ReceiverCloses_Silently(b, ty) ==
    /\ receiver[b][ty] = "running"
    /\ <<call[b].daemon, ty, b>> \notin listeners
    /\ receiver' = [receiver EXCEPT ![b][ty] = "ended"]
    /\ UNCHANGED <<start, sessions, adverts, call, knownTypes, timer, cancelled, stop,
                   told, listeners, registered>>

\* The daemon no longer serves this receiver: it reads SearchStopped or an error.
\* The session stays in browse_sessions.
ReceiverCloses(b, ty) ==
    /\ receiver[b][ty] = "running"
    /\ <<call[b].daemon, ty, b>> \notin listeners
    /\ receiver' = [receiver EXCEPT ![b][ty] = "ended"]
    /\ Notify(b, "closed")
    /\ UNCHANGED <<start, sessions, adverts, call, knownTypes, timer, cancelled, stop,
                   listeners, registered>>

------------------------------------------------------------------------------
(* stop_browse_session *)

\* The session is removed by one caller, and only that one goes on.
RemoveSession(b, by) ==
    /\ sessions' = sessions \ {b}
    /\ stop' = [stop EXCEPT ![b] = [pc |-> "removed", by |-> by, types |-> {},
                                     early |-> Starting(b)]]
    /\ UNCHANGED <<start, adverts, call, knownTypes, receiver, cancelled, told,
                   listeners, registered>>

\* browse_stop, whose caller has the handle browse_start returned.
BrowseStop(b) ==
    /\ call[b].pc = "started" /\ b \in sessions
    /\ RemoveSession(b, "command")
    /\ UNCHANGED timer

\* The timeout may fire at any time, even before the session is inserted.
TimeoutFires(b) ==
    /\ timer[b] = "armed"
    /\ timer' = [timer EXCEPT ![b] = "over"]
    /\ IF b \in sessions
       THEN RemoveSession(b, "timeout")
       ELSE UNCHANGED <<start, sessions, adverts, call, knownTypes, receiver,
                        cancelled, stop, told, listeners, registered>>

\* The recorded types are copied, the tasks cancelled and aborted; the timeout too,
\* even when it is the caller.
StopTasks(b) ==
    /\ b \in Browse /\ stop[b].pc = "removed"
    /\ cancelled' = cancelled \cup {b}
    /\ timer' = [timer EXCEPT ![b] = IF @ = "armed" THEN "over" ELSE @]
    /\ stop' = [stop EXCEPT ![b] = [stop[b] EXCEPT !.pc = "aborted", !.types = knownTypes[b]]]
    /\ UNCHANGED <<start, sessions, adverts, call, knownTypes, receiver, told,
                   listeners, registered>>

\* Mutant: the types are stopped only if the consumer had not been told before.
StopTypes_IfUntold(b) ==
    /\ b \in Browse /\ stop[b].pc = "aborted"
    /\ listeners' = {l \in listeners :
                        ~(told[b] = {} /\ l[1] = daemon /\ l[2] \in stop[b].types)}
    /\ Notify(b, stop[b].by)
    /\ stop' = [stop EXCEPT ![b] = [stop[b] EXCEPT !.pc = "notified", !.types = {}]]
    /\ UNCHANGED <<start, sessions, adverts, call, knownTypes, timer, receiver,
                   cancelled, registered>>

\* stop_browse for the types copied, at the daemon of the moment, which ends every
\* browse of these types; then the message.
StopTypes(b) ==
    /\ b \in Browse /\ stop[b].pc = "aborted"
    /\ listeners' = {l \in listeners : ~(l[1] = daemon /\ l[2] \in stop[b].types)}
    /\ Notify(b, stop[b].by)
    /\ stop' = [stop EXCEPT ![b] = [stop[b] EXCEPT !.pc = "notified", !.types = {}]]
    /\ UNCHANGED <<start, sessions, adverts, call, knownTypes, timer, receiver,
                   cancelled, registered>>

StopEnds(c) ==
    /\ stop[c].pc = "notified"
    /\ MaybeShutdownDaemon
    /\ stop' = [stop EXCEPT ![c].pc = "done"]
    /\ UNCHANGED <<created, sessions, adverts, call, knownTypes, timer, receiver,
                   cancelled, told>>

\* A timeout task that has aborted itself ends where it next has to wait for a lock.
TimeoutCutOff(b) ==
    /\ stop[b].by = "timeout" /\ stop[b].pc \in {"aborted", "notified"}
    /\ stop' = [stop EXCEPT ![b] = [stop[b] EXCEPT !.pc = "cut", !.types = {}]]
    /\ UNCHANGED <<start, sessions, adverts, call, knownTypes, timer, receiver,
                   cancelled, told, listeners, registered>>

------------------------------------------------------------------------------
(* advertise_start, advertise_stop *)

AdvertiseStart(a) ==
    /\ call[a].pc = "idle"
    /\ \E d \in Daemon :
          /\ EnsureDaemon(d)
          /\ call' = [call EXCEPT ![a] = [@ EXCEPT !.pc = "ensured", !.daemon = d]]
    /\ UNCHANGED <<sessions, adverts, knownTypes, timer, receiver, cancelled, stop,
                   told, listeners, registered>>

\* A wrong description, or register fails: the daemon stays.
AdvertiseFails(a) ==
    /\ a \in Advert /\ call[a].pc = "ensured"
    /\ call' = [call EXCEPT ![a].pc = "failed"]
    /\ UNCHANGED <<start, sessions, adverts, knownTypes, timer, receiver, cancelled,
                   stop, told, listeners, registered>>

AdvertiseRegister(a) ==
    /\ a \in Advert /\ call[a].pc = "ensured"
    /\ registered' = registered \cup ({<<call[a].daemon, a>>} \cap (running \X Advert))
    /\ call' = [call EXCEPT ![a].pc = "registered"]
    /\ UNCHANGED <<start, sessions, adverts, knownTypes, timer, receiver, cancelled,
                   stop, told, listeners>>

AdvertiseInsert(a) ==
    /\ call[a].pc = "registered"
    /\ adverts' = adverts \cup {a}
    /\ call' = [call EXCEPT ![a].pc = "started"]
    /\ UNCHANGED <<start, sessions, knownTypes, timer, receiver, cancelled, stop, told,
                   listeners, registered>>

AdvertiseStop(a) ==
    /\ call[a].pc = "started" /\ a \in adverts
    /\ adverts' = adverts \ {a}
    /\ stop' = [stop EXCEPT ![a].pc = "removed"]
    /\ UNCHANGED <<start, sessions, call, knownTypes, timer, receiver, cancelled, told,
                   listeners, registered>>

\* unregister at the daemon of the moment, which may have to be started for it;
\* when it cannot be, the command ends here.
AdvertiseUnregister(a) ==
    /\ a \in Advert /\ stop[a].pc = "removed"
    /\ \/ /\ \E d \in Daemon :
                EnsureDaemon(d) /\ registered' = registered \ {<<d, a>>}
          /\ stop' = [stop EXCEPT ![a].pc = "notified"]
       \/ /\ daemon = None
          /\ stop' = [stop EXCEPT ![a].pc = "done"]
          /\ UNCHANGED <<start, registered>>
    /\ UNCHANGED <<sessions, adverts, call, knownTypes, timer, receiver, cancelled,
                   told, listeners>>

Next ==
    \/ \E b \in Browse :
          \/ BrowseStart(b) \/ BrowseInsert(b) \/ BrowseTypes(b) \/ BrowseFails(b)
          \/ BrowseStop(b) \/ TimeoutFires(b) \/ StopTasks(b) \/ StopTypes(b)
          \/ StopEnds(b) \/ TimeoutCutOff(b)
          \/ \E ty \in Types :
                \/ BrowseType(b, ty) \/ RegisterTask(b, ty)
                \/ ReceiverCancelled(b, ty) \/ ReceiverCloses(b, ty)
    \/ \E a \in Advert :
          \/ AdvertiseStart(a) \/ AdvertiseFails(a) \/ AdvertiseRegister(a)
          \/ AdvertiseInsert(a)
          \/ AdvertiseStop(a) \/ AdvertiseUnregister(a) \/ StopEnds(a)

Spec == Init /\ [][Next]_vars

------------------------------------------------------------------------------
(* Properties *)

StartPc == {"idle", "ensured", "inserted", "browsing", "registering", "registered",
            "started", "failed"}
StopPc == {"none", "removed", "aborted", "notified", "done", "cut"}

TypeOK ==
    /\ daemon \in Daemon \cup {None} /\ running \subseteq Daemon
    /\ created \in Daemon \cup {None}
    /\ sessions \subseteq Browse /\ adverts \subseteq Advert
    /\ call \in [Session -> [pc : StartPc, daemon : Daemon \cup {None}, todo : SUBSET Types]]
    /\ knownTypes \in [Browse -> SUBSET Types]
    /\ timer \in [Browse -> {"none", "armed", "over"}]
    /\ receiver \in [Browse -> [Types -> {"none", "running", "ended"}]]
    /\ cancelled \subseteq Browse
    /\ stop \in [Session -> [pc : StopPc, by : {"command", "timeout"},
                               types : SUBSET Types, early : BOOLEAN]]
    /\ told \in [Browse -> SUBSET {"closed", "command", "timeout"}]
    /\ listeners \subseteq Daemon \X Types \X Browse
    /\ registered \subseteq Daemon \X Advert

\* The daemon's lifetime (ensure_daemon, maybe_shutdown_daemon): the daemon that
\* runs is the one handed out, there is no second one, and when nothing is left
\* to do for anybody there is none; only a start that failed or a timeout that
\* cut itself off leaves one behind.
DaemonLifetime ==
    /\ running = {daemon} \ {None}
    /\ (/\ sessions = {} /\ adverts = {}
        /\ \A c \in Session :
              ~Starting(c) /\ ~Stopping(c) /\ call[c].pc # "failed" /\ stop[c].pc # "cut")
       => daemon = None

\* A browse that was started well does not go silent: until its consumer is told that
\* it has ended, each type it asked for has a receiver that listens, to the daemon a
\* stop will turn to if any serves it.  (One whose start failed is left registered
\* without: see Leaked.)
NoSilentSession ==
    \A b \in sessions : call[b].pc = "started" /\ told[b] = {} =>
        \A ty \in knownTypes[b] :
            /\ receiver[b][ty] = "running"
            /\ \A l \in listeners : l[2] = ty /\ l[3] = b => l[1] = daemon

\* At most one Stopped message, and one by the end of a stop the consumer asked for.
StopIsToldOnce ==
    \A b \in Browse :
        /\ Cardinality(told[b]) <= 1
        /\ stop[b].pc \in {"notified", "done"} => told[b] # {}

\* The three ways in which a browse the consumer cannot reach is left behind (findings 9
\* and 15): its start failed after the session was registered, its timeout fired before
\* the start had ended, or cut itself off.
Leaked(b) ==
    \/ call[b].pc = "failed" /\ b \in sessions
    \/ stop[b].early
    \/ stop[b].pc = "cut"

\* What stops being wanted stops being asked for: apart from these a daemon queries only
\* for browses that were started and not stopped, or are on the way there, whoever
\* stops them: the command or the timeout.
NoStrayListener ==
    \A l \in listeners :
        \/ l[3] \in sessions /\ call[l[3]].pc = "started"
        \/ Starting(l[3]) \/ Stopping(l[3])
        \/ Leaked(l[3])
=============================================================================
