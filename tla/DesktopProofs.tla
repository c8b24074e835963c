--------------------------- MODULE DesktopProofs ---------------------------
(***************************************************************************)
(* Proofs about DesktopPlugin: whatever the interleaving of commands, receiver   *)
(* tasks and timeouts, and however many there are, the daemon lives as long as   *)
(* it is needed, no session goes silent, and nothing unwanted is queried for.    *)
(***************************************************************************)
EXTENDS DesktopPlugin, FiniteSetTheorems, TLAPS

\* What keeps a daemon alive.  A start command does so only up to its lock of the
\* sessions: later it may have lost its session, and the daemon with it.
Needs(c) ==
    \/ c \in sessions \/ c \in adverts
    \/ Stopping(c) \/ stop[c].pc = "cut"
    \/ call[c].pc \in {"ensured", "registered", "failed"}

DaemonInv ==
    /\ running = {daemon} \ {None}
    /\ daemon # None => \E c \in Session : Needs(c)

\* A browse, from its session to its stop: the session is removed once, by the
\* stop, and only after it was inserted; a command stops what has started, and a
\* stop that was not early begins when the start has ended.
CallInv ==
    \A b \in Browse :
        /\ call[b].pc \in {"idle", "ensured"} => b \notin sessions /\ stop[b].pc = "none"
        /\ call[b].pc \notin {"idle", "ensured"} /\ stop[b].pc = "none" => b \in sessions
        /\ stop[b].pc # "none" => b \notin sessions
        /\ stop[b].pc # "none" /\ ~stop[b].early => call[b].pc \in {"started", "failed"}
        /\ stop[b].pc = "cut" => stop[b].by = "timeout"
        /\ b \in cancelled => stop[b].pc # "none"
        /\ stop[b].pc = "aborted" /\ ~stop[b].early => stop[b].types = knownTypes[b]

\* The types a browse asks for were recorded before, those it has asked for have a
\* receiver, and no receiver of a session has ended without a word.
TypesInv ==
    \A b \in Browse :
        /\ call[b].pc \in {"idle", "ensured", "inserted"} =>
              knownTypes[b] = {} /\ \A ty \in Types : receiver[b][ty] = "none"
        /\ call[b].pc \in {"browsing", "registering"} => call[b].todo \subseteq knownTypes[b]
        /\ call[b].pc = "started" => call[b].todo = {}
        /\ call[b].pc \in {"browsing", "registering", "started"} =>
              \A ty \in knownTypes[b] \ call[b].todo : receiver[b][ty] # "none"
        /\ b \in sessions /\ told[b] = {} =>
              \A ty \in Types : receiver[b][ty] # "ended"

\* Only the present daemon serves anybody, for types recorded, and nobody whose
\* types were stopped, unless the timeout began to stop what was still starting.
ListenerInv ==
    \A l \in listeners :
        /\ l[1] = daemon
        /\ call[l[3]].pc \in {"browsing", "registering", "started", "failed"}
        /\ l[2] \in knownTypes[l[3]]
        /\ stop[l[3]].pc \in {"notified", "done"} => stop[l[3]].early

ToldInv ==
    \A b \in Browse :
        /\ \A r1, r2 \in told[b] : r1 = r2
        /\ stop[b].pc \in {"notified", "done"} => told[b] # {}

DInv == TypeOK /\ DaemonInv /\ CallInv /\ TypesInv /\ ListenerInv /\ ToldInv

------------------------------------------------------------------------------
(* Helpers *)

CallRecord == [pc : StartPc, daemon : Daemon \cup {None}, todo : SUBSET Types]
StopRecord == [pc : StopPc, by : {"command", "timeout"}, types : SUBSET Types,
               early : BOOLEAN]

\* The forms in which a start command moves on.
LEMMA CallLemma ==
    ASSUME TypeOK, NEW c \in Session, NEW r \in CallRecord, call' = [call EXCEPT ![c] = r]
    PROVE  call' \in [Session -> CallRecord]
BY DEF TypeOK, CallRecord

LEMMA CallPcLemma ==
    ASSUME TypeOK, NEW c \in Session, NEW p \in StartPc, call' = [call EXCEPT ![c].pc = p]
    PROVE  call' \in [Session -> CallRecord]
<1>1. call \in [Session -> CallRecord]
  BY DEF TypeOK, CallRecord
<1>. QED  BY <1>1 DEF CallRecord

LEMMA CallStartLemma ==
    ASSUME TypeOK, NEW c \in Session, NEW p \in StartPc, NEW d \in Daemon,
           call' = [call EXCEPT ![c] = [@ EXCEPT !.pc = p, !.daemon = d]]
    PROVE  call' \in [Session -> CallRecord]
<1>1. call[c] \in CallRecord
  BY DEF TypeOK, CallRecord
<1>2. [call[c] EXCEPT !.pc = p, !.daemon = d] \in CallRecord
  BY <1>1 DEF CallRecord
<1>. QED  BY <1>2, CallLemma

LEMMA CallTodoLemma ==
    ASSUME TypeOK, NEW c \in Session, NEW p \in StartPc, NEW ts \in SUBSET Types,
           call' = [call EXCEPT ![c] = [call[c] EXCEPT !.todo = @ \ ts, !.pc = p]]
    PROVE  call' \in [Session -> CallRecord]
<1>1. call[c] \in CallRecord
  BY DEF TypeOK, CallRecord
<1>2. [call[c] EXCEPT !.todo = @ \ ts, !.pc = p] \in CallRecord
  BY <1>1 DEF CallRecord
<1>. QED  BY <1>2, CallLemma

\* The forms in which a stop moves on.
LEMMA StopLemma ==
    ASSUME TypeOK, NEW c \in Session, NEW r \in StopRecord, stop' = [stop EXCEPT ![c] = r]
    PROVE  /\ stop' \in [Session -> StopRecord]
           /\ stop'[c] = r /\ \A o \in Session \ {c} : stop'[o] = stop[o]
<1>1. stop \in [Session -> StopRecord]
  BY DEF TypeOK, StopRecord
<1>. QED  BY <1>1

LEMMA StopPcLemma ==
    ASSUME TypeOK, NEW c \in Session, NEW p \in StopPc, stop' = [stop EXCEPT ![c].pc = p]
    PROVE  /\ stop' \in [Session -> StopRecord]
           /\ stop'[c].pc = p /\ stop'[c].by = stop[c].by
           /\ stop'[c].types = stop[c].types /\ stop'[c].early = stop[c].early
           /\ \A o \in Session \ {c} : stop'[o] = stop[o]
<1>1. stop \in [Session -> StopRecord]
  BY DEF TypeOK, StopRecord
<1>. QED  BY <1>1 DEF StopRecord

LEMMA StopTypesTypeLemma ==
    ASSUME TypeOK, NEW c \in Session, NEW p \in StopPc, NEW ts \in SUBSET Types,
           stop' = [stop EXCEPT ![c] = [stop[c] EXCEPT !.pc = p, !.types = ts]]
    PROVE  /\ stop' \in [Session -> StopRecord]
           /\ stop'[c].pc = p /\ stop'[c].types = ts
           /\ stop'[c].by = stop[c].by /\ stop'[c].early = stop[c].early
           /\ \A o \in Session \ {c} : stop'[o] = stop[o]
<1>1. stop \in [Session -> StopRecord]
  BY DEF TypeOK, StopRecord
<1>. QED  BY <1>1 DEF StopRecord

\* ensure_daemon leaves exactly one daemon, the one it hands out.
LEMMA EnsureLemma ==
    ASSUME DaemonInv, TypeOK, NEW d \in Daemon, EnsureDaemon(d)
    PROVE  /\ daemon' = d /\ running' = {d} /\ created' \in Daemon \cup {None}
           /\ daemon # None => daemon' = daemon
BY DEF DaemonInv, TypeOK, EnsureDaemon, start

------------------------------------------------------------------------------
(* Starting and browsing *)

LEMMA BrowseStartLemma ==
    ASSUME DInv, NEW b \in Browse, BrowseStart(b)
    PROVE  DInv'
<1>. USE DEF DInv
<1>. PICK d \in Daemon, types \in SUBSET Types \ {{}} :
        /\ EnsureDaemon(d)
        /\ call' = [call EXCEPT ![b] = [pc |-> "ensured", daemon |-> d, todo |-> types]]
  BY DEF BrowseStart
<1>1. /\ daemon' = d /\ running' = {d} /\ created' \in Daemon \cup {None}
      /\ daemon # None => daemon' = daemon
  BY EnsureLemma
<1>2. call' \in [Session -> CallRecord]
  BY CallLemma DEF CallRecord, StartPc, Session
<1>3. TypeOK'
  BY <1>1, <1>2 DEF BrowseStart, TypeOK, CallRecord
<1>4. DaemonInv'
  BY <1>1, <1>2 DEF DaemonInv, Needs, None, Daemon
<1>5. CallInv'
  BY DEF BrowseStart, CallInv
<1>6. TypesInv'
  BY DEF BrowseStart, TypesInv
<1>7. ListenerInv'
  BY <1>1 DEF BrowseStart, ListenerInv, TypeOK, Daemon, None
<1>8. ToldInv'
  BY DEF BrowseStart, ToldInv
<1>. QED  BY <1>3, <1>4, <1>5, <1>6, <1>7, <1>8

LEMMA BrowseInsertLemma ==
    ASSUME DInv, NEW b \in Browse, BrowseInsert(b)
    PROVE  DInv'
<1>. USE DEF DInv
<1>1. call' \in [Session -> CallRecord]
  BY CallPcLemma DEF BrowseInsert, StartPc, Session
<1>2. TypeOK'
  BY <1>1 DEF BrowseInsert, start, TypeOK, CallRecord
<1>3. DaemonInv'
  BY <1>1 DEF BrowseInsert, start, DaemonInv, Needs
<1>4. CallInv'
  BY <1>1 DEF BrowseInsert, CallInv
<1>5. TypesInv'
  BY DEF BrowseInsert, TypesInv
<1>6. ListenerInv'
  BY DEF BrowseInsert, start, ListenerInv
<1>8. ToldInv'
  BY DEF BrowseInsert, ToldInv
<1>. QED  BY <1>2, <1>3, <1>4, <1>5, <1>6, <1>8

LEMMA BrowseTypesLemma ==
    ASSUME DInv, NEW b \in Browse, BrowseTypes(b)
    PROVE  DInv'
<1>. USE DEF DInv
<1>1. call' \in [Session -> CallRecord]
  BY CallPcLemma DEF BrowseTypes, StartPc, Session
<1>2. TypeOK'
  BY CallAssumption, DaemonAssumption, <1>1 DEF BrowseTypes, start, TypeOK, CallRecord
<1>3. DaemonInv'
  BY DEF BrowseTypes, start, DaemonInv, Needs, Stopping
<1>4. CallInv'
  BY DEF BrowseTypes, CallInv
<1>5. TypesInv'
  <2>1. /\ call[b].pc = "inserted" /\ call'[b].pc = "browsing"
        /\ call'[b].todo = call[b].todo /\ knownTypes'[b] = call[b].todo
        /\ \A c \in Browse \ {b} : call'[c] = call[c] /\ knownTypes'[c] = knownTypes[c]
    BY DEF BrowseTypes, TypeOK, Session
  <2>. QED  BY <2>1 DEF BrowseTypes, TypesInv
<1>6. ListenerInv'
  BY DEF BrowseTypes, start, ListenerInv
<1>7. ToldInv'
  BY DEF BrowseTypes, ToldInv
<1>. QED  BY <1>2, <1>3, <1>4, <1>5, <1>6, <1>7

LEMMA BrowseTypeLemma ==
    ASSUME DInv, NEW b \in Browse, NEW ty \in Types, BrowseType(b, ty)
    PROVE  DInv'
<1>. USE DEF DInv
<1>1. call' \in [Session -> CallRecord]
  BY CallPcLemma DEF BrowseType, StartPc, Session
<1>2. listeners' \subseteq Daemon \X Types \X Browse
  <2>1. CASE call[b].daemon \in running
    <3>1. \E gone : listeners' = (listeners \ gone) \cup {<<call[b].daemon, ty, b>>}
      BY <2>1 DEF BrowseType
    <3>. QED  BY <2>1, <3>1 DEF TypeOK
  <2>2. CASE call[b].daemon \notin running
    BY DEF BrowseType, TypeOK
  <2>. QED  BY <2>1, <2>2
<1>3. receiver' \in [Browse -> [Types -> {"none", "running", "ended"}]]
  BY DEF BrowseType, TypeOK
<1>4. TypeOK'
  BY <1>1 DEF BrowseType, start, TypeOK, CallRecord
<1>5. DaemonInv'
  BY DEF BrowseType, start, DaemonInv, Needs, Stopping
<1>6. CallInv'
  BY DEF BrowseType, CallInv
<1>7. TypesInv'
  BY DEF BrowseType, TypesInv
<1>8. ListenerInv'
  BY <1>1 DEF BrowseType, start, ListenerInv, TypeOK, TypesInv, CallInv, DaemonInv
<1>10. ToldInv'
  BY DEF BrowseType, ToldInv
<1>. QED  BY <1>4, <1>5, <1>6, <1>7, <1>8, <1>10

LEMMA BrowseFailsLemma ==
    ASSUME DInv, NEW b \in Browse, BrowseFails(b)
    PROVE  DInv'
<1>. USE DEF DInv
<1>1. call' \in [Session -> CallRecord]
  BY CallPcLemma DEF BrowseFails, StartPc, Session
<1>2. TypeOK'
  BY <1>1 DEF BrowseFails, start, TypeOK, CallRecord
<1>3. DaemonInv'
  BY <1>1 DEF BrowseFails, start, DaemonInv, Needs
<1>4. CallInv'
  BY DEF BrowseFails, CallInv
<1>5. TypesInv'
  BY DEF BrowseFails, TypesInv
<1>6. ListenerInv'
  BY DEF BrowseFails, start, ListenerInv
<1>7. ToldInv'
  BY DEF BrowseFails, ToldInv
<1>. QED  BY <1>2, <1>3, <1>4, <1>5, <1>6, <1>7

LEMMA RegisterTaskLemma ==
    ASSUME DInv, NEW b \in Browse, NEW ty \in Types, RegisterTask(b, ty)
    PROVE  DInv'
<1>. USE DEF DInv
<1>1. call' \in [Session -> CallRecord]
  <2>1. {ty} \in SUBSET Types /\ b \in Session
    BY DEF Session
  <2>2. CASE call[b].todo = {ty}
    BY <2>1, CallTodoLemma DEF RegisterTask, StartPc
  <2>3. CASE call[b].todo # {ty}
    BY <2>1, CallTodoLemma DEF RegisterTask, StartPc
  <2>. QED  BY <2>2, <2>3
<1>2. receiver' \in [Browse -> [Types -> {"none", "running", "ended"}]]
  BY DEF RegisterTask, TypeOK
<1>3. TypeOK'
  BY <1>1, <1>2 DEF RegisterTask, start, TypeOK, CallRecord
<1>4. /\ call[b].pc = "registering" /\ call'[b].pc \in {"started", "browsing"}
      /\ call'[b].todo \subseteq call[b].todo
      /\ \A c \in Session \ {b} : call'[c] = call[c]
  BY DEF RegisterTask, TypeOK, Session
<1>5. DaemonInv'
  BY DEF RegisterTask, start, DaemonInv, Needs, Stopping
<1>6. CallInv'
  BY DEF RegisterTask, CallInv
<1>7. TypesInv'
  BY DEF RegisterTask, TypesInv
<1>8. ListenerInv'
  BY DEF RegisterTask, start, ListenerInv
<1>10. ToldInv'
  BY DEF RegisterTask, ToldInv
<1>. QED  BY <1>3, <1>5, <1>6, <1>7, <1>8, <1>10

------------------------------------------------------------------------------
(* The receiver tasks *)

LEMMA ReceiverCancelledLemma ==
    ASSUME DInv, NEW b \in Browse, NEW ty \in Types, ReceiverCancelled(b, ty)
    PROVE  DInv'
<1>. USE DEF DInv
<1>1. TypeOK'
  BY DEF ReceiverCancelled, start, TypeOK
<1>2. TypesInv'
  BY DEF ReceiverCancelled, TypesInv, TypeOK, CallInv
<1>4. DaemonInv' /\ CallInv' /\ ListenerInv' /\ ToldInv'
  BY DEF ReceiverCancelled, start, Needs, Stopping, DaemonInv, CallInv, ListenerInv,
     ToldInv
<1>. QED  BY <1>1, <1>2, <1>4

LEMMA ReceiverClosesLemma ==
    ASSUME DInv, NEW b \in Browse, NEW ty \in Types, ReceiverCloses(b, ty)
    PROVE  DInv'
<1>. USE DEF DInv
<1>1. TypeOK'
  BY DEF ReceiverCloses, Notify, start, TypeOK
<1>2. TypesInv'
  <2>1. \A c \in Browse : told'[c] = {} => c # b /\ told[c] = {}
    BY DEF ReceiverCloses, Notify, TypeOK
  <2>2. \A c \in Browse, ty2 \in Types :
           /\ receiver'[c][ty2] = "none" <=> receiver[c][ty2] = "none"
           /\ c # b => receiver'[c] = receiver[c]
    BY DEF ReceiverCloses, TypeOK
  <2>3. receiver[b][ty] = "running"
    BY DEF ReceiverCloses
  <2>4. call[b].pc \notin {"idle", "ensured", "inserted"}
    BY <2>3 DEF TypesInv
  <2>5. UNCHANGED <<call, knownTypes, sessions>>
    BY DEF ReceiverCloses, start
  <2>6. \A c \in Browse : knownTypes[c] \subseteq Types
    BY DEF TypeOK
  <2>7. ASSUME NEW c \in Browse
        PROVE  /\ call[c].pc \in {"idle", "ensured", "inserted"} =>
                      \A t \in Types : receiver'[c][t] = "none"
               /\ call[c].pc \in {"browsing", "registering", "started"} =>
                      \A t \in knownTypes[c] \ call[c].todo : receiver'[c][t] # "none"
               /\ c \in sessions /\ told'[c] = {} =>
                      \A t \in Types : receiver'[c][t] # "ended"
    BY <2>1, <2>2, <2>4, <2>6 DEF TypesInv
  <2>. QED  BY <2>5, <2>7 DEF TypesInv
<1>3. ToldInv'
  BY DEF ReceiverCloses, Notify, ToldInv
<1>5. DaemonInv' /\ CallInv' /\ ListenerInv'
  BY DEF ReceiverCloses, start, Needs, Stopping, DaemonInv, CallInv, ListenerInv
<1>. QED  BY <1>1, <1>2, <1>3, <1>5

------------------------------------------------------------------------------
(* Stopping *)

\* stop_browse_session takes the session out, once.
LEMMA RemoveSessionLemma ==
    ASSUME DInv, NEW b \in sessions, NEW by \in {"command", "timeout"},
           RemoveSession(b, by), timer' \in [Browse -> {"none", "armed", "over"}]
    PROVE  DInv'
<1>. USE DEF DInv
<1>1. b \in Browse /\ b \in Session /\ stop[b].pc = "none"
  BY DEF TypeOK, CallInv, Session
<1>2. /\ stop' \in [Session -> StopRecord]
      /\ stop'[b].pc = "removed" /\ stop'[b].by = by /\ stop'[b].early = Starting(b)
      /\ \A c \in Session \ {b} : stop'[c] = stop[c]
  <2>. DEFINE r == [pc |-> "removed", by |-> by, types |-> {}, early |-> Starting(b)]
  <2>1. r \in StopRecord
    BY DEF StopRecord, StopPc, Starting
  <2>. QED  BY <1>1, <2>1, StopLemma DEF RemoveSession
<1>3. TypeOK'
  BY <1>2 DEF RemoveSession, start, TypeOK, StopRecord
<1>4. DaemonInv'
  BY <1>2 DEF RemoveSession, start, DaemonInv, Needs, Stopping
<1>5. CallInv'
  <2>1. call[b].pc \in StartPc /\ call[b].pc \notin {"idle", "ensured"}
    BY <1>1 DEF TypeOK, CallInv
  <2>2. Starting(b) \/ call[b].pc \in {"started", "failed"}
    BY <2>1 DEF Starting, StartPc
  <2>. QED  BY <1>1, <1>2, <2>1, <2>2 DEF RemoveSession, CallInv, Session
<1>6. TypesInv'
  BY DEF RemoveSession, TypesInv
<1>7. ListenerInv'
  BY DEF RemoveSession, start, ListenerInv
<1>8. ToldInv'
  BY DEF RemoveSession, ToldInv
<1>. QED  BY <1>3, <1>4, <1>5, <1>6, <1>7, <1>8

LEMMA BrowseStopLemma ==
    ASSUME DInv, NEW b \in Browse, BrowseStop(b)
    PROVE  DInv'
BY RemoveSessionLemma DEF BrowseStop, DInv, TypeOK

LEMMA TimeoutFiresLemma ==
    ASSUME DInv, NEW b \in Browse, TimeoutFires(b)
    PROVE  DInv'
<1>. USE DEF DInv
<1>1. timer' \in [Browse -> {"none", "armed", "over"}]
  BY DEF TimeoutFires, TypeOK
<1>2. CASE b \notin sessions
  <2>1. UNCHANGED <<start, sessions, adverts, call, knownTypes, receiver, cancelled, stop,
                    told, listeners, registered>>
    BY <1>2 DEF TimeoutFires
  <2>2. TypeOK' /\ DaemonInv' /\ CallInv'
    BY <1>1, <2>1 DEF start, TypeOK, DaemonInv, Needs, Stopping, CallInv
  <2>3. TypesInv' /\ ListenerInv' /\ ToldInv'
    BY <2>1 DEF start, TypesInv, ListenerInv, ToldInv
  <2>. QED  BY <2>2, <2>3
<1>3. CASE b \in sessions
  <2>1. RemoveSession(b, "timeout")
    BY <1>3 DEF TimeoutFires
  <2>. QED  BY <1>1, <1>3, <2>1, RemoveSessionLemma
<1>. QED  BY <1>2, <1>3

LEMMA StopTasksLemma ==
    ASSUME DInv, NEW b \in Browse, StopTasks(b)
    PROVE  DInv'
<1>. USE DEF DInv
<1>0. b \in Session /\ knownTypes[b] \in SUBSET Types
  BY DEF Session, TypeOK
<1>. HIDE DEF DInv
<1>s. /\ stop' \in [Session -> StopRecord]
      /\ stop'[b].pc = "aborted" /\ stop'[b].types = knownTypes[b]
      /\ stop'[b].by = stop[b].by /\ stop'[b].early = stop[b].early
      /\ \A o \in Session \ {b} : stop'[o] = stop[o]
  BY <1>0, StopTypesTypeLemma DEF StopTasks, StopPc, DInv
<1>. USE DEF DInv
<1>1. TypeOK'
  BY <1>s DEF StopTasks, start, TypeOK, StopRecord
<1>2. DaemonInv'
  BY <1>s DEF StopTasks, start, DaemonInv, Needs, Stopping
<1>3. CallInv'
  BY <1>s DEF StopTasks, CallInv, Session
<1>4. ListenerInv'
  BY <1>s DEF StopTasks, start, ListenerInv, TypeOK, Session
<1>5. ToldInv'
  BY <1>s DEF StopTasks, ToldInv, Session
<1>6. TypesInv'
  BY DEF StopTasks, TypesInv
<1>. QED  BY <1>1, <1>2, <1>3, <1>4, <1>5, <1>6

LEMMA StopTypesLemma ==
    ASSUME DInv, NEW b \in Browse, StopTypes(b)
    PROVE  DInv'
<1>. USE DEF DInv
<1>. b \in Session
  BY DEF Session
<1>s. /\ stop' \in [Session -> StopRecord]
      /\ stop'[b].pc = "notified" /\ stop'[b].types = {}
      /\ stop'[b].by = stop[b].by /\ stop'[b].early = stop[b].early
      /\ \A o \in Session \ {b} : stop'[o] = stop[o]
  <2>1. /\ {} \in SUBSET Types /\ "notified" \in StopPc
        /\ stop' = [stop EXCEPT ![b] = [stop[b] EXCEPT !.pc = "notified", !.types = {}]]
    BY DEF StopTypes, StopPc
  <2>. QED  BY <2>1, StopTypesTypeLemma, Zenon
<1>t. /\ told' \in [Browse -> SUBSET {"closed", "command", "timeout"}]
      /\ told'[b] = IF told[b] = {} THEN {stop[b].by} ELSE told[b]
      /\ \A o \in Browse \ {b} : told'[o] = told[o]
  BY DEF StopTypes, Notify, TypeOK
<1>1. TypeOK'
  BY <1>s, <1>t DEF StopTypes, start, TypeOK, StopRecord
<1>2. DaemonInv'
  BY <1>s DEF StopTypes, start, DaemonInv, Needs, Stopping
<1>3. CallInv'
  BY <1>s DEF StopTypes, CallInv, Session
<1>4. ListenerInv'
  <2>1. ASSUME NEW l \in listeners', l[3] = b PROVE stop[b].early
    <3>1. l \in listeners /\ l[1] = daemon /\ l[2] \in knownTypes[b]
      BY <2>1 DEF StopTypes, ListenerInv
    <3>2. l[2] \notin stop[b].types
      BY <2>1, <3>1 DEF StopTypes
    <3>. QED  BY <3>1, <3>2 DEF StopTypes, CallInv
  <2>2. listeners' \subseteq listeners
    BY DEF StopTypes
  <2>3. \A l \in listeners : l[3] \in Session
    BY DEF TypeOK, Session
  <2>. QED  BY <1>s, <2>1, <2>2, <2>3 DEF StopTypes, start, ListenerInv
<1>5. ToldInv'
  BY <1>s, <1>t DEF ToldInv, Session
<1>7. TypesInv'
  BY <1>t DEF StopTypes, TypesInv
<1>. QED  BY <1>1, <1>2, <1>3, <1>4, <1>5, <1>7

LEMMA StopEndsLemma ==
    ASSUME DInv, NEW c \in Session, StopEnds(c)
    PROVE  DInv'
<1>. USE DEF DInv
<1>1. /\ daemon' \in {daemon, None} /\ running' \subseteq running
      /\ listeners' \subseteq listeners /\ registered' \subseteq registered
  BY DEF StopEnds, MaybeShutdownDaemon
<1>2. /\ stop' \in [Session -> StopRecord]
      /\ stop'[c].pc = "done" /\ stop'[c].by = stop[c].by
      /\ stop'[c].types = stop[c].types /\ stop'[c].early = stop[c].early
      /\ \A o \in Session \ {c} : stop'[o] = stop[o]
  BY StopPcLemma DEF StopEnds, StopPc
<1>3. TypeOK'
  BY <1>1, <1>2 DEF StopEnds, TypeOK, StopRecord
<1>4. DaemonInv'
  BY DEF StopEnds, MaybeShutdownDaemon, DaemonInv, TypeOK, Needs, Session
<1>5. CallInv'
  BY DEF StopEnds, CallInv
<1>6. ListenerInv'
  BY DEF StopEnds, MaybeShutdownDaemon, ListenerInv
<1>7. ToldInv'
  BY DEF StopEnds, ToldInv
<1>8. TypesInv'
  BY DEF StopEnds, TypesInv
<1>. QED  BY <1>3, <1>4, <1>5, <1>6, <1>7, <1>8

LEMMA TimeoutCutOffLemma ==
    ASSUME DInv, NEW b \in Browse, TimeoutCutOff(b)
    PROVE  DInv'
<1>. USE DEF DInv
<1>. b \in Session
  BY DEF Session
<1>s. /\ stop' \in [Session -> StopRecord]
      /\ stop'[b].pc = "cut" /\ stop'[b].types = {}
      /\ stop'[b].by = stop[b].by /\ stop'[b].early = stop[b].early
      /\ \A o \in Session \ {b} : stop'[o] = stop[o]
  <2>1. /\ {} \in SUBSET Types /\ "cut" \in StopPc
        /\ stop' = [stop EXCEPT ![b] = [stop[b] EXCEPT !.pc = "cut", !.types = {}]]
    BY DEF TimeoutCutOff, StopPc
  <2>. QED  BY <2>1, StopTypesTypeLemma, Zenon
<1>1. TypeOK'
  BY <1>s DEF TimeoutCutOff, start, TypeOK, StopRecord
<1>2. DaemonInv'
  BY <1>s DEF TimeoutCutOff, start, DaemonInv, Needs, Stopping
<1>3. CallInv'
  BY <1>s DEF TimeoutCutOff, CallInv, Session
<1>4. ListenerInv'
  BY <1>s DEF TimeoutCutOff, start, ListenerInv, TypeOK, Session
<1>5. ToldInv'
  BY <1>s DEF TimeoutCutOff, ToldInv, Session
<1>6. TypesInv'
  BY DEF TimeoutCutOff, TypesInv
<1>. QED  BY <1>1, <1>2, <1>3, <1>4, <1>5, <1>6

------------------------------------------------------------------------------
(* Advertising *)

LEMMA AdvertiseStartLemma ==
    ASSUME DInv, NEW a \in Advert, AdvertiseStart(a)
    PROVE  DInv'
<1>. USE DEF DInv
<1>. PICK d \in Daemon :
        /\ EnsureDaemon(d)
        /\ call' = [call EXCEPT ![a] = [@ EXCEPT !.pc = "ensured", !.daemon = d]]
  BY DEF AdvertiseStart
<1>1. /\ daemon' = d /\ running' = {d} /\ created' \in Daemon \cup {None}
      /\ daemon # None => daemon' = daemon
  BY EnsureLemma
<1>2. call' \in [Session -> CallRecord]
  BY CallStartLemma DEF StartPc, Session
<1>3. TypeOK'
  BY <1>1, <1>2 DEF AdvertiseStart, TypeOK, CallRecord
<1>4. DaemonInv'
  BY <1>1, <1>2 DEF DaemonInv, Needs, None, Daemon
<1>5. CallInv'
  BY DEF AdvertiseStart, CallInv
<1>6. TypesInv'
  BY DEF AdvertiseStart, TypesInv
<1>7. ListenerInv'
  BY <1>1 DEF AdvertiseStart, ListenerInv, TypeOK, Daemon, None
<1>8. ToldInv'
  BY DEF AdvertiseStart, ToldInv
<1>. QED  BY <1>3, <1>4, <1>5, <1>6, <1>7, <1>8

LEMMA AdvertiseFailsLemma ==
    ASSUME DInv, NEW a \in Advert, AdvertiseFails(a)
    PROVE  DInv'
<1>. USE DEF DInv
<1>1. call' \in [Session -> CallRecord]
  BY CallPcLemma DEF AdvertiseFails, StartPc, Session
<1>2. TypeOK'
  BY <1>1 DEF AdvertiseFails, start, TypeOK, CallRecord
<1>3. DaemonInv'
  BY <1>1 DEF AdvertiseFails, start, DaemonInv, Needs
<1>4. CallInv'
  BY CallAssumption DEF AdvertiseFails, CallInv
<1>5. TypesInv'
  BY DEF AdvertiseFails, TypesInv
<1>6. ListenerInv'
  BY DEF AdvertiseFails, start, ListenerInv
<1>7. ToldInv'
  BY DEF AdvertiseFails, ToldInv
<1>. QED  BY <1>2, <1>3, <1>4, <1>5, <1>6, <1>7

LEMMA AdvertiseRegisterLemma ==
    ASSUME DInv, NEW a \in Advert, AdvertiseRegister(a)
    PROVE  DInv'
<1>. USE DEF DInv
<1>1. call' \in [Session -> CallRecord]
  BY CallPcLemma DEF AdvertiseRegister, StartPc, Session
<1>2. TypeOK'
  BY <1>1 DEF AdvertiseRegister, start, TypeOK, CallRecord
<1>3. DaemonInv'
  BY <1>1 DEF AdvertiseRegister, start, DaemonInv, Needs
<1>4. CallInv'
  BY CallAssumption DEF AdvertiseRegister, CallInv
<1>5. TypesInv'
  BY DEF AdvertiseRegister, TypesInv
<1>6. ListenerInv'
  BY DEF AdvertiseRegister, start, ListenerInv
<1>7. ToldInv'
  BY DEF AdvertiseRegister, ToldInv
<1>. QED  BY <1>2, <1>3, <1>4, <1>5, <1>6, <1>7

LEMMA AdvertiseInsertLemma ==
    ASSUME DInv, NEW a \in Advert, AdvertiseInsert(a)
    PROVE  DInv'
<1>. USE DEF DInv
<1>1. call' \in [Session -> CallRecord]
  BY CallPcLemma DEF AdvertiseInsert, StartPc, Session
<1>2. TypeOK'
  BY <1>1 DEF AdvertiseInsert, start, TypeOK, CallRecord
<1>3. DaemonInv'
  BY <1>1 DEF AdvertiseInsert, start, DaemonInv, Needs
<1>4. CallInv'
  BY DEF AdvertiseInsert, CallInv
<1>5. TypesInv'
  <2>1. \A b \in Browse : call'[b] = call[b]
    BY CallAssumption DEF AdvertiseInsert, TypeOK, Session
  <2>. QED  BY <2>1 DEF AdvertiseInsert, TypesInv
<1>6. ListenerInv'
  BY DEF AdvertiseInsert, start, ListenerInv
<1>7. ToldInv'
  BY DEF AdvertiseInsert, ToldInv
<1>. QED  BY <1>2, <1>3, <1>4, <1>5, <1>6, <1>7

LEMMA AdvertiseStopLemma ==
    ASSUME DInv, NEW a \in Advert, AdvertiseStop(a)
    PROVE  DInv'
<1>. USE DEF DInv
<1>s. /\ stop' \in [Session -> StopRecord]
      /\ stop'[a].pc = "removed" /\ \A o \in Session \ {a} : stop'[o] = stop[o]
  BY StopPcLemma DEF AdvertiseStop, StopPc, Session
<1>1. TypeOK'
  BY <1>s DEF AdvertiseStop, start, TypeOK, StopRecord
<1>2. DaemonInv'
  BY <1>s DEF AdvertiseStop, start, DaemonInv, TypeOK, Needs, Stopping
<1>3. CallInv'
  BY CallAssumption DEF AdvertiseStop, CallInv
<1>4. ListenerInv'
  BY DEF AdvertiseStop, start, ListenerInv
<1>5. ToldInv'
  BY DEF AdvertiseStop, ToldInv
<1>6. TypesInv'
  BY DEF AdvertiseStop, TypesInv
<1>. QED  BY <1>1, <1>2, <1>3, <1>4, <1>5, <1>6

LEMMA AdvertiseUnregisterLemma ==
    ASSUME DInv, NEW a \in Advert, AdvertiseUnregister(a)
    PROVE  DInv'
<1>. USE DEF DInv
<1>1. /\ a \in Session
      /\ \A c \in Session \ {a} : stop'[c] = stop[c]
      /\ registered' \subseteq registered
  BY DEF AdvertiseUnregister, Session, TypeOK
<1>2. stop' \in [Session -> StopRecord]
  <2>1. CASE stop' = [stop EXCEPT ![a].pc = "notified"]
    BY <1>1, <2>1, StopPcLemma DEF StopPc
  <2>2. CASE stop' = [stop EXCEPT ![a].pc = "done"]
    BY <1>1, <2>2, StopPcLemma DEF StopPc
  <2>. QED  BY <2>1, <2>2 DEF AdvertiseUnregister
<1>3. \/ UNCHANGED start
      \/ \E d \in Daemon :
            /\ daemon' = d /\ running' = {d} /\ created' \in Daemon \cup {None}
            /\ daemon # None => daemon' = daemon
  BY EnsureLemma DEF AdvertiseUnregister
<1>4. TypeOK'
  BY <1>1, <1>3, <1>2 DEF AdvertiseUnregister, start, TypeOK, StopRecord
<1>5. DaemonInv'
  BY DEF AdvertiseUnregister, EnsureDaemon, start, DaemonInv, TypeOK, Needs,
     Stopping, None, Daemon, Session
<1>6. CallInv'
  <2>1. \A b \in Browse : b # a /\ stop'[b] = stop[b]
    BY <1>1, CallAssumption DEF Session
  <2>. QED  BY <2>1 DEF AdvertiseUnregister, CallInv
<1>7. ListenerInv'
  <2>1. \A l \in listeners : l[3] \in Browse /\ l[3] # a
    BY CallAssumption DEF TypeOK
  <2>2. listeners # {} => daemon' = daemon
    BY <1>3 DEF TypeOK, ListenerInv, start, Daemon, None
  <2>. QED  BY <1>1, <2>1, <2>2 DEF AdvertiseUnregister, ListenerInv, Session
<1>8. ToldInv'
  BY CallAssumption DEF AdvertiseUnregister, ToldInv, TypeOK, Session
<1>9. TypesInv'
  BY DEF AdvertiseUnregister, TypesInv
<1>. QED  BY <1>4, <1>5, <1>6, <1>7, <1>8, <1>9

------------------------------------------------------------------------------
(* The inductive invariant and what follows from it *)

LEMMA InitLemma == Init => DInv
<1>. SUFFICES ASSUME Init PROVE DInv
  OBVIOUS
<1>1. TypeOK
  <2>1. call \in [Session -> [pc : StartPc, daemon : Daemon \cup {None}, todo : SUBSET Types]]
    BY DEF Init, StartPc
  <2>2. stop \in [Session -> StopRecord]
    BY DEF Init, StopPc, StopIdle, StopRecord
  <2>. QED  BY <2>1, <2>2 DEF Init, TypeOK, None, StopRecord
<1>2. CallInv /\ TypesInv /\ ToldInv
  BY DEF Init, CallInv, TypesInv, ToldInv, StopIdle, Session
<1>3. DaemonInv /\ ListenerInv
  BY DEF Init, DaemonInv, ListenerInv
<1>. QED  BY <1>1, <1>2, <1>3 DEF DInv

LEMMA NextLemma == DInv /\ [Next]_vars => DInv'
<1>. SUFFICES ASSUME DInv, [Next]_vars PROVE DInv'
  OBVIOUS
<1>1. ASSUME NEW b \in Browse, BrowseStart(b) PROVE DInv'
  BY <1>1, BrowseStartLemma
<1>2. ASSUME NEW b \in Browse, BrowseInsert(b) PROVE DInv'
  BY <1>2, BrowseInsertLemma
<1>3. ASSUME NEW b \in Browse, BrowseTypes(b) PROVE DInv'
  BY <1>3, BrowseTypesLemma
<1>4. ASSUME NEW b \in Browse, BrowseFails(b) PROVE DInv'
  BY <1>4, BrowseFailsLemma
<1>5. ASSUME NEW b \in Browse, BrowseStop(b) PROVE DInv'
  BY <1>5, BrowseStopLemma
<1>6. ASSUME NEW b \in Browse, TimeoutFires(b) PROVE DInv'
  BY <1>6, TimeoutFiresLemma
<1>7. ASSUME NEW b \in Browse, StopTasks(b) PROVE DInv'
  BY <1>7, StopTasksLemma
<1>8. ASSUME NEW b \in Browse, StopTypes(b) PROVE DInv'
  BY <1>8, StopTypesLemma
<1>9. ASSUME NEW b \in Browse, TimeoutCutOff(b) PROVE DInv'
  BY <1>9, TimeoutCutOffLemma
<1>10. ASSUME NEW b \in Browse, NEW ty \in Types, BrowseType(b, ty) PROVE DInv'
  BY <1>10, BrowseTypeLemma
<1>11. ASSUME NEW b \in Browse, NEW ty \in Types, RegisterTask(b, ty) PROVE DInv'
  BY <1>11, RegisterTaskLemma
<1>12. ASSUME NEW b \in Browse, NEW ty \in Types, ReceiverCancelled(b, ty) PROVE DInv'
  BY <1>12, ReceiverCancelledLemma
<1>13. ASSUME NEW b \in Browse, NEW ty \in Types, ReceiverCloses(b, ty) PROVE DInv'
  BY <1>13, ReceiverClosesLemma
<1>14. ASSUME NEW a \in Advert, AdvertiseStart(a) PROVE DInv'
  BY <1>14, AdvertiseStartLemma
<1>15. ASSUME NEW a \in Advert, AdvertiseFails(a) PROVE DInv'
  BY <1>15, AdvertiseFailsLemma
<1>16. ASSUME NEW a \in Advert, AdvertiseRegister(a) PROVE DInv'
  BY <1>16, AdvertiseRegisterLemma
<1>17. ASSUME NEW a \in Advert, AdvertiseInsert(a) PROVE DInv'
  BY <1>17, AdvertiseInsertLemma
<1>18. ASSUME NEW a \in Advert, AdvertiseStop(a) PROVE DInv'
  BY <1>18, AdvertiseStopLemma
<1>19. ASSUME NEW a \in Advert, AdvertiseUnregister(a) PROVE DInv'
  BY <1>19, AdvertiseUnregisterLemma
<1>20. ASSUME NEW c \in Session, StopEnds(c) PROVE DInv'
  BY <1>20, StopEndsLemma
<1>21. CASE UNCHANGED vars
  <2>1. TypeOK' /\ DaemonInv' /\ CallInv'
    BY <1>21 DEF vars, DInv, TypeOK, DaemonInv, Needs, Stopping, CallInv
  <2>2. TypesInv' /\ ListenerInv' /\ ToldInv'
    BY <1>21 DEF vars, DInv, TypesInv, ListenerInv, ToldInv
  <2>. QED  BY <2>1, <2>2 DEF DInv
<1>. QED  BY <1>1, <1>2, <1>3, <1>4, <1>5, <1>6, <1>7, <1>8, <1>9, <1>10,
             <1>11, <1>12, <1>13, <1>14, <1>15, <1>16, <1>17, <1>18, <1>19,
             <1>20, <1>21 DEF Next, Session

\* The inductive invariant of the desktop plug-in.
THEOREM DesktopInvariant == Spec => []DInv
<1>. QED  BY InitLemma, NextLemma, PTL DEF Spec

\* DaemonLifetime: the daemon that runs is the one handed out, and none runs once
\* nothing is left to do (ensure_daemon, maybe_shutdown_daemon).
THEOREM DaemonLivesAsNeeded == Spec => []DaemonLifetime
<1>1. DInv => DaemonLifetime
  BY DEF DInv, DaemonInv, DaemonLifetime, Needs, Starting
<1>. QED  BY <1>1, DesktopInvariant, PTL

\* NoSilentSession: until the consumer of a browse that was started well is told that
\* it has ended, every type it asked for has a receiver that listens, and the daemon
\* that serves it is the one a stop turns to (browse_start, register_task,
\* notify_browse_stop, maybe_shutdown_daemon).
THEOREM NoSessionGoesSilent == Spec => []NoSilentSession
<1>1. ASSUME DInv, NEW b \in sessions, call[b].pc = "started", told[b] = {},
             NEW ty \in knownTypes[b]
      PROVE  /\ receiver[b][ty] = "running"
             /\ \A l \in listeners : l[2] = ty /\ l[3] = b => l[1] = daemon
  <2>1. b \in Browse /\ ty \in Types /\ receiver[b][ty] \in {"none", "running", "ended"}
    BY <1>1 DEF DInv, TypeOK
  <2>2. receiver[b][ty] # "none" /\ receiver[b][ty] # "ended"
    BY <1>1, <2>1 DEF DInv, TypesInv
  <2>. QED  BY <1>1, <2>1, <2>2 DEF DInv, ListenerInv
<1>2. DInv => NoSilentSession
  BY <1>1 DEF NoSilentSession
<1>. QED  BY <1>2, DesktopInvariant, PTL

\* StopIsToldOnce: a consumer gets one Stopped message at most, and one by the end
\* of a stop (stop_browse_session, notify_browse_stop).
THEOREM ConsumerIsToldOnce == Spec => []StopIsToldOnce
<1>1. ASSUME ToldInv, NEW b \in Browse PROVE Cardinality(told[b]) <= 1
  <2>1. CASE told[b] = {}
    BY <2>1, FS_EmptySet
  <2>2. CASE told[b] # {}
    <3>1. PICK r \in told[b] : told[b] = {r}
      BY <1>1, <2>2 DEF ToldInv
    <3>2. Cardinality({r}) = 1
      BY FS_Singleton
    <3>. QED  BY <3>1, <3>2
  <2>. QED  BY <2>1, <2>2
<1>2. DInv => StopIsToldOnce
  BY <1>1 DEF DInv, ToldInv, StopIsToldOnce
<1>. QED  BY <1>2, DesktopInvariant, PTL

\* NoStrayListener: whoever stops a browse, command or timeout, no daemon goes on
\* querying for it, but for the three leaks named there (stop_browse_session).
THEOREM NothingUnwantedIsQueried == Spec => []NoStrayListener
<1>1. ASSUME DInv, NEW l \in listeners
      PROVE  \/ l[3] \in sessions /\ call[l[3]].pc = "started"
             \/ Starting(l[3]) \/ Stopping(l[3]) \/ Leaked(l[3])
  <2>1. /\ l[3] \in Browse /\ l[3] \in Session
        /\ call[l[3]].pc \in {"browsing", "registering", "started", "failed"}
    BY <1>1 DEF DInv, TypeOK, ListenerInv, Session
  <2>2. CASE l[3] \in sessions
    BY <2>1, <2>2 DEF Starting, Leaked
  <2>3. CASE l[3] \notin sessions
    <3>1. stop[l[3]].pc \in StopPc \ {"none"}
      BY <1>1, <2>1, <2>3 DEF DInv, TypeOK, CallInv
    <3>. QED  BY <1>1, <3>1 DEF DInv, ListenerInv, Stopping, Leaked, StopPc
  <2>. QED  BY <2>2, <2>3
<1>2. DInv => NoStrayListener
  BY <1>1 DEF NoStrayListener
<1>. QED  BY <1>2, DesktopInvariant, PTL
=============================================================================
