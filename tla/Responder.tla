------------------------------ MODULE Responder ------------------------------
(***************************************************************************)
(* One advertised service (engine/responder.ts): probing for a name,       *)
(* renaming on a conflict, announcing, answering queries through the        *)
(* aggregation window, defending the name, and withdrawing it.  The peers   *)
(* are the environment: any query or response they may send can arrive at   *)
(* any moment.  Timer delays are abstracted: a pending timer may fire at    *)
(* any time, in any order with the other one.                               *)
(***************************************************************************)
EXTENDS DnsRecords, FiniteSets

CONSTANTS
    MaxRename,      \* MAX_RENAME_ATTEMPTS
    ProbeCount,     \* timing.probeCount
    AnnounceCount,  \* timing.announceCount
    OurHost,        \* which host this is: hosts have names of their own
    Addrs,          \* RDATA of the host's own A records
    OurData,        \* RDATA of our SRV and TXT records
    PeerData        \* RDATA other hosts may use for the same names

ASSUME MaxRenameAssumption  == MaxRename \in Nat
ASSUME ProbeAssumption      == ProbeCount \in Nat \ {0}
ASSUME AnnounceAssumption   == AnnounceCount \in Nat \ {0}
ASSUME HostAssumption       == OurHost \in Nat
ASSUME DataAssumption       == Addrs \subseteq Nat /\ OurData \in Nat /\ PeerData \subseteq Nat

VARIABLES
    started, closed,    \* the flags of the same names
    registered,         \* the engine dispatches messages to this responder
    instanceName,       \* 0 is the base name, n the name "base (n + 1)"
    renameAttempt,
    records,            \* the records of the current name
    timers,             \* pending timers, each with the closure it runs
    probeConflict,
    announcing,
    pendingAnswers,     \* answers of the open aggregation window
    flushTimer,         \* flushTimer # null
    ready,              \* the promise start() returns
    engineClosed        \* the engine's closed flag: send() drops everything

\* What the outside world can observe, recorded for the properties.
VARIABLES
    probes,     \* probes sent since the current probing began
    contested,  \* instance names a peer has been heard to use otherwise
    claimed,    \* instance names announced
    exposed,    \* records peers have been sent and not told to forget
    stopped     \* the caller's stop() has returned

control  == <<started, closed, registered>>
naming   == <<instanceName, renameAttempt, records>>
window   == <<pendingAnswers, flushTimer>>
history  == <<probes, contested, claimed, exposed, stopped>>
vars     == <<control, naming, timers, probeConflict, announcing, window,
              ready, engineClosed, history>>

------------------------------------------------------------------------------
(* Names, records and messages *)

Service     == <<"service", 0>>
Enumeration == <<"enumeration", 0>>
Host        == <<"host", OurHost>>
Instance(n) == <<"instance", n>>

Names == 0..MaxRename

Rec(type, name, data) == [type |-> type, name |-> name, data |-> data]

RecordsOf(n) ==
    {Rec("PTR", Service, n), Rec("PTR", Enumeration, 0),
     Rec("SRV", Instance(n), OurData), Rec("TXT", Instance(n), OurData)}
        \cup {Rec("A", Host, a) : a \in Addrs}

OurRecord == UNION {RecordsOf(n) : n \in Names}

\* The unique records a peer may hold for a name we use or may come to use.
PeerRecord ==
    {Rec(t, Instance(n), d) : t \in {"SRV", "TXT"}, n \in Names, d \in PeerData}
        \cup {Rec("A", Host, d) : d \in PeerData}

\* A peer's probe for instance name n; it proposes an A record for our host
\* name only if it has the same host name.
PeerProbe(n) ==
    {{Rec("SRV", Instance(n), s), Rec("TXT", Instance(n), t)} \cup h :
        s \in PeerData, t \in PeerData,
        h \in {{}} \cup {{Rec("A", Host, d)} : d \in PeerData}}

Question == [type : {"PTR", "SRV", "TXT", "A"},
             name : {Service, Enumeration, Host} \cup {Instance(n) : n \in Names}]

\* Known answers with at least half of their TTL left: the others suppress nothing.
KnownAnswers == {{}} \cup {{Rec("PTR", Service, n)} : n \in Names}

\* A question is about a record of its type, or of any type.
Asks(q, r) == q.name = r.name /\ q.type \in {"ANY", r.type}

AnswersFor(questions, known) ==
    {r \in records \ known : \E q \in questions : Asks(q, r)}

\* A response with a PTR carries the service's unique records too.
WithAdditionals(answers) ==
    IF \E r \in answers : r.type = "PTR" THEN answers \cup Unique(records)
                                         ELSE answers

------------------------------------------------------------------------------
(* Timers *)

Timer(fn, sent) == [fn |-> fn, sent |-> sent]

FlushTimer == Timer("flush", 0)

TimerSet == [fn : {"sendProbe"}, sent : 0..(ProbeCount - 1)]
                \cup [fn : {"announce"}, sent : 1..(AnnounceCount - 1)]
                \cup {Timer("onProbeDone", 0), FlushTimer}

------------------------------------------------------------------------------
(* Fragments several handlers share *)

\* ctx.send: nothing leaves once the engine is closed.
Send(response) ==
    exposed' = IF engineClosed THEN exposed ELSE exposed \cup response

\* close(): every timer is cancelled and the engine forgets the responder.
Close ==
    /\ closed' = TRUE
    /\ registered' = FALSE
    /\ timers' = {}
    /\ pendingAnswers' = {}
    /\ flushTimer' = FALSE
    /\ UNCHANGED started

\* Mutant: running out of names leaves the caller's promise pending.
GiveUp_Silently ==
    /\ renameAttempt + 1 > MaxRename
    /\ renameAttempt' = renameAttempt + 1
    /\ Close
    /\ UNCHANGED <<ready, instanceName, records, probeConflict, probes>>

GiveUp ==
    /\ renameAttempt + 1 > MaxRename
    /\ renameAttempt' = renameAttempt + 1
    /\ ready' = IF ready = "pending" THEN "rejected" ELSE ready
    /\ Close
    /\ UNCHANGED <<instanceName, records, probeConflict, probes>>

\* The next name: its records are rebuilt and probing starts over.
ProbeNextName(remaining) ==
    /\ renameAttempt + 1 <= MaxRename
    /\ renameAttempt' = renameAttempt + 1
    /\ instanceName' = renameAttempt + 1
    /\ records' = RecordsOf(renameAttempt + 1)
    /\ probeConflict' = FALSE
    /\ timers' = remaining \cup {Timer("sendProbe", 0)}
    /\ probes' = 0
    /\ UNCHANGED <<control, ready>>

Rename ==
    \/ GiveUp
    \/ ProbeNextName(timers \ {Timer("onProbeDone", 0)}) /\ UNCHANGED window

\* Mutant: clearTimers() forgets to reset flushTimer.
Reprobe_DeadFlushTimer ==
    \/ GiveUp
    \/ ProbeNextName({}) /\ pendingAnswers' = {} /\ UNCHANGED flushTimer

\* Mutant: clearTimers() forgets the buffered answers.
Reprobe_KeepsAnswers ==
    \/ GiveUp
    \/ ProbeNextName({}) /\ flushTimer' = FALSE /\ UNCHANGED pendingAnswers

\* Mutant: the re-probe cancels no timer.
Reprobe_KeepsTimers ==
    \/ GiveUp
    \/ ProbeNextName(timers) /\ UNCHANGED window

\* clearTimers() and rename(): the announcing flag stays as it is.
Reprobe ==
    \/ GiveUp
    \/ /\ ProbeNextName({})
       /\ pendingAnswers' = {}
       /\ flushTimer' = FALSE

------------------------------------------------------------------------------
(* Actions *)

Init ==
    /\ started = FALSE /\ closed = FALSE /\ registered = FALSE
    /\ instanceName = 0 /\ renameAttempt = 0 /\ records = {}
    /\ timers = {} /\ probeConflict = FALSE /\ announcing = FALSE
    /\ pendingAnswers = {} /\ flushTimer = FALSE
    /\ ready = "pending" /\ engineClosed = FALSE
    /\ probes = 0 /\ contested = {} /\ claimed = {} /\ exposed = {}
    /\ stopped = FALSE

Start ==
    /\ ~started /\ ~engineClosed
    /\ started' = TRUE
    /\ registered' = TRUE
    /\ records' = RecordsOf(instanceName)
    /\ probeConflict' = FALSE
    /\ timers' = timers \cup {Timer("sendProbe", 0)}
    /\ probes' = 0
    /\ UNCHANGED <<closed, instanceName, renameAttempt, announcing, window,
                   ready, engineClosed, contested, claimed, exposed, stopped>>

SendProbe ==
    \E t \in timers :
        /\ t.fn = "sendProbe"
        /\ probes' = probes + 1
        /\ timers' = (timers \ {t}) \cup
                        {IF t.sent + 1 >= ProbeCount THEN Timer("onProbeDone", 0)
                                                     ELSE Timer("sendProbe", t.sent + 1)}
        /\ UNCHANGED <<control, naming, probeConflict, announcing, window, ready,
                       engineClosed, contested, claimed, exposed, stopped>>

\* A second and later announcement is scheduled by the one before it.
AnnounceAgain(remaining, sent) ==
    timers' = remaining \cup (IF sent < AnnounceCount THEN {Timer("announce", sent)}
                                                       ELSE {})

\* Mutant: the conflict seen while probing is not looked at.
ClaimName_IgnoresConflict ==
    /\ Timer("onProbeDone", 0) \in timers
    /\ announcing' = TRUE
    /\ AnnounceAgain(timers \ {Timer("onProbeDone", 0)}, 1)
    /\ Send(records)
    /\ claimed' = claimed \cup {instanceName}
    /\ ready' = IF ready = "pending" THEN "resolved" ELSE ready
    /\ UNCHANGED <<control, naming, probeConflict, window, engineClosed,
                   probes, contested, stopped>>

\* Probing ended quietly: announce, then resolve the caller's promise.
ClaimName ==
    /\ Timer("onProbeDone", 0) \in timers
    /\ ~probeConflict
    /\ announcing' = TRUE
    /\ AnnounceAgain(timers \ {Timer("onProbeDone", 0)}, 1)
    /\ Send(records)
    /\ claimed' = claimed \cup {instanceName}
    /\ ready' = IF ready = "pending" THEN "resolved" ELSE ready
    /\ UNCHANGED <<control, naming, probeConflict, window, engineClosed,
                   probes, contested, stopped>>

LoseName ==
    /\ Timer("onProbeDone", 0) \in timers
    /\ probeConflict
    /\ Rename
    /\ UNCHANGED <<announcing, engineClosed, contested, claimed, exposed, stopped>>

Announce ==
    \E t \in timers :
        /\ t.fn = "announce"
        /\ Send(records)
        /\ AnnounceAgain(timers \ {t}, t.sent + 1)
        /\ UNCHANGED <<control, naming, probeConflict, announcing, window, ready,
                       engineClosed, probes, contested, claimed, stopped>>

FlushAnswers ==
    /\ FlushTimer \in timers
    /\ timers' = timers \ {FlushTimer}
    /\ flushTimer' = FALSE
    /\ pendingAnswers' = {}
    /\ IF pendingAnswers = {} THEN UNCHANGED exposed
                              ELSE Send(WithAdditionals(pendingAnswers))
    /\ UNCHANGED <<control, naming, probeConflict, announcing, ready, engineClosed,
                   probes, contested, claimed, stopped>>

\* A peer probes for name n while we have not announced: the tie-break.
OnRivalProbe(n, authorities) ==
    /\ registered /\ ~closed /\ ~announcing
    /\ probeConflict' = (probeConflict \/ LosesTieBreak(records, authorities))
    /\ contested' = IF LosesTieBreak(records, authorities)
                    THEN contested \cup {instanceName} ELSE contested
    /\ UNCHANGED <<control, naming, timers, announcing, window, ready, engineClosed,
                   probes, claimed, exposed, stopped>>

\* A peer probes for name n once we announce: an immediate defence.
OnLateProbe(n, authorities) ==
    /\ registered /\ ~closed /\ announcing
    /\ LET questions == [type : {"ANY"}, name : {r.name : r \in authorities}]
           answers   == AnswersFor(questions, {})
       IN  IF answers = {} THEN UNCHANGED exposed
                           ELSE Send(WithAdditionals(answers))
    /\ UNCHANGED <<control, naming, timers, probeConflict, announcing, window, ready,
                   engineClosed, probes, contested, claimed, stopped>>

\* Mutant: questions are answered while still probing.
OnQuery_WhileProbing(q, known) ==
    /\ registered /\ ~closed
    /\ LET answers == AnswersFor({q}, known)
       IN  /\ answers # {}
           /\ pendingAnswers' = pendingAnswers \cup answers
    /\ flushTimer' = TRUE
    /\ timers' = IF flushTimer THEN timers ELSE timers \cup {FlushTimer}
    /\ UNCHANGED <<control, naming, probeConflict, announcing, ready, engineClosed, history>>

\* A plain question: its answers join the aggregation window.
OnQuery(q, known) ==
    /\ registered /\ ~closed /\ announcing
    /\ LET answers == AnswersFor({q}, known)
       IN  /\ answers # {}
           /\ pendingAnswers' = pendingAnswers \cup answers
    /\ flushTimer' = TRUE
    /\ timers' = IF flushTimer THEN timers ELSE timers \cup {FlushTimer}
    /\ UNCHANGED <<control, naming, probeConflict, announcing, ready, engineClosed, history>>

\* Mutant: a conflict in the steady state only sets the flag.
OnConflict_OnlyFlag(answer) ==
    /\ registered /\ ~closed
    /\ ConflictsWith({answer}, records)
    /\ contested' = contested \cup {instanceName}
    /\ probeConflict' = TRUE
    /\ UNCHANGED <<control, naming, timers, window, ready, probes, announcing,
                   engineClosed, claimed, exposed, stopped>>

\* A response that contradicts one of our unique records.
OnConflict(answer) ==
    /\ registered /\ ~closed
    /\ ConflictsWith({answer}, records)
    /\ contested' = contested \cup {instanceName}
    /\ \/ /\ ~announcing
          /\ probeConflict' = TRUE
          /\ UNCHANGED <<control, naming, timers, window, ready, probes>>
       \/ announcing /\ Reprobe
    /\ UNCHANGED <<announcing, engineClosed, claimed, exposed, stopped>>

\* Mutant: the goodbye covers the unique records only.
Stop_UniqueGoodbye ==
    /\ ready = "resolved" /\ ~stopped /\ ~engineClosed
    /\ stopped' = TRUE
    /\ IF closed
       THEN UNCHANGED <<control, timers, window, exposed>>
       ELSE /\ exposed' = IF announcing THEN exposed \ Unique(records) ELSE exposed
            /\ Close
    /\ UNCHANGED <<naming, probeConflict, announcing, ready, engineClosed,
                   probes, contested, claimed>>

\* handle.stop(): the handle exists once the promise has resolved.
Stop ==
    /\ ready = "resolved" /\ ~stopped /\ ~engineClosed
    /\ stopped' = TRUE
    /\ IF closed
       THEN UNCHANGED <<control, timers, window, exposed>>
       ELSE /\ exposed' = IF announcing THEN exposed \ records ELSE exposed
            /\ Close
    /\ UNCHANGED <<naming, probeConflict, announcing, ready, engineClosed,
                   probes, contested, claimed>>

\* engine.close(): the flag is set first, then every responder is stopped,
\* so that the goodbye of stop() is dropped by send().
EngineClose ==
    /\ ~engineClosed
    /\ engineClosed' = TRUE
    /\ IF registered THEN Close ELSE UNCHANGED <<control, timers, window>>
    /\ UNCHANGED <<naming, probeConflict, announcing, ready, history>>

FromPeers ==
    \/ \E n \in Names : \E authorities \in PeerProbe(n) :
          OnRivalProbe(n, authorities) \/ OnLateProbe(n, authorities)
    \/ \E q \in Question, known \in KnownAnswers : OnQuery(q, known)
    \/ \E answer \in PeerRecord : OnConflict(answer)

TimerFires == SendProbe \/ ClaimName \/ LoseName \/ Announce \/ FlushAnswers

Next == Start \/ TimerFires \/ FromPeers \/ Stop \/ EngineClose

Spec == Init /\ [][Next]_vars

\* The event loop runs every pending timer.
FairSpec == Spec /\ WF_vars(SendProbe) /\ WF_vars(ClaimName \/ LoseName)
                 /\ WF_vars(Announce) /\ WF_vars(FlushAnswers)

------------------------------------------------------------------------------
(* Properties *)

TypeOK ==
    /\ started \in BOOLEAN /\ closed \in BOOLEAN /\ registered \in BOOLEAN
    /\ instanceName \in Names
    /\ renameAttempt \in Nat
    /\ records \subseteq OurRecord
    /\ timers \subseteq TimerSet
    /\ probeConflict \in BOOLEAN /\ announcing \in BOOLEAN
    /\ pendingAnswers \subseteq OurRecord
    /\ flushTimer \in BOOLEAN
    /\ ready \in {"pending", "resolved", "rejected"}
    /\ engineClosed \in BOOLEAN
    /\ probes \in Nat
    /\ contested \subseteq Names /\ claimed \subseteq Names
    /\ exposed \subseteq OurRecord
    /\ stopped \in BOOLEAN

\* The aggregation window is open exactly while its flush timer is pending, and
\* holds answers only then: a flush timer that died with the others of a
\* re-probe would leave every later answer in the buffer (clearTimers).
WindowHasTimer ==
    /\ flushTimer <=> FlushTimer \in timers
    /\ pendingAnswers # {} => flushTimer

\* Answers buffered for the flush are records of the current name: a rename
\* never lets the old name's records out after it (reprobe, bufferAnswers).
PendingAnswersAreCurrent == pendingAnswers \subseteq records

\* The chains of probes and announcements never run side by side, and the chain
\* that is to claim the current name is never lost (beginProbe, announce, reprobe).
OneChain ==
    /\ \A t, u \in timers \ {FlushTimer} : t = u
    /\ started /\ ~closed /\ instanceName \notin claimed
          => \E t \in timers : t.fn \in {"sendProbe", "onProbeDone"}

\* No peer is sent a record before the caller's promise resolves, and one whose
\* advertisement is rejected has sent none (onQuery, onProbeDone, rename).
SilentUntilReady == ready # "resolved" => exposed = {}

\* A responder that announces a name and has heard a peer contradict it gives the
\* name up in the same step, even when a conflict comes long after the claim.
ContestedIsGivenUp == announcing /\ instanceName \in contested => closed

\* A name is announced only after its full number of probes, and never one that a
\* peer's response, or a probe that beat ours before the first claim, contests.
ClaimsAreUncontested ==
    [][\A n \in claimed' \ claimed : n \notin contested /\ probes = ProbeCount]_vars

\* stop() tells the peers to forget every record of the last name, unless the
\* responder had already given up renaming (stop, buildGoodbyeMessage).
StopWithdrawsLastName ==
    stopped /\ renameAttempt <= MaxRename => exposed \cap records = {}

\* advertise() settles, whatever the peers send: the name is claimed or the
\* renames are used up (MAX_RENAME_ATTEMPTS), unless the engine is closed first.
ReadySettles == started ~> ready # "pending" \/ engineClosed

------------------------------------------------------------------------------
(* What comments and docs say and the code does not do: see the findings *)

\* types.ts:230: stop() sends "a goodbye packet so peers remove the service
\* promptly".  A rename after the first claim leaves the old name behind.
StopWithdrawsEverything == stopped => exposed = {}

\* responder.ts:518: stop() sends a goodbye.  When engine.close() calls it, the
\* goodbye is dropped, and peers keep the records (here: of an undisturbed name).
CloseWithdraws == engineClosed /\ renameAttempt = 0 => exposed = {}
=============================================================================
