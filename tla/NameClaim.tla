----------------------------- MODULE NameClaim -----------------------------
(***************************************************************************)
(* Two responders on one link that want the same instance name: ours (the       *)
(* variables of Responder) and a rival with the same code and other records.    *)
(* The link between them keeps its order and is faster than a probe interval: a  *)
(* host's packet arrives, or is lost, before the host's next timer fires, though   *)
(* it may cross one of the other host's.  Probes of both hosts are one interval   *)
(* apart, so that of two probing hosts neither runs far ahead of the other.     *)
(***************************************************************************)
EXTENDS Responder, Sequences

CONSTANTS
    RivalData,      \* RDATA of the rival's SRV and TXT records
    RivalHost,      \* the rival's host name: ours when it is another process on it
    SameMachine,    \* both run on one machine, from where their packets come
    MaxLosses       \* bound on the packets lost

\* A host name belongs to one machine; processes of one may have several.
ASSUME RivalAssumption ==
    /\ RivalData \in Nat \ {OurData} /\ RivalHost \in Nat /\ MaxLosses \in Nat
    /\ SameMachine \in BOOLEAN /\ (RivalHost = OurHost => SameMachine)

VARIABLES
    undeclared, \* both transports were created with localAddresses: []
    started2, closed2, registered2, instanceName2, renameAttempt2, records2, timers2,
    probeConflict2, announcing2, pendingAnswers2, flushTimer2, ready2, engineClosed2,
    probes2, contested2, claimed2, exposed2, stopped2,
    link,       \* the packets under way, in order
    losses,     \* packets lost so far
    lead,       \* our timers that fired since the rival's pending one was set
    lead2       \* and the other way round

Rival == INSTANCE Responder WITH
    started <- started2, closed <- closed2, registered <- registered2,
    instanceName <- instanceName2, renameAttempt <- renameAttempt2, records <- records2,
    timers <- timers2, probeConflict <- probeConflict2, announcing <- announcing2,
    pendingAnswers <- pendingAnswers2, flushTimer <- flushTimer2, ready <- ready2,
    engineClosed <- engineClosed2, probes <- probes2, contested <- contested2,
    claimed <- claimed2, exposed <- exposed2, stopped <- stopped2,
    OurHost <- RivalHost, OurData <- RivalData, PeerData <- {OurData}

rivalVars == <<started2, closed2, registered2, instanceName2, renameAttempt2, records2,
               timers2, probeConflict2, announcing2, pendingAnswers2, flushTimer2, ready2,
               engineClosed2, probes2, contested2, claimed2, exposed2, stopped2>>

claimVars == <<vars, rivalVars, link, losses, lead, lead2, undeclared>>

ClaimInit ==
    /\ Init /\ Rival!Init /\ undeclared \in BOOLEAN
    /\ link = <<>> /\ losses = 0 /\ lead = 0 /\ lead2 = 0

Packet(to, kind, rs) == [to |-> to, kind |-> kind, records |-> rs]

\* buildProbeMessage and buildAnnounceMessage
Probe(to, rs) == Packet(to, "probe", Unique(rs))
Response(to, rs) == Packet(to, "response", rs)

\* The timers of probing (all at most probeIntervalMs): while one is pending the
\* other host's fire once, or twice if they are due at the same moment.
Probing(ts) == \E t \in ts : t.fn \in {"sendProbe", "onProbeDone"}
InStep(ts, ahead) == Probing(ts) => ahead < 2

OurTimer ==
    /\ InStep(timers2, lead) /\ lead' = (IF Probing(timers2) THEN lead + 1 ELSE 0)
    /\ lead2' = 0
    /\ \A k \in DOMAIN link : link[k].to = "ours"
    /\ \/ SendProbe /\ link' = Append(link, Probe("rival", records))
       \/ ClaimName /\ link' = Append(link, Response("rival", records))
       \/ Announce /\ link' = Append(link, Response("rival", records))
       \/ LoseName /\ UNCHANGED link
    /\ UNCHANGED <<rivalVars, losses, undeclared>>

RivalTimer ==
    /\ InStep(timers, lead2) /\ lead2' = (IF Probing(timers) THEN lead2 + 1 ELSE 0)
    /\ lead' = 0
    /\ \A k \in DOMAIN link : link[k].to = "rival"
    /\ \/ Rival!SendProbe /\ link' = Append(link, Probe("ours", records2))
       \/ Rival!ClaimName /\ link' = Append(link, Response("ours", records2))
       \/ Rival!Announce /\ link' = Append(link, Response("ours", records2))
       \/ Rival!LoseName /\ UNCHANGED link
    /\ UNCHANGED <<vars, losses, undeclared>>

\* A timer that is set anew has seen none of the other host's fire.
NewTimers ==
    /\ lead' = IF timers2' = timers2 THEN lead ELSE 0
    /\ lead2' = IF timers' = timers THEN lead2 ELSE 0

\* What stop() sends last: a goodbye with all its records, none if it is closed.
Goodbye(to, rs, isClosed) == IF isClosed THEN <<>> ELSE <<Response(to, rs)>>

CallerActs ==
    /\ \/ Start /\ UNCHANGED <<rivalVars, link>>
       \/ Rival!Start /\ UNCHANGED <<vars, link>>
       \/ Stop /\ link' = link \o Goodbye("rival", records, closed) /\ UNCHANGED rivalVars
       \/ Rival!Stop /\ link' = link \o Goodbye("ours", records2, closed2)
          /\ UNCHANGED vars
    /\ NewTimers
    /\ UNCHANGED <<losses, undeclared>>

\* The records of ours a probe asks for, all of any type.
Defence(rs, packet) ==
    {r \in rs : \E p \in packet.records : Asks([name |-> p.name, type |-> "ANY"], r)}

Replies(to, answers) == IF answers = {} THEN <<>> ELSE <<Response(to, answers)>>

\* Nothing for us in it, or nobody there.
Ignored(packet, rs, isRegistered, isClosed) ==
    \/ ~isRegistered \/ isClosed
    \/ packet.kind = "response" /\ ~ConflictsWith(packet.records, rs)

\* The engine drops a datagram whose source is one of transport.localAddresses().  By
\* default these are the machine's, and a sibling's packets are dropped with our own
\* echoes; with localAddresses: [] none is (the list is empty, or the loopback address).
FromOwnAddress == SameMachine /\ ~undeclared

\* A packet reaches ours: a probe is weighed or answered, a response may conflict.
OursReceives ==
    /\ link # <<>> /\ Head(link).to = "ours" /\ ~FromOwnAddress
    /\ \/ Head(link).kind = "probe" /\ OnRivalProbe(instanceName2, Head(link).records)
          /\ link' = Tail(link)
       \/ Head(link).kind = "probe" /\ OnLateProbe(instanceName2, Head(link).records)
          /\ link' = Tail(link) \o Replies("rival", Defence(records, Head(link)))
       \/ Head(link).kind = "response" /\ link' = Tail(link)
          /\ \E answer \in Head(link).records : OnConflict(answer)
       \/ Ignored(Head(link), records, registered, closed) /\ link' = Tail(link)
          /\ UNCHANGED vars
    /\ UNCHANGED <<rivalVars, losses, undeclared>> /\ NewTimers

RivalReceives ==
    /\ link # <<>> /\ Head(link).to = "rival" /\ ~FromOwnAddress
    /\ \/ Head(link).kind = "probe" /\ Rival!OnRivalProbe(instanceName, Head(link).records)
          /\ link' = Tail(link)
       \/ Head(link).kind = "probe" /\ Rival!OnLateProbe(instanceName, Head(link).records)
          /\ link' = Tail(link) \o Replies("ours", Defence(records2, Head(link)))
       \/ Head(link).kind = "response" /\ link' = Tail(link)
          /\ \E answer \in Head(link).records : Rival!OnConflict(answer)
       \/ Ignored(Head(link), records2, registered2, closed2) /\ link' = Tail(link)
          /\ UNCHANGED rivalVars
    /\ UNCHANGED <<vars, losses, undeclared>> /\ NewTimers

\* The datagram comes from one of the receiver's own addresses: it goes no further.
DropOwn ==
    /\ link # <<>> /\ FromOwnAddress
    /\ link' = Tail(link)
    /\ UNCHANGED <<vars, rivalVars, losses, lead, lead2, undeclared>>

Lose ==
    /\ link # <<>> /\ losses < MaxLosses
    /\ link' = Tail(link) /\ losses' = losses + 1
    /\ UNCHANGED <<vars, rivalVars, lead, lead2, undeclared>>

ClaimNext ==
    \/ OurTimer \/ RivalTimer \/ CallerActs
    \/ OursReceives \/ RivalReceives \/ DropOwn \/ Lose

\* Timers fire and packets arrive.
ClaimSpec ==
    /\ ClaimInit /\ [][ClaimNext]_claimVars
    /\ WF_claimVars(OurTimer) /\ WF_claimVars(RivalTimer)
    /\ WF_claimVars(OursReceives \/ RivalReceives \/ DropOwn)

------------------------------------------------------------------------------
(* Properties *)

Holds == ~closed /\ instanceName \in claimed
RivalHolds == ~closed2 /\ instanceName2 \in claimed2

\* Between two that hear each other, and without losses, one name never has two
\* holders, whichever starts first and however their probes and announcements
\* interleave: the tie-break has no second winner, and who starts after it was decided
\* hears the announcement (losesTieBreak, onResponse).  Siblings on one machine with
\* the default localAddresses do not hear each other, and both keep the name.
NeverBothHold ==
    ~FromOwnAddress /\ losses = 0
        => ~(Holds /\ RivalHolds /\ instanceName = instanceName2)

\* Of two processes of one host that hear each other (localAddresses: []), and without
\* losses, not both give up a name that is free: the tie-break has only one loser,
\* and the one that defends a name keeps it.  Of two hosts both may: see BothGetAName.
OneKeepsTheName ==
    ~FromOwnAddress /\ RivalHost = OurHost /\ losses = 0
        => instanceName = 0 \/ instanceName2 = 0

\* A name that two who hear each other hold after a packet was lost is given up by one
\* of them in the end: the next announcement is a conflict.
SharedNameIsGivenUp ==
    ~FromOwnAddress /\ Holds /\ RivalHolds /\ instanceName = instanceName2
        ~> ~(Holds /\ RivalHolds /\ instanceName = instanceName2)

------------------------------------------------------------------------------
(* What the conformance suite says and the code does not do: see the findings *)

\* conformance.ts:208: "two advertisers with the same name are both discovered
\* (conflict rename)".  Of two hosts that probe at the same time both lose: each
\* puts its own address records into the tie-break and leaves out the other's.
BothGetAName == losses = 0 => ready # "rejected" /\ ready2 # "rejected"
=============================================================================
