----------------------------- MODULE Discovery -----------------------------
(***************************************************************************)
(* A browse (Browser) and the advertised service it discovers, joined by the     *)
(* messages of the engine over a link that keeps its order and may lose some.    *)
(* What Browser leaves open is here: when the browse asks, which known answers   *)
(* it sends, what the responder answers, and when a cached record expires.       *)
(* Time is a count of ticks, each longer than a delivery, an aggregation window  *)
(* or the gap between two announcements: what is due happens before the next.    *)
(* Probing and names are module Responder's.                                    *)
(***************************************************************************)
EXTENDS Browser, Sequences

CONSTANTS
    TtlHost, TtlShared,     \* TTL_HOST and TTL_SHARED
    Requeries,              \* the re-queries at 80, 85, 90 and 95% of a lifetime
    GoodbyeGrace,           \* goodbyeGraceMs
    QueryIntervalMax,       \* queryIntervalMaxMs
    AnnounceCount,
    MaxStarts, MaxLosses    \* bounds: starts of the service, messages lost

ASSUME TimeAssumption ==
    /\ {TtlHost, TtlShared, Requeries, GoodbyeGrace, QueryIntervalMax} \subseteq Nat \ {0}
    /\ GoodbyeGrace < TtlHost /\ TtlHost <= TtlShared /\ Requeries < TtlHost
    /\ {AnnounceCount, MaxStarts, MaxLosses} \subseteq Nat

\* One service: one instance, which the cap lets in, on one host, with one SRV record.
ASSUME ServiceAssumption ==
    /\ \E i \in Insts : Insts = {i}
    /\ \E h \in Hosts : Hosts = {h}
    /\ \E p \in Ports : Ports = {p}
    /\ \A s, t \in Txts : s = t
    /\ MaxInstances > 0

Inst == CHOOSE i \in Insts : TRUE
Host == CHOOSE h \in Hosts : TRUE

VARIABLES
    left,           \* per cached record, the ticks its removal timer has left
    due,            \* cached records with a re-query timer that is due
    inbox,          \* what the handler still has to do of a response
    queryIn, queryInterval,         \* the timer of the PTR query
    queries, responses,             \* the link, either way
    service,        \* new, up, stopped (with a goodbye) or crashed
    announcements,  \* announcements still to be sent
    pending         \* the responder's aggregation window

\* History, for the properties.
VARIABLES
    starts, losses,
    since,          \* ticks since the service last changed
    missing         \* ticks the service has been up and unknown to the browse

clocks == <<left, due, queryIn, queryInterval>>
link == <<queries, responses>>
responder == <<service, announcements, pending>>
history == <<starts, losses, since, missing>>
discoveryVars == <<vars, clocks, inbox, link, responder, history>>

Unaffected == Emit({}) /\ UNCHANGED <<closed, cache, leaving, derived, suppressNextQuery>>

\* Nothing happens to the browser; a message it has begun to handle it has finished.
Idle == inbox = {} /\ Unaffected

------------------------------------------------------------------------------
(* Messages *)

Ttl(r) == IF r.type = "PTR" THEN TtlShared ELSE TtlHost

\* Records as a message carries them, with their lifetime.
Carried(rs) == {[rec |-> r, ttl |-> Ttl(r)] : r \in rs}
Withdrawn(rs) == {[rec |-> r, ttl |-> 0] : r \in rs}

\* sendQuery: the known answers are the cached records as they were received.
KnownAnswers(types) ==
    IF "PTR" \in types THEN Carried(cache \cap PtrRecords) ELSE {}

Query(types) == [types |-> types, known |-> KnownAnswers(types)]

\* rebuildRecords: what the service consists of.
Own ==
    {PTR(Inst)} \cup {SRV(Inst, p, Host) : p \in Ports} \cup {TXT(Inst, t) : t \in Txts}
      \cup {A(Host, a) : a \in Addrs}

\* answersFor: what a query asks for, but for the answers its sender knows and has
\* at least half of the lifetime of.
Answers(query) ==
    {r \in Own : /\ r.type \in query.types
                 /\ ~ \E k \in query.known : k.rec = r /\ 2 * k.ttl >= Ttl(r)}

\* additionalsFor: with a PTR goes everything needed to connect.
Additionals(answers) ==
    IF \E r \in answers : r.type = "PTR" THEN Own \ answers ELSE {}

------------------------------------------------------------------------------
(* The browse's side *)

\* Every record of the message is handled in one call, PTR records first, then SRV
\* and TXT, then the addresses: nothing else happens to the browse meanwhile.
Pass(r) == CASE r.type = "PTR" -> 1 [] r.type \in {"SRV", "TXT"} -> 2 [] OTHER -> 3

ReceiveResponse ==
    /\ responses # <<>>
    /\ inbox' = Head(responses) /\ responses' = Tail(responses)
    /\ Idle
    /\ UNCHANGED <<clocks, queries, responder, history>>

\* The unique records carry the cache-flush bit.
FlushBit(r) == r.type # "PTR"

\* A record that is not looked at, or has nothing to withdraw.
Ignored(m) == ~OfInterest(m.rec) \/ (m.ttl = 0 /\ m.rec \notin cache)

\* A new lifetime for one record; the flushed ones have none left.
Renewed(m) == [r \in cache' |-> IF r = m.rec THEN m.ttl ELSE left[r]]

\* The questions that follow from a new record: discoverInstance and onSrv.
FollowUp(r) ==
    IF r.type = "PTR" /\ r.data \notin instances THEN <<Query({"SRV", "TXT"})>>
    ELSE IF r.type = "SRV" /\ (info[r.name].target # r.data.host \/ Siblings(r) # {})
         THEN <<Query({"A"})>> ELSE <<>>

\* Mutant: a goodbye leaves the timers of the record's lifetime as they are.
LeftAfterGoodbye_Same(r) == left

\* scheduleGoodbye
LeftAfterGoodbye(r) == [left EXCEPT ![r] = GoodbyeGrace]

Handle(m) ==
    /\ m \in inbox /\ \A n \in inbox : Pass(m.rec) <= Pass(n.rec)
    /\ inbox' = inbox \ {m}
    /\ \/ Ignored(m) /\ Unaffected /\ UNCHANGED <<left, due, queries>>
       \/ /\ m.ttl = 0 /\ Goodbye(m.rec)
          /\ left' = LeftAfterGoodbye(m.rec) /\ due' = due \ {m.rec}
          /\ UNCHANGED queries
       \/ /\ m.ttl > 0 /\ Refresh(m.rec, FlushBit(m.rec))
          /\ left' = Renewed(m) /\ due' = (due \cap cache') \ {m.rec}
          /\ UNCHANGED queries
       \/ /\ m.ttl > 0 /\ Learn(m.rec, FlushBit(m.rec))
          /\ left' = Renewed(m) /\ due' = due \cap cache'
          /\ queries' = queries \o FollowUp(m.rec)
    /\ UNCHANGED <<queryIn, queryInterval, responses, responder, history>>

\* onRequery: a timer at 80 to 95% of a lifetime asks for the record again.
Requery(r) ==
    /\ r \in due
    /\ due' = due \ {r}
    /\ queries' = Append(queries, Query({r.type}))
    /\ Idle
    /\ UNCHANGED <<left, queryIn, queryInterval, inbox, responses, responder, history>>

TimeIsUp(r) ==
    /\ inbox = {} /\ r \in cache /\ left[r] = 0
    /\ Expire(r)
    /\ left' = [s \in cache' |-> left[s]] /\ due' = due \ {r}
    /\ UNCHANGED <<queryIn, queryInterval, inbox, link, responder, history>>

\* Mutant: the interval grows without end.
NextInterval_Uncapped(interval) == 2 * interval

NextInterval(interval) ==
    IF 2 * interval < QueryIntervalMax THEN 2 * interval ELSE QueryIntervalMax

\* sendPtrQuery and scheduleNextQuery; no other host asks, so that none is suppressed.
PtrQuery ==
    /\ inbox = {} /\ queryIn = 0
    /\ QueryTimer
    /\ queries' = Append(queries, Query({"PTR"}))
    /\ queryIn' = queryInterval /\ queryInterval' = NextInterval(queryInterval)
    /\ UNCHANGED <<left, due, inbox, responses, responder, history>>

------------------------------------------------------------------------------
(* The responder's side *)

\* The name is claimed: announcing begins.
ServiceStarts ==
    /\ service # "up" /\ starts < MaxStarts
    /\ service' = "up" /\ announcements' = AnnounceCount /\ pending' = {}
    /\ starts' = starts + 1 /\ since' = 0
    /\ Idle /\ UNCHANGED <<clocks, inbox, link, losses, missing>>

Announcement ==
    /\ announcements > 0 /\ announcements' = announcements - 1
    /\ responses' = Append(responses, Carried(Own))
    /\ Idle /\ UNCHANGED <<clocks, inbox, queries, service, pending, history>>

ReceiveQuery ==
    /\ queries # <<>> /\ queries' = Tail(queries)
    /\ pending' = IF service = "up" THEN pending \cup Answers(Head(queries)) ELSE {}
    /\ Idle /\ UNCHANGED <<clocks, inbox, responses, service, announcements, history>>

\* flushAnswers
SendAnswers ==
    /\ pending # {} /\ pending' = {}
    /\ responses' = Append(responses, Carried(pending \cup Additionals(pending)))
    /\ Idle /\ UNCHANGED <<clocks, inbox, queries, service, announcements, history>>

\* stop(): the goodbye goes out, the timers and the window go.
ServiceStops ==
    /\ service = "up" /\ service' = "stopped"
    /\ announcements' = 0 /\ pending' = {}
    /\ responses' = Append(responses, Withdrawn(Own))
    /\ since' = 0 /\ missing' = 0
    /\ Idle /\ UNCHANGED <<clocks, inbox, queries, starts, losses>>

ServiceCrashes ==
    /\ service = "up" /\ service' = "crashed"
    /\ announcements' = 0 /\ pending' = {}
    /\ since' = 0 /\ missing' = 0
    /\ Idle /\ UNCHANGED <<clocks, inbox, link, starts, losses>>

------------------------------------------------------------------------------
(* The link and the time *)

LoseQuery ==
    /\ queries # <<>> /\ losses < MaxLosses
    /\ queries' = Tail(queries) /\ losses' = losses + 1
    /\ Idle /\ UNCHANGED <<clocks, inbox, responses, responder, starts, since, missing>>

LoseResponse ==
    /\ responses # <<>> /\ losses < MaxLosses
    /\ responses' = Tail(responses) /\ losses' = losses + 1
    /\ Idle /\ UNCHANGED <<clocks, inbox, queries, responder, starts, since, missing>>

\* Nothing is due, and nothing under way.
Quiet ==
    /\ queries = <<>> /\ responses = <<>>
    /\ announcements = 0 /\ pending = {}
    /\ due = {} /\ queryIn > 0 /\ \A r \in cache : left[r] > 0

\* Mutant: one re-query, at the end of the lifetime.
DueAt_Once(ticks) == ticks = 1

\* The last ticks of a lifetime, each with a re-query.
DueAt(ticks) == ticks \in 1..Requeries

\* A count of ticks that goes no further than the properties look.
Count(ticks) == IF ticks > TtlShared THEN ticks ELSE ticks + 1

Tick ==
    /\ Quiet
    /\ left' = [r \in cache |-> left[r] - 1]
    /\ due' = {r \in cache \ leaving : DueAt(left[r] - 1)}
    /\ queryIn' = queryIn - 1
    /\ since' = Count(since)
    /\ missing' = IF service = "up" /\ Inst \notin instances THEN missing + 1 ELSE 0
    /\ Idle /\ UNCHANGED <<queryInterval, inbox, link, responder, starts, losses>>

------------------------------------------------------------------------------

DiscoveryInit ==
    /\ Init
    /\ left = [r \in {} |-> 0] /\ due = {} /\ inbox = {}
    /\ queryIn = 0 /\ queryInterval = 1
    /\ queries = <<>> /\ responses = <<>>
    /\ service = "new" /\ announcements = 0 /\ pending = {}
    /\ starts = 0 /\ losses = 0 /\ since = 0 /\ missing = 0

DiscoveryNext ==
    \/ ReceiveResponse \/ (\E m \in inbox : Handle(m))
    \/ (\E r \in cache : Requery(r) \/ TimeIsUp(r)) \/ PtrQuery
    \/ ServiceStarts \/ Announcement \/ ReceiveQuery \/ SendAnswers
    \/ ServiceStops \/ ServiceCrashes
    \/ LoseQuery \/ LoseResponse \/ Tick

DiscoverySpec == DiscoveryInit /\ [][DiscoveryNext]_discoveryVars

------------------------------------------------------------------------------
(* Properties *)

\* A service that has gone is forgotten: at once if its goodbye arrived, and at the
\* end of its records' lifetime if it said nothing or nothing was heard, whatever
\* re-queries, answers and restarts came between (scheduleGoodbye, expire).
GoneIsForgotten ==
    /\ service \in {"stopped", "crashed"} /\ since > TtlShared => Inst \notin instances
    /\ service = "stopped" /\ losses = 0 /\ since > GoodbyeGrace => Inst \notin instances

\* Fewer lost messages than there are re-queries never cost a service that is up
\* its endpoint: SRV, TXT and addresses are renewed before they expire.
RenewedWhileUp ==
    [][\A r \in Own \ {PTR(Inst)} :
         r \in cache /\ r \notin cache' /\ Inst \in instances
           /\ service = "up" /\ since >= TtlHost => losses >= Requeries]_discoveryVars

\* A service that is up is not unknown for longer than the longest interval
\* between two queries, and one more for each message lost.
FoundWithinInterval == missing <= QueryIntervalMax * (losses + 1)

------------------------------------------------------------------------------
(* What comments say and the code does not do: see the findings *)

\* cache.ts:149: "Re-query at ~80/85/90/95% of the lifetime (RFC 6762 5.2)", so
\* that a service that is up, whose messages all arrive, is not removed.
KnownWhileUp ==
    service = "up" /\ losses = 0 /\ since > GoodbyeGrace
      => ~ \E e \in events : e.kind = "removed"

\* All the addresses of the host are known when a whole announcement has arrived.
AllAddressesKnown ==
    Quiet /\ service = "up" /\ losses = 0 /\ Inst \in instances
      => addresses[Host] = Addrs
=============================================================================
