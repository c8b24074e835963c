------------------------------- MODULE Browser -------------------------------
(***************************************************************************)
(* One browse (engine/query.ts) over its record cache (engine/cache.ts):    *)
(* what a received record, an expiry or a goodbye does to the cache, to the  *)
(* instances and targets derived from it, and to the consumer's event        *)
(* stream.  onResponse handles the records of a message one at a time, in    *)
(* three passes; a step here is one record, so a message is a run of steps.   *)
(* Peers may send any record at any time.  Time is abstracted: a cached       *)
(* record may expire at any moment, and one under a goodbye does, unless it   *)
(* is refreshed first.                                                      *)
(***************************************************************************)
EXTENDS Naturals, FiniteSets

CONSTANTS
    Insts, Hosts, Ports, Addrs, Txts,   \* what records can be about
    None,                               \* null
    MaxInstances,                       \* MAX_INSTANCES
    MaxEntries                          \* MAX_CACHE_ENTRIES

ASSUME NoneAssumption == None \notin Insts \cup Hosts \cup Ports \cup Txts
ASSUME CapAssumption  == MaxInstances \in Nat /\ MaxEntries \in Nat
VARIABLES
    closed,
    cache,              \* the records of the cache's entries
    leaving,            \* those whose only timer is the one a goodbye set
    instances,          \* keys of the instances map
    info,               \* what the map holds for them
    targets,            \* keys of the targets map
    addresses,          \* target.addresses
    members,            \* target.instances
    suppressNextQuery

\* What the consumer has been told, recorded for the properties.
VARIABLES
    events,     \* the events of the last step
    view        \* per instance, the endpoint last reported

derived == <<instances, info, targets, addresses, members>>
told    == <<events, view>>
vars    == <<closed, cache, leaving, derived, suppressNextQuery, told>>

------------------------------------------------------------------------------
(* Records *)

PTR(i)       == [type |-> "PTR", name |-> "service", data |-> i]
SRV(i, p, h) == [type |-> "SRV", name |-> i, data |-> [port |-> p, host |-> h]]
TXT(i, t)    == [type |-> "TXT", name |-> i, data |-> t]
A(h, a)      == [type |-> "A", name |-> h, data |-> a]

PtrRecords == {PTR(i) : i \in Insts}
SrvRecords == {SRV(i, p, h) : i \in Insts, p \in Ports, h \in Hosts}
TxtRecords == {TXT(i, t) : i \in Insts, t \in Txts}
AddressRecords == {A(h, a) : h \in Hosts, a \in Addrs}
Record == PtrRecords \cup SrvRecords \cup TxtRecords \cup AddressRecords

\* An instance just found: nothing but its name is known.
Unknown == [port |-> None, target |-> None, txt |-> None, resolved |-> FALSE]

\* The passes of onResponse: a PTR of the service is always of interest, the
\* others only for instances and targets already known.
OfInterest(r) ==
    \/ r.type = "PTR"
    \/ r.type \in {"SRV", "TXT"} /\ r.name \in instances
    \/ r.type = "A" /\ r.name \in targets

------------------------------------------------------------------------------
(* The cache *)

Siblings(r) == {s \in cache : s.type = r.type /\ s.name = r.name /\ s # r}

\* What a record with the cache-flush bit supersedes.
Flushed(r, flush) == IF flush THEN Siblings(r) ELSE {}

\* Mutant: the cap lets one record too many in.
Admits_OneMore(r, flush) ==
    r \in cache \/ Cardinality(cache \ Flushed(r, flush)) <= MaxEntries

\* A full cache refuses new records but refreshes the ones it has.
Admits(r, flush) ==
    r \in cache \/ Cardinality(cache \ Flushed(r, flush)) < MaxEntries

------------------------------------------------------------------------------
(* Events *)

Event(kind, i, target, port) ==
    [kind |-> kind, inst |-> i, host |-> target, port |-> port]

NoEndpoint == [host |-> None, port |-> None]

\* Push events, at most one of a kind per instance: the events of one record
\* about an instance differ at most in their addresses and TXT, left out here.
Emit(evs) ==
    /\ events' = evs
    /\ view' = [i \in Insts |->
                  IF \E e \in evs : e.inst = i
                  THEN LET e == CHOOSE e \in evs : e.inst = i
                       IN  IF e.kind = "removed" THEN NoEndpoint
                           ELSE [host |-> e.host, port |-> e.port]
                  ELSE view[i]]

Updated(i) == Event("updated", i, info[i].target, info[i].port)

------------------------------------------------------------------------------
(* What an added or removed record does to the derived state *)

\* discoverInstance: refused beyond the cap, and then never looked at again.
Discover(i) ==
    IF i \in instances \/ Cardinality(instances) >= MaxInstances
    THEN Emit({}) /\ UNCHANGED derived
    ELSE /\ instances' = instances \cup {i}
         /\ info' = [info EXCEPT ![i] = Unknown]
         /\ Emit({Event("found", i, None, None)})
         /\ UNCHANGED <<targets, addresses, members>>

\* Mutant: the instance stays a member of the target it leaves.
Pointing_Stays(i, h) ==
    [g \in Hosts |-> IF g = h THEN members[g] \cup {i} ELSE members[g]]

\* The members of every target once instance i points to host h (or to none).
Pointing(i, h) ==
    [g \in Hosts |-> IF g = h THEN members[g] \cup {i}
                     ELSE IF g = info[i].target THEN members[g] \ {i}
                     ELSE members[g]]

RemoveInstance(i) ==
    IF i \notin instances
    THEN Emit({}) /\ UNCHANGED derived
    ELSE /\ instances' = instances \ {i}
         /\ info' = [info EXCEPT ![i] = Unknown]
         /\ members' = Pointing(i, None)
         /\ Emit({Event("removed", i, info[i].target, info[i].port)})
         /\ UNCHANGED <<targets, addresses>>

SrvEvent(i, p, h) ==
    Event(IF info[i].resolved THEN "updated" ELSE "resolved", i, h, p)

\* Mutant: a changed endpoint of a resolved instance is not reported.
SrvEvents_FirstOnly(i, p, h) ==
    IF addresses[h] # {} /\ ~info[i].resolved THEN {SrvEvent(i, p, h)} ELSE {}

\* Mutant: every new endpoint is reported as the first.
SrvEvents_AlwaysResolved(i, p, h) ==
    IF addresses[h] # {} THEN {Event("resolved", i, h, p)} ELSE {}

\* markResolved: nothing is said while the host has no address.
SrvEvents(i, p, h) == IF addresses[h] # {} THEN {SrvEvent(i, p, h)} ELSE {}

\* onSrv for an added record: the endpoint is set, and announced once the host
\* has an address.  A superseded SRV record has gone silently just before.
SetEndpoint(i, p, h) ==
    IF i \notin instances
    THEN Emit({}) /\ UNCHANGED derived
    ELSE /\ info' = [info EXCEPT ![i].port = p, ![i].target = h,
                                 ![i].resolved = @ \/ addresses[h] # {}]
         /\ targets' = targets \cup {h}
         /\ members' = Pointing(i, h)
         /\ Emit(SrvEvents(i, p, h))
         /\ UNCHANGED <<instances, addresses>>

\* onSrv for a removed record: no event, and resolved stays as it is.
LoseEndpoint(i) ==
    IF i \notin instances
    THEN Emit({}) /\ UNCHANGED derived
    ELSE /\ info' = [info EXCEPT ![i].port = None, ![i].target = None]
         /\ members' = Pointing(i, None)
         /\ Emit({})
         /\ UNCHANGED <<instances, targets, addresses>>

\* onTxt, t being None for a removed record.
SetTxt(i, t) ==
    IF i \notin instances
    THEN Emit({}) /\ UNCHANGED derived
    ELSE /\ info' = [info EXCEPT ![i].txt = t]
         /\ Emit(IF info[i].resolved THEN {Updated(i)} ELSE {})
         /\ UNCHANGED <<instances, targets, addresses, members>>

\* Mutant: a new address resolves nobody.
Waiting_Never(h, as) == {}

\* The members of h that its addresses resolve.
Waiting(h, as) ==
    {i \in members[h] : ~info[i].resolved /\ info[i].port # None /\ as # {}}

\* onAddress: every instance of the host is updated, or resolved if it waited
\* for its first address.
SetAddresses(h, as) ==
    LET waiting == Waiting(h, as)
        known   == {i \in members[h] : info[i].resolved}
    IN  /\ addresses' = [addresses EXCEPT ![h] = as]
        /\ info' = [i \in Insts |-> IF i \in waiting
                                    THEN [info[i] EXCEPT !.resolved = TRUE] ELSE info[i]]
        /\ Emit({Updated(i) : i \in known} \cup
                {Event("resolved", i, info[i].target, info[i].port) : i \in waiting})
        /\ UNCHANGED <<instances, targets, members>>

------------------------------------------------------------------------------
(* Actions *)

Init ==
    /\ closed = FALSE /\ cache = {} /\ leaving = {}
    /\ instances = {} /\ info = [i \in Insts |-> Unknown]
    /\ targets = {} /\ addresses = [h \in Hosts |-> {}] /\ members = [h \in Hosts |-> {}]
    /\ suppressNextQuery = FALSE
    /\ events = {}
    /\ view = [i \in Insts |-> NoEndpoint]

\* A cached record is received again: new timers, and no event for itself.
\* The siblings it flushes are removed.
Refresh(r, flush) ==
    /\ ~closed /\ OfInterest(r) /\ r \in cache
    /\ cache' = cache \ Flushed(r, flush)
    /\ leaving' = leaving \ (Flushed(r, flush) \cup {r})
    /\ IF Flushed(r, flush) = {}
       THEN Emit({}) /\ UNCHANGED derived
       ELSE \/ r.type = "SRV" /\ LoseEndpoint(r.name)
            \/ r.type = "TXT" /\ SetTxt(r.name, None)
            \/ r.type = "A" /\ SetAddresses(r.name, {r.data})
    /\ UNCHANGED <<closed, suppressNextQuery>>

\* Mutant: flushed addresses leave the cache without an event.
Surviving_All(r, flush) == addresses[r.name]

\* The addresses of a host that a new one joins.
Surviving(r, flush) == IF flush THEN {} ELSE addresses[r.name]

\* A new record: its siblings are flushed if it says so, then it is added.
Learn(r, flush) ==
    /\ ~closed /\ OfInterest(r) /\ r \notin cache
    /\ Admits(r, flush)
    /\ cache' = (cache \ Flushed(r, flush)) \cup {r}
    /\ leaving' = leaving \ Flushed(r, flush)
    /\ \/ r.type = "PTR" /\ Discover(r.data)
       \/ r.type = "SRV" /\ SetEndpoint(r.name, r.data.port, r.data.host)
       \/ r.type = "TXT" /\ SetTxt(r.name, r.data)
       \/ r.type = "A" /\ SetAddresses(r.name, {r.data} \cup Surviving(r, flush))
    /\ UNCHANGED <<closed, suppressNextQuery>>

\* A goodbye (TTL 0) for a cached record: only its prompt removal is scheduled, anew
\* with each goodbye (see BrowserTimers).
Goodbye(r) ==
    /\ ~closed /\ OfInterest(r) /\ r \in cache
    /\ leaving' = leaving \cup {r}
    /\ Emit({})
    /\ UNCHANGED <<closed, cache, derived, suppressNextQuery>>

\* A record's time is up; its removal is an event.
Expire(r) ==
    /\ r \in cache
    /\ cache' = cache \ {r}
    /\ leaving' = leaving \ {r}
    /\ \/ r.type = "PTR" /\ RemoveInstance(r.data)
       \/ r.type = "SRV" /\ LoseEndpoint(r.name)
       \/ r.type = "TXT" /\ SetTxt(r.name, None)
       \/ r.type = "A" /\ SetAddresses(r.name, addresses[r.name] \ {r.data})
    /\ UNCHANGED <<closed, suppressNextQuery>>

ExpireLeaving(r) == r \in leaving /\ Expire(r)

\* Another host asks our question with no known answers: ours can wait.
OnQuery ==
    /\ ~closed
    /\ suppressNextQuery' = TRUE
    /\ Emit({})
    /\ UNCHANGED <<closed, cache, leaving, derived>>

\* The scheduled PTR query: skipped once if another host has just asked.
QueryTimer ==
    /\ ~closed
    /\ suppressNextQuery' = FALSE
    /\ Emit({})
    /\ UNCHANGED <<closed, cache, leaving, derived>>

\* close(): timers and cache go, the instances and targets stay unread.
Close ==
    /\ ~closed
    /\ closed' = TRUE
    /\ cache' = {} /\ leaving' = {}
    /\ Emit({})
    /\ UNCHANGED <<derived, suppressNextQuery>>

\* A PTR is shared and carries no cache-flush bit.  One that does all the same, which add()
\* would honour, is left out.
FlushBits(r) == IF r.type = "PTR" THEN {FALSE} ELSE BOOLEAN

Next ==
    \/ \E r \in Record : \E flush \in FlushBits(r) : Learn(r, flush) \/ Refresh(r, flush)
    \/ \E r \in Record : Goodbye(r) \/ Expire(r)
    \/ OnQuery \/ QueryTimer \/ Close

Spec == Init /\ [][Next]_vars

------------------------------------------------------------------------------
(* Properties *)

Endpoint == [host : Hosts \cup {None}, port : Ports \cup {None}]

TypeOK ==
    /\ closed \in BOOLEAN
    /\ cache \subseteq Record
    /\ leaving \subseteq cache
    /\ instances \subseteq Insts
    /\ info \in [Insts -> [port : Ports \cup {None}, target : Hosts \cup {None},
                           txt : Txts \cup {None}, resolved : BOOLEAN]]
    /\ targets \subseteq Hosts
    /\ addresses \in [Hosts -> SUBSET Addrs]
    /\ members \in [Hosts -> SUBSET Insts]
    /\ suppressNextQuery \in BOOLEAN
    /\ events \subseteq [kind : {"found", "resolved", "updated", "removed"}, inst : Insts,
                         host : Hosts \cup {None}, port : Ports \cup {None}]
    /\ view \in [Insts -> Endpoint]

\* While the browse runs, nothing that was derived outlives the record it came
\* from: an instance its PTR, an endpoint its SRV, the TXT attributes their
\* record; and a host's addresses are exactly those cached (onCacheEvent).
DerivedFromCache ==
    ~closed =>
        /\ \A i \in instances : PTR(i) \in cache
        /\ \A i \in instances :
              /\ info[i].port # None => SRV(i, info[i].port, info[i].target) \in cache
              /\ info[i].txt # None => TXT(i, info[i].txt) \in cache
        /\ \A h \in Hosts : addresses[h] = {a \in Addrs : A(h, a) \in cache}

\* The two directions of the instance/target relation agree: an address event
\* reaches every instance of its host and no other (onSrv, removeInstance).
MembersMatch ==
    \A h \in Hosts : members[h] = {i \in instances : info[i].target = h}

\* A flood of records fills neither map beyond its cap (issue #21).
WithinCaps ==
    /\ Cardinality(instances) <= MaxInstances
    /\ Cardinality(cache) <= MaxEntries

\* An instance whose host has an address does not wait: whichever of the SRV and
\* the address came last, and however often either was lost, it is resolved.
NoneLeftWaiting ==
    \A i \in instances :
        info[i].target # None /\ addresses[info[i].target] # {} => info[i].resolved

\* Whenever a connection is possible at all, the consumer has been told of the
\* current endpoint, though SRV records are removed without an event.
ConsumerKnowsEndpoint ==
    \A i \in instances :
        info[i].target # None /\ addresses[info[i].target] # {}
            => view[i] = [host |-> info[i].target, port |-> info[i].port]

\* How far an instance has come, as the browser's own state has it.
Progress ==
    [i \in Insts |-> IF i \notin instances THEN "absent"
                     ELSE IF info[i].resolved THEN "resolved" ELSE "found"]

Contract == INSTANCE ServiceLifecycle WITH
    phase <- Progress, reports <- {<<e.inst, e.kind>> : e \in events}

\* Every step of the browser is a step of the contract: events come in the
\* promised order, and each tells of a change in the browser's own state.
KeepsContract == Contract!Spec

------------------------------------------------------------------------------
(* What comments and docs say and the code does not do: see the findings *)

\* types.ts:151: a resolved or updated announcement guarantees non-null host
\* and port.
NonNullEndpoint ==
    \A e \in events :
        e.kind \in {"resolved", "updated"} => e.host # None /\ e.port # None

\* query.ts:362: an instance is resolved once its host, port and at least one
\* address are known.  One that is found again while its SRV is still cached
\* stays unresolved even when the SRV it asked for arrives: for the cache that
\* is a mere refresh, and no event.
KnownServiceResolves ==
    [][\A r \in SrvRecords : Refresh(r, FALSE) /\ addresses[r.data.host] # {}
          => info'[r.name].resolved]_vars
=============================================================================
