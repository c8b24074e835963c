---------------------------- MODULE BrowserProofs ----------------------------
(***************************************************************************)
(* Proofs about Browser, for any instances, hosts, ports, addresses, TXT    *)
(* records and caps.  The derived state is only touched by six operators     *)
(* (what an added or removed record does), so each has one lemma: it keeps   *)
(* the derived state in shape and is a step of the consumer's contract.      *)
(* What remains for the actions is the cache.                               *)
(*                                                                         *)
(* The second part is about Discovery: however its messages are lost, a      *)
(* browse forgets a service that has gone, and finds one that is up.  Both are *)
(* statements about one record, the PTR of the service, which the browse has   *)
(* exactly when it has the instance; so the invariants follow that record,    *)
(* from the query that asks for it to the timer that ends it.                 *)
(***************************************************************************)
EXTENDS Discovery, FiniteSetTheorems, SequenceTheorems, TLAPS

\* The endpoint of an instance is known as a whole or not at all.
EndpointWhole == \A i \in Insts : info[i].port = None <=> info[i].target = None

\* What holds of the derived state whatever the cache holds.
Shape ==
    /\ EndpointWhole
    /\ MembersMatch
    /\ NoneLeftWaiting
    /\ ConsumerKnowsEndpoint

\* The part of the type invariant about the derived state and the consumer.
DerivedTyped ==
    /\ instances \subseteq Insts
    /\ info \in [Insts -> [port : Ports \cup {None}, target : Hosts \cup {None},
                           txt : Txts \cup {None}, resolved : BOOLEAN]]
    /\ targets \subseteq Hosts
    /\ addresses \in [Hosts -> SUBSET Addrs]
    /\ members \in [Hosts -> SUBSET Insts]
    /\ events \subseteq [kind : {"found", "resolved", "updated", "removed"}, inst : Insts,
                         host : Hosts \cup {None}, port : Ports \cup {None}]
    /\ view \in [Insts -> Endpoint]

\* A closed cache is empty and stays so.
ClosedIsEmpty == closed => cache = {}

BInv == TypeOK /\ Shape /\ DerivedFromCache /\ ClosedIsEmpty

ContractStep == [Contract!Next]_<<Progress, {<<e.inst, e.kind>> : e \in events}>>

------------------------------------------------------------------------------
(* Records of the different types *)

LEMMA RecordFields ==
    /\ \A i \in Insts : /\ PTR(i) \in Record
                        /\ PTR(i).type = "PTR" /\ PTR(i).name = "service" /\ PTR(i).data = i
    /\ \A i \in Insts, p \in Ports, h \in Hosts :
          /\ SRV(i, p, h) \in Record
          /\ SRV(i, p, h).type = "SRV" /\ SRV(i, p, h).name = i
          /\ SRV(i, p, h).data.port = p /\ SRV(i, p, h).data.host = h
    /\ \A i \in Insts, t \in Txts :
          /\ TXT(i, t) \in Record
          /\ TXT(i, t).type = "TXT" /\ TXT(i, t).name = i /\ TXT(i, t).data = t
    /\ \A h \in Hosts, a \in Addrs :
          /\ A(h, a) \in Record
          /\ A(h, a).type = "A" /\ A(h, a).name = h /\ A(h, a).data = a
<1>1. \A i \in Insts : PTR(i) \in Record
  BY DEF Record, PtrRecords
<1>2. \A i \in Insts, p \in Ports, h \in Hosts : SRV(i, p, h) \in Record
  BY DEF Record, SrvRecords
<1>3. \A i \in Insts, t \in Txts : TXT(i, t) \in Record
  BY DEF Record, TxtRecords
<1>4. \A h \in Hosts, a \in Addrs : A(h, a) \in Record
  BY DEF Record, AddressRecords
<1> QED
  BY <1>1, <1>2, <1>3, <1>4 DEF PTR, SRV, TXT, A

LEMMA RecordCases ==
    ASSUME NEW r \in Record
    PROVE  \/ r.type = "PTR" /\ r.data \in Insts /\ r = PTR(r.data)
           \/ /\ r.type = "SRV" /\ r.name \in Insts
              /\ r.data.port \in Ports /\ r.data.host \in Hosts
              /\ r = SRV(r.name, r.data.port, r.data.host)
           \/ r.type = "TXT" /\ r.name \in Insts /\ r.data \in Txts /\ r = TXT(r.name, r.data)
           \/ r.type = "A" /\ r.name \in Hosts /\ r.data \in Addrs /\ r = A(r.name, r.data)
BY DEF Record, PtrRecords, SrvRecords, TxtRecords, AddressRecords, PTR, SRV, TXT, A

------------------------------------------------------------------------------
(* What the consumer is told *)

LEMMA EmitNothing ==
    ASSUME DerivedTyped, Emit({})
    PROVE  view' = view /\ events' = {}
BY DEF DerivedTyped, Emit

\* One event about one instance.
LEMMA EmitOne ==
    ASSUME DerivedTyped, NEW i \in Insts, NEW kind, NEW h, NEW p,
           Emit({Event(kind, i, h, p)})
    PROVE  /\ events' = {Event(kind, i, h, p)}
           /\ view' = [view EXCEPT ![i] =
                          IF kind = "removed" THEN NoEndpoint ELSE [host |-> h, port |-> p]]
<1> DEFINE e == Event(kind, i, h, p)
<1>1. /\ e.inst = i /\ e.kind = kind /\ e.host = h /\ e.port = p
  BY DEF Event
<1>2. (CHOOSE x \in {e} : x.inst = i) = e
  BY <1>1
<1>3. \A j \in Insts : view'[j] =
          IF j = i THEN IF kind = "removed" THEN NoEndpoint ELSE [host |-> h, port |-> p]
          ELSE view[j]
  BY <1>1, <1>2, Zenon DEF Emit
<1>4. /\ view' = [j \in Insts |-> view'[j]]
      /\ events' = {e}
  BY DEF Emit
<1> QED
  BY <1>3, <1>4 DEF DerivedTyped

\* The contract sees the step of each instance by itself.
LEMMA ContractByInstance ==
    ASSUME DerivedTyped,
           \A i \in Insts :
              Contract!Legal({k \in Contract!Kind : \E e \in events' : e.inst = i /\ e.kind = k},
                             Progress[i], Progress'[i])
    PROVE  ContractStep
<1>1. Progress' \in [Insts -> Contract!Phase]
  BY DEF Progress, Contract!Phase
<1>2. \A i \in Insts :
         {k \in Contract!Kind : <<i, k>> \in {<<e.inst, e.kind>> : e \in events'}}
            = {k \in Contract!Kind : \E e \in events' : e.inst = i /\ e.kind = k}
  OBVIOUS
<1> QED
  BY <1>1, <1>2, Zenon DEF ContractStep, Contract!Next

\* A step without an event that leaves every instance as far as it was.
LEMMA SilentContract ==
    ASSUME DerivedTyped, events' = {},
           \A i \in Insts : Progress'[i] = Progress[i]
    PROVE  ContractStep
<1>1. \A i \in Insts :
         {k \in Contract!Kind : \E e \in events' : e.inst = i /\ e.kind = k} = {}
  OBVIOUS
<1> QED
  BY <1>1, ContractByInstance, Zenon DEF Contract!Legal

\* A step with one event about one instance.
LEMMA OneEventContract ==
    ASSUME DerivedTyped, NEW i \in Insts, NEW kind \in Contract!Kind, NEW h, NEW p,
           events' = {Event(kind, i, h, p)},
           Contract!Legal({kind}, Progress[i], Progress'[i]),
           \A j \in Insts \ {i} : Progress'[j] = Progress[j]
    PROVE  ContractStep
<1>1. {k \in Contract!Kind : \E e \in events' : e.inst = i /\ e.kind = k} = {kind}
  BY DEF Event
<1>2. \A j \in Insts \ {i} :
         {k \in Contract!Kind : \E e \in events' : e.inst = j /\ e.kind = k} = {}
  BY DEF Event
<1>3. \A j \in Insts \ {i} : Contract!Legal({}, Progress[j], Progress'[j])
  BY DEF Contract!Legal
<1>4. ASSUME NEW j \in Insts
      PROVE  Contract!Legal(
            {k \in Contract!Kind : \E e \in events' : e.inst = j /\ e.kind = k},
            Progress[j], Progress'[j])
  <2>1. CASE j = i
    BY <1>1, <2>1, Zenon
  <2>2. CASE j # i
    <3>1. {k \in Contract!Kind : \E e \in events' : e.inst = j /\ e.kind = k} = {}
      BY <1>2, <2>2
    <3> QED
      BY <1>3, <2>2, <3>1, Zenon
  <2> QED
    BY <2>1, <2>2
<1> QED
  BY <1>4, ContractByInstance, Zenon

\* Nothing happens to the derived state.
LEMMA NoStep ==
    ASSUME DerivedTyped, Shape, Emit({}), UNCHANGED derived
    PROVE  DerivedTyped' /\ Shape' /\ ContractStep
<1>1. view' = view /\ events' = {}
  BY EmitNothing
<1>2. DerivedTyped' /\ Shape'
  BY <1>1 DEF DerivedTyped, Shape, derived, EndpointWhole, MembersMatch,
              NoneLeftWaiting, ConsumerKnowsEndpoint
<1>3. \A i \in Insts : Progress'[i] = Progress[i]
  BY DEF derived, Progress
<1>4. ContractStep
  BY <1>1, <1>3, SilentContract
<1> QED
  BY <1>2, <1>4

------------------------------------------------------------------------------
(* The six operators on the derived state *)

\* A new instance is found and nothing is known of it yet.
LEMMA DiscoverStep ==
    ASSUME DerivedTyped, Shape, NEW i \in Insts, Discover(i)
    PROVE  DerivedTyped' /\ Shape' /\ ContractStep
<1>1. CASE i \in instances \/ Cardinality(instances) >= MaxInstances
  BY <1>1, NoStep DEF Discover
<1>2. CASE ~(i \in instances \/ Cardinality(instances) >= MaxInstances)
  <2>1. /\ i \notin instances
        /\ instances' = instances \cup {i}
        /\ info' = [info EXCEPT ![i] = Unknown]
        /\ Emit({Event("found", i, None, None)})
        /\ targets' = targets /\ addresses' = addresses /\ members' = members
    BY <1>2 DEF Discover
  <2>2. /\ events' = {Event("found", i, None, None)}
        /\ view' = [view EXCEPT ![i] = NoEndpoint]
    BY <2>1, EmitOne DEF NoEndpoint
  <2>3. DerivedTyped'
    BY <2>1, <2>2 DEF DerivedTyped, Unknown, Event, Endpoint, NoEndpoint
  <2>4. /\ info'[i] = Unknown
        /\ \A j \in Insts \ {i} : info'[j] = info[j]
        /\ Unknown.port = None /\ Unknown.target = None /\ ~Unknown.resolved
    BY <2>1 DEF DerivedTyped, Unknown
  <2>5. EndpointWhole'
    BY <2>4 DEF Shape, EndpointWhole
  <2>6. MembersMatch'
    BY <2>1, <2>4, NoneAssumption DEF Shape, MembersMatch, DerivedTyped
  <2>7. NoneLeftWaiting' /\ ConsumerKnowsEndpoint'
    BY <2>1, <2>2, <2>4 DEF Shape, NoneLeftWaiting, ConsumerKnowsEndpoint, DerivedTyped
  <2>8. ContractStep
    <3>1. /\ Progress[i] = "absent" /\ Progress'[i] = "found"
          /\ \A j \in Insts \ {i} : Progress'[j] = Progress[j]
      BY <2>1, <2>4 DEF Progress
    <3>2. "found" \in Contract!Kind /\ Contract!Legal({"found"}, "absent", "found")
      BY DEF Contract!Kind, Contract!Legal
    <3> QED
      BY <2>2, <3>1, <3>2, OneEventContract
  <2> QED
    BY <2>3, <2>5, <2>6, <2>7, <2>8 DEF Shape
<1> QED
  BY <1>1, <1>2

\* An instance that goes leaves its target and is reported as gone.
LEMMA RemoveInstanceStep ==
    ASSUME DerivedTyped, Shape, NEW i \in Insts, RemoveInstance(i)
    PROVE  DerivedTyped' /\ Shape' /\ ContractStep
<1>1. CASE i \notin instances
  BY <1>1, NoStep DEF RemoveInstance
<1>2. CASE i \in instances
  <2>1. /\ instances' = instances \ {i}
        /\ info' = [info EXCEPT ![i] = Unknown]
        /\ members' = Pointing(i, None)
        /\ Emit({Event("removed", i, info[i].target, info[i].port)})
        /\ targets' = targets /\ addresses' = addresses
    BY <1>2 DEF RemoveInstance
  <2>2. /\ events' = {Event("removed", i, info[i].target, info[i].port)}
        /\ view' = [view EXCEPT ![i] = NoEndpoint]
    BY <2>1, EmitOne
  <2>3. DerivedTyped'
    BY <2>1, <2>2 DEF DerivedTyped, Unknown, Event, Endpoint, NoEndpoint, Pointing
  <2>4. /\ info'[i] = Unknown
        /\ \A j \in Insts \ {i} : info'[j] = info[j]
        /\ Unknown.port = None /\ Unknown.target = None /\ ~Unknown.resolved
    BY <2>1 DEF DerivedTyped, Unknown
  <2>5. EndpointWhole'
    BY <2>4 DEF Shape, EndpointWhole
  <2>6. MembersMatch'
    BY <2>1, <2>4, NoneAssumption DEF Shape, MembersMatch, DerivedTyped, Pointing
  <2>7. NoneLeftWaiting' /\ ConsumerKnowsEndpoint'
    BY <2>1, <2>2, <2>4 DEF Shape, NoneLeftWaiting, ConsumerKnowsEndpoint, DerivedTyped
  <2>8. ContractStep
    <3>1. /\ Progress[i] # "absent" /\ Progress'[i] = "absent"
          /\ \A j \in Insts \ {i} : Progress'[j] = Progress[j]
      BY <1>2, <2>1, <2>4 DEF Progress
    <3>2. /\ "removed" \in Contract!Kind
          /\ Contract!Legal({"removed"}, Progress[i], "absent")
      BY <3>1 DEF Contract!Kind, Contract!Legal
    <3> QED
      BY <2>2, <3>1, <3>2, OneEventContract
  <2> QED
    BY <2>3, <2>5, <2>6, <2>7, <2>8 DEF Shape
<1> QED
  BY <1>1, <1>2

\* An added SRV record: the instance points to a host, and is reported with it
\* as soon as the host has an address.
LEMMA SetEndpointStep ==
    ASSUME DerivedTyped, Shape, NEW i \in Insts, NEW p \in Ports, NEW h \in Hosts,
           SetEndpoint(i, p, h)
    PROVE  DerivedTyped' /\ Shape' /\ ContractStep
<1>1. CASE i \notin instances
  BY <1>1, NoStep DEF SetEndpoint
<1>2. CASE i \in instances
  <2>1. /\ info' = [info EXCEPT ![i].port = p, ![i].target = h,
                                ![i].resolved = @ \/ addresses[h] # {}]
        /\ targets' = targets \cup {h}
        /\ members' = Pointing(i, h)
        /\ Emit(SrvEvents(i, p, h))
        /\ instances' = instances /\ addresses' = addresses
    BY <1>2 DEF SetEndpoint
  <2>2. /\ info'[i].port = p /\ info'[i].target = h
        /\ info'[i].resolved = (info[i].resolved \/ addresses[h] # {})
        /\ \A j \in Insts \ {i} : info'[j] = info[j]
        /\ p # None /\ h # None
    BY <2>1, NoneAssumption DEF DerivedTyped
  <2>t. info' \in [Insts -> [port : Ports \cup {None}, target : Hosts \cup {None},
                            txt : Txts \cup {None}, resolved : BOOLEAN]]
    <3> DEFINE InfoOf == [port : Ports \cup {None}, target : Hosts \cup {None},
                          txt : Txts \cup {None}, resolved : BOOLEAN]
    <3>1. info \in [Insts -> InfoOf] /\ info[i] \in InfoOf
      BY DEF DerivedTyped
    <3>2. CASE info[i].resolved \/ addresses[h] # {}
      BY <2>1, <3>1, <3>2
    <3>3. CASE ~(info[i].resolved \/ addresses[h] # {})
      BY <2>1, <3>1, <3>3
    <3> QED
      BY <3>2, <3>3
  <2>3. EndpointWhole'
    BY <2>2 DEF Shape, EndpointWhole
  <2>4. MembersMatch'
    BY <1>2, <2>1, <2>2, NoneAssumption DEF Shape, MembersMatch, DerivedTyped, Pointing
  <2>5. NoneLeftWaiting'
    BY <2>1, <2>2 DEF Shape, NoneLeftWaiting, DerivedTyped
  <2>6. CASE addresses[h] = {}
    <3>1. view' = view /\ events' = {}
      BY <2>1, <2>6, EmitNothing DEF SrvEvents
    <3>2. DerivedTyped'
      BY <2>1, <2>t, <3>1 DEF DerivedTyped, Pointing
    <3>3. ConsumerKnowsEndpoint'
      BY <2>1, <2>2, <2>6, <3>1 DEF Shape, ConsumerKnowsEndpoint, DerivedTyped
    <3>4. \A j \in Insts : Progress'[j] = Progress[j]
      BY <2>1, <2>2, <2>6 DEF Progress
    <3> QED
      BY <2>3, <2>4, <2>5, <3>1, <3>2, <3>3, <3>4, SilentContract DEF Shape
  <2>7. CASE addresses[h] # {}
    <3> DEFINE kind == IF info[i].resolved THEN "updated" ELSE "resolved"
    <3>1. SrvEvents(i, p, h) = {Event(kind, i, h, p)}
      BY <2>7 DEF SrvEvents, SrvEvent
    <3>2. /\ events' = {Event(kind, i, h, p)}
          /\ view' = [view EXCEPT ![i] = [host |-> h, port |-> p]]
      BY <2>1, <3>1, EmitOne
    <3>3. DerivedTyped'
      BY <2>1, <2>t, <3>2 DEF DerivedTyped, Pointing, Event, Endpoint
    <3>4. ConsumerKnowsEndpoint'
      BY <2>1, <2>2, <3>2 DEF Shape, ConsumerKnowsEndpoint, DerivedTyped
    <3>5. /\ Progress[i] = IF info[i].resolved THEN "resolved" ELSE "found"
          /\ Progress'[i] = "resolved"
          /\ \A j \in Insts \ {i} : Progress'[j] = Progress[j]
      BY <1>2, <2>1, <2>2, <2>7 DEF Progress
    <3>6. kind \in Contract!Kind /\ Contract!Legal({kind}, Progress[i], Progress'[i])
      BY <3>5 DEF Contract!Kind, Contract!Legal
    <3>7. ContractStep
      BY <3>2, <3>5, <3>6, OneEventContract
    <3> QED
      BY <2>3, <2>4, <2>5, <3>3, <3>4, <3>7 DEF Shape
  <2> QED
    BY <2>6, <2>7
<1> QED
  BY <1>1, <1>2

\* A removed SRV record: the instance points nowhere, in silence.
LEMMA LoseEndpointStep ==
    ASSUME DerivedTyped, Shape, NEW i \in Insts, LoseEndpoint(i)
    PROVE  DerivedTyped' /\ Shape' /\ ContractStep
<1>1. CASE i \notin instances
  BY <1>1, NoStep DEF LoseEndpoint
<1>2. CASE i \in instances
  <2>1. /\ info' = [info EXCEPT ![i].port = None, ![i].target = None]
        /\ members' = Pointing(i, None)
        /\ view' = view /\ events' = {}
        /\ instances' = instances /\ targets' = targets /\ addresses' = addresses
    BY <1>2, EmitNothing DEF LoseEndpoint
  <2>2. /\ info'[i].port = None /\ info'[i].target = None
        /\ info'[i].resolved = info[i].resolved
        /\ \A j \in Insts \ {i} : info'[j] = info[j]
    BY <2>1 DEF DerivedTyped
  <2>3. DerivedTyped'
    BY <2>1 DEF DerivedTyped, Pointing
  <2>4. EndpointWhole' /\ NoneLeftWaiting' /\ ConsumerKnowsEndpoint'
    BY <2>1, <2>2 DEF Shape, EndpointWhole, NoneLeftWaiting, ConsumerKnowsEndpoint,
                      DerivedTyped
  <2>5. MembersMatch'
    BY <1>2, <2>1, <2>2, NoneAssumption DEF Shape, MembersMatch, DerivedTyped, Pointing
  <2>6. \A j \in Insts : Progress'[j] = Progress[j]
    BY <2>1, <2>2 DEF Progress
  <2> QED
    BY <2>1, <2>3, <2>4, <2>5, <2>6, SilentContract DEF Shape
<1> QED
  BY <1>1, <1>2

\* A TXT record added or removed: an update, for an instance that is resolved.
LEMMA SetTxtStep ==
    ASSUME DerivedTyped, Shape, NEW i \in Insts, NEW t \in Txts \cup {None}, SetTxt(i, t)
    PROVE  DerivedTyped' /\ Shape' /\ ContractStep
<1>1. CASE i \notin instances
  BY <1>1, NoStep DEF SetTxt
<1>2. CASE i \in instances
  <2>1. /\ info' = [info EXCEPT ![i].txt = t]
        /\ Emit(IF info[i].resolved THEN {Updated(i)} ELSE {})
        /\ instances' = instances /\ targets' = targets
        /\ addresses' = addresses /\ members' = members
    BY <1>2 DEF SetTxt
  <2>2. \A j \in Insts : /\ info'[j].port = info[j].port
                         /\ info'[j].target = info[j].target
                         /\ info'[j].resolved = info[j].resolved
    BY <2>1 DEF DerivedTyped
  <2>3. EndpointWhole' /\ MembersMatch' /\ NoneLeftWaiting'
    BY <2>1, <2>2 DEF Shape, EndpointWhole, MembersMatch, NoneLeftWaiting, DerivedTyped
  <2>4. \A j \in Insts : Progress'[j] = Progress[j]
    BY <2>1, <2>2 DEF Progress
  <2>5. CASE ~info[i].resolved
    <3>1. view' = view /\ events' = {}
      BY <2>1, <2>5, EmitNothing
    <3>2. DerivedTyped'
      BY <2>1, <3>1 DEF DerivedTyped
    <3>3. ConsumerKnowsEndpoint'
      BY <2>1, <2>2, <3>1 DEF Shape, ConsumerKnowsEndpoint, DerivedTyped
    <3> QED
      BY <2>3, <2>4, <3>1, <3>2, <3>3, SilentContract DEF Shape
  <2>6. CASE info[i].resolved
    <3>1. /\ events' = {Event("updated", i, info[i].target, info[i].port)}
          /\ view' = [view EXCEPT ![i] = [host |-> info[i].target, port |-> info[i].port]]
      BY <2>1, <2>6, EmitOne DEF Updated
    <3>2. DerivedTyped'
      <4>1. events' \subseteq [kind : {"found", "resolved", "updated", "removed"}, inst : Insts,
                               host : Hosts \cup {None}, port : Ports \cup {None}]
        BY <3>1 DEF DerivedTyped, Event
      <4>2. view' \in [Insts -> Endpoint]
        BY <3>1 DEF DerivedTyped, Endpoint
      <4>3. info' \in [Insts -> [port : Ports \cup {None}, target : Hosts \cup {None},
                                 txt : Txts \cup {None}, resolved : BOOLEAN]]
        BY <2>1 DEF DerivedTyped
      <4> QED
        BY <2>1, <4>1, <4>2, <4>3 DEF DerivedTyped
    <3>3. ConsumerKnowsEndpoint'
      BY <2>1, <2>2, <3>1 DEF Shape, ConsumerKnowsEndpoint, DerivedTyped
    <3>4. Progress[i] = "resolved"
      BY <1>2, <2>6 DEF Progress
    <3>5. "updated" \in Contract!Kind /\ Contract!Legal({"updated"}, Progress[i], Progress'[i])
      BY <2>4, <3>4 DEF Contract!Kind, Contract!Legal
    <3>6. ContractStep
      BY <2>4, <3>1, <3>5, OneEventContract
    <3> QED
      BY <2>3, <3>2, <3>3, <3>6 DEF Shape
  <2> QED
    BY <2>5, <2>6
<1> QED
  BY <1>1, <1>2

\* The addresses of a host change: each of its instances is updated or resolved.
LEMMA SetAddressesStep ==
    ASSUME DerivedTyped, Shape, NEW h \in Hosts, NEW as \in SUBSET Addrs,
           SetAddresses(h, as)
    PROVE  DerivedTyped' /\ Shape' /\ ContractStep
<1> DEFINE waiting == Waiting(h, as)
           known   == {i \in members[h] : info[i].resolved}
           evs     == {Updated(i) : i \in known} \cup
                      {Event("resolved", i, info[i].target, info[i].port) : i \in waiting}
<1>1. /\ addresses' = [addresses EXCEPT ![h] = as]
      /\ info' = [i \in Insts |-> IF i \in waiting
                                  THEN [info[i] EXCEPT !.resolved = TRUE] ELSE info[i]]
      /\ Emit(evs)
      /\ instances' = instances /\ targets' = targets /\ members' = members
  BY DEF SetAddresses
<1>m. /\ members[h] = {i \in instances : info[i].target = h}
      /\ members[h] \subseteq Insts /\ h # None
  BY NoneAssumption DEF DerivedTyped, Shape, MembersMatch
<1>w. /\ waiting \subseteq members[h] /\ known \subseteq members[h]
      /\ \A i \in waiting : as # {} /\ ~info[i].resolved
      /\ \A i \in known : info[i].resolved
  BY DEF Waiting
<1>x. \A i \in members[h] : i \in known \/ i \in waiting \/ as = {}
  <2> SUFFICES ASSUME NEW i \in members[h], ~info[i].resolved, as # {}
               PROVE  i \in waiting
    OBVIOUS
  <2>1. info[i].port # None
    BY <1>m DEF Shape, EndpointWhole
  <2> QED
    BY <2>1 DEF Waiting
<1>e. /\ \A i \in known : Updated(i) \in evs
      /\ \A i \in waiting : Event("resolved", i, info[i].target, info[i].port) \in evs
      /\ \A e \in evs : \/ \E i \in known : e = Updated(i)
                        \/ \E i \in waiting :
                              e = Event("resolved", i, info[i].target, info[i].port)
  OBVIOUS
<1> HIDE DEF waiting, known, evs
<1>2. /\ waiting \subseteq Insts /\ known \subseteq Insts
      /\ waiting \cap known = {}
      /\ \A i \in waiting \cup known : i \in instances /\ info[i].target = h
  BY <1>m, <1>w
<1>3. \A i \in Insts : /\ info'[i].port = info[i].port
                       /\ info'[i].target = info[i].target
                       /\ i \in waiting => info'[i].resolved
                       /\ i \notin waiting => info'[i] = info[i]
  BY <1>1 DEF DerivedTyped
<1>4. \A e \in evs : /\ e.inst \in waiting \cup known
                     /\ e.host = info[e.inst].target /\ e.port = info[e.inst].port
                     /\ e.inst \in waiting => e.kind = "resolved"
                     /\ e.inst \in known => e.kind = "updated"
                     /\ e \in [kind : {"resolved", "updated"}, inst : {e.inst},
                               host : {info[e.inst].target}, port : {info[e.inst].port}]
  <2> SUFFICES ASSUME NEW e \in evs
               PROVE  /\ e.inst \in waiting \cup known
                      /\ e.host = info[e.inst].target /\ e.port = info[e.inst].port
                      /\ e.inst \in waiting => e.kind = "resolved"
                      /\ e.inst \in known => e.kind = "updated"
                      /\ e \in [kind : {"resolved", "updated"}, inst : {e.inst},
                               host : {info[e.inst].target}, port : {info[e.inst].port}]
    OBVIOUS
  <2>1. CASE \E i \in known : e = Updated(i)
    BY <1>2, <2>1 DEF Updated, Event
  <2>2. CASE \E i \in waiting : e = Event("resolved", i, info[i].target, info[i].port)
    BY <1>2, <2>2 DEF Event
  <2> QED
    BY <1>e, <2>1, <2>2
<1>5. \A i \in waiting \cup known : \E e \in evs : e.inst = i
  BY <1>e DEF Updated, Event
<1>6. \A i \in Insts : view'[i] =
         IF i \in waiting \cup known THEN [host |-> info[i].target, port |-> info[i].port]
                                     ELSE view[i]
  <2> SUFFICES ASSUME NEW i \in Insts
               PROVE  view'[i] = IF i \in waiting \cup known
                                 THEN [host |-> info[i].target, port |-> info[i].port]
                                 ELSE view[i]
    OBVIOUS
  <2>1. CASE i \notin waiting \cup known
    BY <1>1, <1>4, <2>1, Zenon DEF Emit
  <2>2. CASE i \in waiting \cup known
    <3> DEFINE e == CHOOSE x \in evs : x.inst = i
    <3>1. e \in evs /\ e.inst = i
      BY <1>5, <2>2
    <3>2. e.kind # "removed" /\ e.host = info[i].target /\ e.port = info[i].port
      BY <1>4, <3>1
    <3>3. view'[i] = [host |-> e.host, port |-> e.port]
      BY <1>1, <1>5, <2>2, <3>2, Zenon DEF Emit
    <3> QED
      BY <2>2, <3>2, <3>3, Zenon
  <2> QED
    BY <2>1, <2>2
<1>7. events' = evs
  BY <1>1 DEF Emit
<1>8. DerivedTyped'
  <2>1. view' \in [Insts -> Endpoint]
    <3>1. view' = [i \in Insts |-> view'[i]]
      BY <1>1 DEF Emit
    <3>2. \A i \in Insts : view'[i] \in Endpoint
      <4> SUFFICES ASSUME NEW i \in Insts PROVE view'[i] \in Endpoint
        OBVIOUS
      <4>1. view[i] \in Endpoint
        BY DEF DerivedTyped
      <4>2. [host |-> info[i].target, port |-> info[i].port] \in Endpoint
        BY DEF DerivedTyped, Endpoint
      <4> QED
        BY <1>6, <4>1, <4>2
    <3> QED
      BY <3>1, <3>2, Zenon
  <2>2. events' \subseteq [kind : {"found", "resolved", "updated", "removed"}, inst : Insts,
                           host : Hosts \cup {None}, port : Ports \cup {None}]
    BY <1>2, <1>4, <1>7 DEF DerivedTyped
  <2>3. info' \in [Insts -> [port : Ports \cup {None}, target : Hosts \cup {None},
                             txt : Txts \cup {None}, resolved : BOOLEAN]]
    BY <1>1 DEF DerivedTyped
  <2> QED
    BY <1>1, <2>1, <2>2, <2>3 DEF DerivedTyped
<1>9. EndpointWhole' /\ MembersMatch'
  <2>1. EndpointWhole'
    BY <1>3 DEF Shape, EndpointWhole
  <2>2. MembersMatch'
    BY <1>1, <1>3 DEF Shape, MembersMatch, DerivedTyped
  <2> QED
    BY <2>1, <2>2
<1>r. \A i \in instances :
         info[i].target # None /\ addresses'[info[i].target] # {}
            => \/ i \in waiting \cup known
               \/ info[i].target # h /\ addresses[info[i].target] # {}
  BY <1>1, <1>m, <1>x DEF DerivedTyped
<1>10. NoneLeftWaiting'
  <2> SUFFICES ASSUME NEW i \in instances, info[i].target # None,
                      addresses'[info[i].target] # {}
               PROVE  info'[i].resolved
    BY <1>1, <1>3 DEF NoneLeftWaiting, DerivedTyped
  <2>1. i \in Insts
    BY DEF DerivedTyped
  <2>2. CASE i \in waiting
    BY <1>3, <2>1, <2>2
  <2>3. CASE i \notin waiting
    <3>1. info'[i] = info[i]
      BY <1>3, <2>1, <2>3
    <3>2. info[i].resolved
      BY <1>r, <1>w, <2>3 DEF Shape, NoneLeftWaiting
    <3> QED
      BY <3>1, <3>2
  <2> QED
    BY <2>2, <2>3
<1>11. ConsumerKnowsEndpoint'
  <2>0. \A i \in instances : /\ info'[i].port = info[i].port
                             /\ info'[i].target = info[i].target
    BY <1>3 DEF DerivedTyped
  <2> SUFFICES ASSUME NEW i \in instances, info[i].target # None,
                      addresses'[info[i].target] # {}
               PROVE  view'[i] = [host |-> info[i].target, port |-> info[i].port]
    BY <1>1, <2>0 DEF ConsumerKnowsEndpoint
  <2>1. i \in Insts
    BY DEF DerivedTyped
  <2>2. CASE i \in waiting \cup known
    BY <1>6, <2>1, <2>2
  <2>3. CASE i \notin waiting \cup known
    BY <1>6, <1>r, <2>1, <2>3 DEF Shape, ConsumerKnowsEndpoint
  <2> QED
    BY <2>2, <2>3
<1>12. ContractStep
  <2> SUFFICES ASSUME NEW i \in Insts
               PROVE  Contract!Legal(
                         {k \in Contract!Kind : \E e \in events' : e.inst = i /\ e.kind = k},
                         Progress[i], Progress'[i])
    BY ContractByInstance
  <2> DEFINE kinds == {k \in Contract!Kind : \E e \in events' : e.inst = i /\ e.kind = k}
  <2>1. CASE i \in waiting
    <3>1. kinds = {"resolved"}
      <4>1. \A e \in events' : e.inst = i => e.kind = "resolved"
        BY <1>4, <1>7, <2>1
      <4>2. \E e \in events' : e.inst = i
        BY <1>5, <1>7, <2>1
      <4>3. "resolved" \in Contract!Kind
        BY DEF Contract!Kind
      <4> QED
        BY <4>1, <4>2, <4>3
    <3>2. Progress[i] = "found" /\ Progress'[i] = "resolved"
      <4>1. i \in instances /\ ~info[i].resolved /\ info'[i].resolved /\ i \in instances'
        BY <1>1, <1>2, <1>3, <1>w, <2>1
      <4> QED
        BY <4>1 DEF Progress
    <3> QED
      BY <3>1, <3>2, Zenon DEF Contract!Legal
  <2>2. CASE i \in known
    <3>1. kinds = {"updated"}
      <4>1. \A e \in events' : e.inst = i => e.kind = "updated"
        BY <1>4, <1>7, <2>2
      <4>2. \E e \in events' : e.inst = i
        BY <1>5, <1>7, <2>2
      <4>3. "updated" \in Contract!Kind
        BY DEF Contract!Kind
      <4> QED
        BY <4>1, <4>2, <4>3
    <3>2. Progress[i] = "resolved" /\ Progress'[i] = "resolved"
      <4>1. i \in instances /\ info[i].resolved /\ info'[i].resolved /\ i \in instances'
        BY <1>1, <1>2, <1>3, <1>w, <2>2
      <4> QED
        BY <4>1 DEF Progress
    <3> QED
      BY <3>1, <3>2, Zenon DEF Contract!Legal
  <2>3. CASE i \notin waiting \cup known
    <3>1. kinds = {}
      BY <1>4, <1>7, <2>3
    <3>2. Progress'[i] = Progress[i]
      BY <1>1, <1>3, <2>3 DEF Progress
    <3> QED
      BY <3>1, <3>2, Zenon DEF Contract!Legal
  <2> QED
    BY <2>1, <2>2, <2>3
<1> QED
  BY <1>8, <1>9, <1>10, <1>11, <1>12 DEF Shape

------------------------------------------------------------------------------
(* The cache and what is derived from it *)

\* The cache once r has been received: r, and all that r does not flush.
LEMMA CacheAfter ==
    ASSUME NEW r, NEW flush \in BOOLEAN,
           cache' = (cache \ Flushed(r, flush)) \cup {r}
    PROVE  /\ r \in cache'
           /\ \A x \in cache : x.type # r.type \/ x.name # r.name \/ ~flush => x \in cache'
           /\ \A x \in cache' : x \in cache \/ x = r
           /\ flush => \A x \in cache' : x.type = r.type /\ x.name = r.name => x = r
BY DEF Flushed, Siblings

\* Records of different kinds or about different things are different.
LEMMA PtrsApart ==
    \A i \in Insts : \A x : x.type # "PTR" => PTR(i) # x
BY DEF PTR

\* The instances keep their PTR records, endpoints and TXT: enough that the
\* records they rest on stay and that nothing new is claimed of them.
LEMMA InstancesKept ==
    ASSUME TypeOK, DerivedFromCache, ~closed, NEW i \in instances,
           info'[i] = info[i],
           \A x \in cache : x.name = i \/ x.type = "PTR" => x \in cache'
    PROVE  /\ PTR(i) \in cache'
           /\ info'[i].port # None => SRV(i, info'[i].port, info'[i].target) \in cache'
           /\ info'[i].txt # None => TXT(i, info'[i].txt) \in cache'
BY DEF DerivedFromCache, PTR, SRV, TXT

\* A host keeps its addresses as long as its records stay and no new ones come.
LEMMA AddressesKept ==
    ASSUME DerivedFromCache, ~closed, NEW h \in Hosts,
           addresses'[h] = addresses[h],
           \A x : x.type = "A" /\ x.name = h => (x \in cache' <=> x \in cache)
    PROVE  addresses'[h] = {a \in Addrs : A(h, a) \in cache'}
<1>1. \A a \in Addrs : A(h, a) \in cache' <=> A(h, a) \in cache
  BY DEF A
<1> QED
  BY <1>1 DEF DerivedFromCache

\* The records of removed kind lose only what was derived from them.  A removed
\* SRV or TXT record takes the endpoint or the attributes along, whichever of
\* several records of the instance it was.
LEMMA LoseEndpointDerived ==
    ASSUME TypeOK, DerivedFromCache, ~closed, NEW i \in Insts, LoseEndpoint(i),
           \A x \in cache : x.type # "SRV" \/ x.name # i => x \in cache',
           \A x : x.type = "A" => (x \in cache' <=> x \in cache)
    PROVE  DerivedFromCache'
<1>1. /\ instances' = instances /\ addresses' = addresses
      /\ \A j \in instances \ {i} : info'[j] = info[j]
      /\ i \in instances => info'[i].port = None /\ info'[i].txt = info[i].txt
  BY DEF LoseEndpoint, derived, TypeOK
<1>2. \A j \in instances \ {i} :
         /\ PTR(j) \in cache'
         /\ info'[j].port # None => SRV(j, info'[j].port, info'[j].target) \in cache'
         /\ info'[j].txt # None => TXT(j, info'[j].txt) \in cache'
  BY <1>1, InstancesKept
<1>3. i \in instances => /\ PTR(i) \in cache'
                         /\ info[i].txt # None => TXT(i, info[i].txt) \in cache'
  BY DEF DerivedFromCache, PTR, TXT
<1>4. \A h \in Hosts : addresses'[h] = {a \in Addrs : A(h, a) \in cache'}
  BY <1>1, AddressesKept
<1> QED
  BY <1>1, <1>2, <1>3, <1>4 DEF DerivedFromCache

LEMMA LoseTxtDerived ==
    ASSUME TypeOK, DerivedFromCache, ~closed, NEW i \in Insts, SetTxt(i, None),
           \A x \in cache : x.type # "TXT" \/ x.name # i => x \in cache',
           \A x : x.type = "A" => (x \in cache' <=> x \in cache)
    PROVE  DerivedFromCache'
<1>1. /\ instances' = instances /\ addresses' = addresses
      /\ \A j \in instances \ {i} : info'[j] = info[j]
      /\ i \in instances => /\ info'[i].txt = None
                            /\ info'[i].port = info[i].port
                            /\ info'[i].target = info[i].target
  BY DEF SetTxt, derived, TypeOK
<1>2. \A j \in instances \ {i} :
         /\ PTR(j) \in cache'
         /\ info'[j].port # None => SRV(j, info'[j].port, info'[j].target) \in cache'
         /\ info'[j].txt # None => TXT(j, info'[j].txt) \in cache'
  BY <1>1, InstancesKept
<1>3. i \in instances =>
         /\ PTR(i) \in cache'
         /\ info[i].port # None => SRV(i, info[i].port, info[i].target) \in cache'
  BY DEF DerivedFromCache, PTR, SRV
<1>4. \A h \in Hosts : addresses'[h] = {a \in Addrs : A(h, a) \in cache'}
  BY <1>1, AddressesKept
<1> QED
  BY <1>1, <1>2, <1>3, <1>4 DEF DerivedFromCache

LEMMA AddressesDerived ==
    ASSUME TypeOK, DerivedFromCache, ~closed, NEW h \in Hosts, NEW as \in SUBSET Addrs,
           SetAddresses(h, as),
           \A x \in cache : x.type # "A" => x \in cache',
           \A x : x.type = "A" /\ x.name # h => (x \in cache' <=> x \in cache),
           \A a \in Addrs : A(h, a) \in cache' <=> a \in as
    PROVE  DerivedFromCache'
<1>1. /\ instances' = instances
      /\ addresses' = [addresses EXCEPT ![h] = as]
      /\ \A i \in Insts : /\ info'[i].port = info[i].port
                          /\ info'[i].target = info[i].target
                          /\ info'[i].txt = info[i].txt
  BY DEF SetAddresses, TypeOK
<1>2. \A i \in instances :
         /\ PTR(i) \in cache'
         /\ info'[i].port # None => SRV(i, info'[i].port, info'[i].target) \in cache'
         /\ info'[i].txt # None => TXT(i, info'[i].txt) \in cache'
  BY <1>1 DEF DerivedFromCache, TypeOK, PTR, SRV, TXT
<1>3. \A g \in Hosts \ {h} : addresses'[g] = {a \in Addrs : A(g, a) \in cache'}
  BY <1>1, AddressesKept DEF TypeOK
<1>4. addresses'[h] = {a \in Addrs : A(h, a) \in cache'}
  BY <1>1 DEF TypeOK
<1> QED
  BY <1>1, <1>2, <1>3, <1>4 DEF DerivedFromCache

LEMMA LearnDerived ==
    ASSUME BInv, NEW r \in Record, NEW flush \in FlushBits(r), Learn(r, flush)
    PROVE  DerivedFromCache'
<1>1. /\ ~closed /\ ~closed' /\ OfInterest(r)
      /\ cache' = (cache \ Flushed(r, flush)) \cup {r}
      /\ flush \in BOOLEAN /\ DerivedFromCache /\ TypeOK
  BY DEF Learn, FlushBits, BInv
<1>2. /\ r \in cache'
      /\ \A x \in cache : x.type # r.type \/ x.name # r.name \/ ~flush => x \in cache'
      /\ \A x \in cache' : x \in cache \/ x = r
      /\ flush => \A x \in cache' : x.type = r.type /\ x.name = r.name => x = r
  BY <1>1, CacheAfter
<1>3. \A h \in Hosts : \A x : x.type = "A" /\ x.name = h /\ (r.type # "A" \/ h # r.name)
                              => (x \in cache' <=> x \in cache)
  BY <1>2
<1>4. CASE r.type = "PTR"
  <2>1. ~flush /\ Discover(r.data)
    BY <1>4 DEF Learn, FlushBits
  <2>2. /\ r.data \in Insts /\ r = PTR(r.data)
    BY <1>4, RecordCases
  <2>3. /\ instances' \subseteq instances \cup {r.data}
        /\ \A i \in instances : info'[i] = info[i]
        /\ \A i \in instances' \ instances :
              info'[i].port = None /\ info'[i].txt = None
        /\ addresses' = addresses
    BY <1>1, <2>1, <2>2 DEF Discover, derived, Unknown, TypeOK
  <2>4. \A i \in instances :
           /\ PTR(i) \in cache'
           /\ info'[i].port # None => SRV(i, info'[i].port, info'[i].target) \in cache'
           /\ info'[i].txt # None => TXT(i, info'[i].txt) \in cache'
    BY <1>1, <1>2, <2>1, <2>3, InstancesKept
  <2>5. \A h \in Hosts : addresses'[h] = {a \in Addrs : A(h, a) \in cache'}
    BY <1>1, <1>3, <1>4, <2>3, AddressesKept
  <2> QED
    BY <1>2, <2>2, <2>3, <2>4, <2>5 DEF DerivedFromCache
<1>5. CASE r.type = "SRV"
  <2>1. /\ r.name \in Insts /\ r.data.port \in Ports /\ r.data.host \in Hosts
        /\ r = SRV(r.name, r.data.port, r.data.host)
        /\ SetEndpoint(r.name, r.data.port, r.data.host)
        /\ r.name \in instances
    BY <1>1, <1>5, RecordCases DEF Learn, OfInterest
  <2>2. /\ instances' = instances /\ addresses' = addresses
        /\ \A i \in instances \ {r.name} : info'[i] = info[i]
        /\ info'[r.name].port = r.data.port /\ info'[r.name].target = r.data.host
        /\ info'[r.name].txt = info[r.name].txt
    BY <1>1, <2>1 DEF SetEndpoint, TypeOK
  <2>3. \A i \in instances \ {r.name} :
           /\ PTR(i) \in cache'
           /\ info'[i].port # None => SRV(i, info'[i].port, info'[i].target) \in cache'
           /\ info'[i].txt # None => TXT(i, info'[i].txt) \in cache'
    BY <1>1, <1>2, <1>5, <2>2, InstancesKept
  <2>4. /\ PTR(r.name) \in cache'
        /\ info'[r.name].txt # None => TXT(r.name, info'[r.name].txt) \in cache'
    BY <1>1, <1>2, <1>5, <2>1, <2>2 DEF DerivedFromCache, PTR, TXT
  <2>5. \A h \in Hosts : addresses'[h] = {a \in Addrs : A(h, a) \in cache'}
    BY <1>1, <1>3, <1>5, <2>2, AddressesKept
  <2> QED
    BY <1>2, <2>1, <2>2, <2>3, <2>4, <2>5 DEF DerivedFromCache
<1>6. CASE r.type = "TXT"
  <2>1. /\ r.name \in Insts /\ r.data \in Txts /\ r = TXT(r.name, r.data)
        /\ SetTxt(r.name, r.data) /\ r.name \in instances
    BY <1>1, <1>6, RecordCases DEF Learn, OfInterest
  <2>2. /\ instances' = instances /\ addresses' = addresses
        /\ \A i \in instances \ {r.name} : info'[i] = info[i]
        /\ info'[r.name].port = info[r.name].port
        /\ info'[r.name].target = info[r.name].target
        /\ info'[r.name].txt = r.data
    BY <1>1, <2>1 DEF SetTxt, TypeOK
  <2>3. \A i \in instances \ {r.name} :
           /\ PTR(i) \in cache'
           /\ info'[i].port # None => SRV(i, info'[i].port, info'[i].target) \in cache'
           /\ info'[i].txt # None => TXT(i, info'[i].txt) \in cache'
    BY <1>1, <1>2, <1>6, <2>2, InstancesKept
  <2>4. /\ PTR(r.name) \in cache'
        /\ info[r.name].port # None
              => SRV(r.name, info[r.name].port, info[r.name].target) \in cache'
    BY <1>1, <1>2, <1>6, <2>1 DEF DerivedFromCache, PTR, SRV
  <2>5. \A h \in Hosts : addresses'[h] = {a \in Addrs : A(h, a) \in cache'}
    BY <1>1, <1>3, <1>6, <2>2, AddressesKept
  <2> QED
    BY <1>2, <2>1, <2>2, <2>3, <2>4, <2>5 DEF DerivedFromCache
<1>7. CASE r.type = "A"
  <2>1. /\ r.name \in Hosts /\ r.data \in Addrs /\ r = A(r.name, r.data)
        /\ SetAddresses(r.name, {r.data} \cup Surviving(r, flush))
    BY <1>7, RecordCases DEF Learn
  <2>2. Surviving(r, flush) \subseteq Addrs
    BY <1>1, <2>1 DEF Surviving, TypeOK
  <2>3. \A a \in Addrs : A(r.name, a) \in cache' <=> a \in {r.data} \cup Surviving(r, flush)
    BY <1>1, <1>2, <2>1 DEF Surviving, DerivedFromCache, A
  <2> QED
    BY <1>1, <1>2, <1>7, <2>1, <2>2, <2>3, AddressesDerived
<1> QED
  BY <1>4, <1>5, <1>6, <1>7, RecordCases

LEMMA RefreshDerived ==
    ASSUME BInv, NEW r \in Record, NEW flush \in FlushBits(r), Refresh(r, flush)
    PROVE  DerivedFromCache'
<1>1. /\ ~closed /\ r \in cache
      /\ cache' = (cache \ Flushed(r, flush)) \cup {r}
      /\ flush \in BOOLEAN /\ DerivedFromCache /\ TypeOK
  BY DEF Refresh, FlushBits, BInv, Flushed, Siblings
<1>2. /\ r \in cache'
      /\ \A x \in cache : x.type # r.type \/ x.name # r.name \/ ~flush => x \in cache'
      /\ \A x \in cache' : x \in cache \/ x = r
      /\ flush => \A x \in cache' : x.type = r.type /\ x.name = r.name => x = r
  BY <1>1, CacheAfter
<1>3. CASE Flushed(r, flush) = {}
  <2>1. cache' = cache /\ UNCHANGED derived /\ closed' = closed
    BY <1>3 DEF Refresh
  <2> QED
    BY <1>1, <2>1 DEF DerivedFromCache, derived
<1>4. CASE Flushed(r, flush) # {}
  <2>0. flush
    BY <1>4 DEF Flushed
  <2>1. CASE r.type = "SRV"
    BY <1>1, <1>2, <1>4, <2>1, RecordCases, LoseEndpointDerived DEF Refresh
  <2>2. CASE r.type = "TXT"
    BY <1>1, <1>2, <1>4, <2>2, RecordCases, LoseTxtDerived DEF Refresh
  <2>3. CASE r.type = "A"
    <3>1. /\ r.name \in Hosts /\ r.data \in Addrs /\ r = A(r.name, r.data)
          /\ SetAddresses(r.name, {r.data})
      BY <1>4, <2>3, RecordCases DEF Refresh
    <3>2. \A a \in Addrs : A(r.name, a) \in cache' <=> a \in {r.data}
      BY <1>2, <2>0, <3>1 DEF A
    <3> QED
      BY <1>1, <1>2, <2>3, <3>1, <3>2, AddressesDerived
  <2> QED
    BY <1>4, <2>1, <2>2, <2>3 DEF Refresh
<1> QED
  BY <1>3, <1>4

LEMMA ExpireDerived ==
    ASSUME BInv, NEW r \in Record, Expire(r)
    PROVE  DerivedFromCache'
<1>1. /\ ~closed /\ cache' = cache \ {r} /\ r \in cache /\ closed' = closed
      /\ DerivedFromCache /\ TypeOK
  BY DEF Expire, BInv, ClosedIsEmpty
<1>2. CASE r.type = "PTR"
  <2>1. r.data \in Insts /\ r = PTR(r.data) /\ RemoveInstance(r.data)
    BY <1>2, RecordCases DEF Expire
  <2>2. /\ instances' = instances \ {r.data}
        /\ \A i \in instances' : info'[i] = info[i]
        /\ addresses' = addresses
    BY <1>1, <2>1 DEF RemoveInstance, derived, TypeOK
  <2>3. \A i \in instances' :
           /\ PTR(i) \in cache'
           /\ info'[i].port # None => SRV(i, info'[i].port, info'[i].target) \in cache'
           /\ info'[i].txt # None => TXT(i, info'[i].txt) \in cache'
    <3> SUFFICES ASSUME NEW i \in instances'
                 PROVE  /\ PTR(i) \in cache'
                        /\ info[i].port # None
                              => SRV(i, info[i].port, info[i].target) \in cache'
                        /\ info[i].txt # None => TXT(i, info[i].txt) \in cache'
      BY <2>2
    <3>1. i \in instances /\ PTR(i) # r
      BY <2>1, <2>2 DEF PTR
    <3>2. \A p, h, t : SRV(i, p, h) # r /\ TXT(i, t) # r
      BY <1>2 DEF SRV, TXT
    <3> QED
      BY <1>1, <3>1, <3>2 DEF DerivedFromCache
  <2>4. \A h \in Hosts : addresses'[h] = {a \in Addrs : A(h, a) \in cache'}
    BY <1>1, <1>2, <2>2, AddressesKept
  <2> QED
    BY <2>3, <2>4 DEF DerivedFromCache
<1>3. CASE r.type = "SRV"
  BY <1>1, <1>3, RecordCases, LoseEndpointDerived DEF Expire
<1>4. CASE r.type = "TXT"
  BY <1>1, <1>4, RecordCases, LoseTxtDerived DEF Expire
<1>5. CASE r.type = "A"
  <2>1. /\ r.name \in Hosts /\ r.data \in Addrs /\ r = A(r.name, r.data)
        /\ SetAddresses(r.name, addresses[r.name] \ {r.data})
    BY <1>5, RecordCases DEF Expire
  <2>2. \A a \in Addrs : A(r.name, a) \in cache' <=> a \in addresses[r.name] \ {r.data}
    BY <1>1, <2>1 DEF DerivedFromCache, A
  <2>3. addresses[r.name] \ {r.data} \in SUBSET Addrs
    BY <1>1, <2>1 DEF TypeOK
  <2> QED
    BY <1>1, <1>5, <2>1, <2>2, <2>3, AddressesDerived
<1> QED
  BY <1>2, <1>3, <1>4, <1>5 DEF Expire

------------------------------------------------------------------------------
(* The actions *)

LEMMA SurvivingTyped ==
    ASSUME TypeOK, NEW r \in Record, r.type = "A", NEW flush
    PROVE  {r.data} \cup Surviving(r, flush) \in SUBSET Addrs
BY RecordCases DEF Surviving, TypeOK

\* What a record does to the derived state, in each of the actions that can.
LEMMA LearnStep ==
    ASSUME BInv, NEW r \in Record, NEW flush \in FlushBits(r), Learn(r, flush)
    PROVE  DerivedTyped' /\ Shape' /\ ContractStep
<1>1. DerivedTyped /\ Shape /\ TypeOK
  BY DEF BInv, TypeOK, DerivedTyped
<1>2. CASE r.type = "PTR" /\ Discover(r.data)
  BY <1>1, <1>2, RecordCases, DiscoverStep
<1>3. CASE r.type = "SRV" /\ SetEndpoint(r.name, r.data.port, r.data.host)
  BY <1>1, <1>3, RecordCases, SetEndpointStep
<1>4. CASE r.type = "TXT" /\ SetTxt(r.name, r.data)
  BY <1>1, <1>4, RecordCases, SetTxtStep
<1>5. CASE r.type = "A" /\ SetAddresses(r.name, {r.data} \cup Surviving(r, flush))
  BY <1>1, <1>5, RecordCases, SurvivingTyped, SetAddressesStep
<1> QED
  BY <1>2, <1>3, <1>4, <1>5 DEF Learn

LEMMA RefreshStep ==
    ASSUME BInv, NEW r \in Record, NEW flush \in FlushBits(r), Refresh(r, flush)
    PROVE  DerivedTyped' /\ Shape' /\ ContractStep
<1>1. DerivedTyped /\ Shape /\ TypeOK
  BY DEF BInv, TypeOK, DerivedTyped
<1>2. CASE Emit({}) /\ UNCHANGED derived
  BY <1>1, <1>2, NoStep
<1>3. CASE r.type = "SRV" /\ LoseEndpoint(r.name)
  BY <1>1, <1>3, RecordCases, LoseEndpointStep
<1>4. CASE r.type = "TXT" /\ SetTxt(r.name, None)
  BY <1>1, <1>4, RecordCases, SetTxtStep
<1>5. CASE r.type = "A" /\ SetAddresses(r.name, {r.data})
  BY <1>1, <1>5, RecordCases, SetAddressesStep
<1> QED
  BY <1>2, <1>3, <1>4, <1>5 DEF Refresh

LEMMA ExpireStep ==
    ASSUME BInv, NEW r \in Record, Expire(r)
    PROVE  DerivedTyped' /\ Shape' /\ ContractStep
<1>1. DerivedTyped /\ Shape /\ TypeOK
  BY DEF BInv, TypeOK, DerivedTyped
<1>2. CASE r.type = "PTR" /\ RemoveInstance(r.data)
  BY <1>1, <1>2, RecordCases, RemoveInstanceStep
<1>3. CASE r.type = "SRV" /\ LoseEndpoint(r.name)
  BY <1>1, <1>3, RecordCases, LoseEndpointStep
<1>4. CASE r.type = "TXT" /\ SetTxt(r.name, None)
  BY <1>1, <1>4, RecordCases, SetTxtStep
<1>5. CASE r.type = "A" /\ SetAddresses(r.name, addresses[r.name] \ {r.data})
  <2>1. r.name \in Hosts
    BY <1>5, RecordCases
  <2>2. addresses[r.name] \ {r.data} \in SUBSET Addrs
    BY <1>1, <2>1 DEF TypeOK
  <2> QED
    BY <1>1, <1>5, <2>1, <2>2, SetAddressesStep
<1> QED
  BY <1>2, <1>3, <1>4, <1>5 DEF Expire

\* The steps that leave the derived state alone.
LEMMA OtherSteps ==
    ASSUME BInv, (\E r \in Record : Goodbye(r)) \/ OnQuery \/ QueryTimer \/ Close
    PROVE  BInv' /\ ContractStep
<1>1. DerivedTyped /\ Shape /\ TypeOK /\ Emit({}) /\ UNCHANGED derived
  BY DEF BInv, TypeOK, DerivedTyped, Goodbye, OnQuery, QueryTimer, Close
<1>2. DerivedTyped' /\ Shape' /\ ContractStep
  BY <1>1, NoStep
<1>3. /\ closed' \in BOOLEAN /\ suppressNextQuery' \in BOOLEAN
      /\ cache' \subseteq Record /\ leaving' \subseteq cache'
      /\ closed' \/ cache' = cache
      /\ closed' => cache' = {}
  <2>0. /\ closed \in BOOLEAN /\ suppressNextQuery \in BOOLEAN
        /\ cache \subseteq Record /\ leaving \subseteq cache
        /\ closed => cache = {}
    BY DEF BInv, TypeOK, ClosedIsEmpty
  <2>1. CASE \E r \in Record : Goodbye(r)
    BY <2>0, <2>1 DEF Goodbye
  <2>2. CASE OnQuery \/ QueryTimer
    <3>1. UNCHANGED <<closed, cache, leaving>>
      BY <2>2 DEF OnQuery, QueryTimer
    <3>2. suppressNextQuery' \in BOOLEAN
      BY <2>2 DEF OnQuery, QueryTimer
    <3>3. closed' \in BOOLEAN /\ cache' \subseteq Record /\ leaving' \subseteq cache'
      BY <2>0, <3>1
    <3>4. closed' \/ cache' = cache
      BY <3>1
    <3>5. closed' => cache' = {}
      BY <2>0, <3>1
    <3> QED
      BY <3>2, <3>3, <3>4, <3>5, Zenon
  <2>3. CASE Close
    BY <2>0, <2>3 DEF Close
  <2> QED
    BY <2>1, <2>2, <2>3
<1>4. DerivedFromCache'
  <2>1. CASE closed'
    BY <2>1 DEF DerivedFromCache
  <2>2. CASE ~closed'
    <3>1. ~closed
      BY <2>2 DEF Goodbye, OnQuery, QueryTimer, Close
    <3> QED
      BY <1>1, <1>3, <2>2, <3>1 DEF BInv, DerivedFromCache, derived
  <2> QED
    BY <2>1, <2>2
<1> QED
  BY <1>2, <1>3, <1>4 DEF BInv, TypeOK, DerivedTyped, ClosedIsEmpty

\* The cache, its pending goodbyes and the flags stay well typed.
LEMMA CacheTyped ==
    ASSUME BInv, NEW r \in Record,
           (\E flush \in FlushBits(r) : Learn(r, flush) \/ Refresh(r, flush)) \/ Expire(r)
    PROVE  /\ closed' \in BOOLEAN /\ suppressNextQuery' \in BOOLEAN
           /\ cache' \subseteq Record /\ leaving' \subseteq cache'
           /\ ClosedIsEmpty'
<1>0. /\ closed \in BOOLEAN /\ suppressNextQuery \in BOOLEAN
      /\ cache \subseteq Record /\ leaving \subseteq cache
      /\ closed => cache = {}
  BY DEF BInv, TypeOK, ClosedIsEmpty
<1>1. closed' = closed /\ suppressNextQuery' = suppressNextQuery
  BY DEF Learn, Refresh, Expire
<1>2. CASE \E flush \in FlushBits(r) : Learn(r, flush)
  BY <1>0, <1>1, <1>2 DEF Learn, ClosedIsEmpty
<1>3. CASE \E flush \in FlushBits(r) : Refresh(r, flush)
  BY <1>0, <1>1, <1>3 DEF Refresh, ClosedIsEmpty
<1>4. CASE Expire(r)
  BY <1>0, <1>1, <1>4 DEF Expire, ClosedIsEmpty
<1> QED
  BY <1>2, <1>3, <1>4

LEMMA BInvInit == Init => BInv
<1> SUFFICES ASSUME Init PROVE BInv
  OBVIOUS
<1>1. TypeOK
  BY DEF Init, TypeOK, Unknown, Endpoint, NoEndpoint
<1>2. Shape
  BY DEF Init, Shape, EndpointWhole, MembersMatch, NoneLeftWaiting,
         ConsumerKnowsEndpoint, Unknown
<1>3. DerivedFromCache /\ ClosedIsEmpty
  BY DEF Init, DerivedFromCache, ClosedIsEmpty
<1> QED
  BY <1>1, <1>2, <1>3 DEF BInv

LEMMA BInvStep ==
    ASSUME BInv, [Next]_vars
    PROVE  BInv' /\ ContractStep
<1>1. CASE \E r \in Record : \E flush \in FlushBits(r) : Learn(r, flush) \/ Refresh(r, flush)
  <2> PICK r \in Record : \E flush \in FlushBits(r) : Learn(r, flush) \/ Refresh(r, flush)
    BY <1>1
  <2> PICK flush \in FlushBits(r) : Learn(r, flush) \/ Refresh(r, flush)
    OBVIOUS
  <2>1. DerivedTyped' /\ Shape' /\ ContractStep
    BY LearnStep, RefreshStep
  <2>2. DerivedFromCache'
    BY LearnDerived, RefreshDerived
  <2> QED
    BY <2>1, <2>2, CacheTyped DEF BInv, TypeOK, DerivedTyped
<1>2. CASE \E r \in Record : Expire(r)
  <2> PICK r \in Record : Expire(r)
    BY <1>2
  <2> QED
    BY ExpireStep, ExpireDerived, CacheTyped DEF BInv, TypeOK, DerivedTyped
<1>3. CASE (\E r \in Record : Goodbye(r)) \/ OnQuery \/ QueryTimer \/ Close
  BY <1>3, OtherSteps
<1>4. CASE UNCHANGED vars
  BY <1>4 DEF vars, derived, told, BInv, TypeOK, Shape, EndpointWhole, MembersMatch,
     NoneLeftWaiting, ConsumerKnowsEndpoint, DerivedFromCache, ClosedIsEmpty,
     ContractStep, Progress
<1> QED
  BY <1>1, <1>2, <1>3, <1>4 DEF Next

------------------------------------------------------------------------------
(* The caps *)

Caps == WithinCaps /\ IsFiniteSet(instances) /\ IsFiniteSet(cache)

\* The operators on the derived state add at most one instance, below the cap.
LEMMA InstancesCapped ==
    ASSUME Caps,
           \/ instances' \subseteq instances
           \/ /\ Cardinality(instances) < MaxInstances
              /\ \E i : instances' = instances \cup {i}
    PROVE  IsFiniteSet(instances') /\ Cardinality(instances') <= MaxInstances
<1>1. /\ IsFiniteSet(instances) /\ Cardinality(instances) \in Nat
      /\ Cardinality(instances) <= MaxInstances /\ MaxInstances \in Nat
  BY FS_CardinalityType, CapAssumption DEF Caps, WithinCaps
<1>2. CASE instances' \subseteq instances
  <2>1. IsFiniteSet(instances') /\ Cardinality(instances') <= Cardinality(instances)
    BY <1>1, <1>2, FS_Subset
  <2> QED
    BY <1>1, <2>1, FS_CardinalityType
<1>3. CASE Cardinality(instances) < MaxInstances /\ \E i : instances' = instances \cup {i}
  <2> PICK i : instances' = instances \cup {i}
    BY <1>3
  <2>1. /\ IsFiniteSet(instances')
        /\ Cardinality(instances') \in {Cardinality(instances), Cardinality(instances) + 1}
    BY <1>1, FS_AddElement
  <2> QED
    BY <1>1, <1>3, <2>1
<1> QED
  BY <1>2, <1>3

LEMMA CacheCapped ==
    ASSUME Caps,
           \/ cache' \subseteq cache
           \/ \E kept \in SUBSET cache : \E r : /\ Cardinality(kept) < MaxEntries
                                                /\ cache' = kept \cup {r}
    PROVE  IsFiniteSet(cache') /\ Cardinality(cache') <= MaxEntries
<1>1. /\ IsFiniteSet(cache) /\ Cardinality(cache) \in Nat
      /\ Cardinality(cache) <= MaxEntries /\ MaxEntries \in Nat
  BY FS_CardinalityType, CapAssumption DEF Caps, WithinCaps
<1>2. CASE cache' \subseteq cache
  <2>1. IsFiniteSet(cache') /\ Cardinality(cache') <= Cardinality(cache)
    BY <1>1, <1>2, FS_Subset
  <2> QED
    BY <1>1, <2>1, FS_CardinalityType
<1>3. CASE \E kept \in SUBSET cache : \E r : /\ Cardinality(kept) < MaxEntries
                                             /\ cache' = kept \cup {r}
  <2> PICK kept \in SUBSET cache : \E r : /\ Cardinality(kept) < MaxEntries
                                          /\ cache' = kept \cup {r}
    BY <1>3
  <2>1. IsFiniteSet(kept) /\ Cardinality(kept) \in Nat
    BY <1>1, FS_Subset, FS_CardinalityType
  <2>2. /\ IsFiniteSet(cache')
        /\ Cardinality(cache') \in {Cardinality(kept), Cardinality(kept) + 1}
    BY <2>1, FS_AddElement
  <2> QED
    BY <1>1, <2>1, <2>2
<1> QED
  BY <1>2, <1>3

LEMMA CapsStep ==
    ASSUME BInv, Caps, [Next]_vars
    PROVE  Caps'
<1>1. \/ instances' \subseteq instances
      \/ /\ Cardinality(instances) < MaxInstances
         /\ \E i : instances' = instances \cup {i}
  <2>n. Cardinality(instances) \in Nat /\ MaxInstances \in Nat
    BY FS_CardinalityType, CapAssumption DEF Caps
  <2>1. CASE \E r \in Record : \E flush \in FlushBits(r) : Learn(r, flush)
    <3> PICK r \in Record : \E flush \in FlushBits(r) : Learn(r, flush)
      BY <2>1
    <3>1. CASE Discover(r.data)
      <4>1. CASE r.data \in instances \/ Cardinality(instances) >= MaxInstances
        BY <3>1, <4>1 DEF Discover, derived
      <4>2. CASE ~(r.data \in instances \/ Cardinality(instances) >= MaxInstances)
        <5>1. instances' = instances \cup {r.data}
          BY <3>1, <4>2 DEF Discover
        <5>2. Cardinality(instances) < MaxInstances
          BY <2>n, <4>2
        <5> QED
          BY <5>1, <5>2
      <4> QED
        BY <4>1, <4>2
    <3>2. CASE ~Discover(r.data)
      BY <3>2 DEF Learn, SetEndpoint, SetTxt, SetAddresses, derived
    <3> QED
      BY <3>1, <3>2
  <2>2. CASE \E r \in Record : \E flush \in FlushBits(r) : Refresh(r, flush)
    BY <2>2 DEF Refresh, LoseEndpoint, SetTxt, SetAddresses, derived
  <2>3. CASE \E r \in Record : Expire(r)
    BY <2>3 DEF Expire, RemoveInstance, LoseEndpoint, SetTxt, SetAddresses, derived
  <2>4. CASE (\E r \in Record : Goodbye(r)) \/ OnQuery \/ QueryTimer \/ Close
    BY <2>4 DEF Goodbye, OnQuery, QueryTimer, Close, derived
  <2>5. CASE UNCHANGED vars
    BY <2>5 DEF vars, derived
  <2> QED
    BY <2>1, <2>2, <2>3, <2>4, <2>5 DEF Next
<1>2. \/ cache' \subseteq cache
      \/ \E kept \in SUBSET cache : \E r : /\ Cardinality(kept) < MaxEntries
                                           /\ cache' = kept \cup {r}
  <2>1. CASE \E r \in Record : \E flush \in FlushBits(r) : Learn(r, flush)
    <3> PICK r \in Record : \E flush \in FlushBits(r) : Learn(r, flush)
      BY <2>1
    <3> PICK flush \in FlushBits(r) : Learn(r, flush)
      OBVIOUS
    <3>1. /\ cache \ Flushed(r, flush) \in SUBSET cache
          /\ Cardinality(cache \ Flushed(r, flush)) < MaxEntries
          /\ cache' = (cache \ Flushed(r, flush)) \cup {r}
      BY DEF Learn, Admits
    <3> QED
      BY <3>1, Zenon
  <2>2. CASE ~ \E r \in Record : \E flush \in FlushBits(r) : Learn(r, flush)
    BY <2>2 DEF Next, Refresh, Expire, Goodbye, OnQuery, QueryTimer, Close, vars
  <2> QED
    BY <2>1, <2>2
<1> QED
  BY <1>1, <1>2, InstancesCapped, CacheCapped DEF Caps, WithinCaps

------------------------------------------------------------------------------
(* Theorems *)

\* The invariant of the browse and its cache, from which the others follow.
THEOREM BrowserInvariant == Spec => []BInv
<1>1. BInv /\ [Next]_vars => BInv'
  BY BInvStep
<1> QED
  BY <1>1, BInvInit, PTL DEF Spec

\* Type correctness of the browser.
THEOREM BrowserTypeCorrect == Spec => []TypeOK
<1>1. BInv => TypeOK
  BY DEF BInv
<1> QED
  BY <1>1, BrowserInvariant, PTL

\* onCacheEvent: nothing derived outlives the record it was derived from.
THEOREM DerivedStateIsBacked == Spec => []DerivedFromCache
<1>1. BInv => DerivedFromCache
  BY DEF BInv
<1> QED
  BY <1>1, BrowserInvariant, PTL

\* onSrv, removeInstance: instances and targets refer to each other.
THEOREM RelationIsConsistent == Spec => []MembersMatch
<1>1. BInv => MembersMatch
  BY DEF BInv, Shape
<1> QED
  BY <1>1, BrowserInvariant, PTL

\* onSrv, onAddress: an instance whose host has an address does not wait, whichever
\* of the two was learnt last.
THEOREM WhoCanBeResolvedIs == Spec => []NoneLeftWaiting
<1>1. BInv => NoneLeftWaiting
  BY DEF BInv, Shape
<1> QED
  BY <1>1, BrowserInvariant, PTL

\* markResolved, emit: the consumer knows the endpoint of every resolved instance.
THEOREM ConsumerIsInformed == Spec => []ConsumerKnowsEndpoint
<1>1. BInv => ConsumerKnowsEndpoint
  BY DEF BInv, Shape
<1> QED
  BY <1>1, BrowserInvariant, PTL

\* MAX_INSTANCES, MAX_CACHE_ENTRIES: no traffic exceeds the caps.
THEOREM CapsHold == Spec => []WithinCaps
<1>1. Init => Caps
  BY FS_EmptySet, CapAssumption DEF Init, Caps, WithinCaps
<1>2. BInv /\ Caps /\ [Next]_vars => Caps'
  BY CapsStep
<1>3. Caps => WithinCaps
  BY DEF Caps
<1> QED
  BY <1>1, <1>2, <1>3, BrowserInvariant, PTL DEF Spec

\* The browser implements the contract of every backend, step by step.
THEOREM BrowserKeepsContract == Spec => KeepsContract
<1>1. Init => Contract!Init
  BY DEF Init, Contract!Init, Progress
<1>2. BInv /\ [Next]_vars => ContractStep
  BY BInvStep
<1> QED
  BY <1>1, <1>2, BrowserInvariant, PTL DEF Spec, KeepsContract, Contract!Spec, ContractStep

------------------------------------------------------------------------------
(* Discovery: what its proofs speak of *)

\* The record a service is found by.
Ptr == PTR(Inst)

Message == [rec : Own, ttl : 0..TtlShared]
Question == [types : SUBSET {"PTR", "SRV", "TXT", "A"}, known : SUBSET [rec : Record, ttl : Nat]]

DiscoveryTyped ==
    /\ left \in [cache -> 0..TtlShared]
    /\ due \subseteq cache
    /\ queryIn \in 0..QueryIntervalMax /\ queryInterval \in 1..QueryIntervalMax
    /\ queries \in Seq(Question) /\ responses \in Seq(SUBSET Message)
    /\ inbox \subseteq Message
    /\ service \in {"new", "up", "stopped", "crashed"}
    /\ announcements \in Nat /\ pending \subseteq Own
    /\ {starts, losses, since, missing} \subseteq Nat

\* The browse runs, defers to nobody's query, and has the instance exactly when
\* it has its PTR record: one instance is below the cap.
Browsing ==
    /\ BInv
    /\ ~closed /\ ~suppressNextQuery
    /\ instances = {} \/ instances = Insts
    /\ Inst \in instances <=> Ptr \in cache

DTyped == Browsing /\ DiscoveryTyped

------------------------------------------------------------------------------
(* A service that has gone *)

\* A service that is not up says nothing more: from the first tick on nothing is
\* on its way, and the lifetime of its PTR runs out.
Silent ==
    service # "up" =>
        /\ announcements = 0 /\ pending = {}
        /\ since > 0 => responses = <<>> /\ inbox = {}
        /\ Ptr \in cache => left[Ptr] + since <= TtlShared

\* The goodbye is the last message of a service that stopped: it is on its way,
\* being handled, or the PTR has no more than the grace left.
FarewellOnItsWay ==
    \/ responses # <<>> /\ responses[Len(responses)] = Withdrawn(Own)
    \/ /\ responses = <<>> /\ inbox \subseteq Withdrawn(Own)
       /\ \/ [rec |-> Ptr, ttl |-> 0] \in inbox
          \/ Ptr \in cache => left[Ptr] + since <= GoodbyeGrace

GoneInv == Silent /\ (service = "stopped" /\ losses = 0 => FarewellOnItsWay)

------------------------------------------------------------------------------
(* A service that is up *)

\* The time in which a service must be found if one message more is lost.
Patience(lost) == QueryIntervalMax * (lost + 1)

Asks(q) == "PTR" \in q.types /\ \A k \in q.known : k.rec # Ptr
Brings(ms) == \E m \in ms : m.rec = Ptr /\ m.ttl > 0

\* The PTR is asked for, about to be sent, sent, or being handled.
PtrOnItsWay ==
    \/ \E n \in 1..Len(queries) : Asks(queries[n])
    \/ Ptr \in pending
    \/ \E n \in 1..Len(responses) : Brings(responses[n])
    \/ Brings(inbox)

\* Either the PTR is on its way, or the next query comes in time.
FoundInv ==
    /\ missing <= Patience(losses)
    /\ missing + queryIn <= Patience(losses) + QueryIntervalMax
    /\ service # "up" => missing = 0
    /\ Ptr \in cache /\ left[Ptr] = 0 => missing = 0
    /\ service = "up" /\ Ptr \notin cache =>
          PtrOnItsWay \/ missing + queryIn <= Patience(losses)

------------------------------------------------------------------------------
(* The records of the service and the messages that carry them *)

LEMMA TheInstance == Inst \in Insts /\ Insts = {Inst}
BY ServiceAssumption DEF Inst

LEMMA TheConstants ==
    /\ TtlHost \in Nat /\ TtlShared \in Nat /\ Requeries \in Nat /\ GoodbyeGrace \in Nat
    /\ QueryIntervalMax \in Nat /\ AnnounceCount \in Nat /\ MaxStarts \in Nat /\ MaxLosses \in Nat
    /\ 0 < QueryIntervalMax /\ 0 < GoodbyeGrace
    /\ GoodbyeGrace < TtlHost /\ TtlHost <= TtlShared
BY TimeAssumption

LEMMA OwnRecords ==
    /\ Ptr \in Own /\ Own \subseteq Record
    /\ Ptr.type = "PTR"
    /\ \A r \in Record : r.type = "PTR" => r = Ptr
<1>1. Ptr \in Own /\ Ptr.type = "PTR"
  BY DEF Own, Ptr, PTR
<1>2. Own \subseteq Record
  <2>1. Inst \in Insts /\ Host \in Hosts
    <3>1. Hosts # {}
      BY ServiceAssumption
    <3> QED
      BY <3>1, TheInstance DEF Host
  <2> QED
    BY <2>1 DEF Own, Record, PtrRecords, SrvRecords, TxtRecords, AddressRecords
<1>3. \A r \in Record : r.type = "PTR" => r = Ptr
  BY RecordCases, TheInstance DEF Ptr
<1> QED
  BY <1>1, <1>2, <1>3

LEMMA Lifetimes == \A r : Ttl(r) \in Nat /\ 0 < Ttl(r) /\ Ttl(r) <= TtlShared
BY TheConstants DEF Ttl

LEMMA MessagesTyped ==
    \A rs \in SUBSET Own : Carried(rs) \in SUBSET Message /\ Withdrawn(rs) \in SUBSET Message
BY Lifetimes, TheConstants DEF Carried, Withdrawn, Message

LEMMA QuestionsTyped ==
    ASSUME DTyped, NEW types \in SUBSET {"PTR", "SRV", "TXT", "A"}
    PROVE  Query(types) \in Question
<1>1. cache \subseteq Record
  BY DEF DTyped, Browsing, BInv, TypeOK
<1>2. KnownAnswers(types) \in SUBSET [rec : Record, ttl : Nat]
  BY <1>1, Lifetimes DEF KnownAnswers, Carried
<1> QED
  BY <1>2 DEF Query, Question

\* The scheduled query asks for the PTR unless the browse has it.
LEMMA QueryAsks ==
    ASSUME DTyped, Ptr \notin cache
    PROVE  Asks(Query({"PTR"}))
BY DEF Asks, Query, KnownAnswers, Carried

\* Who asks for the PTR without having it gets it.
LEMMA AskedAnswers ==
    ASSUME NEW q \in Question, Asks(q)
    PROVE  Ptr \in Answers(q)
BY OwnRecords DEF Asks, Answers

LEMMA CarriedBrings ==
    ASSUME NEW rs, Ptr \in rs
    PROVE  Brings(Carried(rs))
<1>1. [rec |-> Ptr, ttl |-> Ttl(Ptr)] \in Carried(rs)
  BY DEF Carried
<1> QED
  BY <1>1, Lifetimes DEF Brings

------------------------------------------------------------------------------
(* The browse follows module Browser *)

\* Where Discovery leaves the browser alone, Browser sees its query timer at most.
LEMMA UnaffectedStep ==
    ASSUME DTyped, Unaffected
    PROVE  QueryTimer
BY DEF DTyped, Browsing, Unaffected, QueryTimer

\* What a step of DiscoveryNext does to the browser.
LEMMA BrowserStep ==
    ASSUME DTyped, DiscoveryNext
    PROVE  [Next]_vars
<1>1. ASSUME NEW m \in inbox, Handle(m) PROVE [Next]_vars
  <2>1. m.rec \in Record
    BY OwnRecords DEF DTyped, DiscoveryTyped, Message
  <2>2. FlushBit(m.rec) \in FlushBits(m.rec)
    BY DEF FlushBit, FlushBits
  <2>3. CASE Unaffected
    BY <2>3, UnaffectedStep DEF Next
  <2>4. CASE Goodbye(m.rec) \/ Refresh(m.rec, FlushBit(m.rec)) \/ Learn(m.rec, FlushBit(m.rec))
    BY <2>1, <2>2, <2>4 DEF Next
  <2> QED
    BY <1>1, <2>3, <2>4 DEF Handle
<1>2. ASSUME NEW r \in cache, Requery(r) \/ TimeIsUp(r) PROVE [Next]_vars
  <2>1. r \in Record
    BY DEF DTyped, Browsing, BInv, TypeOK
  <2>2. CASE Requery(r)
    BY <2>2, UnaffectedStep DEF Requery, Idle, Next
  <2>3. CASE TimeIsUp(r)
    BY <2>1, <2>3 DEF TimeIsUp, Next
  <2> QED
    BY <1>2, <2>2, <2>3
<1>3. CASE PtrQuery
  BY <1>3 DEF PtrQuery, Next
<1>4. CASE \/ ReceiveResponse \/ ServiceStarts \/ Announcement \/ ReceiveQuery \/ SendAnswers
           \/ ServiceStops \/ ServiceCrashes \/ LoseQuery \/ LoseResponse \/ Tick
  <2>1. Unaffected
    BY <1>4 DEF ReceiveResponse, ServiceStarts, Announcement, ReceiveQuery, SendAnswers,
       ServiceStops, ServiceCrashes, LoseQuery, LoseResponse, Tick, Idle
  <2> QED
    BY <2>1, UnaffectedStep DEF Next
<1> QED
  BY <1>1, <1>2, <1>3, <1>4 DEF DiscoveryNext

------------------------------------------------------------------------------
(* The PTR record in the cache *)

\* A record of another type neither flushes the PTR nor is flushed by it.
LEMMA PtrNotFlushed ==
    ASSUME NEW r \in Record
    PROVE  Ptr \notin Flushed(r, FlushBit(r))
BY OwnRecords DEF Flushed, FlushBit, Siblings

LEMMA LearnPtr ==
    ASSUME DTyped, NEW r \in Record, Learn(r, FlushBit(r))
    PROVE  /\ Browsing'
           /\ Ptr \in cache' <=> Ptr \in cache \/ r = Ptr
<1>1. FlushBit(r) \in FlushBits(r)
  BY DEF FlushBit, FlushBits
<1>2. BInv'
  BY <1>1, BInvStep DEF DTyped, Browsing, Next
<1>3. ~closed' /\ ~suppressNextQuery'
  BY DEF DTyped, Browsing, Learn
<1>4. Ptr \in cache' <=> Ptr \in cache \/ r = Ptr
  BY PtrNotFlushed DEF Learn
<1>5. CASE r.type = "PTR"
  <2>1. r = Ptr /\ Discover(r.data) /\ r.data = Inst
    <3>1. r = Ptr
      BY <1>5, OwnRecords
    <3> QED
      BY <1>5, <3>1 DEF Learn, Ptr, PTR
  <2>2. instances' = Insts
    <3>1. instances = {} \/ instances = Insts
      BY DEF DTyped, Browsing
    <3>2. Cardinality({}) = 0 /\ MaxInstances > 0
      BY FS_EmptySet, ServiceAssumption
    <3>3. CASE instances = Insts
      BY <2>1, <3>3, TheInstance DEF Discover, derived
    <3>4. CASE instances = {}
      BY <2>1, <3>2, <3>4, TheInstance, CapAssumption DEF Discover
    <3> QED
      BY <3>1, <3>3, <3>4
  <2> QED
    BY <1>2, <1>3, <1>4, <2>1, <2>2, TheInstance DEF Browsing
<1>6. CASE r.type # "PTR"
  <2>1. UNCHANGED instances
    BY <1>6 DEF Learn, SetEndpoint, SetTxt, SetAddresses, derived
  <2>2. r # Ptr
    BY <1>6, OwnRecords
  <2> QED
    BY <1>2, <1>3, <1>4, <2>1, <2>2 DEF DTyped, Browsing
<1> QED
  BY <1>4, <1>5, <1>6

LEMMA RefreshPtr ==
    ASSUME DTyped, NEW r \in Record, Refresh(r, FlushBit(r))
    PROVE  /\ Browsing'
           /\ Ptr \in cache' <=> Ptr \in cache
<1>1. FlushBit(r) \in FlushBits(r)
  BY DEF FlushBit, FlushBits
<1>2. BInv'
  BY <1>1, BInvStep DEF DTyped, Browsing, Next
<1>3. ~closed' /\ ~suppressNextQuery'
  BY DEF DTyped, Browsing, Refresh
<1>4. Ptr \in cache' <=> Ptr \in cache
  BY PtrNotFlushed DEF Refresh
<1>5. UNCHANGED instances
  BY DEF Refresh, LoseEndpoint, SetTxt, SetAddresses, derived
<1> QED
  BY <1>2, <1>3, <1>4, <1>5 DEF DTyped, Browsing

LEMMA ExpirePtr ==
    ASSUME DTyped, NEW r \in Record, Expire(r)
    PROVE  Browsing'
<1>2. BInv'
  BY BInvStep DEF DTyped, Browsing, Next
<1>3. ~closed' /\ ~suppressNextQuery'
  BY DEF DTyped, Browsing, Expire
<1>4. CASE r.type = "PTR"
  <2>1. r = Ptr /\ r.data = Inst
    <3>1. r = Ptr
      BY <1>4, OwnRecords
    <3> QED
      BY <3>1 DEF Ptr, PTR
  <2>2. RemoveInstance(Inst) /\ cache' = cache \ {Ptr}
    BY <1>4, <2>1 DEF Expire
  <2>3. instances' = instances \ {Inst}
    BY <2>2 DEF RemoveInstance, derived
  <2> QED
    BY <1>2, <1>3, <2>2, <2>3, TheInstance DEF DTyped, Browsing
<1>5. CASE r.type # "PTR"
  <2>1. UNCHANGED instances
    BY <1>5 DEF Expire, LoseEndpoint, SetTxt, SetAddresses, derived
  <2>2. Ptr \in cache' <=> Ptr \in cache
    BY <1>5, OwnRecords DEF Expire
  <2> QED
    BY <1>2, <1>3, <2>1, <2>2 DEF DTyped, Browsing
<1> QED
  BY <1>4, <1>5

\* The steps that leave the cache alone.
LEMMA StillPtr ==
    ASSUME DTyped, Unaffected \/ QueryTimer \/ \E r \in Record : Goodbye(r)
    PROVE  Browsing' /\ cache' = cache
<1>1. CASE Unaffected
  BY <1>1, UnaffectedStep, BInvStep DEF DTyped, Browsing, Next, Unaffected, derived
<1>2. CASE QueryTimer
  BY <1>2, BInvStep DEF DTyped, Browsing, Next, QueryTimer, derived
<1>3. CASE \E r \in Record : Goodbye(r)
  BY <1>3, BInvStep DEF DTyped, Browsing, Next, Goodbye, derived
<1> QED
  BY <1>1, <1>2, <1>3

------------------------------------------------------------------------------
(* What one record of a response does *)

LEMMA FollowUpTyped ==
    ASSUME DTyped, NEW r
    PROVE  FollowUp(r) \in Seq(Question)
<1>1. Query({"SRV", "TXT"}) \in Question /\ Query({"A"}) \in Question
  BY QuestionsTyped
<1> QED
  BY <1>1 DEF FollowUp

\* The PTR of the service is always of interest.
LEMMA PtrIgnored ==
    ASSUME NEW m, m.rec = Ptr, Ignored(m)
    PROVE  m.ttl = 0 /\ Ptr \notin cache
BY OwnRecords DEF Ignored, OfInterest

LEMMA RenewedTyped ==
    ASSUME DTyped, NEW m \in inbox, cache' \subseteq cache \cup {m.rec}
    PROVE  /\ Renewed(m) \in [cache' -> 0..TtlShared]
           /\ \A r \in cache' : Renewed(m)[r] = IF r = m.rec THEN m.ttl ELSE left[r]
BY DEF Renewed, DTyped, DiscoveryTyped, Message

LEMMA HandleEffect ==
    ASSUME DTyped, NEW m \in inbox, Handle(m)
    PROVE  /\ Browsing'
           /\ left' \in [cache' -> 0..TtlShared] /\ due' \subseteq cache'
           /\ \E s \in Seq(Question) : queries' = queries \o s
           /\ m.rec # Ptr => /\ Ptr \in cache' <=> Ptr \in cache
                             /\ Ptr \in cache => left'[Ptr] = left[Ptr]
           /\ m.rec = Ptr /\ m.ttl > 0 => Ptr \in cache' /\ left'[Ptr] = m.ttl
           /\ m.rec = Ptr /\ m.ttl = 0 => /\ Ptr \in cache' <=> Ptr \in cache
                                          /\ Ptr \in cache => left'[Ptr] = GoodbyeGrace
<1>0. /\ m \in Message /\ left \in [cache -> 0..TtlShared] /\ due \subseteq cache
      /\ queries \in Seq(Question)
      /\ m.rec \in Record /\ m.ttl \in Nat
  BY OwnRecords, TheConstants DEF DTyped, DiscoveryTyped, Message
<1>1. queries' = queries => \E s \in Seq(Question) : queries' = queries \o s
  <2>1. queries \o <<>> = queries /\ <<>> \in Seq(Question)
    BY <1>0
  <2> QED
    BY <2>1
<1>2. CASE Ignored(m) /\ Unaffected /\ UNCHANGED <<left, due, queries>>
  <2>1. Browsing' /\ cache' = cache
    BY <1>2, StillPtr
  <2>2. m.rec = Ptr => m.ttl = 0 /\ Ptr \notin cache
    BY <1>2, PtrIgnored
  <2> QED
    BY <1>0, <1>1, <1>2, <2>1, <2>2
<1>3. CASE /\ m.ttl = 0 /\ Goodbye(m.rec)
           /\ left' = LeftAfterGoodbye(m.rec) /\ due' = due \ {m.rec}
           /\ UNCHANGED queries
  <2>1. Browsing' /\ cache' = cache /\ m.rec \in cache
    BY <1>0, <1>3, StillPtr DEF Goodbye
  <2>2. /\ left' \in [cache' -> 0..TtlShared]
        /\ \A r \in cache : left'[r] = IF r = m.rec THEN GoodbyeGrace ELSE left[r]
    BY <1>0, <1>3, <2>1, TheConstants DEF LeftAfterGoodbye
  <2>3. due' \subseteq cache'
    BY <1>0, <1>3, <2>1
  <2>4. m.rec # Ptr => /\ Ptr \in cache' <=> Ptr \in cache
                       /\ Ptr \in cache => left'[Ptr] = left[Ptr]
    BY <2>1, <2>2
  <2>7. m.rec = Ptr => /\ Ptr \in cache' <=> Ptr \in cache
                       /\ Ptr \in cache => left'[Ptr] = GoodbyeGrace
    BY <2>1, <2>2
  <2>5. \E s \in Seq(Question) : queries' = queries \o s
    BY <1>1, <1>3
  <2>6. ~(m.ttl > 0)
    BY <1>3
  <2> QED
    BY <2>1, <2>2, <2>3, <2>4, <2>5, <2>6, <2>7
<1>4. CASE /\ m.ttl > 0 /\ Refresh(m.rec, FlushBit(m.rec))
           /\ left' = Renewed(m) /\ due' = (due \cap cache') \ {m.rec}
           /\ UNCHANGED queries
  <2>1. Browsing' /\ (Ptr \in cache' <=> Ptr \in cache)
    BY <1>0, <1>4, RefreshPtr
  <2>2. cache' \subseteq cache \cup {m.rec} /\ m.rec \in cache
    BY <1>4 DEF Refresh
  <2>3. left' \in [cache' -> 0..TtlShared]
        /\ \A r \in cache' : left'[r] = IF r = m.rec THEN m.ttl ELSE left[r]
    BY <1>4, <2>2, RenewedTyped
  <2>4. due' \subseteq cache'
    BY <1>4
  <2>5. \E s \in Seq(Question) : queries' = queries \o s
    BY <1>1, <1>4
  <2>6. m.rec # Ptr => /\ Ptr \in cache' <=> Ptr \in cache
                       /\ Ptr \in cache => left'[Ptr] = left[Ptr]
    BY <2>1, <2>3
  <2>7. m.rec = Ptr => Ptr \in cache' /\ left'[Ptr] = m.ttl
    BY <2>1, <2>2, <2>3
  <2>8. ~(m.ttl = 0)
    BY <1>4
  <2> QED
    BY <2>1, <2>3, <2>4, <2>5, <2>6, <2>7, <2>8
<1>5. CASE /\ m.ttl > 0 /\ Learn(m.rec, FlushBit(m.rec))
           /\ left' = Renewed(m) /\ due' = due \cap cache'
           /\ queries' = queries \o FollowUp(m.rec)
  <2>1. Browsing' /\ (Ptr \in cache' <=> Ptr \in cache \/ m.rec = Ptr)
    BY <1>0, <1>5, LearnPtr
  <2>2. cache' \subseteq cache \cup {m.rec}
    BY <1>5 DEF Learn
  <2>3. left' \in [cache' -> 0..TtlShared]
        /\ \A r \in cache' : left'[r] = IF r = m.rec THEN m.ttl ELSE left[r]
    BY <1>5, <2>2, RenewedTyped
  <2>4. due' \subseteq cache'
    BY <1>5
  <2>5. FollowUp(m.rec) \in Seq(Question)
    BY FollowUpTyped
  <2>6. \E s \in Seq(Question) : queries' = queries \o s
    BY <1>5, <2>5
  <2>7. m.rec # Ptr => /\ Ptr \in cache' <=> Ptr \in cache
                       /\ Ptr \in cache => left'[Ptr] = left[Ptr]
    BY <2>1, <2>3
  <2>8. m.rec = Ptr => Ptr \in cache' /\ left'[Ptr] = m.ttl
    BY <2>1, <2>3
  <2> QED
    BY <1>5, <2>1, <2>3, <2>4, <2>6, <2>7, <2>8
<1> QED
  BY <1>2, <1>3, <1>4, <1>5 DEF Handle

------------------------------------------------------------------------------
(* Typing *)

LEMMA NextIntervalTyped ==
    \A n \in 1..QueryIntervalMax : NextInterval(n) \in 1..QueryIntervalMax
BY TheConstants DEF NextInterval

LEMMA CountTyped == \A n \in Nat : Count(n) \in Nat /\ (n <= TtlShared => Count(n) = n + 1)
BY TheConstants DEF Count

\* A queue of members of S whose first has been taken, or that others have joined.
LEMMA QueueTyped ==
    ASSUME NEW S, NEW q \in Seq(S)
    PROVE  /\ q # <<>> => Head(q) \in S /\ Tail(q) \in Seq(S)
           /\ \A x \in S : Append(q, x) \in Seq(S)
           /\ \A s \in Seq(S) : q \o s \in Seq(S)
OBVIOUS

LEMMA DTypedInit == DiscoveryInit => DTyped
<1> SUFFICES ASSUME DiscoveryInit PROVE DTyped
  OBVIOUS
<1>1. Browsing
  <2>1. BInv
    BY BInvInit DEF DiscoveryInit
  <2> QED
    BY <2>1 DEF DiscoveryInit, Init, Browsing
<1>2. left \in [cache -> 0..TtlShared]
  BY DEF DiscoveryInit, Init
<1>3. DiscoveryTyped
  BY <1>2, TheConstants DEF DiscoveryInit, Init, DiscoveryTyped
<1> QED
  BY <1>1, <1>3 DEF DTyped

LEMMA DTypedStep ==
    ASSUME DTyped, [DiscoveryNext]_discoveryVars
    PROVE  DTyped'
<1>0. /\ left \in [cache -> 0..TtlShared] /\ due \subseteq cache
      /\ queryIn \in 0..QueryIntervalMax /\ queryInterval \in 1..QueryIntervalMax
      /\ queries \in Seq(Question) /\ responses \in Seq(SUBSET Message)
      /\ inbox \subseteq Message
      /\ service \in {"new", "up", "stopped", "crashed"}
      /\ announcements \in Nat /\ pending \subseteq Own
      /\ starts \in Nat /\ losses \in Nat /\ since \in Nat /\ missing \in Nat
  BY DEF DTyped, DiscoveryTyped
<1>a. Unaffected => Browsing' /\ cache' = cache
  BY StillPtr
<1>b. Carried(Own) \in SUBSET Message /\ Withdrawn(Own) \in SUBSET Message
  BY MessagesTyped
<1>c. \A ms \in SUBSET Message : Append(responses, ms) \in Seq(SUBSET Message)
  BY <1>0, QueueTyped
<1>1. CASE ReceiveResponse
  <2>1. Browsing' /\ cache' = cache
    BY <1>1, <1>a DEF ReceiveResponse, Idle
  <2>2. inbox' \in SUBSET Message /\ responses' \in Seq(SUBSET Message)
    BY <1>0, <1>1, QueueTyped DEF ReceiveResponse
  <2> QED
    BY <1>0, <1>1, <2>1, <2>2
       DEF ReceiveResponse, clocks, responder, history, DTyped, DiscoveryTyped
<1>2. ASSUME NEW m \in inbox, Handle(m) PROVE DTyped'
  <2>1. Browsing' /\ left' \in [cache' -> 0..TtlShared] /\ due' \subseteq cache'
    BY <1>2, HandleEffect
  <2>2. queries' \in Seq(Question)
    BY <1>0, <1>2, HandleEffect, QueueTyped
  <2> QED
    BY <1>0, <1>2, <2>1, <2>2 DEF Handle, responder, history, DTyped, DiscoveryTyped
<1>3. ASSUME NEW r \in cache, Requery(r) PROVE DTyped'
  <2>1. Browsing' /\ cache' = cache
    BY <1>3, <1>a DEF Requery, Idle
  <2>2. r.type \in {"PTR", "SRV", "TXT", "A"}
    BY RecordCases DEF DTyped, Browsing, BInv, TypeOK
  <2>3. Query({r.type}) \in Question
    BY <2>2, QuestionsTyped
  <2>4. queries' \in Seq(Question)
    BY <1>0, <1>3, <2>3, QueueTyped DEF Requery
  <2> QED
    BY <1>0, <1>3, <2>1, <2>4 DEF Requery, Idle, responder, history, DTyped, DiscoveryTyped
<1>4. ASSUME NEW r \in cache, TimeIsUp(r) PROVE DTyped'
  <2>1. Browsing' /\ cache' = cache \ {r}
    BY <1>4, ExpirePtr DEF TimeIsUp, Expire, DTyped, Browsing, BInv, TypeOK
  <2>2. left' \in [cache' -> 0..TtlShared] /\ due' \subseteq cache'
    BY <1>0, <1>4, <2>1 DEF TimeIsUp
  <2> QED
    BY <1>0, <1>4, <2>1, <2>2 DEF TimeIsUp, link, responder, history, DTyped, DiscoveryTyped
<1>5. CASE PtrQuery
  <2>1. Browsing' /\ cache' = cache
    BY <1>5, StillPtr DEF PtrQuery
  <2>2. Query({"PTR"}) \in Question
    BY QuestionsTyped
  <2>3. queries' \in Seq(Question)
    BY <1>0, <1>5, <2>2, QueueTyped DEF PtrQuery
  <2>4. queryIn' \in 0..QueryIntervalMax /\ queryInterval' \in 1..QueryIntervalMax
    BY <1>0, <1>5, NextIntervalTyped, TheConstants DEF PtrQuery
  <2> QED
    BY <1>0, <1>5, <2>1, <2>3, <2>4 DEF PtrQuery, responder, history, DTyped, DiscoveryTyped
<1>6. CASE ServiceStarts \/ ServiceStops \/ ServiceCrashes
  <2>1. Browsing' /\ cache' = cache
    BY <1>6, <1>a DEF ServiceStarts, ServiceStops, ServiceCrashes, Idle
  <2>2. responses' \in Seq(SUBSET Message)
    BY <1>0, <1>6, <1>b, <1>c DEF ServiceStarts, ServiceStops, ServiceCrashes, link
  <2>3. /\ service' \in {"new", "up", "stopped", "crashed"} /\ announcements' \in Nat
        /\ pending' \subseteq Own /\ starts' \in Nat /\ since' \in Nat /\ missing' \in Nat
        /\ losses' = losses
    BY <1>0, <1>6, TheConstants DEF ServiceStarts, ServiceStops, ServiceCrashes
  <2>4. UNCHANGED <<left, due, queryIn, queryInterval, inbox, queries>>
    BY <1>6 DEF ServiceStarts, ServiceStops, ServiceCrashes, clocks, link
  <2> QED
    BY <1>0, <2>1, <2>2, <2>3, <2>4 DEF DTyped, DiscoveryTyped
<1>7. CASE Announcement \/ SendAnswers
  <2>1. Browsing' /\ cache' = cache
    BY <1>7, <1>a DEF Announcement, SendAnswers, Idle
  <2>2. pending \cup Additionals(pending) \in SUBSET Own
    BY <1>0 DEF Additionals
  <2>3. Carried(pending \cup Additionals(pending)) \in SUBSET Message
    BY <2>2, MessagesTyped
  <2>4. responses' \in Seq(SUBSET Message)
    BY <1>7, <1>b, <1>c, <2>3 DEF Announcement, SendAnswers
  <2>5. announcements' \in Nat /\ pending' \subseteq Own
    BY <1>0, <1>7 DEF Announcement, SendAnswers
  <2>6. UNCHANGED <<left, due, queryIn, queryInterval, inbox, queries, service,
                    starts, losses, since, missing>>
    BY <1>7 DEF Announcement, SendAnswers, clocks, history
  <2> QED
    BY <1>0, <2>1, <2>4, <2>5, <2>6 DEF DTyped, DiscoveryTyped
<1>8. CASE ReceiveQuery \/ LoseQuery
  <2>1. Browsing' /\ cache' = cache
    BY <1>8, <1>a DEF ReceiveQuery, LoseQuery, Idle
  <2>2. queries' \in Seq(Question)
    BY <1>0, <1>8, QueueTyped DEF ReceiveQuery, LoseQuery
  <2>3. pending' \subseteq Own /\ losses' \in Nat
    BY <1>0, <1>8 DEF ReceiveQuery, LoseQuery, Answers, responder, history
  <2>4. UNCHANGED <<left, due, queryIn, queryInterval, inbox, responses, service,
                    announcements, starts, since, missing>>
    BY <1>8 DEF ReceiveQuery, LoseQuery, clocks, history, responder
  <2> QED
    BY <1>0, <2>1, <2>2, <2>3, <2>4 DEF DTyped, DiscoveryTyped
<1>9. CASE LoseResponse
  <2>1. Browsing' /\ cache' = cache
    BY <1>9, <1>a DEF LoseResponse, Idle
  <2>2. responses' \in Seq(SUBSET Message)
    BY <1>0, <1>9, QueueTyped DEF LoseResponse
  <2> QED
    BY <1>0, <1>9, <2>1, <2>2
       DEF LoseResponse, clocks, responder, DTyped, DiscoveryTyped
<1>10. CASE Tick
  <2>1. Browsing' /\ cache' = cache
    BY <1>10, <1>a DEF Tick, Idle
  <2>2. left' \in [cache' -> 0..TtlShared] /\ due' \subseteq cache'
    BY <1>0, <1>10, <2>1, TheConstants DEF Tick, Quiet
  <2>3. queryIn' \in 0..QueryIntervalMax
    BY <1>0, <1>10, TheConstants DEF Tick, Quiet
  <2>4. since' \in Nat /\ missing' \in Nat
    BY <1>0, <1>10, CountTyped DEF Tick
  <2>5. UNCHANGED <<queryInterval, inbox, queries, responses, service, announcements,
                    pending, starts, losses>>
    BY <1>10 DEF Tick, link, responder
  <2> QED
    BY <1>0, <2>1, <2>2, <2>3, <2>4, <2>5 DEF DTyped, DiscoveryTyped
<1>11. CASE UNCHANGED discoveryVars
  <2>1. BInv'
    BY <1>11, BInvStep DEF discoveryVars, DTyped, Browsing
  <2> QED
    BY <1>0, <1>11, <2>1 DEF discoveryVars, vars, derived, clocks, link, responder, history,
       DTyped, Browsing, DiscoveryTyped
<1> QED
  BY <1>1, <1>2, <1>3, <1>4, <1>5, <1>6, <1>7, <1>8, <1>9, <1>10, <1>11
     DEF DiscoveryNext

------------------------------------------------------------------------------
(* The service has gone *)

\* The last of a queue is the last of what is left when its first has been taken.
LEMMA LastOfTail ==
    ASSUME NEW S, NEW q \in Seq(S), q # <<>>
    PROVE  IF Tail(q) = <<>> THEN q[Len(q)] = Head(q)
           ELSE Tail(q)[Len(Tail(q))] = q[Len(q)]
<1>1. Len(q) \in Nat /\ Len(q) # 0 /\ Len(Tail(q)) = Len(q) - 1
  OBVIOUS
<1>2. CASE Len(q) = 1
  <2>1. Tail(q) \in Seq(S) /\ Len(Tail(q)) = 0
    BY <1>1, <1>2
  <2>2. Tail(q) = <<>>
    BY <2>1, EmptySeq
  <2> QED
    BY <1>2, <2>2
<1>3. CASE Len(q) > 1
  BY <1>1, <1>3
<1> QED
  BY <1>1, <1>2, <1>3

LEMMA GoneInit == DiscoveryInit => GoneInv
BY DEF DiscoveryInit, Init, GoneInv, Silent

\* What happens to neither the PTR, the responses nor the service changes nothing.
LEMMA GoneElsewhere ==
    ASSUME GoneInv,
           UNCHANGED <<cache, left, since, service, responses, inbox, announcements>>,
           service # "up" /\ pending = {} => pending' = {},
           losses' = 0 => losses = 0
    PROVE  GoneInv'
BY DEF GoneInv, Silent, FarewellOnItsWay

LEMMA GoneReceive ==
    ASSUME DTyped, GoneInv, ReceiveResponse
    PROVE  GoneInv'
<1>1. UNCHANGED <<cache, left, since, service, announcements, pending, losses>>
  BY DEF ReceiveResponse, Idle, Unaffected, clocks, responder, history
<1>2. responses # <<>> /\ inbox' = Head(responses) /\ responses' = Tail(responses)
  BY DEF ReceiveResponse
<1>3. Silent'
  BY <1>1, <1>2 DEF GoneInv, Silent
<1>4. ASSUME service = "stopped", losses = 0 PROVE FarewellOnItsWay'
  <2>1. responses[Len(responses)] = Withdrawn(Own)
    BY <1>2, <1>4 DEF GoneInv, FarewellOnItsWay
  <2>2. IF Tail(responses) = <<>> THEN responses[Len(responses)] = Head(responses)
        ELSE Tail(responses)[Len(Tail(responses))] = responses[Len(responses)]
    BY <1>2, LastOfTail DEF DTyped, DiscoveryTyped
  <2>3. [rec |-> Ptr, ttl |-> 0] \in Withdrawn(Own)
    BY OwnRecords DEF Withdrawn
  <2> QED
    BY <1>2, <2>1, <2>2, <2>3 DEF FarewellOnItsWay
<1> QED
  BY <1>1, <1>3, <1>4 DEF GoneInv

LEMMA GoneHandle ==
    ASSUME DTyped, GoneInv, NEW m \in inbox, Handle(m)
    PROVE  GoneInv'
<1>1. UNCHANGED <<since, service, responses, announcements, pending, losses>>
      /\ inbox' = inbox \ {m}
  BY DEF Handle, responder, history
<1>2. service # "up" => since = 0
  BY DEF GoneInv, Silent, DTyped, DiscoveryTyped
<1>3. Silent'
  <2>1. left' \in [cache' -> 0..TtlShared]
    BY HandleEffect
  <2>2. service' # "up" => since' = 0 /\ announcements' = 0 /\ pending' = {}
    BY <1>1, <1>2 DEF GoneInv, Silent
  <2>3. Ptr \in cache' => left'[Ptr] \in Nat /\ left'[Ptr] <= TtlShared
    BY <2>1, TheConstants
  <2> QED
    BY <2>2, <2>3 DEF Silent
<1>4. ASSUME service = "stopped", losses = 0 PROVE FarewellOnItsWay'
  <2>1. CASE responses # <<>> /\ responses[Len(responses)] = Withdrawn(Own)
    BY <1>1, <2>1 DEF FarewellOnItsWay
  <2>2. CASE /\ responses = <<>> /\ inbox \subseteq Withdrawn(Own)
             /\ \/ [rec |-> Ptr, ttl |-> 0] \in inbox
                \/ Ptr \in cache => left[Ptr] + since <= GoodbyeGrace
    <3>1. m.ttl = 0 /\ m = [rec |-> m.rec, ttl |-> 0]
      BY <2>2 DEF Withdrawn
    <3>2. CASE m.rec = Ptr
      <4>1. Ptr \in cache' => left'[Ptr] = GoodbyeGrace
        BY <3>1, <3>2, HandleEffect
      <4>2. Ptr \in cache' => left'[Ptr] + since' <= GoodbyeGrace
        BY <1>1, <1>2, <1>4, <4>1, TheConstants
      <4> QED
        BY <1>1, <2>2, <4>2 DEF FarewellOnItsWay
    <3>3. CASE m.rec # Ptr
      <4>1. /\ Ptr \in cache' <=> Ptr \in cache
            /\ Ptr \in cache => left'[Ptr] = left[Ptr]
        BY <3>3, HandleEffect
      <4>2. [rec |-> Ptr, ttl |-> 0] \in inbox => [rec |-> Ptr, ttl |-> 0] \in inbox'
        BY <1>1, <3>1, <3>3
      <4> QED
        BY <1>1, <2>2, <4>1, <4>2 DEF FarewellOnItsWay
    <3> QED
      BY <3>2, <3>3
  <2> QED
    BY <1>4, <2>1, <2>2 DEF GoneInv, FarewellOnItsWay
<1> QED
  BY <1>1, <1>3, <1>4 DEF GoneInv

LEMMA GoneTimeIsUp ==
    ASSUME DTyped, GoneInv, NEW r \in cache, TimeIsUp(r)
    PROVE  GoneInv'
<1>1. UNCHANGED <<since, service, responses, announcements, pending, losses, inbox>>
  BY DEF TimeIsUp, link, responder, history
<1>2. cache' = cache \ {r} /\ left' = [s \in cache' |-> left[s]]
  BY DEF TimeIsUp, Expire
<1>3. Ptr \in cache' => Ptr \in cache /\ left'[Ptr] = left[Ptr]
  BY <1>2
<1> QED
  BY <1>1, <1>3 DEF GoneInv, Silent, FarewellOnItsWay

LEMMA GoneTick ==
    ASSUME DTyped, GoneInv, Tick
    PROVE  GoneInv'
<1>1. UNCHANGED <<cache, service, responses, announcements, pending, losses, inbox>>
      /\ responses = <<>> /\ inbox = {} /\ since' = Count(since)
  BY DEF Tick, Quiet, Idle, Unaffected, link, responder
<1>2. Ptr \in cache => /\ left[Ptr] \in Nat /\ left[Ptr] > 0
                       /\ left'[Ptr] = left[Ptr] - 1
  BY TheConstants DEF Tick, Quiet, DTyped, DiscoveryTyped
<1>3. since \in Nat /\ (since <= TtlShared => since' = since + 1)
  BY <1>1, CountTyped DEF DTyped, DiscoveryTyped
<1>4. ASSUME service # "up", Ptr \in cache PROVE left'[Ptr] + since' = left[Ptr] + since
  <2>1. left[Ptr] + since <= TtlShared
    BY <1>4 DEF GoneInv, Silent
  <2> QED
    BY <1>2, <1>3, <1>4, <2>1, TheConstants
<1> QED
  BY <1>1, <1>4 DEF GoneInv, Silent, FarewellOnItsWay

\* The steps of the service itself: while it is up nothing is asked of the PTR, and
\* when it goes the goodbye is the last message it sends.
LEMMA GoneService ==
    ASSUME DTyped, GoneInv, ServiceStarts \/ ServiceStops \/ ServiceCrashes
    PROVE  GoneInv'
<1>1. UNCHANGED <<cache, left>>
  BY DEF ServiceStarts, ServiceStops, ServiceCrashes, Idle, Unaffected, clocks
<1>2. CASE ServiceStarts
  BY <1>2 DEF ServiceStarts, GoneInv, Silent
<1>3. CASE ServiceStops \/ ServiceCrashes
  <2>1. service' # "up" /\ announcements' = 0 /\ pending' = {} /\ since' = 0
    BY <1>3 DEF ServiceStops, ServiceCrashes
  <2>2. Ptr \in cache => left[Ptr] \in Nat /\ left[Ptr] <= TtlShared
    BY TheConstants DEF DTyped, DiscoveryTyped
  <2>3. Silent'
    BY <1>1, <2>1, <2>2 DEF Silent
  <2>4. service' = "stopped" => responses' = Append(responses, Withdrawn(Own))
    BY <1>3 DEF ServiceStops, ServiceCrashes
  <2>5. service' = "stopped" => FarewellOnItsWay'
    <3>1. responses \in Seq(SUBSET Message)
      BY DEF DTyped, DiscoveryTyped
    <3>2. LET q == Append(responses, Withdrawn(Own))
          IN  q # <<>> /\ q[Len(q)] = Withdrawn(Own)
      BY <3>1
    <3> QED
      BY <2>4, <3>2 DEF FarewellOnItsWay
  <2> QED
    BY <2>3, <2>5 DEF GoneInv
<1> QED
  BY <1>2, <1>3

LEMMA GoneStep ==
    ASSUME DTyped, GoneInv, [DiscoveryNext]_discoveryVars
    PROVE  GoneInv'
<1>1. ASSUME NEW r \in cache, Requery(r) PROVE GoneInv'
  BY <1>1, GoneElsewhere DEF Requery, Idle, Unaffected, responder, history
<1>2. CASE PtrQuery
  BY <1>2, GoneElsewhere DEF PtrQuery, QueryTimer, responder, history
<1>3. CASE ReceiveQuery
  BY <1>3, GoneElsewhere DEF ReceiveQuery, Idle, Unaffected, clocks, history
<1>4. CASE LoseQuery
  BY <1>4, GoneElsewhere DEF LoseQuery, Idle, Unaffected, clocks, responder,
     DTyped, DiscoveryTyped
<1>5. CASE UNCHANGED discoveryVars
  BY <1>5, GoneElsewhere DEF discoveryVars, vars, clocks, link, responder, history
<1>6. CASE Announcement \/ SendAnswers
  <2>1. service = "up" /\ service' = "up"
    BY <1>6 DEF Announcement, SendAnswers, GoneInv, Silent
  <2> QED
    BY <2>1 DEF GoneInv, Silent
<1>7. CASE LoseResponse
  <2>1. losses' # 0
    BY <1>7 DEF LoseResponse, DTyped, DiscoveryTyped
  <2>2. UNCHANGED <<cache, left, since, service, inbox, announcements, pending>>
        /\ responses # <<>>
    BY <1>7 DEF LoseResponse, Idle, Unaffected, clocks, responder
  <2> QED
    BY <2>1, <2>2 DEF GoneInv, Silent
<1> QED
  BY <1>1, <1>2, <1>3, <1>4, <1>5, <1>6, <1>7,
     GoneReceive, GoneHandle, GoneTimeIsUp, GoneTick, GoneService DEF DiscoveryNext

------------------------------------------------------------------------------
(* The service is up *)

LEMMA PatienceGrows ==
    \A n \in Nat : /\ Patience(n) \in Nat /\ QueryIntervalMax <= Patience(n)
                   /\ Patience(n + 1) = Patience(n) + QueryIntervalMax
<1>1. QueryIntervalMax \in Nat
  BY TheConstants
<1> QED
  BY <1>1 DEF Patience

LEMMA FoundInit == DiscoveryInit => FoundInv
<1> SUFFICES ASSUME DiscoveryInit PROVE FoundInv
  OBVIOUS
<1>1. Patience(0) \in Nat /\ QueryIntervalMax \in Nat
  BY PatienceGrows, TheConstants
<1>2. losses = 0 /\ missing = 0 /\ queryIn = 0 /\ service # "up" /\ cache = {}
  BY DEF DiscoveryInit, Init
<1> QED
  BY <1>1, <1>2 DEF FoundInv

\* What keeps the PTR on its way, loses nothing and leaves the clock of the query
\* and the PTR's lifetime alone.
LEMMA FoundElsewhere ==
    ASSUME FoundInv,
           UNCHANGED <<queryIn, losses, missing, service>>,
           Ptr \in cache' <=> Ptr \in cache,
           Ptr \in cache => left'[Ptr] = left[Ptr],
           Ptr \notin cache /\ service = "up" /\ PtrOnItsWay => PtrOnItsWay'
    PROVE  FoundInv'
BY DEF FoundInv, Patience

\* A queue that others join, or whose first is taken, has no fewer others.
LEMMA JoinedQueue ==
    ASSUME NEW S, NEW q \in Seq(S), NEW s \in Seq(S), NEW n \in 1..Len(q)
    PROVE  n \in 1..Len(q \o s) /\ (q \o s)[n] = q[n]
OBVIOUS

LEMMA AppendedQueue ==
    ASSUME NEW S, NEW q \in Seq(S), NEW x \in S
    PROVE  /\ \A n \in 1..Len(q) : n \in 1..Len(Append(q, x)) /\ Append(q, x)[n] = q[n]
           /\ \E n \in 1..Len(Append(q, x)) : Append(q, x)[n] = x
<1>1. Len(q) + 1 \in 1..Len(Append(q, x)) /\ Append(q, x)[Len(q) + 1] = x
  OBVIOUS
<1>2. \A n \in 1..Len(q) : n \in 1..Len(Append(q, x)) /\ Append(q, x)[n] = q[n]
  OBVIOUS
<1> QED
  BY <1>1, <1>2

LEMMA ShortenedQueue ==
    ASSUME NEW S, NEW q \in Seq(S), q # <<>>, NEW n \in 1..Len(q)
    PROVE  \/ q[n] = Head(q)
           \/ n - 1 \in 1..Len(Tail(q)) /\ Tail(q)[n - 1] = q[n]
<1>1. Len(Tail(q)) = Len(q) - 1
  OBVIOUS
<1>2. CASE n = 1
  BY <1>2
<1>3. CASE n # 1
  BY <1>1, <1>3
<1> QED
  BY <1>2, <1>3

\* The query timer: a query that asks for the PTR is on its way, if it is unknown.
LEMMA FoundPtrQuery ==
    ASSUME DTyped, FoundInv, PtrQuery
    PROVE  FoundInv'
<1>1. /\ queryIn = 0 /\ queryIn' = queryInterval
      /\ UNCHANGED <<cache, left, missing, losses, service>>
      /\ queries' = Append(queries, Query({"PTR"}))
  BY DEF PtrQuery, QueryTimer, responder, history
<1>2. queryInterval \in Nat /\ queryInterval <= QueryIntervalMax /\ QueryIntervalMax \in Nat
  BY TheConstants DEF DTyped, DiscoveryTyped
<1>3. losses \in Nat /\ missing \in Nat /\ Patience(losses) \in Nat
  BY PatienceGrows DEF DTyped, DiscoveryTyped
<1>4. Ptr \notin cache => PtrOnItsWay'
  <2>1. queries \in Seq(Question) /\ Query({"PTR"}) \in Question
    BY QuestionsTyped DEF DTyped, DiscoveryTyped
  <2>2. PICK n \in 1..Len(queries') : queries'[n] = Query({"PTR"})
    BY <1>1, <2>1, AppendedQueue
  <2> QED
    BY <2>2, QueryAsks DEF PtrOnItsWay
<1>5. missing <= Patience(losses)
  BY DEF FoundInv
<1>6. missing' <= Patience(losses)' /\ missing' + queryIn' <= Patience(losses)' + QueryIntervalMax
  BY <1>1, <1>2, <1>3, <1>5 DEF Patience
<1> QED
  BY <1>1, <1>4, <1>6 DEF FoundInv

LEMMA FoundHandle ==
    ASSUME DTyped, FoundInv, NEW m \in inbox, Handle(m)
    PROVE  FoundInv'
<1>1. UNCHANGED <<queryIn, losses, missing, service, responses, pending>>
      /\ inbox' = inbox \ {m}
  BY DEF Handle, responder, history
<1>2. m.ttl \in Nat
  BY TheConstants DEF DTyped, DiscoveryTyped, Message
<1>3. CASE m.rec = Ptr /\ m.ttl > 0
  <2>1. Ptr \in cache' /\ left'[Ptr] # 0
    BY <1>2, <1>3, HandleEffect
  <2> QED
    BY <1>1, <2>1 DEF FoundInv, Patience
<1>4. CASE ~(m.rec = Ptr /\ m.ttl > 0)
  <2>1. PICK s \in Seq(Question) : queries' = queries \o s
    BY HandleEffect
  <2>2. queries \in Seq(Question)
    BY DEF DTyped, DiscoveryTyped
  <2>3. (\E n \in 1..Len(queries) : Asks(queries[n]))
           => \E n \in 1..Len(queries') : Asks(queries'[n])
    BY <2>1, <2>2, JoinedQueue
  <2>4. Brings(inbox) => Brings(inbox')
    BY <1>1, <1>4 DEF Brings
  <2>5. PtrOnItsWay => PtrOnItsWay'
    BY <1>1, <2>3, <2>4 DEF PtrOnItsWay
  <2>6. CASE m.rec = Ptr
    <3>1. (Ptr \in cache' <=> Ptr \in cache) /\ (Ptr \in cache' => left'[Ptr] # 0)
      BY <1>2, <1>4, <2>6, HandleEffect, TheConstants
    <3> QED
      BY <1>1, <2>5, <3>1 DEF FoundInv, Patience
  <2>7. CASE m.rec # Ptr
    <3>1. (Ptr \in cache' <=> Ptr \in cache) /\ (Ptr \in cache => left'[Ptr] = left[Ptr])
      BY <2>7, HandleEffect
    <3> QED
      BY <1>1, <2>5, <3>1, FoundElsewhere
  <2> QED
    BY <2>6, <2>7
<1> QED
  BY <1>3, <1>4


LEMMA FoundReceive ==
    ASSUME DTyped, FoundInv, ReceiveResponse
    PROVE  FoundInv'
<1>1. /\ UNCHANGED <<cache, left, queryIn, losses, missing, service, queries, pending>>
      /\ inbox = {}
      /\ responses # <<>> /\ inbox' = Head(responses) /\ responses' = Tail(responses)
  BY DEF ReceiveResponse, Idle, Unaffected, clocks, responder, history
<1>2. ASSUME NEW n \in 1..Len(responses), Brings(responses[n]) PROVE PtrOnItsWay'
  <2>1. \/ responses[n] = inbox'
        \/ n - 1 \in 1..Len(responses') /\ responses'[n - 1] = responses[n]
    BY <1>1, ShortenedQueue DEF DTyped, DiscoveryTyped
  <2> QED
    BY <1>2, <2>1 DEF PtrOnItsWay, Brings
<1>3. PtrOnItsWay => PtrOnItsWay'
  BY <1>1, <1>2 DEF PtrOnItsWay, Brings
<1> QED
  BY <1>1, <1>3, FoundElsewhere

\* A query that asks for the PTR is answered by a service that is up.
LEMMA FoundReceiveQuery ==
    ASSUME DTyped, FoundInv, ReceiveQuery
    PROVE  FoundInv'
<1>1. /\ UNCHANGED <<cache, left, queryIn, losses, missing, service, inbox, responses>>
      /\ queries # <<>> /\ queries' = Tail(queries)
  BY DEF ReceiveQuery, Idle, Unaffected, clocks, history
<1>2. service = "up" => pending' = pending \cup Answers(Head(queries))
  BY DEF ReceiveQuery
<1>3. ASSUME service = "up", NEW n \in 1..Len(queries), Asks(queries[n]) PROVE PtrOnItsWay'
  <2>0. queries \in Seq(Question)
    BY DEF DTyped, DiscoveryTyped
  <2>1. \/ queries[n] = Head(queries)
        \/ n - 1 \in 1..Len(queries') /\ queries'[n - 1] = queries[n]
    BY <1>1, <2>0, ShortenedQueue
  <2>2. CASE queries[n] = Head(queries)
    <3>1. Ptr \in Answers(Head(queries))
      BY <1>3, <2>0, <2>2, AskedAnswers
    <3> QED
      BY <1>2, <1>3, <3>1 DEF PtrOnItsWay
  <2> QED
    BY <1>3, <2>1, <2>2 DEF PtrOnItsWay
<1>4. service = "up" /\ PtrOnItsWay => PtrOnItsWay'
  BY <1>1, <1>2, <1>3 DEF PtrOnItsWay
<1> QED
  BY <1>1, <1>4, FoundElsewhere

LEMMA FoundSend ==
    ASSUME DTyped, FoundInv, Announcement \/ SendAnswers
    PROVE  FoundInv'
<1>1. UNCHANGED <<cache, left, queryIn, losses, missing, service, queries, inbox>>
  BY DEF Announcement, SendAnswers, Idle, Unaffected, clocks, history
<1>2. PICK rs \in SUBSET Own : /\ responses' = Append(responses, Carried(rs))
                               /\ pending' = pending \/ pending \subseteq rs
  <2>1. CASE Announcement
    BY <2>1 DEF Announcement
  <2>2. CASE SendAnswers
    <3>1. pending \cup Additionals(pending) \in SUBSET Own
      BY DEF Additionals, DTyped, DiscoveryTyped
    <3> QED
      BY <2>2, <3>1 DEF SendAnswers
  <2> QED
    BY <2>1, <2>2
<1>3. responses \in Seq(SUBSET Message) /\ Carried(rs) \in SUBSET Message
  BY MessagesTyped DEF DTyped, DiscoveryTyped
<1>4. \A n \in 1..Len(responses) : n \in 1..Len(responses') /\ responses'[n] = responses[n]
  BY <1>2, <1>3, AppendedQueue
<1>5. \E n \in 1..Len(responses') : responses'[n] = Carried(rs)
  BY <1>2, <1>3, AppendedQueue
<1>6. Ptr \in pending => PtrOnItsWay'
  <2>1. CASE pending' = pending
    BY <2>1 DEF PtrOnItsWay
  <2>2. CASE pending \subseteq rs
    BY <1>5, <2>2, CarriedBrings DEF PtrOnItsWay
  <2> QED
    BY <1>2, <2>1, <2>2
<1>7. (\E n \in 1..Len(responses) : Brings(responses[n]))
         => \E n \in 1..Len(responses') : Brings(responses'[n])
  BY <1>4
<1>8. PtrOnItsWay => PtrOnItsWay'
  BY <1>1, <1>6, <1>7 DEF PtrOnItsWay, Brings
<1> QED
  BY <1>1, <1>8, FoundElsewhere

\* One message less may cost one interval more.
LEMMA FoundLoss ==
    ASSUME DTyped, FoundInv, LoseQuery \/ LoseResponse
    PROVE  FoundInv'
<1>1. UNCHANGED <<cache, left, queryIn, missing, service>> /\ losses' = losses + 1
  BY DEF LoseQuery, LoseResponse, Idle, Unaffected, clocks, responder
<1>2. /\ Patience(losses') = Patience(losses) + QueryIntervalMax
      /\ Patience(losses) \in Nat /\ QueryIntervalMax \in Nat
      /\ missing \in Nat /\ queryIn \in Nat
  BY <1>1, PatienceGrows, TheConstants DEF DTyped, DiscoveryTyped
<1>3. /\ missing <= Patience(losses)
      /\ missing + queryIn <= Patience(losses) + QueryIntervalMax
      /\ service # "up" => missing = 0
      /\ Ptr \in cache /\ left[Ptr] = 0 => missing = 0
  BY DEF FoundInv
<1>4. /\ missing' <= Patience(losses')
      /\ missing' + queryIn' <= Patience(losses')
      /\ missing' + queryIn' <= Patience(losses') + QueryIntervalMax
  BY <1>1, <1>2, <1>3
<1> QED
  BY <1>1, <1>3, <1>4 DEF FoundInv, Patience

LEMMA FoundTimeIsUp ==
    ASSUME DTyped, FoundInv, NEW r \in cache, TimeIsUp(r)
    PROVE  FoundInv'
<1>1. /\ UNCHANGED <<queryIn, missing, losses, service, queries, responses, pending, inbox>>
      /\ cache' = cache \ {r} /\ left' = [s \in cache' |-> left[s]] /\ left[r] = 0
  BY DEF TimeIsUp, Expire, link, responder, history
<1>2. CASE r = Ptr
  <2>1. missing = 0 /\ Ptr \notin cache'
    BY <1>1, <1>2 DEF FoundInv
  <2>2. /\ queryIn \in Nat /\ queryIn <= QueryIntervalMax /\ QueryIntervalMax \in Nat
        /\ Patience(losses) \in Nat /\ QueryIntervalMax <= Patience(losses)
    BY PatienceGrows, TheConstants DEF DTyped, DiscoveryTyped
  <2>3. missing' <= Patience(losses) /\ missing' + queryIn' <= Patience(losses)
        /\ missing' + queryIn' <= Patience(losses) + QueryIntervalMax
    BY <1>1, <2>1, <2>2
  <2> QED
    BY <1>1, <2>1, <2>3 DEF FoundInv, Patience
<1>3. CASE r # Ptr
  <2>1. (Ptr \in cache' <=> Ptr \in cache) /\ (Ptr \in cache => left'[Ptr] = left[Ptr])
    BY <1>1, <1>3
  <2>2. PtrOnItsWay => PtrOnItsWay'
    BY <1>1 DEF PtrOnItsWay, Brings
  <2> QED
    BY <1>1, <2>1, <2>2, FoundElsewhere
<1> QED
  BY <1>2, <1>3

\* A service that goes or comes starts from zero.
LEMMA FoundService ==
    ASSUME DTyped, FoundInv, ServiceStarts \/ ServiceStops \/ ServiceCrashes
    PROVE  FoundInv'
<1>1. UNCHANGED <<cache, left, queryIn, losses>>
  BY DEF ServiceStarts, ServiceStops, ServiceCrashes, Idle, Unaffected, clocks
<1>2. missing' = 0
  BY DEF ServiceStarts, ServiceStops, ServiceCrashes, FoundInv
<1>3. /\ queryIn \in Nat /\ queryIn <= QueryIntervalMax /\ QueryIntervalMax \in Nat
      /\ Patience(losses) \in Nat /\ QueryIntervalMax <= Patience(losses)
  BY PatienceGrows, TheConstants DEF DTyped, DiscoveryTyped
<1>4. missing' <= Patience(losses) /\ missing' + queryIn' <= Patience(losses)
      /\ missing' + queryIn' <= Patience(losses) + QueryIntervalMax
  BY <1>1, <1>2, <1>3
<1> QED
  BY <1>1, <1>2, <1>4 DEF FoundInv, Patience

\* Time passes only when nothing is on its way.
LEMMA FoundTick ==
    ASSUME DTyped, FoundInv, Tick
    PROVE  FoundInv'
<1>1. /\ UNCHANGED <<cache, losses, service>> /\ queryIn' = queryIn - 1 /\ queryIn > 0
      /\ queries = <<>> /\ responses = <<>> /\ pending = {} /\ inbox = {}
      /\ missing' = IF service = "up" /\ Inst \notin instances THEN missing + 1 ELSE 0
  BY DEF Tick, Quiet, Idle, Unaffected, link, responder
<1>2. ~PtrOnItsWay
  BY <1>1 DEF PtrOnItsWay, Brings
<1>3. /\ queryIn \in Nat /\ missing \in Nat /\ queryIn <= QueryIntervalMax
      /\ QueryIntervalMax \in Nat /\ Patience(losses) \in Nat
      /\ QueryIntervalMax <= Patience(losses)
  BY PatienceGrows, TheConstants DEF DTyped, DiscoveryTyped
<1>4. CASE service = "up" /\ Inst \notin instances
  <2>1. Ptr \notin cache
    BY <1>4 DEF DTyped, Browsing
  <2>2. missing + queryIn <= Patience(losses)
    BY <1>2, <1>4, <2>1 DEF FoundInv
  <2>3. missing' <= Patience(losses) /\ missing' + queryIn' <= Patience(losses)
        /\ missing' + queryIn' <= Patience(losses) + QueryIntervalMax
    BY <1>1, <1>3, <1>4, <2>2
  <2> QED
    BY <1>1, <1>4, <2>1, <2>3 DEF FoundInv, Patience
<1>5. CASE ~(service = "up" /\ Inst \notin instances)
  <2>1. missing' = 0 /\ queryIn' <= QueryIntervalMax /\ queryIn' \in Nat
    BY <1>1, <1>3, <1>5
  <2>2. missing' <= Patience(losses) /\ missing' + queryIn' <= Patience(losses)
        /\ missing' + queryIn' <= Patience(losses) + QueryIntervalMax
    BY <1>3, <2>1
  <2> QED
    BY <1>1, <2>1, <2>2 DEF FoundInv, Patience
<1> QED
  BY <1>4, <1>5

LEMMA FoundRequery ==
    ASSUME DTyped, FoundInv, NEW r \in cache, Requery(r)
    PROVE  FoundInv'
<1>1. /\ UNCHANGED <<cache, left, queryIn, losses, missing, service, responses, pending, inbox>>
      /\ queries' = Append(queries, Query({r.type}))
  BY DEF Requery, Idle, Unaffected, responder, history
<1>2. queries \in Seq(Question) /\ Query({r.type}) \in Question
  <2>1. r.type \in {"PTR", "SRV", "TXT", "A"}
    BY RecordCases DEF DTyped, Browsing, BInv, TypeOK
  <2> QED
    BY <2>1, QuestionsTyped DEF DTyped, DiscoveryTyped
<1>3. \A n \in 1..Len(queries) : n \in 1..Len(queries') /\ queries'[n] = queries[n]
  BY <1>1, <1>2, AppendedQueue
<1>4. PtrOnItsWay => PtrOnItsWay'
  BY <1>1, <1>3 DEF PtrOnItsWay, Brings
<1> QED
  BY <1>1, <1>4, FoundElsewhere

LEMMA FoundStep ==
    ASSUME DTyped, FoundInv, [DiscoveryNext]_discoveryVars
    PROVE  FoundInv'
<1>1. CASE UNCHANGED discoveryVars
  BY <1>1 DEF discoveryVars, vars, clocks, link, responder, history,
     FoundInv, Patience, PtrOnItsWay, Brings
<1> QED
  BY <1>1, FoundReceive, FoundHandle, FoundRequery, FoundTimeIsUp, FoundPtrQuery,
     FoundService, FoundSend, FoundReceiveQuery, FoundLoss, FoundTick DEF DiscoveryNext

------------------------------------------------------------------------------
(* A service that is up keeps its endpoint *)

\* A host with several addresses flushes its own (see the findings).
OneAddress == \A a, b \in Addrs : a = b

Delivers(ms, r) == \E m \in ms : m.rec = r /\ m.ttl > 0

\* A message carries each record with its own lifetime, or withdraws it; and no PTR
\* comes without what is needed to connect.
Whole(ms) ==
    /\ \A m \in ms : m.ttl \in {0, Ttl(m.rec)}
    /\ Delivers(ms, Ptr) => \A r \in Own : Delivers(ms, r)

WholeInv ==
    /\ Whole(inbox)
    /\ \A n \in 1..Len(responses) : Whole(responses[n])

\* A withdrawal is handled before the first tick after it, and takes no longer than
\* the grace.
WithdrawalInv ==
    /\ since > 0 => /\ \A m \in inbox : m.ttl > 0
                    /\ \A n \in 1..Len(responses) : \A m \in responses[n] : m.ttl > 0
    /\ \A r \in leaving : since + left[r] <= GoodbyeGrace

\* An address is cached for a target only.
TargetInv == \A r \in cache : r.type = "A" => r.name \in targets

AsksFor(q, r) == r.type \in q.types /\ \A k \in q.known : k.rec # r

\* The record is about to be asked for, asked for, about to be sent, sent, or being
\* handled.
OnItsWay(r) ==
    \/ r \in due
    \/ \E n \in 1..Len(queries) : AsksFor(queries[n], r)
    \/ r \in pending
    \/ \E n \in 1..Len(responses) : Delivers(responses[n], r)
    \/ Delivers(inbox, r)

\* Each re-query of the last ticks that did not renew the record cost a message, the
\* one of this tick too, unless it is still under way.
Retried(r) ==
    \/ Delivers(inbox, r)
    \/ /\ losses + left[r] >= Requeries
       /\ losses + left[r] > Requeries \/ left[r] = 0 \/ OnItsWay(r)

\* A lifetime that began when the service was up: the ticks passed and those left
\* are those of a host's record.
RetriedInv ==
    service = "up" /\ Inst \in instances =>
        \A r \in (Own \ {Ptr}) \cap cache : since + left[r] >= TtlHost => Retried(r)

RenewInv == WholeInv /\ WithdrawalInv /\ TargetInv /\ RetriedInv

LEMMA RenewInit == DiscoveryInit => RenewInv
BY DEF DiscoveryInit, Init, RenewInv, WholeInv, Whole, Delivers, WithdrawalInv, TargetInv, RetriedInv

LEMMA HostRecords ==
    \A r \in Own \ {Ptr} : /\ r \in Record /\ r.type \in {"SRV", "TXT", "A"} /\ Ttl(r) = TtlHost
                           /\ r.type # "A" => r.name = Inst
<1> SUFFICES ASSUME NEW r \in Own \ {Ptr}
             PROVE  /\ r \in Record /\ r.type \in {"SRV", "TXT", "A"} /\ Ttl(r) = TtlHost
                    /\ r.type # "A" => r.name = Inst
  OBVIOUS
<1>1. r \in Record /\ r.type # "PTR"
  BY OwnRecords
<1>2. r.type \in {"SRV", "TXT", "A"} /\ (r.type # "A" => r.name = Inst)
  BY <1>1, RecordCases, TheInstance
<1> QED
  BY <1>1, <1>2 DEF Ttl

------------------------------------------------------------------------------
(* Messages *)

LEMMA CarriedWhole ==
    ASSUME NEW rs \in SUBSET Own, Ptr \in rs => rs = Own
    PROVE  /\ Whole(Carried(rs)) /\ \A r \in rs : Delivers(Carried(rs), r)
           /\ \A m \in Carried(rs) : m.ttl > 0
<1>1. \A r \in rs : Delivers(Carried(rs), r)
  <2> SUFFICES ASSUME NEW r \in rs PROVE Delivers(Carried(rs), r)
    OBVIOUS
  <2>1. [rec |-> r, ttl |-> Ttl(r)] \in Carried(rs)
    BY DEF Carried
  <2> QED
    BY <2>1, Lifetimes DEF Delivers
<1>2. \A m \in Carried(rs) : m.rec \in rs /\ m.ttl = Ttl(m.rec)
  BY DEF Carried
<1>3. \A m \in Carried(rs) : m.ttl > 0
  BY <1>2, Lifetimes
<1> QED
  BY <1>1, <1>2, <1>3 DEF Whole, Delivers

LEMMA WithdrawnWhole == Whole(Withdrawn(Own))
<1>1. \A m \in Withdrawn(Own) : m.ttl = 0
  BY DEF Withdrawn
<1> QED
  BY <1>1 DEF Whole, Delivers

LEMMA SentWhole ==
    ASSUME DTyped, WholeInv, NEW ms \in SUBSET Message, Whole(ms),
           responses' = Append(responses, ms), UNCHANGED inbox
    PROVE  WholeInv'
<1>1. responses \in Seq(SUBSET Message)
  BY DEF DTyped, DiscoveryTyped
<1>2. \A n \in 1..Len(responses') :
         \/ responses'[n] = ms
         \/ n \in 1..Len(responses) /\ responses'[n] = responses[n]
  BY <1>1
<1> QED
  BY <1>2 DEF WholeInv, Whole, Delivers

LEMMA ShorterWhole ==
    ASSUME DTyped, WholeInv, responses # <<>>, responses' = Tail(responses),
           inbox' = inbox \/ inbox' = Head(responses)
    PROVE  WholeInv'
<1>1. responses \in Seq(SUBSET Message)
  BY DEF DTyped, DiscoveryTyped
<1>2. \A n \in 1..Len(responses') : n + 1 \in 1..Len(responses) /\ responses'[n] = responses[n + 1]
  BY <1>1
<1>3. 1 \in 1..Len(responses) /\ Head(responses) = responses[1]
  BY <1>1
<1> QED
  BY <1>2, <1>3 DEF WholeInv, Whole, Delivers

\* The PTR is handled first, so that what came with it is still there.
LEMMA HandledWhole ==
    ASSUME DTyped, WholeInv, NEW m \in inbox, Handle(m)
    PROVE  WholeInv'
<1>1. inbox' = inbox \ {m} /\ responses' = responses /\ \A n \in inbox : Pass(m.rec) <= Pass(n.rec)
  BY DEF Handle
<1>2. \A n \in inbox : n \in Message /\ n.ttl \in {0, Ttl(n.rec)} /\ n.ttl \in Nat
  BY TheConstants DEF DTyped, DiscoveryTyped, Message, WholeInv, Whole
<1>3. ASSUME Delivers(inbox', Ptr), NEW r \in Own PROVE Delivers(inbox', r)
  <2>1. PICK p \in inbox' : p.rec = Ptr /\ p.ttl > 0
    BY <1>3 DEF Delivers
  <2>2. p \in inbox
    BY <1>1, <2>1
  <2>3. PICK n \in inbox : n.rec = r /\ n.ttl > 0
    BY <2>1, <2>2 DEF WholeInv, Whole, Delivers
  <2>4. m.rec = Ptr
    <3>1. Pass(m.rec) <= 1
      BY <1>1, <2>1, <2>2, OwnRecords DEF Pass
    <3>2. m.rec.type = "PTR"
      BY <3>1 DEF Pass
    <3> QED
      BY <1>2, <3>2, OwnRecords DEF Message
  <2>5. CASE r = Ptr
    BY <1>3, <2>5
  <2>6. CASE r # Ptr
    BY <1>1, <2>3, <2>4, <2>6 DEF Delivers
  <2> QED
    BY <2>5, <2>6
<1>4. Whole(inbox')
  BY <1>1, <1>2, <1>3 DEF Whole
<1> QED
  BY <1>1, <1>4 DEF WholeInv, Whole, Delivers

\* What an answer consists of.
LEMMA SentAnswer ==
    ASSUME DTyped
    PROVE  /\ pending \cup Additionals(pending) \in SUBSET Own
           /\ Ptr \in pending \cup Additionals(pending) => pending \cup Additionals(pending) = Own
<1>1. pending \subseteq Own
  BY DEF DTyped, DiscoveryTyped
<1>2. CASE \E r \in pending : r.type = "PTR"
  BY <1>1, <1>2 DEF Additionals
<1>3. CASE ~\E r \in pending : r.type = "PTR"
  BY <1>1, <1>3, OwnRecords DEF Additionals
<1> QED
  BY <1>2, <1>3

LEMMA WholeStep ==
    ASSUME DTyped, WholeInv, [DiscoveryNext]_discoveryVars
    PROVE  WholeInv'
<1>1. CASE UNCHANGED <<inbox, responses>>
  BY <1>1 DEF WholeInv, Whole, Delivers
<1>2. CASE Announcement
  <2>1. responses' = Append(responses, Carried(Own)) /\ UNCHANGED inbox
    BY <1>2 DEF Announcement
  <2> QED
    BY <2>1, CarriedWhole, MessagesTyped, SentWhole
<1>3. CASE SendAnswers
  <2>1. /\ responses' = Append(responses, Carried(pending \cup Additionals(pending)))
        /\ UNCHANGED inbox
    BY <1>3 DEF SendAnswers
  <2> QED
    BY <2>1, SentAnswer, CarriedWhole, MessagesTyped, SentWhole
<1>4. CASE ServiceStops
  <2>1. responses' = Append(responses, Withdrawn(Own)) /\ UNCHANGED inbox
    BY <1>4 DEF ServiceStops
  <2> QED
    BY <2>1, WithdrawnWhole, MessagesTyped, SentWhole
<1>5. CASE ReceiveResponse \/ LoseResponse
  BY <1>5, ShorterWhole DEF ReceiveResponse, LoseResponse
<1>6. ASSUME NEW r \in cache, Requery(r) \/ TimeIsUp(r) PROVE UNCHANGED <<inbox, responses>>
  BY <1>6 DEF Requery, TimeIsUp, link
<1>7. CASE PtrQuery \/ ServiceStarts \/ ReceiveQuery \/ ServiceCrashes \/ LoseQuery \/ Tick
  BY <1>1, <1>7 DEF PtrQuery, ServiceStarts, ReceiveQuery, ServiceCrashes, LoseQuery, Tick, link
<1>8. CASE UNCHANGED discoveryVars
  BY <1>1, <1>8 DEF discoveryVars, link
<1> QED
  BY <1>1, <1>2, <1>3, <1>4, <1>5, <1>6, <1>7, <1>8, HandledWhole DEF DiscoveryNext

------------------------------------------------------------------------------
(* Timers *)

\* A target is never forgotten.
LEMMA TargetsGrow ==
    ASSUME NEW r \in Record,
           \/ Learn(r, FlushBit(r)) \/ Refresh(r, FlushBit(r)) \/ Expire(r) \/ Goodbye(r)
           \/ QueryTimer \/ Unaffected
    PROVE  targets \subseteq targets'
<1>1. CASE Learn(r, FlushBit(r))
  BY <1>1 DEF Learn, Discover, SetEndpoint, SetTxt, SetAddresses, derived
<1>2. CASE Refresh(r, FlushBit(r))
  BY <1>2 DEF Refresh, LoseEndpoint, SetTxt, SetAddresses, derived
<1>3. CASE Expire(r)
  BY <1>3 DEF Expire, RemoveInstance, LoseEndpoint, SetTxt, SetAddresses, derived
<1>4. CASE Goodbye(r) \/ QueryTimer \/ Unaffected
  BY <1>4 DEF Goodbye, QueryTimer, Unaffected, derived
<1> QED
  BY <1>1, <1>2, <1>3, <1>4

\* What a message does to its own record and to the others.
LEMMA HandleTimers ==
    ASSUME DTyped, NEW m \in inbox, Handle(m)
    PROVE  /\ cache' \subseteq cache \cup {m.rec}
           /\ \A r \in cache' : r # m.rec => left'[r] = left[r]
           /\ \A r \in due \cap cache' : r # m.rec => r \in due'
           /\ m.rec \in cache /\ OfInterest(m.rec)
                 => left'[m.rec] = IF m.ttl > 0 THEN m.ttl ELSE GoodbyeGrace
           /\ m.rec \in cache' /\ m.rec \notin cache => m.ttl > 0 /\ left'[m.rec] = m.ttl
           /\ \A r \in leaving' : \/ r \in leaving /\ left'[r] = left[r]
                                  \/ m.ttl = 0 /\ left'[r] = GoodbyeGrace
           /\ targets \subseteq targets'
           /\ m.rec \in cache' => m.rec \in cache \/ OfInterest(m.rec)
<1>0. /\ left \in [cache -> 0..TtlShared] /\ leaving \subseteq cache
      /\ m.rec \in Record /\ m.ttl \in Nat
  BY OwnRecords, TheConstants DEF DTyped, Browsing, BInv, TypeOK, DiscoveryTyped, Message
<1>1. CASE Ignored(m) /\ Unaffected /\ UNCHANGED <<left, due, queries>>
  <2>1. UNCHANGED <<cache, leaving, left, due>>
    BY <1>1 DEF Unaffected
  <2>2. ~(m.rec \in cache /\ OfInterest(m.rec))
    BY <1>1 DEF Ignored
  <2> QED
    BY <1>0, <1>1, <2>1, <2>2, TargetsGrow
<1>2. CASE /\ m.ttl = 0 /\ Goodbye(m.rec)
           /\ left' = LeftAfterGoodbye(m.rec) /\ due' = due \ {m.rec}
           /\ UNCHANGED queries
  <2>1. cache' = cache /\ m.rec \in cache /\ leaving' = leaving \cup {m.rec}
    BY <1>2 DEF Goodbye
  <2>2. \A r \in cache : left'[r] = IF r = m.rec THEN GoodbyeGrace ELSE left[r]
    BY <1>0, <1>2 DEF LeftAfterGoodbye
  <2> QED
    BY <1>0, <1>2, <2>1, <2>2, TargetsGrow
<1>3. CASE /\ m.ttl > 0 /\ Refresh(m.rec, FlushBit(m.rec))
           /\ left' = Renewed(m) /\ due' = (due \cap cache') \ {m.rec}
           /\ UNCHANGED queries
  <2>1. cache' \subseteq cache /\ m.rec \in cache /\ leaving' \subseteq leaving \ {m.rec}
    BY <1>3 DEF Refresh
  <2>2. \A r \in cache' : left'[r] = IF r = m.rec THEN m.ttl ELSE left[r]
    BY <1>3 DEF Renewed
  <2>3. leaving' \subseteq cache'
    BY <1>0, <1>3 DEF Refresh
  <2>4. m.rec \in cache'
    BY <2>1, <1>3 DEF Refresh, Flushed, Siblings
  <2> QED
    BY <1>0, <1>3, <2>1, <2>2, <2>3, <2>4, TargetsGrow
<1>4. CASE /\ m.ttl > 0 /\ Learn(m.rec, FlushBit(m.rec))
           /\ left' = Renewed(m) /\ due' = due \cap cache'
           /\ queries' = queries \o FollowUp(m.rec)
  <2>1. cache' \subseteq cache \cup {m.rec} /\ m.rec \notin cache /\ leaving' \subseteq leaving
    BY <1>4 DEF Learn
  <2>2. \A r \in cache' : left'[r] = IF r = m.rec THEN m.ttl ELSE left[r]
    BY <1>4 DEF Renewed
  <2>3. leaving' \subseteq cache' /\ OfInterest(m.rec)
    BY <1>0, <1>4 DEF Learn
  <2> QED
    BY <1>0, <1>4, <2>1, <2>2, <2>3, TargetsGrow
<1> QED
  BY <1>1, <1>2, <1>3, <1>4 DEF Handle

LEMMA TargetStep ==
    ASSUME DTyped, TargetInv, [DiscoveryNext]_discoveryVars
    PROVE  TargetInv'
<1>1. CASE cache' \subseteq cache /\ targets \subseteq targets'
  BY <1>1 DEF TargetInv
<1>2. ASSUME NEW m \in inbox, Handle(m) PROVE TargetInv'
  <2>1. m.rec.type = "A" /\ OfInterest(m.rec) => m.rec.name \in targets
    BY DEF OfInterest
  <2> QED
    BY <1>2, <2>1, HandleTimers DEF TargetInv
<1>3. ASSUME NEW r \in cache, TimeIsUp(r) PROVE TargetInv'
  <2>1. r \in Record /\ cache' \subseteq cache
    BY <1>3 DEF TimeIsUp, Expire, DTyped, Browsing, BInv, TypeOK
  <2> QED
    BY <1>1, <1>3, <2>1, TargetsGrow DEF TimeIsUp
<1>4. CASE PtrQuery
  BY <1>1, <1>4 DEF PtrQuery, QueryTimer, derived
<1>5. ASSUME NEW r \in cache, Requery(r) PROVE TargetInv'
  BY <1>1, <1>5 DEF Requery, Idle, Unaffected, derived
<1>6. CASE \/ ReceiveResponse \/ ServiceStarts \/ Announcement \/ ReceiveQuery \/ SendAnswers
           \/ ServiceStops \/ ServiceCrashes \/ LoseQuery \/ LoseResponse \/ Tick
  <2>1. Unaffected
    BY <1>6 DEF ReceiveResponse, ServiceStarts, Announcement, ReceiveQuery, SendAnswers,
       ServiceStops, ServiceCrashes, LoseQuery, LoseResponse, Tick, Idle
  <2> QED
    BY <1>1, <2>1 DEF Unaffected, derived
<1>7. CASE UNCHANGED discoveryVars
  BY <1>1, <1>7 DEF discoveryVars, vars, derived
<1> QED
  BY <1>2, <1>3, <1>4, <1>5, <1>6, <1>7 DEF DiscoveryNext

\* Nothing is withdrawn after the first tick.
LEMMA WithdrawalStep ==
    ASSUME DTyped, GoneInv, WholeInv, WithdrawalInv, [DiscoveryNext]_discoveryVars
    PROVE  WithdrawalInv'
<1>0. /\ left \in [cache -> 0..TtlShared] /\ leaving \subseteq cache /\ since \in Nat
      /\ responses \in Seq(SUBSET Message) /\ inbox \subseteq Message
      /\ \A r \in cache : left[r] \in Nat
      /\ GoodbyeGrace \in Nat /\ TtlShared \in Nat /\ GoodbyeGrace <= TtlShared
  BY TheConstants DEF DTyped, Browsing, BInv, TypeOK, DiscoveryTyped
<1>1. CASE UNCHANGED <<since, inbox, responses, leaving, left>>
  BY <1>1 DEF WithdrawalInv
<1>2. CASE ReceiveResponse \/ LoseResponse
  <2>1. /\ UNCHANGED <<since, leaving, left>> /\ responses # <<>> /\ responses' = Tail(responses)
        /\ inbox' = inbox \/ inbox' = Head(responses)
    BY <1>2 DEF ReceiveResponse, LoseResponse, Idle, Unaffected, clocks, history
  <2>2. \A n \in 1..Len(responses') : n + 1 \in 1..Len(responses) /\ responses'[n] = responses[n + 1]
    BY <1>0, <2>1
  <2>3. 1 \in 1..Len(responses) /\ Head(responses) = responses[1]
    BY <1>0, <2>1
  <2> QED
    BY <2>1, <2>2, <2>3 DEF WithdrawalInv
<1>3. CASE Announcement \/ SendAnswers
  <2>1. /\ UNCHANGED <<since, inbox, leaving, left>>
        /\ \E rs \in SUBSET Own : responses' = Append(responses, Carried(rs))
    BY <1>3, SentAnswer DEF Announcement, SendAnswers, Idle, Unaffected, clocks, history
  <2>2. PICK rs \in SUBSET Own : responses' = Append(responses, Carried(rs))
    BY <2>1
  <2>3. \A m \in Carried(rs) : m.ttl > 0
    BY Lifetimes DEF Carried
  <2>4. \A n \in 1..Len(responses') :
           \/ responses'[n] = Carried(rs)
           \/ n \in 1..Len(responses) /\ responses'[n] = responses[n]
    BY <1>0, <2>2, MessagesTyped
  <2> QED
    BY <2>1, <2>3, <2>4 DEF WithdrawalInv
<1>4. CASE ServiceStarts \/ ServiceStops \/ ServiceCrashes
  <2>1. since' = 0 /\ UNCHANGED <<leaving, left>>
    BY <1>4 DEF ServiceStarts, ServiceStops, ServiceCrashes, Idle, Unaffected, clocks
  <2> QED
    BY <1>0, <2>1 DEF WithdrawalInv
<1>5. ASSUME NEW m \in inbox, Handle(m) PROVE WithdrawalInv'
  <2>1. UNCHANGED <<since, responses>> /\ inbox' \subseteq inbox
    BY <1>5 DEF Handle, history
  <2>2. m.ttl = 0 => since = 0
    BY <1>0 DEF WithdrawalInv
  <2>3. \A r \in leaving' : \/ r \in leaving /\ left'[r] = left[r]
                            \/ m.ttl = 0 /\ left'[r] = GoodbyeGrace
    BY <1>5, HandleTimers
  <2> QED
    BY <1>0, <2>1, <2>2, <2>3 DEF WithdrawalInv
<1>6. ASSUME NEW r \in cache, TimeIsUp(r) PROVE WithdrawalInv'
  <2>1. /\ UNCHANGED <<since, inbox, responses>> /\ leaving' = leaving \ {r} /\ cache' = cache \ {r}
        /\ left' = [s \in cache' |-> left[s]]
    BY <1>6 DEF TimeIsUp, Expire, link, history
  <2> QED
    BY <1>0, <2>1 DEF WithdrawalInv
<1>7. CASE Tick
  <2>1. /\ inbox' = {} /\ responses' = <<>> /\ UNCHANGED <<cache, leaving>>
        /\ left' = [r \in cache |-> left[r] - 1] /\ since' = Count(since)
        /\ \A r \in cache : left[r] > 0
    BY <1>7 DEF Tick, Quiet, Idle, Unaffected, link
  <2>2. ASSUME NEW r \in leaving PROVE since' + left'[r] <= GoodbyeGrace
    <3>1. since + left[r] <= GoodbyeGrace
      BY DEF WithdrawalInv
    <3>2. since <= TtlShared
      BY <1>0, <3>1
    <3> QED
      BY <1>0, <2>1, <3>1, <3>2, CountTyped
  <2> QED
    BY <2>1, <2>2 DEF WithdrawalInv
<1>8. CASE PtrQuery \/ \E r \in cache : Requery(r)
  BY <1>1, <1>8 DEF PtrQuery, QueryTimer, Requery, Idle, Unaffected, history
<1>9. CASE ReceiveQuery \/ LoseQuery
  BY <1>1, <1>9 DEF ReceiveQuery, LoseQuery, Idle, Unaffected, clocks, history
<1>10. CASE UNCHANGED discoveryVars
  BY <1>1, <1>10 DEF discoveryVars, vars, clocks, link, history
<1> QED
  BY <1>2, <1>3, <1>4, <1>5, <1>6, <1>7, <1>8, <1>9, <1>10 DEF DiscoveryNext

LEMMA RequeriesEnd == Requeries \in Nat /\ Requeries < TtlHost
BY TimeAssumption

\* What was asked for is under way, unless a message is lost.
LEMMA StillRetried ==
    ASSUME NEW r, Retried(r), {losses, left[r]} \subseteq Nat, left'[r] = left[r],
           Delivers(inbox, r) => Delivers(inbox, r)',
           \/ losses' = losses /\ (OnItsWay(r) => OnItsWay(r)')
           \/ losses' = losses + 1
    PROVE  Retried(r)'
<1>1. CASE Delivers(inbox, r)
  BY <1>1 DEF Retried
<1>2. CASE ~Delivers(inbox, r) /\ losses' = losses /\ (OnItsWay(r) => OnItsWay(r)')
  BY <1>2 DEF Retried
<1>3. CASE ~Delivers(inbox, r) /\ losses' = losses + 1
  <2>1. losses' + left'[r] > Requeries /\ losses' + left'[r] >= Requeries
    BY <1>3, RequeriesEnd DEF Retried
  <2> QED
    BY <2>1 DEF Retried
<1> QED
  BY <1>1, <1>2, <1>3

\* A query for a record of the host carries no known answers.
LEMMA RecordAsked ==
    ASSUME NEW r \in Own \ {Ptr}
    PROVE  AsksFor(Query({r.type}), r)
BY HostRecords DEF AsksFor, Query, KnownAnswers

LEMMA OnItsWayStep ==
    ASSUME DTyped, NEW r \in Own \ {Ptr}, OnItsWay(r), service = "up",
           \/ ReceiveResponse \/ PtrQuery \/ Announcement \/ ReceiveQuery \/ SendAnswers
           \/ \E s \in cache : Requery(s)
    PROVE  OnItsWay(r)'
<1>0. queries \in Seq(Question) /\ responses \in Seq(SUBSET Message) /\ pending \subseteq Own
  BY DEF DTyped, DiscoveryTyped
<1>1. CASE ReceiveResponse
  <2>1. /\ UNCHANGED <<due, queries, pending>> /\ inbox = {}
        /\ responses # <<>> /\ inbox' = Head(responses) /\ responses' = Tail(responses)
    BY <1>1 DEF ReceiveResponse, Idle, clocks, responder
  <2>2. \A n \in 1..Len(responses) : \/ responses[n] = inbox'
                                     \/ \E k \in 1..Len(responses') : responses'[k] = responses[n]
    BY <1>0, <2>1, ShortenedQueue
  <2> QED
    BY <2>1, <2>2 DEF OnItsWay, Delivers
<1>2. CASE Announcement \/ SendAnswers
  <2>1. /\ UNCHANGED <<due, queries, inbox>>
        /\ \E rs \in SUBSET Own : /\ responses' = Append(responses, Carried(rs))
                                  /\ r \in pending => r \in pending' \/ r \in rs
    BY <1>2, SentAnswer DEF Announcement, SendAnswers, Idle, clocks
  <2>2. PICK rs \in SUBSET Own : /\ responses' = Append(responses, Carried(rs))
                                 /\ r \in pending => r \in pending' \/ r \in rs
    BY <2>1
  <2>3. Carried(rs) \in SUBSET Message
    BY MessagesTyped
  <2>4. /\ \A n \in 1..Len(responses) : n \in 1..Len(responses') /\ responses'[n] = responses[n]
        /\ \E n \in 1..Len(responses') : responses'[n] = Carried(rs)
    BY <1>0, <2>2, <2>3, AppendedQueue
  <2>5. r \in rs => Delivers(Carried(rs), r)
    <3> HAVE r \in rs
    <3>1. [rec |-> r, ttl |-> Ttl(r)] \in Carried(rs)
      BY DEF Carried
    <3> QED
      BY <3>1, Lifetimes DEF Delivers
  <2> QED
    BY <2>1, <2>2, <2>4, <2>5 DEF OnItsWay
<1>3. CASE ReceiveQuery
  <2>1. /\ UNCHANGED <<due, inbox, responses>>
        /\ queries # <<>> /\ queries' = Tail(queries)
        /\ pending' = pending \cup Answers(Head(queries))
    BY <1>3 DEF ReceiveQuery, Idle, clocks
  <2>2. \A n \in 1..Len(queries) : \/ queries[n] = Head(queries)
                                   \/ \E k \in 1..Len(queries') : queries'[k] = queries[n]
    BY <1>0, <2>1, ShortenedQueue
  <2>3. AsksFor(Head(queries), r) => r \in Answers(Head(queries))
    BY DEF AsksFor, Answers
  <2> QED
    BY <2>1, <2>2, <2>3 DEF OnItsWay
<1>4. CASE PtrQuery
  <2>1. /\ UNCHANGED <<due, inbox, responses, pending>>
        /\ queries' = Append(queries, Query({"PTR"}))
    BY <1>4 DEF PtrQuery, responder
  <2>2. \A n \in 1..Len(queries) : n \in 1..Len(queries') /\ queries'[n] = queries[n]
    BY <1>0, <2>1, QuestionsTyped, AppendedQueue
  <2> QED
    BY <2>1, <2>2 DEF OnItsWay
<1>5. ASSUME NEW s \in cache, Requery(s) PROVE OnItsWay(r)'
  <2>1. /\ UNCHANGED <<inbox, responses, pending>> /\ due' = due \ {s}
        /\ queries' = Append(queries, Query({s.type}))
    BY <1>5 DEF Requery, responder
  <2>2. s.type \in {"PTR", "SRV", "TXT", "A"}
    BY RecordCases DEF DTyped, Browsing, BInv, TypeOK
  <2>3. Query({s.type}) \in Question
    BY <2>2, QuestionsTyped
  <2>4. /\ \A n \in 1..Len(queries) : n \in 1..Len(queries') /\ queries'[n] = queries[n]
        /\ \E n \in 1..Len(queries') : queries'[n] = Query({s.type})
    BY <1>0, <2>1, <2>3, AppendedQueue
  <2>5. s = r => AsksFor(Query({s.type}), r)
    BY RecordAsked
  <2> QED
    BY <2>1, <2>4, <2>5 DEF OnItsWay
<1> QED
  BY <1>1, <1>2, <1>3, <1>4, <1>5

\* A record handled gets its lifetime; the others stay as they were.
LEMMA RetriedHandle ==
    ASSUME DTyped, DTyped', RenewInv, NEW m \in inbox, Handle(m),
           NEW r \in (Own \ {Ptr}) \cap cache', service = "up", Inst \in instances',
           since' + left'[r] >= TtlHost
    PROVE  Retried(r)'
<1>0. /\ left \in [cache -> 0..TtlShared] /\ queries \in Seq(Question) /\ inbox' = inbox \ {m}
      /\ losses \in Nat /\ since \in Nat /\ m.ttl \in Nat
      /\ UNCHANGED <<responses, pending, losses, since>>
  BY TheConstants DEF DTyped, DiscoveryTyped, Handle, responder, history, Message
<1>1. m.ttl \in {0, Ttl(m.rec)}
  BY DEF RenewInv, WholeInv, Whole
<1>2. Ptr \in cache'
  BY DEF DTyped, Browsing
<1>3. CASE r = m.rec
  <2>1. Inst \in instances
    BY <1>2, <1>3, HandleEffect DEF DTyped, Browsing
  <2>2. r \in cache => OfInterest(r)
    BY <2>1, HostRecords DEF OfInterest, RenewInv, TargetInv
  <2>3. \/ m.ttl > 0 /\ left'[r] = m.ttl
        \/ m.ttl = 0 /\ left'[r] = GoodbyeGrace
    BY <1>0, <1>3, <2>2, HandleTimers
  <2>4. m.ttl = 0 => since = 0
    BY <1>0 DEF RenewInv, WithdrawalInv
  <2>5. left'[r] = TtlHost
    BY <1>0, <1>1, <1>3, <2>3, <2>4, HostRecords, TheConstants
  <2>6. losses' + left'[r] > Requeries /\ losses' + left'[r] >= Requeries
    BY <1>0, <2>5, RequeriesEnd, TheConstants
  <2> QED
    BY <2>6 DEF Retried
<1>4. CASE r # m.rec
  <2>1. r \in cache /\ left'[r] = left[r] /\ (r \in due => r \in due')
    BY <1>4, HandleTimers
  <2>2. Delivers(inbox, r) => Delivers(inbox, r)'
    BY <1>0, <1>4 DEF Delivers
  <2>3. CASE Ptr \in cache
    <3>1. Retried(r)
      BY <1>0, <2>1, <2>3 DEF RenewInv, RetriedInv, DTyped, Browsing
    <3>2. PICK s \in Seq(Question) : queries' = queries \o s
      BY HandleEffect
    <3>3. \A n \in 1..Len(queries) : n \in 1..Len(queries') /\ queries'[n] = queries[n]
      BY <1>0, <3>2, JoinedQueue
    <3>4. OnItsWay(r) => OnItsWay(r)'
      BY <1>0, <2>1, <2>2, <3>3 DEF OnItsWay
    <3>5. {losses, left[r]} \subseteq Nat
      BY <1>0, <2>1, TheConstants
    <3> QED
      BY <1>0, <2>1, <2>2, <3>1, <3>4, <3>5, StillRetried
  <2>4. CASE Ptr \notin cache
    <3>1. m.rec = Ptr /\ m.ttl > 0
      BY <1>0, <1>2, <2>4, HandleEffect
    <3>2. Delivers(inbox, Ptr)
      BY <3>1 DEF Delivers
    <3>3. Delivers(inbox, r)
      BY <3>2 DEF RenewInv, WholeInv, Whole
    <3> QED
      BY <2>2, <3>3 DEF Retried
  <2> QED
    BY <2>3, <2>4
<1> QED
  BY <1>3, <1>4

\* The tick after a re-query that brought nothing is one more message lost, or the
\* next re-query.
LEMMA RetriedTick ==
    ASSUME DTyped, RenewInv, Tick,
           NEW r \in (Own \ {Ptr}) \cap cache', service = "up", Inst \in instances',
           since' + left'[r] >= TtlHost
    PROVE  Retried(r)'
<1>1. /\ cache' = cache /\ instances' = instances /\ losses' = losses
      /\ inbox = {} /\ queries = <<>> /\ responses = <<>> /\ pending = {} /\ due = {}
      /\ left' = [s \in cache |-> left[s] - 1] /\ left[r] > 0 /\ since' = Count(since)
      /\ due' = {s \in cache \ leaving : DueAt(left[s] - 1)}
  BY DEF Tick, Quiet, Idle, Unaffected, derived
<1>2. since \in Nat /\ losses \in Nat /\ left[r] \in Nat
  BY <1>1, TheConstants DEF DTyped, DiscoveryTyped
<1>3. left'[r] = left[r] - 1 /\ since' \in Nat /\ since' <= since + 1
  BY <1>1, <1>2 DEF Count
<1>4. since + left[r] >= TtlHost
  BY <1>2, <1>3, TheConstants
<1>5. Retried(r)
  BY <1>1, <1>4 DEF RenewInv, RetriedInv
<1>6. ~Delivers(inbox, r) /\ ~OnItsWay(r)
  BY <1>1 DEF OnItsWay, Delivers
<1>7. losses + left[r] > Requeries
  BY <1>1, <1>5, <1>6 DEF Retried
<1>8. r \notin leaving
  BY <1>2, <1>4, TheConstants DEF RenewInv, WithdrawalInv
<1>9. losses' + left'[r] = Requeries /\ left'[r] # 0 => r \in due'
  <2> HAVE losses' + left'[r] = Requeries /\ left'[r] # 0
  <2>1. left[r] - 1 \in 1..Requeries
    BY <1>1, <1>2, <1>3, RequeriesEnd
  <2> QED
    BY <1>1, <1>8, <2>1 DEF DueAt
<1>10. losses' + left'[r] >= Requeries
  BY <1>1, <1>2, <1>3, <1>7, RequeriesEnd
<1>11. losses' + left'[r] > Requeries \/ left'[r] = 0 \/ r \in due'
  BY <1>1, <1>2, <1>3, <1>9, <1>10, RequeriesEnd
<1> QED
  BY <1>10, <1>11 DEF Retried, OnItsWay

LEMMA RetriedStep ==
    ASSUME DTyped, DTyped', RenewInv, [DiscoveryNext]_discoveryVars
    PROVE  RetriedInv'
<1> SUFFICES ASSUME service' = "up", Inst \in instances',
                    NEW r \in (Own \ {Ptr}) \cap cache', since' + left'[r] >= TtlHost
             PROVE  Retried(r)'
  BY DEF RetriedInv
<1>0. losses \in Nat /\ left' \in [cache' -> 0..TtlShared] /\ TtlShared \in Nat
  BY TheConstants DEF DTyped, DiscoveryTyped
\* What does not touch the lifetimes.
<1>1. ASSUME service = "up", Inst \in instances, r \in cache, left'[r] = left[r], since' = since,
             Delivers(inbox, r) => Delivers(inbox, r)',
             \/ losses' = losses /\ (OnItsWay(r) => OnItsWay(r)')
             \/ losses' = losses + 1
      PROVE  Retried(r)'
  <2>1. Retried(r)
    BY <1>1 DEF RenewInv, RetriedInv
  <2>2. {losses, left[r]} \subseteq Nat
    BY <1>0, <1>1
  <2> QED
    BY <1>1, <2>1, <2>2, StillRetried
<1>2. CASE \/ ReceiveResponse \/ PtrQuery \/ Announcement \/ ReceiveQuery \/ SendAnswers
           \/ \E s \in cache : Requery(s)
  <2>1. UNCHANGED <<service, since, losses, left, cache, instances>>
    BY <1>2 DEF ReceiveResponse, PtrQuery, QueryTimer, Announcement, ReceiveQuery, SendAnswers,
       Requery, Idle, Unaffected, derived, clocks, responder, history
  <2>2. Delivers(inbox, r) => Delivers(inbox, r)'
    BY <1>2 DEF ReceiveResponse, PtrQuery, Announcement, ReceiveQuery, SendAnswers,
       Requery, Idle, Delivers
  <2>3. OnItsWay(r) => OnItsWay(r)'
    BY <1>2, <2>1, OnItsWayStep
  <2> QED
    BY <1>1, <2>1, <2>2, <2>3
<1>3. CASE LoseQuery \/ LoseResponse
  <2>1. UNCHANGED <<service, since, left, cache, instances, inbox>> /\ losses' = losses + 1
    BY <1>3 DEF LoseQuery, LoseResponse, Idle, Unaffected, derived, clocks, responder
  <2> QED
    BY <1>1, <2>1 DEF Delivers
<1>4. ASSUME NEW s \in cache, TimeIsUp(s) PROVE Retried(r)'
  <2>1. /\ UNCHANGED <<service, since, losses, inbox, queries, responses, pending>>
        /\ cache' = cache \ {s} /\ due' = due \ {s} /\ left' = [t \in cache' |-> left[t]]
    BY <1>4 DEF TimeIsUp, Expire, link, responder, history
  <2>2. Inst \in instances
    BY <2>1 DEF DTyped, Browsing
  <2>3. OnItsWay(r) => OnItsWay(r)'
    BY <2>1 DEF OnItsWay
  <2> QED
    BY <1>1, <2>1, <2>2, <2>3
<1>5. ASSUME NEW m \in inbox, Handle(m) PROVE Retried(r)'
  <2>1. service = "up"
    BY <1>5 DEF Handle, responder
  <2> QED
    BY <1>5, <2>1, RetriedHandle
<1>6. CASE Tick
  <2>1. service = "up"
    BY <1>6 DEF Tick, responder
  <2> QED
    BY <1>6, <2>1, RetriedTick
<1>7. CASE ServiceStarts
  <2>1. since' = 0 /\ losses' = losses
    BY <1>7 DEF ServiceStarts
  <2>2. left'[r] \in Nat
    BY <1>0
  <2>3. losses' + left'[r] > Requeries /\ losses' + left'[r] >= Requeries
    BY <1>0, <2>1, <2>2, RequeriesEnd, TheConstants
  <2> QED
    BY <2>3 DEF Retried
<1>8. CASE ServiceStops \/ ServiceCrashes
  BY <1>8 DEF ServiceStops, ServiceCrashes
<1>9. CASE UNCHANGED discoveryVars
  <2>1. UNCHANGED <<service, since, losses, left, cache, instances, inbox, queries, responses, pending, due>>
    BY <1>9 DEF discoveryVars, vars, derived, clocks, link, responder, history
  <2> QED
    BY <1>1, <2>1 DEF Delivers, OnItsWay
<1> QED
  BY <1>2, <1>3, <1>4, <1>5, <1>6, <1>7, <1>8, <1>9 DEF DiscoveryNext

LEMMA RenewStep ==
    ASSUME DTyped, DTyped', GoneInv, RenewInv, [DiscoveryNext]_discoveryVars
    PROVE  RenewInv'
BY WholeStep, WithdrawalStep, TargetStep, RetriedStep DEF RenewInv


\* Each of the host's records is the only one of its type and name.
LEMMA NoSiblings ==
    ASSUME OneAddress, DTyped, NEW r \in Record
    PROVE  Flushed(r, FlushBit(r)) = {}
<1> SUFFICES ASSUME r.type # "PTR", NEW s \in Record, s.type = r.type, s.name = r.name
             PROVE  s = r
  BY DEF Flushed, FlushBit, Siblings, DTyped, Browsing, BInv, TypeOK
<1>1. \A p, q \in Ports : p = q
  BY ServiceAssumption
<1>2. \A g, h \in Hosts : g = h
  BY ServiceAssumption
<1>3. \A t, u \in Txts : t = u
  BY ServiceAssumption
<1>4. CASE r.type = "SRV"
  <2>1. /\ \E i \in Insts, p \in Ports, h \in Hosts : r = SRV(i, p, h)
        /\ \E i \in Insts, p \in Ports, h \in Hosts : s = SRV(i, p, h)
    BY <1>4, RecordCases
  <2> QED
    BY <1>1, <1>2, <2>1 DEF SRV
<1>5. CASE r.type = "TXT"
  <2>1. /\ \E i \in Insts, t \in Txts : r = TXT(i, t)
        /\ \E i \in Insts, t \in Txts : s = TXT(i, t)
    BY <1>5, RecordCases
  <2> QED
    BY <1>3, <2>1 DEF TXT
<1>6. CASE r.type = "A"
  <2>1. /\ \E h \in Hosts, a \in Addrs : r = A(h, a)
        /\ \E h \in Hosts, a \in Addrs : s = A(h, a)
    BY <1>6, RecordCases
  <2> QED
    BY <2>1 DEF A, OneAddress
<1> QED
  BY <1>4, <1>5, <1>6, RecordCases

\* The only way out of the cache is the end of a lifetime.
LEMMA HandleKeeps ==
    ASSUME OneAddress, DTyped, NEW m \in inbox, Handle(m)
    PROVE  cache \subseteq cache'
<1>1. m.rec \in Record
  BY OwnRecords DEF DTyped, DiscoveryTyped, Message
<1> QED
  BY <1>1, NoSiblings DEF Handle, Unaffected, Goodbye, Refresh, Learn

LEMMA RenewedStep ==
    ASSUME OneAddress, DTyped, RenewInv, [DiscoveryNext]_discoveryVars,
           NEW r \in Own \ {Ptr}, r \in cache, r \notin cache',
           Inst \in instances, service = "up", since >= TtlHost
    PROVE  losses >= Requeries
<1>1. \/ \E m \in inbox : Handle(m)
      \/ \E s \in cache : TimeIsUp(s)
      \/ cache' = cache
  BY DEF DiscoveryNext, ReceiveResponse, PtrQuery, QueryTimer, Announcement, ReceiveQuery,
     SendAnswers, Requery, ServiceStarts, ServiceStops, ServiceCrashes, LoseQuery, LoseResponse,
     Tick, Idle, Unaffected, discoveryVars, vars
<1>2. PICK s \in cache : TimeIsUp(s)
  BY <1>1, HandleKeeps
<1>3. inbox = {} /\ left[r] = 0
  BY <1>2 DEF TimeIsUp, Expire
<1>4. since + left[r] >= TtlHost
  BY <1>3, TheConstants DEF DTyped, DiscoveryTyped
<1>5. Retried(r)
  BY <1>4 DEF RenewInv, RetriedInv
<1> QED
  BY <1>3, <1>5 DEF Retried, Delivers, DTyped, DiscoveryTyped


------------------------------------------------------------------------------
(* The theorems *)

\* The inductive invariant of the browse, the link and the service (start, answersFor,
\* sendQuery, scheduleLifetime, stop together).
THEOREM DiscoveryInvariant == DiscoverySpec => [](DTyped /\ GoneInv /\ FoundInv)
<1>1. DiscoveryInit => DTyped /\ GoneInv /\ FoundInv
  BY DTypedInit, GoneInit, FoundInit
<1>2. (DTyped /\ GoneInv /\ FoundInv) /\ [DiscoveryNext]_discoveryVars
         => (DTyped /\ GoneInv /\ FoundInv)'
  BY DTypedStep, GoneStep, FoundStep
<1> QED
  BY <1>1, <1>2, PTL DEF DiscoverySpec

\* The browse of Discovery is one of Browser, so that all that is proved of Browser
\* holds here: the engine's messages only choose among the steps Browser allows.
THEOREM DiscoveryFollowsBrowser == DiscoverySpec => Spec
<1>1. DiscoveryInit => Init
  BY DEF DiscoveryInit
<1>2. DTyped /\ [DiscoveryNext]_discoveryVars => [Next]_vars
  BY BrowserStep DEF discoveryVars
<1> QED
  BY <1>1, <1>2, DiscoveryInvariant, PTL DEF DiscoverySpec, Spec

\* scheduleGoodbye, expire: a service that has gone is forgotten in time, whatever
\* re-queries, late answers, losses and restarts came between.
THEOREM TheGoneAreForgotten == DiscoverySpec => []GoneIsForgotten
<1>1. DTyped /\ GoneInv => GoneIsForgotten
  <2> SUFFICES ASSUME DTyped, GoneInv PROVE GoneIsForgotten
    OBVIOUS
  <2>1. Inst \in instances => Ptr \in cache
    BY DEF DTyped, Browsing
  <2>2. Ptr \in cache => left[Ptr] \in Nat
    BY TheConstants DEF DTyped, DiscoveryTyped
  <2>3. since \in Nat
    BY DEF DTyped, DiscoveryTyped
  <2>4. ASSUME service \in {"stopped", "crashed"}, since > TtlShared
        PROVE  Inst \notin instances
    <3>1. Ptr \in cache => left[Ptr] + since <= TtlShared
      BY <2>4 DEF GoneInv, Silent
    <3> QED
      BY <2>1, <2>2, <2>3, <2>4, <3>1, TheConstants
  <2>5. ASSUME service = "stopped", losses = 0, since > GoodbyeGrace
        PROVE  Inst \notin instances
    <3>1. since > 0
      BY <2>3, <2>5, TheConstants
    <3>2. responses = <<>> /\ inbox = {}
      BY <2>5, <3>1 DEF GoneInv, Silent
    <3>3. Ptr \in cache => left[Ptr] + since <= GoodbyeGrace
      BY <2>5, <3>2 DEF GoneInv, FarewellOnItsWay
    <3> QED
      BY <2>1, <2>2, <2>3, <2>5, <3>3, TheConstants
  <2> QED
    BY <2>4, <2>5 DEF GoneIsForgotten
<1> QED
  BY <1>1, DiscoveryInvariant, PTL

\* sendPtrQuery, scheduleNextQuery, answersFor: a service that is up is found within
\* the longest interval between two queries, and one more for each message lost.
THEOREM TheLivingAreFound == DiscoverySpec => []FoundWithinInterval
<1>1. FoundInv => FoundWithinInterval
  BY DEF FoundInv, FoundWithinInterval, Patience
<1> QED
  BY <1>1, DiscoveryInvariant, PTL

\* scheduleLifetime, onRequery, answersFor: what the re-queries of the last ticks of a
\* lifetime rest on, with the invariant of the browse, the link and the service.
THEOREM RenewalInvariant == DiscoverySpec => []RenewInv
<1>1. DiscoveryInit => RenewInv
  BY RenewInit
<1>2. ASSUME DTyped, DTyped', GoneInv, RenewInv, [DiscoveryNext]_discoveryVars PROVE RenewInv'
  BY <1>2, RenewStep
<1> QED
  BY <1>1, <1>2, DiscoveryInvariant, PTL DEF DiscoverySpec

\* scheduleLifetime, onRequery, expire: fewer lost messages than there are re-queries
\* never cost a service that is up the records of its endpoint, if its host has one
\* address; the addresses of another host flush each other (cache.ts, handleRecord).
THEOREM TheLivingAreRenewed ==
    ASSUME OneAddress
    PROVE  DiscoverySpec => RenewedWhileUp
<1>1. /\ DTyped /\ GoneInv /\ FoundInv /\ RenewInv /\ [DiscoveryNext]_discoveryVars
         => [\A r \in Own \ {Ptr} :
               r \in cache /\ r \notin cache' /\ Inst \in instances
                 /\ service = "up" /\ since >= TtlHost => losses >= Requeries]_discoveryVars
  BY RenewedStep
<1> QED
  BY <1>1, DiscoveryInvariant, RenewalInvariant, PTL DEF DiscoverySpec, RenewedWhileUp, Ptr
=============================================================================
