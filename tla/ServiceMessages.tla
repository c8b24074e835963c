--------------------------- MODULE ServiceMessages ---------------------------
(***************************************************************************)
(* A service's way into a message and out of it: the records a responder makes of  *)
(* what it is to advertise (Responder.rebuildRecords), and what a browser makes of   *)
(* them (Browser.onResponse to emit).  Also what records.ts compares of a record.    *)
(***************************************************************************)
EXTENDS WireCodec, ServiceNames, RecordOrder

Text == Seq(Octet)

\* A browse and an advertisement as the application asks for them, with the default
\* domain put in.  A type called like a protocol is left out: the code does not refuse
\* it, but takes its label for the protocol's.
BrowseServiceSpec(s) ==
    /\ s.type \in Text \ {Tcp, Udp} /\ s.protocol \in {Tcp, Udp}
    /\ s.domain \in Text /\ s.subtypes \in Seq(Text)

AdvertiseServiceSpec(s) ==
    /\ BrowseServiceSpec(s)
    /\ s.name \in Text /\ s.port \in 0..65535 /\ s.host \in Text \cup {NoName}
    /\ DOMAIN s.txt \subseteq Text
    /\ \A key \in DOMAIN s.txt : s.txt[key] \in TxtRecordInput(Text)

Rr(name, type, flush, ttl, data) ==
    [name |-> name, type |-> type, class |-> 1, flush |-> flush, ttl |-> ttl, data |-> data]

TtlShared == 4500
TtlHost == 120

SharedPtr(name, target) == Rr(name, TypePTR, FALSE, TtlShared, target)

\* What is advertised: the spec, with the engine's own address.
InstanceOf(spec) == InstanceNameLabels(spec.name, spec.type, spec.protocol, spec.domain)

\* A spec that names another host has no addresses to offer.
AddressRecords(spec) ==
    IF spec.host # NoName THEN <<>>
    ELSE <<Rr(Split(spec.ownHost), TypeA, TRUE, TtlHost, spec.address)>>

HostOf(spec) == IF spec.host # NoName THEN spec.host ELSE spec.ownHost

RebuildRecords(spec) ==
    LET service  == ServiceTypeLabels(spec.type, spec.protocol, spec.domain)
        instance == InstanceOf(spec)
        srv == [priority |-> 0, weight |-> 0, port |-> spec.port, target |-> Split(HostOf(spec))]
    IN  <<SharedPtr(service, instance),
          Rr(instance, TypeSRV, TRUE, TtlHost, srv),
          Rr(instance, TypeTXT, TRUE, TtlHost, EncodeTxtInput(spec.txt))>>
        \o AddressRecords(spec)
        \o <<SharedPtr(ServiceTypeEnumeration, service)>>
        \o [k \in DOMAIN spec.subtypes |->
              SharedPtr(SubtypeServiceLabels(spec.subtypes[k], spec.type, spec.protocol,
                                             spec.domain), instance)]

\* buildAnnounceMessage
Announcement(spec) ==
    [header |-> [id |-> 0, isResponse |-> TRUE, opcode |-> 0, authoritative |-> TRUE,
                 truncated |-> FALSE, recursionDesired |-> FALSE, recursionAvailable |-> FALSE,
                 rcode |-> 0],
     questions |-> <<>>, answers |-> RebuildRecords(spec), authorities |-> <<>>,
     additionals |-> <<>>]

------------------------------------------------------------------------------
(* The browser *)

\* Only the first subtype is browsed for.
ServiceLabels(browse) ==
    IF browse.subtypes # <<>>
    THEN SubtypeServiceLabels(Head(browse.subtypes), browse.type, browse.protocol, browse.domain)
    ELSE ServiceTypeLabels(browse.type, browse.protocol, browse.domain)

\* The records of some types under a name, in the order of the message.
Of(all, types, labels) ==
    SelectSeq(all, LAMBDA rr : rr.type \in types /\ NameKey(rr.name) = NameKey(labels))

\* What the consumer is told of an instance once the whole message has been used:
\* the last record of a name and type has flushed the others from the cache.
Told(all, labels) ==
    LET parsed    == ParseServiceName(labels)
        known     == parsed # NoName
        srv       == Last(Of(all, {TypeSRV}, labels)).data
        txt       == Of(all, {TypeTXT}, labels)
        addresses == Of(all, {TypeA, TypeAAAA}, srv.target)
        resolved  == Of(all, {TypeSRV}, labels) # <<>> /\ addresses # <<>>
    IN  [name |-> Head(labels), fullName |-> Join(labels),
         serviceType |-> IF known THEN parsed.serviceType ELSE <<>>,
         protocol |-> IF known THEN parsed.protocol ELSE Tcp,
         domain |-> IF known THEN parsed.domain ELSE Local,
         subtypes |-> IF known THEN parsed.subtypes ELSE <<>>,
         txt |-> IF resolved /\ txt # <<>> THEN Last(txt).data ELSE <<>>,
         endpoint |-> IF resolved THEN [host |-> Join(srv.target), port |-> srv.port,
                                        address |-> Last(addresses).data]
                      ELSE NoName]

Heard(message, browse) ==
    LET all == message.answers \o message.additionals
        ptr == Of(all, {TypePTR}, ServiceLabels(browse))
    IN  {Told(all, ptr[k].data) : k \in DOMAIN ptr}

------------------------------------------------------------------------------
(* Records compared *)

\* Names are lower-cased and written in full.
CanonicalName(labels) ==
    FlattenSeq([i \in DOMAIN labels |-> <<Len(labels[i])>> \o Lower(labels[i])]) \o <<0>>

CanonicalTxt(attributes) ==
    FlattenSeq([i \in DOMAIN SetToSeq(DOMAIN attributes) |->
        LET key   == SetToSeq(DOMAIN attributes)[i]
            entry == TxtEntry(key, attributes[key])
        IN  <<Len(entry)>> \o entry])

CanonicalRdata(rr) ==
    CASE rr.type = TypeA    -> SubSeq(rr.data, 1, 4)
      [] rr.type = TypeAAAA -> EncodeIpv6(rr.data)
      [] rr.type = TypePTR  -> CanonicalName(rr.data)
      [] rr.type = TypeSRV  ->
            U16(rr.data.priority) \o U16(rr.data.weight) \o U16(rr.data.port)
                \o CanonicalName(rr.data.target)
      [] rr.type = TypeTXT  -> CanonicalTxt(rr.data)
      [] rr.type = TypeNSEC -> CanonicalName(rr.data.next)
      [] OTHER              -> rr.data

RecordKey(rr) == <<NameKey(rr.name), rr.type, CanonicalRdata(rr)>>

Sortable(rr) == [class |-> rr.class, type |-> rr.type, rdata |-> CanonicalRdata(rr)]
=============================================================================
