-------------------------------- MODULE Wire --------------------------------
(***************************************************************************)
(* A datagram's way: a message is encoded, arrives whole, cut short or with a   *)
(* count that claims too much, and is decoded; or a peer sends octets of its own, *)
(* and a name is read from them.  A message is any one that is legal, or the one   *)
(* that announces a service.                                                  *)
(***************************************************************************)
EXTENDS ServiceMessages

CONSTANTS
    Messages,       \* messages whose names and TXT keys are legal
    NoMessage,
    Specs,          \* what the application may advertise
    Browses,        \* what it may browse for
    NoSpec

ASSUME SpecAssumption ==
    /\ NoSpec \notin Specs /\ \A s \in Specs : AdvertiseServiceSpec(s)
    /\ \A b \in Browses : BrowseServiceSpec(b)

VARIABLES
    spec,           \* what is advertised, or NoSpec
    message,        \* what is sent, or NoMessage
    image,          \* its octets
    received,       \* what arrives
    arrival,        \* "" until it does; then whole, cut or overclaimed; or thrown, or refused
    decoded         \* the result, once it is decoded

wireVars == <<spec, message, image, received, arrival, decoded>>
vars == <<nameVars, wireVars>>

Init ==
    /\ \/ spec = NoSpec /\ message = NoMessage /\ NameInit
       \/ /\ \/ spec = NoSpec /\ message \in Messages
             \/ spec \in Specs /\ message = NoMessage
          /\ bytes = <<>> /\ start = 0 /\ reader = StartAt(<<>>, 0)
    /\ image = <<>> /\ received = <<>> /\ arrival = "" /\ decoded = <<>>

ReadAnyName == spec = NoSpec /\ message = NoMessage /\ NameLoop /\ UNCHANGED wireVars

\* MdnsEngine.advertise, as far as the responder's records go: a TXT key that cannot
\* be read back is refused.
Advertise ==
    /\ spec # NoSpec /\ message = NoMessage /\ arrival = ""
    /\ IF Encodable(spec.txt) THEN message' = Announcement(spec) /\ arrival' = ""
       ELSE message' = NoMessage /\ arrival' = "refused"
    /\ UNCHANGED <<nameVars, spec, image, received, decoded>>

\* MdnsEngine.send
Encode ==
    /\ message # NoMessage /\ image = <<>>
    /\ LET w == EncodeMessage(message)
       IN  image' = w.out /\ arrival' = IF w.ok THEN "" ELSE "thrown"
    /\ UNCHANGED <<nameVars, spec, message, received, decoded>>

\* The count of the additional records says one more than there is.
Overclaimed == [image EXCEPT ![12] = @ + 1]

Arrive ==
    /\ image # <<>> /\ arrival = ""
    /\ \/ arrival' = "whole" /\ received' = image
       \/ arrival' = "cut" /\ \E n \in 0..(Len(image) - 1) : received' = SubSeq(image, 1, n)
       \/ arrival' = "overclaimed" /\ received' = Overclaimed
    /\ UNCHANGED <<nameVars, spec, message, image, decoded>>

\* The receive loop: a WireError drops the datagram.
Decode ==
    /\ arrival \in {"whole", "cut", "overclaimed"} /\ decoded = <<>>
    /\ decoded' = DecodeMessage(received)
    /\ UNCHANGED <<nameVars, spec, message, image, received, arrival>>

Next == ReadAnyName \/ Advertise \/ Encode \/ Arrive \/ Decode

Spec == Init /\ [][Next]_vars

------------------------------------------------------------------------------
(* Properties *)

\* An empty TXT value is read as a missing one: both are "key=".
AsRead(rr) ==
    IF rr.type # TypeTXT THEN rr
    ELSE [rr EXCEPT !.data = [key \in DOMAIN @ |-> IF @[key] = <<>> THEN Null ELSE @[key]]]

\* What is encoded is what is decoded, to the last octet: whatever was compressed
\* against whatever, on both sides of the last offset a pointer can name, and with
\* every form of TXT value, type bitmap and IPv6 address.  And no host can tell a
\* record that came back from its own: in the cache it has the same key, as a known
\* answer or in a tie-break it is the same record.
RoundTrips ==
    /\ arrival # "thrown"
    /\ arrival = "whole" /\ decoded # <<>> =>
          LET read(section) == [k \in DOMAIN section |-> AsRead(section[k])]
          IN  /\ decoded = Read([message EXCEPT !.answers = read(@), !.authorities = read(@),
                                               !.additionals = read(@)], Len(image))
              /\ \A k \in DOMAIN message.answers :
                    LET sent == message.answers[k]
                        came == decoded.value.answers[k]
                    IN  /\ RecordKey(came) = RecordKey(sent) /\ NamesEqual(came.name, sent.name)
                        /\ RecordSort(Sortable(came), Sortable(sent)) = 0

\* A browse for the service: the same words in any case, and a subtype of its own.
Matches(browse, s) ==
    /\ Lower(browse.type) = Lower(s.type) /\ browse.protocol = s.protocol
    /\ Lower(browse.domain) = Lower(s.domain)
    /\ browse.subtypes # <<>> =>
          \E k \in DOMAIN s.subtypes : Lower(s.subtypes[k]) = Lower(Head(browse.subtypes))

\* The value of a TXT attribute as another application sees it.
Readable(value) ==
    CASE value.as = "true" -> True
      [] value.octets = <<>> -> Null
      [] OTHER -> value.octets

\* A report without the subtypes, which a found service is never given (finding 14).
BesidesSubtypes(report) == [field \in DOMAIN report \ {"subtypes"} |-> report[field]]

\* What is advertised is what is found, its subtypes aside: whoever browses for the
\* service is told its name, type, protocol and domain, and its host, port and TXT
\* attributes if it came with an address, whatever the instance is called (a dot, a
\* protocol's own label) and however the words are written; nobody else is told of
\* it, and no subtype is made up.  What could not be read back is never announced.
ServiceIsReadBack ==
    spec # NoSpec /\ arrival = "whole" /\ decoded # <<>> => decoded.ok /\
        \A browse \in Browses :
            LET heard == Heard(decoded.value, browse)
                told == [name |-> spec.name,
                         fullName |-> Join(<<spec.name, Scoped(spec.type),
                                             Scoped(spec.protocol), spec.domain>>),
                         serviceType |-> spec.type, protocol |-> spec.protocol,
                         domain |-> spec.domain]
                resolved == [txt |-> [key \in DOMAIN spec.txt |-> Readable(spec.txt[key])],
                             endpoint |-> [host |-> spec.ownHost, port |-> spec.port,
                                           address |-> spec.address]]
                found == [txt |-> <<>>, endpoint |-> NoName]
            IN  /\ {BesidesSubtypes(report) : report \in heard} =
                       IF ~Matches(browse, spec) THEN {}
                       ELSE {told @@ (IF spec.host = NoName THEN resolved ELSE found)}
                /\ \A report \in heard : ToSet(report.subtypes) \subseteq ToSet(spec.subtypes)

\* A datagram that lost its end, or that claims a record it has not, is dropped,
\* never taken for a smaller message.
DamagedIsRejected ==
    arrival \in {"cut", "overclaimed"} /\ decoded # <<>> => ~decoded.ok
=============================================================================
