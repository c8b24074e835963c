---------------------------- MODULE ServiceNames ----------------------------
(***************************************************************************)
(* naming.ts: DNS-SD names built from their parts and taken apart again.  A text *)
(* is its octets, a name a sequence of labels; the words of the protocol are      *)
(* constants, so that names are short.                                       *)
(***************************************************************************)
EXTENDS Integers, SequencesExt, FiniteSetsExt

CONSTANTS
    Tcp, Udp,       \* the texts "tcp" and "udp"
    Sub,            \* "sub"
    Services,       \* "services", "dns-sd": the labels of the enumeration query
    DnsSd,
    Local,          \* DEFAULT_DOMAIN
    NoName          \* null

Dot == 46
Underscore == 95

Words == {Tcp, Udp, Sub, Services, DnsSd, Local}

ASSUME WordAssumption ==
    /\ Cardinality(Words) = 6 /\ NoName \notin Words
    /\ \A w \in Words : w # <<>> /\ \A i \in DOMAIN w : w[i] \notin {Dot, Underscore}

Scoped(word) == <<Underscore>> \o word

\* labels.join(".")
Join(labels) ==
    FlattenSeq([i \in DOMAIN labels |-> (IF i = 1 THEN <<>> ELSE <<Dot>>) \o labels[i]])

\* text.split(".")
Split(text) ==
    LET ends == SetToSortSeq({i \in 1..(Len(text) + 1) : i = Len(text) + 1 \/ text[i] = Dot}, <)
    IN  [k \in DOMAIN ends |->
            SubSeq(text, IF k = 1 THEN 1 ELSE ends[k - 1] + 1, ends[k] - 1)]

\* toLowerCase, of ASCII letters
Lower(text) == [i \in DOMAIN text |-> IF text[i] \in 65..90 THEN text[i] + 32 ELSE text[i]]

ServiceTypeEnumeration == <<Scoped(Services), Scoped(DnsSd), Scoped(Udp), Local>>

ServiceTypeLabels(type, protocol, domain) ==
    <<Scoped(type), Scoped(protocol)>> \o Split(domain)

SubtypeServiceLabels(subtype, type, protocol, domain) ==
    <<Scoped(subtype), Scoped(Sub)>> \o ServiceTypeLabels(type, protocol, domain)

InstanceNameLabels(instance, type, protocol, domain) ==
    <<instance>> \o ServiceTypeLabels(type, protocol, domain)

\* What is left of a label without its underscore.
Unscoped(label) == IF label # <<>> /\ Head(label) = Underscore THEN Tail(label) ELSE label

Parsed(instance, type, protocol, domain, subtypes) ==
    [instance |-> IF instance = <<>> THEN NoName ELSE Join(instance), serviceType |-> type,
     protocol |-> protocol, domain |-> IF domain = <<>> THEN Local ELSE domain,
     subtypes |-> subtypes]

\* Mutant: an instance that is called like a protocol is taken for one.
ProtocolAt_Any(labels) == {i \in 1..Len(labels) : labels[i] \in {Scoped(Tcp), Scoped(Udp)}}

\* The label that says the protocol: the first one that can have a type before it.
ProtocolAt(labels) == {i \in 2..Len(labels) : labels[i] \in {Scoped(Tcp), Scoped(Udp)}}

ParseServiceName(labels) ==
    LET at     == Min(ProtocolAt(labels))
        type   == labels[at - 1]
        prefix == SubSeq(labels, 1, at - 2)
        n      == Len(prefix)
        parsed(instance, subtypes) ==
            Parsed(instance, Tail(type), Unscoped(labels[at]),
                   Join(SubSeq(labels, at + 1, Len(labels))), subtypes)
    IN  IF ProtocolAt(labels) = {} \/ at < 2 \/ at = Len(labels) THEN NoName
        ELSE IF Unscoped(type) = type THEN NoName
        ELSE IF n >= 2 /\ prefix[n] = Scoped(Sub)
             THEN parsed(SubSeq(prefix, 1, n - 2), <<Unscoped(prefix[n - 1])>>)
        ELSE parsed(prefix, <<>>)

NamesEqual(a, b) ==
    Len(a) = Len(b) /\ \A i \in DOMAIN a : Lower(a[i]) = Lower(b[i])

NameKey(labels) == Lower(Join(labels))
=============================================================================
