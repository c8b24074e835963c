------------------------------- MODULE MCWire -------------------------------
EXTENDS Wire

a == <<97>>
b == <<195>>
c == <<98, 195>>

MCNames == {<<a>>, <<c, a>>, <<b, a>>, <<a, b, a>>}

MCHeader == [id |-> 258, isResponse |-> TRUE, opcode |-> 0, authoritative |-> TRUE,
             truncated |-> FALSE, recursionDesired |-> FALSE, recursionAvailable |-> FALSE,
             rcode |-> 0]
MCOther == [id |-> 0, isResponse |-> FALSE, opcode |-> 2, authoritative |-> FALSE,
            truncated |-> TRUE, recursionDesired |-> TRUE, recursionAvailable |-> TRUE,
            rcode |-> 5]

MCRecord(name, type, data) ==
    [name |-> name, type |-> type, class |-> 1, flush |-> type # TypePTR,
     ttl |-> IF type = TypePTR THEN 0 ELSE 66051, data |-> data]

MCTxt == {<<>>, a :> True, a :> Null, a :> <<61, 98>>, (a :> True) @@ (c :> <<97, 0>>), a :> <<>>}

MCData(type) ==
    CASE type = TypeA    -> {<<10, 0, 0, 255>>}
      [] type = TypeAAAA -> {CompressIpv6(g) : g \in [1..Groups -> {0, 40000}]}
      [] type = TypePTR  -> MCNames
      [] type = TypeTXT  -> MCTxt
      [] type = TypeSRV  -> {[priority |-> 0, weight |-> 1, port |-> 40001, target |-> n] :
                                n \in MCNames}
      [] type = TypeNSEC -> {[next |-> n, types |-> t] :
                                n \in MCNames, t \in {{1}, {7}, {8}, {1, 28, 47}}}
      [] OTHER           -> {<<>>, <<192, 0>>}

MCTypes == {TypeA, TypeAAAA, TypePTR, TypeTXT, TypeSRV, TypeNSEC, 13}
MCRecords(names, types) ==
    UNION {{MCRecord(n, t, d) : d \in MCData(t)} : n \in names, t \in types}

MCMessage(h, q, s1, s2, s3) ==
    [header |-> h, answers |-> s1, authorities |-> s2, additionals |-> s3,
     questions |-> [i \in DOMAIN q |-> [name |-> q[i], type |-> 255, class |-> 1,
                                        unicastResponse |-> i = 1]]]

MCMessages ==
    {MCMessage(MCHeader, <<<<b, a>>>>, <<r>>, <<>>, <<>>) : r \in MCRecords({<<a>>}, MCTypes)}
    \cup {MCMessage(MCOther, q, <<>>, <<r>>, <<s>>) : q \in {<<>>, <<<<a>>, <<b, a>>>>},
            r \in MCRecords({<<b, a>>}, {TypePTR, TypeSRV}),
            s \in MCRecords({<<a, b, a>>, <<c, a>>}, {TypePTR, TypeTXT})}

\* Words of one octet, instances that look like a protocol or hold a dot.
MCTcp == <<116>>
MCUdp == <<117>>
MCSub == <<115>>
MCServices == <<118>>
MCDnsSd == <<100>>
MCLocal == <<108>>

MCInputs == {<<>>, a :> [as |-> "text", octets |-> <<>>],
             (a :> [as |-> "bytes", octets |-> <<61, 0>>]) @@ (<<65>> :> [as |-> "true", octets |-> <<>>]),
             <<61>> :> [as |-> "text", octets |-> a], a :> [as |-> "number", octets |-> <<>>], a :> [as |-> "undefined", octets |-> <<>>]}

MCSpecs ==
    [name : {<<65>>, <<97, 46>>, Scoped(MCTcp)}, type : {<<120>>, <<88>>},
     protocol : {MCTcp, MCUdp}, domain : {MCLocal, <<108, 46, 109>>}, port : {40001},
     txt : MCInputs, subtypes : {<<>>, <<<<80>>>>}, host : {NoName, <<104>>},
     ownHost : {<<104, 46, 108>>}, address : {<<10, 0, 0, 255>>}]

MCBrowses ==
    [type : {<<120>>, <<121>>}, protocol : {MCTcp, MCUdp}, domain : {MCLocal},
     subtypes : {<<>>, <<<<112>>>>}]
        \cup [type : {<<120>>}, protocol : {MCTcp}, domain : {<<108, 46, 109>>}, subtypes : {<<>>}]

\* Names longer than any name may be: labels on end, and ones read twice.
MCLong ==
    {FlattenSeq(s) : s \in [1..5 -> {<<2, 2, 2>>, <<2, 97, 2>>, <<192, 0>>, <<192, 2>>, <<0>>}]}

\* Lengths, the end, a pointer, a reserved prefix; longer ones of fewer kinds.
MCDatagrams ==
    UNION {[1..n -> {0, 1, 2, 3, 64, 192}] : n \in 0..4}
    \cup [1..6 -> {0, 1, 2, 192}] \cup [1..8 -> {1, 2, 192}] \cup MCLong
=============================================================================
