----------------------------- MODULE Multicast -----------------------------
(***************************************************************************)
(* The network the transports use: a datagram sent to the group reaches the    *)
(* hosts that listen, the sender included, or some of them, later than sent    *)
(* and in any order.                                                        *)
(***************************************************************************)
EXTENDS EchoSuppressor, FiniteSets, Bags

CONSTANTS
    Hosts,
    Data,           \* the contents of datagrams
    MaxSends        \* bound on the datagrams sent

VARIABLES
    net,            \* the copies on their way, a bag
    listening,      \* the hosts bound to the group
    sent            \* the number of datagrams sent

netVars == <<net, listening, sent>>

\* The sender's own copy has its window left to arrive in; a peer's, or a late
\* one, has none.
Copy(to, from, data) ==
    [to |-> to, data |-> data, left |-> IF to = from THEN Ttl ELSE -1]

Emit(host, data) ==
    /\ sent' = sent + 1
    /\ \E to \in SUBSET listening :
          net' = net (+) SetToBag({Copy(h, host, data) : h \in to})
    /\ UNCHANGED listening

Arrives(packet) == net' = net (-) SetToBag({packet}) /\ UNCHANGED <<listening, sent>>

\* The socket is closed, and what was on its way to it is gone.
Leave(host) ==
    /\ listening' = listening \ {host}
    /\ net' = [p \in {p \in DOMAIN net : p.to # host} |-> net[p]]
    /\ UNCHANGED sent

AgedNet ==
    LET aged == {[p EXCEPT !.left = Older(@)] : p \in DOMAIN net}
        copies(p) == IF p \in DOMAIN net THEN net[p] ELSE 0
    IN  [p \in aged |-> copies([p EXCEPT !.left = @ + 1])
                        + IF p.left = -1 THEN copies(p) ELSE 0]
=============================================================================
