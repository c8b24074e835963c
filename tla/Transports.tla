----------------------------- MODULE Transports -----------------------------
(***************************************************************************)
(* A Node host and a Deno host in one multicast group, on one machine: their    *)
(* addresses tell neither from the other, so only the fingerprints keep each   *)
(* from hearing itself.                                                      *)
(***************************************************************************)
EXTENDS NodeTransport, DenoTransport

VARIABLE
    missing     \* per host and datagram, own copies in time whose credit went elsewhere

vars == <<nodeVars, denoVars, netVars, missing>>

ASSUME HostAssumption == Hosts = {NodeHost, DenoHost} /\ NodeHost # DenoHost

Echoes == [h \in Hosts |-> IF h = NodeHost THEN echoes ELSE denoEchoes]

\* A host's own copies of a datagram, still in time: each packet with its number.
OwnCopies(h, x) ==
    UNION {{<<p, n>> : n \in 1..net[p]} :
              p \in {p \in DOMAIN net : p.to = h /\ p.data = x /\ p.left >= 0}}

Init ==
    /\ NodeInit /\ DenoInit
    /\ net = EmptyBag /\ listening = {DenoHost} /\ sent = 0
    /\ missing = [h \in Hosts |-> [x \in Data |-> 0]]

\* Bookkeeping for OwnEchoesHaveCredit.
Misses(lost(_, _)) ==
    missing' = [h \in Hosts |-> [x \in Data |->
        IF OwnCopies(h, x)' = {} THEN 0 ELSE missing[h][x] + lost(h, x)]]

\* An entry that was evicted takes its credits with it.
Sending ==
    /\ \/ NodeSendBound /\ UNCHANGED denoVars
       \/ \E x \in Data : DenoSend(x) /\ UNCHANGED nodeVars
    /\ Misses(LAMBDA h, x : IF Entry(Echoes'[h], x) = 0 THEN Credit(Echoes[h], x)
                            ELSE 0)

\* An identical datagram of the peer, or a late copy, takes one.
Receiving(packet) ==
    /\ \/ OnMessage(packet) /\ UNCHANGED denoVars
       \/ DenoReceive(packet) /\ UNCHANGED nodeVars
    /\ Misses(LAMBDA h, x :
          IF h = packet.to /\ x = packet.data /\ packet.left < 0 /\ IsEcho(Echoes[h], x)
          THEN 1 ELSE 0)

Local ==
    /\ \/ /\ \/ \E x \in Data : NodeSend(x)
             \/ Bound \/ BindFails \/ NodeReceive \/ NodeResume \/ NodeEngineClose
          /\ UNCHANGED denoVars
       \/ (DenoReceiveEnds \/ DenoClose) /\ UNCHANGED nodeVars
    /\ Misses(LAMBDA h, x : 0)

Tick ==
    /\ net' = AgedNet
    /\ echoes' = Aged(echoes) /\ denoEchoes' = Aged(denoEchoes)
    /\ Misses(LAMBDA h, x : 0)
    /\ UNCHANGED <<bind, outgoing, inbox, waiting, settled, nodeClosed, loop, stopping,
                   denoClosed, denoLoop, listening, sent>>

Next == Sending \/ (\E packet \in DOMAIN net : Receiving(packet)) \/ Local \/ Tick

Spec == Init /\ [][Next]_vars

------------------------------------------------------------------------------
(* Properties *)

\* No host hears itself: each of its own copies that is still to arrive within
\* the window has a credit waiting, but for those credits that an identical copy
\* took, a peer's (the two then change places) or a late one, and those evicted.
OwnEchoesHaveCredit ==
    \A h \in Hosts : \A x \in Data :
        Cardinality(OwnCopies(h, x)) <= Credit(Echoes[h], x) + missing[h][x]

\* No lost wake-up in the Node transport: a receive() is parked only while there
\* is nothing to hand over and the transport is open.  So engine.close(), which
\* waits for the receive loop, ends even when the bind failed or is never answered.
NoLostWakeup ==
    /\ waiting => inbox = <<>> /\ ~nodeClosed /\ settled = Undefined
    /\ loop = "receiving" <=> waiting \/ settled # Undefined

\* What onMessage let through reaches the engine in order and once, whether it was
\* handed over or buffered, until the transport is closed.
Received == (IF settled \in Data THEN <<settled>> ELSE <<>>) \o inbox

InOrder ==
    [][nodeClosed'
       \/ Received' = Received
       \/ (Received # <<>> /\ loop = "receiving" /\ Received' = Tail(Received))
       \/ (\E x \in Data : Received' = Append(Received, x))]_vars
=============================================================================
