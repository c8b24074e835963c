--------------------------- MODULE NodeTransport ---------------------------
(***************************************************************************)
(* dns-sd-node, transport.ts, and the engine's receive loop that consumes it:  *)
(* a lazy bind that send and receive share, an inbox, and the one receive()    *)
(* that may be parked.                                                      *)
(***************************************************************************)
EXTENDS Multicast

CONSTANTS NodeHost, Null, Undefined

\* A promise is not settled, settled with null, or with a datagram.
ASSUME NullAssumption == Null # Undefined /\ {Null, Undefined} \cap Data = {}

VARIABLES
    bind,       \* readyPromise: none, pending, bound or failed
    outgoing,   \* datagrams whose send() waits for ready()
    inbox,
    waiting,    \* a receive() is parked
    settled,    \* what its promise was given, Undefined if nothing yet
    nodeClosed,
    echoes,
    loop,       \* the receive loop: asking, receiving or done
    stopping    \* engine.closed

nodeVars == <<bind, outgoing, inbox, waiting, settled, nodeClosed, echoes, loop,
              stopping>>

NodeInit ==
    /\ bind = "none" /\ outgoing = <<>> /\ inbox = <<>>
    /\ waiting = FALSE /\ settled = Undefined /\ nodeClosed = FALSE
    /\ echoes = <<>> /\ loop = "asking" /\ stopping = FALSE

Ready == bind' = IF bind = "none" THEN "pending" ELSE bind

\* Mutant: a parked receive() is left behind.
Close_LeavesWaiter ==
    /\ nodeClosed' = TRUE /\ echoes' = <<>> /\ inbox' = <<>>
    /\ Leave(NodeHost)
    /\ UNCHANGED <<waiting, settled>>

\* close(): the parked receive() is given null.
Close ==
    /\ nodeClosed' = TRUE /\ echoes' = <<>> /\ inbox' = <<>>
    /\ Leave(NodeHost)
    /\ waiting' = FALSE
    /\ settled' = IF waiting THEN Null ELSE settled

\* send() up to ready().
NodeSend(data) ==
    /\ ~stopping /\ ~nodeClosed /\ sent + Len(outgoing) < MaxSends
    /\ Ready
    /\ outgoing' = Append(outgoing, data)
    /\ UNCHANGED <<inbox, waiting, settled, nodeClosed, echoes, loop, stopping, netVars>>

\* The rest of send(): remembered, then handed to the socket.
NodeSendBound ==
    /\ bind = "bound" /\ outgoing # <<>>
    /\ outgoing' = Tail(outgoing)
    /\ IF nodeClosed
       THEN UNCHANGED <<echoes, netVars>>
       ELSE echoes' = Remember(echoes, Head(outgoing)) /\ Emit(NodeHost, Head(outgoing))
    /\ UNCHANGED <<bind, inbox, waiting, settled, nodeClosed, loop, stopping>>

\* The socket is bound; a socket closed before never is.
Bound ==
    /\ bind = "pending" /\ ~nodeClosed
    /\ bind' = "bound"
    /\ listening' = listening \cup {NodeHost}
    /\ UNCHANGED <<outgoing, inbox, waiting, settled, nodeClosed, echoes, loop,
                   stopping, net, sent>>

\* The bind fails: every send() and receive() that waits for it closes the transport.
BindFails ==
    /\ bind = "pending" /\ ~nodeClosed
    /\ bind' = "failed" /\ outgoing' = <<>>
    /\ Close
    /\ UNCHANGED <<loop, stopping>>

\* receive()
NodeReceive ==
    /\ loop = "asking"
    /\ IF nodeClosed
       THEN settled' = Null /\ UNCHANGED <<bind, inbox, waiting>>
       ELSE IF inbox # <<>>
       THEN settled' = Head(inbox) /\ inbox' = Tail(inbox) /\ UNCHANGED <<bind, waiting>>
       ELSE Ready /\ waiting' = TRUE /\ UNCHANGED <<settled, inbox>>
    /\ loop' = "receiving"
    /\ UNCHANGED <<outgoing, nodeClosed, echoes, stopping, netVars>>

\* The loop resumes: it ends at null, or when the engine was closed.
NodeResume ==
    /\ loop = "receiving" /\ settled # Undefined
    /\ loop' = IF stopping \/ settled = Null THEN "done" ELSE "asking"
    /\ settled' = Undefined
    /\ UNCHANGED <<bind, outgoing, inbox, waiting, nodeClosed, echoes, stopping, netVars>>

\* Mutant: the latest datagram is the first to be read.
Accept_Front(data) ==
    IF waiting
    THEN waiting' = FALSE /\ settled' = data /\ UNCHANGED inbox
    ELSE inbox' = <<data>> \o inbox /\ UNCHANGED <<waiting, settled>>

\* A parked receive() is given the datagram, or it is buffered.
Accept(data) ==
    IF waiting
    THEN waiting' = FALSE /\ settled' = data /\ UNCHANGED inbox
    ELSE inbox' = Append(inbox, data) /\ UNCHANGED <<waiting, settled>>

\* onMessage: the host's own echo is dropped.
OnMessage(packet) ==
    /\ packet.to = NodeHost /\ ~nodeClosed
    /\ Arrives(packet)
    /\ echoes' = Consume(echoes, packet.data)
    /\ IF IsEcho(echoes, packet.data)
       THEN UNCHANGED <<inbox, waiting, settled>>
       ELSE Accept(packet.data)
    /\ UNCHANGED <<bind, outgoing, nodeClosed, loop, stopping>>

\* engine.close(), which then waits for the loop.
NodeEngineClose ==
    /\ ~stopping
    /\ stopping' = TRUE
    /\ IF nodeClosed
       THEN UNCHANGED <<nodeClosed, echoes, inbox, waiting, settled, netVars>> ELSE Close
    /\ UNCHANGED <<bind, outgoing, loop>>
=============================================================================
