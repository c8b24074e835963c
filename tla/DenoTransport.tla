--------------------------- MODULE DenoTransport ---------------------------
(***************************************************************************)
(* dns-sd-deno, transport.ts: bound by its constructor; receive() reads the    *)
(* socket until it has a datagram that is not an echo.                       *)
(***************************************************************************)
EXTENDS Multicast

CONSTANT DenoHost

VARIABLES
    denoClosed,
    denoEchoes,
    denoLoop        \* the engine's receive loop: receiving or done

denoVars == <<denoClosed, denoEchoes, denoLoop>>

DenoInit ==
    /\ denoClosed = FALSE /\ denoEchoes = <<>>
    /\ denoLoop = "receiving"

\* send(): remembered first; the socket may refuse, and the credit stays.
DenoSend(data) ==
    /\ ~denoClosed /\ sent < MaxSends
    /\ denoEchoes' = Remember(denoEchoes, data)
    /\ Emit(DenoHost, data) \/ (sent' = sent + 1 /\ UNCHANGED <<net, listening>>)
    /\ UNCHANGED <<denoClosed, denoLoop>>

\* One turn of receive()'s loop; a datagram that is no echo goes to the engine, and
\* the engine asks for the next.
DenoReceive(packet) ==
    /\ packet.to = DenoHost /\ denoLoop = "receiving" /\ ~denoClosed
    /\ Arrives(packet)
    /\ denoEchoes' = Consume(denoEchoes, packet.data)
    /\ UNCHANGED <<denoClosed, denoLoop>>

\* The socket is closed under receive(), which returns null.
DenoReceiveEnds ==
    /\ denoClosed /\ denoLoop = "receiving"
    /\ denoLoop' = "done"
    /\ UNCHANGED <<denoClosed, denoEchoes, netVars>>

\* engine.close(); what was remembered is not forgotten.
DenoClose ==
    /\ ~denoClosed
    /\ denoClosed' = TRUE
    /\ Leave(DenoHost)
    /\ UNCHANGED <<denoEchoes, denoLoop>>
=============================================================================
