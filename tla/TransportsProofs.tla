-------------------------- MODULE TransportsProofs --------------------------
(***************************************************************************)
(* Proofs about Transports: however packets, binds, failures and closes meet the  *)
(* one parked receive() of the Node transport, it is woken when it has to be, and   *)
(* what the transport let through reaches the engine once and in order; and the    *)
(* echoes a host waits for cover its own datagrams that are still to arrive.     *)
(***************************************************************************)
EXTENDS Transports, SequenceTheorems, FiniteSetTheorems, WellFoundedInduction, TLAPS

Packet == [to : Hosts, data : Data, left : Int]

NetTyped == DOMAIN net \subseteq Packet /\ listening \subseteq Hosts

\* What is received came from the network, and the network carries datagrams.
NodeTyped ==
    /\ inbox \in Seq(Data) /\ outgoing \in Seq(Data)
    /\ settled \in Data \cup {Null, Undefined}
    /\ waiting \in BOOLEAN /\ nodeClosed \in BOOLEAN

TInv == NetTyped /\ NodeTyped /\ NoLostWakeup

------------------------------------------------------------------------------
(* The network *)

LEMMA EmitTyped ==
    ASSUME NetTyped, NEW h, NEW x \in Data, Emit(h, x)
    PROVE  NetTyped'
<1>1. PICK to \in SUBSET listening :
         net' = net (+) SetToBag({Copy(k, h, x) : k \in to})
  BY DEF Emit
<1>2. DOMAIN (net') = DOMAIN net \cup {Copy(k, h, x) : k \in to}
  BY <1>1 DEF (+), SetToBag
<1>3. \A k \in to : Copy(k, h, x) \in Packet
  BY EchoAssumption DEF Copy, Packet, NetTyped
<1>. QED  BY <1>2, <1>3 DEF NetTyped, Emit

LEMMA ArrivesTyped ==
    ASSUME NetTyped, NEW p, Arrives(p)
    PROVE  NetTyped'
<1>1. DOMAIN (net') \subseteq DOMAIN net
  BY DEF Arrives, (-)
<1>. QED  BY <1>1 DEF NetTyped, Arrives

LEMMA LeaveTyped ==
    ASSUME NetTyped, NEW h, Leave(h)
    PROVE  NetTyped'
<1>1. DOMAIN (net') \subseteq DOMAIN net
  BY DEF Leave
<1>. QED  BY <1>1 DEF Leave, NetTyped

LEMMA TickTyped ==
    ASSUME NetTyped, net' = AgedNet, UNCHANGED listening
    PROVE  NetTyped'
<1>1. DOMAIN (net') = {[p EXCEPT !.left = Older(@)] : p \in DOMAIN net}
  BY DEF AgedNet
<1>2. \A p \in Packet : [p EXCEPT !.left = Older(@)] \in Packet
  BY DEF Packet, Older
<1>. QED  BY <1>1, <1>2 DEF NetTyped

------------------------------------------------------------------------------
(* The Node transport and its receive loop *)

\* What a step does to what has been received and not yet handled.
Step ==
    nodeClosed' \/ Received' = Received
    \/ (Received # <<>> /\ loop = "receiving" /\ Received' = Tail(Received))
    \/ \E x \in Data : Received' = Append(Received, x)

\* Steps that leave the receiving side alone.
LEMMA ElsewhereLemma ==
    ASSUME TInv, UNCHANGED <<inbox, waiting, settled, nodeClosed, loop>>,
           outgoing' \in Seq(Data), NetTyped'
    PROVE  TInv' /\ Step
BY DEF TInv, NodeTyped, NoLostWakeup, Step, Received

LEMMA CloseLemma ==
    ASSUME TInv, Close, UNCHANGED loop, outgoing' \in Seq(Data)
    PROVE  TInv' /\ Step
<1>1. NetTyped'
  BY LeaveTyped DEF TInv, Close
<1>2. NodeTyped'
  BY EmptySeq DEF TInv, NodeTyped, Close
<1>3. NoLostWakeup' /\ Step
  BY NullAssumption DEF TInv, NoLostWakeup, NodeTyped, Close, Step
<1>. QED  BY <1>1, <1>2, <1>3 DEF TInv

LEMMA NodeSendLemma ==
    ASSUME TInv, NEW x \in Data, NodeSend(x)
    PROVE  TInv' /\ Step
<1>1. outgoing' \in Seq(Data)
  BY DEF NodeSend, TInv, NodeTyped
<1>2. NetTyped'
  BY DEF NodeSend, TInv, NetTyped, netVars
<1>. QED  BY <1>1, <1>2, ElsewhereLemma DEF NodeSend

LEMMA NodeSendBoundLemma ==
    ASSUME TInv, NodeSendBound
    PROVE  TInv' /\ Step
<1>1. outgoing \in Seq(Data) /\ outgoing # <<>>
  BY DEF NodeSendBound, TInv, NodeTyped
<1>2. outgoing' \in Seq(Data) /\ Head(outgoing) \in Data
  BY <1>1 DEF NodeSendBound
<1>3. NetTyped'
  <2>1. CASE nodeClosed
    BY <2>1 DEF NodeSendBound, TInv, NetTyped, netVars
  <2>2. CASE ~nodeClosed
    BY <2>2, <1>2, EmitTyped DEF NodeSendBound, TInv
  <2>. QED  BY <2>1, <2>2
<1>. QED  BY <1>2, <1>3, ElsewhereLemma DEF NodeSendBound

LEMMA BoundLemma ==
    ASSUME TInv, Bound
    PROVE  TInv' /\ Step
<1>1. NetTyped'
  BY HostAssumption DEF Bound, TInv, NetTyped
<1>2. outgoing' \in Seq(Data)
  BY DEF Bound, TInv, NodeTyped
<1>. QED  BY <1>1, <1>2, ElsewhereLemma DEF Bound

LEMMA BindFailsLemma ==
    ASSUME TInv, BindFails
    PROVE  TInv' /\ Step
BY CloseLemma, EmptySeq DEF BindFails

\* receive(): nobody is parked and nothing handed over while the loop asks.
LEMMA NodeReceiveLemma ==
    ASSUME TInv, NodeReceive
    PROVE  TInv' /\ Step
<1>1. ~waiting /\ settled = Undefined /\ Received = inbox
  BY NullAssumption DEF TInv, NoLostWakeup, NodeReceive, Received, NodeTyped
<1>2. NetTyped'
  BY DEF NodeReceive, TInv, NetTyped, netVars
<1>3. CASE nodeClosed
  BY <1>1, <1>2, <1>3, NullAssumption
     DEF NodeReceive, TInv, NodeTyped, NoLostWakeup, Step
<1>4. CASE ~nodeClosed /\ inbox # <<>>
  <2>1. inbox \in Seq(Data) /\ Head(inbox) \in Data /\ Tail(inbox) \in Seq(Data)
    BY <1>4 DEF TInv, NodeTyped
  <2>2. settled' = Head(inbox) /\ inbox' = Tail(inbox) /\ UNCHANGED <<waiting, nodeClosed, outgoing>>
    BY <1>4 DEF NodeReceive
  <2>3. Received' = inbox
    <3>1. Received' = <<Head(inbox)>> \o Tail(inbox)
      BY <2>1, <2>2 DEF Received
    <3>. QED  BY <3>1, <2>1, <1>4
  <2>4. NodeTyped'
    BY <2>1, <2>2 DEF TInv, NodeTyped
  <2>5. NoLostWakeup'
    BY <1>1, <2>1, <2>2, NullAssumption DEF TInv, NoLostWakeup, NodeReceive
  <2>. QED  BY <1>1, <1>2, <2>3, <2>4, <2>5 DEF TInv, Step
<1>5. CASE ~nodeClosed /\ inbox = <<>>
  <2>1. waiting' = TRUE /\ UNCHANGED <<settled, inbox, nodeClosed, outgoing>> /\ loop' = "receiving"
    BY <1>5 DEF NodeReceive
  <2>. QED  BY <2>1, <1>1, <1>2, <1>5 DEF TInv, NodeTyped, NoLostWakeup, Step, Received
<1>. QED  BY <1>3, <1>4, <1>5

\* The loop resumes with what the promise was given, and it is the first.
LEMMA NodeResumeLemma ==
    ASSUME TInv, NodeResume
    PROVE  TInv' /\ Step
<1>1. ~waiting /\ loop = "receiving" /\ settled # Undefined
  BY DEF TInv, NoLostWakeup, NodeResume
<1>2. /\ settled' = Undefined /\ loop' \in {"done", "asking"}
      /\ UNCHANGED <<inbox, waiting, nodeClosed, outgoing>>
  BY DEF NodeResume
<1>3. NetTyped'
  BY DEF NodeResume, TInv, NetTyped, netVars
<1>4. NodeTyped' /\ NoLostWakeup'
  BY <1>1, <1>2 DEF TInv, NodeTyped, NoLostWakeup
<1>5. Received' = inbox
  BY <1>2, NullAssumption DEF Received, TInv, NodeTyped
<1>6. CASE settled \in Data
  <2>1. Received = <<settled>> \o inbox
    BY <1>6 DEF Received
  <2>2. Received # <<>> /\ Tail(Received) = inbox
    BY <2>1, <1>6 DEF TInv, NodeTyped
  <2>. QED  BY <1>1, <1>3, <1>4, <1>5, <2>2 DEF TInv, Step
<1>7. CASE settled \notin Data
  <2>1. Received = inbox
    BY <1>7 DEF Received, TInv, NodeTyped
  <2>. QED  BY <1>3, <1>4, <1>5, <2>1 DEF TInv, Step
<1>. QED  BY <1>6, <1>7

\* A parked receive() gets the datagram at once: there is nothing before it.
LEMMA AcceptLemma ==
    ASSUME TInv, NEW x \in Data, Accept(x), UNCHANGED <<nodeClosed, loop, outgoing>>, NetTyped',
           ~nodeClosed
    PROVE  TInv' /\ Step
<1>1. CASE waiting
  <2>1. inbox = <<>> /\ settled = Undefined /\ Received = <<>>
    BY <1>1, NullAssumption DEF TInv, NoLostWakeup, Received, NodeTyped
  <2>2. waiting' = FALSE /\ settled' = x /\ inbox' = inbox
    BY <1>1 DEF Accept
  <2>3. Received' = Append(Received, x)
    BY <2>1, <2>2 DEF Received
  <2>. QED  BY <1>1, <2>1, <2>2, <2>3, NullAssumption DEF TInv, NodeTyped, NoLostWakeup, Step
<1>2. CASE ~waiting
  <2>1. inbox' = Append(inbox, x) /\ UNCHANGED <<waiting, settled>>
    BY <1>2 DEF Accept
  <2>2. Received' = Append(Received, x)
    BY <2>1 DEF Received, TInv, NodeTyped
  <2>. QED  BY <1>2, <2>1, <2>2 DEF TInv, NodeTyped, NoLostWakeup, Step
<1>. QED  BY <1>1, <1>2

LEMMA OnMessageLemma ==
    ASSUME TInv, NEW p \in DOMAIN net, OnMessage(p)
    PROVE  TInv' /\ Step
<1>1. NetTyped'
  BY ArrivesTyped DEF OnMessage, TInv
<1>2. p.data \in Data
  BY DEF TInv, NetTyped, Packet
<1>3. CASE IsEcho(echoes, p.data)
  BY <1>1, <1>3, ElsewhereLemma DEF OnMessage, TInv, NodeTyped
<1>4. CASE ~IsEcho(echoes, p.data)
  BY <1>1, <1>2, <1>4, AcceptLemma DEF OnMessage
<1>. QED  BY <1>3, <1>4

LEMMA NodeEngineCloseLemma ==
    ASSUME TInv, NodeEngineClose
    PROVE  TInv' /\ Step
<1>1. outgoing' \in Seq(Data) /\ UNCHANGED loop
  BY DEF NodeEngineClose, TInv, NodeTyped
<1>2. CASE nodeClosed
  BY <1>1, <1>2, ElsewhereLemma DEF NodeEngineClose, TInv, NetTyped, netVars
<1>3. CASE ~nodeClosed
  BY <1>1, <1>3, CloseLemma DEF NodeEngineClose
<1>. QED  BY <1>2, <1>3

------------------------------------------------------------------------------
(* The Deno transport and time *)

LEMMA DenoLemma ==
    ASSUME TInv, UNCHANGED nodeVars, NetTyped'
    PROVE  TInv' /\ Step
BY ElsewhereLemma DEF nodeVars, TInv, NodeTyped

LEMMA DenoSendLemma ==
    ASSUME TInv, NEW x \in Data, DenoSend(x)
    PROVE  NetTyped'
<1>1. CASE Emit(DenoHost, x)
  BY <1>1, EmitTyped DEF TInv
<1>2. CASE sent' = sent + 1 /\ UNCHANGED <<net, listening>>
  BY <1>2 DEF TInv, NetTyped
<1>. QED  BY <1>1, <1>2 DEF DenoSend

LEMMA DenoOtherLemma ==
    ASSUME TInv, DenoReceiveEnds \/ DenoClose \/ \E p \in DOMAIN net : DenoReceive(p)
    PROVE  NetTyped'
<1>1. CASE DenoReceiveEnds
  BY <1>1 DEF DenoReceiveEnds, TInv, NetTyped, netVars
<1>2. CASE DenoClose
  BY <1>2, LeaveTyped DEF DenoClose, TInv
<1>3. ASSUME NEW p \in DOMAIN net, DenoReceive(p) PROVE NetTyped'
  BY <1>3, ArrivesTyped DEF DenoReceive, TInv
<1>. QED  BY <1>1, <1>2, <1>3

LEMMA TickLemma ==
    ASSUME TInv, Tick
    PROVE  TInv' /\ Step
<1>1. NetTyped'
  BY TickTyped DEF Tick, TInv
<1>. QED  BY <1>1, ElsewhereLemma DEF Tick, TInv, NodeTyped

------------------------------------------------------------------------------
(* The theorems *)

LEMMA TransportsInit == Init => TInv
<1>. SUFFICES ASSUME Init PROVE TInv
  OBVIOUS
<1>1. NetTyped
  BY HostAssumption DEF Init, NetTyped, EmptyBag, SetToBag
<1>2. NodeTyped /\ NoLostWakeup
  BY EmptySeq DEF Init, NodeInit, NodeTyped, NoLostWakeup
<1>. QED  BY <1>1, <1>2 DEF TInv

LEMMA TransportsStep == TInv /\ [Next]_vars => TInv' /\ Step
<1>. SUFFICES ASSUME TInv, [Next]_vars PROVE TInv' /\ Step
  OBVIOUS
<1>1. CASE Sending
  BY <1>1, NodeSendBoundLemma, DenoSendLemma, DenoLemma DEF Sending
<1>2. ASSUME NEW p \in DOMAIN net, Receiving(p) PROVE TInv' /\ Step
  BY <1>2, OnMessageLemma, DenoOtherLemma, DenoLemma DEF Receiving
<1>3. CASE Local
  BY <1>3, NodeSendLemma, BoundLemma, BindFailsLemma, NodeReceiveLemma, NodeResumeLemma,
     NodeEngineCloseLemma, DenoOtherLemma, DenoLemma DEF Local
<1>4. CASE Tick
  BY <1>4, TickLemma
<1>5. CASE UNCHANGED vars
  <2>1. NetTyped'
    BY <1>5 DEF vars, netVars, TInv, NetTyped
  <2>. QED  BY <1>5, <2>1, DenoLemma DEF vars
<1>. QED  BY <1>1, <1>2, <1>3, <1>4, <1>5 DEF Next

\* The types of the Node transport and of the network, with the wake-up condition that
\* every step of receive(), onMessage and close() relies on.
THEOREM TransportsInvariant == Spec => []TInv
BY TransportsInit, TransportsStep, PTL DEF Spec

\* receive, onMessage, close: a receive() is parked only while there is nothing to hand
\* over and the transport is open, however often the bind fails or datagrams arrive.
THEOREM ReceiversAreWokenUp == Spec => []NoLostWakeup
<1>1. TInv => NoLostWakeup
  BY DEF TInv
<1>. QED  BY <1>1, TransportsInvariant, PTL

\* onMessage, receive: datagrams reach the engine once, in the order they were let
\* through, handed over or buffered.
THEOREM DatagramsKeepTheirOrder == Spec => InOrder
<1>1. TInv /\ [Next]_vars => [Step]_vars
  BY TransportsStep
<1>2. [][Step]_vars => InOrder
  BY PTL DEF InOrder, Step
<1>. QED  BY <1>1, <1>2, TransportsInvariant, PTL DEF Spec

------------------------------------------------------------------------------
(* Remembered datagrams *)

Entries == [data : Data, count : Nat \ {0}, left : Int]

\* At most so many entries, and one per datagram.
Remembered(sends) ==
    /\ sends \in Seq(Entries) /\ Len(sends) <= MaxEntries
    /\ \A j, k \in 1..Len(sends) : sends[j].data = sends[k].data => j = k

\* The time an entry has left, if there is one.
Left(sends, data) == IF Entry(sends, data) = 0 THEN -1 ELSE sends[Entry(sends, data)].left

LEMMA LeastNumber ==
    ASSUME NEW T, T \subseteq Nat, T # {}
    PROVE  \E m \in T : \A n \in T : m <= n
<1> DEFINE R == OpToRel(<, Nat)
<1>1. IsWellFoundedOn(R, Nat)
  BY NatLessThanWellFounded
<1>2. PICK m \in T : \A n \in T : ~(<<n, m>> \in R)
  BY <1>1, WFMin
<1>3. \A n \in T : m <= n
  <2> SUFFICES ASSUME NEW n \in T PROVE m <= n
    OBVIOUS
  <2>1. ~(n < m)
    BY <1>2 DEF OpToRel
  <2> QED
    BY <2>1
<1> QED
  BY <1>3

LEMMA EntryIs ==
    ASSUME NEW sends, Remembered(sends), NEW k \in 1..Len(sends)
    PROVE  Entry(sends, sends[k].data) = k
<1> DEFINE I == {j \in 1..Len(sends) : sends[j].data = sends[k].data}
<1>1. I = {k}
  BY DEF Remembered
<1>2. Entry(sends, sends[k].data) = IF I # {} THEN Min(I) ELSE 0
  BY DEF Entry, SelectInSeq
<1>3. Min({k}) = k
  BY DEF Min
<1>. QED  BY <1>1, <1>2, <1>3

LEMMA NoEntry ==
    ASSUME NEW sends, NEW x, \A k \in 1..Len(sends) : sends[k].data # x
    PROVE  Entry(sends, x) = 0
BY DEF Entry, SelectInSeq

LEMMA EntryTyped ==
    ASSUME NEW sends, Remembered(sends), NEW x
    PROVE  /\ Entry(sends, x) \in 0..Len(sends)
           /\ Entry(sends, x) # 0 => sends[Entry(sends, x)].data = x
<1>1. CASE \E k \in 1..Len(sends) : sends[k].data = x
  BY <1>1, EntryIs, LenProperties DEF Remembered
<1>2. CASE ~\E k \in 1..Len(sends) : sends[k].data = x
  BY <1>2, NoEntry, LenProperties DEF Remembered
<1>. QED  BY <1>1, <1>2

\* The loop over the first entries.
Loop(sends, n, live) ==
    live = [k \in 0..n |->
               IF k = 0 THEN <<>>
               ELSE IF Expired(sends[k]) THEN live[k - 1] ELSE Append(live[k - 1], sends[k])]

LEMMA LoopExists ==
    ASSUME NEW sends, NEW n \in Nat
    PROVE  \E live : Loop(sends, n, live)
<1> DEFINE T == {m \in Nat : ~\E live : Loop(sends, m, live)}
<1>1. SUFFICES ASSUME T # {} PROVE FALSE
  OBVIOUS
<1>2. PICK m \in T : \A j \in T : m <= j
  BY <1>1, LeastNumber
<1>3. CASE m = 0
  <2> DEFINE f == [k \in 0..0 |-> <<>>]
  <2>1. Loop(sends, 0, f)
    BY DEF Loop
  <2>. QED  BY <1>2, <1>3, <2>1
<1>4. CASE m # 0
  <2>1. m - 1 \in Nat /\ m - 1 \notin T
    BY <1>2, <1>4
  <2>2. PICK g : Loop(sends, m - 1, g)
    BY <2>1
  <2> DEFINE f == [k \in 0..m |-> IF k < m THEN g[k]
                     ELSE IF Expired(sends[m]) THEN g[m - 1] ELSE Append(g[m - 1], sends[m])]
  <2>3. \A k \in 0..(m - 1) : f[k] = g[k]
    BY <1>2
  <2>4. \A k \in 0..(m - 1) : g[k] =
           IF k = 0 THEN <<>>
           ELSE IF Expired(sends[k]) THEN g[k - 1] ELSE Append(g[k - 1], sends[k])
    BY <2>2 DEF Loop
  <2>5. ASSUME NEW k \in 0..m
        PROVE f[k] = IF k = 0 THEN <<>>
           ELSE IF Expired(sends[k]) THEN f[k - 1] ELSE Append(f[k - 1], sends[k])
    <3>1. CASE k = m
      BY <1>2, <1>4, <2>3, <3>1
    <3>2. CASE k # m
      <4>1. k \in 0..(m - 1) /\ f[k] = g[k]
        BY <3>2, <2>3, <1>2
      <4>2. k # 0 => k - 1 \in 0..(m - 1) /\ f[k - 1] = g[k - 1]
        BY <4>1, <2>3, <1>2
      <4> HIDE DEF f
      <4>. QED  BY <4>1, <4>2, <2>4
    <3>. QED  BY <3>1, <3>2
  <2>6. f = [k \in 0..m |-> f[k]]
    OBVIOUS
  <2> HIDE DEF f
  <2>7. Loop(sends, m, f)
    BY <2>5, <2>6 DEF Loop
  <2>. QED  BY <2>7, <1>2
<1>. QED  BY <1>3, <1>4

LEMMA PruneIsLoop ==
    ASSUME NEW sends, Len(sends) \in Nat
    PROVE  \E live : Loop(sends, Len(sends), live) /\ Prune(sends) = live[Len(sends)]
<1> DEFINE live == CHOOSE live : Loop(sends, Len(sends), live)
<1>1. Loop(sends, Len(sends), live)
  BY LoopExists
<1>2. Prune(sends) = live[Len(sends)]
  BY DEF Prune, Loop
<1>. QED  BY <1>1, <1>2

\* What the first n entries leave.
Kept(sends, n, q) ==
    /\ q \in Seq(Entries) /\ Len(q) <= n
    /\ \A j \in 1..Len(q) : \E i \in 1..n : q[j] = sends[i] /\ ~Expired(sends[i])
    /\ \A i \in 1..n : ~Expired(sends[i]) => \E j \in 1..Len(q) : q[j] = sends[i]
    /\ \A j, k \in 1..Len(q) : q[j].data = q[k].data => j = k

LEMMA KeptStep ==
    ASSUME NEW sends, Remembered(sends), NEW n \in 1..Len(sends), NEW q, Kept(sends, n - 1, q)
    PROVE  /\ Expired(sends[n]) => Kept(sends, n, q)
           /\ ~Expired(sends[n]) => Kept(sends, n, Append(q, sends[n]))
<1>1. Len(sends) \in Nat /\ n \in Nat /\ n - 1 \in Nat /\ Len(q) \in Nat
  BY LenProperties DEF Remembered, Kept
<1>2. \A i \in 1..n : i # n => i \in 1..(n - 1)
  BY <1>1
<1>3. CASE Expired(sends[n])
  BY <1>1, <1>2, <1>3 DEF Kept
<1>4. CASE ~Expired(sends[n])
  <2> DEFINE r == Append(q, sends[n])
  <2>1. sends[n] \in Entries
    BY DEF Remembered
  <2>2. /\ r \in Seq(Entries) /\ Len(r) = Len(q) + 1
        /\ \A j \in 1..Len(q) : r[j] = q[j]
        /\ r[Len(q) + 1] = sends[n]
    BY <2>1, AppendProperties DEF Kept
  <2> HIDE DEF r
  <2>3. ASSUME NEW j \in 1..Len(r)
        PROVE  \E i \in 1..n : r[j] = sends[i] /\ ~Expired(sends[i])
    <3>1. CASE j = Len(q) + 1
      BY <2>2, <3>1, <1>1, <1>4
    <3>2. CASE j # Len(q) + 1
      <4>1. j \in 1..Len(q) /\ r[j] = q[j]
        BY <2>2, <3>2, <1>1
      <4>. QED  BY <4>1, <1>1 DEF Kept
    <3>. QED  BY <3>1, <3>2
  <2>4. ASSUME NEW i \in 1..n, ~Expired(sends[i]) PROVE \E j \in 1..Len(r) : r[j] = sends[i]
    <3>1. CASE i = n
      BY <2>2, <3>1, <1>1
    <3>2. CASE i # n
      <4>1. PICK j \in 1..Len(q) : q[j] = sends[i]
        BY <2>4, <3>2, <1>2 DEF Kept
      <4>. QED  BY <4>1, <2>2, <1>1
    <3>. QED  BY <3>1, <3>2
  <2>5. ASSUME NEW j \in 1..Len(q) PROVE q[j].data # sends[n].data
    <3>1. PICK i \in 1..(n - 1) : q[j] = sends[i]
      BY DEF Kept
    <3>2. i \in 1..Len(sends) /\ i # n
      BY <1>1
    <3>. QED  BY <3>1, <3>2 DEF Remembered
  <2>6. ASSUME NEW j \in 1..Len(r), NEW k \in 1..Len(r), r[j].data = r[k].data PROVE j = k
    <3>1. \A l \in 1..Len(r) : l = Len(q) + 1 \/ (l \in 1..Len(q) /\ r[l] = q[l])
      BY <2>2, <1>1
    <3>. QED  BY <3>1, <2>2, <2>5, <2>6 DEF Kept
  <2>7. Len(r) <= n
    BY <2>2, <1>1 DEF Kept
  <2>8. Kept(sends, n, r)
    BY <2>2, <2>3, <2>4, <2>6, <2>7 DEF Kept
  <2>. QED  BY <2>8, <1>4 DEF r
<1>. QED  BY <1>3, <1>4

LEMMA PruneKeeps ==
    ASSUME NEW sends, Remembered(sends)
    PROVE  Kept(sends, Len(sends), Prune(sends))
<1>1. Len(sends) \in Nat
  BY LenProperties DEF Remembered
<1>2. PICK live : Loop(sends, Len(sends), live) /\ Prune(sends) = live[Len(sends)]
  BY <1>1, PruneIsLoop
<1> DEFINE T == {n \in 0..Len(sends) : ~Kept(sends, n, live[n])}
<1>3. SUFFICES ASSUME T # {} PROVE FALSE
  BY <1>1, <1>2
<1>4. PICK n \in T : \A j \in T : n <= j
  <2>1. T \subseteq Nat
    BY <1>1
  <2>. QED  BY <1>3, <2>1, LeastNumber
<1>5. \A k \in 0..Len(sends) : live[k] =
         IF k = 0 THEN <<>>
         ELSE IF Expired(sends[k]) THEN live[k - 1] ELSE Append(live[k - 1], sends[k])
  BY <1>2 DEF Loop
<1>6. CASE n = 0
  <2>1. live[0] = <<>>
    BY <1>1, <1>5
  <2>2. Kept(sends, 0, <<>>)
    BY EmptySeq DEF Kept
  <2>. QED  BY <1>4, <1>6, <2>1, <2>2
<1>7. CASE n # 0
  <2>1. n \in 1..Len(sends) /\ n - 1 \in 0..Len(sends) /\ n - 1 \notin T
    BY <1>1, <1>4, <1>7
  <2>2. Kept(sends, n - 1, live[n - 1])
    BY <2>1
  <2>3. Kept(sends, n, live[n])
    <3>1. live[n] = IF Expired(sends[n]) THEN live[n - 1] ELSE Append(live[n - 1], sends[n])
      BY <1>5, <1>7, <2>1
    <3>. QED  BY <2>1, <2>2, <3>1, KeptStep
  <2>. QED  BY <2>3, <1>4
<1>. QED  BY <1>6, <1>7

------------------------------------------------------------------------------
\* What two sequences of entries say alike of a datagram.
Alike(s, t, x) ==
    /\ Entry(s, x) = 0 <=> Entry(t, x) = 0
    /\ Credit(s, x) = Credit(t, x) /\ Left(s, x) = Left(t, x)

LEMMA SameEntry ==
    ASSUME NEW s, NEW t, Remembered(s), Remembered(t), NEW j \in 1..Len(s), NEW k \in 1..Len(t),
           s[j] = t[k]
    PROVE  Alike(s, t, s[j].data)
<1>1. Entry(s, s[j].data) = j /\ Entry(t, s[j].data) = k
  BY EntryIs
<1>2. j # 0 /\ k # 0
  BY LenProperties DEF Remembered
<1>. QED  BY <1>1, <1>2 DEF Alike, Credit, IsEcho, Left, Expired

LEMMA PruneFacts ==
    ASSUME NEW sends, Remembered(sends)
    PROVE  /\ Remembered(Prune(sends))
           /\ \A k \in 1..Len(Prune(sends)) : Prune(sends)[k].left >= 0
           /\ \A x : \/ Alike(sends, Prune(sends), x)
                     \/ Entry(Prune(sends), x) = 0 /\ Credit(sends, x) = 0
<1> DEFINE q == Prune(sends)
<1>1. Kept(sends, Len(sends), q)
  BY PruneKeeps
<1>2. Len(sends) \in Nat /\ Len(q) \in Nat
  BY <1>1, LenProperties DEF Remembered, Kept
<1>3. Remembered(q)
  BY <1>1, <1>2, EchoAssumption DEF Kept, Remembered
<1>4. \A k \in 1..Len(q) : q[k].left >= 0
  <2> SUFFICES ASSUME NEW k \in 1..Len(q) PROVE q[k].left >= 0
    OBVIOUS
  <2>1. q[k] \in Entries
    BY <1>3, LenProperties DEF Remembered
  <2>2. q[k].left \in Int
    BY <2>1 DEF Entries
  <2>. QED  BY <1>1, <2>2 DEF Kept, Expired
<1>5. ASSUME NEW x PROVE Alike(sends, q, x) \/ (Entry(q, x) = 0 /\ Credit(sends, x) = 0)
  <2>1. CASE \E j \in 1..Len(q) : q[j].data = x
    <3>1. PICK j \in 1..Len(q) : q[j].data = x
      BY <2>1
    <3>2. PICK i \in 1..Len(sends) : q[j] = sends[i]
      BY <1>1 DEF Kept
    <3>. QED  BY <1>3, <3>1, <3>2, SameEntry
  <2>2. CASE ~\E j \in 1..Len(q) : q[j].data = x
    <3>1. Entry(q, x) = 0
      BY <2>2, NoEntry
    <3>2. \A i \in 1..Len(sends) : sends[i].data = x => Expired(sends[i])
      BY <1>1, <2>2 DEF Kept
    <3>3. Credit(sends, x) = 0
      BY <3>2, EntryTyped, <1>2 DEF Credit, IsEcho
    <3>. QED  BY <3>1, <3>3
  <2>. QED  BY <2>1, <2>2
<1>. QED  BY <1>3, <1>4, <1>5

\* What is taken over is alike.
HasFrom(t, s, x) ==
    \A j \in 1..Len(t) : t[j].data # x => \E i \in 1..Len(s) : s[i] = t[j]

LEMMA TakenOver ==
    ASSUME NEW s, NEW t, Remembered(s), Remembered(t), NEW x, HasFrom(t, s, x)
    PROVE  \A y : y # x => Entry(t, y) = 0 \/ Alike(s, t, y)
<1>. SUFFICES ASSUME NEW y, y # x, Entry(t, y) # 0 PROVE Alike(s, t, y)
  OBVIOUS
<1>1. PICK j \in 1..Len(t) : t[j].data = y
  BY NoEntry
<1>2. PICK i \in 1..Len(s) : s[i] = t[j]
  BY <1>1 DEF HasFrom
<1>. QED  BY <1>1, <1>2, SameEntry

\* remember: one credit more, for a whole window, and for anything else what it had or
\* nothing.
LEMMA RememberFacts ==
    ASSUME NEW sends, Remembered(sends), NEW x \in Data
    PROVE  LET now == Remember(sends, x) IN
           /\ Remembered(now)
           /\ Entry(now, x) # 0 /\ Left(now, x) = Ttl /\ Credit(now, x) = Credit(sends, x) + 1
           /\ \A y : y # x => Entry(now, y) = 0 \/ Alike(sends, now, y)
<1> DEFINE kept == Prune(sends)
           k == Entry(kept, x)
           now == Remember(sends, x)
           Goal == /\ Remembered(now)
                   /\ Entry(now, x) # 0 /\ Left(now, x) = Ttl
                   /\ Credit(now, x) = Credit(sends, x) + 1
                   /\ \A y : y # x => Entry(now, y) = 0 \/ Alike(sends, now, y)
<1>0. SUFFICES Goal
  OBVIOUS
<1>1. /\ Remembered(kept)
      /\ \A j \in 1..Len(kept) : kept[j].left >= 0
      /\ \A y : Alike(sends, kept, y) \/ (Entry(kept, y) = 0 /\ Credit(sends, y) = 0)
  BY PruneFacts
<1>2. now = LET grown == IF k # 0
                 THEN [kept EXCEPT ![k] = [data |-> x, count |-> @.count + 1, left |-> Ttl]]
                 ELSE Append(kept, [data |-> x, count |-> 1, left |-> Ttl])
            IN  IF Len(grown) > MaxEntries THEN Tail(grown) ELSE grown
  BY DEF Remember
<1>3. k \in 0..Len(kept) /\ (k # 0 => kept[k].data = x)
  BY <1>1, EntryTyped
<1>4. /\ kept \in Seq(Entries) /\ Len(kept) \in Nat /\ Len(kept) <= MaxEntries
      /\ \A j \in 1..Len(kept) : kept[j] \in Entries
      /\ \A i, j \in 1..Len(kept) : kept[i].data = kept[j].data => i = j
  BY <1>1, LenProperties DEF Remembered
<1> HIDE DEF kept, k, now, Goal
<1>5. ASSUME NEW e \in Entries, e.data = x, e.left = Ttl, e.count = Credit(kept, x) + 1,
             Remembered(now), NEW n \in 1..Len(now), now[n] = e,
             \A j \in 1..Len(now) : j # n => \E i \in 1..Len(kept) : kept[i] = now[j]
      PROVE  Goal
  <2>1. Entry(now, x) = n /\ n # 0
    BY <1>5, EntryIs
  <2>2. Left(now, x) = Ttl
    BY <1>5, <2>1 DEF Left
  <2>3. Credit(now, x) = Credit(kept, x) + 1
    BY <1>5, <2>1, EchoAssumption DEF Credit, IsEcho, Expired
  <2>4. Credit(kept, x) = Credit(sends, x)
    <3>1. Entry(kept, x) = 0 => Credit(kept, x) = 0
      BY DEF Credit, IsEcho
    <3>. QED  BY <1>1, <3>1 DEF Alike
  <2>5. HasFrom(now, kept, x)
    BY <1>5 DEF HasFrom
  <2>6. ASSUME NEW y, y # x, Entry(now, y) # 0 PROVE Alike(sends, now, y)
    <3>1. Alike(kept, now, y)
      BY <1>1, <1>5, <2>5, <2>6, TakenOver
    <3>. QED  BY <1>1, <2>6, <3>1 DEF Alike
  <2>. QED  BY <1>5, <2>1, <2>2, <2>3, <2>4, <2>6 DEF Goal
<1>6. CASE k # 0
  <2> DEFINE e == [data |-> x, count |-> kept[k].count + 1, left |-> Ttl]
             grown == [kept EXCEPT ![k] = e]
  <2>1. k \in 1..Len(kept) /\ kept[k] \in Entries
    BY <1>3, <1>4, <1>6
  <2>3. e \in Entries
    BY <2>1, EchoAssumption DEF Entries
  <2>5. /\ grown \in Seq(Entries) /\ Len(grown) = Len(kept)
        /\ \A j \in 1..Len(kept) : grown[j] = IF j = k THEN e ELSE kept[j]
    BY <1>4, <2>1, <2>3, ExceptSeq
  <2>6. now = grown
    BY <1>2, <1>4, <1>6, <2>5, EchoAssumption
  <2>7. e.data = x /\ e.left = Ttl /\ e.count = kept[k].count + 1
    OBVIOUS
  <2> HIDE DEF e, grown
  <2>8. Remembered(now)
    BY <1>3, <1>4, <1>6, <2>1, <2>5, <2>6, <2>7 DEF Remembered
  <2>9. Credit(kept, x) = kept[k].count
    BY <1>1, <1>6, <2>1 DEF Credit, IsEcho, Expired, k, Entries
  <2>. QED  BY <1>5, <2>1, <2>3, <2>5, <2>6, <2>7, <2>8, <2>9
<1>7. CASE k = 0
  <2> DEFINE e == [data |-> x, count |-> 1, left |-> Ttl]
             grown == Append(kept, e)
             n == Len(kept)
  <2>1. e \in Entries /\ e.data = x /\ e.left = Ttl /\ e.count = 1
    BY EchoAssumption DEF Entries
  <2>2. /\ grown \in Seq(Entries) /\ Len(grown) = n + 1
        /\ \A j \in 1..n : grown[j] = kept[j]
        /\ grown[n + 1] = e
    BY <1>4, <2>1, AppendProperties
  <2>3. now = IF n + 1 > MaxEntries THEN Tail(grown) ELSE grown
    BY <1>2, <1>7, <2>2
  <2>4. Credit(kept, x) = 0
    BY <1>7 DEF Credit, IsEcho, k
  <2>5. \A j \in 1..n : kept[j].data # x
    <3> SUFFICES ASSUME NEW j \in 1..n, kept[j].data = x PROVE FALSE
      OBVIOUS
    <3>1. k = j
      BY <1>1, EntryIs DEF k
    <3>. QED  BY <3>1, <1>4, <1>7
  <2>6. n \in Nat /\ n <= MaxEntries /\ MaxEntries \in Nat \ {0}
    BY <1>4, EchoAssumption
  <2> HIDE DEF e, grown
  <2>7. CASE n + 1 > MaxEntries
    <3>1. now = Tail(grown)
      BY <2>3, <2>7
    <3>2. /\ now \in Seq(Entries) /\ Len(now) = n
          /\ \A j \in 1..n : now[j] = grown[j + 1]
      <4>1. grown # <<>>
        BY <2>2, <2>6, EmptySeq
      <4>2. /\ Tail(grown) \in Seq(Entries) /\ Len(Tail(grown)) = Len(grown) - 1
            /\ \A j \in 1..Len(Tail(grown)) : Tail(grown)[j] = grown[j + 1]
        BY <2>2, <4>1, HeadTailProperties
      <4>. QED  BY <2>2, <2>6, <3>1, <4>2
    <3>3. n \in 1..Len(now) /\ now[n] = e
      BY <2>2, <2>6, <2>7, <3>2
    <3>4. \A j \in 1..n : j # n => j + 1 \in 1..n /\ now[j] = kept[j + 1]
      BY <2>2, <2>6, <3>2
    <3>5. Remembered(now)
      <4>1. ASSUME NEW i \in 1..n, NEW j \in 1..n, now[i].data = now[j].data PROVE i = j
        <5>1. CASE i = n \/ j = n
          BY <2>1, <2>5, <3>3, <3>4, <4>1, <5>1
        <5>2. CASE i # n /\ j # n
          <6>1. i + 1 = j + 1
            BY <1>4, <3>4, <4>1, <5>2
          <6>. QED  BY <6>1, <2>6
        <5>. QED  BY <5>1, <5>2
      <4>. QED  BY <2>6, <3>2, <4>1 DEF Remembered
    <3>6. \A j \in 1..Len(now) : j # n => \E i \in 1..Len(kept) : kept[i] = now[j]
      BY <3>2, <3>4
    <3> HIDE DEF n
    <3>7. e.count = Credit(kept, x) + 1
      BY <2>1, <2>4
    <3>. QED  BY <1>5, <2>1, <3>3, <3>5, <3>6, <3>7
  <2>8. CASE ~(n + 1 > MaxEntries)
    <3>1. now = grown
      BY <2>3, <2>8
    <3>2. \A j \in 1..(n + 1) : j = n + 1 \/ (j \in 1..n /\ now[j] = kept[j])
      BY <2>2, <2>6, <3>1
    <3>3. Remembered(now)
      <4>1. ASSUME NEW i \in 1..(n + 1), NEW j \in 1..(n + 1), now[i].data = now[j].data PROVE i = j
        BY <1>4, <2>1, <2>2, <2>5, <3>1, <3>2, <4>1
      <4>. QED  BY <2>2, <2>6, <2>8, <3>1, <4>1 DEF Remembered
    <3>4. n + 1 \in 1..Len(now) /\ now[n + 1] = e
      BY <2>2, <2>6, <3>1
    <3>5. \A j \in 1..Len(now) : j # n + 1 => \E i \in 1..Len(kept) : kept[i] = now[j]
      BY <2>2, <3>1, <3>2
    <3> HIDE DEF n
    <3>6. e.count = Credit(kept, x) + 1
      BY <2>1, <2>4
    <3>. QED  BY <1>5, <2>1, <3>3, <3>4, <3>5, <3>6
  <2>. QED  BY <2>7, <2>8
<1>. QED  BY <1>3, <1>4, <1>6, <1>7

\* An entry removed: the others keep their order.
LEMMA RemoveAtFacts ==
    ASSUME NEW s, Remembered(s), NEW k \in 1..Len(s)
    PROVE  LET t == RemoveAt(s, k) IN
           /\ Remembered(t)
           /\ \A j \in 1..Len(t) : t[j].data # s[k].data
           /\ \A j \in 1..Len(t) : \E i \in 1..Len(s) : s[i] = t[j]
           /\ \A i \in 1..Len(s) : i # k => \E j \in 1..Len(t) : t[j] = s[i]
<1> DEFINE before == SubSeq(s, 1, k - 1)
           after == SubSeq(s, k + 1, Len(s))
           t == RemoveAt(s, k)
           n == Len(s)
<1>1. n \in Nat /\ k \in Nat /\ k \in 1..n /\ s \in Seq(Entries)
  BY LenProperties DEF Remembered
<1>2. /\ before \in Seq(Entries) /\ Len(before) = k - 1
      /\ \A i \in 1..(k - 1) : before[i] = s[i]
  BY <1>1, SubSeqProperties
<1>3. /\ after \in Seq(Entries) /\ Len(after) = n - k
      /\ \A i \in 1..(n - k) : after[i] = s[k + i]
  BY <1>1, SubSeqProperties
<1>4. t = before \o after
  BY DEF RemoveAt
<1> HIDE DEF before, after, t
<1>5. /\ t \in Seq(Entries) /\ Len(t) = n - 1
      /\ \A i \in 1..(n - 1) : t[i] = IF i <= k - 1 THEN before[i] ELSE after[i - (k - 1)]
  <2>1. (k - 1) + (n - k) = n - 1
    BY <1>1
  <2> HIDE DEF n
  <2>2. /\ before \o after \in Seq(Entries) /\ Len(before \o after) = Len(before) + Len(after)
        /\ \A i \in 1..(Len(before) + Len(after)) : (before \o after)[i] =
              IF i <= Len(before) THEN before[i] ELSE after[i - Len(before)]
    BY <1>2, <1>3, ConcatProperties
  <2>. QED  BY <1>2, <1>3, <1>4, <2>1, <2>2
<1>6. \A i \in 1..(n - 1) : t[i] = IF i < k THEN s[i] ELSE s[i + 1]
  <2> SUFFICES ASSUME NEW i \in 1..(n - 1) PROVE t[i] = IF i < k THEN s[i] ELSE s[i + 1]
    OBVIOUS
  <2>1. CASE i < k
    BY <1>1, <1>2, <1>5, <2>1
  <2>2. CASE ~(i < k)
    <3>1. i - (k - 1) \in 1..(n - k) /\ k + (i - (k - 1)) = i + 1
      BY <1>1, <2>2
    <3>2. after[i - (k - 1)] = s[k + (i - (k - 1))]
      BY <1>3, <3>1
    <3>. QED  BY <1>1, <1>5, <2>2, <3>1, <3>2
  <2>. QED  BY <2>1, <2>2
<1>7. \A i, j \in 1..n : s[i].data = s[j].data => i = j
  BY DEF Remembered
<1>8. \A j \in 1..Len(t) : \E i \in 1..n : i # k /\ s[i] = t[j] /\ (j < k => i = j) /\ (j >= k => i = j + 1)
  BY <1>1, <1>5, <1>6
<1>9. \A i \in 1..n : i # k => \E j \in 1..Len(t) : t[j] = s[i]
  <2> SUFFICES ASSUME NEW i \in 1..n, i # k PROVE \E j \in 1..Len(t) : t[j] = s[i]
    OBVIOUS
  <2>1. CASE i < k
    <3>1. i \in 1..(n - 1) /\ t[i] = s[i]
      BY <1>1, <1>6, <2>1
    <3>. QED  BY <1>5, <3>1
  <2>2. CASE i > k
    <3>1. i - 1 \in 1..(n - 1) /\ t[i - 1] = s[i]
      BY <1>1, <1>6, <2>2
    <3>. QED  BY <1>5, <3>1
  <2>. QED  BY <1>1, <2>1, <2>2
<1>10. \A i, j \in 1..Len(t) : t[i].data = t[j].data => i = j
  BY <1>1, <1>5, <1>7, <1>8
<1>11. Remembered(t)
  BY <1>1, <1>5, <1>10, EchoAssumption DEF Remembered
<1>. QED  BY <1>7, <1>8, <1>9, <1>11 DEF t

\* consume: the credit it takes is of this datagram alone.
LEMMA ConsumeFacts ==
    ASSUME NEW sends, Remembered(sends), NEW x
    PROVE  LET now == Consume(sends, x) IN
           /\ Remembered(now)
           /\ Credit(now, x) = IF IsEcho(sends, x) THEN Credit(sends, x) - 1 ELSE 0
           /\ Entry(now, x) # 0 => Entry(sends, x) # 0 /\ Left(now, x) = Left(sends, x)
           /\ \A y : y # x => Alike(sends, now, y)
<1> DEFINE k == Entry(sends, x)
           now == Consume(sends, x)
           Goal == /\ Remembered(now)
                   /\ Credit(now, x) = IF IsEcho(sends, x) THEN Credit(sends, x) - 1 ELSE 0
                   /\ Entry(now, x) # 0 => Entry(sends, x) # 0 /\ Left(now, x) = Left(sends, x)
                   /\ \A y : y # x => Alike(sends, now, y)
<1>0. SUFFICES Goal
  OBVIOUS
<1>1. k \in 0..Len(sends) /\ (k # 0 => sends[k].data = x) /\ Len(sends) \in Nat
  BY EntryTyped, LenProperties DEF Remembered
<1>2. now = IF k = 0 THEN sends
            ELSE IF Expired(sends[k]) \/ sends[k].count = 1 THEN RemoveAt(sends, k)
            ELSE [sends EXCEPT ![k].count = @ - 1]
  BY DEF Consume
<1> HIDE DEF now, Goal
<1>3. ASSUME Remembered(now), HasFrom(now, sends, x), HasFrom(sends, now, x)
      PROVE  \A y : y # x => Alike(sends, now, y)
  <2>1. \A y : y # x => Entry(now, y) = 0 \/ Alike(sends, now, y)
    BY <1>3, TakenOver
  <2>2. \A y : y # x => Entry(sends, y) = 0 \/ Alike(now, sends, y)
    BY <1>3, TakenOver
  <2>. QED  BY <2>1, <2>2 DEF Alike, Credit, IsEcho, Left
<1>4. CASE k = 0
  <2>1. now = sends
    BY <1>2, <1>4
  <2>2. ~IsEcho(sends, x) /\ Credit(sends, x) = 0
    BY <1>4 DEF IsEcho, Credit
  <2>. QED  BY <2>1, <2>2 DEF Goal, Alike
<1>5. CASE k # 0 /\ (Expired(sends[k]) \/ sends[k].count = 1)
  <2>1. now = RemoveAt(sends, k)
    BY <1>2, <1>5
  <2>2. k \in 1..Len(sends) /\ sends[k].data = x
    BY <1>1, <1>5
  <2>3. /\ Remembered(now)
        /\ \A j \in 1..Len(now) : now[j].data # x
        /\ \A j \in 1..Len(now) : \E i \in 1..Len(sends) : sends[i] = now[j]
        /\ \A i \in 1..Len(sends) : i # k => \E j \in 1..Len(now) : now[j] = sends[i]
    <3>1. /\ Remembered(RemoveAt(sends, k))
          /\ \A j \in 1..Len(RemoveAt(sends, k)) : RemoveAt(sends, k)[j].data # sends[k].data
          /\ \A j \in 1..Len(RemoveAt(sends, k)) :
                \E i \in 1..Len(sends) : sends[i] = RemoveAt(sends, k)[j]
          /\ \A i \in 1..Len(sends) : i # k =>
                \E j \in 1..Len(RemoveAt(sends, k)) : RemoveAt(sends, k)[j] = sends[i]
      <4> HIDE DEF k
      <4>. QED  BY <2>2, RemoveAtFacts
    <3> HIDE DEF k
    <3>. QED  BY <2>1, <2>2, <3>1
  <2>4. \A y : y # x => Alike(sends, now, y)
    <3>1. HasFrom(now, sends, x) /\ HasFrom(sends, now, x)
      BY <2>2, <2>3 DEF HasFrom
    <3>. QED  BY <1>3, <2>3, <3>1
  <2>5. Entry(now, x) = 0 /\ Credit(now, x) = 0
    BY <2>3, NoEntry DEF Credit, IsEcho
  <2>6. IsEcho(sends, x) => Credit(sends, x) = 1
    BY <1>5 DEF IsEcho, Credit
  <2>. QED  BY <2>3, <2>4, <2>5, <2>6 DEF Goal
<1>6. CASE k # 0 /\ ~(Expired(sends[k]) \/ sends[k].count = 1)
  <2> DEFINE e == [sends[k] EXCEPT !.count = @ - 1]
  <2>1. /\ k \in 1..Len(sends) /\ sends[k].data = x /\ sends[k] \in Entries
        /\ sends \in Seq(Entries)
    BY <1>1, <1>6, LenProperties DEF Remembered
  <2>2. e \in Entries /\ e.data = x /\ e.left = sends[k].left /\ e.count = sends[k].count - 1
    BY <1>6, <2>1 DEF Entries
  <2>3. now = [sends EXCEPT ![k] = e]
    BY <1>2, <1>6
  <2> HIDE DEF e
  <2>4. /\ now \in Seq(Entries) /\ Len(now) = Len(sends)
        /\ \A j \in 1..Len(sends) : now[j] = IF j = k THEN e ELSE sends[j]
    BY <2>1, <2>2, <2>3, ExceptSeq
  <2>5. Remembered(now)
    BY <2>1, <2>2, <2>4 DEF Remembered
  <2>6. \A y : y # x => Alike(sends, now, y)
    <3>1. \A j \in 1..Len(now) : now[j].data # x => now[j] = sends[j]
      BY <2>1, <2>2, <2>4
    <3>2. \A j \in 1..Len(sends) : sends[j].data # x => now[j] = sends[j]
      BY <2>1, <2>2, <2>4
    <3>3. HasFrom(now, sends, x) /\ HasFrom(sends, now, x)
      BY <2>4, <3>1, <3>2 DEF HasFrom
    <3>. QED  BY <1>3, <2>5, <3>3
  <2>7. Entry(now, x) = k /\ now[k] = e
    BY <2>1, <2>2, <2>4, <2>5, EntryIs
  <2>8. IsEcho(sends, x) /\ Credit(sends, x) = sends[k].count
    BY <1>6 DEF IsEcho, Credit
  <2>9. Credit(now, x) = sends[k].count - 1
    BY <1>6, <2>2, <2>7 DEF IsEcho, Credit, Expired
  <2>10. Left(now, x) = Left(sends, x)
    BY <1>6, <2>2, <2>7 DEF Left
  <2>. QED  BY <1>6, <2>5, <2>6, <2>8, <2>9, <2>10 DEF Goal
<1>. QED  BY <1>4, <1>5, <1>6

\* As time passes, what has time left keeps its credits.
LEMMA AgedFacts ==
    ASSUME NEW sends, Remembered(sends)
    PROVE  /\ Remembered(Aged(sends))
           /\ \A x : /\ Entry(Aged(sends), x) = Entry(sends, x)
                     /\ Entry(sends, x) # 0 => Left(Aged(sends), x) = Older(Left(sends, x))
                     /\ Credit(Aged(sends), x) =
                            IF Left(sends, x) > 0 THEN Credit(sends, x) ELSE 0
<1> DEFINE now == Aged(sends)
<1>1. Len(sends) \in Nat /\ DOMAIN sends = 1..Len(sends) /\ sends \in [1..Len(sends) -> Entries]
  BY LenProperties DEF Remembered
<1>2. \A k \in 1..Len(sends) :
         /\ now[k] \in Entries /\ now[k].data = sends[k].data
         /\ now[k].count = sends[k].count /\ now[k].left = Older(sends[k].left)
  <2> SUFFICES ASSUME NEW k \in 1..Len(sends)
               PROVE /\ now[k] \in Entries /\ now[k].data = sends[k].data
                     /\ now[k].count = sends[k].count /\ now[k].left = Older(sends[k].left)
    OBVIOUS
  <2>1. now[k] = [sends[k] EXCEPT !.left = Older(@)]
    BY <1>1 DEF Aged
  <2>2. sends[k] \in Entries /\ Older(sends[k].left) \in Int
    BY <1>1 DEF Entries, Older
  <2>. QED  BY <2>1, <2>2 DEF Entries
<1>3. now \in [1..Len(sends) -> Entries]
  BY <1>1, <1>2 DEF Aged
<1>4. now \in Seq(Entries) /\ Len(now) = Len(sends)
  BY <1>1, <1>3, LenProperties
<1> HIDE DEF now
<1>5. Remembered(now)
  BY <1>2, <1>4 DEF Remembered
<1>6. ASSUME NEW x
      PROVE  /\ Entry(now, x) = Entry(sends, x)
             /\ Entry(sends, x) # 0 => Left(now, x) = Older(Left(sends, x))
             /\ Credit(now, x) = IF Left(sends, x) > 0 THEN Credit(sends, x) ELSE 0
  <2>1. CASE \E k \in 1..Len(sends) : sends[k].data = x
    <3>1. PICK k \in 1..Len(sends) : sends[k].data = x
      BY <2>1
    <3>2. Entry(sends, x) = k /\ Entry(now, x) = k
      BY <1>2, <1>4, <1>5, <3>1, EntryIs
    <3>3. Left(sends, x) = sends[k].left /\ Left(now, x) = Older(sends[k].left) /\ k # 0
      BY <1>1, <1>2, <3>2 DEF Left
    <3>4. sends[k].left \in Int
      BY <1>1 DEF Entries
    <3>5. Credit(now, x) = IF sends[k].left > 0 THEN sends[k].count ELSE 0
      BY <1>2, <3>2, <3>3, <3>4 DEF Credit, IsEcho, Expired, Older
    <3>6. sends[k].left > 0 => Credit(sends, x) = sends[k].count
      BY <3>2, <3>3, <3>4 DEF Credit, IsEcho, Expired
    <3>. QED  BY <3>2, <3>3, <3>5, <3>6
  <2>2. CASE ~\E k \in 1..Len(sends) : sends[k].data = x
    <3>1. Entry(sends, x) = 0 /\ Entry(now, x) = 0
      BY <1>2, <1>4, <2>2, NoEntry
    <3>. QED  BY <3>1 DEF Credit, IsEcho, Left
  <2>. QED  BY <2>1, <2>2
<1>. QED  BY <1>5, <1>6 DEF now

LEMMA CreditTyped ==
    ASSUME NEW sends, Remembered(sends), NEW x
    PROVE  Credit(sends, x) \in Nat /\ (Entry(sends, x) # 0 => Left(sends, x) \in Int)
<1>1. Entry(sends, x) # 0 => sends[Entry(sends, x)] \in Entries
  BY EntryTyped, LenProperties DEF Remembered
<1>. QED  BY <1>1 DEF Credit, IsEcho, Left, Entries

------------------------------------------------------------------------------
(* The copies on their way *)

Own(p, h, x) == p.to = h /\ p.data = x /\ p.left >= 0

UnderWay(b, h, x) ==
    UNION {{<<p, n>> : n \in 1..b[p]} :
              p \in {p \in DOMAIN b : p.to = h /\ p.data = x /\ p.left >= 0}}

InWindow(b) ==
    /\ DOMAIN b \subseteq Packet
    /\ \A p \in DOMAIN b : b[p] \in Nat \ {0} /\ p.left \in -1..Ttl

LEMMA CopiesAre ==
    ASSUME NEW b, NEW h, NEW x, NEW c
    PROVE  c \in UnderWay(b, h, x) <=>
               \E p \in DOMAIN b : Own(p, h, x) /\ \E n \in 1..b[p] : c = <<p, n>>
BY DEF UnderWay, Own

LEMMA HasCopies ==
    ASSUME NEW b, InWindow(b), NEW h, NEW x, NEW p \in DOMAIN b, Own(p, h, x)
    PROVE  <<p, 1>> \in UnderWay(b, h, x)
<1>1. 1 \in 1..b[p]
  BY DEF InWindow
<1>. QED  BY <1>1, CopiesAre

\* What has the same packets of a host and a datagram has the same copies.
LEMMA SameCopies ==
    ASSUME NEW b, NEW c, NEW h, NEW x,
           \A p : Own(p, h, x) => /\ p \in DOMAIN b <=> p \in DOMAIN c
                                  /\ p \in DOMAIN b => b[p] = c[p]
    PROVE  UnderWay(b, h, x) = UnderWay(c, h, x)
<1>1. ASSUME NEW a PROVE a \in UnderWay(b, h, x) <=> a \in UnderWay(c, h, x)
  BY CopiesAre
<1>. QED  BY <1>1

\* A datagram sent: at most one copy more, the sender's own.
LEMMA EmitCopies ==
    ASSUME NEW b, InWindow(b), NEW host \in Hosts, NEW data \in Data, NEW to \in SUBSET Hosts
    PROVE  LET c == b (+) SetToBag({Copy(h, host, data) : h \in to}) IN
           /\ InWindow(c)
           /\ \A h, x : h # host \/ x # data => UnderWay(c, h, x) = UnderWay(b, h, x)
           /\ \E a : /\ a \notin UnderWay(b, host, data)
                     /\ UnderWay(c, host, data) \subseteq UnderWay(b, host, data) \cup {a}
<1> DEFINE S == {Copy(h, host, data) : h \in to}
           c == b (+) SetToBag(S)
           own == Copy(host, host, data)
<1>1. /\ DOMAIN c = DOMAIN b \cup S
      /\ \A p \in DOMAIN c : c[p] = (IF p \in DOMAIN b THEN b[p] ELSE 0) + (IF p \in S THEN 1 ELSE 0)
  BY DEF (+), SetToBag
<1>2. \A p \in S : p \in Packet /\ p.left \in -1..Ttl /\ (p.left >= 0 => p = own)
  BY EchoAssumption DEF Copy, Packet
<1>3. own \in Packet /\ Own(own, host, data) /\ \A h, x : Own(own, h, x) => h = host /\ x = data
  BY EchoAssumption DEF Copy, Packet, Own
<1>4. S \subseteq Packet
  BY <1>2
<1> HIDE DEF S, c, own
<1>5. InWindow(c)
  BY <1>1, <1>2, <1>4 DEF InWindow
<1>6. ASSUME NEW p, p # own, NEW h, NEW x, Own(p, h, x)
      PROVE  /\ p \in DOMAIN c <=> p \in DOMAIN b
             /\ p \in DOMAIN c => c[p] = b[p]
  <2>1. p \notin S
    BY <1>2, <1>6 DEF Own
  <2>. QED  BY <1>1, <2>1 DEF InWindow
<1>7. ASSUME NEW h, NEW x, h # host \/ x # data
      PROVE  UnderWay(c, h, x) = UnderWay(b, h, x)
  <2>1. \A p : Own(p, h, x) => p # own
    BY <1>3, <1>7
  <2>. QED  BY <1>6, <2>1, SameCopies
<1>8. \E a : /\ a \notin UnderWay(b, host, data)
             /\ UnderWay(c, host, data) \subseteq UnderWay(b, host, data) \cup {a}
  <2> DEFINE n == IF own \in DOMAIN b THEN b[own] ELSE 0
             a == <<own, n + 1>>
  <2>1. n \in Nat /\ (own \in DOMAIN b => n = b[own])
    BY DEF InWindow
  <2> HIDE DEF n
  <2>2. a \notin UnderWay(b, host, data)
    <3> SUFFICES ASSUME NEW p \in DOMAIN b, NEW k \in 1..b[p], a = <<p, k>> PROVE FALSE
      BY CopiesAre
    <3>1. p = own /\ k = n + 1 /\ b[own] \in Nat
      BY DEF InWindow
    <3>. QED  BY <2>1, <3>1
  <2>3. ASSUME NEW d \in UnderWay(c, host, data), d # a PROVE d \in UnderWay(b, host, data)
    <3>1. PICK p \in DOMAIN c : Own(p, host, data) /\ \E k \in 1..c[p] : d = <<p, k>>
      BY <2>3, CopiesAre
    <3>2. PICK k \in 1..c[p] : d = <<p, k>>
      BY <3>1
    <3>3. CASE p = own
      <4>1. c[own] = n + 1 \/ c[own] = n
        BY <1>1, <2>1, <3>3 DEF n
      <4>2. k # n + 1
        BY <2>3, <3>2, <3>3
      <4>3. k \in 1..n
        BY <2>1, <3>2, <3>3, <4>1, <4>2
      <4>4. own \in DOMAIN b
        BY <4>3 DEF n
      <4>. QED  BY <2>1, <3>1, <3>2, <3>3, <4>3, <4>4, CopiesAre
    <3>4. CASE p # own
      BY <1>6, <3>1, <3>2, <3>4, CopiesAre
    <3>. QED  BY <3>3, <3>4
  <2> HIDE DEF a
  <2>. QED  BY <2>2, <2>3
<1>. QED  BY <1>5, <1>7, <1>8 DEF c, S

\* A packet that arrives is one copy less.
LEMMA ArriveCopies ==
    ASSUME NEW b, InWindow(b), NEW q \in DOMAIN b
    PROVE  LET c == b (-) SetToBag({q}) IN
           /\ InWindow(c)
           /\ \A h, x : UnderWay(c, h, x) = IF Own(q, h, x) THEN UnderWay(b, h, x) \ {<<q, b[q]>>}
                                            ELSE UnderWay(b, h, x)
           /\ \A h, x : Own(q, h, x) => <<q, b[q]>> \in UnderWay(b, h, x)
<1> DEFINE c == b (-) SetToBag({q})
<1>1. /\ DOMAIN c = {p \in DOMAIN b : IF p = q THEN b[p] - 1 > 0 ELSE b[p] > 0}
      /\ \A p \in DOMAIN c : c[p] = IF p = q THEN b[p] - 1 ELSE b[p]
  BY DEF (-), SetToBag
<1>2. \A p \in DOMAIN b : b[p] \in Nat \ {0} /\ p \in Packet /\ p.left \in -1..Ttl
  BY DEF InWindow
<1> HIDE DEF c
<1>3. InWindow(c)
  BY <1>1, <1>2 DEF InWindow
<1>4. \A p : p # q => /\ p \in DOMAIN c <=> p \in DOMAIN b
                      /\ p \in DOMAIN c => c[p] = b[p]
  BY <1>1, <1>2
<1>5. ASSUME NEW h, NEW x, Own(q, h, x)
      PROVE  UnderWay(c, h, x) = UnderWay(b, h, x) \ {<<q, b[q]>>}
  <2>1. ASSUME NEW p, NEW n PROVE p \in DOMAIN c /\ n \in 1..c[p] <=>
                    p \in DOMAIN b /\ n \in 1..b[p] /\ ~(p = q /\ n = b[q])
    <3>1. CASE p = q
      BY <1>1, <1>2, <3>1
    <3>2. CASE p # q
      BY <1>4, <3>2
    <3>. QED  BY <3>1, <3>2
  <2>2. ASSUME NEW a PROVE a \in UnderWay(c, h, x) <=> a \in UnderWay(b, h, x) /\ a # <<q, b[q]>>
    <3>1. ASSUME a \in UnderWay(c, h, x) PROVE a \in UnderWay(b, h, x) /\ a # <<q, b[q]>>
      <4>1. PICK p \in DOMAIN c : Own(p, h, x) /\ \E n \in 1..c[p] : a = <<p, n>>
        BY <3>1, CopiesAre
      <4>2. PICK n \in 1..c[p] : a = <<p, n>>
        BY <4>1
      <4>3. p \in DOMAIN b /\ n \in 1..b[p] /\ ~(p = q /\ n = b[q])
        BY <2>1
      <4>. QED  BY <4>1, <4>2, <4>3, CopiesAre
    <3>2. ASSUME a \in UnderWay(b, h, x), a # <<q, b[q]>> PROVE a \in UnderWay(c, h, x)
      <4>1. PICK p \in DOMAIN b : Own(p, h, x) /\ \E n \in 1..b[p] : a = <<p, n>>
        BY <3>2, CopiesAre
      <4>2. PICK n \in 1..b[p] : a = <<p, n>>
        BY <4>1
      <4>3. p \in DOMAIN c /\ n \in 1..c[p]
        BY <2>1, <3>2, <4>2
      <4>. QED  BY <4>1, <4>2, <4>3, CopiesAre
    <3>. QED  BY <3>1, <3>2
  <2>. QED  BY <2>2
<1>6. ASSUME NEW h, NEW x, ~Own(q, h, x) PROVE UnderWay(c, h, x) = UnderWay(b, h, x)
  <2>1. \A p : Own(p, h, x) => p # q
    BY <1>6
  <2>. QED  BY <1>4, <2>1, SameCopies
<1>7. ASSUME NEW h, NEW x, Own(q, h, x) PROVE <<q, b[q]>> \in UnderWay(b, h, x)
  <2>1. b[q] \in 1..b[q]
    BY <1>2
  <2>. QED  BY <1>7, <2>1, CopiesAre
<1>. QED  BY <1>3, <1>5, <1>6, <1>7 DEF c

\* A host that leaves the group has none left.
LEMMA LeaveCopies ==
    ASSUME NEW b, InWindow(b), NEW host
    PROVE  LET c == [p \in {p \in DOMAIN b : p.to # host} |-> b[p]] IN
           /\ InWindow(c)
           /\ \A x : UnderWay(c, host, x) = {}
           /\ \A h, x : h # host => UnderWay(c, h, x) = UnderWay(b, h, x)
<1> DEFINE c == [p \in {p \in DOMAIN b : p.to # host} |-> b[p]]
<1>1. \A p : p \in DOMAIN c <=> p \in DOMAIN b /\ p.to # host
  OBVIOUS
<1>2. \A p \in DOMAIN c : c[p] = b[p]
  OBVIOUS
<1> HIDE DEF c
<1>3. InWindow(c)
  BY <1>1, <1>2 DEF InWindow
<1>4. ASSUME NEW x PROVE UnderWay(c, host, x) = {}
  BY <1>1, CopiesAre DEF Own
<1>5. ASSUME NEW h, NEW x, h # host PROVE UnderWay(c, h, x) = UnderWay(b, h, x)
  <2>1. \A p : Own(p, h, x) => /\ p \in DOMAIN c <=> p \in DOMAIN b
                               /\ p \in DOMAIN c => c[p] = b[p]
    BY <1>1, <1>2, <1>5 DEF Own
  <2>. QED  BY <2>1, SameCopies
<1>. QED  BY <1>3, <1>4, <1>5 DEF c

\* As time passes, the copies still in time were in time before.
Younger(p) == [p EXCEPT !.left = @ + 1]

LEMMA AgedCopies ==
    ASSUME InWindow(net)
    PROVE  /\ InWindow(AgedNet)
           /\ \A h, x : \A p \in DOMAIN AgedNet : Own(p, h, x) =>
                 Younger(p) \in DOMAIN net /\ Own(Younger(p), h, x) /\ AgedNet[p] = net[Younger(p)]
<1> DEFINE aged == {[p EXCEPT !.left = Older(@)] : p \in DOMAIN net}
           copies(p) == IF p \in DOMAIN net THEN net[p] ELSE 0
<1>1. /\ DOMAIN AgedNet = aged
      /\ \A p \in aged : AgedNet[p] = copies(Younger(p)) + IF p.left = -1 THEN copies(p) ELSE 0
  BY DEF AgedNet, Younger
<1>2. \A p : copies(p) \in Nat
  BY DEF InWindow
<1>3. \A p \in DOMAIN net : p \in Packet /\ net[p] \in Nat \ {0} /\ copies(p) = net[p] /\ p.left \in -1..Ttl
  BY DEF InWindow
<1>4. ASSUME NEW p \in aged
      PROVE  /\ p \in Packet /\ p.left \in -1..Ttl
             /\ p.left >= 0 => Younger(p) \in DOMAIN net
             /\ Younger(p) \in DOMAIN net \/ (p.left = -1 /\ p \in DOMAIN net)
  <2>1. PICK q \in DOMAIN net : p = [q EXCEPT !.left = Older(@)]
    OBVIOUS
  <2>2. q \in Packet /\ q.left \in -1..Ttl /\ q.left \in Int
    BY <1>3 DEF Packet
  <2>3. q = [to |-> q.to, data |-> q.data, left |-> q.left]
    BY <2>2 DEF Packet
  <2>4. p = [to |-> q.to, data |-> q.data, left |-> Older(q.left)]
    BY <2>1, <2>3
  <2>5. CASE q.left = -1
    <3>1. p = q
      BY <2>3, <2>4, <2>5 DEF Older
    <3>. QED  BY <2>2, <2>5, <3>1
  <2>6. CASE q.left # -1
    <3>1. q.left \in 0..Ttl /\ p = [to |-> q.to, data |-> q.data, left |-> q.left - 1]
      BY <2>2, <2>4, <2>6, EchoAssumption DEF Older
    <3>2. p \in Packet /\ p.left = q.left - 1
      BY <2>2, <3>1 DEF Packet
    <3>3. Younger(p) = [to |-> q.to, data |-> q.data, left |-> (q.left - 1) + 1]
      BY <3>1 DEF Younger
    <3>4. Younger(p) = q
      BY <2>2, <2>3, <3>3
    <3>5. p.left \in -1..Ttl
      BY <3>1, <3>2, EchoAssumption
    <3>. QED  BY <3>2, <3>4, <3>5
  <2>. QED  BY <2>5, <2>6
<1> HIDE DEF aged, copies
<1>5. ASSUME NEW p \in DOMAIN AgedNet
      PROVE  AgedNet[p] \in Nat \ {0} /\ p \in Packet /\ p.left \in -1..Ttl
  <2>1. p \in aged /\ copies(Younger(p)) \in Nat /\ copies(p) \in Nat
    BY <1>1, <1>2
  <2>2. AgedNet[p] = copies(Younger(p)) + IF p.left = -1 THEN copies(p) ELSE 0
    BY <1>1, <2>1
  <2>3. CASE Younger(p) \in DOMAIN net
    BY <1>3, <1>4, <2>1, <2>2, <2>3
  <2>4. CASE p.left = -1 /\ p \in DOMAIN net
    BY <1>3, <1>4, <2>1, <2>2, <2>4
  <2>. QED  BY <1>4, <2>1, <2>3, <2>4
<1>6. InWindow(AgedNet)
  BY <1>5 DEF InWindow
<1>7. ASSUME NEW h, NEW x, NEW p \in DOMAIN AgedNet, Own(p, h, x)
      PROVE  Younger(p) \in DOMAIN net /\ Own(Younger(p), h, x) /\ AgedNet[p] = net[Younger(p)]
  <2>1. p \in aged /\ p.left >= 0 /\ p.left \in Int /\ p \in Packet
    BY <1>1, <1>4, <1>7 DEF Own, Packet
  <2>2. Younger(p) \in DOMAIN net
    BY <1>4, <2>1
  <2>3. Younger(p).to = p.to /\ Younger(p).data = p.data /\ Younger(p).left = p.left + 1
    BY <2>1 DEF Younger, Packet
  <2>4. AgedNet[p] = net[Younger(p)]
    <3>1. AgedNet[p] = copies(Younger(p)) + 0
      BY <1>1, <2>1
    <3>. QED  BY <1>3, <2>2, <3>1
  <2>. QED  BY <1>7, <2>1, <2>2, <2>3, <2>4 DEF Own
<1>. QED  BY <1>6, <1>7

\* So there are no more of them.
LEMMA AgedCount ==
    ASSUME InWindow(net), NEW h, NEW x, IsFiniteSet(UnderWay(net, h, x))
    PROVE  /\ IsFiniteSet(UnderWay(AgedNet, h, x))
           /\ Cardinality(UnderWay(AgedNet, h, x)) <= Cardinality(UnderWay(net, h, x))
<1> DEFINE C == UnderWay(AgedNet, h, x)
           B == UnderWay(net, h, x)
           f == [c \in C |-> <<Younger(c[1]), c[2]>>]
<1>1. ASSUME NEW c \in C
      PROVE  /\ c = <<c[1], c[2]>> /\ c[1] \in DOMAIN AgedNet /\ Own(c[1], h, x)
             /\ c[2] \in 1..AgedNet[c[1]]
  BY CopiesAre
<1>2. ASSUME NEW c \in C PROVE f[c] \in B
  <2>1. /\ Younger(c[1]) \in DOMAIN net /\ Own(Younger(c[1]), h, x)
        /\ c[2] \in 1..net[Younger(c[1])]
    BY <1>1, AgedCopies
  <2>. QED  BY <2>1, CopiesAre
<1>3. ASSUME NEW c \in C, NEW d \in C, f[c] = f[d] PROVE c = d
  <2>1. Younger(c[1]) = Younger(d[1]) /\ c[2] = d[2]
    BY <1>3
  <2>2. c[1] \in Packet /\ d[1] \in Packet
    BY <1>1, AgedCopies DEF InWindow
  <2>3. c[1] = d[1]
    <3>1. ASSUME NEW p \in Packet
          PROVE  /\ p = [to |-> p.to, data |-> p.data, left |-> p.left] /\ p.left \in Int
                 /\ Younger(p).to = p.to /\ Younger(p).data = p.data /\ Younger(p).left = p.left + 1
      BY DEF Packet, Younger
    <3>2. c[1].to = d[1].to /\ c[1].data = d[1].data /\ c[1].left + 1 = d[1].left + 1
      BY <2>1, <2>2, <3>1
    <3>3. c[1].left = d[1].left
      BY <2>2, <3>1, <3>2
    <3>. QED  BY <2>2, <3>1, <3>2, <3>3
  <2>. QED  BY <1>1, <2>1, <2>3
<1>4. f \in Injection(C, B)
  <2>1. f \in [C -> B]
    BY <1>2
  <2> HIDE DEF f, C, B
  <2>. QED  BY <1>3, <2>1 DEF Injection, IsInjective
<1>. QED  BY <1>4, FS_Injection

------------------------------------------------------------------------------
(* The credits of a host's own copies *)

\* The copies are no more than the credits waiting and missed, and an entry outlives
\* the copies it is for.
Covered(h, x) ==
    /\ IsFiniteSet(OwnCopies(h, x))
    /\ Cardinality(OwnCopies(h, x)) <= Credit(Echoes[h], x) + missing[h][x]
    /\ Entry(Echoes[h], x) # 0 =>
          \A p \in DOMAIN net : Own(p, h, x) => p.left <= Left(Echoes[h], x)

EchoTyped ==
    /\ InWindow(net) /\ listening \subseteq Hosts
    /\ \A h \in Hosts : Remembered(Echoes[h])
    /\ missing \in [Hosts -> [Data -> Nat]]

EchoInv == EchoTyped /\ \A h \in Hosts : \A x \in Data : Covered(h, x)

LEMMA OwnAre ==
    /\ \A h, x : OwnCopies(h, x) = UnderWay(net, h, x)
    /\ \A h, x : OwnCopies(h, x)' = UnderWay(net', h, x)
BY DEF OwnCopies, UnderWay

\* How the credits missed are counted.
Counted(h, x, lost) ==
    missing'[h][x] = IF OwnCopies(h, x)' = {} THEN 0 ELSE missing[h][x] + lost

\* Nothing new of the host, and the credits that went are counted.
LEMMA CoverKept ==
    ASSUME EchoTyped, InWindow(net'), NEW h \in Hosts, NEW x \in Data, Covered(h, x),
           Remembered(Echoes'[h]),
           OwnCopies(h, x)' \subseteq OwnCopies(h, x),
           NEW lost \in Nat, Counted(h, x, lost),
           Credit(Echoes'[h], x) + lost >= Credit(Echoes[h], x),
           Entry(Echoes'[h], x) # 0 =>
              Entry(Echoes[h], x) # 0 /\ Left(Echoes'[h], x) = Left(Echoes[h], x)
    PROVE  Covered(h, x)'
<1>1. /\ IsFiniteSet(OwnCopies(h, x)')
      /\ Cardinality(OwnCopies(h, x)') <= Cardinality(OwnCopies(h, x))
      /\ Cardinality(OwnCopies(h, x)') \in Nat /\ Cardinality(OwnCopies(h, x)) \in Nat
  BY FS_Subset, FS_CardinalityType DEF Covered
<1>2. /\ Credit(Echoes[h], x) \in Nat /\ Credit(Echoes'[h], x) \in Nat
      /\ missing[h][x] \in Nat
  BY CreditTyped DEF EchoTyped
<1>3. Cardinality(OwnCopies(h, x)') <= Credit(Echoes'[h], x) + missing'[h][x]
  <2>1. CASE OwnCopies(h, x)' = {}
    BY <1>2, <2>1, FS_EmptySet DEF Counted
  <2>2. CASE OwnCopies(h, x)' # {}
    <3>1. missing'[h][x] = missing[h][x] + lost
      BY <2>2 DEF Counted
    <3>2. Cardinality(OwnCopies(h, x)) <= Credit(Echoes[h], x) + missing[h][x]
      BY DEF Covered
    <3>. QED  BY <1>1, <1>2, <3>1, <3>2
  <2>. QED  BY <2>1, <2>2
<1>4. ASSUME Entry(Echoes'[h], x) # 0, NEW p \in DOMAIN (net'), Own(p, h, x)
      PROVE  p.left <= Left(Echoes'[h], x)
  <2>1. <<p, 1>> \in UnderWay(net, h, x)
    BY <1>4, HasCopies, OwnAre
  <2>2. p \in DOMAIN net
    BY <2>1, CopiesAre
  <2>. QED  BY <1>4, <2>2 DEF Covered
<1>. QED  BY <1>1, <1>3, <1>4 DEF Covered

\* A host's own datagram sent: one credit more for one copy more, or none.
LEMMA CoverSent ==
    ASSUME EchoTyped, InWindow(net'), NEW h \in Hosts, NEW x \in Data, Covered(h, x),
           NEW a, OwnCopies(h, x)' \subseteq OwnCopies(h, x) \cup {a},
           Counted(h, x, 0),
           Credit(Echoes'[h], x) = Credit(Echoes[h], x) + 1,
           Left(Echoes'[h], x) = Ttl
    PROVE  Covered(h, x)'
<1> DEFINE more == OwnCopies(h, x) \cup {a}
<1>1. /\ IsFiniteSet(more) /\ Cardinality(more) \in Nat /\ Cardinality(OwnCopies(h, x)) \in Nat
      /\ Cardinality(more) <= Cardinality(OwnCopies(h, x)) + 1
  <2>1. IsFiniteSet(OwnCopies(h, x)) /\ Cardinality(OwnCopies(h, x)) \in Nat
    BY FS_CardinalityType DEF Covered
  <2>2. IsFiniteSet(more)
    BY <2>1, FS_AddElement
  <2>3. \/ Cardinality(more) = Cardinality(OwnCopies(h, x))
        \/ Cardinality(more) = Cardinality(OwnCopies(h, x)) + 1
    BY <2>1, FS_AddElement
  <2> HIDE DEF more
  <2>. QED  BY <2>1, <2>2, <2>3
<1> HIDE DEF more
<1>2. /\ IsFiniteSet(OwnCopies(h, x)') /\ Cardinality(OwnCopies(h, x)') \in Nat
      /\ Cardinality(OwnCopies(h, x)') <= Cardinality(more)
  <2>1. OwnCopies(h, x)' \subseteq more
    BY DEF more
  <2>. QED  BY <1>1, <2>1, FS_Subset, FS_CardinalityType
<1>3. Credit(Echoes[h], x) \in Nat /\ missing[h][x] \in Nat
  BY CreditTyped DEF EchoTyped
<1>4. Cardinality(OwnCopies(h, x)') <= Credit(Echoes'[h], x) + missing'[h][x]
  <2>1. CASE OwnCopies(h, x)' = {}
    BY <1>3, <2>1, FS_EmptySet DEF Counted
  <2>2. CASE OwnCopies(h, x)' # {}
    <3>1. missing'[h][x] = missing[h][x]
      BY <1>3, <2>2 DEF Counted
    <3>2. Cardinality(OwnCopies(h, x)) <= Credit(Echoes[h], x) + missing[h][x]
      BY DEF Covered
    <3>. QED  BY <1>1, <1>2, <1>3, <3>1, <3>2
  <2>. QED  BY <2>1, <2>2
<1>5. \A p \in DOMAIN (net') : p.left <= Left(Echoes'[h], x)
  BY EchoAssumption DEF InWindow
<1>. QED  BY <1>2, <1>4, <1>5 DEF Covered

\* A host's own copy arrives: one less, for the credit it takes.
LEMMA CoverArrived ==
    ASSUME EchoTyped, InWindow(net'), NEW h \in Hosts, NEW x \in Data, Covered(h, x),
           NEW a \in OwnCopies(h, x), OwnCopies(h, x)' = OwnCopies(h, x) \ {a},
           Counted(h, x, 0),
           Remembered(Echoes'[h]),
           Credit(Echoes'[h], x) + 1 >= Credit(Echoes[h], x),
           Entry(Echoes'[h], x) # 0 =>
              Entry(Echoes[h], x) # 0 /\ Left(Echoes'[h], x) = Left(Echoes[h], x)
    PROVE  Covered(h, x)'
<1>1. /\ IsFiniteSet(OwnCopies(h, x)') /\ Cardinality(OwnCopies(h, x)) \in Nat
      /\ Cardinality(OwnCopies(h, x)') = Cardinality(OwnCopies(h, x)) - 1
  BY FS_RemoveElement, FS_CardinalityType DEF Covered
<1>2. /\ Credit(Echoes[h], x) \in Nat /\ Credit(Echoes'[h], x) \in Nat
      /\ missing[h][x] \in Nat
  BY CreditTyped DEF EchoTyped
<1>3. Cardinality(OwnCopies(h, x)') <= Credit(Echoes'[h], x) + missing'[h][x]
  <2>1. CASE OwnCopies(h, x)' = {}
    BY <1>2, <2>1, FS_EmptySet DEF Counted
  <2>2. CASE OwnCopies(h, x)' # {}
    <3>1. missing'[h][x] = missing[h][x]
      BY <1>2, <2>2 DEF Counted
    <3>2. Cardinality(OwnCopies(h, x)) <= Credit(Echoes[h], x) + missing[h][x]
      BY DEF Covered
    <3>. QED  BY <1>1, <1>2, <3>1, <3>2
  <2>. QED  BY <2>1, <2>2
<1>4. ASSUME Entry(Echoes'[h], x) # 0, NEW p \in DOMAIN (net'), Own(p, h, x)
      PROVE  p.left <= Left(Echoes'[h], x)
  <2>1. <<p, 1>> \in UnderWay(net, h, x)
    BY <1>4, HasCopies, OwnAre
  <2>2. p \in DOMAIN net
    BY <2>1, CopiesAre
  <2>. QED  BY <1>4, <2>2 DEF Covered
<1>. QED  BY <1>1, <1>3, <1>4 DEF Covered

\* Time passes: an entry that expires leaves no copy in time.
LEMMA CoverTick ==
    ASSUME EchoTyped, NEW h \in Hosts, NEW x \in Data, Covered(h, x),
           net' = AgedNet, Echoes'[h] = Aged(Echoes[h]), Counted(h, x, 0)
    PROVE  Covered(h, x)'
<1>1. /\ IsFiniteSet(OwnCopies(h, x)')
      /\ Cardinality(OwnCopies(h, x)') <= Cardinality(OwnCopies(h, x))
      /\ Cardinality(OwnCopies(h, x)') \in Nat /\ Cardinality(OwnCopies(h, x)) \in Nat
  BY AgedCount, OwnAre, FS_CardinalityType DEF Covered, EchoTyped
<1>2. /\ Entry(Echoes'[h], x) = Entry(Echoes[h], x)
      /\ Entry(Echoes[h], x) # 0 => Left(Echoes'[h], x) = Older(Left(Echoes[h], x))
      /\ Credit(Echoes'[h], x) =
            IF Left(Echoes[h], x) > 0 THEN Credit(Echoes[h], x) ELSE 0
  BY AgedFacts DEF EchoTyped
<1>3. /\ Credit(Echoes[h], x) \in Nat /\ missing[h][x] \in Nat
      /\ Entry(Echoes[h], x) # 0 => Left(Echoes[h], x) \in Int
  BY CreditTyped DEF EchoTyped
<1>4. ASSUME Entry(Echoes[h], x) # 0, NEW p \in DOMAIN (net'), Own(p, h, x)
      PROVE  p.left + 1 <= Left(Echoes[h], x) /\ p.left \in Nat
  <2>1. Younger(p) \in DOMAIN net /\ Own(Younger(p), h, x) /\ p \in Packet
    BY <1>4, AgedCopies DEF EchoTyped, InWindow
  <2>2. Younger(p).left = p.left + 1 /\ p.left \in Int
    BY <2>1 DEF Younger, Packet
  <2>. QED  BY <1>4, <2>1, <2>2 DEF Covered, Own
<1>5. Entry(Echoes'[h], x) # 0 =>
         \A p \in DOMAIN (net') : Own(p, h, x) => p.left <= Left(Echoes'[h], x)
  BY <1>2, <1>3, <1>4 DEF Older
<1>6. Cardinality(OwnCopies(h, x)) <= Credit(Echoes[h], x) + missing[h][x]
  BY DEF Covered
<1>7. Cardinality(OwnCopies(h, x)') <= Credit(Echoes'[h], x) + missing'[h][x]
  <2>1. CASE OwnCopies(h, x)' = {}
    BY <1>2, <1>3, <2>1, FS_EmptySet DEF Counted
  <2>2. CASE OwnCopies(h, x)' # {}
    <3>1. missing'[h][x] = missing[h][x]
      BY <1>3, <2>2 DEF Counted
    <3>2. Credit(Echoes'[h], x) = Credit(Echoes[h], x)
      <4>1. CASE Entry(Echoes[h], x) = 0
        BY <1>2, <4>1 DEF Credit, IsEcho
      <4>2. CASE Entry(Echoes[h], x) # 0
        <5>1. PICK c : c \in UnderWay(net', h, x)
          BY <2>2, OwnAre
        <5>2. PICK p \in DOMAIN (net') : Own(p, h, x)
          BY <5>1, CopiesAre
        <5>3. Left(Echoes[h], x) > 0
          BY <1>3, <1>4, <4>2, <5>2
        <5>. QED  BY <1>2, <5>3
      <4>. QED  BY <4>1, <4>2
    <3>. QED  BY <1>1, <1>3, <1>6, <3>1, <3>2
  <2>. QED  BY <2>1, <2>2
<1>. QED  BY <1>1, <1>5, <1>7 DEF Covered

\* A host that has left has no copy under way.
LEMMA CoverNone ==
    ASSUME EchoTyped, InWindow(net'), NEW h \in Hosts, NEW x \in Data,
           OwnCopies(h, x)' = {}, Counted(h, x, 0), Remembered(Echoes'[h])
    PROVE  Covered(h, x)'
<1>1. IsFiniteSet(OwnCopies(h, x)') /\ Cardinality(OwnCopies(h, x)') = 0
  BY FS_EmptySet
<1>2. Credit(Echoes'[h], x) \in Nat /\ missing'[h][x] = 0
  BY CreditTyped DEF Counted
<1>3. \A p \in DOMAIN (net') : ~Own(p, h, x)
  BY HasCopies, OwnAre
<1>. QED  BY <1>1, <1>2, <1>3 DEF Covered

------------------------------------------------------------------------------
(* The steps *)

LEMMA EchoesAre ==
    /\ Echoes[NodeHost] = echoes /\ Echoes[DenoHost] = denoEchoes
    /\ Echoes'[NodeHost] = echoes' /\ Echoes'[DenoHost] = denoEchoes'
    /\ \A h \in Hosts : h = NodeHost \/ h = DenoHost
    /\ NodeHost \in Hosts /\ DenoHost \in Hosts /\ NodeHost # DenoHost
BY HostAssumption DEF Echoes

\* Only this host's entries are touched.
OthersKeep(host) == \A h \in Hosts : h # host => Echoes'[h] = Echoes[h]

\* What a step adds to the credits missed, per host and datagram.
Charged(lost) ==
    missing' = [h \in Hosts |-> [x \in Data |->
                   IF OwnCopies(h, x)' = {} THEN 0 ELSE missing[h][x] + lost[h][x]]]

Nothing == [h \in Hosts |-> [x \in Data |-> 0]]

Evicted == [h \in Hosts |-> [x \in Data |->
               IF Entry(Echoes'[h], x) = 0 THEN Credit(Echoes[h], x) ELSE 0]]

Heard(q) == [h \in Hosts |-> [x \in Data |->
               IF h = q.to /\ x = q.data /\ q.left < 0 /\ IsEcho(Echoes[h], x) THEN 1 ELSE 0]]

LEMMA MissesAre ==
    /\ Misses(LAMBDA h, x : 0) => Charged(Nothing)
    /\ Misses(LAMBDA h, x : IF Entry(Echoes'[h], x) = 0 THEN Credit(Echoes[h], x) ELSE 0)
         => Charged(Evicted)
BY DEF Misses, Charged, Nothing, Evicted

\* What missing is after a step is typed if what is lost is.
LEMMA MissingTyped ==
    ASSUME EchoTyped, NEW lost, \A h \in Hosts : \A x \in Data : lost[h][x] \in Nat,
           Charged(lost)
    PROVE  /\ missing' \in [Hosts -> [Data -> Nat]]
           /\ \A h \in Hosts : \A x \in Data : Counted(h, x, lost[h][x])
BY DEF EchoTyped, Counted, Charged

LEMMA NothingMissed ==
    ASSUME EchoTyped, Charged(Nothing)
    PROVE  /\ missing' \in [Hosts -> [Data -> Nat]]
           /\ \A h \in Hosts : \A x \in Data : Counted(h, x, 0)
<1>1. \A h \in Hosts : \A x \in Data : Nothing[h][x] = 0
  BY DEF Nothing
<1>2. \A h \in Hosts : \A x \in Data : Nothing[h][x] \in Nat
  BY <1>1
<1>3. /\ missing' \in [Hosts -> [Data -> Nat]]
      /\ \A h \in Hosts : \A x \in Data : Counted(h, x, Nothing[h][x])
  BY <1>2, MissingTyped
<1>. QED  BY <1>1, <1>3

\* What a step does not touch stays covered.
LEMMA CoverSame ==
    ASSUME EchoTyped, InWindow(net'), NEW h \in Hosts, NEW x \in Data, Covered(h, x),
           UnderWay(net', h, x) = UnderWay(net, h, x), Echoes'[h] = Echoes[h],
           Counted(h, x, 0)
    PROVE  Covered(h, x)'
<1>1. OwnCopies(h, x)' \subseteq OwnCopies(h, x)
  BY OwnAre
<1>2. Remembered(Echoes'[h])
  BY DEF EchoTyped
<1>3. Credit(Echoes[h], x) \in Nat
  BY CreditTyped DEF EchoTyped
<1>4. Credit(Echoes'[h], x) + 0 >= Credit(Echoes[h], x)
  BY <1>3
<1>5. 0 \in Nat
  OBVIOUS
<1>. QED  BY <1>1, <1>2, <1>4, <1>5, CoverKept

\* Nothing is sent or heard; a host may join the group.
LEMMA QuietStep ==
    ASSUME EchoInv, UNCHANGED net, listening' \subseteq Hosts,
           \A h \in Hosts : Echoes'[h] = Echoes[h],
           Charged(Nothing)
    PROVE  EchoInv'
<1>1. /\ missing' \in [Hosts -> [Data -> Nat]]
      /\ \A h \in Hosts : \A x \in Data : Counted(h, x, 0)
  BY NothingMissed DEF EchoInv
<1>2. EchoTyped'
  BY <1>1 DEF EchoInv, EchoTyped
<1>3. InWindow(net')
  BY <1>2 DEF EchoTyped
<1>4. ASSUME NEW h \in Hosts, NEW x \in Data PROVE Covered(h, x)'
  <2>1. UnderWay(net', h, x) = UnderWay(net, h, x)
    OBVIOUS
  <2>. QED  BY <1>1, <1>3, <2>1, CoverSame DEF EchoInv
<1>. QED  BY <1>2, <1>4 DEF EchoInv

\* A host closes its socket.
LEMMA CloseStep ==
    ASSUME EchoInv, NEW host \in Hosts, Leave(host), OthersKeep(host),
           Echoes'[host] \in {Echoes[host], <<>>}, Charged(Nothing)
    PROVE  EchoInv'
<1>1. /\ missing' \in [Hosts -> [Data -> Nat]]
      /\ \A h \in Hosts : \A x \in Data : Counted(h, x, 0)
  BY NothingMissed DEF EchoInv
<1>2. net' = [p \in {p \in DOMAIN net : p.to # host} |-> net[p]] /\ InWindow(net)
  BY DEF Leave, EchoInv, EchoTyped
<1>3. /\ InWindow(net') /\ \A x : UnderWay(net', host, x) = {}
      /\ \A h, x : h # host => UnderWay(net', h, x) = UnderWay(net, h, x)
  BY <1>2, LeaveCopies
<1>4. Remembered(<<>>)
  <2>1. Len(<<>>) = 0 /\ 1..Len(<<>>) = {}
    BY EmptySeq
  <2>. QED  BY <2>1, EmptySeq, EchoAssumption DEF Remembered
<1>5. \A h \in Hosts : Remembered(Echoes'[h])
  BY <1>4 DEF EchoInv, EchoTyped, OthersKeep
<1>6. EchoTyped'
  BY <1>1, <1>3, <1>5 DEF EchoInv, EchoTyped, Leave
<1>7. ASSUME NEW h \in Hosts, NEW x \in Data PROVE Covered(h, x)'
  <2>1. CASE h = host
    <3>1. OwnCopies(h, x)' = {}
      BY <1>3, <2>1, OwnAre
    <3>. QED  BY <1>1, <1>3, <1>5, <3>1, CoverNone DEF EchoInv
  <2>2. CASE h # host
    <3>1. Echoes'[h] = Echoes[h] /\ UnderWay(net', h, x) = UnderWay(net, h, x)
      BY <1>3, <2>2 DEF OthersKeep
    <3>. QED  BY <1>1, <1>3, <3>1, CoverSame DEF EchoInv
  <2>. QED  BY <2>1, <2>2
<1>. QED  BY <1>6, <1>7 DEF EchoInv

\* A datagram is sent, or refused by the socket.
LEMMA SendStep ==
    ASSUME EchoInv, NEW host \in Hosts, NEW data \in Data, OthersKeep(host),
           Echoes'[host] = Remember(Echoes[host], data),
           Emit(host, data) \/ UNCHANGED <<net, listening>>,
           Charged(Evicted)
    PROVE  EchoInv'
<1>2. \A h \in Hosts : \A x \in Data : Credit(Echoes[h], x) \in Nat
  BY CreditTyped DEF EchoInv, EchoTyped
<1>3. ASSUME NEW h \in Hosts, NEW x \in Data
      PROVE  /\ Entry(Echoes'[h], x) = 0 => Evicted[h][x] = Credit(Echoes[h], x)
             /\ Entry(Echoes'[h], x) # 0 => Evicted[h][x] = 0
  BY DEF Evicted
<1>4. ASSUME NEW h \in Hosts, NEW x \in Data PROVE Evicted[h][x] \in Nat
  <2>1. CASE Entry(Echoes'[h], x) = 0
    BY <1>2, <1>3, <2>1
  <2>2. CASE Entry(Echoes'[h], x) # 0
    BY <1>3, <2>2
  <2>. QED  BY <2>1, <2>2
<1>5. /\ missing' \in [Hosts -> [Data -> Nat]]
      /\ \A h \in Hosts : \A x \in Data : Counted(h, x, Evicted[h][x])
  BY <1>4, MissingTyped DEF EchoInv
<1>6. /\ Remembered(Echoes'[host])
      /\ Entry(Echoes'[host], data) # 0 /\ Left(Echoes'[host], data) = Ttl
      /\ Credit(Echoes'[host], data) = Credit(Echoes[host], data) + 1
      /\ \A y : y # data => Entry(Echoes'[host], y) = 0 \/ Alike(Echoes[host], Echoes'[host], y)
  BY RememberFacts DEF EchoInv, EchoTyped
<1>7. /\ InWindow(net') /\ listening' \subseteq Hosts
      /\ \A h, x : h # host \/ x # data => UnderWay(net', h, x) = UnderWay(net, h, x)
      /\ \E a : UnderWay(net', host, data) \subseteq UnderWay(net, host, data) \cup {a}
  <2>0. InWindow(net) /\ listening \subseteq Hosts
    BY DEF EchoInv, EchoTyped
  <2>1. CASE Emit(host, data)
    <3>1. PICK to \in SUBSET listening :
              net' = net (+) SetToBag({Copy(h, host, data) : h \in to})
      BY <2>1 DEF Emit
    <3>2. to \in SUBSET Hosts
      BY <2>0
    <3> DEFINE c == net (+) SetToBag({Copy(h, host, data) : h \in to})
    <3>3. /\ InWindow(c)
          /\ \A h, x : h # host \/ x # data => UnderWay(c, h, x) = UnderWay(net, h, x)
          /\ \E a : /\ a \notin UnderWay(net, host, data)
                    /\ UnderWay(c, host, data) \subseteq UnderWay(net, host, data) \cup {a}
      BY <2>0, <3>2, EmitCopies, Zenon
    <3>4. net' = c /\ listening' = listening
      BY <2>1, <3>1 DEF Emit
    <3> HIDE DEF c
    <3>. QED  BY <2>0, <3>3, <3>4
  <2>2. CASE UNCHANGED <<net, listening>>
    BY <2>0, <2>2
  <2>. QED  BY <2>1, <2>2
<1>8. EchoTyped'
  BY <1>5, <1>6, <1>7 DEF EchoInv, EchoTyped, OthersKeep
<1>9. ASSUME NEW h \in Hosts, NEW x \in Data PROVE Covered(h, x)'
  <2>1. CASE h = host /\ x = data
    <3>1. PICK a : OwnCopies(h, x)' \subseteq OwnCopies(h, x) \cup {a}
      BY <1>7, <2>1, OwnAre
    <3>2. Counted(h, x, 0)
      BY <1>3, <1>5, <1>6, <2>1
    <3>. QED  BY <1>6, <1>7, <2>1, <3>1, <3>2, CoverSent DEF EchoInv
  <2>2. CASE ~(h = host /\ x = data)
    <3>1. OwnCopies(h, x)' \subseteq OwnCopies(h, x)
      BY <1>7, <2>2, OwnAre
    <3>2. Entry(Echoes'[h], x) = 0 \/ Alike(Echoes[h], Echoes'[h], x)
      BY <1>6, <2>2 DEF OthersKeep, Alike
    <3>3. /\ Credit(Echoes[h], x) \in Nat /\ Credit(Echoes'[h], x) \in Nat
          /\ Remembered(Echoes'[h]) /\ Evicted[h][x] \in Nat
      BY <1>2, <1>4, <1>8, CreditTyped DEF EchoTyped
    <3>4. Credit(Echoes'[h], x) + Evicted[h][x] >= Credit(Echoes[h], x)
      <4>1. CASE Entry(Echoes'[h], x) = 0
        BY <1>3, <3>3, <4>1
      <4>2. CASE Entry(Echoes'[h], x) # 0
        <5>1. Credit(Echoes'[h], x) = Credit(Echoes[h], x)
          BY <3>2, <4>2 DEF Alike
        <5>. QED  BY <3>3, <5>1
      <4>. QED  BY <4>1, <4>2
    <3>5. Entry(Echoes'[h], x) # 0 =>
             Entry(Echoes[h], x) # 0 /\ Left(Echoes'[h], x) = Left(Echoes[h], x)
      BY <3>2 DEF Alike
    <3>6. EchoTyped /\ Covered(h, x) /\ InWindow(net') /\ Counted(h, x, Evicted[h][x])
      BY <1>5, <1>7 DEF EchoInv
    <3>. QED  BY <3>1, <3>3, <3>4, <3>5, <3>6, CoverKept
  <2>. QED  BY <2>1, <2>2
<1>. QED  BY <1>8, <1>9 DEF EchoInv

\* A copy is heard: the host's own takes the credit that waits for it, and what any
\* other takes is counted.
LEMMA ArriveStep ==
    ASSUME EchoInv, NEW q \in DOMAIN net, Arrives(q), OthersKeep(q.to),
           Echoes'[q.to] = Consume(Echoes[q.to], q.data),
           Charged(Heard(q))
    PROVE  EchoInv'
<1>1. q \in Packet /\ q.to \in Hosts /\ q.data \in Data /\ q.left \in Int /\ InWindow(net)
  BY DEF EchoInv, EchoTyped, InWindow, Packet
<1>2. ASSUME NEW h \in Hosts, NEW x \in Data
      PROVE  /\ Heard(q)[h][x] \in Nat
             /\ Heard(q)[h][x] = IF h = q.to /\ x = q.data /\ q.left < 0 /\ IsEcho(Echoes[h], x)
                                 THEN 1 ELSE 0
  BY DEF Heard
<1>3. /\ missing' \in [Hosts -> [Data -> Nat]]
      /\ \A h \in Hosts : \A x \in Data : Counted(h, x, Heard(q)[h][x])
  BY <1>2, MissingTyped DEF EchoInv
<1>4. /\ InWindow(net')
      /\ \A h, x : UnderWay(net', h, x) =
                      IF Own(q, h, x) THEN UnderWay(net, h, x) \ {<<q, net[q]>>}
                      ELSE UnderWay(net, h, x)
      /\ \A h, x : Own(q, h, x) => <<q, net[q]>> \in UnderWay(net, h, x)
  <2> DEFINE c == net (-) SetToBag({q})
  <2>1. /\ InWindow(c)
        /\ \A h, x : UnderWay(c, h, x) =
                        IF Own(q, h, x) THEN UnderWay(net, h, x) \ {<<q, net[q]>>}
                        ELSE UnderWay(net, h, x)
        /\ \A h, x : Own(q, h, x) => <<q, net[q]>> \in UnderWay(net, h, x)
    BY <1>1, ArriveCopies, Zenon
  <2>2. net' = c
    BY DEF Arrives
  <2> HIDE DEF c
  <2>. QED  BY <2>1, <2>2
<1>5. Remembered(Echoes[q.to])
  BY <1>1 DEF EchoInv, EchoTyped
<1>6. /\ Remembered(Echoes'[q.to])
      /\ Credit(Echoes'[q.to], q.data) =
            IF IsEcho(Echoes[q.to], q.data) THEN Credit(Echoes[q.to], q.data) - 1 ELSE 0
      /\ Entry(Echoes'[q.to], q.data) # 0 =>
            /\ Entry(Echoes[q.to], q.data) # 0
            /\ Left(Echoes'[q.to], q.data) = Left(Echoes[q.to], q.data)
      /\ \A y : y # q.data => Alike(Echoes[q.to], Echoes'[q.to], y)
  BY <1>5, ConsumeFacts
<1>7. EchoTyped'
  BY <1>3, <1>4, <1>6 DEF EchoInv, EchoTyped, OthersKeep, Arrives
<1>8. ASSUME NEW h \in Hosts, NEW x \in Data PROVE Covered(h, x)'
  <2>0. /\ EchoTyped /\ Covered(h, x) /\ InWindow(net') /\ Counted(h, x, Heard(q)[h][x])
        /\ Remembered(Echoes[h]) /\ Remembered(Echoes'[h])
    BY <1>3, <1>4, <1>7 DEF EchoInv, EchoTyped
  <2>1. CASE h = q.to /\ x = q.data
    <3>1. Credit(Echoes[h], x) \in Nat /\ Credit(Echoes'[h], x) \in Nat
      BY <2>0, CreditTyped
    <3>2. ~IsEcho(Echoes[h], x) => Credit(Echoes[h], x) = 0
      BY DEF Credit
    <3>3. Entry(Echoes'[h], x) # 0 =>
             Entry(Echoes[h], x) # 0 /\ Left(Echoes'[h], x) = Left(Echoes[h], x)
      BY <1>6, <2>1
    <3>4. Credit(Echoes'[h], x) + 1 >= Credit(Echoes[h], x)
      BY <1>6, <2>1, <3>1, <3>2
    <3>5. CASE q.left >= 0
      <4>1. Own(q, h, x)
        BY <2>1, <3>5 DEF Own
      <4>2. /\ <<q, net[q]>> \in OwnCopies(h, x)
            /\ OwnCopies(h, x)' = OwnCopies(h, x) \ {<<q, net[q]>>}
        BY <1>4, <4>1, OwnAre
      <4>3. Counted(h, x, 0)
        BY <1>1, <1>2, <2>0, <3>5
      <4>. QED  BY <2>0, <3>3, <3>4, <4>2, <4>3, CoverArrived
    <3>6. CASE q.left < 0
      <4>1. ~Own(q, h, x)
        BY <1>1, <3>6 DEF Own
      <4>2. OwnCopies(h, x)' \subseteq OwnCopies(h, x)
        BY <1>4, <4>1, OwnAre
      <4>3. Credit(Echoes'[h], x) + Heard(q)[h][x] >= Credit(Echoes[h], x)
        <5>1. CASE IsEcho(Echoes[h], x)
          BY <1>2, <2>1, <3>4, <3>6, <5>1
        <5>2. CASE ~IsEcho(Echoes[h], x)
          <6>1. Heard(q)[h][x] = 0
            BY <1>2, <5>2
          <6>. QED  BY <3>1, <3>2, <5>2, <6>1
        <5>. QED  BY <5>1, <5>2
      <4>4. Heard(q)[h][x] \in Nat
        BY <1>2
      <4>. QED  BY <2>0, <3>3, <4>2, <4>3, <4>4, CoverKept
    <3>. QED  BY <1>1, <3>5, <3>6
  <2>2. CASE ~(h = q.to /\ x = q.data)
    <3>1. ~Own(q, h, x)
      BY <2>2 DEF Own
    <3>2. OwnCopies(h, x)' \subseteq OwnCopies(h, x)
      BY <1>4, <3>1, OwnAre
    <3>3. Alike(Echoes[h], Echoes'[h], x)
      BY <1>6, <2>2 DEF OthersKeep, Alike
    <3>4. Heard(q)[h][x] = 0 /\ Counted(h, x, 0)
      BY <1>2, <2>0, <2>2
    <3>5. Credit(Echoes[h], x) \in Nat /\ Credit(Echoes'[h], x) + 0 >= Credit(Echoes[h], x)
      BY <2>0, <3>3, CreditTyped DEF Alike
    <3>6. Entry(Echoes'[h], x) # 0 =>
             Entry(Echoes[h], x) # 0 /\ Left(Echoes'[h], x) = Left(Echoes[h], x)
      BY <3>3 DEF Alike
    <3>7. 0 \in Nat
      OBVIOUS
    <3>. QED  BY <2>0, <3>2, <3>4, <3>5, <3>6, <3>7, CoverKept
  <2>. QED  BY <2>1, <2>2
<1>. QED  BY <1>7, <1>8 DEF EchoInv

\* Time passes, for the copies and for the entries.
LEMMA TickStep ==
    ASSUME EchoInv, net' = AgedNet, UNCHANGED listening,
           \A h \in Hosts : Echoes'[h] = Aged(Echoes[h]),
           Charged(Nothing)
    PROVE  EchoInv'
<1>1. /\ missing' \in [Hosts -> [Data -> Nat]]
      /\ \A h \in Hosts : \A x \in Data : Counted(h, x, 0)
  BY NothingMissed DEF EchoInv
<1>2. InWindow(net')
  BY AgedCopies DEF EchoInv, EchoTyped
<1>3. \A h \in Hosts : Remembered(Echoes'[h])
  BY AgedFacts DEF EchoInv, EchoTyped
<1>4. EchoTyped'
  BY <1>1, <1>2, <1>3 DEF EchoInv, EchoTyped
<1>5. ASSUME NEW h \in Hosts, NEW x \in Data PROVE Covered(h, x)'
  BY <1>1, CoverTick DEF EchoInv
<1>. QED  BY <1>4, <1>5 DEF EchoInv

LEMMA EchoInit == Init => EchoInv
<1> SUFFICES ASSUME Init PROVE EchoInv
  OBVIOUS
<1>1. DOMAIN net = {}
  BY DEF Init, EmptyBag, SetToBag
<1>2. InWindow(net) /\ \A h, x : OwnCopies(h, x) = {}
  BY <1>1 DEF InWindow, OwnCopies
<1>3. Remembered(<<>>) /\ \A x : Entry(<<>>, x) = 0
  <2>1. Len(<<>>) = 0 /\ 1..Len(<<>>) = {} /\ <<>> \in Seq(Entries)
    BY EmptySeq
  <2>2. Remembered(<<>>)
    BY <2>1, EchoAssumption DEF Remembered
  <2>. QED  BY <2>1, <2>2, NoEntry
<1>4. \A h \in Hosts : Echoes[h] = <<>>
  BY EchoesAre DEF Init, NodeInit, DenoInit
<1>5. EchoTyped /\ \A h \in Hosts : \A x \in Data : missing[h][x] = 0
  BY <1>2, <1>3, <1>4, HostAssumption DEF EchoTyped, Init
<1>6. ASSUME NEW h \in Hosts, NEW x \in Data PROVE Covered(h, x)
  <2>1. IsFiniteSet(OwnCopies(h, x)) /\ Cardinality(OwnCopies(h, x)) = 0
    BY <1>2, FS_EmptySet
  <2>2. Entry(Echoes[h], x) = 0 /\ Credit(Echoes[h], x) = 0
    BY <1>3, <1>4 DEF Credit, IsEcho
  <2>. QED  BY <1>5, <2>1, <2>2 DEF Covered
<1>. QED  BY <1>5, <1>6 DEF EchoInv

LEMMA EchoStep == TInv /\ EchoInv /\ [Next]_vars => EchoInv'
<1> SUFFICES ASSUME TInv, EchoInv, [Next]_vars PROVE EchoInv'
  OBVIOUS
<1>0. listening \subseteq Hosts
  BY DEF EchoInv, EchoTyped
<1>1. CASE Sending
  <2>1. Charged(Evicted)
    BY <1>1, MissesAre DEF Sending
  <2>2. CASE NodeSendBound /\ UNCHANGED denoVars
    <3>1. OthersKeep(NodeHost)
      BY <2>2, EchoesAre DEF OthersKeep, denoVars
    <3>2. CASE nodeClosed
      <4>1. UNCHANGED <<echoes, net, listening>>
        BY <2>2, <3>2 DEF NodeSendBound, netVars
      <4>2. \A h \in Hosts : Echoes'[h] = Echoes[h]
        BY <3>1, <4>1, EchoesAre DEF OthersKeep
      <4>3. ASSUME NEW h \in Hosts, NEW x \in Data PROVE Evicted[h][x] = 0
        BY <4>2 DEF Evicted, Credit, IsEcho
      <4>4. Charged(Nothing)
        BY <2>1, <4>3 DEF Charged, Nothing
      <4>. QED  BY <1>0, <4>1, <4>2, <4>4, QuietStep
    <3>3. CASE ~nodeClosed
      <4>1. Head(outgoing) \in Data
        BY <2>2 DEF NodeSendBound, TInv, NodeTyped
      <4>2. Echoes'[NodeHost] = Remember(Echoes[NodeHost], Head(outgoing))
        BY <2>2, <3>3, EchoesAre DEF NodeSendBound
      <4>3. Emit(NodeHost, Head(outgoing))
        BY <2>2, <3>3 DEF NodeSendBound
      <4>. QED  BY <2>1, <3>1, <4>1, <4>2, <4>3, SendStep, EchoesAre
    <3>. QED  BY <3>2, <3>3
  <2>3. ASSUME NEW x \in Data, DenoSend(x), UNCHANGED nodeVars PROVE EchoInv'
    <3>1. OthersKeep(DenoHost)
      BY <2>3, EchoesAre DEF OthersKeep, nodeVars
    <3>2. Echoes'[DenoHost] = Remember(Echoes[DenoHost], x)
      BY <2>3, EchoesAre DEF DenoSend
    <3>3. Emit(DenoHost, x) \/ UNCHANGED <<net, listening>>
      BY <2>3 DEF DenoSend
    <3>. QED  BY <2>1, <3>1, <3>2, <3>3, SendStep, EchoesAre
  <2>. QED  BY <1>1, <2>2, <2>3 DEF Sending
<1>2. ASSUME NEW q \in DOMAIN net, Receiving(q) PROVE EchoInv'
  <2>1. Charged(Heard(q))
    BY <1>2 DEF Receiving, Misses, Charged, Heard
  <2>2. CASE OnMessage(q) /\ UNCHANGED denoVars
    <3>1. q.to = NodeHost /\ Arrives(q) /\ echoes' = Consume(echoes, q.data) /\ UNCHANGED denoEchoes
      BY <2>2 DEF OnMessage, denoVars
    <3>2. OthersKeep(q.to) /\ Echoes'[q.to] = Consume(Echoes[q.to], q.data)
      BY <3>1, EchoesAre DEF OthersKeep
    <3>. QED  BY <2>1, <3>1, <3>2, ArriveStep
  <2>3. CASE DenoReceive(q) /\ UNCHANGED nodeVars
    <3>1. q.to = DenoHost /\ Arrives(q) /\ denoEchoes' = Consume(denoEchoes, q.data)
          /\ UNCHANGED echoes
      BY <2>3 DEF DenoReceive, nodeVars
    <3>2. OthersKeep(q.to) /\ Echoes'[q.to] = Consume(Echoes[q.to], q.data)
      BY <3>1, EchoesAre DEF OthersKeep
    <3>. QED  BY <2>1, <3>1, <3>2, ArriveStep
  <2>. QED  BY <1>2, <2>2, <2>3 DEF Receiving
<1>3. CASE Local
  <2>1. Charged(Nothing)
    BY <1>3, MissesAre DEF Local
  <2>2. ASSUME UNCHANGED net, listening' \subseteq Hosts, UNCHANGED <<echoes, denoEchoes>>
        PROVE  EchoInv'
    <3>1. \A h \in Hosts : Echoes'[h] = Echoes[h]
      BY <2>2, EchoesAre
    <3>. QED  BY <2>1, <2>2, <3>1, QuietStep
  <2>3. ASSUME Close, UNCHANGED denoVars PROVE EchoInv'
    <3>1. Leave(NodeHost) /\ OthersKeep(NodeHost) /\ Echoes'[NodeHost] = <<>>
      BY <2>3, EchoesAre DEF Close, OthersKeep, denoVars
    <3>. QED  BY <2>1, <3>1, CloseStep, EchoesAre
  <2>4. CASE UNCHANGED denoVars /\ ((\E x \in Data : NodeSend(x)) \/ NodeReceive \/ NodeResume)
    BY <1>0, <2>2, <2>4 DEF NodeSend, NodeReceive, NodeResume, netVars, denoVars
  <2>5. CASE UNCHANGED denoVars /\ Bound
    BY <1>0, <2>2, <2>5, EchoesAre DEF Bound, denoVars
  <2>6. CASE UNCHANGED denoVars /\ BindFails
    BY <2>3, <2>6 DEF BindFails
  <2>7. CASE UNCHANGED denoVars /\ NodeEngineClose
    <3>1. CASE nodeClosed
      BY <1>0, <2>2, <2>7, <3>1 DEF NodeEngineClose, netVars, denoVars
    <3>2. CASE ~nodeClosed
      BY <2>3, <2>7, <3>2 DEF NodeEngineClose
    <3>. QED  BY <3>1, <3>2
  <2>8. CASE DenoReceiveEnds /\ UNCHANGED nodeVars
    BY <1>0, <2>2, <2>8 DEF DenoReceiveEnds, netVars, nodeVars
  <2>9. CASE DenoClose /\ UNCHANGED nodeVars
    <3>1. Leave(DenoHost) /\ OthersKeep(DenoHost) /\ Echoes'[DenoHost] = Echoes[DenoHost]
      BY <2>9, EchoesAre DEF DenoClose, OthersKeep, nodeVars
    <3>. QED  BY <2>1, <3>1, CloseStep, EchoesAre
  <2>. QED  BY <1>3, <2>4, <2>5, <2>6, <2>7, <2>8, <2>9 DEF Local
<1>4. CASE Tick
  <2>1. Charged(Nothing)
    BY <1>4, MissesAre DEF Tick
  <2>2. net' = AgedNet /\ UNCHANGED listening /\ \A h \in Hosts : Echoes'[h] = Aged(Echoes[h])
    BY <1>4, EchoesAre DEF Tick
  <2>. QED  BY <2>1, <2>2, TickStep
<1>5. CASE UNCHANGED vars
  <2>1. /\ UNCHANGED <<net, listening, missing>>
        /\ \A h \in Hosts : Echoes'[h] = Echoes[h]
    BY <1>5, EchoesAre DEF vars, nodeVars, denoVars, netVars
  <2>2. EchoTyped'
    BY <2>1 DEF EchoInv, EchoTyped
  <2>3. ASSUME NEW h \in Hosts, NEW x \in Data PROVE Covered(h, x)'
    <3>1. OwnCopies(h, x)' = OwnCopies(h, x)
      BY <2>1, OwnAre
    <3>. QED  BY <2>1, <3>1 DEF EchoInv, Covered
  <2>. QED  BY <2>2, <2>3 DEF EchoInv
<1>. QED  BY <1>1, <1>2, <1>3, <1>4, <1>5 DEF Next

\* What each host remembers stays within its bound with one entry a datagram, and
\* covers the copies of its own that are still to come.
THEOREM EchoesAreCovered == Spec => []EchoInv
<1>. QED  BY EchoInit, EchoStep, TransportsInvariant, PTL DEF Spec

\* remember, consume: no host takes its own datagram for another's, but for the
\* credits that identical or late copies took and those that were evicted.
THEOREM OwnCopiesHaveCredit == Spec => []OwnEchoesHaveCredit
<1>1. EchoInv => OwnEchoesHaveCredit
  BY DEF EchoInv, Covered, OwnEchoesHaveCredit
<1>. QED  BY <1>1, EchoesAreCovered, PTL

=============================================================================
