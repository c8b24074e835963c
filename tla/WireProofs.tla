----------------------------- MODULE WireProofs -----------------------------
(***************************************************************************)
(* Proofs about what comes over the wire.                                     *)
(*                                                                           *)
(* The reader of names, for every datagram and any limits: it stays inside the   *)
(* datagram, and each iteration brings it nearer to its end.                    *)
(*                                                                           *)
(* Writer and reader together: where a name is in a datagram, compressed in any   *)
(* way that points back, the reader finds it; what the writer's table says of       *)
(* suffixes is true after every name; so a name that was written comes back.      *)
(*                                                                           *)
(* The order of records, for RDATA of any length: compareRdata and recordSort    *)
(* are total orders, so that two hosts that compare each other's records come to  *)
(* opposite results; and of two hosts that probe with records of the same names   *)
(* and types exactly one loses the tie-break.                                   *)
(***************************************************************************)
EXTENDS DomainNames, RecordOrder, DnsRecords, SequenceTheorems, WellFoundedInduction, TLAPS

------------------------------------------------------------------------------
(* The reader of names *)

\* Before the first jump the position has not gone back, after it the caller's
\* cursor is behind the pointer that was read at or after the start.
CursorInv ==
    /\ ~reader.jumped => reader.pos >= start
    /\ reader.jumped => reader.cursor > start

NameInv == NameTypeOK /\ StaysInside /\ CursorInv

\* The octet at an offset inside the datagram, and those of a label.
LEMMA AtLemma ==
    ASSUME NEW b \in Seq(Octet), NEW offset \in Nat, offset < Len(b)
    PROVE  At(b, offset) \in Octet
BY DEF At

LEMMA LabelLemma ==
    ASSUME NEW b \in Seq(Octet), NEW at \in Nat, NEW len \in Nat, at + 1 + len <= Len(b)
    PROVE  SubSeq(b, at + 2, at + 1 + len) \in Seq(Octet)
<1>1. Len(b) \in Nat /\ \A i \in 1..Len(b) : b[i] \in Octet
  OBVIOUS
<1>2. (at + 2)..(at + 1 + len) \subseteq 1..Len(b)
  BY <1>1
<1>3. \A i \in (at + 2)..(at + 1 + len) : b[i] \in Octet
  BY <1>1, <1>2
<1>. QED  BY <1>3, SubSeqProperties

LEMMA NameInitLemma == NameInit => NameInv
<1>. SUFFICES ASSUME NameInit PROVE NameInv
  OBVIOUS
<1>1. bytes \in Datagrams /\ bytes \in Seq(Octet) /\ start \in 0..Len(bytes) /\ Len(bytes) \in Nat
  BY DatagramAssumption DEF NameInit
<1>2. reader = StartAt(bytes, start)
  BY DEF NameInit
<1>3. <<>> \in Seq(Seq(Octet))
  OBVIOUS
<1>4. NameTypeOK
  BY <1>1, <1>2, <1>3 DEF NameTypeOK, StartAt
<1>5. StaysInside /\ CursorInv
  BY <1>1, <1>2, LimitAssumption DEF StaysInside, CursorInv, StartAt
<1>. QED  BY <1>4, <1>5 DEF NameInv

\* A pointer that is followed leads below every one before it.
LEMMA JumpLemma ==
    ASSUME NameInv, reader.status = "reading", reader.pos + 1 < Len(bytes),
           IsPointer(bytes, reader), reader' = Jump(bytes, reader), UNCHANGED <<bytes, start>>
    PROVE  /\ NameInv'
           /\ \/ reader'.status # "reading"
              \/ reader'.minJumpTarget < reader.minJumpTarget /\ reader'.total = reader.total
<1>. DEFINE t == Target(bytes, reader)
<1>1. bytes \in Seq(Octet) /\ Len(bytes) \in Nat
  BY DatagramAssumption DEF NameInv, NameTypeOK
<1>2. At(bytes, reader.pos) \in Octet /\ At(bytes, reader.pos + 1) \in Octet
  BY <1>1, AtLemma DEF NameInv, NameTypeOK
<1>3. t \in Nat
  <2>1. At(bytes, reader.pos) >= 192
    BY DEF IsPointer
  <2>2. At(bytes, reader.pos) \in Nat /\ At(bytes, reader.pos + 1) \in Nat
    BY <1>2, 0..255 \subseteq Nat DEF Octet
  <2>. QED  BY <2>1, <2>2 DEF Target
<1>4. Past(reader, 2) \in Nat /\ Past(reader, 2) <= Len(bytes) /\ Past(reader, 2) > start
  BY <1>1 DEF Past, NameInv, NameTypeOK, StaysInside, CursorInv
<1>. HIDE DEF t
<1>5. CASE reader.jumps + 1 > MaxPointerJumps \/ t >= reader.minJumpTarget
  <2>1. reader' = [reader EXCEPT !.status = "rejected"]
    BY <1>5 DEF Jump, Reject, t
  <2>. QED  BY <2>1 DEF NameInv, NameTypeOK, StaysInside, CursorInv
<1>6. CASE ~(reader.jumps + 1 > MaxPointerJumps \/ t >= reader.minJumpTarget)
  <2>1. reader' = [pos |-> t, cursor |-> Past(reader, 2), jumped |-> TRUE,
                   jumps |-> reader.jumps + 1, minJumpTarget |-> t, labels |-> reader.labels,
                   total |-> reader.total, status |-> reader.status]
    BY <1>6 DEF Jump, Follow, t
  <2>. HIDE DEF Past
  <2>2. NameTypeOK'
    BY <1>3, <1>4, <2>1 DEF NameInv, NameTypeOK
  <2>3. StaysInside' /\ CursorInv'
    BY <1>1, <1>3, <1>4, <1>6, <2>1, LimitAssumption
       DEF NameInv, NameTypeOK, StaysInside, CursorInv
  <2>4. reader'.minJumpTarget < reader.minJumpTarget /\ reader'.total = reader.total
    BY <1>3, <1>6, <2>1 DEF NameInv, NameTypeOK
  <2>. QED  BY <2>2, <2>3, <2>4 DEF NameInv
<1>. QED  BY <1>5, <1>6

\* A label that is taken makes the name longer.
LEMMA TakeLabelLemma ==
    ASSUME NameInv, reader.status = "reading", reader.pos < Len(bytes),
           At(bytes, reader.pos) # 0,
           reader' = TakeLabel(bytes, reader), UNCHANGED <<bytes, start>>
    PROVE  /\ NameInv'
           /\ \/ reader'.status # "reading"
              \/ reader'.total > reader.total /\ reader'.minJumpTarget = reader.minJumpTarget
<1>. DEFINE len == At(bytes, reader.pos)
<1>1. bytes \in Seq(Octet) /\ Len(bytes) \in Nat
  BY DatagramAssumption DEF NameInv, NameTypeOK
<1>2. len \in 1..255
  <2>1. len \in Octet
    BY <1>1, AtLemma DEF NameInv, NameTypeOK
  <2>. QED  BY <2>1 DEF Octet
<1>. HIDE DEF len
<1>3. len \in Nat /\ len > 0
  BY <1>2, 1..255 \subseteq Nat
<1>4. /\ reader.pos \in Nat /\ reader.total \in Nat /\ reader.cursor \in Nat
      /\ reader.jumps \in Nat /\ reader.minJumpTarget \in Nat /\ reader.jumped \in BOOLEAN
      /\ start \in Nat
  BY <1>1 DEF NameInv, NameTypeOK
<1>5. CASE \/ len > MaxLabelLength \/ reader.pos + 1 + len > Len(bytes)
           \/ reader.total + len + 1 > MaxNameLength
  <2>1. reader' = [reader EXCEPT !.status = "rejected"]
    BY <1>5 DEF TakeLabel, Reject, len
  <2>. QED  BY <2>1 DEF NameInv, NameTypeOK, StaysInside, CursorInv
<1>6. CASE ~(\/ len > MaxLabelLength \/ reader.pos + 1 + len > Len(bytes)
             \/ reader.total + len + 1 > MaxNameLength)
  <2>. DEFINE label == SubSeq(bytes, reader.pos + 2, reader.pos + 1 + len)
              longer == Append(reader.labels, label)
  <2>1. reader' = [pos |-> reader.pos + 1 + len, cursor |-> reader.cursor,
                   jumped |-> reader.jumped, jumps |-> reader.jumps,
                   minJumpTarget |-> reader.minJumpTarget,
                   labels |-> longer,
                   total |-> reader.total + len + 1, status |-> reader.status]
    BY <1>6 DEF TakeLabel, len
  <2>2. label \in Seq(Octet)
    <3>1. reader.pos + 1 + len <= Len(bytes)
      BY <1>1, <1>3, <1>4, <1>6
    <3>. QED  BY <1>1, <1>3, <1>4, <3>1, LabelLemma
  <2>. HIDE DEF label
  <2>3. longer \in Seq(Seq(Octet))
    BY <2>2 DEF NameInv, NameTypeOK
  <2>. HIDE DEF longer
  <2>4. NameTypeOK'
    <3>1. reader.pos + 1 + len \in Nat /\ reader.total + len + 1 \in Nat
      BY <1>3, <1>4
    <3>. QED  BY <2>1, <2>3, <3>1 DEF NameInv, NameTypeOK
  <2>5. StaysInside' /\ CursorInv'
    <3>1. /\ reader'.pos = reader.pos + 1 + len /\ reader'.total = reader.total + len + 1
          /\ reader'.cursor = reader.cursor /\ reader'.jumped = reader.jumped
          /\ reader'.jumps = reader.jumps /\ reader'.status = reader.status
          /\ reader'.minJumpTarget = reader.minJumpTarget
      BY <2>1
    <3>2. StaysInside /\ CursorInv
      BY DEF NameInv
    <3>3. StaysInside'
      BY <1>1, <1>3, <1>4, <1>6, <3>1, <3>2, LimitAssumption DEF StaysInside
    <3>4. CursorInv'
      BY <1>3, <1>4, <3>1, <3>2 DEF CursorInv
    <3>. QED  BY <3>3, <3>4
  <2>6. reader'.total > reader.total /\ reader'.minJumpTarget = reader.minJumpTarget
    BY <1>2, <2>1 DEF NameInv, NameTypeOK
  <2>. QED  BY <2>4, <2>5, <2>6 DEF NameInv
<1>. QED  BY <1>5, <1>6

\* One iteration of the loop.
LEMMA NameLoopLemma ==
    ASSUME NameInv, NameLoop
    PROVE  /\ NameInv'
           /\ \/ reader'.status # "reading"
              \/ reader'.minJumpTarget < reader.minJumpTarget /\ reader'.total = reader.total
              \/ reader'.total > reader.total /\ reader'.minJumpTarget = reader.minJumpTarget
<1>1. /\ reader.status = "reading" /\ reader' = NameStep(bytes, reader)
      /\ bytes' = bytes /\ start' = start
  BY DEF NameLoop
<1>2. ASSUME reader' = Reject(reader)
      PROVE  NameInv' /\ reader'.status # "reading"
  <2>1. reader' = [reader EXCEPT !.status = "rejected"]
    BY <1>2 DEF Reject
  <2>. QED  BY <1>1, <2>1 DEF NameInv, NameTypeOK, StaysInside, CursorInv
<1>3. CASE reader.pos >= Len(bytes)
  BY <1>1, <1>2, <1>3 DEF NameStep
<1>4. CASE reader.pos < Len(bytes) /\ IsPointer(bytes, reader)
  <2>1. CASE reader.pos + 1 >= Len(bytes)
    BY <1>1, <1>2, <1>4, <2>1 DEF NameStep, NameInv, NameTypeOK
  <2>2. CASE reader.pos + 1 < Len(bytes)
    <3>1. reader' = Jump(bytes, reader)
      BY <1>1, <1>4, <2>2 DEF NameStep, NameInv, NameTypeOK
    <3>. QED  BY <1>1, <1>4, <2>2, <3>1, JumpLemma
  <2>. QED  BY <2>1, <2>2 DEF NameInv, NameTypeOK
<1>5. CASE reader.pos < Len(bytes) /\ ~IsPointer(bytes, reader)
  <2>1. CASE At(bytes, reader.pos) >= 64
    BY <1>1, <1>2, <1>5, <2>1 DEF NameStep, NameInv, NameTypeOK
  <2>2. CASE ~(At(bytes, reader.pos) >= 64) /\ At(bytes, reader.pos) = 0
    <3>1. reader' = Finish(reader)
      BY <1>1, <1>5, <2>2 DEF NameStep, NameInv, NameTypeOK
    <3>2. Past(reader, 1) \in Nat /\ Past(reader, 1) <= Len(bytes) /\ Past(reader, 1) > start
      BY <1>5 DEF Past, NameInv, NameTypeOK, StaysInside, CursorInv
    <3>3. NameTypeOK'
      BY <1>1, <3>1, <3>2 DEF Finish, NameInv, NameTypeOK
    <3>4. StaysInside' /\ CursorInv'
      BY <1>1, <3>1, <3>2 DEF Finish, NameInv, NameTypeOK, StaysInside, CursorInv
    <3>. QED  BY <3>1, <3>3, <3>4 DEF Finish, NameInv
  <2>3. CASE ~(At(bytes, reader.pos) >= 64) /\ At(bytes, reader.pos) # 0
    <3>1. reader' = TakeLabel(bytes, reader)
      BY <1>1, <1>5, <2>3 DEF NameStep, NameInv, NameTypeOK
    <3>. QED  BY <1>1, <1>5, <2>3, <3>1, TakeLabelLemma
  <2>. QED  BY <2>1, <2>2, <2>3
<1>. QED  BY <1>3, <1>4, <1>5 DEF NameInv, NameTypeOK

\* The inductive invariant of Reader.name().
THEOREM NameInvariant == NameSpec => []NameInv
<1>1. NameInv /\ [NameLoop]_nameVars => NameInv'
  <2>1. ASSUME NameInv, UNCHANGED nameVars PROVE NameInv'
    BY <2>1 DEF nameVars, NameInv, NameTypeOK, StaysInside, CursorInv
  <2>. QED  BY <2>1, NameLoopLemma
<1>. QED  BY <1>1, NameInitLemma, PTL DEF NameSpec

\* StaysInside: no datagram leads the loop out of it, over a limit, or hands the
\* caller a cursor that has not moved on (Reader.name).
THEOREM ReaderStaysInside == NameSpec => []StaysInside
<1>1. NameInv => StaysInside
  BY DEF NameInv
<1>. QED  BY <1>1, NameInvariant, PTL

\* MakesProgress: every iteration jumps below the pointers before it or makes the
\* name longer, so that the loop ends (Reader.name).
THEOREM ReaderMakesProgress == NameSpec => MakesProgress
<1>. DEFINE Progress ==
       reader.status = "reading" =>
         \/ reader'.status # "reading"
         \/ reader'.minJumpTarget < reader.minJumpTarget /\ reader'.total = reader.total
         \/ reader'.total > reader.total /\ reader'.minJumpTarget = reader.minJumpTarget
<1>1. NameInv /\ [NameLoop]_nameVars => [Progress]_nameVars
  BY NameLoopLemma DEF Progress
<1>. QED  BY <1>1, NameInvariant, PTL DEF NameSpec, MakesProgress

------------------------------------------------------------------------------
(* Names that were written *)

Label == {l \in Seq(Octet) : Len(l) \in 1..MaxLabelLength}

\* The places of a name's labels and of its end lead on from each other, from the name's
\* own place on: the next one follows at once, or is pointed to and below all before it.
Behind(at, labels, place, k) == IF k = 0 THEN at ELSE place[k] + 1 + Len(labels[k])

PointsTo(b, p, q) == At(b, p) >= 192 /\ (At(b, p) - 192) * 256 + At(b, p + 1) = q

LeadsOn(b, at, labels, place, k, F) ==
    LET p == Behind(at, labels, place, k)
    IN  \/ place[k + 1] = p
        \/ /\ k # Len(labels) /\ p \in F /\ p + 1 \in F /\ PointsTo(b, p, place[k + 1])
           /\ place[k + 1] < at /\ \A j \in 1..k : place[k + 1] < place[j]

\* A label's octets at a place.
LabelAt(b, p, label, F) ==
    /\ p \in F /\ At(b, p) = Len(label)
    /\ \A j \in 1..Len(label) : p + j \in F /\ At(b, p + j) = label[j]

\* A name at an offset, by its places; of the datagram only the octets at F matter.
Way(b, at, labels, place, F) ==
    /\ place \in [1..(Len(labels) + 1) -> Nat]
    /\ \A k \in 1..Len(labels) : LabelAt(b, place[k], labels[k], F)
    /\ place[Len(labels) + 1] \in F /\ At(b, place[Len(labels) + 1]) = 0
    /\ \A k \in 0..Len(labels) : LeadsOn(b, at, labels, place, k, F)

\* No pointer among the first k steps.
Straight(at, labels, place, k) ==
    \A j \in 0..(k - 1) : place[j + 1] = Behind(at, labels, place, j)

\* Where the name's own octets end: behind its end or behind its first pointer.
EndsAt(at, labels, place, end) ==
    LET n == Len(labels) IN
    /\ Straight(at, labels, place, n + 1) => end = place[n + 1] + 1
    /\ \A k \in 0..n :
          Straight(at, labels, place, k) /\ place[k + 1] # Behind(at, labels, place, k)
             => end = Behind(at, labels, place, k) + 2

Holds(b, at, labels, end, F) ==
    \E place : Way(b, at, labels, place, F) /\ EndsAt(at, labels, place, end)

\* A name no longer than names may be.  With the limits of the code the second conjunct
\* implies the first: 255 octets hold at most 127 labels, and 128 jumps are allowed.
Legal(labels) ==
    /\ Len(labels) <= MaxPointerJumps
    /\ \E size \in [0..Len(labels) -> 0..MaxNameLength] :
          size[0] = 0 /\ \A k \in 1..Len(labels) : size[k] = size[k - 1] + Len(labels[k]) + 1

Inside(b) == 0..(Len(b) - 1)

\* A name that is there is not rejected, and read to its last label.
ReadsWhatIsThere ==
    \A labels \in Seq(Label) : \A end \in Nat :
        Legal(labels) /\ Holds(bytes, start, labels, end, Inside(bytes)) =>
            /\ reader.status # "rejected"
            /\ reader.status = "read" => reader.labels = labels /\ reader.cursor = end

------------------------------------------------------------------------------
(* Reading one *)

\* What has been read of it: k labels.
Sofar(labels, size, k) ==
    /\ k \in 0..Len(labels)
    /\ reader.labels \in Seq(Seq(Octet)) /\ Len(reader.labels) = k
    /\ \A j \in 1..k : reader.labels[j] = labels[j]
    /\ reader.total = size[k]

\* The caller's cursor, after the first k steps.
CursorIs(labels, place, end, k) ==
    /\ reader.jumped \in BOOLEAN
    /\ Straight(start, labels, place, k) <=> ~reader.jumped
    /\ reader.jumped => reader.cursor = end

\* The lowest target so far is none, or a place that was come by.
LowestIs(place, k) ==
    reader.minJumpTarget = Len(bytes) \/ \E j \in 1..k : reader.minJumpTarget = place[j]

\* The reader is behind the label it read last, or at the target of a pointer.
OnTheWay(labels, size, place, end) ==
    \E k \in 0..Len(labels) :
        /\ Sofar(labels, size, k)
        /\ \/ /\ reader.status = "reading" /\ reader.pos = Behind(start, labels, place, k)
              /\ CursorIs(labels, place, end, k) /\ LowestIs(place, k)
              /\ reader.jumps <= k
           \/ /\ reader.status = "reading" /\ reader.pos = place[k + 1] /\ k # Len(labels)
              /\ CursorIs(labels, place, end, k + 1) /\ LowestIs(place, k + 1)
              /\ reader.jumps <= k + 1
           \/ reader.status = "read" /\ k = Len(labels) /\ reader.cursor = end

IsSize(labels, size) ==
    /\ size \in [0..Len(labels) -> 0..MaxNameLength] /\ size[0] = 0
    /\ \A k \in 1..Len(labels) : size[k] = size[k - 1] + Len(labels[k]) + 1

\* What stays while the name is read.
Found(labels, size, place, end) ==
    /\ labels \in Seq(Label) /\ Len(labels) <= MaxPointerJumps /\ IsSize(labels, size)
    /\ Way(bytes, start, labels, place, Inside(bytes)) /\ EndsAt(start, labels, place, end)

LEMMA FoundTyped ==
    ASSUME NameInv, NEW labels, NEW size, NEW place, NEW end, Found(labels, size, place, end)
    PROVE  /\ Len(labels) \in Nat /\ bytes \in Seq(Octet) /\ Len(bytes) \in Nat
           /\ start \in Nat /\ start <= Len(bytes)
           /\ \A k \in 1..Len(labels) : /\ labels[k] \in Seq(Octet) /\ labels[k] \in Label
                                        /\ Len(labels[k]) \in 1..MaxLabelLength
           /\ \A k \in 1..(Len(labels) + 1) : place[k] \in Nat
           /\ \A k \in 0..Len(labels) : /\ Behind(start, labels, place, k) \in Nat
                                        /\ size[k] \in 0..MaxNameLength
<1>1. Len(labels) \in Nat /\ \A k \in 1..Len(labels) : labels[k] \in Label
  BY DEF Found
<1>2. \A k \in 1..Len(labels) : /\ labels[k] \in Seq(Octet)
                                /\ Len(labels[k]) \in 1..MaxLabelLength
  BY <1>1 DEF Label
<1>3. bytes \in Seq(Octet) /\ Len(bytes) \in Nat /\ start \in Nat /\ start <= Len(bytes)
  BY DatagramAssumption DEF NameInv, NameTypeOK
<1>4. \A k \in 1..(Len(labels) + 1) : place[k] \in Nat
  BY DEF Found, Way
<1>5. \A k \in 0..Len(labels) : size[k] \in 0..MaxNameLength
  BY DEF Found, IsSize
<1>6. ASSUME NEW k \in 0..Len(labels) PROVE Behind(start, labels, place, k) \in Nat
  <2>1. CASE k = 0
    BY <1>3, <2>1 DEF Behind
  <2>2. CASE k # 0
    <3>1. k \in 1..Len(labels) /\ k \in 1..(Len(labels) + 1)
      BY <1>1, <2>2
    <3>2. place[k] \in Nat /\ Len(labels[k]) \in Nat
      BY <1>2, <1>4, <3>1, LimitAssumption
    <3>. QED  BY <2>2, <3>2 DEF Behind
  <2>. QED  BY <2>1, <2>2
<1>. QED  BY <1>1, <1>2, <1>3, <1>4, <1>5, <1>6

\* A label where the name has one is taken.
LEMMA TakesLabel ==
    ASSUME NameInv, NEW labels, NEW size, NEW place, NEW end, Found(labels, size, place, end),
           NEW k \in 0..Len(labels), k # Len(labels), Sofar(labels, size, k),
           reader.status = "reading", reader.pos = place[k + 1],
           CursorIs(labels, place, end, k + 1), LowestIs(place, k + 1), reader.jumps <= k + 1,
           reader' = NameStep(bytes, reader), UNCHANGED <<bytes, start>>
    PROVE  OnTheWay(labels, size, place, end)'
<1> DEFINE label == labels[k + 1]
           p == place[k + 1]
<1>1. k + 1 \in 1..Len(labels) /\ k \in Nat /\ k + 1 \in 0..Len(labels) /\ k + 1 # 0
  BY FoundTyped
<1>2. /\ label \in Seq(Octet) /\ Len(label) \in 1..MaxLabelLength /\ p \in Nat
      /\ bytes \in Seq(Octet) /\ Len(bytes) \in Nat
  BY <1>1, FoundTyped
<1>3. LabelAt(bytes, p, label, Inside(bytes))
  BY <1>1 DEF Found, Way
<1> HIDE DEF label, p
<1>4. /\ p < Len(bytes) /\ At(bytes, p) = Len(label)
      /\ \A j \in 1..Len(label) : p + j < Len(bytes) /\ At(bytes, p + j) = label[j]
  BY <1>2, <1>3 DEF LabelAt, Inside
<1>5. Len(label) \in 1..63 /\ Len(label) <= MaxLabelLength /\ Len(label) \in 1..Len(label)
  <2>1. MaxLabelLength \in 1..63
    BY LimitAssumption
  <2> DEFINE len == Len(label)
  <2>2. len \in 1..MaxLabelLength
    BY <1>2
  <2> HIDE DEF len
  <2>3. len \in 1..63 /\ len <= MaxLabelLength /\ len \in 1..len
    BY <2>1, <2>2
  <2>. QED  BY <2>3 DEF len
<1>6. p + 1 + Len(label) <= Len(bytes)
  BY <1>2, <1>4, <1>5
<1>7. size[k + 1] = size[k] + Len(label) + 1 /\ size[k + 1] <= MaxNameLength /\ size[k] \in Nat
  <2>1. size[k + 1] = size[(k + 1) - 1] + Len(label) + 1
    BY <1>1 DEF Found, IsSize, label
  <2>2. size[k + 1] \in 0..MaxNameLength /\ size[k] \in 0..MaxNameLength /\ (k + 1) - 1 = k
    BY <1>1, FoundTyped
  <2>. QED  BY <2>1, <2>2, LimitAssumption
<1>8. reader.pos = p /\ reader.total = size[k]
  BY DEF p, Sofar
<1>9. reader' = TakeLabel(bytes, reader)
  <2> DEFINE len == Len(label)
  <2>1. At(bytes, reader.pos) = len /\ len \in 1..63 /\ reader.pos < Len(bytes)
    BY <1>4, <1>5, <1>8
  <2> HIDE DEF len
  <2>2. ~(reader.pos >= Len(bytes)) /\ ~(len >= 192) /\ ~(len >= 64) /\ len # 0
    <3>1. ~(len >= 192) /\ ~(len >= 64) /\ len # 0
      BY <2>1
    <3>2. reader.pos \in Nat /\ Len(bytes) \in Nat
      BY <1>2, <1>8
    <3>3. ~(reader.pos >= Len(bytes))
      BY <2>1, <3>2
    <3>. QED  BY <3>1, <3>3
  <2>. QED  BY <2>1, <2>2 DEF NameStep, IsPointer
<1> DEFINE taken == SubSeq(bytes, p + 2, p + 1 + Len(label))
<1>10. reader' = [pos |-> p + 1 + Len(label), cursor |-> reader.cursor,
                  jumped |-> reader.jumped, jumps |-> reader.jumps,
                  minJumpTarget |-> reader.minJumpTarget,
                  labels |-> Append(reader.labels, taken),
                  total |-> size[k] + Len(label) + 1, status |-> reader.status]
  <2>1. ~(\/ Len(label) > MaxLabelLength \/ p + 1 + Len(label) > Len(bytes)
          \/ size[k] + Len(label) + 1 > MaxNameLength)
    BY <1>2, <1>5, <1>6, <1>7, LimitAssumption
  <2>. QED  BY <1>4, <1>8, <1>9, <2>1 DEF TakeLabel
<1>11. taken = label
  <2>1. \A i \in (p + 2)..(p + 1 + Len(label)) : bytes[i] \in Octet
    BY <1>2, <1>6
  <2>2. p + 2 \in Int /\ p + 1 + Len(label) \in Int
    BY <1>2
  <2>3. /\ taken \in Seq(Octet)
        /\ Len(taken) = IF p + 2 <= p + 1 + Len(label)
                        THEN (p + 1 + Len(label)) - (p + 2) + 1 ELSE 0
        /\ \A i \in 1..((p + 1 + Len(label)) - (p + 2) + 1) : taken[i] = bytes[p + 2 + i - 1]
    BY <2>1, <2>2, SubSeqProperties
  <2> HIDE DEF taken
  <2>4. Len(taken) = Len(label)
    BY <1>2, <1>5, <2>3
  <2>5. ASSUME NEW i \in 1..Len(taken) PROVE taken[i] = label[i]
    <3>1. i \in 1..Len(label) /\ i \in 1..((p + 1 + Len(label)) - (p + 2) + 1)
      BY <1>2, <2>4
    <3>2. taken[i] = bytes[p + i + 1]
      BY <1>2, <2>3, <3>1
    <3>. QED  BY <1>4, <3>1, <3>2 DEF At
  <2>. QED  BY <1>2, <2>3, <2>4, <2>5, SeqEqual
<1> HIDE DEF taken
<1>12. Sofar(labels, size, k + 1)'
  <2>1. reader.labels \in Seq(Seq(Octet)) /\ Len(reader.labels) = k
    BY DEF Sofar
  <2>2. reader'.labels = Append(reader.labels, label)
    BY <1>10, <1>11
  <2>3. /\ reader'.labels \in Seq(Seq(Octet)) /\ Len(reader'.labels) = k + 1
        /\ \A j \in 1..k : reader'.labels[j] = reader.labels[j]
        /\ reader'.labels[k + 1] = label
    BY <1>2, <2>1, <2>2, AppendProperties
  <2>4. \A j \in 1..(k + 1) : reader'.labels[j] = labels[j]
    BY <1>1, <2>3 DEF Sofar, label
  <2>5. reader'.total = size[k + 1]
    BY <1>7, <1>10
  <2>. QED  BY <1>1, <2>3, <2>4, <2>5 DEF Sofar
<1>13. reader'.pos = Behind(start, labels, place, k + 1)
  BY <1>1, <1>10 DEF Behind, p, label
<1>14. CursorIs(labels, place, end, k + 1)' /\ LowestIs(place, k + 1)'
       /\ reader'.jumps <= k + 1 /\ reader'.status = "reading"
  BY <1>10 DEF CursorIs, LowestIs
<1>. QED  BY <1>1, <1>12, <1>13, <1>14 DEF OnTheWay

\* The name's end is its end.
LEMMA FindsEnd ==
    ASSUME NameInv, NEW labels, NEW size, NEW place, NEW end, Found(labels, size, place, end),
           NEW k, k = Len(labels), Sofar(labels, size, k),
           reader.status = "reading", reader.pos = place[k + 1],
           CursorIs(labels, place, end, k + 1),
           reader' = NameStep(bytes, reader), UNCHANGED <<bytes, start>>
    PROVE  OnTheWay(labels, size, place, end)'
<1>1. Len(labels) \in Nat /\ bytes \in Seq(Octet) /\ Len(bytes) \in Nat
  BY FoundTyped
<1>2. At(bytes, reader.pos) = 0 /\ reader.pos < Len(bytes) /\ reader.pos \in Nat
  <2>1. place[Len(labels) + 1] \in Inside(bytes) /\ At(bytes, place[Len(labels) + 1]) = 0
    BY DEF Found, Way
  <2>. QED  BY <1>1, <2>1 DEF Inside
<1>3. reader' = Finish(reader)
  BY <1>1, <1>2 DEF NameStep, IsPointer
<1>4. reader'.status = "read" /\ reader'.labels = reader.labels /\ reader'.total = reader.total
      /\ reader'.cursor = Past(reader, 1)
  BY <1>3 DEF Finish
<1>5. Past(reader, 1) = end
  <2>1. CASE reader.jumped
    BY <2>1 DEF Past, CursorIs
  <2>2. CASE ~reader.jumped
    <3>1. end = place[k + 1] + 1
      BY <2>2 DEF CursorIs, Found, EndsAt
    <3>. QED  BY <2>2, <3>1 DEF Past
  <2>. QED  BY <2>1, <2>2
<1>6. Sofar(labels, size, k)'
  BY <1>4 DEF Sofar
<1>. QED  BY <1>1, <1>4, <1>5, <1>6 DEF OnTheWay

\* A pointer is followed.
LEMMA FollowsPointer ==
    ASSUME NameInv, NEW labels, NEW size, NEW place, NEW end, Found(labels, size, place, end),
           NEW k \in 0..Len(labels), Sofar(labels, size, k),
           reader.status = "reading", reader.pos = Behind(start, labels, place, k),
           place[k + 1] # reader.pos,
           CursorIs(labels, place, end, k), LowestIs(place, k), reader.jumps <= k,
           reader' = NameStep(bytes, reader), UNCHANGED <<bytes, start>>
    PROVE  OnTheWay(labels, size, place, end)'
<1> DEFINE p == Behind(start, labels, place, k)
           q == place[k + 1]
<1>1. /\ Len(labels) \in Nat /\ bytes \in Seq(Octet) /\ Len(bytes) \in Nat /\ k \in Nat
      /\ p \in Nat /\ q \in Nat /\ start \in Nat /\ start <= Len(bytes)
      /\ \A j \in 1..k : place[j] \in Nat
  BY FoundTyped
<1>2. /\ k # Len(labels) /\ p \in Inside(bytes) /\ p + 1 \in Inside(bytes)
      /\ PointsTo(bytes, p, q) /\ q < start /\ \A j \in 1..k : q < place[j]
  <2>1. LeadsOn(bytes, start, labels, place, k, Inside(bytes))
    BY DEF Found, Way
  <2>. QED  BY <2>1 DEF LeadsOn
<1>3. reader.pos = p /\ p + 1 < Len(bytes) /\ p < Len(bytes)
  BY <1>1, <1>2 DEF Inside
<1> HIDE DEF p, q
<1>4. k + 1 <= Len(labels) /\ Len(labels) <= MaxPointerJumps /\ k + 1 \in 0..Len(labels)
  BY <1>1, <1>2 DEF Found
<1>5. reader.jumps \in Nat /\ reader.minJumpTarget \in Nat
  BY DEF NameInv, NameTypeOK
<1>6. reader' = Jump(bytes, reader)
  BY <1>1, <1>2, <1>3 DEF NameStep, IsPointer, PointsTo
<1>7. Target(bytes, reader) = q
  BY <1>2, <1>3 DEF Target, PointsTo
<1>8. q < reader.minJumpTarget
  <2>1. CASE reader.minJumpTarget = Len(bytes)
    BY <1>1, <1>2, <2>1
  <2>2. CASE \E j \in 1..k : reader.minJumpTarget = place[j]
    BY <1>2, <2>2
  <2>. QED  BY <2>1, <2>2 DEF LowestIs
<1>9. reader' = [pos |-> q, cursor |-> Past(reader, 2), jumped |-> TRUE,
                 jumps |-> reader.jumps + 1, minJumpTarget |-> q, labels |-> reader.labels,
                 total |-> reader.total, status |-> reader.status]
  <2>1. ~(reader.jumps + 1 > MaxPointerJumps \/ q >= reader.minJumpTarget)
    BY <1>1, <1>4, <1>5, <1>8, LimitAssumption
  <2>. QED  BY <1>6, <1>7, <2>1 DEF Jump, Follow
<1>10. Past(reader, 2) = end
  <2>1. CASE reader.jumped
    BY <2>1 DEF Past, CursorIs
  <2>2. CASE ~reader.jumped
    <3>1. Straight(start, labels, place, k) /\ place[k + 1] # Behind(start, labels, place, k)
      BY <2>2 DEF CursorIs
    <3>2. end = Behind(start, labels, place, k) + 2
      BY <3>1 DEF Found, EndsAt
    <3>. QED  BY <2>2, <3>2, <1>3 DEF Past, p
  <2>. QED  BY <2>1, <2>2 DEF CursorIs
<1>11. ~Straight(start, labels, place, k + 1)
  <2>1. k \in 0..((k + 1) - 1) /\ place[k + 1] # Behind(start, labels, place, k)
    BY <1>1
  <2>. QED  BY <2>1 DEF Straight
<1>12. CursorIs(labels, place, end, k + 1)'
  <2>1. reader'.jumped = TRUE /\ reader'.cursor = end /\ start' = start
    BY <1>9, <1>10
  <2>2. ~Straight(start', labels, place, k + 1)
    BY <1>11
  <2>. QED  BY <2>1, <2>2 DEF CursorIs
<1>13. LowestIs(place, k + 1)'
  BY <1>1, <1>9 DEF LowestIs, q
<1>14. Sofar(labels, size, k)'
  BY <1>9 DEF Sofar
<1>15. reader'.pos = place[k + 1] /\ reader'.jumps <= k + 1 /\ reader'.status = "reading"
  BY <1>1, <1>5, <1>9 DEF q
<1>. QED  BY <1>2, <1>12, <1>13, <1>14, <1>15 DEF OnTheWay

LEMMA StaysOnTheWay ==
    ASSUME NameInv, NEW labels, NEW size, NEW place, NEW end, Found(labels, size, place, end),
           OnTheWay(labels, size, place, end), NameLoop
    PROVE  OnTheWay(labels, size, place, end)'
<1>1. /\ reader.status = "reading" /\ reader' = NameStep(bytes, reader)
      /\ UNCHANGED <<bytes, start>>
  BY DEF NameLoop
<1>2. PICK k \in 0..Len(labels) :
        /\ Sofar(labels, size, k)
        /\ \/ /\ reader.status = "reading" /\ reader.pos = Behind(start, labels, place, k)
              /\ CursorIs(labels, place, end, k) /\ LowestIs(place, k)
              /\ reader.jumps <= k
           \/ /\ reader.status = "reading" /\ reader.pos = place[k + 1] /\ k # Len(labels)
              /\ CursorIs(labels, place, end, k + 1) /\ LowestIs(place, k + 1)
              /\ reader.jumps <= k + 1
           \/ reader.status = "read" /\ k = Len(labels) /\ reader.cursor = end
  BY DEF OnTheWay
<1>3. CASE /\ reader.pos = Behind(start, labels, place, k)
           /\ CursorIs(labels, place, end, k) /\ LowestIs(place, k) /\ reader.jumps <= k
  <2>1. CASE place[k + 1] # reader.pos
    BY <1>1, <1>2, <1>3, <2>1, FollowsPointer
  <2>2. CASE place[k + 1] = reader.pos
    <3>1. k \in Nat /\ reader.jumps \in Nat
      BY FoundTyped DEF NameInv, NameTypeOK
    <3>2. Straight(start, labels, place, k + 1) <=> Straight(start, labels, place, k)
      <4>1. \A j : j \in 0..((k + 1) - 1) <=> j \in 0..(k - 1) \/ j = k
        BY <3>1
      <4>. QED  BY <1>3, <2>2, <4>1 DEF Straight
    <3>3. CursorIs(labels, place, end, k + 1)
      BY <1>3, <3>2 DEF CursorIs
    <3>4. LowestIs(place, k + 1) /\ reader.jumps <= k + 1
      BY <1>3, <3>1 DEF LowestIs
    <3>5. CASE k = Len(labels)
      BY <1>1, <1>2, <2>2, <3>3, <3>5, FindsEnd
    <3>6. CASE k # Len(labels)
      BY <1>1, <1>2, <2>2, <3>3, <3>4, <3>6, TakesLabel
    <3>. QED  BY <3>5, <3>6
  <2>. QED  BY <2>1, <2>2
<1>4. CASE /\ reader.pos = place[k + 1] /\ k # Len(labels)
           /\ CursorIs(labels, place, end, k + 1) /\ LowestIs(place, k + 1)
           /\ reader.jumps <= k + 1
  BY <1>1, <1>2, <1>4, TakesLabel
<1>. QED  BY <1>1, <1>2, <1>3, <1>4

\* Whatever name is there is on its way, or read.
WayInv ==
    \A labels, size, place, end :
        Found(labels, size, place, end) => OnTheWay(labels, size, place, end)

LEMMA WayInit == NameInit => WayInv
<1> SUFFICES ASSUME NameInit, NEW labels, NEW size, NEW place, NEW end,
                    Found(labels, size, place, end)
             PROVE  OnTheWay(labels, size, place, end)
  BY DEF WayInv
<1>0. NameInv
  BY NameInitLemma
<1>1. reader = StartAt(bytes, start)
  BY DEF NameInit
<1>2. 0 \in 0..Len(labels) /\ size[0] = 0
  BY <1>0, FoundTyped DEF Found, IsSize
<1>3. Sofar(labels, size, 0)
  <2>1. reader.labels = <<>> /\ reader.total = 0
    BY <1>1 DEF StartAt
  <2>. QED  BY <1>2, <2>1, EmptySeq DEF Sofar
<1>4. reader.status = "reading" /\ reader.pos = Behind(start, labels, place, 0)
      /\ LowestIs(place, 0) /\ reader.jumps <= 0
  BY <1>1 DEF StartAt, Behind, LowestIs
<1>5. CursorIs(labels, place, end, 0)
  BY <1>1 DEF StartAt, CursorIs, Straight
<1>. QED  BY <1>2, <1>3, <1>4, <1>5 DEF OnTheWay

LEMMA WayStep == NameInv /\ WayInv /\ [NameLoop]_nameVars => WayInv'
<1> SUFFICES ASSUME NameInv, WayInv, [NameLoop]_nameVars,
                    NEW labels, NEW size, NEW place, NEW end,
                    Found(labels, size, place, end)'
             PROVE  OnTheWay(labels, size, place, end)'
  BY DEF WayInv
<1>1. UNCHANGED <<bytes, start>>
  BY DEF NameLoop, nameVars
<1>2. Found(labels, size, place, end)
  BY <1>1 DEF Found
<1>3. OnTheWay(labels, size, place, end)
  BY <1>2 DEF WayInv
<1>4. CASE NameLoop
  BY <1>2, <1>3, <1>4, StaysOnTheWay
<1>5. CASE UNCHANGED nameVars
  BY <1>3, <1>5 DEF nameVars, OnTheWay, Sofar, CursorIs, LowestIs
<1>. QED  BY <1>4, <1>5

\* Reader.name(): a name that is in a datagram, in one piece or in many that point at each
\* other backwards, is read as it is, and the caller goes on right behind its own octets.
THEOREM NamesAreRead == NameSpec => []ReadsWhatIsThere
<1>1. NameInv /\ WayInv => ReadsWhatIsThere
  <2> SUFFICES ASSUME WayInv, NEW labels \in Seq(Label), NEW end \in Nat, Legal(labels),
                      Holds(bytes, start, labels, end, Inside(bytes))
               PROVE  /\ reader.status # "rejected"
                      /\ reader.status = "read" =>
                            reader.labels = labels /\ reader.cursor = end
    BY DEF ReadsWhatIsThere
  <2>1. PICK place : /\ Way(bytes, start, labels, place, Inside(bytes))
                     /\ EndsAt(start, labels, place, end)
    BY DEF Holds
  <2>2. PICK size : IsSize(labels, size)
    BY DEF Legal, IsSize
  <2>3. OnTheWay(labels, size, place, end)
    BY <2>1, <2>2 DEF WayInv, Found, Legal
  <2>4. ASSUME reader.status = "read" PROVE reader.labels = labels /\ reader.cursor = end
    <3>1. Sofar(labels, size, Len(labels)) /\ reader.cursor = end
      BY <2>3, <2>4 DEF OnTheWay
    <3>2. labels \in Seq(Seq(Octet))
      <4>1. Label \subseteq Seq(Octet)
        BY DEF Label
      <4>. QED  BY <4>1, SeqMonotonic
    <3>3. reader.labels = labels
      BY <3>1, <3>2, SeqEqual DEF Sofar
    <3>. QED  BY <3>1, <3>3
  <2>5. reader.status # "rejected"
    BY <2>3 DEF OnTheWay
  <2>. QED  BY <2>4, <2>5
<1>2. NameInit => NameInv /\ WayInv
  BY NameInitLemma, WayInit
<1>3. NameInv /\ WayInv /\ [NameLoop]_nameVars => WayInv'
  BY WayStep
<1>. QED  BY <1>1, <1>2, <1>3, NameInvariant, PTL DEF NameSpec

------------------------------------------------------------------------------
(* Writing one *)

\* Every set of numbers that is not empty has a least one.
LEMMA LeastNumber ==
    ASSUME NEW T, T \subseteq Nat, T # {}
    PROVE  \E m \in T : \A n \in T : m <= n
<1> DEFINE R == OpToRel(<, Nat)
<1>1. IsWellFoundedOn(R, Nat)
  BY NatLessThanWellFounded
<1>2. PICK m \in T : \A n \in T : ~(<<n, m>> \in R)
  BY <1>1, WFMin
<1>3. \A n \in T : m <= n
  <2> SUFFICES ASSUME NEW n \in T PROVE m <= n
    OBVIOUS
  <2>1. ~(n < m)
    BY <1>2 DEF OpToRel
  <2> QED
    BY <2>1
<1> QED
  BY <1>3

\* A suffix is where a pointer to it would lead.
Stands(b, p, s, F) == \E place : Way(b, p, s, place, F) /\ place[1] = p

\* What the writer's table says is where it says, in octets at F.
Sound(w, F) ==
    /\ w.out \in Seq(Octet) /\ F \subseteq Inside(w.out)
    /\ DOMAIN w.names \subseteq Seq(Label) \ {<<>>}
    /\ \A s \in DOMAIN w.names :
          /\ w.names[s] \in 0..MaxPointerOffset
          /\ Stands(w.out, w.names[s], s, F)

\* What was written stays.
Extends(c, b) == Len(b) <= Len(c) /\ \A p \in Inside(b) : At(c, p) = At(b, p)

\* A name stays where it is as long as its octets do.
LEMMA WayStays ==
    ASSUME NEW b, NEW c, NEW at, NEW labels, NEW place, NEW F, NEW G,
           Way(b, at, labels, place, F), F \subseteq G, \A p \in F : At(c, p) = At(b, p)
    PROVE  Way(c, at, labels, place, G)
<1>1. ASSUME NEW k \in 1..Len(labels) PROVE LabelAt(c, place[k], labels[k], G)
  <2>1. LabelAt(b, place[k], labels[k], F)
    BY DEF Way
  <2>. QED  BY <2>1 DEF LabelAt
<1>2. place[Len(labels) + 1] \in G /\ At(c, place[Len(labels) + 1]) = 0
  BY DEF Way
<1>3. ASSUME NEW k \in 0..Len(labels) PROVE LeadsOn(c, at, labels, place, k, G)
  <2>1. LeadsOn(b, at, labels, place, k, F)
    BY DEF Way
  <2>. QED  BY <2>1 DEF LeadsOn, PointsTo
<1>. QED  BY <1>1, <1>2, <1>3 DEF Way

Suffix(labels, i) == SubSeq(labels, i, Len(labels))

LEMMA SuffixIs ==
    ASSUME NEW labels \in Seq(Label), NEW i \in 1..Len(labels)
    PROVE  /\ Suffix(labels, i) \in Seq(Label) \ {<<>>}
           /\ Len(Suffix(labels, i)) = Len(labels) - i + 1
           /\ \A j \in 1..(Len(labels) - i + 1) : Suffix(labels, i)[j] = labels[i + j - 1]
           /\ Head(Suffix(labels, i)) = labels[i]
<1>1. Len(labels) \in Nat /\ \A j \in i..Len(labels) : labels[j] \in Label
  OBVIOUS
<1>2. i \in Int /\ Len(labels) \in Int /\ i <= Len(labels)
  BY <1>1
<1>3. /\ Suffix(labels, i) \in Seq(Label)
      /\ Len(Suffix(labels, i)) =
            IF i <= Len(labels) THEN Len(labels) - i + 1 ELSE 0
      /\ \A j \in 1..(Len(labels) - i + 1) : Suffix(labels, i)[j] = labels[i + j - 1]
  BY <1>1, <1>2, SubSeqProperties DEF Suffix
<1>4. Len(Suffix(labels, i)) = Len(labels) - i + 1
  BY <1>2, <1>3
<1>5. Suffix(labels, i) # <<>>
  BY <1>1, <1>2, <1>4, EmptySeq
<1>6. Head(Suffix(labels, i)) = labels[i]
  BY <1>1, HeadTailOfSubSeq DEF Suffix
<1>. QED  BY <1>3, <1>4, <1>5, <1>6

\* The places of a name from its i-th label on are those of that suffix.
LEMMA SuffixWay ==
    ASSUME NEW b, NEW at \in Nat, NEW labels \in Seq(Label), NEW place, NEW F,
           Way(b, at, labels, place, F), NEW i \in 1..Len(labels)
    PROVE  Stands(b, place[i], Suffix(labels, i), F)
<1> DEFINE n == Len(labels)
           s == Suffix(labels, i)
           m == Len(s)
           tail == [j \in 1..(m + 1) |-> place[j + i - 1]]
<1>1. /\ n \in Nat /\ i \in Nat /\ i <= n /\ i >= 1 /\ m = n - i + 1
      /\ \A j \in 1..m : s[j] = labels[j + i - 1]
  BY SuffixIs
<1>2. \A j \in 1..(n + 1) : place[j] \in Nat
  BY DEF Way
<1>3. \A j \in 1..(m + 1) : tail[j] = place[j + i - 1]
  OBVIOUS
<1>4. tail \in [1..(m + 1) -> Nat]
  BY <1>1, <1>2
<1> HIDE DEF tail, s
<1>5. ASSUME NEW j \in 1..m PROVE LabelAt(b, tail[j], s[j], F)
  <2>1. j + i - 1 \in 1..n /\ j \in 1..(m + 1)
    BY <1>1
  <2>2. LabelAt(b, place[j + i - 1], labels[j + i - 1], F)
    BY <2>1 DEF Way
  <2>. QED  BY <1>1, <1>3, <2>1, <2>2
<1>6. tail[m + 1] \in F /\ At(b, tail[m + 1]) = 0
  <2>1. m + 1 \in 1..(m + 1) /\ (m + 1) + i - 1 = n + 1
    <3> HIDE DEF n, m
    <3>. QED  BY <1>1
  <2>2. tail[m + 1] = place[n + 1]
    BY <1>3, <2>1
  <2>. QED  BY <2>2 DEF Way
<1>7. ASSUME NEW j \in 0..m PROVE LeadsOn(b, place[i], s, tail, j, F)
  <2>1. j + i - 1 \in 0..n /\ j \in Nat /\ j + 1 \in 1..(m + 1) /\ (j + i - 1) + 1 = j + i
    BY <1>1
  <2>2. LeadsOn(b, at, labels, place, j + i - 1, F)
    BY <2>1 DEF Way
  <2>3. tail[j + 1] = place[j + i]
    <3>1. tail[j + 1] = place[(j + 1) + i - 1] /\ (j + 1) + i - 1 = j + i
      BY <1>1, <1>3, <2>1
    <3>. QED  BY <3>1
  <2>4. CASE j = 0
    BY <1>1, <2>3, <2>4 DEF LeadsOn, Behind
  <2>5. CASE j # 0
    <3>1. /\ j \in 1..m /\ j \in 1..(m + 1) /\ j + i - 1 # 0
          /\ tail[j] = place[j + i - 1] /\ s[j] = labels[j + i - 1]
      BY <1>1, <1>3, <2>1, <2>5
    <3>2. Behind(place[i], s, tail, j) = Behind(at, labels, place, j + i - 1)
      BY <2>5, <3>1 DEF Behind
    <3>3. CASE place[j + i] = Behind(at, labels, place, j + i - 1)
      BY <2>3, <3>2, <3>3 DEF LeadsOn
    <3>4. CASE place[j + i] # Behind(at, labels, place, j + i - 1)
      <4> DEFINE p == Behind(at, labels, place, j + i - 1)
      <4>1. /\ j + i - 1 # n /\ p \in F /\ p + 1 \in F /\ PointsTo(b, p, place[j + i])
            /\ \A k \in 1..(j + i - 1) : place[j + i] < place[k]
        BY <2>1, <2>2, <3>4 DEF LeadsOn
      <4> HIDE DEF p
      <4>2. i \in 1..(j + i - 1)
        BY <1>1, <2>1, <2>5
      <4>3. ASSUME NEW k \in 1..j PROVE tail[j + 1] < tail[k]
        <5>1. k \in 1..(m + 1) /\ k + i - 1 \in 1..(j + i - 1)
          BY <1>1, <2>1, <3>1
        <5>2. tail[k] = place[k + i - 1]
          BY <1>3, <5>1
        <5>. QED  BY <2>3, <4>1, <5>1, <5>2
      <4>4. j # m
        BY <1>1, <2>1, <4>1
      <4>5. place[j + i] < place[i]
        BY <4>1, <4>2
      <4>. QED  BY <2>3, <3>2, <4>1, <4>3, <4>4, <4>5 DEF LeadsOn, p
    <3>. QED  BY <3>3, <3>4
  <2>. QED  BY <2>4, <2>5
<1>8. Way(b, place[i], s, tail, F)
  BY <1>4, <1>5, <1>6, <1>7 DEF Way
<1>9. tail[1] = place[i]
  BY <1>1, <1>3
<1>. QED  BY <1>8, <1>9 DEF s, Stands


LEMMA PutIs ==
    ASSUME NEW w, w.out \in Seq(Octet), NEW octets \in Seq(Octet)
    PROVE  /\ Put(w, octets).out \in Seq(Octet)
           /\ Put(w, octets).names = w.names /\ Put(w, octets).ok = w.ok
           /\ Len(Put(w, octets).out) = Len(w.out) + Len(octets)
           /\ Extends(Put(w, octets).out, w.out)
           /\ \A j \in 1..Len(octets) :
                 At(Put(w, octets).out, Len(w.out) + j - 1) = octets[j]
<1> DEFINE b == w.out
           c == b \o octets
<1>1. b \in Seq(Octet) /\ Len(b) \in Nat /\ Len(octets) \in Nat
  OBVIOUS
<1>2. /\ c \in Seq(Octet) /\ Len(c) = Len(b) + Len(octets)
      /\ \A i \in 1..(Len(b) + Len(octets)) :
            c[i] = IF i <= Len(b) THEN b[i] ELSE octets[i - Len(b)]
  BY <1>1, ConcatProperties
<1>3. Put(w, octets) = [out |-> c, names |-> w.names, ok |-> w.ok]
  BY DEF Put
<1>4. Put(w, octets).out = c
  BY <1>3
<1> HIDE DEF b, c
<1>5. ASSUME NEW p \in Inside(b) PROVE At(c, p) = At(b, p)
  <2>1. p + 1 \in 1..(Len(b) + Len(octets)) /\ p + 1 <= Len(b)
    BY <1>1 DEF Inside
  <2>. QED  BY <1>2, <2>1 DEF At
<1>6. Extends(c, b)
  BY <1>1, <1>2, <1>5 DEF Extends
<1>7. ASSUME NEW j \in 1..Len(octets) PROVE At(c, Len(b) + j - 1) = octets[j]
  <2> DEFINE i == Len(b) + j
  <2>1. i \in 1..(Len(b) + Len(octets)) /\ ~(i <= Len(b)) /\ i - Len(b) = j
        /\ Len(b) + j - 1 + 1 = i
    BY <1>1
  <2> HIDE DEF i
  <2>. QED  BY <1>2, <2>1 DEF At
<1>. QED  BY <1>2, <1>3, <1>4, <1>6, <1>7 DEF b

\* The writer after the first i labels of a name, at the places of these.
Wrote(w, labels, i, v, place) ==
    LET at == Len(w.out) IN
    /\ v.out \in Seq(Octet) /\ v.ok /\ Extends(v.out, w.out)
    /\ Len(v.out) = Behind(at, labels, place, i)
    /\ \A j \in 1..i :
          /\ place[j] = Behind(at, labels, place, j - 1) /\ place[j] \in Nat
          /\ LabelAt(v.out, place[j], labels[j], at..(Len(v.out) - 1))
          /\ Suffix(labels, j) \in DOMAIN v.names =>
                /\ place[j] <= MaxPointerOffset
                /\ v.names[Suffix(labels, j)] = place[j]
    /\ \A s \in DOMAIN v.names : s \in DOMAIN w.names \/ \E j \in 1..i : s = Suffix(labels, j)
    /\ \A s \in DOMAIN w.names : s \in DOMAIN v.names /\ v.names[s] = w.names[s]

\* What an offset may be remembered for is the whole of what is left.
LEMMA RememberIs ==
    ASSUME NEW v, v.out \in Seq(Octet), NEW s
    PROVE  /\ Remember(v, s).out = v.out /\ Remember(v, s).ok = v.ok
           /\ \A r : r # s => (r \in DOMAIN Remember(v, s).names <=> r \in DOMAIN v.names)
           /\ \A r \in DOMAIN v.names : r # s => Remember(v, s).names[r] = v.names[r]
           /\ s \in DOMAIN Remember(v, s).names =>
                 \/ Len(v.out) <= MaxPointerOffset /\ Remember(v, s).names[s] = Len(v.out)
                 \/ s \in DOMAIN v.names
<1>1. CASE Len(v.out) > MaxPointerOffset
  BY <1>1 DEF Remember
<1>2. CASE ~(Len(v.out) > MaxPointerOffset)
  <2> DEFINE names == Here(v, s)
  <2>1. Remember(v, s) = [out |-> v.out, names |-> names, ok |-> v.ok]
    BY <1>2 DEF Remember
  <2>2. /\ DOMAIN names = {s} \cup DOMAIN v.names
        /\ \A r \in {s} \cup DOMAIN v.names :
              names[r] = IF r = s THEN Len(v.out) ELSE v.names[r]
    BY DEF Here
  <2> HIDE DEF names
  <2>3. Len(v.out) <= MaxPointerOffset
    <3>1. Len(v.out) \in Nat /\ MaxPointerOffset \in Int
      BY PointerAssumption
    <3>. QED  BY <1>2, <3>1
  <2>. QED  BY <2>1, <2>2, <2>3
<1>. QED  BY <1>1, <1>2

\* The next label is put at the writer's offset.
LEMMA LabelWritten ==
    ASSUME NEW w, w.out \in Seq(Octet), NEW labels \in Seq(Label), NEW place,
           NEW i \in Nat, i < Len(labels), NEW v, Wrote(w, labels, i, v, place),
           Suffix(labels, i + 1) \notin DOMAIN w.names, place[i + 1] = Len(v.out)
    PROVE  Wrote(w, labels, i + 1, WriteLabel(v, Suffix(labels, i + 1)), place)
<1> DEFINE at == Len(w.out)
           s == Suffix(labels, i + 1)
           label == labels[i + 1]
           octets == <<Len(label)>> \o label
           r == Remember(v, s)
           x == Put(r, octets)
           p == Len(v.out)
<1>1. /\ i + 1 \in 1..Len(labels) /\ Len(labels) \in Nat /\ i + 1 # 0 /\ (i + 1) - 1 = i
      /\ at \in Nat /\ v.out \in Seq(Octet) /\ p \in Nat /\ v.ok
      /\ p = Behind(at, labels, place, i)
  BY DEF Wrote
<1>2. label \in Label /\ label \in Seq(Octet) /\ Len(label) \in 1..MaxLabelLength
      /\ Len(label) \in Octet /\ Len(label) \in Nat
  <2>1. label \in Label
    BY <1>1
  <2>2. label \in Seq(Octet) /\ Len(label) \in 1..MaxLabelLength
    BY <2>1 DEF Label
  <2>3. \A k \in 1..MaxLabelLength : k \in Octet /\ k \in Nat
    BY LimitAssumption DEF Octet
  <2>. QED  BY <2>1, <2>2, <2>3
<1>3. WriteLabel(v, s) = x
  <2>1. Head(s) = label
    BY <1>1, SuffixIs
  <2>2. ~(~v.ok \/ Len(label) > MaxLabelLength)
    <3>1. \A k \in 1..MaxLabelLength : ~(k > MaxLabelLength)
      BY LimitAssumption
    <3>. QED  BY <1>1, <1>2, <3>1
  <2> HIDE DEF s, label
  <2>. QED  BY <2>1, <2>2 DEF WriteLabel
<1>4. /\ octets \in Seq(Octet) /\ Len(octets) = Len(label) + 1
      /\ octets[1] = Len(label) /\ \A j \in 1..Len(label) : octets[j + 1] = label[j]
  <2> DEFINE one == <<Len(label)>>
  <2>1. one \in Seq(Octet) /\ Len(one) = 1 /\ one[1] = Len(label)
    BY <1>2
  <2> HIDE DEF one, label
  <2>2. /\ one \o label \in Seq(Octet) /\ Len(one \o label) = Len(one) + Len(label)
        /\ \A j \in 1..(Len(one) + Len(label)) :
              (one \o label)[j] = IF j <= Len(one) THEN one[j] ELSE label[j - Len(one)]
    BY <1>2, <2>1, ConcatProperties
  <2>3. (one \o label)[1] = Len(label)
    BY <1>2, <2>1, <2>2
  <2>4. ASSUME NEW j \in 1..Len(label) PROVE (one \o label)[j + 1] = label[j]
    <3>1. j + 1 \in 1..(Len(one) + Len(label)) /\ ~(j + 1 <= Len(one)) /\ (j + 1) - Len(one) = j
      BY <1>2, <2>1
    <3>. QED  BY <2>2, <3>1
  <2>. QED  BY <1>2, <2>1, <2>2, <2>3, <2>4 DEF one
<1>5. /\ r.out = v.out /\ r.ok = v.ok
      /\ \A q : q # s => (q \in DOMAIN r.names <=> q \in DOMAIN v.names)
      /\ \A q \in DOMAIN v.names : q # s => r.names[q] = v.names[q]
      /\ s \in DOMAIN r.names => \/ p <= MaxPointerOffset /\ r.names[s] = p
                                 \/ s \in DOMAIN v.names
  BY <1>1, RememberIs
<1> HIDE DEF r, octets
<1>6. /\ x.out \in Seq(Octet) /\ x.names = r.names /\ x.ok
      /\ Len(x.out) = p + Len(label) + 1 /\ Extends(x.out, v.out)
      /\ \A j \in 1..(Len(label) + 1) : At(x.out, p + j - 1) = octets[j]
  <2>1. r.out \in Seq(Octet)
    BY <1>1, <1>5
  <2>2. /\ x.out \in Seq(Octet) /\ x.names = r.names /\ x.ok = r.ok
        /\ Len(x.out) = Len(r.out) + Len(octets) /\ Extends(x.out, r.out)
        /\ \A j \in 1..Len(octets) : At(x.out, Len(r.out) + j - 1) = octets[j]
    <3>1. octets \in Seq(Octet)
      BY <1>4
    <3>2. /\ Put(r, octets).out \in Seq(Octet)
          /\ Put(r, octets).names = r.names /\ Put(r, octets).ok = r.ok
          /\ Len(Put(r, octets).out) = Len(r.out) + Len(octets)
          /\ Extends(Put(r, octets).out, r.out)
          /\ \A j \in 1..Len(octets) :
                At(Put(r, octets).out, Len(r.out) + j - 1) = octets[j]
      BY <2>1, <3>1, PutIs, Zenon
    <3>. QED  BY <3>2
  <2> HIDE DEF x
  <2>3. Len(octets) = Len(label) + 1 /\ r.out = v.out /\ r.ok = v.ok
    BY <1>4, <1>5
  <2>4. Len(x.out) = p + Len(label) + 1
    <3>1. Len(x.out) = p + (Len(label) + 1)
      BY <2>2, <2>3
    <3>2. p \in Nat /\ Len(label) \in Nat
      BY <1>1, <1>2
    <3> HIDE DEF p, label
    <3>. QED  BY <3>1, <3>2
  <2>5. \A j \in 1..(Len(label) + 1) : At(x.out, p + j - 1) = octets[j]
    BY <2>2, <2>3
  <2>. QED  BY <1>1, <2>2, <2>3, <2>4, <2>5
<1> HIDE DEF x, label, s
<1>7. Len(x.out) \in Nat /\ Len(x.out) = Behind(at, labels, place, i + 1)
  <2>1. Behind(at, labels, place, i + 1) = p + 1 + Len(label)
    BY <1>1 DEF Behind, label
  <2>. QED  BY <1>1, <1>2, <1>6, <2>1
<1>8. Extends(v.out, w.out) /\ Extends(x.out, w.out) /\ at <= p
  BY <1>1, <1>6 DEF Extends, Inside, Wrote
<1>9. LabelAt(x.out, p, label, at..(Len(x.out) - 1))
  <2>1. p \in at..(Len(x.out) - 1)
    BY <1>1, <1>2, <1>6, <1>8
  <2>2. At(x.out, p) = Len(label)
    <3>1. 1 \in 1..(Len(label) + 1) /\ p + 1 - 1 = p
      BY <1>1, <1>2
    <3>. QED  BY <1>4, <1>6, <3>1
  <2>3. ASSUME NEW j \in 1..Len(label)
        PROVE  p + j \in at..(Len(x.out) - 1) /\ At(x.out, p + j) = label[j]
    <3>1. /\ at \in Nat /\ p \in Nat /\ at <= p /\ Len(label) \in Nat
          /\ Len(x.out) = p + Len(label) + 1
      BY <1>1, <1>2, <1>6, <1>8
    <3> HIDE DEF at, p
    <3>2. j + 1 \in 1..(Len(label) + 1) /\ p + (j + 1) - 1 = p + j
      BY <3>1
    <3>3. p + j \in at..(Len(x.out) - 1)
      BY <3>1
    <3>. QED  BY <1>4, <1>6, <3>2, <3>3 DEF p
  <2>. QED  BY <2>1, <2>2, <2>3 DEF LabelAt
<1>10. ASSUME NEW j \in 1..i
       PROVE  /\ place[j] = Behind(at, labels, place, j - 1) /\ place[j] \in Nat
              /\ LabelAt(v.out, place[j], labels[j], at..(p - 1))
              /\ Suffix(labels, j) \in DOMAIN v.names =>
                    place[j] <= MaxPointerOffset /\ v.names[Suffix(labels, j)] = place[j]
  BY DEF Wrote
<1>11. ASSUME NEW j \in 1..i PROVE LabelAt(x.out, place[j], labels[j], at..(Len(x.out) - 1))
  <2>1. LabelAt(v.out, place[j], labels[j], at..(p - 1))
    BY <1>10
  <2>2. \A q \in at..(p - 1) : q \in at..(Len(x.out) - 1) /\ At(x.out, q) = At(v.out, q)
    BY <1>1, <1>2, <1>6 DEF Extends, Inside
  <2>. QED  BY <2>1, <2>2 DEF LabelAt
<1>12. \A j \in 1..i : Suffix(labels, j) # s
  <2>1. ASSUME NEW j \in 1..i PROVE Len(Suffix(labels, j)) # Len(s)
    <3>1. j \in 1..Len(labels) /\ j # i + 1
      BY <1>1
    <3>2. Len(Suffix(labels, j)) = Len(labels) - j + 1
      BY <3>1, SuffixIs
    <3>3. Len(s) = Len(labels) - (i + 1) + 1
      BY <1>1, SuffixIs DEF s
    <3>. QED  BY <1>1, <3>1, <3>2, <3>3
  <2>. QED  BY <2>1
<1>13. s \notin DOMAIN v.names
  <2>1. s \notin DOMAIN w.names
    BY DEF s
  <2>. QED  BY <1>12, <2>1 DEF Wrote
<1>14. ASSUME NEW j \in 1..(i + 1)
       PROVE  /\ place[j] = Behind(at, labels, place, j - 1) /\ place[j] \in Nat
              /\ LabelAt(x.out, place[j], labels[j], at..(Len(x.out) - 1))
              /\ Suffix(labels, j) \in DOMAIN x.names =>
                    place[j] <= MaxPointerOffset /\ x.names[Suffix(labels, j)] = place[j]
  <2>1. CASE j = i + 1
    BY <1>1, <1>5, <1>6, <1>9, <1>13, <2>1 DEF s, label
  <2>2. CASE j # i + 1
    <3>1. j \in 1..i
      BY <2>2
    <3>2. Suffix(labels, j) # s
      BY <1>12, <3>1
    <3>. QED  BY <1>5, <1>6, <1>10, <1>11, <3>1, <3>2
  <2>. QED  BY <2>1, <2>2
<1>15. ASSUME NEW q \in DOMAIN x.names
       PROVE  q \in DOMAIN w.names \/ \E j \in 1..(i + 1) : q = Suffix(labels, j)
  <2>1. CASE q = s
    BY <1>1, <2>1 DEF s
  <2>2. CASE q # s
    <3>1. q \in DOMAIN w.names \/ \E j \in 1..i : q = Suffix(labels, j)
      BY <1>5, <1>6, <2>2 DEF Wrote
    <3>. QED  BY <3>1
  <2>. QED  BY <2>1, <2>2
<1>16. ASSUME NEW q \in DOMAIN w.names PROVE q \in DOMAIN x.names /\ x.names[q] = w.names[q]
  <2>1. q # s /\ q \in DOMAIN v.names /\ v.names[q] = w.names[q]
    BY DEF Wrote, s
  <2>. QED  BY <1>5, <1>6, <2>1
<1>17. Wrote(w, labels, i + 1, x, place)
  BY <1>6, <1>7, <1>8, <1>14, <1>15, <1>16 DEF Wrote
<1>. QED  BY <1>3, <1>17 DEF s

\* The writers after each of the first n labels.
Labels(w, labels, n, v) ==
    v = [i \in 0..n |-> IF i = 0 THEN w ELSE WriteLabel(v[i - 1], Suffix(labels, i))]

LEMMA LabelsExist ==
    ASSUME NEW w, NEW labels, NEW n \in Nat
    PROVE  \E v : Labels(w, labels, n, v)
<1> DEFINE T == {m \in Nat : ~\E v : Labels(w, labels, m, v)}
<1>1. SUFFICES ASSUME T # {} PROVE FALSE
  OBVIOUS
<1>2. PICK m \in T : \A j \in T : m <= j
  BY <1>1, LeastNumber
<1>3. CASE m = 0
  <2> DEFINE f == [k \in 0..0 |-> w]
  <2>1. Labels(w, labels, 0, f)
    BY DEF Labels
  <2>. QED  BY <1>2, <1>3, <2>1
<1>4. CASE m # 0
  <2>1. m - 1 \in Nat /\ m - 1 \notin T
    BY <1>2, <1>4
  <2>2. PICK g : Labels(w, labels, m - 1, g)
    BY <2>1
  <2> DEFINE f == [k \in 0..m |-> IF k < m THEN g[k]
                                  ELSE WriteLabel(g[m - 1], Suffix(labels, m))]
  <2>3. \A k \in 0..(m - 1) : f[k] = g[k]
    BY <1>2
  <2>4. \A k \in 0..(m - 1) :
           g[k] = IF k = 0 THEN w ELSE WriteLabel(g[k - 1], Suffix(labels, k))
    BY <2>2 DEF Labels
  <2>5. ASSUME NEW k \in 0..m
        PROVE f[k] = IF k = 0 THEN w ELSE WriteLabel(f[k - 1], Suffix(labels, k))
    <3>1. CASE k = m
      BY <1>2, <1>4, <2>3, <3>1
    <3>2. CASE k # m
      <4>1. k \in 0..(m - 1) /\ f[k] = g[k]
        BY <3>2, <2>3, <1>2
      <4>2. k # 0 => k - 1 \in 0..(m - 1) /\ f[k - 1] = g[k - 1]
        BY <4>1, <2>3, <1>2
      <4> HIDE DEF f
      <4>. QED  BY <4>1, <4>2, <2>4
    <3>. QED  BY <3>1, <3>2
  <2>6. f = [k \in 0..m |-> f[k]]
    OBVIOUS
  <2> HIDE DEF f
  <2>7. Labels(w, labels, m, f)
    BY <2>5, <2>6 DEF Labels
  <2>. QED  BY <2>7, <1>2
<1>. QED  BY <1>3, <1>4

LEMMA AllWritten ==
    ASSUME NEW w, w.out \in Seq(Octet), w.ok, NEW labels \in Seq(Label),
           NEW n \in 0..Len(labels), \A j \in 1..n : Suffix(labels, j) \notin DOMAIN w.names,
           NEW v, Labels(w, labels, n, v)
    PROVE  Wrote(w, labels, n, v[n], [j \in 1..n |-> Len(v[j - 1].out)])
<1> DEFINE place == [j \in 1..n |-> Len(v[j - 1].out)]
           T == {m \in 0..n : ~Wrote(w, labels, m, v[m], place)}
<1>1. SUFFICES ASSUME T # {} PROVE FALSE
  <2>1. n \in T \/ Wrote(w, labels, n, v[n], place)
    OBVIOUS
  <2>. QED  BY <2>1
<1>2. PICK m \in T : \A j \in T : m <= j
  <2>1. T \in SUBSET Nat
    OBVIOUS
  <2>. QED  BY <1>1, <2>1, LeastNumber
<1>3. /\ Len(labels) \in Nat /\ n \in Nat /\ m \in 0..n
      /\ v[m] = IF m = 0 THEN w ELSE WriteLabel(v[m - 1], Suffix(labels, m))
      /\ ~Wrote(w, labels, m, v[m], place)
  BY <1>2 DEF Labels
<1>4. \A j \in 1..n : place[j] = Len(v[j - 1].out)
  OBVIOUS
<1>5. m - 1 \in 0..n => Wrote(w, labels, m - 1, v[m - 1], place)
  <2>1. m - 1 \notin T
    <3> HIDE DEF T
    <3>. QED  BY <1>2, <1>3
  <2>. QED  BY <2>1
<1> HIDE DEF place, T
<1>6. CASE m = 0
  <2>1. v[0] = w
    BY <1>3, <1>6
  <2>2. Extends(w.out, w.out)
    BY DEF Extends
  <2>3. Wrote(w, labels, 0, w, place)
    BY <2>2 DEF Wrote, Behind
  <2>. QED  BY <1>3, <1>6, <2>1, <2>3
<1>7. CASE m # 0
  <2> DEFINE i == m - 1
  <2>1. i \in 0..n /\ i \in Nat /\ i < Len(labels) /\ i + 1 = m /\ m \in 1..n
    BY <1>3, <1>7
  <2>2. place[m] = Len(v[i].out) /\ Suffix(labels, m) \notin DOMAIN w.names
    BY <1>4, <2>1
  <2>3. Wrote(w, labels, i, v[i], place)
    BY <1>5, <2>1
  <2> HIDE DEF i
  <2>4. Wrote(w, labels, i + 1, WriteLabel(v[i], Suffix(labels, i + 1)), place)
    BY <2>1, <2>2, <2>3, LabelWritten
  <2>. QED  BY <1>3, <1>7, <2>1, <2>4 DEF i
<1>. QED  BY <1>6, <1>7

\* Labels up to the first suffix the table has, then a pointer to it, or else the end.
LEMMA WriteNameIs ==
    ASSUME NEW w, NEW labels \in Seq(Label)
    PROVE  \E own \in 0..Len(labels) : \E v :
              /\ Labels(w, labels, own, v)
              /\ \A j \in 1..own : Suffix(labels, j) \notin DOMAIN w.names
              /\ \/ own = Len(labels) /\ WriteName(w, labels) = Put(v[own], <<0>>)
                 \/ /\ own < Len(labels) /\ Suffix(labels, own + 1) \in DOMAIN w.names
                    /\ WriteName(w, labels) =
                          Put(v[own], PointerTo(w.names[Suffix(labels, own + 1)]))
<1> DEFINE known == {i \in DOMAIN labels : SubSeq(labels, i, Len(labels)) \in DOMAIN w.names}
           own == IF known = {} THEN Len(labels) ELSE Min(known) - 1
           v == CHOOSE v : v = [i \in 0..own |-> IF i = 0 THEN w
                              ELSE WriteLabel(v[i - 1], SubSeq(labels, i, Len(labels)))]
<1>1. WriteName(w, labels) =
         IF known = {} THEN Put(v[own], <<0>>)
         ELSE Put(v[own], PointerTo(w.names[SubSeq(labels, own + 1, Len(labels))]))
  BY DEF WriteName
<1> HIDE DEF v
<1>2. own \in Nat => Labels(w, labels, own, v)
  <2> HIDE DEF own
  <2>1. SUFFICES ASSUME own \in Nat PROVE Labels(w, labels, own, v)
    OBVIOUS
  <2>2. \E f : Labels(w, labels, own, f)
    BY <2>1, LabelsExist
  <2>. QED  BY <2>2 DEF v, Labels, Suffix
<1>3. Len(labels) \in Nat /\ DOMAIN labels = 1..Len(labels)
      /\ known = {i \in 1..Len(labels) : Suffix(labels, i) \in DOMAIN w.names}
  BY DEF Suffix
<1>4. CASE known = {}
  <2>1. own = Len(labels) /\ own \in 0..Len(labels)
    BY <1>3, <1>4
  <2>2. \A j \in 1..own : Suffix(labels, j) \notin DOMAIN w.names
    BY <1>3, <1>4, <2>1
  <2>. QED  BY <1>1, <1>2, <1>3, <1>4, <2>1, <2>2
<1>5. CASE known # {}
  <2>1. \E m \in known : \A j \in known : m <= j
    <3>1. known \in SUBSET Nat
      BY <1>3
    <3>. QED  BY <1>5, <3>1, LeastNumber
  <2>2. Min(known) \in known /\ \A j \in known : Min(known) <= j
    BY <2>1 DEF Min
  <2> DEFINE m == Min(known)
  <2>3. m \in 1..Len(labels) /\ Suffix(labels, m) \in DOMAIN w.names
        /\ \A j \in 1..Len(labels) : Suffix(labels, j) \in DOMAIN w.names => m <= j
    BY <1>3, <2>2
  <2>4. own = m - 1
    BY <1>5
  <2> HIDE DEF m, known, own
  <2>5. own \in 0..Len(labels) /\ own < Len(labels) /\ own + 1 = m /\ own \in Nat
    BY <1>3, <2>3, <2>4
  <2>6. ASSUME NEW j \in 1..own PROVE Suffix(labels, j) \notin DOMAIN w.names
    BY <1>3, <2>3, <2>5
  <2>7. WriteName(w, labels) = Put(v[own], PointerTo(w.names[Suffix(labels, own + 1)]))
    BY <1>1, <1>5 DEF Suffix
  <2>. QED  BY <1>2, <2>3, <2>5, <2>6, <2>7
<1>. QED  BY <1>4, <1>5

\* What a writer has written stays sound, whatever else is put or patched elsewhere.
LEMMA StaysSound ==
    ASSUME NEW w, NEW F, Sound(w, F), NEW x, NEW G, x.out \in Seq(Octet), x.names = w.names,
           F \subseteq G, G \subseteq Inside(x.out), \A p \in F : At(x.out, p) = At(w.out, p)
    PROVE  Sound(x, G)
<1>1. ASSUME NEW s \in DOMAIN w.names
      PROVE  Stands(x.out, w.names[s], s, G)
  <2>1. PICK place : Way(w.out, w.names[s], s, place, F) /\ place[1] = w.names[s]
    BY DEF Sound, Stands
  <2>2. Way(x.out, w.names[s], s, place, G)
    BY <2>1, WayStays
  <2>. QED  BY <2>1, <2>2 DEF Stands
<1>. QED  BY <1>1 DEF Sound

\* Where the table leads to: below the writer.
LEMMA SoundNames ==
    ASSUME NEW w, NEW F, Sound(w, F), NEW s \in DOMAIN w.names
    PROVE  w.names[s] \in Nat /\ w.names[s] < Len(w.out) /\ w.names[s] <= MaxPointerOffset
<1>1. w.names[s] \in 0..MaxPointerOffset /\ s \in Seq(Label) \ {<<>>}
  BY DEF Sound
<1>2. PICK place : Way(w.out, w.names[s], s, place, F) /\ place[1] = w.names[s]
  BY DEF Sound, Stands
<1>3. 1 \in 1..Len(s)
  <2>1. Len(s) \in Nat /\ Len(s) # 0
    BY <1>1, EmptySeq
  <2>. QED  BY <2>1
<1>4. w.names[s] \in F
  <2>1. LabelAt(w.out, place[1], s[1], F)
    BY <1>2, <1>3 DEF Way
  <2>2. place[1] \in F
    BY <2>1 DEF LabelAt
  <2>. QED  BY <1>2, <2>2
<1>5. w.out \in Seq(Octet) /\ F \subseteq Inside(w.out)
  BY DEF Sound
<1>6. PICK n \in Nat : Len(w.out) = n
  BY <1>5
<1>7. w.names[s] \in 0..(n - 1)
  BY <1>4, <1>5, <1>6 DEF Inside
<1>8. MaxPointerOffset \in Nat
  BY PointerAssumption
<1>. QED  BY <1>1, <1>6, <1>7, <1>8

\* A pointer's two octets are read as the offset they were written for.
LEMMA PointerRead ==
    ASSUME NEW t \in 0..MaxPointerOffset
    PROVE  /\ PointerTo(t) \in Seq(Octet) /\ Len(PointerTo(t)) = 2
           /\ PointerTo(t)[1] >= 192
           /\ (PointerTo(t)[1] - 192) * 256 + PointerTo(t)[2] = t
<1>1. MaxPointerOffset \in Nat /\ MaxPointerOffset <= 16383 /\ t \in Nat
      /\ t <= MaxPointerOffset
  BY PointerAssumption
<1>2. t % (MaxPointerOffset + 1) = t
  BY <1>1
<1>3. t <= 16383
  BY <1>1
<1> DEFINE q == t \div 256
           r == t % 256
<1>4. q \in Int /\ r \in Int /\ 0 <= r /\ r <= 255 /\ t = q * 256 + r
  BY <1>1
<1>5. PointerTo(t) = <<192 + q, r>>
  BY <1>2 DEF PointerTo
<1> HIDE DEF q, r
<1>6. 0 <= q /\ q <= 63
  BY <1>1, <1>3, <1>4
<1>7. 192 + q \in Octet /\ r \in Octet /\ 192 + q >= 192 /\ ((192 + q) - 192) * 256 + r = t
  BY <1>4, <1>6 DEF Octet
<1>. QED  BY <1>5, <1>7

\* The offsets of a name that was written: those it shares, and its own.
Fixed(w, labels, F) == F \cup (Len(w.out)..(Len(WriteName(w, labels).out) - 1))

\* The name is there, its first labels at the places given.
Placed(b, at, labels, own, ps, end, F) ==
    \E place : /\ Way(b, at, labels, place, F) /\ EndsAt(at, labels, place, end)
               /\ \A j \in 1..own : place[j] = ps[j]

\* Its first labels are there, one behind the other up to p.
Begun(b, at, labels, own, ps, p, F) ==
    /\ p = Behind(at, labels, ps, own) /\ at <= p
    /\ \A j \in 1..own : /\ ps[j] = Behind(at, labels, ps, j - 1) /\ ps[j] \in Nat
                         /\ at <= ps[j] /\ LabelAt(b, ps[j], labels[j], F)

\* The octets at F are still what they were.
Keeps(c, b, F) == \A p \in F : At(c, p) = At(b, p)

\* A name that ends in a pointer: its own labels, then the places of the rest.
LEMMA PointsBack ==
    ASSUME NEW b, NEW c, NEW at \in Nat, NEW labels \in Seq(Label), NEW own \in 0..Len(labels),
           own < Len(labels), NEW ps, NEW tp, NEW t \in Nat, NEW F, NEW G, NEW p \in Nat,
           Way(b, t, Suffix(labels, own + 1), tp, F), tp[1] = t, t < at,
           F \subseteq G, Keeps(c, b, F), Begun(c, at, labels, own, ps, p, G),
           p \in G, p + 1 \in G, PointsTo(c, p, t)
    PROVE  Placed(c, at, labels, own, ps, p + 2, G)
<1> DEFINE n == Len(labels)
           s == Suffix(labels, own + 1)
           m == n - own
           place == [j \in 1..(n + 1) |-> IF j <= own THEN ps[j] ELSE tp[j - own]]
<1>0. /\ p = Behind(at, labels, ps, own) /\ at <= p
      /\ \A j \in 1..own : /\ ps[j] = Behind(at, labels, ps, j - 1) /\ ps[j] \in Nat
                           /\ at <= ps[j] /\ LabelAt(c, ps[j], labels[j], G)
      /\ \A q \in F : At(c, q) = At(b, q)
  BY DEF Begun, Keeps
<1>1. n \in Nat /\ own \in Nat /\ own + 1 \in 1..n /\ m \in Nat /\ m >= 1 /\ own < n
      /\ n = own + m /\ own + 1 <= n
  OBVIOUS
<1>2. Len(s) = m /\ \A j \in 1..m : s[j] = labels[own + j]
  <2>1. /\ Len(s) = Len(labels) - (own + 1) + 1
        /\ \A j \in 1..(Len(labels) - (own + 1) + 1) : s[j] = labels[(own + 1) + j - 1]
    BY <1>1, SuffixIs
  <2> HIDE DEF s
  <2>2. Len(labels) - (own + 1) + 1 = m /\ \A j \in 1..m : (own + 1) + j - 1 = own + j
    BY <1>1
  <2>. QED  BY <2>1, <2>2
<1>3. \A j \in 1..own : place[j] = ps[j]
  BY <1>1
<1>4. \A j \in 1..(m + 1) : place[own + j] = tp[j]
  <2>1. ASSUME NEW j \in 1..(m + 1) PROVE place[own + j] = tp[j]
    <3>1. own + j \in 1..(n + 1) /\ ~(own + j <= own) /\ (own + j) - own = j
      BY <1>1
    <3>. QED  BY <3>1
  <2>. QED  BY <2>1
<1>5. place = [j \in 1..(n + 1) |-> place[j]]
  OBVIOUS
<1> HIDE DEF place, s, m, n
<1>6. Way(c, t, s, tp, G)
  BY <1>0, WayStays DEF s
<1>7. /\ \A j \in 1..(m + 1) : tp[j] \in Nat
      /\ \A j \in 1..m : LabelAt(c, tp[j], s[j], G)
      /\ tp[m + 1] \in G /\ At(c, tp[m + 1]) = 0
      /\ \A j \in 0..m : LeadsOn(c, t, s, tp, j, G)
  BY <1>2, <1>6 DEF Way
<1>8. ASSUME NEW j \in 1..(n + 1), ~(j \in 1..own)
      PROVE  j - own \in 1..(m + 1) /\ j = own + (j - own) /\ place[j] = tp[j - own]
  <2>1. j - own \in 1..(m + 1) /\ j = own + (j - own)
    BY <1>1, <1>8
  <2>. QED  BY <1>4, <2>1
<1>9. place \in [1..(n + 1) -> Nat]
  <2>1. \A j \in 1..(n + 1) : place[j] \in Nat
    BY <1>0, <1>3, <1>7, <1>8
  <2>. QED  BY <1>5, <2>1
<1>10. ASSUME NEW j \in 1..n PROVE LabelAt(c, place[j], labels[j], G)
  <2>1. CASE j \in 1..own
    BY <1>0, <1>3, <2>1
  <2>2. CASE ~(j \in 1..own)
    <3>1. j \in 1..(n + 1)
      BY <1>1
    <3>2. j - own \in 1..m /\ place[j] = tp[j - own] /\ j = own + (j - own)
      BY <1>1, <1>8, <2>2, <3>1
    <3>3. s[j - own] = labels[j]
      BY <1>2, <3>2
    <3>. QED  BY <1>7, <3>2, <3>3
  <2>. QED  BY <2>1, <2>2
<1>11. place[n + 1] \in G /\ At(c, place[n + 1]) = 0
  <2>1. m + 1 \in 1..(m + 1) /\ n + 1 = own + (m + 1)
    BY <1>1
  <2>2. place[n + 1] = tp[m + 1]
    BY <1>4, <2>1
  <2>. QED  BY <1>7, <2>2
<1>12. place[own + 1] = t
  <2>1. 1 \in 1..(m + 1)
    BY <1>1
  <2>. QED  BY <1>4, <2>1
<1>13. ASSUME NEW k \in 0..own PROVE Behind(at, labels, place, k) = Behind(at, labels, ps, k)
  BY <1>1, <1>3 DEF Behind
<1>14. Behind(at, labels, place, own) = p
  BY <1>0, <1>1, <1>13
<1>15. ASSUME NEW k \in 0..(own - 1)
       PROVE  k + 1 \in 1..own /\ place[k + 1] = Behind(at, labels, place, k)
  <2>1. k + 1 \in 1..own /\ (k + 1) - 1 = k /\ k \in 0..own
    BY <1>1
  <2>. QED  BY <1>0, <1>3, <1>13, <2>1
<1>16. \A j \in 1..own : place[own + 1] < place[j]
  <2>1. ASSUME NEW j \in 1..own PROVE t < place[j]
    <3>1. place[j] = ps[j] /\ ps[j] \in Nat /\ at <= ps[j]
      BY <1>0, <1>3
    <3>. QED  BY <3>1
  <2>. QED  BY <1>12, <2>1
<1>17. LeadsOn(c, at, labels, place, own, G)
  BY <1>1, <1>12, <1>14, <1>16 DEF LeadsOn, n
<1>18. ASSUME NEW k \in (own + 1)..n PROVE LeadsOn(c, at, labels, place, k, G)
  <2> DEFINE i == k - own
             q == Behind(t, s, tp, i)
  <2>1. i \in 1..m /\ i \in 0..m /\ i # 0 /\ k = own + i /\ k # 0 /\ i \in 1..(m + 1)
        /\ i + 1 \in 1..(m + 1) /\ k + 1 = own + (i + 1) /\ (k = n <=> i = m)
    BY <1>1
  <2> HIDE DEF i
  <2>2. place[k] = tp[i] /\ place[k + 1] = tp[i + 1] /\ s[i] = labels[k]
    BY <1>2, <1>4, <2>1
  <2>3. Behind(at, labels, place, k) = q
    BY <2>1, <2>2 DEF Behind
  <2>4. LeadsOn(c, t, s, tp, i, G)
    BY <1>7, <2>1
  <2> HIDE DEF q
  <2>5. CASE tp[i + 1] = q
    BY <2>2, <2>3, <2>5 DEF LeadsOn
  <2>6. CASE tp[i + 1] # q
    <3>1. /\ i # Len(s) /\ q \in G /\ q + 1 \in G /\ PointsTo(c, q, tp[i + 1])
          /\ tp[i + 1] < t /\ \A j \in 1..i : tp[i + 1] < tp[j]
      BY <2>4, <2>6 DEF LeadsOn, q
    <3>2. tp[i + 1] \in Nat
      BY <1>7, <2>1
    <3>3. ASSUME NEW j \in 1..k PROVE tp[i + 1] < place[j]
      <4>1. CASE j \in 1..own
        <5>1. place[j] \in Nat /\ at <= place[j]
          BY <1>0, <1>3, <4>1
        <5>. QED  BY <3>1, <3>2, <5>1
      <4>2. CASE ~(j \in 1..own)
        <5>1. j \in 1..(n + 1)
          BY <1>1, <2>1
        <5>2. place[j] = tp[j - own] /\ j - own \in 1..i
          BY <1>1, <1>8, <2>1, <4>2, <5>1
        <5>. QED  BY <3>1, <5>2
      <4>. QED  BY <4>1, <4>2
    <3>4. tp[i + 1] < at
      BY <3>1, <3>2
    <3>5. k # Len(labels)
      BY <1>2, <2>1, <3>1 DEF n
    <3>. QED  BY <2>2, <2>3, <3>1, <3>3, <3>4, <3>5 DEF LeadsOn
  <2>. QED  BY <2>5, <2>6
<1>19. ASSUME NEW k \in 0..n PROVE LeadsOn(c, at, labels, place, k, G)
  <2>1. CASE k \in 0..(own - 1)
    BY <1>15, <2>1 DEF LeadsOn
  <2>2. CASE k = own
    BY <1>17, <2>2
  <2>3. CASE k \in (own + 1)..n
    BY <1>18, <2>3
  <2>. QED  BY <1>1, <2>1, <2>2, <2>3
<1>20. Way(c, at, labels, place, G)
  BY <1>9, <1>10, <1>11, <1>19 DEF Way, n
<1>21. place[own + 1] # Behind(at, labels, place, own)
  BY <1>0, <1>12, <1>14
<1>22. EndsAt(at, labels, place, p + 2)
  <2>1. ASSUME NEW k \in (own + 1)..(n + 1) PROVE ~Straight(at, labels, place, k)
    <3>1. own \in 0..(k - 1)
      BY <1>1
    <3>. QED  BY <1>21, <3>1 DEF Straight
  <2>2. ~Straight(at, labels, place, n + 1)
    BY <1>1, <2>1
  <2>3. ASSUME NEW k \in 0..n, Straight(at, labels, place, k),
               place[k + 1] # Behind(at, labels, place, k)
        PROVE  p + 2 = Behind(at, labels, place, k) + 2
    <3>1. ~(k \in (own + 1)..(n + 1))
      BY <2>1, <2>3
    <3>2. ~(k \in 0..(own - 1))
      BY <1>15, <2>3
    <3>3. k = own
      BY <1>1, <3>1, <3>2
    <3>. QED  BY <1>14, <3>3
  <2>. QED  BY <2>2, <2>3 DEF EndsAt, n
<1>. QED  BY <1>3, <1>20, <1>22 DEF Placed

\* A name that ends in its own end.
LEMMA WrittenOut ==
    ASSUME NEW c, NEW at \in Nat, NEW labels \in Seq(Label), NEW ps, NEW G, NEW p \in Nat,
           Begun(c, at, labels, Len(labels), ps, p, G), p \in G, At(c, p) = 0
    PROVE  Placed(c, at, labels, Len(labels), ps, p + 1, G)
<1> DEFINE n == Len(labels)
           place == [j \in 1..(n + 1) |-> IF j <= n THEN ps[j] ELSE p]
<1>0. /\ p = Behind(at, labels, ps, n)
      /\ \A j \in 1..n : /\ ps[j] = Behind(at, labels, ps, j - 1) /\ ps[j] \in Nat
                         /\ LabelAt(c, ps[j], labels[j], G)
  BY DEF Begun
<1>1. n \in Nat
  OBVIOUS
<1>2. place = [j \in 1..(n + 1) |-> place[j]]
  OBVIOUS
<1>3. (\A j \in 1..n : place[j] = ps[j]) /\ place[n + 1] = p
  BY <1>1
<1> HIDE DEF place, n
<1>4. place \in [1..(n + 1) -> Nat]
  <2>1. ASSUME NEW j \in 1..(n + 1) PROVE place[j] \in Nat
    <3>1. CASE j \in 1..n
      BY <1>0, <1>3, <3>1
    <3>2. CASE j = n + 1
      BY <1>3, <3>2
    <3>. QED  BY <1>1, <3>1, <3>2
  <2>. QED  BY <1>2, <2>1
<1>5. ASSUME NEW k \in 0..n PROVE Behind(at, labels, place, k) = Behind(at, labels, ps, k)
  BY <1>1, <1>3 DEF Behind
<1>6. ASSUME NEW k \in 0..n PROVE place[k + 1] = Behind(at, labels, place, k)
  <2>1. CASE k = n
    BY <1>0, <1>1, <1>3, <1>5, <2>1
  <2>2. CASE k # n
    <3>1. k + 1 \in 1..n /\ (k + 1) - 1 = k
      BY <1>1, <2>2
    <3>. QED  BY <1>0, <1>3, <1>5, <3>1
  <2>. QED  BY <2>1, <2>2
<1>7. Way(c, at, labels, place, G)
  <2>1. \A k \in 1..n : LabelAt(c, place[k], labels[k], G)
    BY <1>0, <1>3
  <2>2. \A k \in 0..n : LeadsOn(c, at, labels, place, k, G)
    BY <1>6 DEF LeadsOn
  <2>. QED  BY <1>3, <1>4, <2>1, <2>2 DEF Way, n
<1>8. EndsAt(at, labels, place, p + 1)
  BY <1>3, <1>6 DEF EndsAt, n
<1>. QED  BY <1>3, <1>7, <1>8 DEF n, Placed

\* Of what was written, the labels' places are at or behind the writer's.
LEMMA WrotePlaces ==
    ASSUME NEW w, w.out \in Seq(Octet), NEW labels \in Seq(Label), NEW n \in 0..Len(labels),
           NEW v, NEW ps, Wrote(w, labels, n, v, ps)
    PROVE  /\ \A j \in 1..n : ps[j] \in Nat /\ Len(w.out) <= ps[j] /\ ps[j] < Len(v.out)
           /\ v.out \in Seq(Octet) /\ Len(v.out) \in Nat /\ Len(w.out) <= Len(v.out)
<1> DEFINE at == Len(w.out)
<1>1. at \in Nat /\ v.out \in Seq(Octet) /\ Len(v.out) \in Nat /\ at <= Len(v.out)
  BY DEF Wrote, Extends
<1>2. ASSUME NEW j \in 1..n PROVE ps[j] \in Nat /\ ps[j] \in at..(Len(v.out) - 1)
  BY DEF Wrote, LabelAt
<1> HIDE DEF at
<1>3. ASSUME NEW j \in 1..n PROVE ps[j] \in Nat /\ at <= ps[j] /\ ps[j] < Len(v.out)
  BY <1>1, <1>2
<1>. QED  BY <1>1, <1>3 DEF at

\* The offsets written since the writer was at one, and those before at F.
OwnAnd(G, F, at, x) == G = F \cup (at..(Len(x.out) - 1))

\* The writer's table is sound again once the name is whole.
LEMMA TableStaysSound ==
    ASSUME NEW w, NEW F, Sound(w, F), NEW labels \in Seq(Label), NEW own \in 0..Len(labels),
           NEW v, NEW ps, Wrote(w, labels, own, v, ps),
           NEW x, x.out \in Seq(Octet), x.names = v.names, Extends(x.out, v.out),
           NEW at \in Nat, Len(w.out) = at, NEW G, OwnAnd(G, F, at, x),
           NEW end, Placed(x.out, at, labels, own, ps, end, G)
    PROVE  Sound(x, G)
<1>0. PICK place : /\ Way(x.out, at, labels, place, G)
                   /\ \A j \in 1..own : place[j] = ps[j]
  BY DEF Placed
<1>1. /\ v.out \in Seq(Octet) /\ Len(v.out) \in Nat /\ at <= Len(v.out)
      /\ w.out \in Seq(Octet) /\ F \subseteq Inside(w.out)
  <2>1. w.out \in Seq(Octet) /\ F \subseteq Inside(w.out)
    BY DEF Sound
  <2>2. v.out \in Seq(Octet) /\ Len(v.out) \in Nat /\ Len(w.out) <= Len(v.out)
    BY <2>1, WrotePlaces
  <2>. QED  BY <2>1, <2>2
<1>2. Len(x.out) \in Nat /\ Len(v.out) <= Len(x.out) /\ at <= Len(x.out)
  <2>1. Len(x.out) \in Nat /\ Len(v.out) <= Len(x.out)
    BY DEF Extends
  <2>. QED  BY <1>1, <2>1
<1>3. ASSUME NEW p \in F PROVE At(x.out, p) = At(w.out, p)
  <2>1. p \in Inside(w.out) /\ p \in Inside(v.out)
    BY <1>1 DEF Inside
  <2>2. At(v.out, p) = At(w.out, p)
    BY <2>1 DEF Wrote, Extends
  <2>3. At(x.out, p) = At(v.out, p)
    BY <2>1 DEF Extends
  <2>. QED  BY <2>2, <2>3
<1>4. G \subseteq Inside(x.out) /\ F \subseteq G
  <2>1. ASSUME NEW p \in F PROVE p \in Inside(x.out)
    BY <1>1, <1>2 DEF Inside
  <2>2. ASSUME NEW p \in at..(Len(x.out) - 1) PROVE p \in Inside(x.out)
    BY <1>2 DEF Inside
  <2>. QED  BY <2>1, <2>2 DEF OwnAnd
<1>5. ASSUME NEW s \in DOMAIN w.names
      PROVE  /\ s \in Seq(Label) \ {<<>>} /\ x.names[s] \in 0..MaxPointerOffset
             /\ Stands(x.out, x.names[s], s, G)
  <2>1. x.names[s] = w.names[s]
    BY DEF Wrote
  <2>2. PICK q : Way(w.out, w.names[s], s, q, F) /\ q[1] = w.names[s]
    BY DEF Sound, Stands
  <2>3. Way(x.out, w.names[s], s, q, G)
    BY <1>3, <1>4, <2>2, WayStays
  <2>4. s \in Seq(Label) \ {<<>>} /\ w.names[s] \in 0..MaxPointerOffset
    BY DEF Sound
  <2>. QED  BY <2>1, <2>2, <2>3, <2>4 DEF Stands
<1>6. ASSUME NEW j \in 1..own, NEW s, s = Suffix(labels, j), s \in DOMAIN x.names
      PROVE  /\ s \in Seq(Label) \ {<<>>} /\ x.names[s] \in 0..MaxPointerOffset
             /\ Stands(x.out, x.names[s], s, G)
  <2>1. x.names[s] = place[j] /\ place[j] <= MaxPointerOffset /\ place[j] \in Nat
    BY <1>0, <1>6 DEF Wrote
  <2>2. j \in 1..Len(labels)
    <3>1. Len(labels) \in Nat
      OBVIOUS
    <3>. QED  BY <3>1
  <2>3. Stands(x.out, place[j], Suffix(labels, j), G)
    BY <1>0, <2>2, SuffixWay
  <2>4. s \in Seq(Label) \ {<<>>}
    BY <1>6, <2>2, SuffixIs
  <2>5. x.names[s] \in 0..MaxPointerOffset
    BY <2>1, PointerAssumption
  <2>. QED  BY <1>6, <2>1, <2>3, <2>4, <2>5
<1>7. ASSUME NEW s \in DOMAIN x.names
      PROVE  /\ s \in Seq(Label) \ {<<>>} /\ x.names[s] \in 0..MaxPointerOffset
             /\ Stands(x.out, x.names[s], s, G)
  <2>1. s \in DOMAIN w.names \/ \E j \in 1..own : s = Suffix(labels, j)
    BY DEF Wrote
  <2>. QED  BY <1>5, <1>6, <2>1
<1>8. DOMAIN x.names \subseteq Seq(Label) \ {<<>>}
  BY <1>7
<1>. QED  BY <1>4, <1>7, <1>8 DEF Sound

\* What puts an end to a name: one octet or a pointer's two, behind its own labels.
Ended(w, labels, own, u, ps, octets, k, x, F, G, p) ==
    /\ x.out \in Seq(Octet) /\ x.ok /\ x.names = u.names
    /\ Extends(x.out, u.out) /\ Extends(x.out, w.out)
    /\ Len(x.out) = p + k /\ p \in G /\ At(x.out, p) = octets[1]
    /\ k = 2 => p + 1 \in G /\ At(x.out, p + 1) = octets[2]
    /\ Keeps(x.out, w.out, F)
    /\ \A j \in 1..own : LabelAt(x.out, ps[j], labels[j], G)

LEMMA EndPut ==
    ASSUME NEW w, w.out \in Seq(Octet), NEW F, F \subseteq Inside(w.out),
           NEW labels \in Seq(Label), NEW own \in 0..Len(labels),
           NEW u, NEW ps, Wrote(w, labels, own, u, ps),
           NEW octets \in Seq(Octet), NEW k \in {1, 2}, Len(octets) = k,
           NEW x, Put(u, octets) = x, NEW at \in Nat, Len(w.out) = at,
           NEW G, OwnAnd(G, F, at, x), NEW p \in Nat, Len(u.out) = p
    PROVE  Ended(w, labels, own, u, ps, octets, k, x, F, G, p)
<1>1. u.out \in Seq(Octet) /\ at <= p /\ u.ok /\ Extends(u.out, w.out)
  <2>1. u.out \in Seq(Octet) /\ Len(u.out) \in Nat /\ Len(w.out) <= Len(u.out)
    BY WrotePlaces
  <2>. QED  BY <2>1 DEF Wrote
<1>2. /\ x.out \in Seq(Octet) /\ x.names = u.names /\ x.ok = u.ok
      /\ Len(x.out) = p + k /\ Extends(x.out, u.out)
      /\ \A j \in 1..k : At(x.out, p + j - 1) = octets[j]
  BY <1>1, PutIs
<1>3. p \in at..(Len(x.out) - 1) /\ (k = 2 => p + 1 \in at..(Len(x.out) - 1))
      /\ Len(x.out) \in Nat /\ p < Len(x.out)
  BY <1>1, <1>2
<1>4. At(x.out, p) = octets[1]
  <2>1. 1 \in 1..k /\ p + 1 - 1 = p
    OBVIOUS
  <2>. QED  BY <1>2, <2>1
<1>5. k = 2 => At(x.out, p + 1) = octets[2]
  <2>1. k = 2 => 2 \in 1..k
    OBVIOUS
  <2>2. p + 2 - 1 = p + 1
    OBVIOUS
  <2>. QED  BY <1>2, <2>1, <2>2
<1>6. \A q \in Inside(w.out) : q \in Inside(u.out)
  BY <1>1 DEF Inside
<1>7. ASSUME NEW q \in Inside(w.out) PROVE At(x.out, q) = At(w.out, q)
  <2>1. At(u.out, q) = At(w.out, q) /\ q \in Inside(u.out)
    BY <1>1, <1>6 DEF Extends
  <2>. QED  BY <1>2, <2>1 DEF Extends
<1>8. Extends(x.out, w.out)
  <2>1. Len(w.out) <= Len(x.out)
    BY <1>1, <1>3
  <2>. QED  BY <1>7, <2>1 DEF Extends
<1>9. ASSUME NEW q \in at..(p - 1) PROVE q \in G /\ At(x.out, q) = At(u.out, q)
  <2>1. q \in 0..(p - 1) /\ q \in at..(Len(x.out) - 1)
    BY <1>1, <1>3
  <2>2. q \in Inside(u.out)
    BY <2>1 DEF Inside
  <2>3. At(x.out, q) = At(u.out, q)
    BY <1>2, <2>2 DEF Extends
  <2>. QED  BY <2>1, <2>3 DEF OwnAnd
<1>10. ASSUME NEW j \in 1..own PROVE LabelAt(x.out, ps[j], labels[j], G)
  <2>1. LabelAt(u.out, ps[j], labels[j], at..(p - 1))
    BY DEF Wrote
  <2>. QED  BY <1>9, <2>1 DEF LabelAt
<1>11. p \in G /\ (k = 2 => p + 1 \in G)
  BY <1>3 DEF OwnAnd
<1>12. \A q \in F : At(x.out, q) = At(w.out, q)
  BY <1>7
<1>. QED  BY <1>1, <1>2, <1>4, <1>5, <1>8, <1>10, <1>11, <1>12 DEF Ended, Keeps

\* The writer once a name is whole.
Written(w, labels, x, G) ==
    /\ x.ok /\ Sound(x, G) /\ Extends(x.out, w.out)
    /\ Holds(x.out, Len(w.out), labels, Len(x.out), G)

LEMMA BegunIs ==
    ASSUME NEW w, w.out \in Seq(Octet), NEW labels \in Seq(Label), NEW own \in 0..Len(labels),
           NEW u, NEW ps, Wrote(w, labels, own, u, ps), NEW at \in Nat, Len(w.out) = at,
           NEW p \in Nat, Len(u.out) = p, NEW b, NEW G,
           \A j \in 1..own : LabelAt(b, ps[j], labels[j], G)
    PROVE  Begun(b, at, labels, own, ps, p, G)
<1>1. (\A j \in 1..own : at <= ps[j]) /\ at <= p
  BY WrotePlaces
<1>. QED  BY <1>1 DEF Begun, Wrote

LEMMA EndsItself ==
    ASSUME NEW w, NEW F, Sound(w, F), NEW labels \in Seq(Label),
           NEW own \in 0..Len(labels), Len(labels) = own,
           NEW u, NEW ps, Wrote(w, labels, own, u, ps),
           NEW octets \in Seq(Octet), Len(octets) = 1, octets[1] = 0,
           NEW x, Put(u, octets) = x, NEW at \in Nat, Len(w.out) = at,
           NEW G, OwnAnd(G, F, at, x), NEW p \in Nat, Len(u.out) = p
    PROVE  Written(w, labels, x, G)
<1>1. w.out \in Seq(Octet) /\ F \subseteq Inside(w.out)
  BY DEF Sound
<1>2. /\ x.out \in Seq(Octet) /\ x.ok /\ x.names = u.names
      /\ Extends(x.out, u.out) /\ Extends(x.out, w.out)
      /\ Len(x.out) = p + 1 /\ p \in G /\ At(x.out, p) = octets[1]
      /\ \A j \in 1..own : LabelAt(x.out, ps[j], labels[j], G)
  <2>1. 1 \in {1, 2}
    OBVIOUS
  <2>2. Ended(w, labels, own, u, ps, octets, 1, x, F, G, p)
    BY <1>1, <2>1, EndPut
  <2>. QED  BY <2>2 DEF Ended
<1>3. Begun(x.out, at, labels, own, ps, p, G)
  BY <1>1, <1>2, BegunIs
<1>4. Placed(x.out, at, labels, own, ps, p + 1, G)
  <2>1. At(x.out, p) = 0
    BY <1>2
  <2>2. Placed(x.out, at, labels, Len(labels), ps, p + 1, G)
    BY <1>2, <1>3, <2>1, WrittenOut
  <2>. QED  BY <2>2
<1>5. Sound(x, G)
  BY <1>2, <1>4, TableStaysSound
<1>. QED  BY <1>2, <1>4, <1>5 DEF Written, Holds, Placed

LEMMA EndsInPointer ==
    ASSUME NEW w, NEW F, Sound(w, F), NEW labels \in Seq(Label), NEW own \in 0..Len(labels),
           own < Len(labels), NEW u, NEW ps, Wrote(w, labels, own, u, ps),
           NEW s \in DOMAIN w.names, Suffix(labels, own + 1) = s, NEW t, w.names[s] = t,
           NEW octets \in Seq(Octet), PointerTo(t) = octets,
           NEW x, Put(u, octets) = x, NEW at \in Nat, Len(w.out) = at,
           NEW G, OwnAnd(G, F, at, x), NEW p \in Nat, Len(u.out) = p
    PROVE  Written(w, labels, x, G)
<1>1. t \in Nat /\ t < at /\ t \in 0..MaxPointerOffset
  <2>1. t \in Nat /\ t < at /\ t <= MaxPointerOffset
    BY SoundNames
  <2>. QED  BY <2>1, PointerAssumption
<1>2. Len(octets) = 2 /\ octets[1] >= 192 /\ (octets[1] - 192) * 256 + octets[2] = t
  BY <1>1, PointerRead
<1>3. w.out \in Seq(Octet) /\ F \subseteq Inside(w.out) /\ F \subseteq G
  BY DEF Sound, OwnAnd
<1>4. /\ x.out \in Seq(Octet) /\ x.ok /\ x.names = u.names
      /\ Extends(x.out, u.out) /\ Extends(x.out, w.out)
      /\ Len(x.out) = p + 2 /\ p \in G /\ p + 1 \in G
      /\ At(x.out, p) = octets[1] /\ At(x.out, p + 1) = octets[2]
      /\ Keeps(x.out, w.out, F)
      /\ \A j \in 1..own : LabelAt(x.out, ps[j], labels[j], G)
  <2>1. 2 \in {1, 2}
    OBVIOUS
  <2>2. Ended(w, labels, own, u, ps, octets, 2, x, F, G, p)
    BY <1>2, <1>3, <2>1, EndPut
  <2>. QED  BY <2>2 DEF Ended
<1>5. Begun(x.out, at, labels, own, ps, p, G)
  BY <1>3, <1>4, BegunIs
<1>6. PointsTo(x.out, p, t)
  BY <1>2, <1>4 DEF PointsTo
<1>7. PICK tp : Way(w.out, t, s, tp, F) /\ tp[1] = t
  BY DEF Sound, Stands
<1>8. Placed(x.out, at, labels, own, ps, p + 2, G)
  BY <1>1, <1>3, <1>4, <1>5, <1>6, <1>7, PointsBack
<1>9. Sound(x, G)
  BY <1>4, <1>8, TableStaysSound
<1>. QED  BY <1>4, <1>8, <1>9 DEF Written, Holds, Placed

\* Writer.name(): a name is written where the writer is, and everything the table says of
\* suffixes is true again.
THEOREM NamesAreWritten ==
    ASSUME NEW w, NEW F, Sound(w, F), w.ok, NEW labels \in Seq(Label)
    PROVE  Written(w, labels, WriteName(w, labels), Fixed(w, labels, F))
<1> DEFINE x == WriteName(w, labels)
           G == Fixed(w, labels, F)
<1>1. w.out \in Seq(Octet) /\ G = F \cup (Len(w.out)..(Len(x.out) - 1))
  BY DEF Sound, Fixed
<1>2. PICK own \in 0..Len(labels) : \E v :
         /\ Labels(w, labels, own, v)
         /\ \A j \in 1..own : Suffix(labels, j) \notin DOMAIN w.names
         /\ \/ own = Len(labels) /\ x = Put(v[own], <<0>>)
            \/ /\ own < Len(labels) /\ Suffix(labels, own + 1) \in DOMAIN w.names
               /\ x = Put(v[own], PointerTo(w.names[Suffix(labels, own + 1)]))
  BY WriteNameIs
<1> HIDE DEF x, G
<1>3. PICK v :
         /\ Labels(w, labels, own, v)
         /\ \A j \in 1..own : Suffix(labels, j) \notin DOMAIN w.names
         /\ \/ own = Len(labels) /\ x = Put(v[own], <<0>>)
            \/ /\ own < Len(labels) /\ Suffix(labels, own + 1) \in DOMAIN w.names
               /\ x = Put(v[own], PointerTo(w.names[Suffix(labels, own + 1)]))
  BY <1>2
<1>4. PICK ps : Wrote(w, labels, own, v[own], ps)
  BY <1>1, <1>3, AllWritten
<1>5. PICK at \in Nat : Len(w.out) = at
  BY <1>1
<1>6. OwnAnd(G, F, at, x)
  BY <1>1, <1>5 DEF OwnAnd
<1>7. PICK p \in Nat : Len(v[own].out) = p
  BY <1>1, <1>4, WrotePlaces
<1>8. CASE own = Len(labels) /\ x = Put(v[own], <<0>>)
  <2>1. PICK octets \in Seq(Octet) : <<0>> = octets /\ Len(octets) = 1 /\ octets[1] = 0
    <3> DEFINE o == <<0>>
    <3>1. 0 \in Octet
      BY DEF Octet
    <3>2. o \in Seq(Octet) /\ Len(o) = 1 /\ o[1] = 0
      BY <3>1
    <3> HIDE DEF o
    <3>3. \E octets \in Seq(Octet) : o = octets /\ Len(octets) = 1 /\ octets[1] = 0
      BY <3>2
    <3>. QED  BY <3>3 DEF o
  <2>2. Put(v[own], octets) = x /\ Len(labels) = own
    BY <1>8, <2>1
  <2>3. Written(w, labels, x, G)
    BY <1>4, <1>5, <1>6, <1>7, <2>1, <2>2, EndsItself
  <2>. QED  BY <2>3 DEF x, G
<1>9. CASE /\ own < Len(labels) /\ Suffix(labels, own + 1) \in DOMAIN w.names
           /\ x = Put(v[own], PointerTo(w.names[Suffix(labels, own + 1)]))
  <2>1. PICK s \in DOMAIN w.names : Suffix(labels, own + 1) = s
    BY <1>9
  <2>2. PICK t \in 0..MaxPointerOffset : w.names[s] = t
    BY DEF Sound
  <2>3. PICK octets \in Seq(Octet) : PointerTo(t) = octets
    BY PointerRead
  <2>4. Put(v[own], octets) = x
    BY <1>9, <2>1, <2>2, <2>3
  <2>5. Written(w, labels, x, G)
    BY <1>4, <1>5, <1>6, <1>7, <1>9, <2>1, <2>2, <2>3, <2>4, EndsInPointer
  <2>. QED  BY <2>5 DEF x, G
<1>. QED  BY <1>3, <1>8, <1>9

\* The rest of the encoder: a message begins with a sound table, and neither the octets put
\* between the names nor a length filled in later, which no name uses, make it wrong.
THEOREM TableStaysTrue ==
    /\ Sound(NewWriter, {})
    /\ \A w, F, octets : Sound(w, F) /\ octets \in Seq(Octet) => Sound(Put(w, octets), F)
    /\ \A w, F, p, octet :
          Sound(w, F) /\ p \in Inside(w.out) \ F /\ octet \in Octet =>
             Sound([out |-> [w.out EXCEPT ![p + 1] = octet], names |-> w.names, ok |-> w.ok], F)
<1>1. Sound(NewWriter, {})
  <2>1. NewWriter.out = <<>> /\ NewWriter.names = <<>>
    BY DEF NewWriter
  <2>2. DOMAIN NewWriter.names = {}
    BY <2>1
  <2>. QED  BY <2>1, <2>2 DEF Sound
<1>2. ASSUME NEW w, NEW F, NEW octets \in Seq(Octet), Sound(w, F)
      PROVE  Sound(Put(w, octets), F)
  <2>1. w.out \in Seq(Octet) /\ F \subseteq Inside(w.out)
    BY <1>2 DEF Sound
  <2> DEFINE x == Put(w, octets)
  <2>2. x.out \in Seq(Octet) /\ x.names = w.names /\ Extends(x.out, w.out)
    BY <2>1, PutIs
  <2> HIDE DEF x
  <2>3. \A p \in F : At(x.out, p) = At(w.out, p)
    BY <2>1, <2>2 DEF Extends
  <2>4. F \subseteq Inside(x.out)
    <3>1. Len(w.out) <= Len(x.out) /\ Len(w.out) \in Nat /\ Len(x.out) \in Nat
      BY <2>1, <2>2 DEF Extends
    <3>2. Inside(w.out) \subseteq Inside(x.out)
      BY <3>1 DEF Inside
    <3>. QED  BY <2>1, <3>2
  <2>5. Sound(x, F)
    BY <1>2, <2>2, <2>3, <2>4, StaysSound
  <2>. QED  BY <2>5 DEF x
<1>3. ASSUME NEW w, NEW F, NEW p \in Inside(w.out) \ F, NEW octet \in Octet, Sound(w, F)
      PROVE  Sound([out |-> [w.out EXCEPT ![p + 1] = octet], names |-> w.names, ok |-> w.ok], F)
  <2> DEFINE b == w.out
             c == [b EXCEPT ![p + 1] = octet]
             x == [out |-> c, names |-> w.names, ok |-> w.ok]
  <2>1. b \in Seq(Octet) /\ Len(b) \in Nat /\ F \subseteq Inside(b)
    BY <1>3 DEF Sound
  <2> HIDE DEF b
  <2>2. c \in Seq(Octet) /\ Len(c) = Len(b) /\ \A i \in 1..Len(b) : i # p + 1 => c[i] = b[i]
    <3>1. p + 1 \in 1..Len(b)
      BY <2>1 DEF Inside, b
    <3>. QED  BY <2>1, <3>1, ExceptSeq
  <2>3. x.out = c /\ x.names = w.names
    OBVIOUS
  <2> HIDE DEF c, x
  <2>4. ASSUME NEW q \in F PROVE At(c, q) = At(b, q)
    <3>1. q \in Inside(b) /\ q # p
      BY <2>1
    <3>2. q \in Nat /\ p \in Nat
      BY <2>1, <3>1 DEF Inside, b
    <3>3. q + 1 \in 1..Len(b) /\ q + 1 # p + 1
      BY <2>1, <3>1, <3>2 DEF Inside
    <3>. QED  BY <2>2, <3>3 DEF At
  <2>5. F \subseteq Inside(c)
    BY <2>1, <2>2 DEF Inside
  <2>6. Sound(x, F)
    BY <1>3, <2>2, <2>3, <2>4, <2>5, StaysSound DEF b
  <2>. QED  BY <2>6 DEF x, c, b
<1>. QED  BY <1>1, <1>2, <1>3

\* The datagram has the name's octets, and the reader was sent where it was written.
SentToIt(w, labels, F) ==
    /\ start = Len(w.out) /\ Fixed(w, labels, F) \subseteq Inside(bytes)
    /\ Keeps(bytes, WriteName(w, labels).out, Fixed(w, labels, F))

ReadsWhatWasWritten(w, labels, F) ==
    SentToIt(w, labels, F) =>
        /\ reader.status # "rejected"
        /\ reader.status = "read" =>
              reader.labels = labels /\ reader.cursor = Len(WriteName(w, labels).out)

\* Writer.name() and Reader.name(): whatever was written before and comes after, a name is
\* read back as it was written, and reading goes on where writing went on.
THEOREM NamesComeBack ==
    ASSUME NEW w, NEW F, Sound(w, F), w.ok, NEW labels \in Seq(Label), Legal(labels)
    PROVE  NameSpec => []ReadsWhatWasWritten(w, labels, F)
<1> DEFINE x == WriteName(w, labels)
           G == Fixed(w, labels, F)
<1>1. Written(w, labels, x, G)
  BY NamesAreWritten
<1> HIDE DEF x, G
<1>2. ReadsWhatIsThere => ReadsWhatWasWritten(w, labels, F)
  <2> SUFFICES ASSUME ReadsWhatIsThere, SentToIt(w, labels, F)
               PROVE  /\ reader.status # "rejected"
                      /\ reader.status = "read" =>
                            reader.labels = labels /\ reader.cursor = Len(x.out)
    BY DEF ReadsWhatWasWritten, x
  <2>1. start = Len(w.out) /\ G \subseteq Inside(bytes) /\ \A p \in G : At(bytes, p) = At(x.out, p)
    BY DEF SentToIt, Keeps, x, G
  <2>2. PICK place : /\ Way(x.out, Len(w.out), labels, place, G)
                     /\ EndsAt(Len(w.out), labels, place, Len(x.out))
    BY <1>1 DEF Written, Holds
  <2>3. Way(bytes, start, labels, place, Inside(bytes))
    BY <2>1, <2>2, WayStays
  <2>4. Holds(bytes, start, labels, Len(x.out), Inside(bytes))
    BY <2>1, <2>2, <2>3 DEF Holds
  <2>5. Len(x.out) \in Nat
    BY <1>1 DEF Written, Sound
  <2>. QED  BY <2>4, <2>5 DEF ReadsWhatIsThere
<1>. QED  BY <1>2, NamesAreRead, PTL

------------------------------------------------------------------------------
(* The order of records *)

Rdata == Seq(Octet)

------------------------------------------------------------------------------
(* compareRdata *)

\* An octet is a number, and -1 exactly behind the end.
LEMMA OctetIsNumber ==
    ASSUME NEW a \in Rdata, NEW i \in Int
    PROVE  /\ OctetAt(a, i) \in Int /\ OctetAt(a, i) >= -1
           /\ OctetAt(a, i) = -1 <=> i \notin 1..Len(a)
<1>1. DOMAIN a = 1..Len(a)
  BY LenProperties DEF Rdata
<1>2. CASE i \in 1..Len(a)
  <2>1. a[i] \in Octet
    BY <1>2, ElementOfSeq DEF Rdata
  <2>2. OctetAt(a, i) = a[i]
    BY <1>1, <1>2 DEF OctetAt
  <2>3. OctetAt(a, i) \in Int /\ OctetAt(a, i) >= 0
    BY <2>1, <2>2 DEF Octet
  <2> QED
    BY <2>3, <1>2
<1>3. CASE i \notin 1..Len(a)
  <2>1. OctetAt(a, i) = -1
    BY <1>1, <1>3 DEF OctetAt
  <2> QED
    BY <2>1, <1>3
<1> QED
  BY <1>2, <1>3

\* Two RDATA differ somewhere unless they are the same.
LEMMA DifferentSomewhere ==
    ASSUME NEW a \in Rdata, NEW b \in Rdata
    PROVE  /\ Differences(a, b) \subseteq Nat
           /\ Differences(a, b) = {} <=> a = b
           /\ \A i \in Int : i \notin Differences(a, b) => OctetAt(a, i) = OctetAt(b, i)
<1>1. DOMAIN a = 1..Len(a) /\ DOMAIN b = 1..Len(b) /\ Len(a) \in Nat /\ Len(b) \in Nat
  BY DEF Rdata
<1>2. Differences(a, b) \subseteq Nat
  BY <1>1 DEF Differences
<1>3. \A i \in Int : i \notin Differences(a, b) => OctetAt(a, i) = OctetAt(b, i)
  BY <1>1 DEF Differences, OctetAt
<1>4. ASSUME Differences(a, b) = {} PROVE a = b
  <2>1. \A i \in Int : OctetAt(a, i) = OctetAt(b, i)
    BY <1>3, <1>4
  <2>2. \A i \in Int : i \in 1..Len(a) <=> i \in 1..Len(b)
    BY <2>1, OctetIsNumber
  <2>3. Len(a) = Len(b)
    <3>1. Len(a) >= 1 => Len(a) <= Len(b)
      BY <2>2, <1>1
    <3>2. Len(b) >= 1 => Len(b) <= Len(a)
      BY <2>2, <1>1
    <3>3. Len(a) \in Nat /\ Len(b) \in Nat
      BY <1>1
    <3> HIDE <1>1, <2>1, <2>2
    <3> QED
      BY <3>1, <3>2, <3>3
  <2>4. \A i \in 1..Len(a) : a[i] = b[i]
    BY <2>1, <2>3, <1>1 DEF OctetAt
  <2> QED
    BY <2>3, <2>4 DEF Rdata
<1>5. ASSUME a = b PROVE Differences(a, b) = {}
  BY <1>5 DEF Differences
<1> QED
  BY <1>2, <1>3, <1>4, <1>5

\* Below, by the first difference.
LEMMA BelowIsTotal ==
    ASSUME NEW a \in Rdata, NEW b \in Rdata
    PROVE  /\ Below(a, b) => ~Below(b, a)
           /\ a # b => Below(a, b) \/ Below(b, a)
           /\ ~Below(a, a)
<1>1. Differences(a, b) = Differences(b, a)
  BY DEF Differences
<1>2. \A i \in Differences(a, b) :
        OctetAt(a, i) \in Int /\ OctetAt(b, i) \in Int /\ OctetAt(a, i) # OctetAt(b, i)
  <2>1. \A i \in Differences(a, b) : i \in Int
    BY DifferentSomewhere
  <2>2. \A i \in Differences(a, b) : OctetAt(a, i) \in Int /\ OctetAt(b, i) \in Int
    BY <2>1, OctetIsNumber
  <2> QED
    BY <2>2 DEF Differences
<1>3. ASSUME Below(a, b), Below(b, a) PROVE FALSE
  <2>1. PICK i \in Differences(a, b) :
          OctetAt(a, i) < OctetAt(b, i) /\ \A k \in Differences(a, b) : i <= k
    BY <1>3 DEF Below
  <2>2. PICK j \in Differences(a, b) :
          OctetAt(b, j) < OctetAt(a, j) /\ \A k \in Differences(a, b) : j <= k
    BY <1>3, <1>1 DEF Below
  <2>3. i = j
    <3>1. i \in Nat /\ j \in Nat
      BY DifferentSomewhere
    <3> QED
      BY <3>1, <2>1, <2>2
  <2> QED
    BY <1>2, <2>1, <2>2, <2>3
<1>4. ASSUME a # b PROVE Below(a, b) \/ Below(b, a)
  <2>1. PICK m \in Differences(a, b) : \A k \in Differences(a, b) : m <= k
    BY <1>4, DifferentSomewhere, LeastNumber
  <2>2. OctetAt(a, m) < OctetAt(b, m) \/ OctetAt(b, m) < OctetAt(a, m)
    BY <1>2
  <2> QED
    BY <2>1, <2>2, <1>1 DEF Below
<1>5. ~Below(a, a)
  BY DEF Below, Differences
<1> QED
  BY <1>3, <1>4, <1>5

\* The first difference of a and c is the first one either has with b.
LEMMA BelowIsTransitive ==
    ASSUME NEW a \in Rdata, NEW b \in Rdata, NEW c \in Rdata, Below(a, b), Below(b, c)
    PROVE  Below(a, c)
<1>1. PICK i \in Differences(a, b) :
        OctetAt(a, i) < OctetAt(b, i) /\ \A k \in Differences(a, b) : i <= k
  BY DEF Below
<1>2. PICK j \in Differences(b, c) :
        OctetAt(b, j) < OctetAt(c, j) /\ \A k \in Differences(b, c) : j <= k
  BY DEF Below
<1>3. i \in Nat /\ j \in Nat /\ i \in Int /\ j \in Int
  BY DifferentSomewhere
<1>4. \A k \in Int : k < i => OctetAt(a, k) = OctetAt(b, k)
  BY <1>1, <1>3, DifferentSomewhere
<1>5. \A k \in Int : k < j => OctetAt(b, k) = OctetAt(c, k)
  BY <1>2, <1>3, DifferentSomewhere
<1> DEFINE m == IF i < j THEN i ELSE j
<1>6. m \in Int /\ m <= i /\ m <= j
  BY <1>3
<1>7. \A k \in Int : k < m => OctetAt(a, k) = OctetAt(c, k)
  BY <1>3, <1>4, <1>5
<1>8. OctetAt(a, m) < OctetAt(c, m)
  <2>1. /\ OctetAt(a, i) \in Int /\ OctetAt(b, i) \in Int /\ OctetAt(c, i) \in Int
        /\ OctetAt(a, j) \in Int /\ OctetAt(b, j) \in Int /\ OctetAt(c, j) \in Int
    BY <1>3, OctetIsNumber
  <2>2. CASE i < j
    BY <2>1, <2>2, <1>1, <1>3, <1>5
  <2>3. CASE j < i
    BY <2>1, <2>3, <1>2, <1>3, <1>4
  <2>4. CASE i = j
    BY <2>1, <2>4, <1>1, <1>2
  <2> QED
    BY <2>2, <2>3, <2>4, <1>3
<1>9. m \in Differences(a, c)
  <2> HIDE DEF m
  <2>1. OctetAt(a, m) \in Int /\ OctetAt(c, m) \in Int
    BY <1>6, OctetIsNumber
  <2> QED
    BY <2>1, <1>6, <1>8, DifferentSomewhere
<1>10. \A k \in Differences(a, c) : m <= k
  <2> HIDE DEF m
  <2> SUFFICES ASSUME NEW k \in Differences(a, c), k < m PROVE FALSE
    BY <1>6, DifferentSomewhere
  <2>1. k \in Int
    BY DifferentSomewhere
  <2>2. OctetAt(a, k) = OctetAt(c, k)
    BY <2>1, <1>7
  <2> QED
    BY <2>2 DEF Differences
<1> QED
  <2> HIDE DEF m
  <2> QED
    BY <1>8, <1>9, <1>10 DEF Below


\* compareRdata is a total order of RDATA: of two hosts that compare each other's
\* records at least one sees a difference exactly when there is one, and what is
\* below for the one is above for the other.
THEOREM RivalsDisagree ==
    ASSUME NEW a \in Rdata, NEW b \in Rdata
    PROVE  /\ CompareRdata(a, b) \in {-1, 0, 1}
           /\ CompareRdata(a, b) = 0 <=> a = b
           /\ CompareRdata(a, b) = 0 - CompareRdata(b, a)
           /\ \A c \in Rdata : CompareRdata(a, b) = -1 /\ CompareRdata(b, c) = -1
                                  => CompareRdata(a, c) = -1
<1>1. \A x, y \in Rdata : CompareRdata(x, y) = -1 <=> Below(x, y)
  BY DEF CompareRdata
<1>2. \A x, y \in Rdata : CompareRdata(x, y) = 0 <=> x = y
  BY DifferentSomewhere, BelowIsTotal DEF CompareRdata
<1>3. \A x, y \in Rdata : CompareRdata(x, y) \in {-1, 0, 1}
  BY DEF CompareRdata
<1>4. CompareRdata(a, b) = 0 - CompareRdata(b, a)
  <2>1. CASE a = b
    <3>1. CompareRdata(a, b) = 0 /\ CompareRdata(b, a) = 0
      BY <2>1, <1>2
    <3> QED
      BY <3>1
  <2>2. CASE Below(a, b)
    <3>1. ~Below(b, a) /\ a # b
      BY <2>2, BelowIsTotal
    <3>2. CompareRdata(a, b) = -1 /\ CompareRdata(b, a) = 1
      BY <2>2, <3>1, <1>1, <1>2, <1>3
    <3> QED
      BY <3>2
  <2>3. CASE Below(b, a)
    <3>1. ~Below(a, b) /\ a # b
      BY <2>3, BelowIsTotal
    <3>2. CompareRdata(b, a) = -1 /\ CompareRdata(a, b) = 1
      BY <2>3, <3>1, <1>1, <1>2, <1>3
    <3> QED
      BY <3>2
  <2> QED
    BY <2>1, <2>2, <2>3, BelowIsTotal
<1>5. \A c \in Rdata : CompareRdata(a, b) = -1 /\ CompareRdata(b, c) = -1
                          => CompareRdata(a, c) = -1
  BY <1>1, BelowIsTransitive
<1> QED
  BY <1>2, <1>3, <1>4, <1>5

SortableRecord == [class : Nat, type : Nat, rdata : Rdata]

\* recordSort is one as well, up to names: what sort() needs, and the reason why two
\* hosts bring the records they both know into one order.
THEOREM RecordSortIsAnOrder ==
    ASSUME NEW a \in SortableRecord, NEW b \in SortableRecord
    PROVE  /\ RecordSort(a, b) = 0 <=> a = b
           /\ RecordSort(a, b) = 0 - RecordSort(b, a)
           /\ \A c \in SortableRecord : RecordSort(a, b) = -1 /\ RecordSort(b, c) = -1
                                           => RecordSort(a, c) = -1
<1>1. \A x \in SortableRecord : x.class \in Nat /\ x.type \in Nat /\ x.rdata \in Rdata
  BY DEF SortableRecord
<1>2. \A x, y \in SortableRecord :
        x = y <=> x.class = y.class /\ x.type = y.type /\ x.rdata = y.rdata
  BY DEF SortableRecord
<1>3. \A x, y \in SortableRecord :
        /\ CompareRdata(x.rdata, y.rdata) = 0 <=> x.rdata = y.rdata
        /\ CompareRdata(x.rdata, y.rdata) = 0 - CompareRdata(y.rdata, x.rdata)
        /\ CompareRdata(x.rdata, y.rdata) \in {-1, 0, 1}
  BY <1>1, RivalsDisagree
<1>4. RecordSort(a, b) = 0 <=> a = b
  BY <1>1, <1>2, <1>3 DEF RecordSort
<1>5. RecordSort(a, b) = 0 - RecordSort(b, a)
  BY <1>1, <1>3 DEF RecordSort
<1>6. ASSUME NEW c \in SortableRecord, RecordSort(a, b) = -1, RecordSort(b, c) = -1
      PROVE  RecordSort(a, c) = -1
  <2>1. \A x, y \in SortableRecord :
          RecordSort(x, y) = -1 <=>
             \/ x.class < y.class
             \/ x.class = y.class /\ x.type < y.type
             \/ x.class = y.class /\ x.type = y.type /\ CompareRdata(x.rdata, y.rdata) = -1
    BY <1>1 DEF RecordSort
  <2>2. CompareRdata(a.rdata, b.rdata) = -1 /\ CompareRdata(b.rdata, c.rdata) = -1
          => CompareRdata(a.rdata, c.rdata) = -1
    BY <1>1, RivalsDisagree
  <2> QED
    BY <1>1, <1>6, <2>1, <2>2
<1> QED
  BY <1>4, <1>5, <1>6

------------------------------------------------------------------------------
(* The tie-break *)

KeySet == [type : {"A", "PTR", "TXT", "SRV"}, data : Nat]

\* The keys of one host are in one order.
LEMMA KeysAreOrdered ==
    ASSUME NEW x \in KeySet, NEW y \in KeySet
    PROVE  /\ RecordLess(x, y) => ~RecordLess(y, x) /\ x # y
           /\ x = y \/ RecordLess(x, y) \/ RecordLess(y, x)
           /\ \A z \in KeySet : RecordLess(x, y) /\ RecordLess(y, z) => RecordLess(x, z)
BY DEF RecordLess, TypeNum, KeySet

\* Any keys have a least one: the least data of the least type.
LEMMA LeastKey ==
    ASSUME NEW T, T \subseteq KeySet, T # {}
    PROVE  \E m \in T : \A k \in T : ~RecordLess(k, m)
<1> DEFINE Types == {TypeNum[k.type] : k \in T}
<1>1. \A k \in T : TypeNum[k.type] \in Nat /\ k.data \in Nat
  BY DEF TypeNum, KeySet
<1>2. PICK n \in Types : \A p \in Types : n <= p
  <2>1. Types \subseteq Nat /\ Types # {}
    BY <1>1
  <2> HIDE DEF Types
  <2> QED
    BY <2>1, LeastNumber
<1> DEFINE Data == {k.data : k \in {j \in T : TypeNum[j.type] = n}}
<1>3. PICK d \in Data : \A e \in Data : d <= e
  <2>1. Data \subseteq Nat /\ Data # {}
    BY <1>1, <1>2
  <2> HIDE DEF Data
  <2> QED
    BY <2>1, LeastNumber
<1>4. PICK m \in T : TypeNum[m.type] = n /\ m.data = d
  BY <1>3
<1>5. ASSUME NEW k \in T, RecordLess(k, m) PROVE FALSE
  <2>1. n <= TypeNum[k.type]
    BY <1>2
  <2>2. CASE TypeNum[k.type] < TypeNum[m.type]
    BY <2>1, <2>2, <1>1, <1>4
  <2>3. CASE k.type = m.type /\ k.data < m.data
    <3>1. k.data \in Data
      BY <2>3, <1>4
    <3>2. d <= k.data
      BY <3>1, <1>3
    <3> QED
      BY <3>2, <2>3, <1>1, <1>4
  <2> QED
    BY <1>5, <2>2, <2>3 DEF RecordLess
<1> QED
  BY <1>5


\* What only one of two sides has, and the least of it.
OnlyOne(ours, theirs) == (ours \ theirs) \cup (theirs \ ours)
First(T) == CHOOSE k \in T : \A j \in T : ~RecordLess(j, k)

\* losesTieBreak of the keys of two sides.
Loses(ours, theirs) ==
    /\ OnlyOne(ours, theirs) # {}
    /\ IF First(OnlyOne(ours, theirs)) \in ours
       THEN \E t \in theirs : RecordLess(First(OnlyOne(ours, theirs)), t)
       ELSE ~ \E o \in ours : RecordLess(First(OnlyOne(ours, theirs)), o)

LEMMA LosesIsTieBreak ==
    ASSUME NEW records, NEW theirRecords
    PROVE  LosesTieBreak(records, theirRecords) <=>
             Loses({Key(r) : r \in Unique(records)},
                   {Key(r) : r \in Comparable(theirRecords, records)})
BY Zenon DEF LosesTieBreak, Loses, OnlyOne, First

LEMMA FirstIsLeast ==
    ASSUME NEW T, T \subseteq KeySet, T # {}
    PROVE  First(T) \in T /\ \A k \in T : k = First(T) \/ RecordLess(First(T), k)
<1>1. First(T) \in T /\ \A k \in T : ~RecordLess(k, First(T))
  BY LeastKey, Zenon DEF First
<1> QED
  BY <1>1, KeysAreOrdered

\* The first key that only one side has, told by a property of its own.
LEMMA FirstIs ==
    ASSUME NEW T, T \subseteq KeySet, NEW k \in T, \A j \in T : ~RecordLess(j, k)
    PROVE  First(T) = k
<1>1. First(T) \in T /\ (k = First(T) \/ RecordLess(First(T), k))
  BY FirstIsLeast
<1> QED
  BY <1>1

\* Of two sides that differ exactly one loses.
LEMMA OneLoses ==
    ASSUME NEW ours, NEW theirs, ours \subseteq KeySet, theirs \subseteq KeySet,
           ours # theirs
    PROVE  Loses(ours, theirs) <=> ~Loses(theirs, ours)
<1> DEFINE D == OnlyOne(ours, theirs)
<1>1. D = OnlyOne(theirs, ours) /\ D # {} /\ D \subseteq KeySet
  BY DEF OnlyOne
<1>2. First(D) \in D
  BY <1>1, FirstIsLeast
<1>3. CASE First(D) \in ours
  <2>1. First(D) \notin theirs
    BY <1>2, <1>3 DEF OnlyOne
  <2>2. Loses(ours, theirs) <=> \E t \in theirs : RecordLess(First(D), t)
    BY <1>1, <1>3, Zenon DEF Loses
  <2>3. Loses(theirs, ours) <=> ~ \E t \in theirs : RecordLess(First(D), t)
    BY <1>1, <2>1, Zenon DEF Loses
  <2> QED
    BY <2>2, <2>3
<1>4. CASE First(D) \notin ours
  <2>1. First(D) \in theirs
    BY <1>2, <1>4 DEF OnlyOne
  <2>2. Loses(ours, theirs) <=> ~ \E o \in ours : RecordLess(First(D), o)
    BY <1>1, <1>4, Zenon DEF Loses
  <2>3. Loses(theirs, ours) <=> \E o \in ours : RecordLess(First(D), o)
    BY <1>1, <2>1, Zenon DEF Loses
  <2> QED
    BY <2>2, <2>3
<1> QED
  BY <1>3, <1>4

DnsRecord(r) == Key(r) \in KeySet

\* Two hosts probe for one name and hear each other's probe: if they propose records
\* of the same names and types, exactly one of them loses the tie-break, and neither
\* does if the records are the same.  (losesTieBreak on both sides; a probe carries
\* the unique records.)
THEOREM TieBreakHasOneLoser ==
    ASSUME NEW ours, NEW theirs,
           \A r \in ours \cup theirs : DnsRecord(r),
           \A r \in Unique(ours) : \E s \in Unique(theirs) : SameNameType(r, s),
           \A s \in Unique(theirs) : \E r \in Unique(ours) : SameNameType(r, s)
    PROVE  IF {Key(r) : r \in Unique(ours)} = {Key(r) : r \in Unique(theirs)}
           THEN ~LosesTieBreak(ours, Unique(theirs)) /\ ~LosesTieBreak(theirs, Unique(ours))
           ELSE LosesTieBreak(ours, Unique(theirs)) <=> ~LosesTieBreak(theirs, Unique(ours))
<1> DEFINE X == {Key(r) : r \in Unique(ours)}
           Y == {Key(r) : r \in Unique(theirs)}
<1>1. X \subseteq KeySet /\ Y \subseteq KeySet
  BY DEF Unique, DnsRecord
<1>2. Comparable(Unique(theirs), ours) = Unique(theirs)
  BY DEF Comparable
<1>3. Comparable(Unique(ours), theirs) = Unique(ours)
  BY DEF Comparable, SameNameType
<1>4. LosesTieBreak(ours, Unique(theirs)) <=> Loses(X, Y)
  BY <1>2, LosesIsTieBreak
<1>5. LosesTieBreak(theirs, Unique(ours)) <=> Loses(Y, X)
  BY <1>3, LosesIsTieBreak
<1> HIDE DEF X, Y
<1>6. CASE X = Y
  BY <1>4, <1>5, <1>6 DEF Loses, OnlyOne, X, Y
<1>7. CASE X # Y
  BY <1>1, <1>4, <1>5, <1>7, OneLoses DEF X, Y
<1> QED
  BY <1>6, <1>7


\* A host's list, as sort() leaves it.
Sorted(s) ==
    /\ s \in Seq(KeySet)
    /\ \A i, j \in 1..Len(s) : i < j => RecordLess(s[i], s[j])
Items(s) == {s[i] : i \in 1..Len(s)}

LEMMA SortedProperties ==
    ASSUME NEW s, Sorted(s)
    PROVE  /\ Len(s) \in Nat /\ DOMAIN s = 1..Len(s)
           /\ \A i \in 1..Len(s) : s[i] \in KeySet
           /\ \A i, j \in 1..Len(s) : i <= j => s[i] = s[j] \/ RecordLess(s[i], s[j])
           /\ Items(s) \subseteq KeySet
<1>1. s \in Seq(KeySet)
  BY DEF Sorted
<1>2. Len(s) \in Nat /\ DOMAIN s = 1..Len(s)
  BY <1>1, LenProperties
<1>3. \A i \in 1..Len(s) : s[i] \in KeySet
  BY <1>1, ElementOfSeq
<1>4. \A i, j \in 1..Len(s) : i <= j => s[i] = s[j] \/ RecordLess(s[i], s[j])
  <2> SUFFICES ASSUME NEW i \in 1..Len(s), NEW j \in 1..Len(s), i <= j, i # j
               PROVE  RecordLess(s[i], s[j])
    OBVIOUS
  <2>1. i < j
    BY <1>2
  <2> QED
    BY <2>1 DEF Sorted
<1> QED
  BY <1>2, <1>3, <1>4 DEF Items

\* Two sorted lists are the same up to m, where s goes on below t or t has ended: then
\* s[m] is what decides.
LEMMA FirstDifference ==
    ASSUME NEW s, NEW t, Sorted(s), Sorted(t), NEW m \in 1..Len(s),
           \A j \in 1..(m - 1) : j \in 1..Len(t) /\ s[j] = t[j],
           m \in 1..Len(t) => RecordLess(s[m], t[m])
    PROVE  /\ s[m] \in Items(s) \ Items(t)
           /\ First(OnlyOne(Items(s), Items(t))) = s[m]
           /\ (\E x \in Items(t) : RecordLess(s[m], x)) <=> m \in 1..Len(t)
<1>1. /\ Len(s) \in Nat /\ \A i \in 1..Len(s) : s[i] \in KeySet
      /\ \A i, j \in 1..Len(s) : i < j => RecordLess(s[i], s[j])
      /\ \A i, j \in 1..Len(s) : i <= j => s[i] = s[j] \/ RecordLess(s[i], s[j])
  BY SortedProperties DEF Sorted
<1>2. /\ Len(t) \in Nat /\ \A i \in 1..Len(t) : t[i] \in KeySet
      /\ \A i, j \in 1..Len(t) : i < j => RecordLess(t[i], t[j])
      /\ \A i, j \in 1..Len(t) : i <= j => t[i] = t[j] \/ RecordLess(t[i], t[j])
  BY SortedProperties DEF Sorted
<1>3. \A k \in 1..(m - 1) : k \in 1..Len(s) /\ k \in 1..Len(t) /\ t[k] = s[k]
                              /\ RecordLess(s[k], s[m])
  BY <1>1
<1>4. \A k \in 1..Len(t) : k \notin 1..(m - 1) => m \in 1..Len(t) /\ RecordLess(s[m], t[k])
  <2> SUFFICES ASSUME NEW k \in 1..Len(t), k \notin 1..(m - 1)
               PROVE  m \in 1..Len(t) /\ RecordLess(s[m], t[k])
    OBVIOUS
  <2>1. m \in 1..Len(t) /\ m <= k
    BY <1>1, <1>2
  <2>2. t[m] = t[k] \/ RecordLess(t[m], t[k])
    BY <2>1, <1>2
  <2>3. s[m] \in KeySet /\ t[m] \in KeySet /\ t[k] \in KeySet /\ RecordLess(s[m], t[m])
    BY <2>1, <1>1, <1>2
  <2> QED
    BY <2>1, <2>2, <2>3, KeysAreOrdered
<1>5. s[m] \notin Items(t)
  <2> SUFFICES ASSUME NEW k \in 1..Len(t), t[k] = s[m] PROVE FALSE
    BY DEF Items
  <2>1. s[m] \in KeySet /\ RecordLess(s[m], s[m])
    BY <1>1, <1>3, <1>4
  <2> QED
    BY <2>1, KeysAreOrdered
<1>6. s[m] \in Items(s)
  BY DEF Items
<1>7. \A j \in OnlyOne(Items(s), Items(t)) : ~RecordLess(j, s[m])
  <2> SUFFICES ASSUME NEW j \in OnlyOne(Items(s), Items(t)), RecordLess(j, s[m]) PROVE FALSE
    OBVIOUS
  <2>1. CASE j \in Items(s) \ Items(t)
    <3>1. PICK k \in 1..Len(s) : j = s[k]
      BY <2>1 DEF Items
    <3>2. k \notin 1..(m - 1)
      BY <3>1, <2>1, <1>3 DEF Items
    <3>3. m <= k
      BY <3>2, <1>1
    <3>4. s[m] = s[k] \/ RecordLess(s[m], s[k])
      BY <3>3, <1>1
    <3>5. s[m] \in KeySet /\ s[k] \in KeySet /\ RecordLess(s[k], s[m])
      BY <3>1, <1>1
    <3> QED
      BY <3>4, <3>5, KeysAreOrdered
  <2>2. CASE j \in Items(t) \ Items(s)
    <3>1. PICK k \in 1..Len(t) : j = t[k]
      BY <2>2 DEF Items
    <3>2. k \notin 1..(m - 1)
      BY <3>1, <2>2, <1>3 DEF Items
    <3>3. s[m] \in KeySet /\ t[k] \in KeySet /\ RecordLess(s[m], t[k]) /\ RecordLess(t[k], s[m])
      BY <3>1, <3>2, <1>1, <1>2, <1>4
    <3> QED
      BY <3>3, KeysAreOrdered
  <2> QED
    BY <2>1, <2>2 DEF OnlyOne
<1>8. First(OnlyOne(Items(s), Items(t))) = s[m]
  <2> DEFINE T == OnlyOne(Items(s), Items(t))
  <2>1. T \subseteq KeySet /\ s[m] \in T
    BY <1>5, <1>6, SortedProperties DEF OnlyOne
  <2>2. \A j \in T : ~RecordLess(j, s[m])
    BY <1>7
  <2> HIDE DEF T
  <2>3. First(T) = s[m]
    BY <2>1, <2>2, FirstIs
  <2> QED
    BY <2>3 DEF T
<1>9. (\E x \in Items(t) : RecordLess(s[m], x)) <=> m \in 1..Len(t)
  <2>1. ASSUME m \in 1..Len(t) PROVE \E x \in Items(t) : RecordLess(s[m], x)
    BY <2>1 DEF Items
  <2>2. ASSUME NEW k \in 1..Len(t), RecordLess(s[m], t[k]) PROVE m \in 1..Len(t)
    <3>1. CASE k \in 1..(m - 1)
      <4>1. RecordLess(t[k], s[m]) /\ t[k] \in KeySet /\ s[m] \in KeySet
        BY <3>1, <1>1, <1>2, <1>3
      <4> QED
        BY <4>1, <2>2, KeysAreOrdered
    <3>2. CASE k \notin 1..(m - 1)
      BY <3>2, <1>4
    <3> QED
      BY <3>1, <3>2
  <2> QED
    BY <2>1, <2>2 DEF Items
<1> QED
  BY <1>5, <1>6, <1>8, <1>9


\* losesTieBreak walks two sorted lists in step; the model compares two sets.  They
\* say the same, whatever the lists.
THEOREM LoopIsTieBreak ==
    ASSUME NEW s, NEW t, Sorted(s), Sorted(t)
    PROVE  LosesInOrder(s, t) <=> Loses(Items(s), Items(t))
<1>1. /\ Len(s) \in Nat /\ DOMAIN s = 1..Len(s) /\ \A i \in 1..Len(s) : s[i] \in KeySet
      /\ Len(t) \in Nat /\ DOMAIN t = 1..Len(t) /\ \A i \in 1..Len(t) : t[i] \in KeySet
  BY SortedProperties
<1> DEFINE Same(i) == i \in 1..Len(s) /\ i \in 1..Len(t) /\ s[i] = t[i]
           M == {i \in 1..Len(s) \cup 1..Len(t) : ~Same(i)}
<1>2. CASE M = {}
  <2>1. 1..Len(s) = 1..Len(t) /\ \A i \in 1..Len(s) : s[i] = t[i]
    BY <1>2
  <2>2. Items(s) = Items(t)
    BY <2>1 DEF Items
  <2>3. ~Loses(Items(s), Items(t))
    BY <2>2 DEF Loses, OnlyOne
  <2>4. \A i \in 1..Len(t) : ~RecordLess(s[i], t[i])
    BY <2>1, <1>1, KeysAreOrdered
  <2>5. ~LosesInOrder(s, t)
    BY <2>1, <2>4, <1>1 DEF LosesInOrder
  <2> QED
    BY <2>3, <2>5
<1>3. CASE M # {}
  <2>1. PICK m \in M : \A i \in M : m <= i
    <3>1. M \subseteq Nat
      BY <1>1
    <3> HIDE DEF M
    <3> QED
      BY <3>1, <1>3, LeastNumber
  <2>2. m \in Nat /\ m >= 1 /\ ~Same(m) /\ (m \in 1..Len(s) \/ m \in 1..Len(t))
    BY <1>1, <2>1
  <2>3. \A j \in 1..(m - 1) : Same(j)
    <3> SUFFICES ASSUME NEW j \in 1..(m - 1), ~Same(j) PROVE FALSE
      OBVIOUS
    <3>1. j \in 1..Len(s) \cup 1..Len(t)
      BY <1>1, <2>2
    <3>2. m <= j
      BY <3>1, <2>1
    <3> QED
      BY <3>2, <2>2
  <2>4. LosesInOrder(s, t) <=>
          m \in 1..Len(t) /\ (m \in 1..Len(s) => RecordLess(s[m], t[m]))
    <3>1. ASSUME m \in 1..Len(t), m \in 1..Len(s) => RecordLess(s[m], t[m])
          PROVE  LosesInOrder(s, t)
      <4>1. \A j \in 1..(m - 1) : j \in DOMAIN s /\ s[j] = t[j]
        BY <2>3, <1>1
      <4> QED
        BY <3>1, <4>1, <1>1 DEF LosesInOrder
    <3>2. ASSUME LosesInOrder(s, t)
          PROVE  m \in 1..Len(t) /\ (m \in 1..Len(s) => RecordLess(s[m], t[m]))
      <4>1. PICK i \in 1..Len(t) :
              /\ \A j \in 1..(i - 1) : j \in 1..Len(s) /\ s[j] = t[j]
              /\ i \in 1..Len(s) => RecordLess(s[i], t[i])
        BY <3>2, <1>1 DEF LosesInOrder
      <4>2. ~(m < i)
        <5> SUFFICES ASSUME m < i PROVE FALSE
          OBVIOUS
        <5>1. m \in 1..(i - 1) /\ m \in 1..Len(t)
          BY <1>1, <2>2
        <5> QED
          BY <5>1, <4>1, <2>2
      <4>3. ~(i < m)
        <5> SUFFICES ASSUME i < m PROVE FALSE
          OBVIOUS
        <5>1. Same(i)
          BY <1>1, <2>2, <2>3
        <5>2. RecordLess(s[i], s[i]) /\ s[i] \in KeySet
          BY <5>1, <4>1, <1>1
        <5> QED
          BY <5>2, KeysAreOrdered
      <4>4. i = m
        BY <4>2, <4>3, <2>2, <1>1
      <4> QED
        BY <4>1, <4>4
    <3> QED
      BY <3>1, <3>2
  <2> DEFINE first == First(OnlyOne(Items(s), Items(t)))
  <2>5. CASE m \in 1..Len(s) /\ (m \in 1..Len(t) => RecordLess(s[m], t[m]))
    <3>1. /\ s[m] \in Items(s) \ Items(t) /\ first = s[m]
          /\ (\E x \in Items(t) : RecordLess(s[m], x)) <=> m \in 1..Len(t)
      BY <2>3, <2>5, FirstDifference
    <3>2. Loses(Items(s), Items(t)) <=> \E x \in Items(t) : RecordLess(s[m], x)
      <4>1. OnlyOne(Items(s), Items(t)) # {}
        BY <3>1 DEF OnlyOne
      <4> QED
        BY <3>1, <4>1, Zenon DEF Loses
    <3> QED
      BY <3>1, <3>2, <2>4, <2>5
  <2>6. CASE m \in 1..Len(t) /\ (m \in 1..Len(s) => RecordLess(t[m], s[m]))
    <3>1. OnlyOne(Items(s), Items(t)) = OnlyOne(Items(t), Items(s))
      BY DEF OnlyOne
    <3>2. /\ t[m] \in Items(t) \ Items(s) /\ First(OnlyOne(Items(t), Items(s))) = t[m]
          /\ (\E x \in Items(s) : RecordLess(t[m], x)) <=> m \in 1..Len(s)
      BY <2>3, <2>6, FirstDifference
    <3>3. Loses(Items(s), Items(t)) <=> ~ \E x \in Items(s) : RecordLess(t[m], x)
      <4>1. OnlyOne(Items(s), Items(t)) # {} /\ first = t[m] /\ t[m] \notin Items(s)
        BY <3>1, <3>2 DEF OnlyOne
      <4> QED
        BY <4>1, Zenon DEF Loses
    <3>4. m \in 1..Len(s) => ~RecordLess(s[m], t[m])
      BY <2>6, <1>1, KeysAreOrdered
    <3> QED
      BY <3>2, <3>3, <3>4, <2>4, <2>6
  <2>7. m \in 1..Len(s) /\ m \in 1..Len(t) => RecordLess(s[m], t[m]) \/ RecordLess(t[m], s[m])
    BY <1>1, <2>2, KeysAreOrdered
  <2> QED
    BY <2>2, <2>5, <2>6, <2>7
<1> QED
  BY <1>2, <1>3


\* Hosts of different names both lose, whatever their records are: each sorts its own
\* address record in first, but leaves the other's out, for it has none of that name.
\* (Both then take a new name, and one would have done.)
THEOREM StrangersBothLose ==
    ASSUME NEW ours, NEW theirs,
           \A r \in ours \cup theirs : DnsRecord(r),
           \E a \in Unique(ours) : a.type = "A",
           \A r \in Comparable(Unique(theirs), ours) : r.type # "A",
           Comparable(Unique(theirs), ours) # {}
    PROVE  LosesTieBreak(ours, Unique(theirs))
<1> DEFINE X == {Key(r) : r \in Unique(ours)}
           Y == {Key(r) : r \in Comparable(Unique(theirs), ours)}
           D == OnlyOne(X, Y)
<1>1. X \subseteq KeySet /\ Y \subseteq KeySet
  BY DEF Unique, Comparable, DnsRecord
<1>2. \A y \in Y : y.type # "A"
  BY DEF Key
<1>3. PICK a \in X : a.type = "A"
  <2>1. PICK r \in Unique(ours) : r.type = "A"
    OBVIOUS
  <2>2. Key(r) \in X /\ Key(r).type = "A"
    BY <2>1 DEF Key
  <2> QED
    BY <2>2
<1>4. D \subseteq KeySet /\ a \in D
  BY <1>1, <1>2, <1>3 DEF OnlyOne
<1>5. First(D) \in D /\ (a = First(D) \/ RecordLess(First(D), a))
  <2> HIDE DEF D
  <2> QED
    BY <1>4, FirstIsLeast
<1>6. First(D).type = "A"
  <2> HIDE DEF X, Y
  <2>1. First(D) \in KeySet /\ a \in KeySet
    BY <1>4, <1>5
  <2> HIDE DEF D
  <2> QED
    BY <2>1, <1>3, <1>5 DEF RecordLess, TypeNum, KeySet
<1>7. First(D) \in X
  <2> HIDE DEF X, Y
  <2> QED
    BY <1>2, <1>5, <1>6 DEF OnlyOne
<1>8. \E y \in Y : RecordLess(First(D), y)
  <2>1. PICK y \in Y : TRUE
    OBVIOUS
  <2>2. y \in KeySet /\ First(D) \in KeySet /\ y.type # "A"
    BY <1>1, <1>2, <1>7
  <2> HIDE DEF X, Y, D
  <2> QED
    BY <2>1, <2>2, <1>6 DEF RecordLess, TypeNum, KeySet
<1>9. Loses(X, Y)
  <2> HIDE DEF X, Y
  <2> QED
    BY <1>4, <1>7, <1>8, Zenon DEF Loses
<1> QED
  BY <1>9, LosesIsTieBreak
==============================================================================
