--------------------------- MODULE FastFifoProofs ---------------------------
(***************************************************************************)
(* Proofs about FastFifo: however many items pass through however many rings,    *)
(* the chain behind the consumer is a queue.  The invariant numbers the slots    *)
(* in the order they were enqueued and says where each of them is.               *)
(***************************************************************************)
EXTENDS FastFifo, SequenceTheorems, TLAPS

------------------------------------------------------------------------------
(* One ring *)

\* In a ring with places 0..m whose oldest slot is at b: how far place k is from
\* it, going up and around, and the place that is n away.
Distance(m, b, k) == IF k >= b THEN k - b ELSE k + m + 1 - b
Place(m, b, n) == IF n = m + 1 THEN b ELSE IF b + n <= m THEN b + n ELSE b + n - (m + 1)

\* Its n slots are those numbered from + 1 to from + n, and it has no others.
Contents(lg, buf, m, b, from, n) ==
    \A k \in 0..m : buf[k] = IF Distance(m, b, k) < n THEN lg[from + 1 + Distance(m, b, k)]
                                                       ELSE Undefined

Ring(buf, m, t, b) == [buffer |-> buf, mask |-> m, top |-> t, btm |-> b]

\* The ring holds these n slots, in m + 1 places.
Shape(lg, ring, m, buf, b, from, n) ==
    /\ ring = Ring(buf, m, Place(m, b, n), b)
    /\ n <= m + 1 /\ from + n <= Len(lg)
    /\ Contents(lg, buf, m, b, from, n)

Holds(lg, ring, from, n) ==
    /\ ring.mask \in Nat /\ ring.btm \in 0..ring.mask
    /\ ring.buffer \in [0..ring.mask -> Slot \cup {Undefined}]
    /\ Shape(lg, ring, ring.mask, ring.buffer, ring.btm, from, n)

LEMMA WrapLemma ==
    ASSUME NEW m \in Nat, NEW k \in 0..m
    PROVE  (k + 1) % (m + 1) = IF k = m THEN 0 ELSE k + 1
OBVIOUS

LEMMA DistanceLemma ==
    ASSUME NEW m \in Nat, NEW b \in 0..m
    PROVE  /\ \A k \in 0..m : Distance(m, b, k) \in 0..m
           /\ Distance(m, b, b) = 0
BY DEF Distance

LEMMA PlaceLemma ==
    ASSUME NEW m \in Nat, NEW b \in 0..m, NEW n \in 0..(m + 1)
    PROVE  /\ Place(m, b, n) \in 0..m
           /\ Distance(m, b, Place(m, b, n)) = IF n = m + 1 THEN 0 ELSE n
BY DEF Distance, Place

\* Distance and Place are inverse to each other.
LEMMA InverseLemma ==
    ASSUME NEW m \in Nat, NEW b \in 0..m, NEW n \in Nat, n <= m, NEW k \in 0..m
    PROVE  k = Place(m, b, n) <=> Distance(m, b, k) = n
BY DEF Distance, Place

\* The places of a ring that hold slots, and those that do not.
LEMMA ContentsLemma ==
    ASSUME NEW lg \in Seq(Slot),
           NEW m \in Nat, NEW buf, NEW b \in 0..m, NEW from \in Nat, NEW n \in Nat,
           n <= m + 1, from + n <= Len(lg), Contents(lg, buf, m, b, from, n), NEW k \in 0..m
    PROVE  IF Distance(m, b, k) < n
           THEN /\ buf[k] = lg[from + 1 + Distance(m, b, k)]
                /\ from + 1 + Distance(m, b, k) \in 1..Len(lg)
                /\ buf[k] # Undefined
           ELSE buf[k] = Undefined
<1>1. Distance(m, b, k) \in 0..m
  BY DistanceLemma
<1>2. CASE Distance(m, b, k) < n
  <2>1. from + 1 + Distance(m, b, k) \in 1..Len(lg)
    BY <1>1, <1>2
  <2>2. buf[k] = lg[from + 1 + Distance(m, b, k)]
    BY <1>2 DEF Contents
  <2>3. Undefined \notin Slot
    BY SlotAssumption DEF Slot
  <2>. QED  BY <1>2, <2>1, <2>2, <2>3
<1>3. CASE ~(Distance(m, b, k) < n)
  BY <1>3 DEF Contents
<1>. QED  BY <1>2, <1>3

\* A ring is empty when it holds nothing.
LEMMA EmptyLemma ==
    ASSUME NEW lg \in Seq(Slot), NEW ring, NEW from \in Nat, NEW n \in Nat, Holds(lg, ring, from, n)
    PROVE  /\ IsEmpty(ring) <=> n = 0
           /\ n > 0 => ring.buffer[ring.btm] = lg[from + 1]
<1>0. PICK m \in Nat : \E b \in 0..m, buf \in [0..m -> Slot \cup {Undefined}] :
                          Shape(lg, ring, m, buf, b, from, n)
  BY DEF Holds
<1>1. PICK b \in 0..m, buf \in [0..m -> Slot \cup {Undefined}] :
         /\ ring = Ring(buf, m, Place(m, b, n), b)
         /\ n <= m + 1 /\ from + n <= Len(lg)
         /\ Contents(lg, buf, m, b, from, n)
  BY <1>0 DEF Shape
<1>2. ring.btm = b /\ ring.buffer = buf
  BY <1>1 DEF Ring
<1>3. Distance(m, b, b) = 0
  BY DistanceLemma
<1>4. IF 0 < n THEN buf[b] = lg[from + 1 + 0] /\ buf[b] # Undefined ELSE buf[b] = Undefined
  BY <1>1, <1>3, ContentsLemma
<1>. QED  BY <1>2, <1>4 DEF IsEmpty

\* A ring is full when it holds as many slots as it is long.
LEMMA FullLemma ==
    ASSUME NEW lg \in Seq(Slot), NEW ring, NEW from \in Nat, NEW n \in Nat, Holds(lg, ring, from, n)
    PROVE  IsFull(ring) <=> n = Length(ring)
<1>0. PICK m \in Nat : \E b \in 0..m, buf \in [0..m -> Slot \cup {Undefined}] :
                          Shape(lg, ring, m, buf, b, from, n)
  BY DEF Holds
<1>1. PICK b \in 0..m, buf \in [0..m -> Slot \cup {Undefined}] :
         /\ ring = Ring(buf, m, Place(m, b, n), b)
         /\ n <= m + 1 /\ from + n <= Len(lg)
         /\ Contents(lg, buf, m, b, from, n)
  BY <1>0 DEF Shape
<1>. DEFINE t == Place(m, b, n)
<1>2. ring.top = t /\ ring.buffer = buf /\ ring.mask = m
  BY <1>1 DEF Ring
<1>3. t \in 0..m /\ Distance(m, b, t) = IF n = m + 1 THEN 0 ELSE n
  BY <1>1, PlaceLemma
<1>4. IF Distance(m, b, t) < n THEN buf[t] # Undefined ELSE buf[t] = Undefined
  BY <1>1, <1>3, ContentsLemma
<1>. HIDE DEF t
<1>. QED  BY <1>1, <1>2, <1>3, <1>4 DEF IsFull, Length

\* A push goes behind what a ring holds.
LEMMA PushLemma ==
    ASSUME NEW lg \in Seq(Slot), NEW ring, NEW from \in Nat, NEW n \in Nat, Holds(lg, ring, from, n),
           NEW slot \in Slot, ~IsFull(ring), from + n = Len(lg)
    PROVE  Holds(Append(lg, slot), RingPush(ring, slot), from, n + 1)
<1>0. PICK m \in Nat : \E b \in 0..m, buf \in [0..m -> Slot \cup {Undefined}] :
                          Shape(lg, ring, m, buf, b, from, n)
  BY DEF Holds
<1>1. PICK b \in 0..m, buf \in [0..m -> Slot \cup {Undefined}] :
         /\ ring = Ring(buf, m, Place(m, b, n), b)
         /\ n <= m + 1 /\ from + n <= Len(lg)
         /\ Contents(lg, buf, m, b, from, n)
  BY <1>0 DEF Shape
<1>. DEFINE t == Place(m, b, n)  after == [buf EXCEPT ![t] = slot]
<1>2. n <= m /\ t \in 0..m
  <2>1. n # m + 1
    BY <1>1, FullLemma DEF Length, Ring
  <2>. QED  BY <1>1, <2>1, PlaceLemma
<1>3. RingPush(ring, slot) = Ring(after, m, Place(m, b, n + 1), b)
  <2>1. Place(m, b, n + 1) = IF t = m THEN 0 ELSE t + 1
    BY <1>2 DEF Place
  <2>2. Wrap(ring, t + 1) = IF t = m THEN 0 ELSE t + 1
    BY <1>1, <1>2, WrapLemma DEF Ring, Wrap, Length
  <2>3. ring.buffer = buf /\ ring.top = t /\ ring.mask = m /\ ring.btm = b
    BY <1>1 DEF Ring
  <2>4. RingPush(ring, slot) = [ring EXCEPT !.buffer = after, !.top = Wrap(ring, t + 1)]
    BY <2>3 DEF RingPush
  <2>. HIDE DEF t, after
  <2>. QED  BY <1>1, <2>1, <2>2, <2>3, <2>4 DEF Ring
<1>4. /\ Len(Append(lg, slot)) = Len(lg) + 1 /\ Append(lg, slot)[Len(lg) + 1] = slot
      /\ \A j \in 1..Len(lg) : Append(lg, slot)[j] = lg[j]
  OBVIOUS
<1>5. ASSUME NEW k \in 0..m
      PROVE  after[k] = IF Distance(m, b, k) < n + 1 THEN Append(lg, slot)[from + 1 + Distance(m, b, k)]
                                                     ELSE Undefined
  <2>1. Distance(m, b, k) \in 0..m /\ (k = t <=> Distance(m, b, k) = n)
    <3>1. Distance(m, b, k) \in 0..m
      BY DistanceLemma
    <3>2. n <= m
      BY <1>2
    <3>3. k = t <=> Distance(m, b, k) = n
      BY <3>2, InverseLemma
    <3>. QED  BY <3>1, <3>3
  <2>2. CASE k = t
    BY <1>2, <1>4, <2>1, <2>2
  <2>3. CASE k # t
    <3>1. after[k] = buf[k]
      BY <2>3
    <3>2. IF Distance(m, b, k) < n
          THEN /\ buf[k] = lg[from + 1 + Distance(m, b, k)]
               /\ from + 1 + Distance(m, b, k) \in 1..Len(lg)
          ELSE buf[k] = Undefined
      BY <1>1, ContentsLemma
    <3>. HIDE DEF after, t
    <3>. QED  BY <1>4, <2>1, <2>3, <3>1, <3>2
  <2>. QED  BY <2>2, <2>3
<1>6. Contents(Append(lg, slot), after, m, b, from, n + 1)
  BY <1>5 DEF Contents
<1>7. after \in [0..m -> Slot \cup {Undefined}]
  BY <1>2
<1>. HIDE DEF after, t
<1>. QED  BY <1>1, <1>2, <1>3, <1>4, <1>6, <1>7 DEF Holds, Shape, Ring

\* A shift takes the oldest slot out.
LEMMA ShiftLemma ==
    ASSUME NEW lg \in Seq(Slot), NEW ring, NEW from \in Nat, NEW n \in Nat, Holds(lg, ring, from, n),
           n > 0
    PROVE  Holds(lg, RingShift(ring), from + 1, n - 1)
<1>0. PICK m \in Nat : \E b \in 0..m, buf \in [0..m -> Slot \cup {Undefined}] :
                          Shape(lg, ring, m, buf, b, from, n)
  BY DEF Holds
<1>1. PICK b \in 0..m, buf \in [0..m -> Slot \cup {Undefined}] :
         /\ ring = Ring(buf, m, Place(m, b, n), b)
         /\ n <= m + 1 /\ from + n <= Len(lg)
         /\ Contents(lg, buf, m, b, from, n)
  BY <1>0 DEF Shape
<1>. DEFINE after == [buf EXCEPT ![b] = Undefined]  c == IF b = m THEN 0 ELSE b + 1
<1>2. RingShift(ring) = Ring(after, m, Place(m, c, n - 1), c)
  <2>1. Place(m, c, n - 1) = Place(m, b, n)
    BY <1>1 DEF Place
  <2>2. ~IsEmpty(ring)
    BY EmptyLemma
  <2>. QED  BY <1>1, <2>1, <2>2, WrapLemma DEF RingShift, Ring, Wrap, Length
<1>3. ASSUME NEW k \in 0..m
      PROVE  after[k] = IF Distance(m, c, k) < n - 1 THEN lg[from + 1 + 1 + Distance(m, c, k)]
                                                     ELSE Undefined
  <2>1. Distance(m, b, k) \in 0..m
    BY DistanceLemma
  <2>2. CASE k = b
    <3>1. Distance(m, c, k) = m
      BY <2>2 DEF Distance
    <3>. HIDE DEF c
    <3>. QED  BY <1>1, <2>2, <3>1
  <2>3. CASE k # b
    <3>1. Distance(m, c, k) = Distance(m, b, k) - 1
      BY <2>3 DEF Distance
    <3>2. IF Distance(m, b, k) < n THEN buf[k] = lg[from + 1 + Distance(m, b, k)]
                                   ELSE buf[k] = Undefined
      BY <1>1, ContentsLemma
    <3>3. from + 1 + Distance(m, b, k) = from + 1 + 1 + Distance(m, c, k)
      BY <2>1, <3>1
    <3>4. after[k] = buf[k]
      BY <2>3
    <3>. HIDE DEF c, after
    <3>. QED  BY <2>1, <3>1, <3>2, <3>3, <3>4
  <2>. QED  BY <2>2, <2>3
<1>4. Contents(lg, after, m, c, from + 1, n - 1)
  BY <1>3 DEF Contents
<1>5. after \in [0..m -> Slot \cup {Undefined}] /\ c \in 0..m
  OBVIOUS
<1>. HIDE DEF after, c
<1>. QED  BY <1>1, <1>2, <1>4, <1>5 DEF Holds, Shape, Ring
\* A new ring holds nothing, wherever the numbering has got to.
LEMMA NewRingLemma ==
    ASSUME NEW lg \in Seq(Slot), NEW hwm \in Nat \ {0}, NEW from \in Nat, from <= Len(lg)
    PROVE  Holds(lg, NewRing(hwm), from, 0)
<1>. DEFINE m == hwm - 1  buf == [k \in 0..m |-> Undefined]
<1>1. m \in Nat /\ NewRing(hwm) = Ring(buf, m, 0, 0) /\ buf \in [0..m -> Slot \cup {Undefined}]
  BY DEF NewRing, Ring
<1>2. Place(m, 0, 0) = 0
  BY <1>1 DEF Place
<1>3. ASSUME NEW k \in 0..m
      PROVE  ~(Distance(m, 0, k) < 0) /\ buf[k] = Undefined
  <2>1. m \in Nat /\ 0 \in 0..m
    BY <1>1
  <2>2. Distance(m, 0, k) \in 0..m
    BY <2>1, DistanceLemma
  <2>. QED  BY <2>1, <2>2
<1>. HIDE DEF m, buf
<1>. QED  BY <1>1, <1>2, <1>3 DEF Holds, Shape, Contents, Ring

\* An empty ring is so under every numbering.
LEMMA NothingLemma ==
    ASSUME NEW lg \in Seq(Slot), NEW ring, NEW from \in Nat, NEW to \in Nat, Holds(lg, ring, from, 0),
           NEW lg2 \in Seq(Slot), to <= Len(lg2)
    PROVE  Holds(lg2, ring, to, 0)
<1>1. /\ ring.mask \in Nat /\ ring.btm \in 0..ring.mask
      /\ Shape(lg, ring, ring.mask, ring.buffer, ring.btm, from, 0)
  BY DEF Holds
<1>2. ASSUME NEW k \in 0..ring.mask
      PROVE  ring.buffer[k] = Undefined /\ ~(Distance(ring.mask, ring.btm, k) < 0)
  <2>1. Distance(ring.mask, ring.btm, k) \in 0..ring.mask
    BY <1>1, DistanceLemma
  <2>. QED  BY <1>1, <2>1 DEF Shape, Contents
<1>. QED  BY <1>1, <1>2 DEF Holds, Shape, Contents

\* What a ring holds stays what it is when the lg grows.
LEMMA KeepLemma ==
    ASSUME NEW lg \in Seq(Slot), NEW ring, NEW from \in Nat, NEW n \in Nat, Holds(lg, ring, from, n),
           NEW slot \in Slot
    PROVE  Holds(Append(lg, slot), ring, from, n)
<1>0. PICK m \in Nat : \E b \in 0..m, buf \in [0..m -> Slot \cup {Undefined}] :
                          Shape(lg, ring, m, buf, b, from, n)
  BY DEF Holds
<1>1. PICK b \in 0..m, buf \in [0..m -> Slot \cup {Undefined}] :
         /\ ring = Ring(buf, m, Place(m, b, n), b)
         /\ n <= m + 1 /\ from + n <= Len(lg)
         /\ Contents(lg, buf, m, b, from, n)
  BY <1>0 DEF Shape
<1>2. Len(Append(lg, slot)) = Len(lg) + 1 /\ \A j \in 1..Len(lg) : Append(lg, slot)[j] = lg[j]
  OBVIOUS
<1>3. ASSUME NEW k \in 0..m
      PROVE  buf[k] = IF Distance(m, b, k) < n THEN Append(lg, slot)[from + 1 + Distance(m, b, k)]
                                               ELSE Undefined
  <2>1. IF Distance(m, b, k) < n
        THEN /\ buf[k] = lg[from + 1 + Distance(m, b, k)]
             /\ from + 1 + Distance(m, b, k) \in 1..Len(lg)
        ELSE buf[k] = Undefined
    <3>1. n <= m + 1 /\ from + n <= Len(lg) /\ Contents(lg, buf, m, b, from, n)
      BY <1>1
    <3>2. Distance(m, b, k) \in 0..m
      BY DistanceLemma
    <3>3. buf[k] = IF Distance(m, b, k) < n THEN lg[from + 1 + Distance(m, b, k)] ELSE Undefined
      BY <3>1 DEF Contents
    <3>. QED  BY <3>1, <3>2, <3>3
  <2>. QED  BY <1>2, <2>1
<1>4. Contents(Append(lg, slot), buf, m, b, from, n)
  BY <1>3 DEF Contents
<1>. QED  BY <1>1, <1>2, <1>4 DEF Holds, Shape, Ring

------------------------------------------------------------------------------
(* The chain *)

AnyRing == UNION {[buffer : [0..m -> Slot \cup {Undefined}], mask : {m}, top : 0..m, btm : 0..m] :
                     m \in Nat}

\* Ring n of the chain rs holds the slots numbered from off[n] + 1 to off[n + 1];
\* together they hold all those after from, and no ring behind the tail is empty.
Linked(lg, rs, off, from) ==
    /\ off[1] = from /\ off[Len(rs) + 1] = Len(lg)
    /\ \A n \in 1..Len(rs) : /\ off[n] \in 0..Len(lg) /\ off[n + 1] \in 0..Len(lg)
                             /\ off[n] <= off[n + 1]
                             /\ Holds(lg, rs[n], off[n], off[n + 1] - off[n])
    /\ \A n \in 2..Len(rs) : off[n] # off[n + 1]

Chain(lg, rs, from) ==
    /\ rs \in Seq(AnyRing) /\ Len(rs) > 0
    /\ \E off \in [1..(Len(rs) + 1) -> 0..Len(lg)] : Linked(lg, rs, off, from)

LEMMA HoldsIsRing ==
    ASSUME NEW lg \in Seq(Slot), NEW ring, NEW from \in Nat, NEW n \in Nat, Holds(lg, ring, from, n)
    PROVE  ring \in AnyRing
<1>0. PICK m \in Nat : \E b \in 0..m, buf \in [0..m -> Slot \cup {Undefined}] :
                          Shape(lg, ring, m, buf, b, from, n)
  BY DEF Holds
<1>1. PICK b \in 0..m, buf \in [0..m -> Slot \cup {Undefined}] :
         ring = Ring(buf, m, Place(m, b, n), b) /\ n <= m + 1
  BY <1>0 DEF Shape
<1>2. Place(m, b, n) \in 0..m
  BY <1>1, PlaceLemma
<1>3. ring \in [buffer : [0..m -> Slot \cup {Undefined}], mask : {m}, top : 0..m, btm : 0..m]
  BY <1>1, <1>2 DEF Ring
<1>. QED  BY <1>3 DEF AnyRing
\* The first ring of a chain whose tail is empty, and of one whose tail is not.
LEMMA TailLemma ==
    ASSUME NEW lg \in Seq(Slot), NEW rs, NEW from \in Nat, Chain(lg, rs, from)
    PROVE  /\ from <= Len(lg)
           /\ IsEmpty(rs[1]) /\ Len(rs) = 1 => from = Len(lg)
           /\ ~IsEmpty(rs[1]) => from < Len(lg) /\ rs[1].buffer[rs[1].btm] = lg[from + 1]
<1>1. PICK off \in [1..(Len(rs) + 1) -> 0..Len(lg)] : Linked(lg, rs, off, from)
  BY DEF Chain
<1>2. rs \in Seq(AnyRing) /\ Len(rs) \in Nat /\ Len(rs) > 0 /\ Len(lg) \in Nat
  BY DEF Chain
<1>3. /\ off[1] = from /\ off[2] \in 0..Len(lg) /\ off[1] <= off[2]
      /\ Holds(lg, rs[1], off[1], off[2] - off[1])
      /\ off[Len(rs) + 1] = Len(lg)
  BY <1>1, <1>2 DEF Linked
<1>4. off[2] - off[1] \in Nat /\ off[1] \in Nat
  BY <1>3
<1>5. /\ IsEmpty(rs[1]) <=> off[2] - off[1] = 0
      /\ off[2] - off[1] > 0 => rs[1].buffer[rs[1].btm] = lg[off[1] + 1]
  BY <1>3, <1>4, EmptyLemma
<1>6. CASE IsEmpty(rs[1])
  <2>1. off[2] = from
    BY <1>3, <1>4, <1>5, <1>6
  <2>2. from <= Len(lg)
    BY <1>3, <2>1
  <2>3. Len(rs) = 1 => off[2] = Len(lg)
    BY <1>3
  <2>. QED  BY <1>6, <2>1, <2>2, <2>3
<1>7. CASE ~IsEmpty(rs[1])
  <2>1. off[2] - off[1] > 0
    BY <1>4, <1>5, <1>7
  <2>2. from < Len(lg)
    BY <1>2, <1>3, <2>1
  <2>. QED  BY <1>3, <1>5, <1>7, <2>1, <2>2
<1>. QED  BY <1>6, <1>7

\* An empty tail that has a successor can be left behind, and the successor is not empty.
LEMMA LeaveLemma ==
    ASSUME NEW lg \in Seq(Slot), NEW rs, NEW from \in Nat, Chain(lg, rs, from),
           IsEmpty(rs[1]), Len(rs) > 1
    PROVE  Chain(lg, Tail(rs), from) /\ ~IsEmpty(Tail(rs)[1])
<1>1. PICK off \in [1..(Len(rs) + 1) -> 0..Len(lg)] : Linked(lg, rs, off, from)
  BY DEF Chain
<1>2. rs \in Seq(AnyRing) /\ Len(rs) \in Nat /\ rs # <<>>
  BY DEF Chain
<1>. DEFINE k == Len(rs) - 1  off2 == [n \in 1..(k + 1) |-> off[n + 1]]
<1>3. /\ Tail(rs) \in Seq(AnyRing) /\ Len(Tail(rs)) = k /\ k \in Nat /\ k > 0
      /\ \A n \in 1..k : Tail(rs)[n] = rs[n + 1]
  BY <1>2, HeadTailProperties
<1>4. /\ off[1] = from /\ off[Len(rs) + 1] = Len(lg)
      /\ \A n \in 1..Len(rs) : /\ off[n] \in 0..Len(lg) /\ off[n + 1] \in 0..Len(lg)
                               /\ off[n] <= off[n + 1]
                               /\ Holds(lg, rs[n], off[n], off[n + 1] - off[n])
      /\ \A n \in 2..Len(rs) : off[n] # off[n + 1]
  BY <1>1 DEF Linked
<1>5. off[2] = from
  <2>1. off[1] \in Nat /\ off[2] - off[1] \in Nat /\ Holds(lg, rs[1], off[1], off[2] - off[1])
    BY <1>2, <1>3, <1>4
  <2>2. off[2] - off[1] = 0
    BY <2>1, EmptyLemma
  <2>. QED  BY <1>4, <2>1, <2>2
<1>6. off2 \in [1..(k + 1) -> 0..Len(lg)] /\ off2 \in [1..(k + 1) -> Nat]
  BY <1>3
<1>7. /\ off2[1] = from /\ off2[k + 1] = Len(lg)
      /\ \A n \in 1..k : off2[n] = off[n + 1] /\ off2[n + 1] = off[n + 2]
  BY <1>3, <1>4, <1>5
<1>8. /\ \A n \in 1..k : /\ off2[n] <= off2[n + 1]
                         /\ Holds(lg, Tail(rs)[n], off2[n], off2[n + 1] - off2[n])
                         /\ off2[n] # off2[n + 1]
  <2>1. SUFFICES ASSUME NEW n \in 1..k
                 PROVE  /\ off2[n] <= off2[n + 1]
                        /\ Holds(lg, Tail(rs)[n], off2[n], off2[n + 1] - off2[n])
                        /\ off2[n] # off2[n + 1]
    OBVIOUS
  <2>2. n + 1 \in 2..Len(rs) /\ n + 1 \in 1..Len(rs) /\ n + 1 + 1 = n + 2
    BY <1>3
  <2>. HIDE DEF off2, k
  <2>. QED  BY <1>3, <1>4, <1>7, <2>2
<1>9. Chain(lg, Tail(rs), from)
  <2>. HIDE DEF off2, k
  <2>1. Linked(lg, Tail(rs), off2, from)
    <3>1. \A n \in 1..k : off2[n] \in 0..Len(lg) /\ off2[n + 1] \in 0..Len(lg)
      BY <1>3, <1>6
    <3>2. \A n \in 2..k : n \in 1..k
      BY <1>3
    <3>3. Len(Tail(rs)) = k
      BY <1>3
    <3>4. off2[1] = from /\ off2[k + 1] = Len(lg)
      BY <1>7
    <3>. QED  BY <1>8, <3>1, <3>2, <3>3, <3>4, Zenon DEF Linked
  <2>. QED  BY <1>3, <1>6, <2>1 DEF Chain
<1>10. ~IsEmpty(Tail(rs)[1])
  <2>1. /\ off2[1] \in Nat /\ off2[2] \in Nat /\ off2[2] - off2[1] > 0
        /\ Holds(lg, Tail(rs)[1], off2[1], off2[2] - off2[1])
    <3>1. 1 \in 1..k /\ 1 \in 1..(k + 1) /\ 2 \in 1..(k + 1)
      BY <1>3
    <3>. HIDE DEF off2, k
    <3>. QED  BY <1>6, <1>8, <3>1
  <2>2. off2[2] - off2[1] \in Nat /\ off2[2] - off2[1] # 0
    BY <2>1
  <2>. HIDE DEF off2, k
  <2>. QED  BY <2>1, <2>2, EmptyLemma
<1>. QED  BY <1>9, <1>10

\* Taking the oldest slot out of the tail.
LEMMA TakeLemma ==
    ASSUME NEW lg \in Seq(Slot), NEW rs, NEW from \in Nat, Chain(lg, rs, from), ~IsEmpty(rs[1])
    PROVE  Chain(lg, [rs EXCEPT ![1] = RingShift(rs[1])], from + 1)
<1>1. PICK off \in [1..(Len(rs) + 1) -> 0..Len(lg)] : Linked(lg, rs, off, from)
  BY DEF Chain
<1>. DEFINE k == Len(rs)  rs2 == [rs EXCEPT ![1] = RingShift(rs[1])]
            off2 == [off EXCEPT ![1] = from + 1]
<1>2. rs \in Seq(AnyRing) /\ k \in Nat /\ k > 0 /\ 1 \in 1..k
  BY DEF Chain
<1>3. /\ off[1] = from /\ off[k + 1] = Len(lg)
      /\ \A n \in 1..k : /\ off[n] \in 0..Len(lg) /\ off[n + 1] \in 0..Len(lg)
                         /\ off[n] <= off[n + 1]
                         /\ Holds(lg, rs[n], off[n], off[n + 1] - off[n])
      /\ \A n \in 2..k : off[n] # off[n + 1]
  BY <1>1 DEF Linked
<1>4. off[2] \in 0..Len(lg) /\ off[2] - from \in Nat /\ Holds(lg, rs[1], from, off[2] - from)
  BY <1>2, <1>3
<1>5. off[2] - from > 0
  BY <1>4, EmptyLemma
<1>6. Holds(lg, RingShift(rs[1]), from + 1, off[2] - (from + 1))
  <2>1. Holds(lg, RingShift(rs[1]), from + 1, off[2] - from - 1)
    BY <1>4, <1>5, ShiftLemma
  <2>2. off[2] - from - 1 = off[2] - (from + 1)
    BY <1>4
  <2>. QED  BY <2>1, <2>2
<1>7. /\ rs2 \in Seq(AnyRing) /\ Len(rs2) = k /\ rs2[1] = RingShift(rs[1])
      /\ \A n \in 2..k : rs2[n] = rs[n]
  <2>1. from + 1 \in Nat /\ off[2] - (from + 1) \in Nat
    BY <1>4, <1>5
  <2>2. RingShift(rs[1]) \in AnyRing
    BY <1>6, <2>1, HoldsIsRing
  <2>. QED  BY <1>2, <2>2, ExceptSeq
<1>8. /\ off2 \in [1..(k + 1) -> 0..Len(lg)] /\ off2[1] = from + 1
      /\ \A n \in 2..(k + 1) : off2[n] = off[n]
  BY <1>2, <1>4, <1>5
<1>9. ASSUME NEW n \in 1..k
      PROVE  off2[n] <= off2[n + 1] /\ Holds(lg, rs2[n], off2[n], off2[n + 1] - off2[n])
  <2>1. n + 1 \in 2..(k + 1) /\ (n = 1 \/ n \in 2..k) /\ (n \in 2..k => n \in 2..(k + 1))
    BY <1>2
  <2>. HIDE DEF k, off2, rs2
  <2>2. CASE n = 1
    BY <1>4, <1>5, <1>6, <1>7, <1>8, <2>1, <2>2
  <2>3. CASE n \in 2..k
    BY <1>3, <1>7, <1>8, <2>1, <2>3
  <2>. QED  BY <2>1, <2>2, <2>3
<1>10. \A n \in 2..k : off2[n] # off2[n + 1]
  <2>1. \A n \in 2..k : n \in 2..(k + 1) /\ n + 1 \in 2..(k + 1)
    BY <1>2
  <2>. HIDE DEF k, off2
  <2>. QED  BY <1>3, <1>8, <2>1
<1>11. off2[k + 1] = Len(lg)
  BY <1>2, <1>3, <1>8
<1>12. Linked(lg, rs2, off2, from + 1)
  <2>1. off2 \in [1..(k + 1) -> Nat]
    BY <1>8
  <2>. HIDE DEF k, off2, rs2
  <2>. QED  BY <1>7, <1>8, <1>9, <1>10, <1>11, <2>1 DEF Linked
<1>13. Chain(lg, rs2, from + 1)
  <2>. HIDE DEF k, off2, rs2
  <2>. QED  BY <1>2, <1>7, <1>8, <1>12 DEF Chain
<1>. QED  BY <1>13
\* A full ring gets a successor of twice its length, and a slot goes to the last ring.
LEMMA GrowLemma ==
    ASSUME NEW lg \in Seq(Slot), NEW rs, NEW from \in Nat, Chain(lg, rs, from),
           NEW slot \in Slot, IsFull(rs[Len(rs)])
    PROVE  Chain(Append(lg, slot),
                 Append(rs, RingPush(NewRing(2 * Length(rs[Len(rs)])), slot)), from)
<1>1. PICK off \in [1..(Len(rs) + 1) -> 0..Len(lg)] : Linked(lg, rs, off, from)
  BY DEF Chain
<1>. DEFINE k == Len(rs)  new == NewRing(2 * Length(rs[k]))  lg2 == Append(lg, slot)
            rs2 == Append(rs, RingPush(new, slot))
            off2 == [n \in 1..(k + 2) |-> IF n <= k + 1 THEN off[n] ELSE Len(lg) + 1]
<1>2. rs \in Seq(AnyRing) /\ k \in Nat /\ k > 0
  BY DEF Chain
<1>3. /\ off[1] = from /\ off[k + 1] = Len(lg)
      /\ \A n \in 1..k : /\ off[n] \in 0..Len(lg) /\ off[n + 1] \in 0..Len(lg)
                         /\ off[n] <= off[n + 1]
                         /\ Holds(lg, rs[n], off[n], off[n + 1] - off[n])
      /\ \A n \in 2..k : off[n] # off[n + 1]
  BY <1>1 DEF Linked
<1>4. lg2 \in Seq(Slot) /\ Len(lg2) = Len(lg) + 1 /\ Len(lg) \in Nat
  OBVIOUS
<1>5. Length(rs[k]) \in Nat /\ Length(rs[k]) > 0
  <2>1. rs[k] \in AnyRing
    BY <1>2
  <2>2. rs[k].mask \in Nat
    BY <2>1 DEF AnyRing
  <2>. QED  BY <2>2 DEF Length
<1>6. Holds(lg2, RingPush(new, slot), Len(lg), 1)
  <2>1. 2 * Length(rs[k]) \in Nat \ {0}
    BY <1>5
  <2>2. Holds(lg, new, Len(lg), 0)
    BY <1>4, <2>1, NewRingLemma
  <2>3. ~IsFull(new)
    BY <2>1 DEF NewRing, IsFull
  <2>4. Holds(lg2, RingPush(new, slot), Len(lg), 0 + 1)
    BY <1>4, <2>2, <2>3, PushLemma
  <2>. QED  BY <2>4
<1>7. /\ rs2 \in Seq(AnyRing) /\ Len(rs2) = k + 1 /\ rs2[k + 1] = RingPush(new, slot)
      /\ \A n \in 1..k : rs2[n] = rs[n]
  <2>1. RingPush(new, slot) \in AnyRing
    BY <1>4, <1>6, HoldsIsRing
  <2>. HIDE DEF new
  <2>. QED  BY <1>2, <2>1, AppendProperties
<1>8. /\ off2 \in [1..(k + 2) -> 0..Len(lg2)] /\ off2[1] = from
      /\ off2[k + 1] = Len(lg) /\ off2[k + 2] = Len(lg) + 1
      /\ \A n \in 1..k : off2[n] = off[n] /\ off2[n + 1] = off[n + 1]
  BY <1>2, <1>3, <1>4
<1>9. ASSUME NEW n \in 1..(k + 1)
      PROVE  /\ off2[n] \in 0..Len(lg2) /\ off2[n + 1] \in 0..Len(lg2)
             /\ off2[n] <= off2[n + 1]
             /\ Holds(lg2, rs2[n], off2[n], off2[n + 1] - off2[n])
             /\ n > 1 => off2[n] # off2[n + 1]
  <2>1. CASE n \in 1..k
    <3>1. /\ off[n] \in Nat /\ off[n + 1] - off[n] \in Nat
          /\ Holds(lg, rs[n], off[n], off[n + 1] - off[n])
      BY <1>3, <2>1
    <3>2. Holds(lg2, rs[n], off[n], off[n + 1] - off[n])
      BY <3>1, KeepLemma
    <3>3. n > 1 => n \in 2..k
      BY <2>1
    <3>. HIDE DEF off2, rs2, k, lg2
    <3>. QED  BY <1>3, <1>4, <1>7, <1>8, <2>1, <3>2, <3>3
  <2>2. CASE n = k + 1
    <3>1. n + 1 = k + 2
      BY <1>2, <2>2
    <3>. HIDE DEF off2, rs2, k, lg2
    <3>. QED  BY <1>4, <1>6, <1>7, <1>8, <2>2, <3>1
  <2>. QED  BY <1>2, <2>1, <2>2
<1>10. Linked(lg2, rs2, off2, from)
  <2>. HIDE DEF off2, rs2, k, lg2
  <2>1. off2[Len(rs2) + 1] = Len(lg2)
    BY <1>2, <1>4, <1>7, <1>8
  <2>2. \A n \in 2..(k + 1) : n \in 1..(k + 1) /\ n > 1
    BY <1>2
  <2>. QED  BY <1>7, <1>8, <1>9, <2>1, <2>2 DEF Linked
<1>11. Chain(lg2, rs2, from)
  <2>. HIDE DEF off2, rs2, k, lg2
  <2>1. off2 \in [1..(Len(rs2) + 1) -> 0..Len(lg2)]
    BY <1>2, <1>7, <1>8
  <2>2. Len(rs2) > 0
    BY <1>2, <1>7
  <2>. QED  BY <1>7, <1>10, <2>1, <2>2, Zenon DEF Chain
<1>. QED  BY <1>11

\* A slot goes to the last ring when that is not full.
LEMMA AddLemma ==
    ASSUME NEW lg \in Seq(Slot), NEW rs, NEW from \in Nat, Chain(lg, rs, from),
           NEW slot \in Slot, ~IsFull(rs[Len(rs)])
    PROVE  Chain(Append(lg, slot), [rs EXCEPT ![Len(rs)] = RingPush(rs[Len(rs)], slot)], from)
<1>1. PICK off \in [1..(Len(rs) + 1) -> 0..Len(lg)] : Linked(lg, rs, off, from)
  BY DEF Chain
<1>. DEFINE k == Len(rs)  lg2 == Append(lg, slot)
            rs2 == [rs EXCEPT ![k] = RingPush(rs[k], slot)]
            off2 == [off EXCEPT ![k + 1] = Len(lg) + 1]
<1>2. rs \in Seq(AnyRing) /\ k \in Nat /\ k > 0 /\ k \in 1..k
  BY DEF Chain
<1>3. /\ off[1] = from /\ off[k + 1] = Len(lg)
      /\ \A n \in 1..k : /\ off[n] \in 0..Len(lg) /\ off[n + 1] \in 0..Len(lg)
                         /\ off[n] <= off[n + 1]
                         /\ Holds(lg, rs[n], off[n], off[n + 1] - off[n])
      /\ \A n \in 2..k : off[n] # off[n + 1]
  BY <1>1 DEF Linked
<1>4. lg2 \in Seq(Slot) /\ Len(lg2) = Len(lg) + 1 /\ Len(lg) \in Nat
  OBVIOUS
<1>5. /\ off[k] \in 0..Len(lg) /\ Len(lg) - off[k] \in Nat
      /\ Holds(lg, rs[k], off[k], Len(lg) - off[k])
  BY <1>2, <1>3
<1>6. Holds(lg2, RingPush(rs[k], slot), off[k], Len(lg) + 1 - off[k])
  <2>1. off[k] \in Nat /\ off[k] + (Len(lg) - off[k]) = Len(lg)
        /\ Len(lg) + 1 - off[k] = Len(lg) - off[k] + 1
    BY <1>4, <1>5
  <2>2. Holds(lg2, RingPush(rs[k], slot), off[k], Len(lg) - off[k] + 1)
    BY <1>5, <2>1, PushLemma
  <2>. QED  BY <2>1, <2>2
<1>7. /\ rs2 \in Seq(AnyRing) /\ Len(rs2) = k /\ rs2[k] = RingPush(rs[k], slot)
      /\ \A n \in 1..k : n # k => rs2[n] = rs[n]
  <2>1. off[k] \in Nat /\ Len(lg) + 1 - off[k] \in Nat
    BY <1>4, <1>5
  <2>2. RingPush(rs[k], slot) \in AnyRing
    BY <1>4, <1>6, <2>1, HoldsIsRing
  <2>. QED  BY <1>2, <2>2, ExceptSeq
<1>8. /\ off2 \in [1..(k + 1) -> 0..Len(lg2)] /\ off2[1] = from /\ off2[k + 1] = Len(lg) + 1
      /\ \A n \in 1..k : off2[n] = off[n] /\ (n # k => off2[n + 1] = off[n + 1])
  BY <1>2, <1>3, <1>4
<1>9. ASSUME NEW n \in 1..k
      PROVE  /\ off2[n] \in 0..Len(lg2) /\ off2[n + 1] \in 0..Len(lg2)
             /\ off2[n] <= off2[n + 1]
             /\ Holds(lg2, rs2[n], off2[n], off2[n + 1] - off2[n])
             /\ n > 1 => off2[n] # off2[n + 1]
  <2>1. CASE n # k
    <3>1. /\ off[n] \in Nat /\ off[n + 1] - off[n] \in Nat
          /\ Holds(lg, rs[n], off[n], off[n + 1] - off[n])
      BY <1>3
    <3>2. Holds(lg2, rs[n], off[n], off[n + 1] - off[n])
      BY <3>1, KeepLemma
    <3>3. n > 1 => n \in 2..k
      BY <2>1
    <3>. HIDE DEF off2, rs2, k, lg2
    <3>. QED  BY <1>3, <1>4, <1>7, <1>8, <2>1, <3>2, <3>3
  <2>2. CASE n = k
    <3>. HIDE DEF off2, rs2, k, lg2
    <3>. QED  BY <1>4, <1>5, <1>6, <1>7, <1>8, <2>2
  <2>. QED  BY <2>1, <2>2
<1>10. Linked(lg2, rs2, off2, from)
  <2>. HIDE DEF off2, rs2, k, lg2
  <2>1. off2[Len(rs2) + 1] = Len(lg2)
    BY <1>2, <1>4, <1>7, <1>8
  <2>. QED  BY <1>2, <1>7, <1>8, <1>9, <2>1 DEF Linked
<1>11. Chain(lg2, rs2, from)
  <2>. HIDE DEF off2, rs2, k, lg2
  <2>1. off2 \in [1..(Len(rs2) + 1) -> 0..Len(lg2)]
    BY <1>2, <1>7, <1>8
  <2>. QED  BY <1>2, <1>7, <1>10, <2>1 DEF Chain
<1>. QED  BY <1>11

\* A chain that holds nothing stays one when a slot is handed over past it.
LEMMA PastLemma ==
    ASSUME NEW lg \in Seq(Slot), NEW rs, Chain(lg, rs, Len(lg)), NEW slot \in Slot
    PROVE  Chain(Append(lg, slot), rs, Len(lg) + 1)
<1>1. PICK off \in [1..(Len(rs) + 1) -> 0..Len(lg)] : Linked(lg, rs, off, Len(lg))
  BY DEF Chain
<1>. DEFINE k == Len(rs)  lg2 == Append(lg, slot)
            off2 == [n \in 1..(k + 1) |-> Len(lg) + 1]
<1>2. rs \in Seq(AnyRing) /\ k \in Nat /\ k > 0
  BY DEF Chain
<1>3. lg2 \in Seq(Slot) /\ Len(lg2) = Len(lg) + 1 /\ Len(lg) \in Nat
  OBVIOUS
<1>4. /\ off[1] = Len(lg) /\ off[k + 1] = Len(lg)
      /\ \A n \in 1..k : /\ off[n] \in 0..Len(lg) /\ off[n + 1] \in 0..Len(lg)
                         /\ off[n] <= off[n + 1]
                         /\ Holds(lg, rs[n], off[n], off[n + 1] - off[n])
      /\ \A n \in 2..k : off[n] # off[n + 1]
  BY <1>1 DEF Linked
<1>5. k = 1
  <2>1. SUFFICES ASSUME NEW j \in Nat, j = k, j # 1  PROVE FALSE
    BY <1>2
  <2>2. off[2] = Len(lg) /\ off[3] = Len(lg)
    <3>1. 1 \in 1..k /\ 2 \in 1..k /\ 1 + 1 = 2 /\ 2 + 1 = 3
      BY <1>2, <2>1
    <3>2. off[2] \in 0..Len(lg) /\ off[3] \in 0..Len(lg) /\ off[1] <= off[2] /\ off[2] <= off[3]
      BY <1>4, <3>1
    <3>. QED  BY <1>3, <1>4, <3>2
  <2>. QED  BY <1>2, <1>4, <2>1, <2>2
<1>6. Holds(lg, rs[1], Len(lg), 0)
  <2>1. Holds(lg, rs[1], off[1], off[1 + 1] - off[1]) /\ off[1 + 1] = Len(lg)
    BY <1>4, <1>5
  <2>2. off[1 + 1] - off[1] = 0
    BY <1>3, <1>4, <2>1
  <2>. QED  BY <1>4, <2>1, <2>2
<1>7. Holds(lg2, rs[1], Len(lg) + 1, 0)
  <2>1. Len(lg) + 1 \in Nat /\ Len(lg) + 1 <= Len(lg2)
    BY <1>3
  <2>. HIDE DEF lg2
  <2>. QED  BY <1>3, <1>6, <2>1, NothingLemma, Zenon
<1>8. /\ off2 \in [1..(k + 1) -> 0..Len(lg2)]
      /\ off2[1] = Len(lg) + 1 /\ off2[2] = Len(lg) + 1
  BY <1>3, <1>5
<1>9. Linked(lg2, rs, off2, Len(lg) + 1)
  <2>. HIDE DEF off2, lg2
  <2>1. off2[2] - off2[1] = 0 /\ Len(lg) + 1 \in 0..Len(lg2)
    BY <1>3, <1>8
  <2>. QED  BY <1>3, <1>5, <1>7, <1>8, <2>1 DEF Linked
<1>10. Chain(lg2, rs, Len(lg) + 1)
  <2>. HIDE DEF off2, lg2
  <2>. QED  BY <1>2, <1>8, <1>9 DEF Chain
<1>. QED  BY <1>10
------------------------------------------------------------------------------
(* What is left of the log *)

LEMMA PutLemma ==
    ASSUME NEW lg \in Seq(Slot), NEW t \in Nat, t <= Len(lg), NEW slot \in Slot
    PROVE  SubSeq(Append(lg, slot), t + 1, Len(lg) + 1) = Append(SubSeq(lg, t + 1, Len(lg)), slot)
<1>. DEFINE lg2 == Append(lg, slot)  q == SubSeq(lg, t + 1, Len(lg))
            q2 == SubSeq(lg2, t + 1, Len(lg) + 1)
<1>1. /\ lg2 \in Seq(Slot) /\ Len(lg2) = Len(lg) + 1 /\ lg2[Len(lg) + 1] = slot
      /\ \A j \in 1..Len(lg) : lg2[j] = lg[j]
      /\ Len(lg) \in Nat
  BY AppendProperties
<1>2. /\ q \in Seq(Slot) /\ Len(q) = Len(lg) - t
      /\ \A j \in 1..(Len(lg) - t) : q[j] = lg[t + j]
  <2>1. \A j \in (t + 1)..Len(lg) : lg[j] \in Slot
    BY <1>1
  <2>2. /\ q \in Seq(Slot) /\ Len(q) = IF t + 1 <= Len(lg) THEN Len(lg) - (t + 1) + 1 ELSE 0
        /\ \A j \in 1..(Len(lg) - (t + 1) + 1) : q[j] = lg[t + 1 + j - 1]
    BY <1>1, <2>1, SubSeqProperties
  <2>. HIDE DEF q
  <2>. QED  BY <1>1, <2>2
<1>3. /\ q2 \in Seq(Slot) /\ Len(q2) = Len(lg) - t + 1
      /\ \A j \in 1..(Len(lg) - t + 1) : q2[j] = lg2[t + j]
  <2>1. \A j \in (t + 1)..(Len(lg) + 1) : lg2[j] \in Slot
    BY <1>1
  <2>2. /\ q2 \in Seq(Slot)
        /\ Len(q2) = IF t + 1 <= Len(lg) + 1 THEN Len(lg) + 1 - (t + 1) + 1 ELSE 0
        /\ \A j \in 1..(Len(lg) + 1 - (t + 1) + 1) : q2[j] = lg2[t + 1 + j - 1]
    BY <1>1, <2>1, SubSeqProperties
  <2>3. t + 1 <= Len(lg) + 1 /\ Len(lg) + 1 - (t + 1) + 1 = Len(lg) - t + 1
    BY <1>1
  <2>4. \A j \in 1..(Len(lg) - t + 1) : t + 1 + j - 1 = t + j
    BY <1>1
  <2>. HIDE DEF q2, lg2
  <2>. QED  BY <2>2, <2>3, <2>4
<1>4. /\ Append(q, slot) \in Seq(Slot) /\ Len(Append(q, slot)) = Len(lg) - t + 1
      /\ \A j \in 1..(Len(lg) - t) : Append(q, slot)[j] = q[j]
      /\ Append(q, slot)[Len(lg) - t + 1] = slot
  <2>. HIDE DEF q
  <2>. QED  BY <1>2, AppendProperties
<1>5. ASSUME NEW j \in 1..(Len(lg) - t + 1)
      PROVE  q2[j] = Append(q, slot)[j]
  <2>. HIDE DEF q, q2, lg2
  <2>1. CASE j = Len(lg) - t + 1
    <3>1. q2[j] = lg2[t + j] /\ t + j = Len(lg) + 1
      BY <1>1, <1>3, <2>1
    <3>. QED  BY <1>1, <1>4, <2>1, <3>1
  <2>2. CASE j # Len(lg) - t + 1
    <3>1. j \in 1..(Len(lg) - t) /\ t + j \in 1..Len(lg)
      BY <1>1, <2>2
    <3>. QED  BY <1>1, <1>2, <1>3, <1>4, <3>1
  <2>. QED  BY <2>1, <2>2
<1>. HIDE DEF q, q2, lg2
<1>6. q2 = Append(q, slot)
  BY <1>3, <1>4, <1>5, SeqEqual
<1>. QED  BY <1>6 DEF q, q2, lg2

LEMMA GetLemma ==
    ASSUME NEW lg \in Seq(Slot), NEW t \in Nat, t < Len(lg)
    PROVE  /\ SubSeq(lg, t + 1, Len(lg)) # <<>>
           /\ Head(SubSeq(lg, t + 1, Len(lg))) = lg[t + 1]
           /\ Tail(SubSeq(lg, t + 1, Len(lg))) = SubSeq(lg, t + 1 + 1, Len(lg))
           /\ lg[t + 1] \in Slot
<1>1. t + 1 \in 1..Len(lg) /\ Len(lg) \in (t + 1)..Len(lg)
  OBVIOUS
<1>2. /\ Head(SubSeq(lg, t + 1, Len(lg))) = lg[t + 1]
      /\ Tail(SubSeq(lg, t + 1, Len(lg))) = SubSeq(lg, t + 1 + 1, Len(lg))
  BY <1>1, HeadTailOfSubSeq
<1>3. SubSeq(lg, t + 1, Len(lg)) # <<>>
  <2>1. \A j \in (t + 1)..Len(lg) : lg[j] \in Slot
    OBVIOUS
  <2>2. Len(SubSeq(lg, t + 1, Len(lg))) = IF t + 1 <= Len(lg) THEN Len(lg) - (t + 1) + 1 ELSE 0
    BY <1>1, <2>1, SubSeqProperties
  <2>3. Len(SubSeq(lg, t + 1, Len(lg))) > 0
    BY <1>1, <2>2
  <2>. QED  BY <2>3, EmptySeq
<1>. QED  BY <1>1, <1>2, <1>3
------------------------------------------------------------------------------
(* The invariant *)

\* Without the rings.
TypeInv ==
    /\ resolve \in BOOLEAN /\ closed \in BOOLEAN
    /\ settled \in Slot \cup {Undefined}
    /\ consumer \in {"running", "waiting", "done", "failed", "returned"}
    /\ received \in Seq(Item) /\ log \in Seq(Slot)

\* A promise is made when nothing is left, and given the slot that comes next.
PromiseInv ==
    /\ consumer = "waiting" <=> resolve \/ settled # Undefined
    /\ resolve => settled = Undefined /\ Taken = Len(log)
    /\ settled # Undefined => Taken < Len(log) /\ settled = log[Taken + 1]

\* The slots that have left the rings.
Left == Taken + (IF settled # Undefined THEN 1 ELSE 0)

FInv == TypeInv /\ PromiseInv /\ Chain(log, rings, Left)

LEMMA FifoInit == Init => FInv
<1>. SUFFICES ASSUME Init  PROVE FInv
  OBVIOUS
<1>. USE DEF Init
<1>1. /\ Taken = 0 /\ Left = 0 /\ Len(log) = 0 /\ log \in Seq(Slot) /\ received \in Seq(Item)
  BY EmptySeq DEF Taken, Left
<1>2. TypeInv /\ PromiseInv
  BY <1>1 DEF TypeInv, PromiseInv
<1>3. Holds(log, NewRing(Hwm), 0, 0)
  <2>1. Hwm \in Nat \ {0} /\ 0 \in Nat /\ 0 <= Len(log)
    BY <1>1, HwmAssumption
  <2>. QED  BY <1>1, <2>1, NewRingLemma, Zenon
<1>4. Chain(log, rings, 0)
  <2>. DEFINE off == [n \in 1..2 |-> 0]
  <2>1. NewRing(Hwm) \in AnyRing
    BY <1>1, <1>3, HoldsIsRing
  <2>2. rings \in Seq(AnyRing) /\ Len(rings) = 1 /\ rings[1] = NewRing(Hwm)
    BY <2>1
  <2>3. off[1] = 0 /\ off[2] = 0 /\ off \in [1..2 -> 0..Len(log)]
    BY <1>1
  <2>. HIDE DEF off
  <2>4. Linked(log, rings, off, 0)
    BY <1>1, <1>3, <2>2, <2>3 DEF Linked
  <2>. QED  BY <2>2, <2>3, <2>4 DEF Chain
<1>. QED  BY <1>1, <1>2, <1>4 DEF FInv

LEMMA TakenType ==
    ASSUME FInv
    PROVE  Taken \in Nat /\ Left \in Nat /\ Len(log) \in Nat /\ Left <= Len(log) /\ Taken <= Left
<1>1. Taken \in Nat /\ Len(log) \in Nat /\ log \in Seq(Slot)
  BY DEF FInv, TypeInv, Taken
<1>2. Left \in Nat /\ Taken <= Left
  BY <1>1 DEF Left
<1>3. Left <= Len(log)
  BY <1>1, <1>2, TailLemma DEF FInv
<1>. QED  BY <1>1, <1>2, <1>3

\* A slot enqueued goes to the end of what is left.
LEMMA EnqueueStep ==
    ASSUME FInv, NEW slot \in Slot, Enqueue(slot), UNCHANGED <<consumer, received>>,
           closed' \in BOOLEAN
    PROVE  FInv' /\ Queue' = Append(Queue, slot)
<1>1. /\ Taken \in Nat /\ Left \in Nat /\ Len(log) \in Nat
      /\ Left <= Len(log) /\ Taken <= Left
  BY TakenType
<1>2. log \in Seq(Slot) /\ Chain(log, rings, Left)
  BY DEF FInv, TypeInv
<1>3. Taken' = Taken /\ log' = Append(log, slot)
  BY DEF Taken, Enqueue
<1>4. /\ log' \in Seq(Slot) /\ Len(log') = Len(log) + 1 /\ log'[Len(log) + 1] = slot
      /\ \A j \in 1..Len(log) : log'[j] = log[j]
  BY <1>2, <1>3, AppendProperties
<1>5. slot # Undefined
  BY SlotAssumption DEF Slot
<1>6. Queue' = Append(Queue, slot)
  <2>1. Taken <= Len(log)
    BY <1>1
  <2>2. SubSeq(Append(log, slot), Taken + 1, Len(log) + 1) = Append(Queue, slot)
    BY <1>1, <1>2, <2>1, PutLemma, Zenon DEF Queue
  <2>3. Queue' = SubSeq(log', Taken' + 1, Len(log'))
    BY Zenon DEF Queue
  <2>. QED  BY <1>3, <1>4, <2>2, <2>3
<1>7. TypeInv'
  BY <1>4 DEF FInv, TypeInv, Enqueue, Buffer
<1>8. CASE resolve
  <2>1. /\ settled = Undefined /\ Taken = Len(log) /\ Left = Len(log)
        /\ resolve' = FALSE /\ settled' = slot /\ rings' = rings
    BY <1>1, <1>8 DEF FInv, PromiseInv, Left, Enqueue
  <2>2. Left' = Len(log) + 1
    BY <1>3, <1>5, <2>1 DEF Left
  <2>3. PromiseInv'
    BY <1>3, <1>4, <1>5, <1>8, <2>1 DEF FInv, PromiseInv
  <2>4. Chain(log', rings', Left')
    BY <1>2, <1>3, <2>1, <2>2, PastLemma
  <2>. QED  BY <1>6, <1>7, <2>3, <2>4 DEF FInv
<1>9. CASE ~resolve
  <2>1. UNCHANGED <<resolve, settled>> /\ Buffer(slot)
    BY <1>9 DEF Enqueue
  <2>2. Left' = Left
    BY <1>3, <2>1 DEF Left
  <2>3. PromiseInv'
    BY <1>1, <1>3, <1>4, <1>9, <2>1 DEF FInv, PromiseInv
  <2>4. Chain(log', rings', Left')
    <3>1. CASE IsFull(rings[Len(rings)])
      <4>1. rings' = Append(rings, RingPush(NewRing(2 * Length(rings[Len(rings)])), slot))
        BY <2>1, <3>1 DEF Buffer, Grow, Newest
      <4>. QED  BY <1>1, <1>2, <1>3, <2>2, <3>1, <4>1, GrowLemma
    <3>2. CASE ~IsFull(rings[Len(rings)])
      <4>1. rings' = [rings EXCEPT ![Len(rings)] = RingPush(rings[Len(rings)], slot)]
        BY <2>1, <3>2 DEF Buffer, Newest
      <4>. QED  BY <1>1, <1>2, <1>3, <2>2, <3>2, <4>1, AddLemma
    <3>. QED  BY <3>1, <3>2
  <2>. QED  BY <1>6, <1>7, <2>3, <2>4 DEF FInv
<1>. QED  BY <1>8, <1>9

\* A slot delivered is the first of what is left.
LEMMA DeliverStep ==
    ASSUME FInv, Taken < Len(log), consumer \in {"running", "waiting"},
           Deliver(log[Taken + 1]), UNCHANGED log
    PROVE  /\ Taken' = Taken + 1
           /\ received' \in Seq(Item)
           /\ consumer' \in {"running", "done", "failed"}
           /\ Queue # <<>> /\ Queue' = Tail(Queue) /\ Deliver(Head(Queue))
<1>1. Taken \in Nat /\ log \in Seq(Slot) /\ received \in Seq(Item)
  BY TakenType DEF FInv, TypeInv
<1>2. Taken = Len(received)
  BY <1>1 DEF Taken
<1>3. /\ Taken' = Taken + 1
      /\ received' \in Seq(Item)
      /\ consumer' \in {"running", "done", "failed"}
  <2>1. CASE log[Taken + 1] \in Item
    <3>1. consumer' = "running" /\ received' = Append(received, log[Taken + 1])
      BY <2>1 DEF Deliver
    <3>2. received' \in Seq(Item) /\ Len(received') = Len(received) + 1
      BY <1>1, <2>1, <3>1, AppendProperties
    <3>. QED  BY <1>1, <1>2, <3>1, <3>2 DEF Taken
  <2>2. CASE log[Taken + 1] \notin Item
    <3>1. consumer' \in {"done", "failed"} /\ received' = received
      BY <2>2 DEF Deliver
    <3>. QED  BY <1>1, <1>2, <3>1 DEF Taken
  <2>. QED  BY <2>1, <2>2
<1>4. /\ Queue # <<>> /\ Head(Queue) = log[Taken + 1]
      /\ Tail(Queue) = SubSeq(log, Taken + 1 + 1, Len(log))
  BY <1>1, GetLemma DEF Queue
<1>5. Queue' = SubSeq(log, Taken + 1 + 1, Len(log))
  BY <1>3 DEF Queue
<1>. QED  BY <1>3, <1>4, <1>5
LEMMA TakeStep ==
    ASSUME FInv, Take
    PROVE  /\ FInv' /\ closed' = closed
           /\ \/ Queue' = Queue /\ UNCHANGED received /\ consumer = "running" /\ consumer' = "waiting"
              \/ /\ consumer = "running" /\ Deliver(Head(Queue))
                 /\ Queue # <<>> /\ Queue' = Tail(Queue)
<1>. DEFINE rs == Readable
<1>1. /\ Taken \in Nat /\ Left \in Nat /\ Len(log) \in Nat
      /\ log \in Seq(Slot) /\ Chain(log, rings, Left)
  BY TakenType DEF FInv, TypeInv
<1>2. /\ consumer = "running" /\ ~resolve /\ settled = Undefined /\ Left = Taken
      /\ UNCHANGED <<settled, closed, log>>
  BY <1>1 DEF Take, FInv, PromiseInv, Left
<1>3. Chain(log, rs, Taken) /\ (IsEmpty(rs[1]) => Len(rs) = 1)
  <2>1. rings \in Seq(AnyRing) /\ Len(rings) \in Nat /\ Len(rings) > 0 /\ Head(rings) = rings[1]
    BY <1>1 DEF Chain
  <2>2. CASE IsEmpty(Head(rings)) /\ Len(rings) > 1
    <3>1. Chain(log, Tail(rings), Left) /\ ~IsEmpty(Tail(rings)[1])
      BY <1>1, <2>1, <2>2, LeaveLemma
    <3>. QED  BY <1>2, <2>2, <3>1 DEF Readable
  <2>3. CASE ~(IsEmpty(Head(rings)) /\ Len(rings) > 1)
    <3>1. rs = rings
      BY <2>3 DEF Readable
    <3>2. \A j \in Nat : j > 0 /\ ~(j > 1) => j = 1
      OBVIOUS
    <3>3. IsEmpty(rings[1]) => ~(Len(rings) > 1)
      BY <2>1, <2>3, Zenon
    <3>4. IsEmpty(rings[1]) => Len(rings) = 1
      BY <2>1, <3>2, <3>3, Zenon
    <3>. HIDE DEF rs
    <3>. QED  BY <1>1, <1>2, <3>1, <3>4
  <2>. QED  BY <2>2, <2>3
<1>4. rs \in Seq(AnyRing) /\ Head(rs) = rs[1]
  <2>. HIDE DEF rs
  <2>1. rs \in Seq(AnyRing) /\ Len(rs) > 0
    BY <1>3 DEF Chain
  <2>. QED  BY <2>1
<1>5. /\ rings' = [rs EXCEPT ![1] = RingShift(rs[1])]
      /\ IF IsEmpty(rs[1])
         THEN resolve' = TRUE /\ consumer' = "waiting" /\ UNCHANGED received
         ELSE Deliver(rs[1].buffer[rs[1].btm]) /\ UNCHANGED resolve
  BY <1>4 DEF Take
<1>. HIDE DEF rs
<1>6. CASE IsEmpty(rs[1])
  <2>1. rings' = rs
    <3>1. RingShift(rs[1]) = rs[1]
      BY <1>6 DEF RingShift
    <3>. QED  BY <1>4, <1>5, <3>1
  <2>2. resolve' = TRUE /\ consumer' = "waiting" /\ UNCHANGED received
    BY <1>5, <1>6
  <2>3. Taken' = Taken /\ Left' = Taken'
    BY <1>2, <2>2 DEF Taken, Left
  <2>4. Taken = Len(log)
    BY <1>1, <1>3, <1>6, TailLemma
  <2>5. PromiseInv'
    BY <1>2, <2>2, <2>3, <2>4 DEF PromiseInv
  <2>6. TypeInv'
    BY <1>2, <2>2 DEF FInv, TypeInv
  <2>7. Chain(log', rings', Left')
    BY <1>2, <1>3, <2>1, <2>3
  <2>8. Queue' = Queue
    BY <1>2, <2>3 DEF Queue
  <2>. QED  BY <1>2, <2>2, <2>5, <2>6, <2>7, <2>8 DEF FInv
<1>7. CASE ~IsEmpty(rs[1])
  <2>1. Taken < Len(log) /\ rs[1].buffer[rs[1].btm] = log[Taken + 1]
    BY <1>1, <1>3, <1>7, TailLemma
  <2>2. Deliver(log[Taken + 1]) /\ resolve' = resolve
    BY <1>5, <1>7, <2>1
  <2>3. /\ Taken' = Taken + 1 /\ received' \in Seq(Item)
        /\ consumer' \in {"running", "done", "failed"}
        /\ Queue # <<>> /\ Queue' = Tail(Queue) /\ Deliver(Head(Queue))
    BY <1>2, <2>1, <2>2, DeliverStep
  <2>4. TypeInv'
    BY <1>2, <2>2, <2>3 DEF FInv, TypeInv
  <2>5. PromiseInv'
    BY <1>2, <2>2, <2>3 DEF PromiseInv
  <2>6. Chain(log', rings', Left')
    <3>1. Chain(log, [rs EXCEPT ![1] = RingShift(rs[1])], Taken + 1)
      BY <1>1, <1>3, <1>7, TakeLemma
    <3>2. Left' = Taken + 1
      BY <1>1, <1>2, <2>3 DEF Left
    <3>. QED  BY <1>2, <1>5, <3>1, <3>2
  <2>. QED  BY <1>2, <2>3, <2>4, <2>5, <2>6 DEF FInv
<1>. QED  BY <1>6, <1>7

LEMMA ResumeStep ==
    ASSUME FInv, Resume
    PROVE  /\ FInv' /\ closed' = closed
           /\ consumer = "waiting" /\ Deliver(Head(Queue)) /\ Queue # <<>> /\ Queue' = Tail(Queue)
<1>1. /\ Taken \in Nat /\ Left \in Nat /\ Len(log) \in Nat /\ log \in Seq(Slot)
  BY TakenType DEF FInv, TypeInv
<1>2. /\ consumer = "waiting" /\ Taken < Len(log) /\ settled = log[Taken + 1]
      /\ ~resolve /\ settled # Undefined /\ Left = Taken + 1
      /\ Deliver(log[Taken + 1]) /\ settled' = Undefined /\ UNCHANGED <<rings, resolve, closed, log>>
  BY <1>1 DEF Resume, FInv, PromiseInv, Left
<1>3. /\ Taken' = Taken + 1 /\ received' \in Seq(Item)
      /\ consumer' \in {"running", "done", "failed"}
      /\ Queue # <<>> /\ Queue' = Tail(Queue) /\ Deliver(Head(Queue))
  BY <1>2, DeliverStep
<1>4. TypeInv'
  BY <1>2, <1>3 DEF FInv, TypeInv
<1>5. PromiseInv'
  BY <1>2, <1>3 DEF PromiseInv
<1>6. Left' = Left
  BY <1>1, <1>2, <1>3 DEF Left
<1>7. Chain(log', rings', Left')
  BY <1>2, <1>6 DEF FInv
<1>. QED  BY <1>2, <1>3, <1>4, <1>5, <1>7 DEF FInv

LEMMA ReturnStep ==
    ASSUME FInv, Return \/ UNCHANGED vars
    PROVE  FInv' /\ UNCHANGED <<Queue, closed, received>>
<1>1. /\ UNCHANGED <<rings, resolve, settled, closed, received, log>>
      /\ \/ consumer = "running" /\ consumer' = "returned"
         \/ UNCHANGED consumer
  BY DEF Return, vars
<1>2. Taken' = Taken
  BY <1>1 DEF Taken
<1>3. Left' = Left /\ Queue' = Queue
  BY <1>1, <1>2 DEF Left, Queue
<1>4. TypeInv'
  BY <1>1 DEF FInv, TypeInv
<1>5. PromiseInv'
  BY <1>1, <1>2 DEF FInv, PromiseInv
<1>6. Chain(log', rings', Left')
  BY <1>1, <1>3 DEF FInv
<1>. QED  BY <1>1, <1>3, <1>4, <1>5, <1>6 DEF FInv

LEMMA PushStep ==
    ASSUME FInv, Push
    PROVE  /\ FInv' /\ ~closed /\ ~closed' /\ UNCHANGED <<consumer, received>>
           /\ Len(log) + 1 \in Item /\ Queue' = Append(Queue, Len(log) + 1)
<1>1. /\ ~closed /\ Len(log) < MaxItems /\ Enqueue(Len(log) + 1)
      /\ UNCHANGED <<closed, consumer, received>>
  BY DEF Push
<1>2. Len(log) + 1 \in Item
  BY <1>1, TakenType, ItemsAssumption DEF Item
<1>3. Len(log) + 1 \in Slot /\ closed' \in BOOLEAN
  BY <1>1, <1>2 DEF Slot, FInv, TypeInv
<1>4. FInv' /\ Queue' = Append(Queue, Len(log) + 1)
  BY <1>1, <1>3, EnqueueStep
<1>. QED  BY <1>1, <1>2, <1>4

LEMMA CloseStep ==
    ASSUME FInv, NEW slot \in {END, FAIL}, Close(slot)
    PROVE  /\ FInv' /\ ~closed /\ closed' = TRUE /\ UNCHANGED <<consumer, received>>
           /\ Queue' = Append(Queue, slot)
<1>1. /\ ~closed /\ closed' = TRUE /\ Enqueue(slot) /\ UNCHANGED <<consumer, received>>
  BY DEF Close
<1>2. slot \in Slot
  BY DEF Slot
<1>3. FInv' /\ Queue' = Append(Queue, slot)
  BY <1>1, <1>2, EnqueueStep
<1>. QED  BY <1>1, <1>3

LEMMA FifoStep == FInv /\ [Next]_vars => FInv'
<1>. SUFFICES ASSUME FInv, [Next]_vars  PROVE FInv'
  OBVIOUS
<1>1. CASE Push
  BY <1>1, PushStep
<1>2. ASSUME NEW slot \in {END, FAIL}, Close(slot)  PROVE FInv'
  BY <1>2, CloseStep
<1>3. CASE Take
  BY <1>3, TakeStep
<1>4. CASE Resume
  BY <1>4, ResumeStep
<1>5. CASE Return \/ UNCHANGED vars
  BY <1>5, ReturnStep
<1>. QED  BY <1>1, <1>2, <1>3, <1>4, <1>5 DEF Next
\* The chain of rings, the promise and what was handed over stay in step with the
\* log of what was enqueued.
THEOREM FifoInvariant == Spec => []FInv
BY FifoInit, FifoStep, PTL DEF Spec

------------------------------------------------------------------------------
(* What follows from it *)

LEMMA RingsType == FInv => TypeOK
<1>. SUFFICES ASSUME FInv  PROVE TypeOK
  OBVIOUS
<1>1. PICK off \in [1..(Len(rings) + 1) -> 0..Len(log)] : Linked(log, rings, off, Left)
  BY DEF FInv, Chain
<1>2. ASSUME NEW n \in 1..Len(rings)
      PROVE  /\ rings[n].top \in DOMAIN rings[n].buffer
             /\ rings[n].btm \in DOMAIN rings[n].buffer
             /\ \A k \in DOMAIN rings[n].buffer : rings[n].buffer[k] \in Slot \cup {Undefined}
  <2>1. rings[n] \in AnyRing
    BY DEF FInv, Chain
  <2>2. PICK m \in Nat :
           rings[n] \in [buffer : [0..m -> Slot \cup {Undefined}], mask : {m}, top : 0..m, btm : 0..m]
    BY <2>1 DEF AnyRing
  <2>. QED  BY <2>2
<1>. QED  BY <1>2 DEF FInv, TypeInv, TypeOK

LEMMA WakeupKept == FInv => NoLostWakeup
<1>. SUFFICES ASSUME FInv  PROVE NoLostWakeup
  OBVIOUS
<1>1. resolve => Queue = <<>>
  <2>. SUFFICES ASSUME resolve  PROVE Queue = <<>>
    OBVIOUS
  <2>1. Taken = Len(log) /\ Taken \in Nat
    BY TakenType DEF FInv, PromiseInv
  <2>. QED  BY <2>1, SubSeqEmpty DEF Queue
<1>. QED  BY <1>1 DEF FInv, PromiseInv, NoLostWakeup

\* Type correctness: the places of every ring are within its buffer.
THEOREM FifoTypeOK == Spec => []TypeOK
BY FifoInvariant, RingsType, PTL

\* A consumer that waits has a promise that is still to be settled, with nothing
\* enqueued behind its back, or has just been settled (#enqueue, fast_fifo.ts).
THEOREM WaitingIsWokenUp == Spec => []NoLostWakeup
BY FifoInvariant, WakeupKept, PTL

LEMMA AbstractInit == Init => Abstract!Init
<1>. SUFFICES ASSUME Init  PROVE Abstract!Init
  OBVIOUS
<1>1. Taken = 0 /\ Len(log) = 0
  BY DEF Init, Taken
<1>2. Queue = <<>>
  BY <1>1, SubSeqEmpty DEF Queue
<1>. QED  BY <1>2 DEF Init, Abstract!Init

\* Each step is a step of the plain queue, or none.
LEMMA AbstractStep == FInv /\ [Next]_vars => [Abstract!Next]_Abstract!vars
<1>. SUFFICES ASSUME FInv, [Next]_vars  PROVE [Abstract!Next]_Abstract!vars
  OBVIOUS
<1>. DEFINE user == IF consumer = "waiting" THEN "running" ELSE consumer
<1>1. ASSUME NEW slot \in Item \cup {END, FAIL}, ~closed, closed' = (slot \in {END, FAIL}),
             Queue' = Append(Queue, slot), UNCHANGED <<consumer, received>>
      PROVE  Abstract!Next
  BY <1>1 DEF Abstract!Next, Abstract!Put
<1>2. ASSUME user = "running", Queue # <<>>, Queue' = Tail(Queue), Deliver(Head(Queue)),
             closed' = closed
      PROVE  Abstract!Next
  <2>1. IF Head(Queue) \in Item
        THEN received' = Append(received, Head(Queue)) /\ user' = user
        ELSE user' = (IF Head(Queue) = END THEN "done" ELSE "failed") /\ UNCHANGED received
    BY <1>2 DEF Deliver
  <2>2. Abstract!Get
    BY <1>2, <2>1 DEF Abstract!Get
  <2>. QED  BY <2>2 DEF Abstract!Next
<1>3. CASE Push
  <2>1. /\ ~closed /\ ~closed' /\ UNCHANGED <<consumer, received>>
        /\ Len(log) + 1 \in Item /\ Queue' = Append(Queue, Len(log) + 1)
    BY <1>3, PushStep
  <2>2. closed' = (Len(log) + 1 \in {END, FAIL})
    BY <1>3, <2>1, SlotAssumption DEF Push, FInv, TypeInv
  <2>. QED  BY <1>1, <2>1, <2>2
<1>4. ASSUME NEW slot \in {END, FAIL}, Close(slot)  PROVE Abstract!Next
  <2>1. /\ ~closed /\ closed' = TRUE /\ UNCHANGED <<consumer, received>>
        /\ Queue' = Append(Queue, slot)
    BY <1>4, CloseStep
  <2>. QED  BY <1>1, <2>1
<1>5. CASE Take
  <2>1. \/ Queue' = Queue /\ UNCHANGED received /\ consumer = "running" /\ consumer' = "waiting"
        \/ consumer = "running" /\ Deliver(Head(Queue)) /\ Queue # <<>> /\ Queue' = Tail(Queue)
    BY <1>5, TakeStep
  <2>2. closed' = closed
    BY <1>5, TakeStep
  <2>3. CASE Queue' = Queue /\ UNCHANGED received /\ consumer = "running" /\ consumer' = "waiting"
    <3>1. UNCHANGED Abstract!vars
      BY <2>2, <2>3 DEF Abstract!vars
    <3>. QED  BY <3>1
  <2>. QED  BY <1>2, <2>1, <2>2, <2>3
<1>6. CASE Resume
  <2>1. /\ consumer = "waiting" /\ closed' = closed
        /\ Deliver(Head(Queue)) /\ Queue # <<>> /\ Queue' = Tail(Queue)
    BY <1>6, ResumeStep
  <2>. QED  BY <1>2, <2>1
<1>7. CASE Return
  <2>1. UNCHANGED <<Queue, closed, received>>
    BY <1>7, ReturnStep
  <2>2. Abstract!Return
    BY <1>7, <2>1 DEF Return, Abstract!Return
  <2>. QED  BY <2>2 DEF Abstract!Next
<1>8. CASE UNCHANGED vars
  <2>1. UNCHANGED <<Queue, closed, received>> /\ UNCHANGED consumer
    BY <1>8, ReturnStep DEF vars
  <2>2. UNCHANGED Abstract!vars
    BY <2>1 DEF Abstract!vars
  <2>. QED  BY <2>2
<1>. QED  BY <1>3, <1>4, <1>5, <1>6, <1>7, <1>8 DEF Next

\* The queue behind a browse is a plain one: what was pushed before it was closed
\* arrives once and in order, then its end, through however many rings and promises
\* (FastFIFO in fast_fifo.ts).
THEOREM RingsAreAQueue == Spec => ImplementsFifo
<1>1. Spec => Abstract!Init /\ [][Abstract!Next]_Abstract!vars
  BY FifoInvariant, AbstractInit, AbstractStep, PTL DEF Spec
<1>. QED  BY <1>1 DEF ImplementsFifo, Abstract!Spec
=============================================================================
