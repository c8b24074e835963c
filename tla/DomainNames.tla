---------------------------- MODULE DomainNames -----------------------------
(***************************************************************************)
(* wire/reader.ts, Reader.name(): one domain name read from a datagram of any    *)
(* octets, one iteration of its loop at a time.                               *)
(*                                                                           *)
(* wire/encode.ts, Writer: octets are appended, and a name ends in a pointer to  *)
(* what it shares with those before it.  The code's table is keyed by the labels  *)
(* joined with NUL; labels that hold a NUL themselves are left out.             *)
(*                                                                           *)
(* The limits of RFC 1035 are constants, so that small datagrams meet them.       *)
(* Offsets count from zero.                                                     *)
(***************************************************************************)
EXTENDS Integers, Sequences, FiniteSetsExt

CONSTANTS
    Datagrams,          \* the datagrams a reader may be given
    MaxPointerJumps,    \* MAX_POINTER_JUMPS
    MaxNameLength,      \* MAX_NAME_LENGTH
    MaxLabelLength,     \* MAX_LABEL_LENGTH
    MaxPointerOffset    \* MAX_POINTER_OFFSET

Octet == 0..255

ASSUME DatagramAssumption == Datagrams \subseteq Seq(Octet)
ASSUME LimitAssumption ==
    /\ MaxPointerJumps \in Nat /\ MaxNameLength \in Nat
    /\ MaxLabelLength \in 1..63

\* 14 bits hold it.
ASSUME PointerAssumption == MaxPointerOffset \in 0..16383

VARIABLES
    bytes,      \* the datagram
    start,      \* the offset the name starts at
    reader      \* the locals of name(), see StartAt

nameVars == <<bytes, start, reader>>

\* The octet at an offset.
At(b, offset) == b[offset + 1]

\* cursor is where the caller goes on: frozen at the first jump.
StartAt(b, offset) ==
    [pos |-> offset, cursor |-> offset, jumped |-> FALSE, jumps |-> 0,
     minJumpTarget |-> Len(b), labels |-> <<>>, total |-> 0, status |-> "reading"]

Reject(r) == [r EXCEPT !.status = "rejected"]

IsPointer(b, r) == At(b, r.pos) >= 192

\* The cursor's position after what is at pos.
Past(r, n) == IF r.jumped THEN r.cursor ELSE r.pos + n

Target(b, r) == (At(b, r.pos) - 192) * 256 + At(b, r.pos + 1)

\* The name goes on at the target, the caller behind the first pointer.
Follow(b, r) ==
    [pos |-> Target(b, r), cursor |-> Past(r, 2), jumped |-> TRUE, jumps |-> r.jumps + 1,
     minJumpTarget |-> Target(b, r), labels |-> r.labels, total |-> r.total,
     status |-> r.status]

\* Mutant: a pointer may point where one pointed before.
Jump_Again(b, r) ==
    IF r.jumps + 1 > MaxPointerJumps \/ Target(b, r) > r.minJumpTarget THEN Reject(r)
    ELSE Follow(b, r)

\* Mutant: the jump limit is checked before it is counted.
Jump_OneMore(b, r) ==
    IF r.jumps > MaxPointerJumps \/ Target(b, r) >= r.minJumpTarget THEN Reject(r)
    ELSE Follow(b, r)

\* A compression pointer: below every one followed before (the first one only has
\* to be inside the datagram).
Jump(b, r) ==
    IF r.jumps + 1 > MaxPointerJumps \/ Target(b, r) >= r.minJumpTarget THEN Reject(r)
    ELSE Follow(b, r)

TakeLabel(b, r) ==
    LET len == At(b, r.pos)
    IN  IF \/ len > MaxLabelLength \/ r.pos + 1 + len > Len(b)
           \/ r.total + len + 1 > MaxNameLength
        THEN Reject(r)
        ELSE [pos |-> r.pos + 1 + len, cursor |-> r.cursor, jumped |-> r.jumped,
              jumps |-> r.jumps, minJumpTarget |-> r.minJumpTarget,
              labels |-> Append(r.labels, SubSeq(b, r.pos + 2, r.pos + 1 + len)),
              total |-> r.total + len + 1, status |-> r.status]

\* The empty label ends the name.
Finish(r) ==
    [pos |-> r.pos, cursor |-> Past(r, 1), jumped |-> r.jumped, jumps |-> r.jumps,
     minJumpTarget |-> r.minJumpTarget, labels |-> r.labels, total |-> r.total,
     status |-> "read"]

\* One iteration.
NameStep(b, r) ==
    IF r.pos >= Len(b) THEN Reject(r)
    ELSE IF IsPointer(b, r)
         THEN IF r.pos + 1 >= Len(b) THEN Reject(r) ELSE Jump(b, r)
         ELSE IF At(b, r.pos) >= 64 THEN Reject(r)      \* reserved prefixes
         ELSE IF At(b, r.pos) = 0 THEN Finish(r)
         ELSE TakeLabel(b, r)

NameInit ==
    /\ bytes \in Datagrams
    /\ start \in 0..Len(bytes)
    /\ reader = StartAt(bytes, start)

NameLoop ==
    /\ reader.status = "reading"
    /\ reader' = NameStep(bytes, reader)
    /\ UNCHANGED <<bytes, start>>

NameSpec == NameInit /\ [][NameLoop]_nameVars

------------------------------------------------------------------------------
(* The writer *)

\* out is what is written, names the suffix table, ok is FALSE once it has thrown.
NewWriter == [out |-> <<>>, names |-> <<>>, ok |-> TRUE]
Put(w, octets) == [out |-> w.out \o octets, names |-> w.names, ok |-> w.ok]
Throw(w) == [w EXCEPT !.ok = FALSE]

\* Of an offset beyond the limit only the low bits would be left.
PointerTo(offset) ==
    LET field == offset % (MaxPointerOffset + 1)
    IN  <<192 + field \div 256, field % 256>>

\* The table with the suffix where the writer is.
Here(w, suffix) ==
    [s \in DOMAIN w.names \cup {suffix} |-> IF s = suffix THEN Len(w.out) ELSE w.names[s]]

\* Mutant: an offset is remembered that no pointer can hold.
Remember_Far(w, suffix) == [out |-> w.out, names |-> Here(w, suffix), ok |-> w.ok]

\* The suffix may be pointed at from now on.
Remember(w, suffix) ==
    IF Len(w.out) > MaxPointerOffset THEN w
    ELSE [out |-> w.out, names |-> Here(w, suffix), ok |-> w.ok]

\* The first label of what is left of a name.
WriteLabel(w, suffix) ==
    LET label == Head(suffix)
    IN  IF ~w.ok \/ Len(label) > MaxLabelLength THEN Throw(w)
        ELSE Put(Remember(w, suffix), <<Len(label)>> \o label)

WriteName(w, labels) ==
    LET suffix(i) == SubSeq(labels, i, Len(labels))
        known == {i \in DOMAIN labels : suffix(i) \in DOMAIN w.names}
        own   == IF known = {} THEN Len(labels) ELSE Min(known) - 1
        written[i \in 0..own] ==
            IF i = 0 THEN w ELSE WriteLabel(written[i - 1], suffix(i))
    IN  IF known = {} THEN Put(written[own], <<0>>)
        ELSE Put(written[own], PointerTo(w.names[suffix(own + 1)]))

------------------------------------------------------------------------------
(* Properties *)

NameTypeOK ==
    /\ bytes \in Datagrams /\ start \in 0..Len(bytes)
    /\ reader \in [pos : Nat, cursor : Nat, jumped : BOOLEAN, jumps : Nat,
                   minJumpTarget : Nat, labels : Seq(Seq(Octet)), total : Nat,
                   status : {"reading", "read", "rejected"}]

\* However malformed the datagram, the loop never leaves it, never goes over the
\* limits of a name or of the jumps, and hands the caller a cursor that is inside
\* the datagram and past the name's own start, so that decoding makes progress.
StaysInside ==
    /\ reader.pos <= Len(bytes) /\ reader.cursor <= Len(bytes)
    /\ reader.jumps <= MaxPointerJumps /\ reader.total <= MaxNameLength
    /\ reader.minJumpTarget <= Len(bytes)
    /\ reader.status = "read" => reader.cursor > start

\* The loop ends before it has done more iterations than a name has octets and
\* pointers, and what is left to be done shrinks with every one: a pointer goes
\* below all the pointers before it, a label makes the name longer.
MakesProgress ==
    [][reader.status = "reading" =>
         \/ reader'.status # "reading"
         \/ reader'.minJumpTarget < reader.minJumpTarget /\ reader'.total = reader.total
         \/ reader'.total > reader.total /\ reader'.minJumpTarget = reader.minJumpTarget]_nameVars

\* What the comment in name() says of pointers: they "must always jump strictly
\* backwards; anything else is a loop or a forward reference and is rejected".
PointersGoBackwards ==
    [][reader'.jumps > reader.jumps => reader'.pos < reader.pos]_nameVars
=============================================================================
