--------------------------- MODULE EchoSuppressor ---------------------------
(***************************************************************************)
(* dns-sd-shared, echo.ts: the datagrams a host has just sent, in the order they were *)
(* first remembered, each with the number of echoes to swallow and the time   *)
(* it has left (a countdown, in place of the clock).                        *)
(***************************************************************************)
EXTENDS Integers, Sequences, SequencesExt

CONSTANTS
    Ttl,            \* DEFAULT_ECHO_TTL_MS, in ticks
    MaxEntries      \* DEFAULT_ECHO_MAX_ENTRIES

ASSUME EchoAssumption == Ttl \in Nat /\ MaxEntries \in Nat \ {0}

\* expiresAt < now
Expired(entry) == entry.left < 0

Older(left) == IF left < 0 THEN left ELSE left - 1
Aged(sends) == [k \in DOMAIN sends |-> [sends[k] EXCEPT !.left = Older(@)]]

\* What has not expired, in its order.  (SelectSeq would say the same, but nothing
\* can be proved of it.)
Prune(sends) ==
    LET live[k \in 0..Len(sends)] ==
            IF k = 0 THEN <<>>
            ELSE IF Expired(sends[k]) THEN live[k - 1] ELSE Append(live[k - 1], sends[k])
    IN  live[Len(sends)]

\* The place of a datagram's entry, 0 if it has none.
Entry(sends, data) == SelectInSeq(sends, LAMBDA e : e.data = data)

\* Mutant: the second of two identical sends is remembered as one.
Remember_Once(sends, data) ==
    LET kept == Prune(sends)
        k == Entry(kept, data)
        grown == IF k # 0 THEN [kept EXCEPT ![k].left = Ttl]
                 ELSE Append(kept, [data |-> data, count |-> 1, left |-> Ttl])
    IN  IF Len(grown) > MaxEntries THEN Tail(grown) ELSE grown

\* A datagram already remembered keeps its place, and its older credits with it:
\* all of them are good for a whole window again.
Remember(sends, data) ==
    LET kept == Prune(sends)
        k == Entry(kept, data)
        grown == IF k # 0
                 THEN [kept EXCEPT ![k] = [data |-> data, count |-> @.count + 1, left |-> Ttl]]
                 ELSE Append(kept, [data |-> data, count |-> 1, left |-> Ttl])
    IN  IF Len(grown) > MaxEntries THEN Tail(grown) ELSE grown

\* Whether consume swallows the datagram,
IsEcho(sends, data) ==
    LET k == Entry(sends, data) IN k # 0 /\ ~Expired(sends[k])

\* and what it leaves: one credit less, and no entry without credit or expired.
Consume(sends, data) ==
    LET k == Entry(sends, data)
    IN  IF k = 0 THEN sends
        ELSE IF Expired(sends[k]) \/ sends[k].count = 1 THEN RemoveAt(sends, k)
        ELSE [sends EXCEPT ![k].count = @ - 1]

\* The echoes of a datagram that would be swallowed.
Credit(sends, data) ==
    IF IsEcho(sends, data) THEN sends[Entry(sends, data)].count ELSE 0
=============================================================================
