----------------------------- MODULE RecordOrder -----------------------------
(***************************************************************************)
(* records.ts: how records are ordered and told apart, by class, type and         *)
(* canonical RDATA, a sequence of octets.  The two orders are those the responder  *)
(* breaks ties with.                                                         *)
(***************************************************************************)
EXTENDS Integers, Sequences

\* The octet at an index, -1 behind the last one.
OctetAt(rdata, i) == IF i \in DOMAIN rdata THEN rdata[i] ELSE -1

\* The indices at which two RDATA differ, up to the end of the longer one.
Differences(a, b) ==
    {i \in DOMAIN a \cup DOMAIN b : OctetAt(a, i) # OctetAt(b, i)}

\* a is below b at the first index at which they differ.
Below(a, b) ==
    \E i \in Differences(a, b) :
        OctetAt(a, i) < OctetAt(b, i) /\ \A j \in Differences(a, b) : i <= j

CompareRdata(a, b) ==
    IF Below(a, b) THEN -1 ELSE IF Differences(a, b) = {} THEN 0 ELSE 1

RecordSort(a, b) ==
    IF a.class # b.class THEN IF a.class < b.class THEN -1 ELSE 1
    ELSE IF a.type # b.type THEN IF a.type < b.type THEN -1 ELSE 1
    ELSE CompareRdata(a.rdata, b.rdata)
=============================================================================
