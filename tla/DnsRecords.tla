----------------------------- MODULE DnsRecords -----------------------------
(***************************************************************************)
(* Resource records as engine/records.ts compares them.  A record is       *)
(* [type, name, data]: a name is a pair <<kind, n>> ("instance" names are   *)
(* numbered by the rename that made them, the others have n = 0), and data  *)
(* stands for the canonical RDATA, a number so that RDATA is ordered (what   *)
(* compareRdata does to octets is in RecordOrder).                          *)
(***************************************************************************)
EXTENDS Naturals, Sequences

\* The DNS type codes: the order of records of one class starts with them.
TypeNum == [A |-> 1, PTR |-> 12, TXT |-> 16, SRV |-> 33]

\* records.ts compares class, type and RDATA, never the name.
RecordLess(a, b) ==
    \/ TypeNum[a.type] < TypeNum[b.type]
    \/ a.type = b.type /\ a.data < b.data

SameNameType(a, b) == a.name = b.name /\ a.type = b.type

\* Two unique records conflict: same name and type, different RDATA.
Conflicting(a, b) == SameNameType(a, b) /\ a.data # b.data

\* The records a host must own alone (cache-flush bit): all but the PTRs.
Unique(records) == {r \in records : r.type # "PTR"}

\* The answers that contradict one of our unique records.
ConflictsWith(answers, records) ==
    \E a \in answers, ours \in Unique(records) : Conflicting(a, ours)

\* Only the peer's records for our names and types enter the tie-break.
Comparable(theirs, ours) ==
    {r \in theirs : \E o \in Unique(ours) : SameNameType(o, r)}

\* Mutant: records of one type are not told apart.
LosesTieBreak_TypesOnly(records, theirRecords) ==
    LET ours   == {r.type : r \in Unique(records)}
        theirs == {r.type : r \in Comparable(theirRecords, records)}
    IN  ours # theirs

\* Mutant: any difference is a loss.
LosesTieBreak_AnyDifference(records, theirRecords) ==
    {r.data : r \in Unique(records)} # {r.data : r \in Comparable(theirRecords, records)}

\* What is compared of a record.
Key(r) == [type |-> r.type, data |-> r.data]

\* losesTieBreak's loop over the two sorted lists: the first index at which they
\* differ decides, and the shorter list loses.
LosesInOrder(ours, theirs) ==
    \E i \in DOMAIN theirs :
        /\ \A j \in 1..(i - 1) : j \in DOMAIN ours /\ ours[j] = theirs[j]
        /\ i \in DOMAIN ours => RecordLess(ours[i], theirs[i])

(***************************************************************************)
(* The simultaneous-probe tie-break: both sides sort their records and     *)
(* compare them pairwise.  The sorted lists first differ at the least       *)
(* record that only one side has.  If it is ours, ours is the earlier       *)
(* record there and we lose, unless their list has ended; if it is theirs   *)
(* we win, unless our list has ended.  (WireProofs proves that this is *)
(* LosesInOrder of the sorted lists.)                                       *)
(***************************************************************************)
LosesTieBreak(records, theirRecords) ==
    LET ours     == {Key(r) : r \in Unique(records)}
        theirs   == {Key(r) : r \in Comparable(theirRecords, records)}
        onlyOne  == (ours \ theirs) \cup (theirs \ ours)
        first    == CHOOSE r \in onlyOne : \A s \in onlyOne : ~RecordLess(s, r)
    IN  /\ onlyOne # {}
        /\ IF first \in ours
           THEN \E t \in theirs : RecordLess(first, t)
           ELSE ~ \E o \in ours : RecordLess(first, o)
=============================================================================
