----------------------------- MODULE WireCodec -----------------------------
(***************************************************************************)
(* wire/encode.ts and wire/decode.ts: a DNS message to octets and back, with    *)
(* the writer and the reader of names of DomainNames.  A text is its               *)
(* octets; a name is a sequence of labels.                                   *)
(***************************************************************************)
EXTENDS DomainNames, TxtRecords, SequencesExt, Functions

CONSTANTS
    MaxTxtEntry,        \* 255: what a TXT entry's length octet can say
    Groups              \* 8: the groups of an IPv6 address

HeaderLength == 12
MinQuestionBytes == 5
MinRecordBytes == 11

TypeA == 1   TypePTR == 12   TypeTXT == 16   TypeAAAA == 28   TypeSRV == 33   TypeNSEC == 47

U16(n) == <<(n \div 256) % 256, n % 256>>
U32(n) == <<(n \div 16777216) % 256, (n \div 65536) % 256>> \o U16(n)
Bit(n, k) == (n \div 2^k) % 2 = 1
TopBit(flag) == IF flag THEN 32768 ELSE 0

------------------------------------------------------------------------------
(* The writer.                                                              *)

\* A TXT entry: key, key= or key=value.
TxtEntry(key, value) ==
    CASE value = True -> key
      [] value = Null -> key \o <<Equals>>
      [] OTHER        -> key \o <<Equals>> \o value

\* No attribute at all is written as one empty string.
EncodeTxt(w, attributes) ==
    LET put(v, key) ==
            LET entry == TxtEntry(key, attributes[key])
            IN  IF ~v.ok \/ Len(entry) > MaxTxtEntry THEN Throw(v)
                ELSE Put(v, <<Len(entry)>> \o entry)
    IN  IF DOMAIN attributes = {} THEN Put(w, <<0>>)
        ELSE FoldLeft(put, w, SetToSeq(DOMAIN attributes))

BitmapLength(types) == Max(types) \div 8 + 1

\* One window: types above 255 are left out.
EncodeNsecBitmap(w, types) ==
    LET inWindow == {t \in types : t <= 255}
        length == BitmapLength(inWindow)
        bitmap == [i \in 1..length |->
            FoldSet(LAMBDA t, sum : sum + 2^(7 - (t % 8)), 0,
                    {t \in inWindow : t \div 8 = i - 1})]
    IN  IF inWindow = {} THEN Throw(w) ELSE Put(w, <<0, length>> \o bitmap)

\* The address text: its groups, or the two sides of the "::".  (A text that is no
\* address, for which the encoder throws a RangeError, is not modelled.)
EncodeIpv6(text) ==
    LET groups == IF text.gap = 0 THEN text.head
                  ELSE text.head \o [i \in 1..(Groups - Len(text.head) - Len(text.tail)) |-> 0]
                                 \o text.tail
    IN  FlattenSeq([i \in DOMAIN groups |-> U16(groups[i])])

EncodeData(w, rr) ==
    CASE rr.type = TypeA    -> Put(w, rr.data)
      [] rr.type = TypeAAAA -> Put(w, EncodeIpv6(rr.data))
      [] rr.type = TypePTR  -> WriteName(w, rr.data)
      [] rr.type = TypeTXT  -> EncodeTxt(w, rr.data)
      [] rr.type = TypeSRV  ->
            WriteName(Put(w, U16(rr.data.priority) \o U16(rr.data.weight) \o U16(rr.data.port)),
                      rr.data.target)
      [] rr.type = TypeNSEC -> EncodeNsecBitmap(WriteName(w, rr.data.next), rr.data.types)
      [] OTHER              -> Put(w, rr.data)

\* The data's length is filled in when it is known.
EncodeRecord(w, rr) ==
    LET fixed == Put(WriteName(w, rr.name),
                     U16(rr.type) \o U16(rr.class + TopBit(rr.flush)) \o U32(rr.ttl) \o U16(0))
        at    == Len(fixed.out)
        whole == EncodeData(fixed, rr)
        size  == U16(Len(whole.out) - at)
    IN  [whole EXCEPT !.out[at - 1] = size[1], !.out[at] = size[2]]

EncodeQuestion(w, q) ==
    Put(WriteName(w, q.name), U16(q.type) \o U16(q.class + TopBit(q.unicastResponse)))

EncodeFlags(h) ==
    TopBit(h.isResponse) + h.opcode * 2048 + (IF h.authoritative THEN 1024 ELSE 0)
        + (IF h.truncated THEN 512 ELSE 0) + (IF h.recursionDesired THEN 256 ELSE 0)
        + (IF h.recursionAvailable THEN 128 ELSE 0) + h.rcode

EncodeMessage(m) ==
    LET sections == <<m.answers, m.authorities, m.additionals>>
        header == Put(NewWriter, U16(m.header.id) \o U16(EncodeFlags(m.header))
                        \o U16(Len(m.questions))
                        \o FlattenSeq([i \in 1..3 |-> U16(Len(sections[i]))]))
    IN  FoldLeft(EncodeRecord, FoldLeft(EncodeQuestion, header, m.questions),
                 FlattenSeq(sections))

------------------------------------------------------------------------------
(* The reader: a result is the value and the offset after it, or a WireError.  *)

Read(value, at) == [ok |-> TRUE, value |-> value, at |-> at]
WireError == [ok |-> FALSE]

\* What follows a read that succeeded; a WireError ends it all.
Then(read, use(_)) == IF read.ok THEN use(read) ELSE WireError

\* Fixed-size fields, at offsets already known to be inside.
Word(b, at) == At(b, at) * 256 + At(b, at + 1)
Long(b, at) == Word(b, at) * 65536 + Word(b, at + 2)

\* name() to its end
RECURSIVE ReadName(_, _)
ReadName(b, r) == IF r.status # "reading" THEN r ELSE ReadName(b, NameStep(b, r))

DecodeName(b, at) ==
    LET result(r) == IF r.status = "read" THEN Read(r.labels, r.cursor) ELSE WireError
    IN  result(ReadName(b, StartAt(b, at)))

\* The entries of TXT data: each its start and end.  Empty ones are padding.
RECURSIVE TxtEntries(_, _, _)
TxtEntries(b, at, end) ==
    IF at >= end THEN Read(<<>>, at)
    ELSE LET len == At(b, at)
             rest == TxtEntries(b, at + 1 + len, end)
         IN  IF at + 1 + len > end \/ ~rest.ok THEN WireError
             ELSE IF len = 0 THEN rest
             ELSE Read(<<SubSeq(b, at + 2, at + 1 + len)>> \o rest.value, end)

\* An entry is split at its first "="; a later entry of the same key replaces it.
TxtKey(entry) ==
    LET eq == SelectInSeq(entry, LAMBDA c : c = Equals)
    IN  IF eq = 0 THEN entry ELSE SubSeq(entry, 1, eq - 1)
TxtValue(entry) ==
    LET eq == SelectInSeq(entry, LAMBDA c : c = Equals)
    IN  IF eq = 0 THEN True
        ELSE IF eq = Len(entry) THEN Null ELSE SubSeq(entry, eq + 1, Len(entry))

DecodeTxt(b, at, end) ==
    Then(TxtEntries(b, at, end), LAMBDA entries :
        Read(FoldLeft(LAMBDA f, e : (TxtKey(e) :> TxtValue(e)) @@ f, <<>>, entries.value), end))

\* Every window block of the bitmap.
RECURSIVE DecodeNsecBitmap(_, _, _)
DecodeNsecBitmap(b, at, end) ==
    IF at >= end THEN Read({}, at)
    ELSE IF at + 2 > Len(b) THEN WireError
    ELSE LET window == At(b, at)
             length == At(b, at + 1)
             rest   == DecodeNsecBitmap(b, at + 2 + length, end)
         IN  IF length \notin 1..32 \/ at + 2 + length > end \/ ~rest.ok THEN WireError
             ELSE Read({window * 256 + t : t \in {t \in 0..(8 * length - 1) :
                            Bit(At(b, at + 2 + t \div 8), 7 - (t % 8))}} \cup rest.value, end)

\* The first of the longest runs of zero groups becomes "::".
CompressIpv6(groups) ==
    LET runs == {r \in (1..Groups) \X (1..Groups) :
                    r[1] < r[2] /\ \A i \in r[1]..r[2] : groups[i] = 0}
        best == CHOOSE r \in runs : \A s \in runs :
                    r[2] - r[1] > s[2] - s[1] \/ (r[2] - r[1] = s[2] - s[1] /\ r[1] <= s[1])
    IN  IF runs = {} THEN [gap |-> 0, head |-> groups, tail |-> <<>>]
        ELSE [gap |-> 1, head |-> SubSeq(groups, 1, best[1] - 1),
              tail |-> SubSeq(groups, best[2] + 1, Groups)]

\* Names in the data are read wherever they end; TXT and NSEC stop at its end.
DecodeData(b, type, at, end) ==
    CASE type = TypeA    -> IF end - at = 4 THEN Read(SubSeq(b, at + 1, end), end) ELSE WireError
      [] type = TypeAAAA -> IF end - at = 2 * Groups
                            THEN Read(CompressIpv6([i \in 1..Groups |-> Word(b, at + 2 * i - 2)]),
                                      end)
                            ELSE WireError
      [] type = TypePTR  -> DecodeName(b, at)
      [] type = TypeTXT  -> DecodeTxt(b, at, end)
      [] type = TypeSRV  ->
            IF at + 6 > Len(b) THEN WireError
            ELSE Then(DecodeName(b, at + 6), LAMBDA target :
                     Read([priority |-> Word(b, at), weight |-> Word(b, at + 2),
                           port |-> Word(b, at + 4), target |-> target.value], end))
      [] type = TypeNSEC ->
            Then(DecodeName(b, at), LAMBDA next :
                Then(DecodeNsecBitmap(b, next.at, end), LAMBDA types :
                    Read([next |-> next.value, types |-> types.value], end)))
      [] OTHER           -> Read(SubSeq(b, at + 1, end), end)

\* After the data the reader goes on where it was said to end.
RecordBody(b, name, at, end) ==
    IF at > Len(b) \/ end > Len(b) THEN WireError
    ELSE Then(DecodeData(b, Word(b, at - 10), at, end), LAMBDA data :
             Read([name |-> name, type |-> Word(b, at - 10),
                   class |-> Word(b, at - 8) % 32768, flush |-> Bit(Word(b, at - 8), 15),
                   ttl |-> Long(b, at - 6), data |-> data.value], end))

DecodeRecord(b, at) ==
    Then(DecodeName(b, at), LAMBDA name :
        RecordBody(b, name.value, name.at + 10, name.at + 10 + Word(b, name.at + 8)))

DecodeQuestion(b, at) ==
    Then(DecodeName(b, at), LAMBDA name :
        IF name.at + 4 > Len(b) THEN WireError
        ELSE Read([name |-> name.value, type |-> Word(b, name.at),
                   class |-> Word(b, name.at + 2) % 32768,
                   unicastResponse |-> Bit(Word(b, name.at + 2), 15)], name.at + 4))

\* The first section holds questions.
DecodeEntry(section, b, at) ==
    IF section = 1 THEN DecodeQuestion(b, at) ELSE DecodeRecord(b, at)

\* So many of them in a row.
DecodeRecords(section, b, at, count) ==
    FoldLeft(LAMBDA read, k :
                Then(read, LAMBDA before :
                    Then(DecodeEntry(section, b, before.at), LAMBDA one :
                        Read(Append(before.value, one.value), one.at))),
             Read(<<>>, at), [k \in 1..count |-> k])

\* The entries of a section, by its count field; -1 if they cannot fit in what is
\* there.
TooMany == -1
Fitting(b, minBytes) == (Len(b) - HeaderLength) \div minBytes

\* Mutant: a count that is too large is cut down to what fits.
SectionCount_Clamped(b, field, minBytes) ==
    IF Word(b, field) > Fitting(b, minBytes) THEN Fitting(b, minBytes) ELSE Word(b, field)

SectionCount(b, field, minBytes) ==
    IF Word(b, field) > Fitting(b, minBytes) THEN TooMany ELSE Word(b, field)

DecodeHeader(b) ==
    LET flags == Word(b, 2)
    IN  [id |-> Word(b, 0), isResponse |-> Bit(flags, 15), opcode |-> (flags \div 2048) % 16,
         authoritative |-> Bit(flags, 10), truncated |-> Bit(flags, 9),
         recursionDesired |-> Bit(flags, 8), recursionAvailable |-> Bit(flags, 7),
         rcode |-> flags % 16]

DecodeMessage(b) ==
    LET counts == <<SectionCount(b, 4, MinQuestionBytes), SectionCount(b, 6, MinRecordBytes),
                    SectionCount(b, 8, MinRecordBytes), SectionCount(b, 10, MinRecordBytes)>>
        sections == FoldLeft(LAMBDA read, i :
                                Then(read, LAMBDA before :
                                    Then(DecodeRecords(i, b, before.at, counts[i]), LAMBDA section :
                                        Read(Append(before.value, section.value), section.at))),
                             Read(<<>>, HeaderLength), <<1, 2, 3, 4>>)
    IN  IF Len(b) < HeaderLength THEN WireError
        ELSE IF TooMany \in Range(counts) THEN WireError
        ELSE Then(sections, LAMBDA all :
                 Read([header |-> DecodeHeader(b), questions |-> all.value[1],
                       answers |-> all.value[2], authorities |-> all.value[3],
                       additionals |-> all.value[4]], all.at))
=============================================================================
