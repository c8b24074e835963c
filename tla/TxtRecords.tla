----------------------------- MODULE TxtRecords -----------------------------
(***************************************************************************)
(* txt.ts: TXT attributes from the caller's form into the codec's.  A caller's     *)
(* value says what it is, and has octets if it is a text or a byte array.         *)
(***************************************************************************)
EXTENDS Integers, Sequences

CONSTANTS
    True, Null      \* the TXT values true and null

\* The separator of key and value.
Equals == 61

TxtRecordInput(octets) ==
    [as : {"text", "bytes"}, octets : octets]
        \cup [as : {"true", "null", "undefined", "number"}, octets : {<<>>}]

\* Printable ASCII, without the separator.
ValidTxtKey(key) ==
    key # <<>> /\ \A i \in DOMAIN key : key[i] \in 32..126 \ {Equals}

\* encodeTxtInput throws for any other input.
Encodable(input) ==
    \A key \in DOMAIN input : ValidTxtKey(key) /\ input[key].as # "number"

NormalizeTxtValue(value) ==
    CASE value.as = "true" -> True
      [] value.as \in {"null", "undefined"} -> Null
      [] OTHER -> value.octets

EncodeTxtInput(input) == [key \in DOMAIN input |-> NormalizeTxtValue(input[key])]
=============================================================================
