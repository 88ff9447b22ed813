------------------------------- MODULE Octets -------------------------------
(***************************************************************************)
(* Octets, what the parsers have in common to read them with, and CBOR.    *)
(*                                                                         *)
(* A buffer is a sequence of octets.  An octet may be the first of several *)
(* that stand for something as a whole, a CBOR item or a digest: it then   *)
(* carries that value and the number of octets.  CBOR is the business of   *)
(* ciborium: read from anywhere else an octet below 24 is a small integer, *)
(* as in CBOR, and the rest is refused, as is an item that the buffer ends *)
(* within.                                                                 *)
(***************************************************************************)
EXTENDS Ceremony

Octet(n) == [byte |-> n, item |-> {}]
Octets(n, byte) == [i \in 1 .. n |-> Octet(byte)]
Raw(bytes) == [i \in DOMAIN bytes |-> Octet(bytes[i])]
PlainOctets == [byte : Nat, item : {{}}]

\* Mutant: the other end first.
LittleEndian(octets) == FoldRight(LAMBDA octet, n : 256 * n + octet.byte, octets, 0)

BigEndian(octets) ==
    LET number[i \in 0 .. Len(octets)] ==
            IF i = 0 THEN 0 ELSE 256 * number[i - 1] + octets[i].byte
    IN  number[Len(octets)]
U16(n) == <<Octet(n \div 256), Octet(n % 256)>>

Bit(byte, n) == (byte \div 2 ^ n) % 2 = 1

\* data[n..], empty when the buffer is shorter.
Drop(data, n) == SubSeq(data, n + 1, Len(data))

\* windows(pattern.len()).position(..): where a pattern begins, 0 if nowhere.
Occurs(data, pattern, i) == SubSeq(data, i, i + Len(pattern) - 1) = pattern
Find(data, pattern) ==
    LET starts == {i \in 1 .. Len(data) - Len(pattern) + 1 :
                      data[i] = pattern[1] /\ Occurs(data, pattern, i)}
    IN  IF starts = {} THEN 0 ELSE CHOOSE i \in starts : \A j \in starts : i <= j

\* What a parser returns: a verdict, what it read, and how many octets it took.
Read(verdict, value, consumed) ==
    [verdict |-> verdict, value |-> IF verdict = Ok THEN value ELSE {}, consumed |-> consumed]

-----------------------------------------------------------------------------
(***************************************************************************)
(* CBOR values: a map of entries in the order they are encoded, a number,  *)
(* octets, a text, a Boolean, or something else.  An entry has an integer  *)
(* label, or a text and the label 0.                                       *)
(***************************************************************************)
CborMap(entries) == [type |-> "map", entries |-> entries]
Scalar == [type |-> "scalar", entries |-> <<>>]
Number(n) == [type |-> "int", int |-> n]
Bytes(octets) == [type |-> "bytes", octets |-> octets]
Text(text) == [type |-> "text", text |-> text]
Bool(b) == [type |-> "bool", bool |-> b]

Entry(label, value) == [label |-> label, text |-> "", value |-> value]
Named(text, value) == [label |-> 0, text |-> text, value |-> value]

\* Octets that stand for a value; the first cannot be mistaken for an integer.
Cbor(item) == <<[byte |-> 160, item |-> {item}]>> \o Octets(item.len - 1, 0)

\* SHA-256 and SHA-384 are injective.
Digest(value, size) ==
    Cbor([value |-> [type |-> "digest", entries |-> <<>>, of |-> value], len |-> size])

\* ciborium::from_reader: the items it may return, at most one.
Decoded(data) ==
    IF data = <<>> THEN {}
    ELSE {i \in data[1].item : i.len <= Len(data)}
           \union {i \in {[value |-> Scalar, len |-> 1]} : data[1].item = {} /\ data[1].byte < 24}
=============================================================================
