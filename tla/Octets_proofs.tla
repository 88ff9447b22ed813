--------------------------- MODULE Octets_proofs ----------------------------
(***************************************************************************)
(* What the parser of authenticator data reads from what an authenticator  *)
(* writes, for every content: octets and CBOR items one after the other    *)
(* are found again where they were put.                                    *)
(***************************************************************************)
EXTENDS SoftwareAuthenticator, Ceremony_proofs

-----------------------------------------------------------------------------
(***************************************************************************)
(* Octets, numbers and items.                                              *)
(***************************************************************************)

\* u is s followed by t.
Joins(u, s, t) ==
    /\ Len(u) = Len(s) + Len(t)
    /\ \A i \in 1 .. Len(s) : u[i] = s[i]
    /\ \A i \in 1 .. Len(t) : u[Len(s) + i] = t[i]
    /\ \A m, n \in 1 .. Len(s) : SubSeq(u, m, n) = SubSeq(s, m, n)
    /\ SubSeq(u, 1, Len(s)) = s
    /\ Drop(u, Len(s)) = t

\* Two sequences one after the other.
LEMMA Joined ==
    ASSUME NEW S, NEW s \in Seq(S), NEW t \in Seq(S)
    PROVE  s \o t \in Seq(S) /\ Joins(s \o t, s, t)
<1>1. Len(s) \in Nat /\ Len(t) \in Nat
  OBVIOUS
<1>2. /\ s \o t \in Seq(S) /\ Len(s \o t) = Len(s) + Len(t)
      /\ \A i \in 1 .. Len(s) : (s \o t)[i] = s[i]
      /\ \A i \in 1 .. Len(t) : (s \o t)[Len(s) + i] = t[i]
  BY <1>1, ConcatProperties
<1>3. \A m, n \in 1 .. Len(s) : SubSeq(s \o t, m, n) = SubSeq(s, m, n)
  BY SubSeqOfConcat1
<1>4. SubSeq(s \o t, 1, Len(s)) = s
  <2>1. CASE s = <<>>
    BY <1>2, <2>1, SubSeqEmpty
  <2>2. CASE s # <<>>
    BY <1>1, <1>3, <2>2, SubSeqFull, EmptySeq
  <2> QED
    BY <2>1, <2>2
<1>5. Drop(s \o t, Len(s)) = t
  <2> DEFINE u == SubSeq(s \o t, Len(s) + 1, Len(s) + Len(t))
  <2>1. Drop(s \o t, Len(s)) = u
    BY <1>2 DEF Drop
  <2>2. \A i \in Len(s) + 1 .. Len(s) + Len(t) : (s \o t)[i] \in S
    BY <1>1, <1>2
  <2>3. /\ u \in Seq(S) /\ Len(u) = Len(t)
        /\ \A i \in 1 .. Len(t) : u[i] = (s \o t)[Len(s) + i]
    <3>1. /\ SubSeq(s \o t, Len(s) + 1, Len(s) + Len(t)) \in Seq(S)
          /\ Len(SubSeq(s \o t, Len(s) + 1, Len(s) + Len(t))) =
               IF Len(s) + 1 <= Len(s) + Len(t) THEN (Len(s) + Len(t)) - (Len(s) + 1) + 1 ELSE 0
          /\ \A i \in 1 .. (Len(s) + Len(t)) - (Len(s) + 1) + 1 :
               SubSeq(s \o t, Len(s) + 1, Len(s) + Len(t))[i] = (s \o t)[Len(s) + 1 + i - 1]
      BY <1>1, <2>2, SubSeqProperties
    <3> QED
      BY <1>1, <3>1
  <2> HIDE DEF u
  <2>4. \A i \in 1 .. Len(u) : u[i] = t[i]
    BY <1>2, <2>3
  <2> QED
    BY <2>1, <2>3, <2>4, SeqEqual
<1> QED
  BY <1>2, <1>3, <1>4, <1>5 DEF Joins

\* Equal octets.
LEMMA OctetsAre ==
    ASSUME NEW n \in Nat, NEW byte
    PROVE  /\ Octets(n, byte) \in Seq({Octet(byte)}) /\ Len(Octets(n, byte)) = n
           /\ \A i \in 1 .. n : Octets(n, byte)[i] = Octet(byte)
BY DEF Octets

\* The first octet of an item stands for it.
Stands(item) == [byte |-> 160, item |-> {item}]

\* An encoded item.
LEMMA CborIs ==
    ASSUME NEW item, item.len \in Nat \ {0}
    PROVE  /\ Cbor(item) \in Seq({Stands(item), Octet(0)}) /\ Len(Cbor(item)) = item.len
           /\ Cbor(item)[1] = Stands(item)
<1> DEFINE S == {Stands(item), Octet(0)}
           s == <<Stands(item)>>
           t == Octets(item.len - 1, 0)
<1>1. s \in Seq(S) /\ Len(s) = 1 /\ s[1] = Stands(item)
  OBVIOUS
<1>2. t \in Seq(S) /\ Len(t) = item.len - 1
  BY OctetsAre DEF Octets
<1>3. Cbor(item) = s \o t
  BY DEF Cbor, Stands
<1> HIDE DEF s, t, S
<1>4. s \o t \in Seq(S) /\ Len(s \o t) = Len(s) + Len(t) /\ (s \o t)[1] = s[1]
  <2>1. s \o t \in Seq(S) /\ Joins(s \o t, s, t)
    BY <1>1, <1>2, Joined
  <2> QED
    BY <1>1, <2>1 DEF Joins
<1> QED
  BY <1>1, <1>2, <1>3, <1>4 DEF S

\* An item is found where it begins, whatever follows it.
LEMMA ItemFound ==
    ASSUME NEW item, item.len \in Nat \ {0}, NEW S, NEW rest \in Seq(S)
    PROVE  /\ Decoded(Cbor(item) \o rest) = {item} /\ Cbor(item) \o rest # <<>>
           /\ Len(Cbor(item) \o rest) = item.len + Len(rest)
<1> DEFINE T == S \union {Stands(item), Octet(0)}
           s == Cbor(item)
<1>1. s \in Seq(T) /\ Len(s) = item.len /\ s[1] = Stands(item) /\ rest \in Seq(T)
  BY CborIs, SeqMonotonic
<1> HIDE DEF s, T
<1> DEFINE d == s \o rest
<1>2. Len(d) = item.len + Len(rest) /\ d[1] = Stands(item) /\ Len(rest) \in Nat
  <2>1. Joins(d, s, rest)
    BY <1>1, Joined
  <2> QED
    BY <1>1, <2>1 DEF Joins
<1>3. d # <<>>
  BY <1>2
<1> HIDE DEF d
<1>4. Decoded(d) = {item}
  BY <1>2, <1>3 DEF Decoded, Stands
<1> QED
  BY <1>2, <1>3, <1>4 DEF d, s

\* A number of two octets.
LEMMA BigEndianOf2 ==
    ASSUME NEW a \in Nat, NEW b \in Nat
    PROVE  BigEndian(<<Octet(a), Octet(b)>>) = 256 * a + b
<1> DEFINE octets == <<Octet(a), Octet(b)>>
           Is(f) == f = [i \in 0 .. Len(octets) |->
                           IF i = 0 THEN 0 ELSE 256 * f[i - 1] + octets[i].byte]
           number == CHOOSE f : Is(f)
           g == [i \in 0 .. 2 |-> IF i = 0 THEN 0 ELSE IF i = 1 THEN a ELSE 256 * a + b]
<1>1. Len(octets) = 2 /\ octets[1].byte = a /\ octets[2].byte = b
  BY DEF Octet
<1>2. BigEndian(octets) = number[2]
  BY <1>1 DEF BigEndian
<1>3. Is(g)
  BY <1>1
<1>4. Is(number)
  BY <1>3
<1> HIDE DEF number, octets
<1>5. /\ number[0] = 0 /\ number[1] = 256 * number[0] + octets[1].byte
      /\ number[2] = 256 * number[1] + octets[2].byte
  BY <1>1, <1>4
<1> QED
  BY <1>1, <1>2, <1>5 DEF octets

\* A number of four octets.
LEMMA BigEndianOf4 ==
    ASSUME NEW a \in Nat, NEW b \in Nat, NEW c \in Nat, NEW d \in Nat
    PROVE  BigEndian(<<Octet(a), Octet(b), Octet(c), Octet(d)>>) =
             256 * (256 * (256 * a + b) + c) + d
<1> DEFINE octets == <<Octet(a), Octet(b), Octet(c), Octet(d)>>
           Is(f) == f = [i \in 0 .. Len(octets) |->
                           IF i = 0 THEN 0 ELSE 256 * f[i - 1] + octets[i].byte]
           number == CHOOSE f : Is(f)
           g == [i \in 0 .. 4 |-> IF i = 0 THEN 0 ELSE IF i = 1 THEN a
                                  ELSE IF i = 2 THEN 256 * a + b
                                  ELSE IF i = 3 THEN 256 * (256 * a + b) + c
                                  ELSE 256 * (256 * (256 * a + b) + c) + d]
<1>1. /\ Len(octets) = 4 /\ octets[1].byte = a /\ octets[2].byte = b
      /\ octets[3].byte = c /\ octets[4].byte = d
  BY DEF Octet
<1>2. BigEndian(octets) = number[4]
  BY <1>1 DEF BigEndian
<1>3. Is(g)
  BY <1>1
<1>4. Is(number)
  BY <1>3
<1> HIDE DEF number, octets
<1>5. /\ number[0] = 0 /\ number[1] = 256 * number[0] + octets[1].byte
      /\ number[2] = 256 * number[1] + octets[2].byte
      /\ number[3] = 256 * number[2] + octets[3].byte
      /\ number[4] = 256 * number[3] + octets[4].byte
  BY <1>1, <1>4
<1> QED
  BY <1>1, <1>2, <1>5 DEF octets

\* A number and its two halves.
LEMMA Halves ==
    ASSUME NEW n \in Nat
    PROVE  /\ n \div 256 \in Nat /\ n % 256 \in Nat /\ 256 * (n \div 256) + (n % 256) = n
           /\ n \div 65536 \in Nat /\ n % 65536 \in Nat
           /\ 65536 * (n \div 65536) + (n % 65536) = n
OBVIOUS

\* u16::to_be_bytes and from_be_bytes.
LEMMA U16ReadBack ==
    ASSUME NEW n \in Nat
    PROVE  /\ U16(n) = <<Octet(n \div 256), Octet(n % 256)>>
           /\ Octet(n \div 256) \in PlainOctets /\ Octet(n % 256) \in PlainOctets
           /\ U16(n) \in Seq(PlainOctets) /\ Len(U16(n)) = 2 /\ BigEndian(U16(n)) = n
<1> DEFINE a == n \div 256
           b == n % 256
<1>1. a \in Nat /\ b \in Nat /\ 256 * a + b = n
  BY Halves
<1>2. U16(n) = <<Octet(a), Octet(b)>>
  BY DEF U16
<1> HIDE DEF a, b
<1>3. Octet(a) \in PlainOctets /\ Octet(b) \in PlainOctets
  BY <1>1 DEF Octet, PlainOctets
<1>4. <<Octet(a), Octet(b)>> \in Seq(PlainOctets) /\ Len(<<Octet(a), Octet(b)>>) = 2
  BY <1>3
<1>5. BigEndian(<<Octet(a), Octet(b)>>) = n
  BY <1>1, BigEndianOf2
<1> QED
  BY <1>2, <1>3, <1>4, <1>5 DEF a, b

\* u32::to_be_bytes and from_be_bytes.
LEMMA U32ReadBack ==
    ASSUME NEW n \in Nat
    PROVE  U32(n) \in Seq(PlainOctets) /\ Len(U32(n)) = 4 /\ BigEndian(U32(n)) = n
<1> DEFINE q == n \div 65536
           r == n % 65536
           a == q \div 256
           b == q % 256
           c == r \div 256
           d == r % 256
<1>1. q \in Nat /\ r \in Nat /\ 65536 * q + r = n
  BY Halves
<1>2. U32(n) = U16(q) \o U16(r)
  BY DEF U32
<1> HIDE DEF q, r
<1>3. /\ a \in Nat /\ b \in Nat /\ 256 * a + b = q
      /\ c \in Nat /\ d \in Nat /\ 256 * c + d = r
  BY <1>1, Halves
<1>4. /\ U16(q) = <<Octet(a), Octet(b)>> /\ U16(r) = <<Octet(c), Octet(d)>>
      /\ Octet(a) \in PlainOctets /\ Octet(b) \in PlainOctets
      /\ Octet(c) \in PlainOctets /\ Octet(d) \in PlainOctets
  BY <1>1, U16ReadBack
<1> HIDE DEF a, b, c, d
<1>5. U32(n) = <<Octet(a), Octet(b), Octet(c), Octet(d)>>
  <2> DEFINE s == <<Octet(a), Octet(b)>>
             t == <<Octet(c), Octet(d)>>
             u == <<Octet(a), Octet(b), Octet(c), Octet(d)>>
  <2>1. s \in Seq(PlainOctets) /\ t \in Seq(PlainOctets) /\ u \in Seq(PlainOctets)
    BY <1>4
  <2>2. /\ Len(s) = 2 /\ s[1] = Octet(a) /\ s[2] = Octet(b)
        /\ Len(t) = 2 /\ t[1] = Octet(c) /\ t[2] = Octet(d)
        /\ Len(u) = 4 /\ u[1] = Octet(a) /\ u[2] = Octet(b) /\ u[3] = Octet(c) /\ u[4] = Octet(d)
    OBVIOUS
  <2>3. U32(n) = s \o t
    BY <1>2, <1>4
  <2> HIDE DEF s, t, u
  <2>4. /\ s \o t \in Seq(PlainOctets) /\ Len(s \o t) = 4
        /\ \A i \in 1 .. 4 : (s \o t)[i] = IF i <= 2 THEN s[i] ELSE t[i - 2]
    <3>1. /\ s \o t \in Seq(PlainOctets) /\ Len(s \o t) = Len(s) + Len(t)
          /\ \A i \in 1 .. Len(s) + Len(t) :
                (s \o t)[i] = IF i <= Len(s) THEN s[i] ELSE t[i - Len(s)]
      BY <2>1, ConcatProperties
    <3> QED
      BY <2>2, <3>1
  <2>5. \A i \in 1 .. 4 : (s \o t)[i] = u[i]
    BY <2>2, <2>4
  <2> QED
    BY <2>1, <2>2, <2>3, <2>4, <2>5, SeqEqual DEF u
<1>6. U32(n) \in Seq(PlainOctets) /\ Len(U32(n)) = 4
  BY <1>4, <1>5
<1>7. BigEndian(U32(n)) = 256 * (256 * (256 * a + b) + c) + d
  BY <1>3, <1>5, BigEndianOf4
<1> QED
  BY <1>1, <1>3, <1>6, <1>7

-----------------------------------------------------------------------------
(***************************************************************************)
(* The sections of authenticator data.                                     *)
(***************************************************************************)

\* What stands for the hash of the relying party's identifier.
RpIdHash(rp_id) == [value |-> [type |-> "digest", entries |-> <<>>, of |-> rp_id], len |-> 32]

\* The 37 octets before the sections, and the octets they are of.
Header(rp_id, flags, n) == Digest(rp_id, 32) \o Octets(1, flags) \o U32(n)
HeaderOctets(rp_id, flags) ==
    {Stands(RpIdHash(rp_id)), Octet(0), Octet(flags)} \union PlainOctets

\* Where its fields are.
LEMMA HeaderIs ==
    ASSUME NEW rp_id, NEW flags, NEW n \in Nat
    PROVE  LET h == Header(rp_id, flags, n)
           IN  /\ h \in Seq(HeaderOctets(rp_id, flags)) /\ Len(h) = 37
               /\ SubSeq(h, 1, 32)[1].item = {RpIdHash(rp_id)}
               /\ h[33].byte = flags
               /\ BigEndian(SubSeq(h, 34, 37)) = n
<1> DEFINE h == Digest(rp_id, 32)
           f == Octets(1, flags)
           c == U32(n)
           T == HeaderOctets(rp_id, flags)
<1>1. h \in Seq(T) /\ Len(h) = 32 /\ h[1] = Stands(RpIdHash(rp_id))
  <2> DEFINE hash == RpIdHash(rp_id)
  <2>1. h = Cbor(hash) /\ hash.len = 32
    BY DEF Digest, RpIdHash
  <2>2. {Stands(hash), Octet(0)} \subseteq T
    BY DEF HeaderOctets
  <2> HIDE DEF hash, h, T
  <2>3. hash.len \in Nat \ {0}
    BY <2>1
  <2>4. /\ Cbor(hash) \in Seq({Stands(hash), Octet(0)})
        /\ Len(Cbor(hash)) = 32 /\ Cbor(hash)[1] = Stands(hash)
    BY <2>1, <2>3, CborIs
  <2>5. Cbor(hash) \in Seq(T)
    BY <2>2, <2>4, SeqMonotonic
  <2> QED
    BY <2>1, <2>4, <2>5 DEF hash
<1>2. f \in Seq(T) /\ Len(f) = 1 /\ f[1] = Octet(flags)
  <2>1. f \in Seq({Octet(flags)}) /\ Len(f) = 1 /\ \A i \in 1 .. 1 : f[i] = Octet(flags)
    BY OctetsAre
  <2>2. {Octet(flags)} \subseteq T
    BY DEF HeaderOctets
  <2> HIDE DEF f, T
  <2> QED
    BY <2>1, <2>2, SeqMonotonic
<1>3. c \in Seq(T) /\ Len(c) = 4 /\ BigEndian(c) = n
  <2>1. PlainOctets \subseteq T
    BY DEF HeaderOctets
  <2> HIDE DEF T
  <2> QED
    BY <2>1, U32ReadBack, SeqMonotonic
<1> HIDE DEF h, f, c, T
<1> DEFINE hf == h \o f
           hfc == hf \o c
<1>4. hf \in Seq(T) /\ Len(hf) = 33 /\ hf[33] = Octet(flags) /\ SubSeq(hf, 1, 32) = h
  <2>1. hf \in Seq(T) /\ Joins(hf, h, f)
    BY <1>1, <1>2, Joined
  <2> HIDE DEF hf
  <2>2. 1 \in 1 .. Len(f)
    BY <1>2
  <2>3. Len(hf) = Len(h) + Len(f) /\ hf[Len(h) + 1] = f[1] /\ SubSeq(hf, 1, Len(h)) = h
    BY <2>1, <2>2 DEF Joins
  <2> QED
    BY <1>1, <1>2, <2>1, <2>3
<1>5. /\ hfc \in Seq(T) /\ Len(hfc) = 37 /\ hfc[33] = Octet(flags)
      /\ SubSeq(hfc, 1, 32) = h /\ SubSeq(hfc, 34, 37) = c
  <2> HIDE DEF hf
  <2>1. hfc \in Seq(T) /\ Joins(hfc, hf, c)
    BY <1>3, <1>4, Joined
  <2> HIDE DEF hfc
  <2>2. 1 \in 1 .. Len(hf) /\ 32 \in 1 .. Len(hf) /\ 33 \in 1 .. Len(hf)
    BY <1>4
  <2>3. hfc[33] = hf[33] /\ SubSeq(hfc, 1, 32) = SubSeq(hf, 1, 32)
    BY <2>1, <2>2 DEF Joins
  <2>4. Len(hfc) = Len(hf) + Len(c) /\ SubSeq(hfc, Len(hf) + 1, Len(hfc)) = c
    BY <2>1 DEF Joins, Drop
  <2>5. Len(hfc) = 37 /\ Len(hf) + 1 = 34
    BY <1>3, <1>4, <2>4
  <2> QED
    BY <1>4, <2>1, <2>3, <2>4, <2>5
<1>6. h[1].item = {RpIdHash(rp_id)} /\ Octet(flags).byte = flags
  BY <1>1 DEF Stands, Octet
<1>7. hfc = Header(rp_id, flags, n)
  BY DEF Header, hfc, hf, h, f, c
<1> HIDE DEF hfc
<1> QED
  BY <1>3, <1>5, <1>6, <1>7 DEF T

\* They are there too when something follows.
LEMMA HeaderRead ==
    ASSUME NEW rp_id, NEW flags, NEW n \in Nat, NEW S, NEW rest \in Seq(S)
    PROVE  LET data == Header(rp_id, flags, n) \o rest
           IN  /\ Len(data) = 37 + Len(rest)
               /\ SubSeq(data, 1, 32)[1].item = {RpIdHash(rp_id)}
               /\ data[33].byte = flags
               /\ BigEndian(SubSeq(data, 34, 37)) = n
               /\ Drop(data, 37) = rest
<1> DEFINE h == Header(rp_id, flags, n)
           T == HeaderOctets(rp_id, flags) \union S
           d == h \o rest
<1>1. /\ h \in Seq(HeaderOctets(rp_id, flags)) /\ Len(h) = 37
      /\ SubSeq(h, 1, 32)[1].item = {RpIdHash(rp_id)}
      /\ h[33].byte = flags /\ BigEndian(SubSeq(h, 34, 37)) = n
  BY HeaderIs
<1>2. HeaderOctets(rp_id, flags) \subseteq T /\ S \subseteq T
  OBVIOUS
<1> HIDE DEF h, T
<1>3. h \in Seq(T) /\ rest \in Seq(T)
  BY <1>1, <1>2, SeqMonotonic
<1>4. Joins(d, h, rest)
  BY <1>3, Joined
<1> HIDE DEF d
<1>5. /\ 1 \in 1 .. Len(h) /\ 32 \in 1 .. Len(h) /\ 33 \in 1 .. Len(h)
      /\ 34 \in 1 .. Len(h) /\ 37 \in 1 .. Len(h)
  BY <1>1
<1>6. /\ d[33] = h[33] /\ SubSeq(d, 1, 32) = SubSeq(h, 1, 32)
      /\ SubSeq(d, 34, 37) = SubSeq(h, 34, 37)
      /\ Len(d) = Len(h) + Len(rest) /\ Drop(d, Len(h)) = rest
  BY <1>4, <1>5 DEF Joins
<1> QED
  BY <1>1, <1>6 DEF d, h

\* Attested credential data up to the key, and where its fields are.
Aaguid(aaguid) == aaguid \in Seq(PlainOctets) /\ Len(aaguid) = 16
Identifier(id) == id \in Seq(PlainOctets) /\ Len(id) > 0 /\ Len(id) <= 1023

Prefix(aaguid, id) == aaguid \o U16(Len(id)) \o id

\* The fixed fields stand where ParseAttestedCredentialData looks for them.
LEMMA PrefixIs ==
    ASSUME NEW aaguid, Aaguid(aaguid), NEW id, Identifier(id)
    PROVE  LET p == Prefix(aaguid, id)
           IN  /\ p \in Seq(PlainOctets) /\ Len(p) = 18 + Len(id)
               /\ SubSeq(p, 1, 16) = aaguid
               /\ BigEndian(SubSeq(p, 17, 18)) = Len(id)
               /\ SubSeq(p, 19, 18 + Len(id)) = id
<1> DEFINE n == U16(Len(id))
           an == aaguid \o n
           p == an \o id
<1>0. /\ aaguid \in Seq(PlainOctets) /\ Len(aaguid) = 16
      /\ id \in Seq(PlainOctets) /\ Len(id) \in Nat
  BY LenProperties DEF Aaguid, Identifier
<1>1. n \in Seq(PlainOctets) /\ Len(n) = 2 /\ BigEndian(n) = Len(id)
  BY <1>0, U16ReadBack
<1> HIDE DEF n
<1>2. /\ an \in Seq(PlainOctets) /\ Len(an) = 18
      /\ SubSeq(an, 1, 16) = aaguid /\ SubSeq(an, 17, 18) = n
  <2>1. an \in Seq(PlainOctets) /\ Joins(an, aaguid, n)
    BY <1>0, <1>1, Joined
  <2> HIDE DEF an
  <2>2. /\ Len(an) = Len(aaguid) + Len(n) /\ SubSeq(an, 1, Len(aaguid)) = aaguid
        /\ SubSeq(an, Len(aaguid) + 1, Len(an)) = n
    BY <2>1 DEF Joins, Drop
  <2> QED
    BY <1>0, <1>1, <2>1, <2>2
<1> HIDE DEF an
<1>3. p \in Seq(PlainOctets) /\ Joins(p, an, id)
  BY <1>0, <1>2, Joined
<1> HIDE DEF p
<1>4. /\ 1 \in 1 .. Len(an) /\ 16 \in 1 .. Len(an) /\ 17 \in 1 .. Len(an)
      /\ 18 \in 1 .. Len(an)
  BY <1>2
<1>5. /\ SubSeq(p, 1, 16) = SubSeq(an, 1, 16) /\ SubSeq(p, 17, 18) = SubSeq(an, 17, 18)
      /\ Len(p) = Len(an) + Len(id) /\ SubSeq(p, Len(an) + 1, Len(p)) = id
  BY <1>3, <1>4 DEF Joins, Drop
<1>6. p = Prefix(aaguid, id)
  BY DEF Prefix, p, an, n
<1>7. Len(p) = 18 + Len(id) /\ Len(an) + 1 = 19
  BY <1>0, <1>2, <1>5
<1>8. SubSeq(p, 19, 18 + Len(id)) = id
  BY <1>5, <1>7
<1>9. SubSeq(p, 1, 16) = aaguid /\ BigEndian(SubSeq(p, 17, 18)) = Len(id)
  BY <1>1, <1>2, <1>5
<1> QED
  BY <1>3, <1>6, <1>7, <1>8, <1>9

\* They are there too when something follows.
Attested(data, aaguid, id, rest) ==
    /\ Len(data) = 18 + Len(id) + Len(rest)
    /\ SubSeq(data, 1, 16) = aaguid
    /\ BigEndian(SubSeq(data, 17, 18)) = Len(id)
    /\ SubSeq(data, 19, 18 + Len(id)) = id
    /\ Drop(data, 18 + Len(id)) = rest

\* Whatever follows the fixed fields, they are read as they were written.
LEMMA PrefixRead ==
    ASSUME NEW aaguid, Aaguid(aaguid), NEW id, Identifier(id),
           NEW S, NEW rest \in Seq(S)
    PROVE  Attested(Prefix(aaguid, id) \o rest, aaguid, id, rest)
<1> DEFINE p == Prefix(aaguid, id)
           T == PlainOctets \union S
           d == p \o rest
<1>1. /\ p \in Seq(PlainOctets) /\ Len(p) = 18 + Len(id)
      /\ SubSeq(p, 1, 16) = aaguid
      /\ BigEndian(SubSeq(p, 17, 18)) = Len(id)
      /\ SubSeq(p, 19, 18 + Len(id)) = id
  BY PrefixIs
<1>2. PlainOctets \subseteq T /\ S \subseteq T
  OBVIOUS
<1> HIDE DEF p, T
<1>3. p \in Seq(T) /\ rest \in Seq(T)
  BY <1>1, <1>2, SeqMonotonic
<1>4. Joins(d, p, rest)
  BY <1>3, Joined
<1> HIDE DEF d
<1>0. Len(id) \in Nat /\ Len(id) > 0
  BY LenProperties DEF Identifier
<1>5. /\ 1 \in 1 .. Len(p) /\ 16 \in 1 .. Len(p) /\ 17 \in 1 .. Len(p)
      /\ 18 \in 1 .. Len(p) /\ 19 \in 1 .. Len(p) /\ 18 + Len(id) \in 1 .. Len(p)
  <2>1. Len(p) = 18 + Len(id)
    BY <1>1
  <2> QED
    BY <1>0, <2>1
<1>6. /\ SubSeq(d, 1, 16) = SubSeq(p, 1, 16)
      /\ SubSeq(d, 17, 18) = SubSeq(p, 17, 18)
      /\ SubSeq(d, 19, 18 + Len(id)) = SubSeq(p, 19, 18 + Len(id))
      /\ Len(d) = Len(p) + Len(rest) /\ Drop(d, Len(p)) = rest
  BY <1>4, <1>5 DEF Joins
<1>7. Attested(d, aaguid, id, rest)
  BY <1>1, <1>6 DEF Attested
<1> QED
  BY <1>7 DEF d, p

\* The flags are read as they were written.
LEMMA FlagsRead ==
    ASSUME NEW s, s.user_present \in BOOLEAN, s.user_verified \in BOOLEAN,
           s.backup_eligible \in BOOLEAN, s.backup_state \in BOOLEAN
    PROVE  /\ Bit(Flags(s), 0) = s.user_present /\ Bit(Flags(s), 2) = s.user_verified
           /\ Bit(Flags(s), 3) = s.backup_eligible /\ Bit(Flags(s), 4) = s.backup_state
           /\ Bit(Flags(s), 6) = (s.attested # {}) /\ Bit(Flags(s), 7) = (s.extensions # {})
<1> DEFINE a == BitOf(s.user_present, 0)
           b == BitOf(s.user_verified, 2)
           c == BitOf(s.backup_eligible, 3)
           d == BitOf(s.backup_state, 4)
           e == BitOf(s.attested # {}, 6)
           f == BitOf(s.extensions # {}, 7)
           x == a + b + c + d + e + f
<1>1. /\ a \in {0, 1} /\ (a = 1 <=> s.user_present)
      /\ b \in {0, 4} /\ (b = 4 <=> s.user_verified)
      /\ c \in {0, 8} /\ (c = 8 <=> s.backup_eligible)
      /\ d \in {0, 16} /\ (d = 16 <=> s.backup_state)
      /\ e \in {0, 64} /\ (e = 64 <=> s.attested # {})
      /\ f \in {0, 128} /\ (f = 128 <=> s.extensions # {})
  BY DEF BitOf
<1>2. Flags(s) = x
  BY DEF Flags
<1> HIDE DEF a, b, c, d, e, f
<1>3. /\ x % 2 = 1 <=> a = 1
      /\ (x \div 4) % 2 = 1 <=> b = 4
      /\ (x \div 8) % 2 = 1 <=> c = 8
      /\ (x \div 16) % 2 = 1 <=> d = 16
      /\ (x \div 64) % 2 = 1 <=> e = 64
      /\ (x \div 128) % 2 = 1 <=> f = 128
  BY <1>1
<1>4. x \in Nat /\ x \div 1 = x
  BY <1>1
<1> HIDE DEF x
<1>5. /\ Bit(x, 0) <=> x % 2 = 1
      /\ Bit(x, 2) <=> (x \div 4) % 2 = 1
      /\ Bit(x, 3) <=> (x \div 8) % 2 = 1
      /\ Bit(x, 4) <=> (x \div 16) % 2 = 1
      /\ Bit(x, 6) <=> (x \div 64) % 2 = 1
      /\ Bit(x, 7) <=> (x \div 128) % 2 = 1
  <2>1. 2 ^ 0 = 1 /\ 2 ^ 2 = 4 /\ 2 ^ 3 = 8 /\ 2 ^ 4 = 16 /\ 2 ^ 6 = 64 /\ 2 ^ 7 = 128
    OBVIOUS
  <2> QED
    BY <1>4, <2>1 DEF Bit
<1>6. /\ Bit(x, 0) <=> s.user_present
      /\ Bit(x, 2) <=> s.user_verified
      /\ Bit(x, 3) <=> s.backup_eligible
      /\ Bit(x, 4) <=> s.backup_state
      /\ Bit(x, 6) <=> s.attested # {}
      /\ Bit(x, 7) <=> s.extensions # {}
  BY <1>1, <1>3, <1>5
<1>7. \A n : Bit(x, n) \in BOOLEAN
  BY DEF Bit
<1> QED
  BY <1>2, <1>6, <1>7, Zenon

-----------------------------------------------------------------------------
(***************************************************************************)
(* What the parsers answer.                                                *)
(***************************************************************************)

\* The key that is read where an encoded key begins.
KeyRead(aaguid, id, key) ==
    Read(FirstError(ParseCoseKey(key.value)),
         {[aaguid |-> aaguid, id |-> id, public_key |-> CoseKey(key.value)]},
         18 + Len(id) + key.len)

\* After the fixed fields the answer depends only on the key that is decoded.
LEMMA AttestedParsed ==
    ASSUME NEW aaguid, Aaguid(aaguid), NEW id, Identifier(id),
           NEW S, NEW rest \in Seq(S), rest # <<>>
    PROVE  ParseAttestedCredentialData(Prefix(aaguid, id) \o rest) =
             IF Decoded(rest) = {} THEN Read("CborDecodeError", {}, 0)
             ELSE KeyRead(aaguid, id, CHOOSE i \in Decoded(rest) : TRUE)
<1> DEFINE data == Prefix(aaguid, id) \o rest
<1>0. Attested(data, aaguid, id, rest)
  BY PrefixRead
<1> HIDE DEF data
<1>1. /\ Len(data) = 18 + Len(id) + Len(rest)
      /\ SubSeq(data, 1, 16) = aaguid
      /\ BigEndian(SubSeq(data, 17, 18)) = Len(id)
      /\ SubSeq(data, 19, 18 + Len(id)) = id
      /\ Drop(data, 18 + Len(id)) = rest
  BY <1>0 DEF Attested
<1> DEFINE cred_id_len == BigEndian(SubSeq(data, 17, 18))
           remaining == Drop(data, 18 + cred_id_len)
           keys == Decoded(remaining)
           a == Check(cred_id_len = 0, "InvalidAuthenticatorData")
           b == Check(cred_id_len > 1023, "InvalidAuthenticatorData")
           c == Check(18 + cred_id_len > Len(data), "InvalidAuthenticatorData")
           d == Check(remaining = <<>>, "InvalidAuthenticatorData")
           e == Check(keys = {}, "CborDecodeError")
           early == FirstError(<<a, b, c, d, e>>)
           key == CHOOSE i \in keys : TRUE
           E == {"InvalidAuthenticatorData", "CborDecodeError", Ok}
<1>2. Len(id) \in Nat /\ Len(id) > 0 /\ Len(id) <= 1023 /\ Len(rest) \in Nat
  BY LenProperties DEF Identifier
<1>3. ParseAttestedCredentialData(data) =
        IF Len(data) < 18 THEN Read("InvalidAuthenticatorData", {}, 0)
        ELSE IF early # Ok THEN Read(early, {}, 0)
        ELSE Read(FirstError(ParseCoseKey(key.value)),
                  {[ aaguid     |-> SubSeq(data, 1, 16),
                     id         |-> SubSeq(data, 19, 18 + cred_id_len),
                     public_key |-> CoseKey(key.value) ]},
                  18 + cred_id_len + key.len)
  BY DEF ParseAttestedCredentialData
<1>4. cred_id_len = Len(id) /\ remaining = rest
  BY <1>1
<1>5. keys = Decoded(rest) /\ key = CHOOSE i \in Decoded(rest) : TRUE
  BY <1>4
<1> HIDE DEF data, cred_id_len, remaining, keys, key
<1>6. /\ a \in Checks(E) /\ ~a.failed
      /\ b \in Checks(E) /\ ~b.failed
      /\ c \in Checks(E) /\ ~c.failed
      /\ d \in Checks(E) /\ ~d.failed
      /\ e \in Checks(E) /\ (e.failed <=> keys = {}) /\ e.error = "CborDecodeError"
  <2> DEFINE empty == cred_id_len = 0
             long == cred_id_len > 1023
             short == 18 + cred_id_len > Len(data)
             keyless == remaining = <<>>
             undecoded == keys = {}
  <2>1. ~empty /\ ~long /\ ~short /\ ~keyless /\ (undecoded <=> keys = {})
    BY <1>1, <1>2, <1>4
  <2>2. /\ empty \in BOOLEAN /\ long \in BOOLEAN /\ short \in BOOLEAN
        /\ keyless \in BOOLEAN /\ undecoded \in BOOLEAN
    OBVIOUS
  <2> HIDE DEF empty, long, short, keyless, undecoded
  <2>3. \A failed \in BOOLEAN, error \in {"InvalidAuthenticatorData", "CborDecodeError"} :
           /\ Check(failed, error) \in Checks(E)
           /\ Check(failed, error).failed = failed /\ Check(failed, error).error = error
    BY DEF Checks, Check, Ok
  <2> HIDE DEF E
  <2>4. /\ Check(empty, "InvalidAuthenticatorData") \in Checks(E)
        /\ ~Check(empty, "InvalidAuthenticatorData").failed
        /\ Check(long, "InvalidAuthenticatorData") \in Checks(E)
        /\ ~Check(long, "InvalidAuthenticatorData").failed
        /\ Check(short, "InvalidAuthenticatorData") \in Checks(E)
        /\ ~Check(short, "InvalidAuthenticatorData").failed
        /\ Check(keyless, "InvalidAuthenticatorData") \in Checks(E)
        /\ ~Check(keyless, "InvalidAuthenticatorData").failed
        /\ Check(undecoded, "CborDecodeError") \in Checks(E)
        /\ (Check(undecoded, "CborDecodeError").failed <=> keys = {})
        /\ Check(undecoded, "CborDecodeError").error = "CborDecodeError"
    BY <2>1, <2>2, <2>3
  <2> QED
    BY <2>4, Zenon DEF empty, long, short, keyless, undecoded
<1>7. early = IF keys = {} THEN "CborDecodeError" ELSE Ok
  <2> HIDE DEF a, b, c, d, e, E
  <2>1. early = IF a.failed THEN a.error ELSE IF b.failed THEN b.error
                ELSE IF c.failed THEN c.error ELSE IF d.failed THEN d.error
                ELSE IF e.failed THEN e.error ELSE Ok
    BY <1>6, FirstErrorOf5
  <2> QED
    BY <1>6, <2>1
<1> HIDE DEF early
<1>8. ~(Len(data) < 18)
  BY <1>1, <1>2
<1>9. CASE keys = {}
  BY <1>3, <1>5, <1>7, <1>8, <1>9 DEF Ok, data
<1>10. CASE keys # {}
  <2>1. ParseAttestedCredentialData(data) = KeyRead(aaguid, id, key)
    BY <1>1, <1>3, <1>4, <1>7, <1>8, <1>10 DEF KeyRead
  <2> QED
    BY <1>5, <1>10, <2>1 DEF data
<1> QED
  BY <1>9, <1>10

\* Authenticator data that is accepted, and what is returned of it.
ReadFrom(v, rp_id, flags, n, attested) ==
    \E hash, extensions :
       /\ hash[1].item = {RpIdHash(rp_id)}
       /\ v = [ rp_id           |-> hash,
                user_present    |-> Bit(flags, 0),
                user_verified   |-> Bit(flags, 2),
                backup_eligible |-> Bit(flags, 3),
                backup_state    |-> Bit(flags, 4),
                sign_count      |-> n,
                attested        |-> attested,
                extensions      |-> extensions ]

\* What is read of a buffer that is accepted is what its header says.
LEMMA HeaderParsed ==
    ASSUME NEW rp_id, NEW flags, NEW n \in Nat, NEW S, NEW rest \in Seq(S),
           ParseAuthenticatorData(Header(rp_id, flags, n) \o rest).verdict = Ok
    PROVE  LET at == Section(Bit(flags, 6), ParseAttestedCredentialData(rest))
           IN  /\ at.verdict = Ok
               /\ \E v : /\ ParseAuthenticatorData(Header(rp_id, flags, n) \o rest).value = {v}
                         /\ ReadFrom(v, rp_id, flags, n, at.value)
<1> DEFINE data == Header(rp_id, flags, n) \o rest
           byte == data[33].byte
           at == Section(Bit(byte, 6), ParseAttestedCredentialData(Drop(data, 37)))
           ed == Section(Bit(byte, 7), ParseExtensionMap(Drop(data, ExtStart(at.consumed))))
           a == Check(Bit(byte, 4) /\ ~Bit(byte, 3), "InvalidAuthenticatorData")
           b == Check(at.verdict # Ok, at.verdict)
           c == Check(ed.verdict # Ok, ed.verdict)
           verdict == FirstError(<<a, b, c>>)
           v == [ rp_id           |-> SubSeq(data, 1, 32),
                  user_present    |-> Bit(byte, 0),
                  user_verified   |-> Bit(byte, 2),
                  backup_eligible |-> Bit(byte, 3),
                  backup_state    |-> Bit(byte, 4),
                  sign_count      |-> BigEndian(SubSeq(data, 34, 37)),
                  attested        |-> at.value,
                  extensions      |-> ed.value ]
           E == {"InvalidAuthenticatorData", at.verdict, ed.verdict}
<1>1. /\ Len(data) = 37 + Len(rest) /\ SubSeq(data, 1, 32)[1].item = {RpIdHash(rp_id)}
      /\ data[33].byte = flags /\ BigEndian(SubSeq(data, 34, 37)) = n /\ Drop(data, 37) = rest
  BY HeaderRead
<1>2. Len(rest) \in Nat
  BY LenProperties
<1>3. ~(Len(data) < 37)
  BY <1>1, <1>2
<1>4. ParseAuthenticatorData(data) = Read(verdict, {v}, 0)
  BY <1>3 DEF ParseAuthenticatorData
<1>5. ParseAuthenticatorData(data).verdict = Ok
  OBVIOUS
<1>0. byte = flags /\ at = Section(Bit(flags, 6), ParseAttestedCredentialData(rest))
  BY <1>1
<1> HIDE DEF data, byte
<1>6. verdict = Ok /\ ParseAuthenticatorData(data).value = {v}
  BY <1>4, <1>5 DEF Read
<1>7. at.verdict = Ok
  <2>1. (Bit(byte, 4) /\ ~Bit(byte, 3)) \in BOOLEAN
    OBVIOUS
  <2> HIDE DEF at, ed
  <2>2. /\ a \in Checks(E) /\ b \in Checks(E) /\ c \in Checks(E)
        /\ (b.failed <=> at.verdict # Ok) /\ b.error = at.verdict
        /\ a.error = "InvalidAuthenticatorData"
    BY <2>1 DEF Checks, Check, Ok
  <2> HIDE DEF a, b, c, E
  <2>3. verdict = IF a.failed THEN a.error ELSE IF b.failed THEN b.error
                  ELSE IF c.failed THEN c.error ELSE Ok
    BY <2>2, FirstErrorOf3
  <2> QED
    BY <1>6, <2>2, <2>3 DEF Ok
<1>8. ReadFrom(v, rp_id, flags, n, at.value)
  <2> HIDE DEF at, ed
  <2> QED
    BY <1>0, <1>1 DEF ReadFrom
<1> HIDE DEF v, at
<1> QED
  BY <1>0, <1>6, <1>7, <1>8 DEF data

-----------------------------------------------------------------------------
(***************************************************************************)
(* What an authenticator writes.                                           *)
(***************************************************************************)

\* What `Encode` is given: each section at most once, and what is in it of
\* the size that its length can hold.
Encodable(s) ==
    /\ s.user_present \in BOOLEAN /\ s.user_verified \in BOOLEAN
    /\ s.backup_eligible \in BOOLEAN /\ s.backup_state \in BOOLEAN
    /\ s.sign_count \in Nat
    /\ \A c \in s.attested : /\ s.attested = {c} /\ Aaguid(c.aaguid) /\ Identifier(c.id)
                             /\ c.key.len \in Nat /\ c.key.len > 1
    /\ \A e \in s.extensions : s.extensions = {e} /\ e.len \in Nat \ {0}

\* What follows the header.
ExtensionOctets(s) == IF s.extensions = {} THEN <<>> ELSE Cbor(The(s.extensions))
Sections(s) ==
    IF s.attested = {} THEN ExtensionOctets(s)
    ELSE Prefix(The(s.attested).aaguid, The(s.attested).id)
           \o (Cbor(The(s.attested).key) \o ExtensionOctets(s))

\* The only element of a set.
LEMMA TheOnly == \A v : The({v}) = v
BY DEF The

\* The extensions, if there are any, are octets.
LEMMA ExtensionOctetsAre ==
    ASSUME NEW s, Encodable(s)
    PROVE  \E S : ExtensionOctets(s) \in Seq(S)
<1>1. CASE s.extensions = {}
  BY <1>1, EmptySeq DEF ExtensionOctets
<1>2. CASE s.extensions # {}
  <2>1. PICK e \in s.extensions : s.extensions = {e} /\ e.len \in Nat \ {0}
    BY <1>2 DEF Encodable
  <2>2. ExtensionOctets(s) = Cbor(e)
    BY <1>2, <2>1, TheOnly DEF ExtensionOctets
  <2>3. Cbor(e) \in Seq({Stands(e), Octet(0)})
    BY <2>1, CborIs
  <2> QED
    BY <2>2, <2>3
<1> QED
  BY <1>1, <1>2

\* What follows the prefix of attested credential data.
LEMMA KeyOctetsAre ==
    ASSUME NEW s, Encodable(s), NEW c \in s.attested
    PROVE  /\ The(s.attested) = c
           /\ \E S : /\ Cbor(c.key) \in Seq(S) /\ ExtensionOctets(s) \in Seq(S)
                     /\ PlainOctets \subseteq S
<1>1. s.attested = {c} /\ c.key.len \in Nat \ {0}
  BY DEF Encodable
<1>2. The(s.attested) = c
  BY <1>1, TheOnly
<1>3. PICK X : ExtensionOctets(s) \in Seq(X)
  BY ExtensionOctetsAre
<1> DEFINE key == c.key
           S == X \union {Stands(key), Octet(0)} \union PlainOctets
<1>4. Cbor(key) \in Seq({Stands(key), Octet(0)})
  <2> HIDE DEF key
  <2>1. ASSUME key.len \in Nat \ {0} PROVE Cbor(key) \in Seq({Stands(key), Octet(0)})
    BY <2>1, CborIs
  <2> QED
    BY <1>1, <2>1 DEF key
<1>5. X \subseteq S /\ {Stands(key), Octet(0)} \subseteq S /\ PlainOctets \subseteq S
  OBVIOUS
<1> HIDE DEF S
<1>6. Cbor(key) \in Seq(S) /\ ExtensionOctets(s) \in Seq(S)
  BY <1>3, <1>4, <1>5, SeqMonotonic
<1> QED
  BY <1>2, <1>5, <1>6

\* Everything that is written is the header and the sections.
LEMMA EncodedIs ==
    ASSUME NEW s, Encodable(s)
    PROVE  /\ Encode(s) = Header(s.rp_id, Flags(s), s.sign_count) \o Sections(s)
           /\ \E S : Sections(s) \in Seq(S)
<1> DEFINE h == Header(s.rp_id, Flags(s), s.sign_count)
           H == HeaderOctets(s.rp_id, Flags(s))
           e == ExtensionOctets(s)
<1>1. h \in Seq(H)
  BY HeaderIs DEF Encodable
<1>2. CASE s.attested = {}
  <2>1. PICK X : e \in Seq(X)
    BY ExtensionOctetsAre
  <2>2. Sections(s) = e
    BY <1>2 DEF Sections
  <2>3. Encode(s) = (h \o <<>>) \o e
    BY <1>2 DEF Encode, MakeAuthenticatorData, Header, ExtensionOctets
  <2> HIDE DEF h, e
  <2>4. h \o <<>> = h
    BY <1>1, ConcatEmptySeq
  <2>5. Encode(s) = h \o Sections(s)
    BY <2>2, <2>3, <2>4
  <2> QED
    BY <2>1, <2>2, <2>5 DEF h
<1>3. CASE s.attested # {}
  <2>1. PICK c \in s.attested : Aaguid(c.aaguid) /\ Identifier(c.id)
    BY <1>3 DEF Encodable
  <2>2. PICK X : /\ The(s.attested) = c /\ Cbor(c.key) \in Seq(X)
                 /\ e \in Seq(X) /\ PlainOctets \subseteq X
    BY KeyOctetsAre
  <2> DEFINE p == Prefix(c.aaguid, c.id)
             k == Cbor(c.key)
             T == H \union X
  <2>3. p \in Seq(PlainOctets)
    BY <2>1, PrefixIs
  <2>4. Sections(s) = p \o (k \o e)
    BY <1>3, <2>2 DEF Sections
  <2>5. Encode(s) = (h \o (p \o k)) \o e
    BY <1>3, <2>2
       DEF Encode, MakeAuthenticatorData, Header, AttestedCredential, Prefix, ExtensionOctets
  <2>6. H \subseteq T /\ X \subseteq T /\ PlainOctets \subseteq T
    BY <2>2
  <2> HIDE DEF h, e, p, k, T, H
  <2>7. h \in Seq(T) /\ p \in Seq(T) /\ k \in Seq(T) /\ e \in Seq(T)
    BY <1>1, <2>2, <2>3, <2>6, SeqMonotonic DEF k
  <2>8. p \o k \in Seq(T) /\ k \o e \in Seq(T)
    BY <2>7, ConcatProperties
  <2>9. (h \o (p \o k)) \o e = h \o ((p \o k) \o e)
    BY <2>7, <2>8, ConcatAssociative
  <2>10. (p \o k) \o e = p \o (k \o e)
    BY <2>7, ConcatAssociative
  <2>11. Encode(s) = h \o Sections(s)
    BY <2>4, <2>5, <2>9, <2>10
  <2>12. Sections(s) \in Seq(T)
    BY <2>4, <2>7, <2>8, ConcatProperties
  <2> QED
    BY <2>11, <2>12 DEF h
<1> QED
  BY <1>2, <1>3

-----------------------------------------------------------------------------
(***************************************************************************)
(* What is written, read.                                                  *)
(***************************************************************************)

\* The attested credential data as it is read.
AttestedAsRead(s) ==
    {[aaguid |-> c.aaguid, id |-> c.id, public_key |-> CoseKey(c.key.value)] : c \in s.attested}

\* The attested credential data that is written, if any, is parsed from its key.
LEMMA AttestedWritten ==
    ASSUME NEW s, Encodable(s)
    PROVE  LET at == Section(Bit(Flags(s), 6), ParseAttestedCredentialData(Sections(s)))
           IN  /\ s.attested = {} => at = Read(Ok, {}, 0)
               /\ \A c \in s.attested : at = KeyRead(c.aaguid, c.id, c.key)
<1> DEFINE flags == Flags(s)
           rest == Sections(s)
           at == Section(Bit(flags, 6), ParseAttestedCredentialData(rest))
<1>1. Bit(flags, 6) = (s.attested # {})
  BY FlagsRead DEF Encodable
<1> HIDE DEF flags, rest
<1>2. ASSUME s.attested = {} PROVE at = Read(Ok, {}, 0)
  BY <1>1, <1>2 DEF Section
<1>3. ASSUME NEW c \in s.attested PROVE at = KeyRead(c.aaguid, c.id, c.key)
  <2>1. /\ s.attested = {c} /\ Aaguid(c.aaguid) /\ Identifier(c.id)
        /\ c.key.len \in Nat \ {0}
    BY DEF Encodable
  <2>2. PICK X : /\ The(s.attested) = c /\ Cbor(c.key) \in Seq(X)
                 /\ ExtensionOctets(s) \in Seq(X)
    BY KeyOctetsAre
  <2> DEFINE key == c.key
             tail == Cbor(key) \o ExtensionOctets(s)
  <2>3. rest = Prefix(c.aaguid, c.id) \o tail
    BY <2>1, <2>2 DEF Sections, rest
  <2>4. /\ Decoded(tail) = {key} /\ tail # <<>> /\ tail \in Seq(X)
    <3>1. /\ key.len \in Nat \ {0} /\ Cbor(key) \in Seq(X) /\ ExtensionOctets(s) \in Seq(X)
      BY <2>1, <2>2
    <3> HIDE DEF key
    <3> QED
      BY <3>1, ItemFound, ConcatProperties
  <2> HIDE DEF key, tail
  <2>5. (CHOOSE i \in Decoded(tail) : TRUE) = key
    BY <2>4
  <2>6. ParseAttestedCredentialData(rest) = KeyRead(c.aaguid, c.id, key)
    <3> DEFINE aaguid == c.aaguid
               id == c.id
    <3>1. Aaguid(aaguid) /\ Identifier(id) /\ rest = Prefix(aaguid, id) \o tail
      BY <2>1, <2>3
    <3> HIDE DEF aaguid, id
    <3>2. ParseAttestedCredentialData(Prefix(aaguid, id) \o tail) =
            IF Decoded(tail) = {} THEN Read("CborDecodeError", {}, 0)
            ELSE KeyRead(aaguid, id, CHOOSE i \in Decoded(tail) : TRUE)
      BY <2>4, <3>1, AttestedParsed
    <3> QED
      BY <2>4, <2>5, <3>1, <3>2 DEF aaguid, id
  <2> QED
    BY <1>1, <2>1, <2>6 DEF Section, key
<1> QED
  BY <1>2, <1>3 DEF flags, rest

\* What the parser accepts is what was written, and its key one that can be used.
THEOREM WrittenParsed ==
    ASSUME NEW s, Encodable(s), ParseAuthenticatorData(Encode(s)).verdict = Ok
    PROVE  /\ \A c \in s.attested : FirstError(ParseCoseKey(c.key.value)) = Ok
           /\ \E hash, extensions :
                 /\ hash[1].item = {RpIdHash(s.rp_id)}
                 /\ ParseAuthenticatorData(Encode(s)).value =
                      {[ rp_id           |-> hash,
                         user_present    |-> s.user_present,
                         user_verified   |-> s.user_verified,
                         backup_eligible |-> s.backup_eligible,
                         backup_state    |-> s.backup_state,
                         sign_count      |-> s.sign_count,
                         attested        |-> AttestedAsRead(s),
                         extensions      |-> extensions ]}
<1> DEFINE flags == Flags(s)
           rest == Sections(s)
           at == Section(Bit(flags, 6), ParseAttestedCredentialData(rest))
<1>1. /\ Bit(flags, 0) = s.user_present /\ Bit(flags, 2) = s.user_verified
      /\ Bit(flags, 3) = s.backup_eligible /\ Bit(flags, 4) = s.backup_state
      /\ Bit(flags, 6) = (s.attested # {})
  BY FlagsRead DEF Encodable
<1>2. PICK S : rest \in Seq(S)
  BY EncodedIs
<1>3. Encode(s) = Header(s.rp_id, flags, s.sign_count) \o rest
  BY EncodedIs
<1>4. s.sign_count \in Nat
  BY DEF Encodable
<1> DEFINE rp_id == s.rp_id
           n == s.sign_count
<1>5. Encode(s) = Header(rp_id, flags, n) \o rest /\ n \in Nat
  BY <1>3, <1>4
<1>0. ParseAuthenticatorData(Header(rp_id, flags, n) \o rest).verdict = Ok
  BY <1>5
<1> HIDE DEF flags, rest, rp_id, n
<1>6. /\ at.verdict = Ok
      /\ \E v : /\ ParseAuthenticatorData(Header(rp_id, flags, n) \o rest).value = {v}
                /\ ReadFrom(v, rp_id, flags, n, at.value)
  BY <1>0, <1>2, <1>5, HeaderParsed
<1>7. /\ at.value = AttestedAsRead(s)
      /\ \A c \in s.attested : FirstError(ParseCoseKey(c.key.value)) = Ok
  <2>1. CASE s.attested = {}
    <3>1. at = Read(Ok, {}, 0)
      BY <2>1, AttestedWritten DEF flags, rest
    <3> QED
      BY <2>1, <3>1 DEF Read, AttestedAsRead
  <2>2. CASE s.attested # {}
    <3>1. PICK c \in s.attested : s.attested = {c}
      BY <2>2 DEF Encodable
    <3>2. at = KeyRead(c.aaguid, c.id, c.key)
      BY AttestedWritten DEF flags, rest
    <3> HIDE DEF at
    <3>3. /\ FirstError(ParseCoseKey(c.key.value)) = Ok
          /\ at.value = {[aaguid |-> c.aaguid, id |-> c.id, public_key |-> CoseKey(c.key.value)]}
      BY <1>6, <3>2 DEF KeyRead, Read
    <3> QED
      BY <3>1, <3>3 DEF AttestedAsRead
  <2> QED
    BY <2>1, <2>2
<1> HIDE DEF at
<1>8. PICK v : /\ ParseAuthenticatorData(Encode(s)).value = {v}
               /\ ReadFrom(v, rp_id, flags, n, at.value)
  BY <1>5, <1>6
<1> QED
  BY <1>1, <1>7, <1>8 DEF ReadFrom, rp_id, n

\* The last octet of a sequence is the last of what ends it.
LEMMA FrontOfConcat ==
    ASSUME NEW S, NEW s \in Seq(S), NEW t \in Seq(S), t # <<>>
    PROVE  /\ Front(t) \in Seq(S) /\ Len(Front(t)) = Len(t) - 1
           /\ \A i \in 1 .. Len(t) - 1 : Front(t)[i] = t[i]
           /\ Front(s \o t) = s \o Front(t)
<1> DEFINE u == s \o t
           f == Front(t)
<1>1. Len(s) \in Nat /\ Len(t) \in Nat \ {0}
  BY LenProperties, EmptySeq
<1>2. /\ u \in Seq(S) /\ Len(u) = Len(s) + Len(t)
      /\ \A i \in 1 .. Len(s) + Len(t) : u[i] = IF i <= Len(s) THEN s[i] ELSE t[i - Len(s)]
  BY ConcatProperties
<1>3. \A v \in Seq(S) :
         v # <<>> => /\ Front(v) \in Seq(S) /\ Len(Front(v)) = Len(v) - 1
                     /\ \A i \in 1 .. Len(v) - 1 : Front(v)[i] = v[i]
  <2> SUFFICES ASSUME NEW v \in Seq(S), v # <<>>
               PROVE  /\ Front(v) \in Seq(S) /\ Len(Front(v)) = Len(v) - 1
                      /\ \A i \in 1 .. Len(v) - 1 : Front(v)[i] = v[i]
    OBVIOUS
  <2> DEFINE m == Len(v) - 1
             front == SubSeq(v, 1, m)
  <2>1. m \in Nat /\ Len(v) = m + 1
    BY EmptySeq
  <2>2. \A i \in 1 .. m : v[i] \in S
    BY <2>1, ElementOfSeq
  <2> HIDE DEF m
  <2>3. /\ SubSeq(v, 1, m) \in Seq(S)
        /\ Len(SubSeq(v, 1, m)) = IF 1 <= m THEN m - 1 + 1 ELSE 0
        /\ \A i \in 1 .. m - 1 + 1 : SubSeq(v, 1, m)[i] = v[1 + i - 1]
    BY <2>1, <2>2, SubSeqProperties
  <2>4. m - 1 + 1 = m /\ (IF 1 <= m THEN m - 1 + 1 ELSE 0) = m
        /\ \A i \in 1 .. m : 1 + i - 1 = i
    BY <2>1
  <2>5. Front(v) = front
    BY DEF Front, front, m
  <2>6. front \in Seq(S) /\ Len(front) = m /\ \A i \in 1 .. m : front[i] = v[i]
    BY <2>3, <2>4
  <2> HIDE DEF front
  <2> QED
    BY <2>5, <2>6 DEF m
<1>4. f \in Seq(S) /\ Len(f) = Len(t) - 1 /\ \A i \in 1 .. Len(t) - 1 : f[i] = t[i]
  BY <1>3
<1> HIDE DEF u, f
<1>5. u # <<>>
  BY <1>1, <1>2
<1>6. /\ Front(u) \in Seq(S) /\ Len(Front(u)) = Len(u) - 1
      /\ \A i \in 1 .. Len(u) - 1 : Front(u)[i] = u[i]
  BY <1>2, <1>3, <1>5
<1>7. /\ s \o f \in Seq(S) /\ Len(s \o f) = Len(s) + Len(f)
      /\ \A i \in 1 .. Len(s) + Len(f) : (s \o f)[i] = IF i <= Len(s) THEN s[i] ELSE f[i - Len(s)]
  BY <1>4, ConcatProperties
<1> DEFINE fu == Front(u)
           sf == s \o f
<1>8. /\ fu \in Seq(S) /\ Len(fu) = Len(s) + (Len(t) - 1)
      /\ \A i \in 1 .. Len(s) + (Len(t) - 1) : fu[i] = IF i <= Len(s) THEN s[i] ELSE t[i - Len(s)]
  <2> HIDE DEF fu
  <2>1. /\ fu \in Seq(S) /\ Len(fu) = Len(u) - 1
        /\ \A i \in 1 .. Len(u) - 1 : fu[i] = u[i]
    BY <1>6 DEF fu
  <2> QED
    BY <1>1, <1>2, <2>1
<1>9. /\ sf \in Seq(S) /\ Len(sf) = Len(s) + (Len(t) - 1)
      /\ \A i \in 1 .. Len(s) + (Len(t) - 1) : sf[i] = IF i <= Len(s) THEN s[i] ELSE t[i - Len(s)]
  <2> HIDE DEF sf
  <2>1. /\ sf \in Seq(S) /\ Len(sf) = Len(s) + Len(f)
        /\ \A i \in 1 .. Len(s) + Len(f) : sf[i] = IF i <= Len(s) THEN s[i] ELSE f[i - Len(s)]
    BY <1>7 DEF sf
  <2>2. ASSUME NEW i \in 1 .. Len(s) + (Len(t) - 1)
        PROVE  sf[i] = IF i <= Len(s) THEN s[i] ELSE t[i - Len(s)]
    <3>1. CASE i <= Len(s)
      BY <1>1, <1>4, <2>1, <3>1
    <3>2. CASE ~(i <= Len(s))
      <4>1. i - Len(s) \in 1 .. Len(t) - 1
        BY <1>1, <3>2
      <4>2. sf[i] = f[i - Len(s)]
        BY <1>1, <1>4, <2>1, <3>2
      <4> QED
        BY <1>4, <3>2, <4>1, <4>2
    <3> QED
      BY <3>1, <3>2
  <2> QED
    BY <1>1, <1>4, <2>1, <2>2
<1>10. fu = sf
  <2> HIDE DEF fu, sf
  <2> QED
    BY <1>1, <1>8, <1>9, SeqEqual
<1> QED
  BY <1>4, <1>10 DEF u, f

\* An item that is cut short is not read.
LEMMA ItemCut ==
    ASSUME NEW key, key.len \in Nat, key.len > 1
    PROVE  /\ Cbor(key) \in Seq({Stands(key), Octet(0)}) /\ Cbor(key) # <<>>
           /\ Front(Cbor(key)) \in Seq({Stands(key), Octet(0)})
           /\ Front(Cbor(key)) # <<>> /\ Decoded(Front(Cbor(key))) = {}
<1> DEFINE S == {Stands(key), Octet(0)}
           k == Cbor(key)
           f == Front(k)
<1>1. k \in Seq(S) /\ Len(k) = key.len /\ k[1] = Stands(key)
  BY CborIs
<1>2. k # <<>> /\ <<>> \in Seq(S)
  <2> HIDE DEF k, S
  <2> QED
    BY <1>1, EmptySeq
<1>3. f \in Seq(S) /\ Len(f) = Len(k) - 1 /\ \A i \in 1 .. Len(k) - 1 : f[i] = k[i]
  <2> HIDE DEF k, S
  <2> QED
    BY <1>1, <1>2, FrontOfConcat
<1> HIDE DEF k, f
<1>4. Len(f) = key.len - 1 /\ f[1] = Stands(key) /\ f # <<>>
  <2> HIDE DEF S
  <2>1. 1 \in 1 .. Len(k) - 1 /\ Len(f) = key.len - 1
    BY <1>1, <1>3
  <2> QED
    BY <1>1, <1>3, <2>1, EmptySeq
<1>5. f[1].item = {key}
  BY <1>4 DEF Stands
<1>6. Decoded(f) = {}
  BY <1>4, <1>5 DEF Decoded
<1> QED
  BY <1>1, <1>2, <1>3, <1>4, <1>6 DEF f, k

\* Authenticator data that lacks its last octet is refused, wherever it ends.
THEOREM TruncatedRefused ==
    ASSUME NEW s, Encodable(s), s.extensions = {}
    PROVE  ParseAuthenticatorData(Front(Encode(s))).verdict # Ok
<1> DEFINE rp_id == s.rp_id
           flags == Flags(s)
           n == s.sign_count
           h == Header(rp_id, flags, n)
           H == HeaderOctets(rp_id, flags)
<1>1. n \in Nat /\ Encode(s) = h \o Sections(s) /\ ExtensionOctets(s) = <<>>
  BY EncodedIs DEF Encodable, ExtensionOctets
<1>2. h \in Seq(H) /\ Len(h) = 37
  BY <1>1, HeaderIs
<1>3. Bit(flags, 6) = (s.attested # {})
  BY FlagsRead DEF Encodable
<1> HIDE DEF rp_id, flags, n, H
<1>4. CASE s.attested = {}
  <2> HIDE DEF h
  <2>1. Encode(s) = h /\ h # <<>> /\ <<>> \in Seq(H)
    <3>1. Sections(s) = <<>>
      BY <1>1, <1>4 DEF Sections
    <3> QED
      BY <1>1, <1>2, <3>1, ConcatEmptySeq, EmptySeq
  <2>2. Len(Front(h)) = Len(h) - 1
    BY <1>2, <2>1, FrontOfConcat
  <2>3. Len(Front(Encode(s))) < 37
    BY <1>2, <2>1, <2>2
  <2> QED
    BY <2>3 DEF ParseAuthenticatorData, Read, Ok
<1>5. CASE s.attested # {}
  <2>1. PICK c \in s.attested : /\ s.attested = {c} /\ Aaguid(c.aaguid) /\ Identifier(c.id)
                                /\ c.key.len \in Nat /\ c.key.len > 1
    BY <1>5 DEF Encodable
  <2> DEFINE aaguid == c.aaguid
             id == c.id
             key == c.key
             p == Prefix(aaguid, id)
             k == Cbor(key)
             f == Front(k)
             K == {Stands(key), Octet(0)}
             T == H \union PlainOctets \union K
  <2>2. The(s.attested) = c
    BY <2>1, TheOnly
  <2>3. Aaguid(aaguid) /\ Identifier(id) /\ key.len \in Nat /\ key.len > 1
    BY <2>1
  <2>4. Sections(s) = p \o (k \o <<>>)
    BY <1>1, <1>5, <2>2 DEF Sections
  <2> HIDE DEF aaguid, id, key
  <2>5. p \in Seq(PlainOctets)
    BY <2>3, PrefixIs
  <2>6. k \in Seq(K) /\ k # <<>> /\ f \in Seq(K) /\ f # <<>> /\ Decoded(f) = {}
    BY <2>3, ItemCut
  <2>7. k \o <<>> = k
    <3> HIDE DEF k, K
    <3> QED
      BY <2>6, ConcatEmptySeq
  <2>8. H \subseteq T /\ PlainOctets \subseteq T /\ K \subseteq T
    OBVIOUS
  <2>9. Encode(s) = h \o (p \o k)
    BY <1>1, <2>4, <2>7
  <2> HIDE DEF h, p, k, K, T
  <2>10. h \in Seq(T) /\ p \in Seq(T) /\ k \in Seq(T) /\ f \in Seq(T)
    BY <1>2, <2>5, <2>6, <2>8, SeqMonotonic
  <2>11. p \o k \in Seq(T) /\ p \o k # <<>> /\ Front(p \o k) = p \o f
    <3>1. p \o k \in Seq(T) /\ p \o k # <<>>
      BY <2>6, <2>10, ConcatProperties, ConcatEqualIffEmpty
    <3>2. Front(p \o k) = p \o Front(k)
      BY <2>6, <2>10, FrontOfConcat
    <3> QED
      BY <3>1, <3>2
  <2>12. Front(Encode(s)) = h \o (p \o f)
    <3> DEFINE pk == p \o k
    <3>1. pk \in Seq(T) /\ pk # <<>> /\ Front(pk) = p \o f /\ Encode(s) = h \o pk
      BY <2>9, <2>11
    <3> HIDE DEF pk
    <3>2. Front(h \o pk) = h \o Front(pk)
      BY <2>10, <3>1, FrontOfConcat
    <3> QED
      BY <3>1, <3>2
  <2> DEFINE rest == p \o f
             at == Section(Bit(flags, 6), ParseAttestedCredentialData(rest))
  <2>13. at.verdict = "CborDecodeError"
    <3> HIDE DEF f
    <3>1. ParseAttestedCredentialData(Prefix(aaguid, id) \o f) =
            IF Decoded(f) = {} THEN Read("CborDecodeError", {}, 0)
            ELSE KeyRead(aaguid, id, CHOOSE i \in Decoded(f) : TRUE)
      BY <2>3, <2>6, AttestedParsed
    <3>2. ParseAttestedCredentialData(rest) = Read("CborDecodeError", {}, 0)
      BY <2>6, <3>1 DEF p
    <3>3. at = Read("CborDecodeError", {}, 0)
      <4> HIDE DEF rest
      <4>1. Bit(flags, 6)
        BY <1>3, <1>5
      <4> QED
        BY <3>2, <4>1 DEF Section
    <3> HIDE DEF at
    <3> QED
      BY <3>3 DEF Read
  <2>14. rest \in Seq(T)
    BY <2>10, ConcatProperties
  <2> HIDE DEF rest
  <2>15. ParseAuthenticatorData(h \o rest).verdict = Ok => at.verdict = Ok
    <3> SUFFICES ASSUME ParseAuthenticatorData(Header(rp_id, flags, n) \o rest).verdict = Ok
                 PROVE  at.verdict = Ok
      BY DEF h
    <3> QED
      BY <1>1, <2>14, HeaderParsed
  <2> QED
    BY <2>12, <2>13, <2>15 DEF rest, Ok
<1> QED
  BY <1>4, <1>5

\* An item with nothing after it.
LEMMA ItemAlone ==
    ASSUME NEW item, item.len \in Nat \ {0}
    PROVE  Decoded(Cbor(item)) = {item} /\ Cbor(item)[1].item = {item}
<1> DEFINE d == Cbor(item)
<1>1. d \in Seq({Stands(item), Octet(0)}) /\ Len(d) = item.len /\ d[1] = Stands(item)
  BY CborIs
<1> HIDE DEF d
<1>2. d # <<>> /\ d[1].item = {item} /\ item.len <= Len(d)
  BY <1>1, EmptySeq DEF Stands
<1>3. Decoded(d) = {item}
  BY <1>2 DEF Decoded
<1> QED
  BY <1>2, <1>3 DEF d

\* The extensions begin where what is before them ends.
LEMMA ExtensionsStand ==
    ASSUME NEW s, Encodable(s)
    PROVE  /\ s.attested = {} => Drop(Encode(s), ExtStart(0)) = ExtensionOctets(s)
           /\ \A c \in s.attested :
                 Drop(Encode(s), ExtStart(18 + Len(c.id) + c.key.len)) = ExtensionOctets(s)
<1> DEFINE rp_id == s.rp_id
           flags == Flags(s)
           n == s.sign_count
           h == Header(rp_id, flags, n)
           e == ExtensionOctets(s)
           rest == Sections(s)
<1>1. Encode(s) = h \o rest /\ n \in Nat
  BY EncodedIs DEF Encodable
<1>2. PICK S : rest \in Seq(S)
  BY EncodedIs
<1>3. h \in Seq(HeaderOctets(rp_id, flags)) /\ Len(h) = 37
  <2> HIDE DEF rp_id, flags, n
  <2> QED
    BY <1>1, HeaderIs
<1>4. ASSUME s.attested = {} PROVE Drop(Encode(s), ExtStart(0)) = e
  <2>1. rest = e
    BY <1>4 DEF Sections
  <2> HIDE DEF rp_id, flags, n, rest, e, h
  <2>2. Drop(h \o rest, 37) = rest
    BY <1>1, <1>2, HeaderRead DEF h
  <2> QED
    BY <1>1, <2>1, <2>2 DEF ExtStart
<1>5. ASSUME NEW c \in s.attested
      PROVE  Drop(Encode(s), ExtStart(18 + Len(c.id) + c.key.len)) = e
  <2>1. /\ s.attested = {c} /\ Aaguid(c.aaguid) /\ Identifier(c.id)
        /\ c.key.len \in Nat \ {0}
    BY DEF Encodable
  <2>2. PICK X : The(s.attested) = c /\ Cbor(c.key) \in Seq(X) /\ e \in Seq(X)
    BY KeyOctetsAre
  <2> DEFINE p == Prefix(c.aaguid, c.id)
             key == c.key
             k == Cbor(key)
             T == HeaderOctets(rp_id, flags) \union X \union PlainOctets
  <2>3. p \in Seq(PlainOctets) /\ Len(p) = 18 + Len(c.id) /\ Len(c.id) \in Nat
    BY <2>1, PrefixIs, LenProperties DEF Identifier
  <2>4. rest = p \o (k \o e)
    BY <2>1, <2>2 DEF Sections
  <2>5. Len(k) = key.len /\ key.len \in Nat
    <3>1. key.len \in Nat \ {0}
      BY <2>1
    <3> HIDE DEF key
    <3> QED
      BY <3>1, CborIs
  <2>6. HeaderOctets(rp_id, flags) \subseteq T /\ X \subseteq T /\ PlainOctets \subseteq T
    OBVIOUS
  <2> HIDE DEF rp_id, flags, n, rest, e, h, p, k, T
  <2>7. h \in Seq(T) /\ p \in Seq(T) /\ k \in Seq(T) /\ e \in Seq(T)
    BY <1>3, <2>2, <2>3, <2>6, SeqMonotonic DEF k
  <2> DEFINE x == h \o (p \o k)
  <2>8. x \in Seq(T) /\ Len(x) = 37 + (18 + Len(c.id) + key.len)
    <3>1. p \o k \in Seq(T) /\ Len(p \o k) = Len(p) + Len(k)
      BY <2>7, ConcatProperties
    <3>2. x \in Seq(T) /\ Len(x) = Len(h) + Len(p \o k)
      BY <2>7, <3>1, ConcatProperties
    <3> QED
      BY <1>3, <2>3, <2>5, <3>1, <3>2
  <2>9. h \o (p \o (k \o e)) = x \o e
    <3>1. p \o k \in Seq(T)
      BY <2>7, ConcatProperties
    <3>2. p \o (k \o e) = (p \o k) \o e
      BY <2>7, ConcatAssociative
    <3>3. h \o ((p \o k) \o e) = x \o e
      BY <2>7, <3>1, ConcatAssociative
    <3> QED
      BY <3>2, <3>3
  <2> HIDE DEF x
  <2>10. Drop(x \o e, Len(x)) = e
    BY <2>7, <2>8, Joined DEF Joins
  <2>11. Encode(s) = x \o e
    BY <1>1, <2>4, <2>9
  <2>12. ExtStart(18 + Len(c.id) + c.key.len) = Len(x)
    BY <2>8 DEF ExtStart, key
  <2> QED
    BY <2>10, <2>11, <2>12
<1> QED
  BY <1>4, <1>5

\* Extensions that are written as a map are read, if there are any.
LEMMA ExtensionsWritten ==
    ASSUME NEW s, Encodable(s), \A e \in s.extensions : e.value.type = "map"
    PROVE  Section(Bit(Flags(s), 7), ParseExtensionMap(ExtensionOctets(s)))
             = Read(Ok, {ExtensionMap(e.value) : e \in s.extensions}, 0)
<1>1. Bit(Flags(s), 7) = (s.extensions # {})
  BY FlagsRead DEF Encodable
<1>2. CASE s.extensions = {}
  BY <1>1, <1>2 DEF Section
<1>3. CASE s.extensions # {}
  <2>1. PICK e \in s.extensions : s.extensions = {e} /\ e.len \in Nat \ {0}
    BY <1>3 DEF Encodable
  <2> DEFINE data == Cbor(e)
             a == Check(data = <<>>, "InvalidAuthenticatorData")
             b == Check(Decoded(data) = {}, "CborDecodeError")
             c == Check(\E i \in Decoded(data) : i.value.type # "map",
                        "InvalidAuthenticatorData")
             E == {"InvalidAuthenticatorData", "CborDecodeError"}
  <2>2. Decoded(data) = {e}
    BY <2>1, ItemAlone
  <2>3. data # <<>>
    BY <2>2 DEF Decoded
  <2>4. ExtensionOctets(s) = data
    BY <1>3, <2>1, TheOnly DEF ExtensionOctets
  <2>5. e.value.type = "map"
    OBVIOUS
  <2> HIDE DEF data
  <2>6. a \in Checks(E) /\ b \in Checks(E) /\ c \in Checks(E)
    BY DEF Checks, Check, Ok
  <2>7. ~a.failed /\ ~b.failed /\ ~c.failed
    BY <2>2, <2>3, <2>5 DEF Check
  <2>8. ParseExtensionMap(data) =
          Read(FirstError(<<a, b, c>>), {ExtensionMap(i.value) : i \in Decoded(data)}, 0)
    BY DEF ParseExtensionMap
  <2> HIDE DEF a, b, c, E
  <2>9. FirstError(<<a, b, c>>) = Ok
    BY <2>6, <2>7, FirstErrorOf3
  <2> QED
    BY <1>1, <1>3, <2>1, <2>2, <2>4, <2>8, <2>9 DEF Section
<1> QED
  BY <1>2, <1>3

\* What is well formed is accepted, and every field is read as it was written.
THEOREM WellFormedParsed ==
    ASSUME NEW s, Encodable(s), s.backup_state => s.backup_eligible,
           \A c \in s.attested : FirstError(ParseCoseKey(c.key.value)) = Ok,
           \A e \in s.extensions : e.value.type = "map"
    PROVE  /\ SubSeq(Encode(s), 1, 32)[1].item = {RpIdHash(s.rp_id)}
           /\ ParseAuthenticatorData(Encode(s)) =
                Read(Ok, {[ rp_id           |-> SubSeq(Encode(s), 1, 32),
                            user_present    |-> s.user_present,
                            user_verified   |-> s.user_verified,
                            backup_eligible |-> s.backup_eligible,
                            backup_state    |-> s.backup_state,
                            sign_count      |-> s.sign_count,
                            attested        |-> AttestedAsRead(s),
                            extensions      |-> {ExtensionMap(e.value) : e \in s.extensions} ]}, 0)
<1> DEFINE rp_id == s.rp_id
           flags == Flags(s)
           n == s.sign_count
           rest == Sections(s)
           data == Encode(s)
           byte == data[33].byte
           at == Section(Bit(byte, 6), ParseAttestedCredentialData(Drop(data, 37)))
           ed == Section(Bit(byte, 7), ParseExtensionMap(Drop(data, ExtStart(at.consumed))))
           a == Check(Bit(byte, 4) /\ ~Bit(byte, 3), "InvalidAuthenticatorData")
           b == Check(at.verdict # Ok, at.verdict)
           c == Check(ed.verdict # Ok, ed.verdict)
           extensions == {ExtensionMap(e.value) : e \in s.extensions}
<1>1. /\ Bit(flags, 0) = s.user_present /\ Bit(flags, 2) = s.user_verified
      /\ Bit(flags, 3) = s.backup_eligible /\ Bit(flags, 4) = s.backup_state
  BY FlagsRead DEF Encodable
<1>2. PICK S : rest \in Seq(S)
  BY EncodedIs
<1>3. data = Header(rp_id, flags, n) \o rest /\ n \in Nat
  BY EncodedIs DEF Encodable
<1>4. /\ Len(data) = 37 + Len(rest) /\ byte = flags
      /\ BigEndian(SubSeq(data, 34, 37)) = n /\ Drop(data, 37) = rest
      /\ SubSeq(data, 1, 32)[1].item = {RpIdHash(rp_id)}
  <2> HIDE DEF rp_id, flags, n, rest, data
  <2> QED
    BY <1>2, <1>3, HeaderRead
<1>5. ~(Len(data) < 37)
  BY <1>2, <1>4, LenProperties
<1>6. at = Section(Bit(flags, 6), ParseAttestedCredentialData(rest))
  BY <1>4
<1>7. /\ at.verdict = Ok /\ at.value = AttestedAsRead(s)
      /\ Drop(data, ExtStart(at.consumed)) = ExtensionOctets(s)
  <2>1. CASE s.attested = {}
    <3>1. at = Read(Ok, {}, 0)
      BY <1>6, <2>1, AttestedWritten
    <3>2. Drop(data, ExtStart(0)) = ExtensionOctets(s)
      BY <2>1, ExtensionsStand
    <3> HIDE DEF at, data
    <3> QED
      BY <2>1, <3>1, <3>2 DEF Read, AttestedAsRead
  <2>2. CASE s.attested # {}
    <3>1. PICK k \in s.attested : s.attested = {k}
      BY <2>2 DEF Encodable
    <3>2. at = KeyRead(k.aaguid, k.id, k.key)
      BY <1>6, AttestedWritten
    <3>3. Drop(data, ExtStart(18 + Len(k.id) + k.key.len)) = ExtensionOctets(s)
      BY ExtensionsStand
    <3>4. FirstError(ParseCoseKey(k.key.value)) = Ok
      OBVIOUS
    <3> HIDE DEF at, data
    <3>5. /\ at.verdict = Ok
          /\ at.value = {[aaguid |-> k.aaguid, id |-> k.id, public_key |-> CoseKey(k.key.value)]}
          /\ at.consumed = 18 + Len(k.id) + k.key.len
      BY <3>2, <3>4 DEF KeyRead, Read
    <3> QED
      BY <3>1, <3>3, <3>5 DEF AttestedAsRead
  <2> QED
    BY <2>1, <2>2
<1>8. ed.verdict = Ok /\ ed.value = extensions
  <2>1. ed = Section(Bit(Flags(s), 7), ParseExtensionMap(ExtensionOctets(s)))
    BY <1>4, <1>7
  <2>2. ed = Read(Ok, extensions, 0)
    BY <2>1, ExtensionsWritten
  <2> HIDE DEF ed, extensions
  <2> QED
    BY <2>2 DEF Read
<1> DEFINE v == [ rp_id           |-> SubSeq(data, 1, 32),
                  user_present    |-> Bit(byte, 0),
                  user_verified   |-> Bit(byte, 2),
                  backup_eligible |-> Bit(byte, 3),
                  backup_state    |-> Bit(byte, 4),
                  sign_count      |-> BigEndian(SubSeq(data, 34, 37)),
                  attested        |-> at.value,
                  extensions      |-> ed.value ]
<1>9. ParseAuthenticatorData(data) = Read(FirstError(<<a, b, c>>), {v}, 0)
  BY <1>5 DEF ParseAuthenticatorData
<1>10. ~(Bit(byte, 4) /\ ~Bit(byte, 3)) /\ Bit(byte, 3) \in BOOLEAN /\ Bit(byte, 4) \in BOOLEAN
  BY <1>1, <1>4 DEF Encodable
<1>11. v = [ rp_id           |-> SubSeq(data, 1, 32),
             user_present    |-> s.user_present,
             user_verified   |-> s.user_verified,
             backup_eligible |-> s.backup_eligible,
             backup_state    |-> s.backup_state,
             sign_count      |-> s.sign_count,
             attested        |-> AttestedAsRead(s),
             extensions      |-> extensions ]
  <2> HIDE DEF at, ed, data, byte, flags, extensions
  <2> QED
    BY <1>1, <1>4, <1>7, <1>8
<1> HIDE DEF v, at, ed, data, byte, flags, extensions
<1>12. FirstError(<<a, b, c>>) = Ok
  <2> DEFINE E == {"InvalidAuthenticatorData", Ok}
             bad == Bit(byte, 4) /\ ~Bit(byte, 3)
  <2>1. /\ \A p \in BOOLEAN : /\ Check(p, "InvalidAuthenticatorData").failed = p
                              /\ Check(p, "InvalidAuthenticatorData") \in Checks(E)
        /\ Check(FALSE, Ok) \in Checks(E) /\ ~Check(FALSE, Ok).failed
    BY DEF Checks, Check, Ok
  <2>2. ~bad /\ bad \in BOOLEAN
    BY <1>10
  <2> HIDE DEF bad, E
  <2>3. a = Check(bad, "InvalidAuthenticatorData") /\ b = Check(FALSE, Ok) /\ c = Check(FALSE, Ok)
    BY <1>7, <1>8 DEF bad
  <2> HIDE DEF a, b, c
  <2>4. /\ a \in Checks(E) /\ b \in Checks(E) /\ c \in Checks(E)
        /\ ~a.failed /\ ~b.failed /\ ~c.failed
    BY <2>1, <2>2, <2>3
  <2> QED
    BY <2>4, FirstErrorOf3
<1> QED
  BY <1>4, <1>9, <1>11, <1>12 DEF data, extensions

\* An attestation object is read as it was made.
THEOREM AttestationObjectParsed ==
    ASSUME NEW fmt, NEW att_stmt, NEW auth_data
    PROVE  ParseAttestationObject(AttestationObject(fmt, att_stmt, auth_data)) =
             Read(Ok, {[fmt |-> fmt, auth_data |-> auth_data, att_stmt |-> att_stmt]}, 0)
<1> DEFINE e == << Named("fmt", Text(fmt)), Named("attStmt", att_stmt),
                   Named("authData", Bytes(auth_data)) >>
           item == Item(CborMap(e))
           data == Cbor(item)
           map == (CHOOSE i \in Decoded(data) : TRUE).value
           named == {i \in Under(map, "fmt") : map.entries[i].value.type = "text"}
           fs == LastOf(map, named)
           ds == LastOf(map, Under(map, "authData"))
           ss == LastOf(map, Under(map, "attStmt"))
           absent == \/ map.type # "map" \/ {} \in {fs, ds, ss}
                     \/ \E v \in ds : v.type # "bytes"
           parsed == {[fmt |-> f.text, auth_data |-> d.octets, att_stmt |-> s] :
                         f \in fs, d \in ds, s \in ss}
<1>1. item.len \in Nat \ {0} /\ item.value = CborMap(e)
  BY DEF Item, ItemOctets
<1>2. /\ DOMAIN e = 1 .. 3
      /\ e[1].text = "fmt" /\ e[2].text = "attStmt" /\ e[3].text = "authData"
      /\ e[1].value = Text(fmt) /\ e[2].value = att_stmt /\ e[3].value = Bytes(auth_data)
  BY DEF Named
<1>3. Decoded(data) = {item}
  <2> HIDE DEF item
  <2> QED
    BY <1>1, ItemAlone
<1>4. map = CborMap(e)
  BY <1>1, <1>3
<1>5. ParseAttestationObject(data) =
        Read(IF absent THEN "InvalidAttestationObject" ELSE Ok, parsed, 0)
  <2>1. Decoded(data) # {}
    BY <1>3
  <2>2. ParseAttestationObject(data) = AttestationObjectOf(map)
    BY <2>1 DEF ParseAttestationObject
  <2>3. AttestationObjectOf(map) =
          Read(IF absent THEN "InvalidAttestationObject" ELSE Ok, parsed, 0)
    BY DEF AttestationObjectOf
  <2> HIDE DEF data, map, absent, parsed
  <2> QED
    BY <2>2, <2>3
<1>6. AttestationObject(fmt, att_stmt, auth_data) = data
  BY DEF AttestationObject
<1> HIDE DEF e, data
<1>7. map.entries = e /\ map.type = "map"
  BY <1>4 DEF CborMap
<1> HIDE DEF map
<1>8. Under(map, "fmt") = {1} /\ Under(map, "attStmt") = {2} /\ Under(map, "authData") = {3}
  BY <1>2, <1>7 DEF Under
<1>9. named = {1}
  BY <1>2, <1>7, <1>8 DEF Text
<1> HIDE DEF named
<1>10. \A i \in 1 .. 3 : LastOf(map, {i}) = {e[i].value}
  BY <1>7 DEF LastOf
<1>11. fs = {Text(fmt)} /\ ds = {Bytes(auth_data)} /\ ss = {att_stmt}
  <2>1. fs = LastOf(map, {1}) /\ ds = LastOf(map, {3}) /\ ss = LastOf(map, {2})
    BY <1>8, <1>9
  <2> HIDE DEF fs, ds, ss
  <2> QED
    BY <1>2, <1>10, <2>1
<1> HIDE DEF fs, ds, ss
<1>12. ~absent
  <2>1. fs # {} /\ ds # {} /\ ss # {}
    BY <1>11
  <2>2. \A v \in ds : v.type = "bytes"
    BY <1>11 DEF Bytes
  <2> QED
    BY <1>7, <2>1, <2>2
<1> HIDE DEF absent
<1>13. ParseAttestationObject(data) = Read(Ok, parsed, 0)
  BY <1>5, <1>12
<1>14. parsed = {[fmt |-> fmt, auth_data |-> auth_data, att_stmt |-> att_stmt]}
  BY <1>11 DEF Text, Bytes
<1> QED
  BY <1>6, <1>13, <1>14

-----------------------------------------------------------------------------
(***************************************************************************)
(* What the parser answers, for every buffer: one of four errors, or a key *)
(* whose fields agree with each other.                                     *)
(***************************************************************************)

ParserVerdicts == {Ok, "InvalidAuthenticatorData", "CborDecodeError", "InvalidPublicKey",
                   "UnsupportedAlgorithm"}

\* A check of the parser.
LEMMA ParserCheck ==
    ASSUME NEW failed \in BOOLEAN, NEW error \in ParserVerdicts \ {Ok}
    PROVE  Check(failed, error) \in Checks(ParserVerdicts)
BY DEF Checks, Check

\* The error, if any, that a section before was left with.
LEMMA SectionCheck ==
    ASSUME NEW error \in ParserVerdicts
    PROVE  Check(error # Ok, error) \in Checks(ParserVerdicts)
BY DEF Checks, Check

\* A key no label of which stands twice, with an algorithm of its type.
KeyAgrees(map) ==
    /\ ~Duplicate(map)
    /\ IF IntIs(map, 1, 1) THEN IntIs(map, 3, -8)
       ELSE IF IntIs(map, 1, 2) THEN IntIs(map, 3, -7) \/ IntIs(map, 3, -35)
       ELSE IntIs(map, 1, 3) /\ IntIs(map, 3, -257)

\* What the parser of a COSE key answers.  What it accepts has octets under -2
\* (an X coordinate, a public key or an exponent) and an algorithm of its type.
LEMMA KeyVerdicts ==
    ASSUME NEW map
    PROVE  /\ FirstError(ParseCoseKey(map)) \in ParserVerdicts
           /\ FirstError(ParseCoseKey(map)) = Ok => Get(map, -2, "bytes") # {} /\ KeyAgrees(map)
           /\ map.type = "map" /\ Duplicate(map) =>
                FirstError(ParseCoseKey(map)) = "InvalidPublicKey"
<1>1. \A failed \in BOOLEAN :
         /\ Check(failed, "InvalidPublicKey") \in Checks(ParserVerdicts)
         /\ Check(failed, "UnsupportedAlgorithm") \in Checks(ParserVerdicts)
  <2>1. {"InvalidPublicKey", "UnsupportedAlgorithm"} \subseteq ParserVerdicts \ {Ok}
    BY DEF ParserVerdicts, Ok
  <2> QED
    BY <2>1, ParserCheck
<1>2. \A label, type : Missing(map, label, type) \in Checks(ParserVerdicts)
  <2> TAKE label, type
  <2>1. (~Has(map, label, type)) \in BOOLEAN
    BY DEF Has
  <2> QED
    BY <1>1, <2>1 DEF Missing
<1>3. \A label, n : /\ (~IntIs(map, label, n)) \in BOOLEAN
                    /\ LenIs(map, label, n) \in BOOLEAN /\ (~LenIs(map, label, n)) \in BOOLEAN
  BY DEF IntIs, LenIs
<1>4. /\ (map.type # "map") \in BOOLEAN /\ Duplicate(map) \in BOOLEAN /\ TRUE \in BOOLEAN
      /\ (~IntIs(map, 3, -7) /\ ~IntIs(map, 3, -35)) \in BOOLEAN
      /\ (\E v \in Get(map, -1, "bytes") : Len(v.octets) < 256) \in BOOLEAN
  BY DEF Duplicate
<1>5. /\ ParseOkpKey(map) \in Lines(ParserVerdicts)
      /\ Len(ParseOkpKey(map)) = 6
      /\ ParseOkpKey(map)[5] = Missing(map, -2, "bytes")
      /\ ParseOkpKey(map)[2] = Check(~IntIs(map, 3, -8), "UnsupportedAlgorithm")
  <2> DEFINE c1 == Missing(map, 3, "int")
             c2 == Check(~IntIs(map, 3, -8), "UnsupportedAlgorithm")
             c3 == Missing(map, -1, "int")
             c4 == Check(~IntIs(map, -1, 6), "InvalidPublicKey")
             c5 == Missing(map, -2, "bytes")
             c6 == Check(~LenIs(map, -2, 32), "InvalidPublicKey")
  <2>1. /\ c1 \in Checks(ParserVerdicts)
        /\ c2 \in Checks(ParserVerdicts)
        /\ c3 \in Checks(ParserVerdicts)
        /\ c4 \in Checks(ParserVerdicts)
        /\ c5 \in Checks(ParserVerdicts)
        /\ c6 \in Checks(ParserVerdicts)
    BY <1>1, <1>2, <1>3, <1>4
  <2>2. ParseOkpKey(map) = <<c1, c2, c3, c4, c5, c6>>
    BY DEF ParseOkpKey
  <2>3. <<c1, c2, c3, c4, c5, c6>>[5] = Missing(map, -2, "bytes") /\ <<c1, c2, c3, c4, c5, c6>>[2] = c2
    OBVIOUS
  <2> HIDE DEF c1, c2, c3, c4, c5, c6
  <2>4. ParseOkpKey(map)[5] = Missing(map, -2, "bytes") /\ ParseOkpKey(map)[2] = c2
    BY <2>2, <2>3
  <2> QED
    BY <2>1, <2>2, <2>4 DEF Lines, c2
<1>6. /\ ParseEc2Key(map) \in Lines(ParserVerdicts)
      /\ Len(ParseEc2Key(map)) = 8
      /\ ParseEc2Key(map)[5] = Missing(map, -2, "bytes")
      /\ ParseEc2Key(map)[3] = Check(~IntIs(map, 3, -7) /\ ~IntIs(map, 3, -35), "UnsupportedAlgorithm")
  <2> DEFINE crv == IF IntIs(map, 3, -7) THEN 1 ELSE 2
             size == IF IntIs(map, 3, -7) THEN 32 ELSE 48
             c1 == Missing(map, 3, "int")
             c2 == Missing(map, -1, "int")
             c3 == Check(~IntIs(map, 3, -7) /\ ~IntIs(map, 3, -35), "UnsupportedAlgorithm")
             c4 == Check(~IntIs(map, -1, crv), "InvalidPublicKey")
             c5 == Missing(map, -2, "bytes")
             c6 == Missing(map, -3, "bytes")
             c7 == Check(~LenIs(map, -2, size), "InvalidPublicKey")
             c8 == Check(~LenIs(map, -3, size), "InvalidPublicKey")
  <2>1. /\ c1 \in Checks(ParserVerdicts)
        /\ c2 \in Checks(ParserVerdicts)
        /\ c3 \in Checks(ParserVerdicts)
        /\ c4 \in Checks(ParserVerdicts)
        /\ c5 \in Checks(ParserVerdicts)
        /\ c6 \in Checks(ParserVerdicts)
        /\ c7 \in Checks(ParserVerdicts)
        /\ c8 \in Checks(ParserVerdicts)
    BY <1>1, <1>2, <1>3, <1>4
  <2>2. ParseEc2Key(map) = <<c1, c2, c3, c4, c5, c6, c7, c8>>
    BY DEF ParseEc2Key
  <2>3. <<c1, c2, c3, c4, c5, c6, c7, c8>>[5] = Missing(map, -2, "bytes") /\ <<c1, c2, c3, c4, c5, c6, c7, c8>>[3] = c3
    OBVIOUS
  <2> HIDE DEF c1, c2, c3, c4, c5, c6, c7, c8
  <2>4. ParseEc2Key(map)[5] = Missing(map, -2, "bytes") /\ ParseEc2Key(map)[3] = c3
    BY <2>2, <2>3
  <2> QED
    BY <2>1, <2>2, <2>4 DEF Lines, c3
<1>7. /\ ParseRsaKey(map) \in Lines(ParserVerdicts)
      /\ Len(ParseRsaKey(map)) = 6
      /\ ParseRsaKey(map)[5] = Missing(map, -2, "bytes")
      /\ ParseRsaKey(map)[2] = Check(~IntIs(map, 3, -257), "UnsupportedAlgorithm")
  <2> DEFINE c1 == Missing(map, 3, "int")
             c2 == Check(~IntIs(map, 3, -257), "UnsupportedAlgorithm")
             c3 == Missing(map, -1, "bytes")
             c4 == Check(\E v \in Get(map, -1, "bytes") : Len(v.octets) < 256, "InvalidPublicKey")
             c5 == Missing(map, -2, "bytes")
             c6 == Check(LenIs(map, -2, 0), "InvalidPublicKey")
  <2>1. /\ c1 \in Checks(ParserVerdicts)
        /\ c2 \in Checks(ParserVerdicts)
        /\ c3 \in Checks(ParserVerdicts)
        /\ c4 \in Checks(ParserVerdicts)
        /\ c5 \in Checks(ParserVerdicts)
        /\ c6 \in Checks(ParserVerdicts)
    BY <1>1, <1>2, <1>3, <1>4
  <2>2. ParseRsaKey(map) = <<c1, c2, c3, c4, c5, c6>>
    BY DEF ParseRsaKey
  <2>3. <<c1, c2, c3, c4, c5, c6>>[5] = Missing(map, -2, "bytes") /\ <<c1, c2, c3, c4, c5, c6>>[2] = c2
    OBVIOUS
  <2> HIDE DEF c1, c2, c3, c4, c5, c6
  <2>4. ParseRsaKey(map)[5] = Missing(map, -2, "bytes") /\ ParseRsaKey(map)[2] = c2
    BY <2>2, <2>3
  <2> QED
    BY <2>1, <2>2, <2>4 DEF Lines, c2
<1> DEFINE a == Check(map.type # "map", "InvalidPublicKey")
           b == Check(Duplicate(map), "InvalidPublicKey")
           c == Missing(map, 1, "int")
           d == Check(TRUE, "InvalidPublicKey")
           rest == IF IntIs(map, 1, 1) THEN ParseOkpKey(map)
                   ELSE IF IntIs(map, 1, 2) THEN ParseEc2Key(map)
                   ELSE IF IntIs(map, 1, 3) THEN ParseRsaKey(map)
                   ELSE <<d>>
<1>8. /\ a \in Checks(ParserVerdicts) /\ b \in Checks(ParserVerdicts)
      /\ c \in Checks(ParserVerdicts) /\ d \in Checks(ParserVerdicts)
  BY <1>1, <1>2, <1>4
<1>9. ParseCoseKey(map) = <<a, b, c>> \o rest
  BY DEF ParseCoseKey
<1>10. d.failed
  BY DEF Check
<1> HIDE DEF a, b, c, d
<1>11. <<a, b, c>> \in Lines(ParserVerdicts) /\ <<d>> \in Lines(ParserVerdicts)
  BY <1>8 DEF Lines
<1>12. rest \in Lines(ParserVerdicts)
  BY <1>5, <1>6, <1>7, <1>11
<1>13. rest = <<d>> \/ (Len(rest) \in {6, 8} /\ rest[5] = Missing(map, -2, "bytes"))
  <2>1. \/ rest = ParseOkpKey(map) \/ rest = ParseEc2Key(map) \/ rest = ParseRsaKey(map)
        \/ rest = <<d>>
    OBVIOUS
  <2> HIDE DEF rest, d
  <2>2. CASE rest = ParseOkpKey(map)
    BY <1>5, <2>2
  <2>3. CASE rest = ParseEc2Key(map)
    BY <1>6, <2>3
  <2>4. CASE rest = ParseRsaKey(map)
    BY <1>7, <2>4
  <2> QED
    BY <2>1, <2>2, <2>3, <2>4
<1>0. rest = IF IntIs(map, 1, 1) THEN ParseOkpKey(map)
             ELSE IF IntIs(map, 1, 2) THEN ParseEc2Key(map)
             ELSE IF IntIs(map, 1, 3) THEN ParseRsaKey(map) ELSE <<d>>
  OBVIOUS
<1> HIDE DEF rest
<1>14. ParseCoseKey(map) \in Lines(ParserVerdicts)
  BY <1>9, <1>11, <1>12 DEF Lines
<1>15. Ok \in ParserVerdicts
  BY DEF ParserVerdicts
<1>16. ASSUME FirstError(ParseCoseKey(map)) = Ok
       PROVE  Get(map, -2, "bytes") # {} /\ KeyAgrees(map)
  <2>1. FirstError(rest) = Ok /\ FirstError(<<a, b, c>>) = Ok
    BY <1>9, <1>11, <1>12, <1>16, FirstErrorOfConcat
  <2>2. \A i \in 1 .. Len(rest) : ~rest[i].failed
    BY <1>12, <2>1, PassedIff
  <2>3. Len(<<d>>) = 1 /\ <<d>>[1] = d
    OBVIOUS
  <2>4. rest # <<d>>
    <3> SUFFICES ASSUME rest = <<d>> PROVE FALSE
      OBVIOUS
    <3>1. 1 \in 1 .. Len(rest) /\ rest[1].failed
      BY <1>10, <2>3
    <3> QED
      BY <2>2, <3>1
  <2>5. ~Missing(map, -2, "bytes").failed
    BY <1>13, <2>2, <2>4
  <2>10. \A p \in BOOLEAN : \A error : ~Check(p, error).failed => ~p
    BY DEF Check
  <2>0. Get(map, -2, "bytes") # {}
    BY <2>5 DEF Missing, Check, Has
  <2>6. ~Duplicate(map)
    <3>1. Len(<<a, b, c>>) = 3 /\ <<a, b, c>>[2] = b
      OBVIOUS
    <3>2. ~<<a, b, c>>[2].failed
      BY <1>11, <2>1, <3>1, PassedIff
    <3> QED
      BY <3>1, <3>2 DEF b, Check
  <2>7. CASE IntIs(map, 1, 1)
    <3>1. ~ParseOkpKey(map)[2].failed
      BY <1>0, <1>5, <2>2, <2>7
    <3>2. IntIs(map, 3, -8)
      BY <1>3, <1>5, <2>10, <3>1
    <3> QED
      BY <2>0, <2>6, <2>7, <3>2 DEF KeyAgrees
  <2>8. CASE ~IntIs(map, 1, 1) /\ IntIs(map, 1, 2)
    <3>1. ~ParseEc2Key(map)[3].failed
      BY <1>0, <1>6, <2>2, <2>8
    <3>2. IntIs(map, 3, -7) \/ IntIs(map, 3, -35)
      BY <1>4, <1>6, <2>10, <3>1
    <3> QED
      BY <2>0, <2>6, <2>8, <3>2 DEF KeyAgrees
  <2>9. CASE ~IntIs(map, 1, 1) /\ ~IntIs(map, 1, 2)
    <3>1. IntIs(map, 1, 3)
      BY <1>0, <2>4, <2>9
    <3>2. ~ParseRsaKey(map)[2].failed
      BY <1>0, <1>7, <2>2, <2>9, <3>1
    <3>3. IntIs(map, 3, -257)
      BY <1>3, <1>7, <2>10, <3>2
    <3> QED
      BY <2>0, <2>6, <2>9, <3>1, <3>3 DEF KeyAgrees
  <2> QED
    BY <2>7, <2>8, <2>9
<1>17. ASSUME map.type = "map", Duplicate(map)
       PROVE  FirstError(ParseCoseKey(map)) = "InvalidPublicKey"
  <2>1. ~a.failed /\ b.failed /\ b.error = "InvalidPublicKey"
    <3>1. Check(map.type # "map", "InvalidPublicKey").failed = (map.type # "map")
      BY Zenon DEF Check
    <3>2. \A p : /\ Check(p, "InvalidPublicKey").failed = p
                 /\ Check(p, "InvalidPublicKey").error = "InvalidPublicKey"
      BY Zenon DEF Check
    <3> QED
      BY <1>17, <3>1, <3>2, Zenon DEF a, b
  <2>2. FirstError(<<a, b, c>>) = IF a.failed THEN a.error ELSE IF b.failed THEN b.error
                                  ELSE IF c.failed THEN c.error ELSE Ok
    BY <1>8, FirstErrorOf3
  <2>3. FirstError(<<a, b, c>>) = "InvalidPublicKey"
    BY <2>1, <2>2
  <2> QED
    BY <1>9, <1>11, <1>12, <2>3, FirstErrorOfConcat DEF Ok
<1> QED
  BY <1>14, <1>15, <1>16, <1>17, FirstErrorType

\* What the parser answers for the sections of authenticator data.
LEMMA AttestedDataVerdicts ==
    ASSUME NEW data
    PROVE  ParseAttestedCredentialData(data).verdict \in ParserVerdicts
<1> DEFINE cred_id_len == BigEndian(SubSeq(data, 17, 18))
           remaining == Drop(data, 18 + cred_id_len)
           keys == Decoded(remaining)
           a == Check(cred_id_len = 0, "InvalidAuthenticatorData")
           b == Check(cred_id_len > 1023, "InvalidAuthenticatorData")
           c == Check(18 + cred_id_len > Len(data), "InvalidAuthenticatorData")
           d == Check(remaining = <<>>, "InvalidAuthenticatorData")
           e == Check(keys = {}, "CborDecodeError")
           early == FirstError(<<a, b, c, d, e>>)
           parsed == FirstError(ParseCoseKey((CHOOSE i \in keys : TRUE).value))
<1>1. ParseAttestedCredentialData(data).verdict =
        IF Len(data) < 18 THEN "InvalidAuthenticatorData"
        ELSE IF early # Ok THEN early ELSE parsed
  BY DEF ParseAttestedCredentialData, Read
<1>2. {"InvalidAuthenticatorData", "CborDecodeError"} \subseteq ParserVerdicts \ {Ok}
  BY DEF ParserVerdicts, Ok
<1>3. /\ a \in Checks(ParserVerdicts) /\ b \in Checks(ParserVerdicts)
      /\ c \in Checks(ParserVerdicts) /\ d \in Checks(ParserVerdicts)
      /\ e \in Checks(ParserVerdicts)
  <2> HIDE DEF cred_id_len, remaining, keys
  <2> DEFINE empty == cred_id_len = 0
             long == cred_id_len > 1023
             short == 18 + cred_id_len > Len(data)
             keyless == remaining = <<>>
             undecoded == keys = {}
  <2>1. /\ empty \in BOOLEAN /\ long \in BOOLEAN /\ short \in BOOLEAN
        /\ keyless \in BOOLEAN /\ undecoded \in BOOLEAN
    OBVIOUS
  <2> HIDE DEF empty, long, short, keyless, undecoded
  <2>2. \A failed \in BOOLEAN :
           /\ Check(failed, "InvalidAuthenticatorData") \in Checks(ParserVerdicts)
           /\ Check(failed, "CborDecodeError") \in Checks(ParserVerdicts)
    BY <1>2, ParserCheck
  <2>3. /\ Check(empty, "InvalidAuthenticatorData") \in Checks(ParserVerdicts)
        /\ Check(long, "InvalidAuthenticatorData") \in Checks(ParserVerdicts)
        /\ Check(short, "InvalidAuthenticatorData") \in Checks(ParserVerdicts)
        /\ Check(keyless, "InvalidAuthenticatorData") \in Checks(ParserVerdicts)
        /\ Check(undecoded, "CborDecodeError") \in Checks(ParserVerdicts)
    BY <2>1, <2>2
  <2> QED
    BY <2>3, Zenon DEF empty, long, short, keyless, undecoded
<1>4. parsed \in ParserVerdicts
  BY KeyVerdicts
<1> HIDE DEF a, b, c, d, e, parsed
<1>5. <<a, b, c, d, e>> \in Lines(ParserVerdicts)
  BY <1>3 DEF Lines
<1>6. early \in ParserVerdicts
  <2>1. Ok \in ParserVerdicts
    BY DEF ParserVerdicts
  <2> QED
    BY <1>5, <2>1, FirstErrorType
<1> HIDE DEF early
<1> QED
  BY <1>1, <1>2, <1>4, <1>6

\* What the map of extensions is answered with.
LEMMA ExtensionVerdicts ==
    ASSUME NEW data
    PROVE  ParseExtensionMap(data).verdict \in ParserVerdicts
<1> DEFINE a == Check(data = <<>>, "InvalidAuthenticatorData")
           b == Check(Decoded(data) = {}, "CborDecodeError")
           c == Check(\E i \in Decoded(data) : i.value.type # "map", "InvalidAuthenticatorData")
<1>1. ParseExtensionMap(data).verdict = FirstError(<<a, b, c>>)
  BY DEF ParseExtensionMap, Read
<1>2. {"InvalidAuthenticatorData", "CborDecodeError"} \subseteq ParserVerdicts \ {Ok}
  BY DEF ParserVerdicts, Ok
<1>3. /\ a \in Checks(ParserVerdicts) /\ b \in Checks(ParserVerdicts)
      /\ c \in Checks(ParserVerdicts)
  <2>1. /\ (data = <<>>) \in BOOLEAN /\ (Decoded(data) = {}) \in BOOLEAN
        /\ (\E i \in Decoded(data) : i.value.type # "map") \in BOOLEAN
    OBVIOUS
  <2> QED
    BY <1>2, <2>1, ParserCheck
<1> HIDE DEF a, b, c
<1>4. <<a, b, c>> \in Lines(ParserVerdicts)
  BY <1>3 DEF Lines
<1>5. Ok \in ParserVerdicts
  BY DEF ParserVerdicts
<1> QED
  BY <1>1, <1>4, <1>5, FirstErrorType

\* What the parser answers for the whole, and so for a response.
LEMMA AuthenticatorDataVerdicts ==
    ASSUME NEW data
    PROVE  ParseAuthenticatorData(data).verdict \in ParserVerdicts
<1> DEFINE flags == data[33].byte
           at == Section(Bit(flags, 6), ParseAttestedCredentialData(Drop(data, 37)))
           ed == Section(Bit(flags, 7), ParseExtensionMap(Drop(data, ExtStart(at.consumed))))
           a == Check(Bit(flags, 4) /\ ~Bit(flags, 3), "InvalidAuthenticatorData")
           b == Check(at.verdict # Ok, at.verdict)
           c == Check(ed.verdict # Ok, ed.verdict)
<1>1. ParseAuthenticatorData(data).verdict =
        IF Len(data) < 37 THEN "InvalidAuthenticatorData" ELSE FirstError(<<a, b, c>>)
  BY DEF ParseAuthenticatorData, Read
<1>2. Ok \in ParserVerdicts /\ "InvalidAuthenticatorData" \in ParserVerdicts \ {Ok}
  BY DEF ParserVerdicts, Ok
<1>3. at.verdict \in ParserVerdicts /\ ed.verdict \in ParserVerdicts
  BY <1>2, AttestedDataVerdicts, ExtensionVerdicts DEF Section, Read
<1>4. (Bit(flags, 4) /\ ~Bit(flags, 3)) \in BOOLEAN
  BY DEF Bit
<1> HIDE DEF at, ed, flags
<1>5. /\ a \in Checks(ParserVerdicts) /\ b \in Checks(ParserVerdicts)
      /\ c \in Checks(ParserVerdicts)
  BY <1>2, <1>3, <1>4, ParserCheck, SectionCheck
<1> HIDE DEF a, b, c
<1>6. <<a, b, c>> \in Lines(ParserVerdicts)
  BY <1>5 DEF Lines
<1> QED
  BY <1>1, <1>2, <1>6, FirstErrorType

\* What a map says under a label that stands in it once.
LEMMA GetOnly ==
    ASSUME NEW map, NEW label, NEW value, NEW i \in DOMAIN map.entries, i \in Nat,
           map.entries[i] = Entry(label, value),
           \A j \in DOMAIN map.entries : map.entries[j].label = label => j = i
    PROVE  Get(map, label, value.type) = {value}
<1> DEFINE found == {j \in DOMAIN map.entries :
                       /\ map.entries[j].text = "" /\ map.entries[j].label = label
                       /\ map.entries[j].value.type = value.type}
<1>1. /\ map.entries[i].text = "" /\ map.entries[i].label = label
      /\ map.entries[i].value = value
  <2>1. Entry(label, value).text = ""
    BY Zenon DEF Entry
  <2>2. Entry(label, value).label = label /\ Entry(label, value).value = value
    BY DEF Entry
  <2> QED
    BY <2>1, <2>2, Zenon
<1>2. found = {i}
  BY <1>1, Zenon
<1> HIDE DEF found
<1>3. {j \in found : \A k \in found : j <= k} = {i}
  BY <1>2
<1>4. Get(map, label, value.type) = {map.entries[j].value : j \in {i}}
  BY <1>3, Zenon DEF Get, found
<1> QED
  BY <1>1, <1>4, Zenon

\* The type and the algorithm of a key, from its first two entries.
LEMMA KeyTyped ==
    ASSUME NEW e, NEW k \in Int, NEW a \in Int, 1 \in DOMAIN e, 2 \in DOMAIN e,
           e[1] = Entry(1, Number(k)), e[2] = Entry(3, Number(a)),
           \A j \in DOMAIN e : (e[j].label = 1 => j = 1) /\ (e[j].label = 3 => j = 2)
    PROVE  \A n \in Int : /\ IntIs(CborMap(e), 1, n) <=> k = n
                          /\ IntIs(CborMap(e), 3, n) <=> a = n
<1> DEFINE map == CborMap(e)
<1>1. map.entries = e
  BY DEF CborMap
<1> HIDE DEF map
<1>0. 1 \in Nat /\ 2 \in Nat
  OBVIOUS
<1>2. /\ Number(k).type = "int" /\ Number(a).type = "int"
      /\ Number(k).int = k /\ Number(a).int = a
  BY DEF Number
<1>3. Get(map, 1, "int") = {Number(k)}
  <2>1. 1 \in DOMAIN map.entries /\ map.entries[1] = Entry(1, Number(k))
    BY <1>1
  <2>2. \A j \in DOMAIN map.entries : map.entries[j].label = 1 => j = 1
    BY <1>1
  <2>3. Get(map, 1, Number(k).type) = {Number(k)}
    BY <1>0, <2>1, <2>2, GetOnly, Zenon
  <2> QED
    BY <1>2, <2>3, Zenon
<1>4. Get(map, 3, "int") = {Number(a)}
  <2>1. 2 \in DOMAIN map.entries /\ map.entries[2] = Entry(3, Number(a))
    BY <1>1
  <2>2. \A j \in DOMAIN map.entries : map.entries[j].label = 3 => j = 2
    BY <1>1
  <2> DEFINE v == Number(a)
             two == 2
             three == 3
  <2>3. two \in DOMAIN map.entries /\ two \in Nat /\ map.entries[two] = Entry(three, v)
    BY <2>1
  <2>4. \A j \in DOMAIN map.entries : map.entries[j].label = three => j = two
    BY <2>2
  <2> HIDE DEF v, two, three
  <2>5. Get(map, three, v.type) = {v}
    BY <2>3, <2>4, GetOnly
  <2> QED
    BY <1>2, <2>5, Zenon DEF v, three
<1> QED
  BY <1>2, <1>3, <1>4, Zenon DEF IntIs, map

\* Entries with these labels and values, and no label twice.
Laid(e, n, l, v) ==
    /\ n \in Nat /\ DOMAIN e = 1 .. n
    /\ \A i \in 1 .. n : e[i] = Entry(l[i], v[i])
    /\ \A i, j \in 1 .. n : l[i] = l[j] => i = j

\* A map no label of which stands twice has under each label what was put there.
LEMMA EachUnderItsLabel ==
    ASSUME NEW e, NEW n, NEW l, NEW v, Laid(e, n, l, v)
    PROVE  /\ CborMap(e).type = "map" /\ ~Duplicate(CborMap(e))
           /\ \A i \in 1 .. n : Get(CborMap(e), l[i], v[i].type) = {v[i]}
<1> USE DEF Laid
<1> DEFINE map == CborMap(e)
<1>1. map.type = "map" /\ map.entries = e
  BY DEF CborMap
<1>2. \A i \in 1 .. n : e[i].label = l[i]
  <2>1. ASSUME NEW x, NEW y PROVE Entry(x, y).label = x
    BY DEF Entry
  <2> QED
    BY <2>1
<1> HIDE DEF map
<1>3. ~Duplicate(map)
  <2>1. \A i, j \in DOMAIN map.entries : map.entries[i].label = map.entries[j].label => i = j
    BY <1>1, <1>2
  <2> QED
    BY <2>1, Zenon DEF Duplicate
<1>4. ASSUME NEW i \in 1 .. n PROVE Get(map, l[i], v[i].type) = {v[i]}
  <2> DEFINE label == l[i]
             value == v[i]
  <2>1. /\ i \in DOMAIN map.entries /\ i \in Nat /\ map.entries[i] = Entry(label, value)
        /\ \A j \in DOMAIN map.entries : map.entries[j].label = label => j = i
    BY <1>1, <1>2
  <2> HIDE DEF label, value
  <2>2. Get(map, label, value.type) = {value}
    BY <2>1, GetOnly
  <2> QED
    BY <2>2 DEF label, value
<1> QED
  BY <1>1, <1>3, <1>4 DEF map

\* A map with four labels, as for EdDSA and RS256.
FourMap(a, b, c, d) ==
    CborMap(<<Entry(1, a), Entry(3, b), Entry(-1, c), Entry(-2, d)>>)

\* The maps of the four algorithms: a key type, an algorithm, and what is under
\* the labels -1, -2 and, of a curve, -3.
LEMMA FourEntries ==
    ASSUME NEW a, NEW b, NEW c, NEW d, NEW map, map = FourMap(a, b, c, d)
    PROVE  /\ map.type = "map" /\ ~Duplicate(map)
           /\ Get(map, 1, a.type) = {a} /\ Get(map, 3, b.type) = {b}
           /\ Get(map, -1, c.type) = {c} /\ Get(map, -2, d.type) = {d}
<1> DEFINE l == <<1, 3, -1, -2>>
           v == <<a, b, c, d>>
           e == <<Entry(1, a), Entry(3, b), Entry(-1, c), Entry(-2, d)>>
<1>1. Laid(e, 4, l, v)
  BY DEF Laid
<1>2. l[1] = 1 /\ l[2] = 3 /\ l[3] = -1 /\ l[4] = -2
      /\ v[1] = a /\ v[2] = b /\ v[3] = c /\ v[4] = d
  OBVIOUS
<1>3. map = CborMap(e)
      /\ 1 \in 1 .. 4 /\ 2 \in 1 .. 4 /\ 3 \in 1 .. 4 /\ 4 \in 1 .. 4
  BY DEF FourMap
<1> HIDE DEF l, v, e
<1>4. /\ CborMap(e).type = "map" /\ ~Duplicate(CborMap(e))
      /\ \A i \in 1 .. 4 : Get(CborMap(e), l[i], v[i].type) = {v[i]}
  BY <1>1, EachUnderItsLabel
<1> QED
  BY <1>2, <1>3, <1>4, Zenon

\* And with five, as for ES256 and ES384.
FiveMap(a, b, c, d, f) ==
    CborMap(<<Entry(1, a), Entry(3, b), Entry(-1, c), Entry(-2, d), Entry(-3, f)>>)

\* The same with a second coordinate.
LEMMA FiveEntries ==
    ASSUME NEW a, NEW b, NEW c, NEW d, NEW f, NEW map, map = FiveMap(a, b, c, d, f)
    PROVE  /\ map.type = "map" /\ ~Duplicate(map)
           /\ Get(map, 1, a.type) = {a} /\ Get(map, 3, b.type) = {b}
           /\ Get(map, -1, c.type) = {c} /\ Get(map, -2, d.type) = {d}
           /\ Get(map, -3, f.type) = {f}
<1> DEFINE l == <<1, 3, -1, -2, -3>>
           v == <<a, b, c, d, f>>
           e == <<Entry(1, a), Entry(3, b), Entry(-1, c), Entry(-2, d), Entry(-3, f)>>
<1>1. Laid(e, 5, l, v)
  BY DEF Laid
<1>2. l[1] = 1 /\ l[2] = 3 /\ l[3] = -1 /\ l[4] = -2 /\ l[5] = -3
      /\ v[1] = a /\ v[2] = b /\ v[3] = c /\ v[4] = d /\ v[5] = f
  OBVIOUS
<1>3. map = CborMap(e)
      /\ 1 \in 1 .. 5 /\ 2 \in 1 .. 5 /\ 3 \in 1 .. 5 /\ 4 \in 1 .. 5 /\ 5 \in 1 .. 5
  BY DEF FiveMap
<1> HIDE DEF l, v, e
<1>4. /\ CborMap(e).type = "map" /\ ~Duplicate(CborMap(e))
      /\ \A i \in 1 .. 5 : Get(CborMap(e), l[i], v[i].type) = {v[i]}
  BY <1>1, EachUnderItsLabel
<1> QED
  BY <1>2, <1>3, <1>4, Zenon

\* Part of a longer sequence.
LEMMA PartOf ==
    ASSUME NEW S, NEW s \in Seq(S), NEW a \in Nat \ {0}, NEW b \in Nat, a <= b, b <= Len(s)
    PROVE  Len(SubSeq(s, a, b)) = b - a + 1
BY SubSeqProperties, LenProperties

\* The head of the parse of a key: it is a map, with a key type.
LEMMA KeyPassed ==
    ASSUME NEW map, map.type = "map", ~Duplicate(map), Has(map, 1, "int"),
           NEW checks \in Lines({"InvalidPublicKey", "UnsupportedAlgorithm", Ok}),
           \A i \in 1 .. Len(checks) : ~checks[i].failed,
           checks = IF IntIs(map, 1, 1) THEN ParseOkpKey(map)
                    ELSE IF IntIs(map, 1, 2) THEN ParseEc2Key(map)
                    ELSE IF IntIs(map, 1, 3) THEN ParseRsaKey(map)
                    ELSE <<Check(TRUE, "InvalidPublicKey")>>
    PROVE  FirstError(ParseCoseKey(map)) = Ok
<1> DEFINE E == {"InvalidPublicKey", "UnsupportedAlgorithm", Ok}
           a == Check(map.type # "map", "InvalidPublicKey")
           b == Check(Duplicate(map), "InvalidPublicKey")
           c == Missing(map, 1, "int")
<1>1. ParseCoseKey(map) = <<a, b, c>> \o checks
  BY DEF ParseCoseKey
<1>2. /\ a \in Checks(E) /\ b \in Checks(E) /\ c \in Checks(E)
      /\ ~a.failed /\ ~b.failed /\ ~c.failed
  BY DEF Checks, Check, Missing, Ok, Duplicate, Has
<1> HIDE DEF a, b, c, E
<1>3. FirstError(<<a, b, c>>) = Ok /\ <<a, b, c>> \in Lines(E)
  BY <1>2, FirstErrorOf3
<1>4. FirstError(checks) = Ok
  BY NoError
<1>5. checks \in Lines(E)
  BY DEF E
<1> DEFINE head == <<a, b, c>>
<1> HIDE DEF head
<1>6. FirstError(head \o checks) = IF FirstError(head) # Ok THEN FirstError(head) ELSE FirstError(checks)
  <2>1. head \in Lines(E)
    BY <1>3 DEF head
  <2> QED
    BY <1>5, <2>1, FirstErrorOfConcat
<1> QED
  BY <1>1, <1>3, <1>4, <1>6 DEF head
=============================================================================
