-------------------------- MODULE Lifecycle_proofs --------------------------
(***************************************************************************)
(* Theorems of module Lifecycle, for every set of configurations, devices  *)
(* and requests.  The parts: what the options say; what two configurations *)
(* accept; which errors the parsers answer with; what the library reads of *)
(* an authenticator's response; which check finds each fault; that nothing *)
(* else is refused; how a request for extensions is answered; what a       *)
(* ceremony can answer; and the inductive invariant, with the theorems     *)
(* that follow from it.                                                    *)
(***************************************************************************)
EXTENDS Lifecycle, Octets_proofs, FiniteSetTheorems

-----------------------------------------------------------------------------
(***************************************************************************)
(* Objects: lists of entries, and their lengths.                           *)
(***************************************************************************)

\* Entries of an object: a list of es, each of them once and no name twice.
Lists(s, es) ==
    /\ s \in Seq(es)
    /\ Range(s) = es
    /\ \A i, j \in 1 .. Len(s) : s[i].text = s[j].text => i = j

\* The entry of an optional field, if there is one.
Optional(name, some) == {Named(name, v) : v \in {w \in some : w = CHOOSE x \in some : TRUE}}
CountOf(some) == IF some = {} THEN 0 ELSE 1

\* One entry.
LEMMA GivenLists ==
    ASSUME NEW name, NEW value
    PROVE  Lists(Given(name, value), {Named(name, value)}) /\ Len(Given(name, value)) = 1
  BY DEF Lists, Given, Range

\* An entry that is there if there is a value.
LEMMA IfSomeLists ==
    ASSUME NEW name, NEW some
    PROVE  /\ Lists(IfSome(name, some), Optional(name, some))
           /\ Len(IfSome(name, some)) = CountOf(some)
           /\ \A e \in Optional(name, some) : e.text = name /\ e.value \in some
<1>1. CASE some = {}
  BY <1>1 DEF Lists, IfSome, Range, Optional, CountOf
<1>2. CASE some # {}
  <2> DEFINE v == CHOOSE x \in some : TRUE
  <2>1. v \in some
    BY <1>2
  <2>2. IfSome(name, some) = Given(name, v)
    BY <1>2 DEF IfSome
  <2>3. Optional(name, some) = {Named(name, v)} /\ CountOf(some) = 1
    BY <1>2, <2>1 DEF Optional, CountOf
  <2> HIDE DEF v
  <2>4. Lists(Given(name, v), {Named(name, v)}) /\ Len(Given(name, v)) = 1
    BY GivenLists
  <2> QED
    BY <2>1, <2>2, <2>3, <2>4 DEF Named
<1> QED
  BY <1>1, <1>2

\* One list after another, with other names.
LEMMA ConcatLists ==
    ASSUME NEW s, NEW t, NEW S, NEW T, Lists(s, S), Lists(t, T),
           \A a \in S, b \in T : a.text # b.text
    PROVE  Lists(s \o t, S \union T) /\ Len(s \o t) = Len(s) + Len(t)
<1>1. s \in Seq(S \union T) /\ t \in Seq(S \union T)
  BY DEF Lists
<1>2. s \o t \in Seq(S \union T) /\ Len(s \o t) = Len(s) + Len(t)
  BY <1>1
<1>3. \A i \in 1 .. Len(s) + Len(t) :
         (s \o t)[i] = IF i <= Len(s) THEN s[i] ELSE t[i - Len(s)]
  BY <1>1
<1>4. (\A i \in 1 .. Len(s) : s[i] \in S) /\ (\A i \in 1 .. Len(t) : t[i] \in T)
  BY DEF Lists
<1>5. Range(s \o t) = S \union T
  <2>1. Range(s \o t) \subseteq S \union T
    BY <1>2 DEF Range
  <2>2. ASSUME NEW x \in S PROVE x \in Range(s \o t)
    <3>1. PICK i \in 1 .. Len(s) : s[i] = x
      BY DEF Lists, Range
    <3> QED
      BY <1>1, <1>2, <1>3, <3>1 DEF Range
  <2>3. ASSUME NEW x \in T PROVE x \in Range(s \o t)
    <3>1. PICK i \in 1 .. Len(t) : t[i] = x
      BY DEF Lists, Range
    <3>2. i + Len(s) \in 1 .. Len(s \o t) /\ (s \o t)[i + Len(s)] = x
      BY <1>1, <1>2, <1>3, <3>1
    <3> QED
      BY <1>2, <3>2 DEF Range
  <2> QED
    BY <2>1, <2>2, <2>3
<1>6. ASSUME NEW i \in 1 .. Len(s \o t), NEW j \in 1 .. Len(s \o t),
             (s \o t)[i].text = (s \o t)[j].text
      PROVE  i = j
  <2>0. Len(s) \in Nat /\ Len(t) \in Nat
    BY <1>1
  <2>1. CASE i <= Len(s) /\ j <= Len(s)
    BY <1>1, <1>2, <1>3, <1>6, <2>1, <2>0 DEF Lists
  <2>2. CASE i > Len(s) /\ j > Len(s)
    <3>1. i - Len(s) \in 1 .. Len(t) /\ j - Len(s) \in 1 .. Len(t)
      BY <1>2, <2>0, <2>2
    <3>2. t[i - Len(s)].text = t[j - Len(s)].text
      BY <1>2, <1>3, <1>6, <2>0, <2>2
    <3>3. i - Len(s) = j - Len(s)
      BY <3>1, <3>2 DEF Lists
    <3> QED
      BY <2>0, <3>3
  <2>3. CASE i <= Len(s) /\ j > Len(s)
    <3>1. s[i] \in S /\ t[j - Len(s)] \in T /\ (s \o t)[i] = s[i] /\ (s \o t)[j] = t[j - Len(s)]
      BY <1>2, <1>3, <1>4, <2>0, <2>3
    <3> QED
      BY <1>6, <3>1
  <2>4. CASE i > Len(s) /\ j <= Len(s)
    <3>1. s[j] \in S /\ t[i - Len(s)] \in T /\ (s \o t)[j] = s[j] /\ (s \o t)[i] = t[i - Len(s)]
      BY <1>2, <1>3, <1>4, <2>0, <2>4
    <3> QED
      BY <1>6, <3>1
  <2> QED
    BY <2>0, <1>2, <2>1, <2>2, <2>3, <2>4
<1> QED
  BY <1>2, <1>5, <1>6 DEF Lists

\* One more entry.
LEMMA AppendGiven ==
    ASSUME NEW s, NEW E, NEW name, NEW value, Lists(s, E), \A e \in E : e.text # name
    PROVE  /\ Lists(s \o Given(name, value), E \union {Named(name, value)})
           /\ Len(s \o Given(name, value)) = Len(s) + 1
<1>1. Lists(Given(name, value), {Named(name, value)}) /\ Len(Given(name, value)) = 1
  BY GivenLists
<1> DEFINE t == Given(name, value)
           F == {Named(name, value)}
<1>2. \A a \in E, b \in F : a.text # b.text
  BY DEF Named
<1>3. Lists(t, F) /\ Len(t) = 1
  BY <1>1
<1> HIDE DEF t, F
<1>4. Lists(s \o t, E \union F) /\ Len(s \o t) = Len(s) + Len(t)
  BY <1>2, <1>3, ConcatLists
<1> QED
  BY <1>3, <1>4 DEF t, F

\* One more entry, if there is a value.
LEMMA AppendOptional ==
    ASSUME NEW s, NEW E, NEW name, NEW some, Lists(s, E), \A e \in E : e.text # name
    PROVE  /\ Lists(s \o IfSome(name, some), E \union Optional(name, some))
           /\ Len(s \o IfSome(name, some)) = Len(s) + CountOf(some)
<1>1. /\ Lists(IfSome(name, some), Optional(name, some))
      /\ Len(IfSome(name, some)) = CountOf(some)
      /\ \A b \in Optional(name, some) : b.text = name
  BY IfSomeLists
<1> DEFINE t == IfSome(name, some)
           F == Optional(name, some)
<1>2. \A a \in E, b \in F : a.text # b.text
  BY <1>1
<1>3. Lists(t, F) /\ Len(t) = CountOf(some)
  BY <1>1
<1> HIDE DEF t, F
<1>4. Lists(s \o t, E \union F) /\ Len(s \o t) = Len(s) + Len(t)
  BY <1>2, <1>3, ConcatLists
<1> QED
  BY <1>3, <1>4 DEF t, F

\* Present counts the fields that are not None, one after the other.
UpTo(some, m) == {i \in 1 .. m : some[i] # {}}

\* The first so many fields, and one more.
LEMMA CountOneMore ==
    ASSUME NEW some, NEW n \in Nat
    PROVE  /\ Cardinality(UpTo(some, 0)) = 0
           /\ Cardinality(UpTo(some, n + 1)) = Cardinality(UpTo(some, n)) + CountOf(some[n + 1])
<1>1. IsFiniteSet(UpTo(some, n))
  <2>1. IsFiniteSet(1 .. n)
    BY FS_Interval
  <2>2. UpTo(some, n) \in SUBSET (1 .. n)
    BY DEF UpTo
  <2> QED
    BY <2>1, <2>2, FS_Subset
<1>2. Cardinality(UpTo(some, n)) \in Nat
  BY <1>1, FS_CardinalityType
<1>3. UpTo(some, 0) = {}
  BY DEF UpTo
<1>4. Cardinality(UpTo(some, 0)) = 0
  BY <1>3, FS_EmptySet
<1>5. CASE some[n + 1] = {}
  <2>1. UpTo(some, n + 1) = UpTo(some, n)
    BY <1>5 DEF UpTo
  <2> QED
    BY <1>2, <1>4, <1>5, <2>1 DEF CountOf
<1>6. CASE some[n + 1] # {}
  <2>1. UpTo(some, n + 1) = UpTo(some, n) \union {n + 1} /\ n + 1 \notin UpTo(some, n)
    BY <1>6 DEF UpTo
  <2>2. Cardinality(UpTo(some, n + 1)) = Cardinality(UpTo(some, n)) + 1
    BY <1>1, <2>1, FS_AddElement
  <2> QED
    BY <1>4, <1>6, <2>2 DEF CountOf
<1> QED
  BY <1>5, <1>6

\* The fields that are present, of two.
LEMMA PresentOf2 ==
    ASSUME NEW a, NEW b
    PROVE  Present(<<a, b>>) = CountOf(a) + CountOf(b)
<1> DEFINE some == <<a, b>>
<1>1. DOMAIN some = 1 .. 2 /\ some[1] = a /\ some[2] = b
  OBVIOUS
<1>2. Present(some) = Cardinality(UpTo(some, 2))
  BY <1>1 DEF Present, UpTo
<1> HIDE DEF some
<1>3. \A n \in Nat :
         /\ Cardinality(UpTo(some, 0)) = 0
         /\ Cardinality(UpTo(some, n + 1)) = Cardinality(UpTo(some, n)) + CountOf(some[n + 1])
  BY CountOneMore
<1>4. Cardinality(UpTo(some, 1)) = CountOf(a) /\ Cardinality(UpTo(some, 2)) = CountOf(a) + CountOf(b)
  <2>1. Cardinality(UpTo(some, 0 + 1)) = Cardinality(UpTo(some, 0)) + CountOf(some[0 + 1])
    BY <1>3
  <2>2. Cardinality(UpTo(some, 1 + 1)) = Cardinality(UpTo(some, 1)) + CountOf(some[1 + 1])
    BY <1>3
  <2> QED
    BY <1>1, <1>3, <2>1, <2>2 DEF CountOf
<1> QED
  BY <1>2, <1>4 DEF some

\* The fields that are present, of five.
LEMMA PresentOf5 ==
    ASSUME NEW a, NEW b, NEW c, NEW d, NEW e
    PROVE  Present(<<a, b, c, d, e>>) =
             CountOf(a) + CountOf(b) + CountOf(c) + CountOf(d) + CountOf(e)
<1> DEFINE some == <<a, b, c, d, e>>
<1>1. /\ DOMAIN some = 1 .. 5
      /\ some[1] = a /\ some[2] = b /\ some[3] = c /\ some[4] = d /\ some[5] = e
  OBVIOUS
<1>2. Present(some) = Cardinality(UpTo(some, 5))
  BY <1>1 DEF Present, UpTo
<1> HIDE DEF some
<1>3. \A n \in Nat :
         /\ Cardinality(UpTo(some, 0)) = 0
         /\ Cardinality(UpTo(some, n + 1)) = Cardinality(UpTo(some, n)) + CountOf(some[n + 1])
  BY CountOneMore
<1>4. Cardinality(UpTo(some, 0 + 1)) = Cardinality(UpTo(some, 0)) + CountOf(some[0 + 1])
  BY <1>3
<1>5. Cardinality(UpTo(some, 1 + 1)) = Cardinality(UpTo(some, 1)) + CountOf(some[1 + 1])
  BY <1>3
<1>6. Cardinality(UpTo(some, 2 + 1)) = Cardinality(UpTo(some, 2)) + CountOf(some[2 + 1])
  BY <1>3
<1>7. Cardinality(UpTo(some, 3 + 1)) = Cardinality(UpTo(some, 3)) + CountOf(some[3 + 1])
  BY <1>3
<1>8. Cardinality(UpTo(some, 4 + 1)) = Cardinality(UpTo(some, 4)) + CountOf(some[4 + 1])
  BY <1>3
<1>9. Cardinality(UpTo(some, 5)) = CountOf(a) + CountOf(b) + CountOf(c) + CountOf(d) + CountOf(e)
  BY <1>1, <1>3, <1>4, <1>5, <1>6, <1>7, <1>8 DEF CountOf
<1> QED
  BY <1>2, <1>9 DEF some

-----------------------------------------------------------------------------
(***************************************************************************)
(* The objects a serializer writes.  Each has as many entries as it was    *)
(* announced to have, with different names.                                *)
(***************************************************************************)

\* A list of n entries, those of es, with names.
Listing(s, es, names, n) ==
    Lists(s, es) /\ Len(s) = n /\ \A e \in es : e.text \in names

\* A list of one field.
LEMMA ListingOne ==
    ASSUME NEW name, NEW value
    PROVE  Listing(Given(name, value), {Named(name, value)}, {name}, 1)
<1>1. Named(name, value).text = name
  BY DEF Named
<1> QED
  BY <1>1, GivenLists DEF Listing

\* A list of one optional field.
LEMMA ListingOptional ==
    ASSUME NEW name, NEW some
    PROVE  Listing(IfSome(name, some), Optional(name, some), {name}, CountOf(some))
  BY IfSomeLists DEF Listing

\* One more field, of a name of its own.
LEMMA ListingAnd ==
    ASSUME NEW s, NEW E, NEW N, NEW n, Listing(s, E, N, n),
           NEW name, NEW value, name \notin N
    PROVE  Listing(s \o Given(name, value), E \union {Named(name, value)},
                   N \union {name}, n + 1)
<1>1. \A e \in E : e.text # name
  BY DEF Listing
<1>2. Named(name, value).text = name
  BY DEF Named
<1>3. /\ Lists(s \o Given(name, value), E \union {Named(name, value)})
      /\ Len(s \o Given(name, value)) = Len(s) + 1
  BY <1>1, AppendGiven DEF Listing
<1> QED
  BY <1>2, <1>3 DEF Listing

\* One more optional field, of a name of its own.
LEMMA ListingAndOptional ==
    ASSUME NEW s, NEW E, NEW N, NEW n, Listing(s, E, N, n),
           NEW name, NEW some, name \notin N
    PROVE  Listing(s \o IfSome(name, some), E \union Optional(name, some),
                   N \union {name}, n + CountOf(some))
<1>1. \A e \in E : e.text # name
  BY DEF Listing
<1>2. \A e \in Optional(name, some) : e.text = name
  BY IfSomeLists
<1>3. /\ Lists(s \o IfSome(name, some), E \union Optional(name, some))
      /\ Len(s \o IfSome(name, some)) = Len(s) + CountOf(some)
  BY <1>1, AppendOptional DEF Listing
<1> QED
  BY <1>2, <1>3 DEF Listing

\* An object that lists its entries is well-formed.
LEMMA ObjectListed ==
    ASSUME NEW size, NEW entries, NEW E, NEW N, Listing(entries, E, N, size)
    PROVE  /\ WellFormed(Object(size, entries))
           /\ Within(Object(size, entries)) = {e.value : e \in E}
  BY DEF Listing, Lists, Object, WellFormed, Within

\* What a reader finds under a name, in a list with the entry under it.
LEMMA FieldFound ==
    ASSUME NEW json, NEW E, NEW name, NEW value, Lists(json.entries, E),
           Named(name, value) \in E, \A e \in E : e.text = name => e = Named(name, value)
    PROVE  Field(json, name) = {value}
<1>1. {f \in Range(json.entries) : f.text = name} = {Named(name, value)}
  BY DEF Lists, Named
<1> QED
  BY <1>1 DEF Field, Named

\* A document that is well-formed, and nested no deeper than the number.
Depth0(json) == WellFormed(json) /\ Within(json) = {}
Depth1(json) == WellFormed(json) /\ \A v \in Within(json) : Depth0(v)
Depth2(json) == WellFormed(json) /\ \A v \in Within(json) : Depth1(v)
Depth3(json) == WellFormed(json) /\ \A v \in Within(json) : Depth2(v)
Depth4(json) == WellFormed(json) /\ \A v \in Within(json) : Depth3(v)

\* What is readable to some depth is so to any greater one.
LEMMA DeeperStill ==
    ASSUME NEW json
    PROVE  /\ Depth0(json) => Depth1(json)
           /\ Depth1(json) => Depth2(json)
           /\ Depth2(json) => Depth3(json)
<1>1. \A v : Depth0(v) => Depth1(v)
  BY DEF Depth0, Depth1
<1>2. \A v : Depth1(v) => Depth2(v)
  BY <1>1 DEF Depth1, Depth2
<1> QED
  BY <1>1, <1>2 DEF Depth2, Depth3

\* Texts, octets, numbers and Booleans.
LEMMA LeafReadable ==
    ASSUME NEW x
    PROVE  Depth0(Text(x)) /\ Depth0(Bytes(x)) /\ Depth0(Number(x)) /\ Depth0(Bool(x))
  BY DEF Depth0, WellFormed, Within, Text, Bytes, Number, Bool

\* Arrays, whatever their order.
LEMMA ArrayReadable ==
    ASSUME NEW elements
    PROVE  /\ WellFormed(Array(elements))
           /\ Within(Array(elements)) = {elements[i] : i \in DOMAIN elements}
  BY DEF WellFormed, Within, Array, Range

\* The inputs of a PRF evaluation: one salt, or two.
LEMMA PrfEvalInputReadable ==
    ASSUME NEW eval
    PROVE  Depth1(PrfEvalInput(eval))
<1> DEFINE v1 == Bytes(eval.first)
           v2 == {Bytes(second) : second \in eval.second}
           s1 == Given("first", v1)
           E1 == {Named("first", v1)}
           N1 == {"first"}
           s2 == s1 \o IfSome("second", v2)
           E2 == E1 \union Optional("second", v2)
           N2 == N1 \union {"second"}
           size == IF eval.second # {} THEN 2 ELSE 1
<1>1. PrfEvalInput(eval) = Object(size, s2)
  BY DEF PrfEvalInput
<1>2. size = 1 + CountOf(v2)
  BY DEF CountOf
<1>3. /\ Depth0(v1)
      /\ \A v \in v2 : Depth0(v)
  BY LeafReadable
<1> HIDE DEF size, v1, v2
<1>4. Listing(s1, E1, N1, 1)
  BY ListingOne
<1> HIDE DEF s1
<1>5. Listing(s2, E2, N2, 1 + CountOf(v2))
  BY <1>4, ListingAndOptional DEF CountOf
<1>6. \A e \in E2 : Depth0(e.value)
  BY <1>3, IfSomeLists DEF Named
<1> HIDE DEF E2, N2, s2
<1> QED
  BY <1>1, <1>2, <1>5, <1>6, ObjectListed DEF Depth1

\* The input of the prf extension.
LEMMA PrfInputReadable ==
    ASSUME NEW prf
    PROVE  Depth2(PrfInput(prf))
<1> DEFINE v1 == {PrfEvalInput(eval) : eval \in prf.eval}
           s1 == IfSome("eval", v1)
           E1 == Optional("eval", v1)
           N1 == {"eval"}
           size == IF prf.eval # {} THEN 1 ELSE 0
<1>1. PrfInput(prf) = Object(size, s1)
  BY DEF PrfInput
<1>2. size = CountOf(v1)
  BY DEF CountOf
<1>3. /\ \A v \in v1 : Depth1(v)
  BY PrfEvalInputReadable
<1> HIDE DEF size, v1
<1>4. Listing(s1, E1, N1, CountOf(v1))
  BY ListingOptional
<1>5. \A e \in E1 : Depth1(e.value)
  BY <1>3, IfSomeLists DEF Named
<1> HIDE DEF E1, N1, s1
<1> QED
  BY <1>1, <1>2, <1>4, <1>5, ObjectListed DEF Depth2

\* The input of the credProtect extension: two members at the top of the extensions.
LEMMA CredProtectInputReadable ==
    ASSUME NEW input
    PROVE  Depth1(CredProtectInput(input))
<1> DEFINE v1 == Text(CredProtectPolicyStr(input.policy))
           v2 == Bool(input.enforce)
           s1 == Given("credentialProtectionPolicy", v1)
           E1 == {Named("credentialProtectionPolicy", v1)}
           N1 == {"credentialProtectionPolicy"}
           s2 == s1 \o Given("enforceCredentialProtectionPolicy", v2)
           E2 == E1 \union {Named("enforceCredentialProtectionPolicy", v2)}
           N2 == N1 \union {"enforceCredentialProtectionPolicy"}
           size == 2
<1>1. CredProtectInput(input) = Object(size, s2)
  BY DEF CredProtectInput
<1>2. size = 2
  BY DEF CountOf
<1>3. /\ Depth0(v1)
      /\ Depth0(v2)
  BY LeafReadable
<1> HIDE DEF size, v1, v2
<1>4. Listing(s1, E1, N1, 1)
  BY ListingOne
<1> HIDE DEF s1
<1>5. Listing(s2, E2, N2, 2)
  BY <1>4, ListingAnd
<1>6. \A e \in E2 : Depth0(e.value)
  BY <1>3 DEF Named
<1> HIDE DEF E2, N2, s2
<1> QED
  BY <1>1, <1>2, <1>5, <1>6, ObjectListed DEF Depth1

\* The inputs of the largeBlob extension.
LEMMA LargeBlobRegistrationInputReadable ==
    ASSUME NEW support
    PROVE  Depth1(LargeBlobRegistrationInput(support))
<1> DEFINE v1 == Text(support)
           s1 == Given("support", v1)
           E1 == {Named("support", v1)}
           N1 == {"support"}
           size == 1
<1>1. LargeBlobRegistrationInput(support) = Object(size, s1)
  BY DEF LargeBlobRegistrationInput
<1>2. size = 1
  BY DEF CountOf
<1>3. /\ Depth0(v1)
  BY LeafReadable
<1> HIDE DEF size, v1
<1>4. Listing(s1, E1, N1, 1)
  BY ListingOne
<1>5. \A e \in E1 : Depth0(e.value)
  BY <1>3 DEF Named
<1> HIDE DEF E1, N1, s1
<1> QED
  BY <1>1, <1>2, <1>4, <1>5, ObjectListed DEF Depth1

\* The largeBlob input of an authentication: a read, or a write.
LEMMA LargeBlobAuthenticationInputReadable ==
    ASSUME NEW write
    PROVE  Depth1(LargeBlobAuthenticationInput(write))
<1> DEFINE v == Bool(TRUE)
           vs == {Bytes(octets) : octets \in write}
<1>1. CASE write = {}
  <2> DEFINE s == Given("read", v)
             E == {Named("read", v)}
             N == {"read"}
  <2>1. LargeBlobAuthenticationInput(write) = Object(1, s)
    BY <1>1 DEF LargeBlobAuthenticationInput
  <2>2. Listing(s, E, N, 1)
    BY ListingOne
  <2>3. Depth0(v)
    BY LeafReadable
  <2> HIDE DEF v
  <2>4. \A e \in E : Depth0(e.value)
    BY <2>3 DEF Named
  <2> HIDE DEF s, E, N
  <2> QED
    BY <2>1, <2>2, <2>4, ObjectListed DEF Depth1
<1>2. CASE write # {}
  <2> DEFINE s == IfSome("write", vs)
             E == Optional("write", vs)
             N == {"write"}
  <2>1. LargeBlobAuthenticationInput(write) = Object(1, s)
    BY <1>2 DEF LargeBlobAuthenticationInput
  <2>2. CountOf(vs) = 1 /\ \A u \in vs : Depth0(u)
    BY <1>2, LeafReadable DEF CountOf
  <2> HIDE DEF vs
  <2>3. Listing(s, E, N, 1)
    BY <2>2, ListingOptional
  <2>4. \A e \in E : Depth0(e.value)
    BY <2>2, IfSomeLists
  <2> HIDE DEF s, E, N
  <2> QED
    BY <2>1, <2>3, <2>4, ObjectListed DEF Depth1
<1> QED
  BY <1>1, <1>2

\* The extensions of a registration: as many as are asked for.
LEMMA RegistrationExtensionsReadable ==
    ASSUME NEW exts
    PROVE  Depth3(RegistrationExtensions(exts))
<1> DEFINE v1 == {Bool(b) : b \in exts.cred_props}
           v2 == {PrfInput(prf) : prf \in exts.prf}
           v3 == {LargeBlobRegistrationInput(s) : s \in exts.large_blob}
           v4 == {CredProtectInput(c) : c \in exts.cred_protect}
           v5 == {Bool(b) : b \in exts.min_pin_length}
           s1 == IfSome("credProps", v1)
           E1 == Optional("credProps", v1)
           N1 == {"credProps"}
           s2 == s1 \o IfSome("prf", v2)
           E2 == E1 \union Optional("prf", v2)
           N2 == N1 \union {"prf"}
           s3 == s2 \o IfSome("largeBlob", v3)
           E3 == E2 \union Optional("largeBlob", v3)
           N3 == N2 \union {"largeBlob"}
           s4 == s3 \o IfSome("credProtect", v4)
           E4 == E3 \union Optional("credProtect", v4)
           N4 == N3 \union {"credProtect"}
           s5 == s4 \o IfSome("minPinLength", v5)
           E5 == E4 \union Optional("minPinLength", v5)
           N5 == N4 \union {"minPinLength"}
           size == Present(<<exts.cred_props, exts.prf, exts.large_blob, exts.cred_protect,
                            exts.min_pin_length>>)
<1>1. RegistrationExtensions(exts) = Object(size, s5)
  BY DEF RegistrationExtensions
<1>2. size = CountOf(v1) + CountOf(v2) + CountOf(v3) + CountOf(v4) + CountOf(v5)
  BY PresentOf5 DEF CountOf
<1>3. /\ \A v \in v1 : Depth2(v)
      /\ \A v \in v2 : Depth2(v)
      /\ \A v \in v3 : Depth2(v)
      /\ \A v \in v4 : Depth2(v)
      /\ \A v \in v5 : Depth2(v)
  BY LeafReadable, PrfInputReadable, LargeBlobRegistrationInputReadable,
     CredProtectInputReadable, DeeperStill
<1> HIDE DEF size, v1, v2, v3, v4, v5
<1>4. Listing(s1, E1, N1, CountOf(v1))
  BY ListingOptional
<1> HIDE DEF s1
<1>5. Listing(s2, E2, N2, CountOf(v1) + CountOf(v2))
  BY <1>4, ListingAndOptional DEF CountOf
<1> HIDE DEF s2
<1>6. Listing(s3, E3, N3, CountOf(v1) + CountOf(v2) + CountOf(v3))
  BY <1>5, ListingAndOptional DEF CountOf
<1> HIDE DEF s3
<1>7. Listing(s4, E4, N4, CountOf(v1) + CountOf(v2) + CountOf(v3) + CountOf(v4))
  BY <1>6, ListingAndOptional DEF CountOf
<1> HIDE DEF s4
<1>8. Listing(s5, E5, N5, CountOf(v1) + CountOf(v2) + CountOf(v3) + CountOf(v4) + CountOf(v5))
  BY <1>7, ListingAndOptional DEF CountOf
<1>9. \A e \in E5 : Depth2(e.value)
  BY <1>3, IfSomeLists DEF Named
<1> HIDE DEF E5, N5, s5
<1> QED
  BY <1>1, <1>2, <1>8, <1>9, ObjectListed DEF Depth3

\* The extensions of an authentication.
LEMMA AuthenticationExtensionsReadable ==
    ASSUME NEW exts
    PROVE  Depth3(AuthenticationExtensions(exts))
<1> DEFINE v1 == {PrfInput(prf) : prf \in exts.prf}
           v2 == {LargeBlobAuthenticationInput(w) : w \in exts.large_blob}
           s1 == IfSome("prf", v1)
           E1 == Optional("prf", v1)
           N1 == {"prf"}
           s2 == s1 \o IfSome("largeBlob", v2)
           E2 == E1 \union Optional("largeBlob", v2)
           N2 == N1 \union {"largeBlob"}
           size == Present(<<exts.prf, exts.large_blob>>)
<1>1. AuthenticationExtensions(exts) = Object(size, s2)
  BY DEF AuthenticationExtensions
<1>2. size = CountOf(v1) + CountOf(v2)
  BY PresentOf2 DEF CountOf
<1>3. /\ \A v \in v1 : Depth2(v)
      /\ \A v \in v2 : Depth2(v)
  BY PrfInputReadable, LargeBlobAuthenticationInputReadable, DeeperStill
<1> HIDE DEF size, v1, v2
<1>4. Listing(s1, E1, N1, CountOf(v1))
  BY ListingOptional
<1> HIDE DEF s1
<1>5. Listing(s2, E2, N2, CountOf(v1) + CountOf(v2))
  BY <1>4, ListingAndOptional DEF CountOf
<1>6. \A e \in E2 : Depth2(e.value)
  BY <1>3, IfSomeLists DEF Named
<1> HIDE DEF E2, N2, s2
<1> QED
  BY <1>1, <1>2, <1>5, <1>6, ObjectListed DEF Depth3

\* A credential in a list, without transports.
LEMMA CredentialDescriptorReadable ==
    ASSUME NEW d, Depth0(d.id), d.transports = {}
    PROVE  Depth1(CredentialDescriptor(d))
<1> DEFINE v1 == Text("public-key")
           v2 == d.id
           v3 == {Array(transports) : transports \in d.transports}
           s1 == Given("type", v1)
           E1 == {Named("type", v1)}
           N1 == {"type"}
           s2 == s1 \o Given("id", v2)
           E2 == E1 \union {Named("id", v2)}
           N2 == N1 \union {"id"}
           s3 == s2 \o IfSome("transports", v3)
           E3 == E2 \union Optional("transports", v3)
           N3 == N2 \union {"transports"}
           size == IF d.transports # {} THEN 3 ELSE 2
<1>1. CredentialDescriptor(d) = Object(size, s3)
  BY DEF CredentialDescriptor
<1>2. size = 2 + CountOf(v3)
  BY DEF CountOf
<1>3. /\ Depth0(v1)
      /\ Depth0(v2)
      /\ \A v \in v3 : Depth0(v)
  BY LeafReadable
<1> HIDE DEF size, v1, v2, v3
<1>4. Listing(s1, E1, N1, 1)
  BY ListingOne
<1> HIDE DEF s1
<1>5. Listing(s2, E2, N2, 2)
  BY <1>4, ListingAnd
<1> HIDE DEF s2
<1>6. Listing(s3, E3, N3, 2 + CountOf(v3))
  BY <1>5, ListingAndOptional DEF CountOf
<1>7. \A e \in E3 : Depth0(e.value)
  BY <1>3, IfSomeLists DEF Named
<1> HIDE DEF E3, N3, s3
<1> QED
  BY <1>1, <1>2, <1>6, <1>7, ObjectListed DEF Depth1

\* An algorithm on offer.
LEMMA CredentialParametersReadable ==
    ASSUME NEW alg
    PROVE  LET param == Object(2, Given("type", Text("public-key")) \o Given("alg", Text(alg)))
           IN  Depth1(param) /\ Field(param, "alg") = {Text(alg)}
<1> DEFINE v1 == Text("public-key")
           v2 == Text(alg)
           s1 == Given("type", v1)
           E1 == {Named("type", v1)}
           N1 == {"type"}
           s2 == s1 \o Given("alg", v2)
           E2 == E1 \union {Named("alg", v2)}
           N2 == N1 \union {"alg"}
           size == 2
<1>1. Object(2, Given("type", Text("public-key")) \o Given("alg", Text(alg))) = Object(size, s2)
  BY DEF Given
<1>2. size = 2
  BY DEF CountOf
<1>3. /\ Depth0(v1)
      /\ Depth0(v2)
  BY LeafReadable
<1> HIDE DEF size, v1, v2
<1>4. Listing(s1, E1, N1, 1)
  BY ListingOne
<1> HIDE DEF s1
<1>5. Listing(s2, E2, N2, 2)
  BY <1>4, ListingAnd
<1>6. \A e \in E2 : Depth0(e.value)
  BY <1>3 DEF Named
<1>7. Named("alg", v2) \in E2 /\ \A e \in E2 : e.text = "alg" => e = Named("alg", v2)
  BY DEF Named
<1>8. v2 = Text(alg)
  BY DEF v2
<1> HIDE DEF E2, N2, s2
<1>9. Field(Object(size, s2), "alg") = {v2}
  BY <1>5, <1>7, FieldFound DEF Object, Listing
<1> QED
  BY <1>1, <1>2, <1>5, <1>6, <1>8, <1>9, ObjectListed DEF Depth1

\* The criteria for the authenticator.
LEMMA AuthenticatorSelectionReadable ==
    ASSUME NEW selection
    PROVE  Depth1(AuthenticatorSelection(selection))
<1> DEFINE v1 == {Text(a) : a \in selection.authenticator_attachment}
           v2 == {Text(key) : key \in selection.resident_key}
           v3 == Bool(selection.require_resident_key)
           v4 == Text(selection.user_verification)
           s1 == IfSome("authenticatorAttachment", v1)
           E1 == Optional("authenticatorAttachment", v1)
           N1 == {"authenticatorAttachment"}
           s2 == s1 \o IfSome("residentKey", v2)
           E2 == E1 \union Optional("residentKey", v2)
           N2 == N1 \union {"residentKey"}
           s3 == s2 \o Given("requireResidentKey", v3)
           E3 == E2 \union {Named("requireResidentKey", v3)}
           N3 == N2 \union {"requireResidentKey"}
           s4 == s3 \o Given("userVerification", v4)
           E4 == E3 \union {Named("userVerification", v4)}
           N4 == N3 \union {"userVerification"}
           size == 2 + Present(<<selection.authenticator_attachment, selection.resident_key>>)
<1>1. AuthenticatorSelection(selection) = Object(size, s4)
  BY DEF AuthenticatorSelection
<1>2. size = 2 + CountOf(v1) + CountOf(v2)
  BY PresentOf2 DEF CountOf
<1>3. /\ \A v \in v1 : Depth0(v)
      /\ \A v \in v2 : Depth0(v)
      /\ Depth0(v3)
      /\ Depth0(v4)
  BY LeafReadable
<1> HIDE DEF size, v1, v2, v3, v4
<1>4. Listing(s1, E1, N1, CountOf(v1))
  BY ListingOptional
<1> HIDE DEF s1
<1>5. Listing(s2, E2, N2, CountOf(v1) + CountOf(v2))
  BY <1>4, ListingAndOptional DEF CountOf
<1> HIDE DEF s2
<1>6. Listing(s3, E3, N3, 1 + CountOf(v1) + CountOf(v2))
  BY <1>5, ListingAnd DEF CountOf
<1> HIDE DEF s3
<1>7. Listing(s4, E4, N4, 2 + CountOf(v1) + CountOf(v2))
  BY <1>6, ListingAnd DEF CountOf
<1>8. \A e \in E4 : Depth0(e.value)
  BY <1>3, IfSomeLists DEF Named
<1> HIDE DEF E4, N4, s4
<1> QED
  BY <1>1, <1>2, <1>7, <1>8, ObjectListed DEF Depth1

\* The user, and the relying party.
LEMMA UserEntityReadable ==
    ASSUME NEW user, Depth0(user.id)
    PROVE  Depth1(UserEntity(user))
<1> DEFINE v1 == user.id
           v2 == Text(user.name)
           v3 == Text(user.display_name)
           s1 == Given("id", v1)
           E1 == {Named("id", v1)}
           N1 == {"id"}
           s2 == s1 \o Given("name", v2)
           E2 == E1 \union {Named("name", v2)}
           N2 == N1 \union {"name"}
           s3 == s2 \o Given("displayName", v3)
           E3 == E2 \union {Named("displayName", v3)}
           N3 == N2 \union {"displayName"}
           size == 3
<1>1. UserEntity(user) = Object(size, s3)
  BY DEF UserEntity
<1>2. size = 3
  BY DEF CountOf
<1>3. /\ Depth0(v1)
      /\ Depth0(v2)
      /\ Depth0(v3)
  BY LeafReadable
<1> HIDE DEF size, v1, v2, v3
<1>4. Listing(s1, E1, N1, 1)
  BY ListingOne
<1> HIDE DEF s1
<1>5. Listing(s2, E2, N2, 2)
  BY <1>4, ListingAnd
<1> HIDE DEF s2
<1>6. Listing(s3, E3, N3, 3)
  BY <1>5, ListingAnd
<1>7. \A e \in E3 : Depth0(e.value)
  BY <1>3 DEF Named
<1> HIDE DEF E3, N3, s3
<1> QED
  BY <1>1, <1>2, <1>6, <1>7, ObjectListed DEF Depth1

\* The relying party.
LEMMA RpEntityReadable ==
    ASSUME NEW id, NEW name
    PROVE  Depth1(Object(2, Given("id", Text(id)) \o Given("name", Text(name))))
<1> DEFINE v1 == Text(id)
           v2 == Text(name)
           s1 == Given("id", v1)
           E1 == {Named("id", v1)}
           N1 == {"id"}
           s2 == s1 \o Given("name", v2)
           E2 == E1 \union {Named("name", v2)}
           N2 == N1 \union {"name"}
           size == 2
<1>1. Object(2, Given("id", Text(id)) \o Given("name", Text(name))) = Object(size, s2)
  BY DEF Given
<1>2. size = 2
  BY DEF CountOf
<1>3. /\ Depth0(v1)
      /\ Depth0(v2)
  BY LeafReadable
<1> HIDE DEF size, v1, v2
<1>4. Listing(s1, E1, N1, 1)
  BY ListingOne
<1> HIDE DEF s1
<1>5. Listing(s2, E2, N2, 2)
  BY <1>4, ListingAnd
<1>6. \A e \in E2 : Depth0(e.value)
  BY <1>3 DEF Named
<1> HIDE DEF E2, N2, s2
<1> QED
  BY <1>1, <1>2, <1>5, <1>6, ObjectListed DEF Depth1

\* The offered algorithms, in any order.
LEMMA PubKeyCredParamsReadable ==
    ASSUME NEW algs
    PROVE  Depth2(PubKeyCredParamsJson(algs))
<1> DEFINE param(alg) == Object(2, Given("type", Text("public-key")) \o Given("alg", Text(alg)))
           elements == [i \in 1 .. Cardinality(algs) |-> param(SetToSeq(algs)[i])]
<1>1. PubKeyCredParamsJson(algs) = Array(elements)
  BY DEF PubKeyCredParamsJson
<1>2. \A alg : Depth1(param(alg))
  BY CredentialParametersReadable
<1> HIDE DEF param
<1>3. \A i \in DOMAIN elements : Depth1(elements[i])
  BY <1>2
<1> HIDE DEF elements
<1> QED
  BY <1>1, <1>3, ArrayReadable DEF Depth2

\* A set that is put in some order is listed in full, and nothing else is.
LEMMA AllListed ==
    ASSUME NEW S, IsFiniteSet(S)
    PROVE  /\ Cardinality(S) \in Nat
           /\ \A i \in 1 .. Cardinality(S) : SetToSeq(S)[i] \in S
           /\ \A v \in S : \E i \in 1 .. Cardinality(S) : SetToSeq(S)[i] = v
<1> DEFINE n == Cardinality(S)
           f == SetToSeq(S)
<1>1. n \in Nat /\ ExistsBijection(1 .. n, S)
  BY FS_CardinalityType
<1>2. PICK g \in [1 .. n -> S] : IsInjective(g)
  BY <1>1 DEF ExistsBijection, Bijection, Injection, IsInjective
<1>3. f \in [1 .. n -> S] /\ IsInjective(f)
  BY <1>2 DEF SetToSeq
<1> HIDE DEF f
<1>4. f \in Injection(1 .. n, S)
  BY <1>3 DEF Injection, IsInjective
<1>5. Cardinality(1 .. n) = n
  BY <1>1, FS_Interval
<1>6. f \in Surjection(1 .. n, S)
  BY <1>4, <1>5, FS_Injection
<1> QED
  BY <1>1, <1>3, <1>6 DEF Surjection, f

\* The algorithms in pubKeyCredParams: none is left out, and none is added.
LEMMA AllOffered ==
    ASSUME NEW options, NEW algs, IsFiniteSet(algs),
           Field(options, "pubKeyCredParams") = {PubKeyCredParamsJson(algs)}
    PROVE  Offered(options) = algs
<1> DEFINE param(alg) == Object(2, Given("type", Text("public-key")) \o Given("alg", Text(alg)))
           n == Cardinality(algs)
           elements == [i \in 1 .. n |-> param(SetToSeq(algs)[i])]
<1>1. PubKeyCredParamsJson(algs).elements = elements
  BY DEF PubKeyCredParamsJson, Array
<1>2. \A alg : Field(param(alg), "alg") = {Text(alg)} /\ Text(alg).text = alg
  BY CredentialParametersReadable DEF Text
<1> HIDE DEF param
<1>3. Range(elements) = {param(alg) : alg \in algs}
  BY AllListed DEF Range
<1> HIDE DEF elements
<1>4. Offered(options) = UNION {{v.text : v \in Field(q, "alg")} : q \in Range(elements)}
  BY <1>1 DEF Offered
<1>5. ASSUME NEW x PROVE x \in Offered(options) <=> x \in algs
  <2>1. x \in Offered(options) <=>
          \E q \in Range(elements) : x \in {v.text : v \in Field(q, "alg")}
    BY <1>4
  <2>2. x \in Offered(options) <=> \E alg \in algs : x \in {v.text : v \in Field(param(alg), "alg")}
    BY <1>3, <2>1
  <2>3. \A alg : x \in {v.text : v \in Field(param(alg), "alg")} <=> x = alg
    BY <1>2
  <2> QED
    BY <2>2, <2>3, Zenon
<1> QED
  BY <1>5

\* A list of credentials, as the ceremonies make them of identifiers.
LEMMA DescriptorsReadable ==
    ASSUME NEW ids, \A i \in DOMAIN ids : Depth0(ids[i])
    PROVE  Depth2(CredentialDescriptors(Descriptors(ids)))
<1> DEFINE ds == Descriptors(ids)
           elements == [i \in DOMAIN ds |-> CredentialDescriptor(ds[i])]
<1>1. CredentialDescriptors(Descriptors(ids)) = Array(elements)
  BY DEF CredentialDescriptors
<1>2. \A i \in DOMAIN ds : Depth0(ds[i].id) /\ ds[i].transports = {}
  BY DEF Descriptors
<1> HIDE DEF ds
<1>3. \A i \in DOMAIN elements : Depth1(elements[i])
  BY <1>2, CredentialDescriptorReadable
<1> HIDE DEF elements
<1> QED
  BY <1>1, <1>3, ArrayReadable DEF Depth2

\* The options of an authentication, the timeout in them and whether the user
\* is to be verified.
LEMMA AuthenticationOptionsReadable ==
    ASSUME NEW o, Depth0(o.challenge), Depth2(CredentialDescriptors(o.allow_credentials))
    PROVE  /\ Depth4(SerializeAuthenticationOptions(o))
           /\ Field(SerializeAuthenticationOptions(o), "timeout") = {Number(o.timeout_ms)}
           /\ Field(SerializeAuthenticationOptions(o), "userVerification") =
                {Text(o.user_verification)}
           /\ \A e : o.extensions = {e} =>
                 Field(SerializeAuthenticationOptions(o), "extensions") = {AuthenticationExtensions(e)}
<1> DEFINE v1 == o.challenge
           v2 == Number(o.timeout_ms)
           v3 == Text(o.rp_id)
           v4 == CredentialDescriptors(o.allow_credentials)
           v5 == Text(o.user_verification)
           v6 == {AuthenticationExtensions(e) : e \in o.extensions}
           s1 == Given("challenge", v1)
           E1 == {Named("challenge", v1)}
           N1 == {"challenge"}
           s2 == s1 \o Given("timeout", v2)
           E2 == E1 \union {Named("timeout", v2)}
           N2 == N1 \union {"timeout"}
           s3 == s2 \o Given("rpId", v3)
           E3 == E2 \union {Named("rpId", v3)}
           N3 == N2 \union {"rpId"}
           s4 == s3 \o Given("allowCredentials", v4)
           E4 == E3 \union {Named("allowCredentials", v4)}
           N4 == N3 \union {"allowCredentials"}
           s5 == s4 \o Given("userVerification", v5)
           E5 == E4 \union {Named("userVerification", v5)}
           N5 == N4 \union {"userVerification"}
           s6 == s5 \o IfSome("extensions", v6)
           E6 == E5 \union Optional("extensions", v6)
           N6 == N5 \union {"extensions"}
           size == 5 + (IF o.extensions # {} THEN 1 ELSE 0)
<1>1. SerializeAuthenticationOptions(o) = Object(size, s6)
  BY DEF SerializeAuthenticationOptions
<1>2. size = 5 + CountOf(v6)
  BY DEF CountOf
<1>3. /\ Depth3(v1)
      /\ Depth3(v2)
      /\ Depth3(v3)
      /\ Depth3(v4)
      /\ Depth3(v5)
      /\ \A v \in v6 : Depth3(v)
  BY LeafReadable, AuthenticationExtensionsReadable, DeeperStill
<1> HIDE DEF size, v1, v2, v3, v4, v5, v6
<1>4. Listing(s1, E1, N1, 1)
  BY ListingOne
<1> HIDE DEF s1
<1>5. Listing(s2, E2, N2, 2)
  BY <1>4, ListingAnd
<1> HIDE DEF s2
<1>6. Listing(s3, E3, N3, 3)
  BY <1>5, ListingAnd
<1> HIDE DEF s3
<1>7. Listing(s4, E4, N4, 4)
  BY <1>6, ListingAnd
<1> HIDE DEF s4
<1>8. Listing(s5, E5, N5, 5)
  BY <1>7, ListingAnd
<1> HIDE DEF s5
<1>9. Listing(s6, E6, N6, 5 + CountOf(v6))
  BY <1>8, ListingAndOptional DEF CountOf
<1>10. \A e \in E6 : Depth3(e.value)
  BY <1>3, IfSomeLists DEF Named
<1>11. v2 = Number(o.timeout_ms) /\ v5 = Text(o.user_verification)
  BY DEF v2, v5
<1>12. /\ Named("timeout", v2) \in E6
      /\ \A e \in E6 : e.text = "timeout" => e = Named("timeout", v2)
  BY IfSomeLists DEF Named, E1, E2, E3, E4, E5
<1>13. /\ Named("userVerification", v5) \in E6
       /\ \A e \in E6 : e.text = "userVerification" => e = Named("userVerification", v5)
  BY IfSomeLists DEF Named, E1, E2, E3, E4, E5
<1>17. ASSUME NEW e, o.extensions = {e}
       PROVE  /\ Named("extensions", AuthenticationExtensions(e)) \in E6
              /\ \A f \in E6 : f.text = "extensions" =>
                    f = Named("extensions", AuthenticationExtensions(e))
  <2>1. v6 = {AuthenticationExtensions(e)}
    BY <1>17 DEF v6
  <2>2. Optional("extensions", v6) = {Named("extensions", AuthenticationExtensions(e))}
    BY <2>1 DEF Optional
  <2> QED
    BY <2>2 DEF Named, E1, E2, E3, E4, E5
<1> HIDE DEF E6, N6, s6
<1>18. ASSUME NEW e, o.extensions = {e}
       PROVE  Field(Object(size, s6), "extensions") = {AuthenticationExtensions(e)}
  BY <1>9, <1>17, <1>18, FieldFound DEF Object, Listing
<1>14. Field(Object(size, s6), "timeout") = {v2}
  BY <1>9, <1>12, FieldFound DEF Object, Listing
<1>15. Field(Object(size, s6), "userVerification") = {v5}
  BY <1>9, <1>13, FieldFound DEF Object, Listing
<1>16. Depth4(Object(size, s6))
  BY <1>2, <1>9, <1>10, ObjectListed DEF Depth4
<1> QED
  BY <1>1, <1>11, <1>14, <1>15, <1>16, <1>18

\* The options of a registration, and the timeout in them.
LEMMA RegistrationOptionsReadable ==
    ASSUME NEW o, Depth0(o.challenge), Depth0(o.user.id),
           Depth2(CredentialDescriptors(o.exclude_credentials))
    PROVE  /\ Depth4(SerializeRegistrationOptions(o))
           /\ Field(SerializeRegistrationOptions(o), "timeout") = {Number(o.timeout_ms)}
           /\ Field(SerializeRegistrationOptions(o), "pubKeyCredParams") =
                {PubKeyCredParamsJson(o.pub_key_cred_params)}
           /\ \A e : o.extensions = {e} =>
                 Field(SerializeRegistrationOptions(o), "extensions") = {RegistrationExtensions(e)}
<1> DEFINE v1 == Object(2, Given("id", Text(o.rp_id)) \o Given("name", Text(o.rp_name)))
           v2 == UserEntity(o.user)
           v3 == o.challenge
           v4 == PubKeyCredParamsJson(o.pub_key_cred_params)
           v5 == Number(o.timeout_ms)
           v6 == CredentialDescriptors(o.exclude_credentials)
           v7 == Text(o.attestation)
           v8 == {AuthenticatorSelection(s) : s \in o.authenticator_selection}
           v9 == {RegistrationExtensions(e) : e \in o.extensions}
           s1 == Given("rp", v1)
           E1 == {Named("rp", v1)}
           N1 == {"rp"}
           s2 == s1 \o Given("user", v2)
           E2 == E1 \union {Named("user", v2)}
           N2 == N1 \union {"user"}
           s3 == s2 \o Given("challenge", v3)
           E3 == E2 \union {Named("challenge", v3)}
           N3 == N2 \union {"challenge"}
           s4 == s3 \o Given("pubKeyCredParams", v4)
           E4 == E3 \union {Named("pubKeyCredParams", v4)}
           N4 == N3 \union {"pubKeyCredParams"}
           s5 == s4 \o Given("timeout", v5)
           E5 == E4 \union {Named("timeout", v5)}
           N5 == N4 \union {"timeout"}
           s6 == s5 \o Given("excludeCredentials", v6)
           E6 == E5 \union {Named("excludeCredentials", v6)}
           N6 == N5 \union {"excludeCredentials"}
           s7 == s6 \o Given("attestation", v7)
           E7 == E6 \union {Named("attestation", v7)}
           N7 == N6 \union {"attestation"}
           s8 == s7 \o IfSome("authenticatorSelection", v8)
           E8 == E7 \union Optional("authenticatorSelection", v8)
           N8 == N7 \union {"authenticatorSelection"}
           s9 == s8 \o IfSome("extensions", v9)
           E9 == E8 \union Optional("extensions", v9)
           N9 == N8 \union {"extensions"}
           size == 7 + (IF o.authenticator_selection # {} THEN 1 ELSE 0)
                     + (IF o.extensions # {} THEN 1 ELSE 0)
<1>1. SerializeRegistrationOptions(o) = Object(size, s9)
  BY DEF SerializeRegistrationOptions
<1>2. size = 7 + CountOf(v8) + CountOf(v9)
  BY DEF CountOf
<1>3. /\ Depth3(v1)
      /\ Depth3(v2)
      /\ Depth3(v3)
      /\ Depth3(v4)
      /\ Depth3(v5)
      /\ Depth3(v6)
      /\ Depth3(v7)
      /\ \A v \in v8 : Depth3(v)
      /\ \A v \in v9 : Depth3(v)
  BY LeafReadable, RpEntityReadable, UserEntityReadable, PubKeyCredParamsReadable,
     AuthenticatorSelectionReadable, RegistrationExtensionsReadable, DeeperStill
<1> HIDE DEF size, v1, v2, v3, v4, v5, v6, v7, v8, v9
<1>4. Listing(s1, E1, N1, 1)
  BY ListingOne
<1> HIDE DEF s1
<1>5. Listing(s2, E2, N2, 2)
  BY <1>4, ListingAnd
<1> HIDE DEF s2
<1>6. Listing(s3, E3, N3, 3)
  BY <1>5, ListingAnd
<1> HIDE DEF s3
<1>7. Listing(s4, E4, N4, 4)
  BY <1>6, ListingAnd
<1> HIDE DEF s4
<1>8. Listing(s5, E5, N5, 5)
  BY <1>7, ListingAnd
<1> HIDE DEF s5
<1>9. Listing(s6, E6, N6, 6)
  BY <1>8, ListingAnd
<1> HIDE DEF s6
<1>10. Listing(s7, E7, N7, 7)
  BY <1>9, ListingAnd
<1> HIDE DEF s7
<1>11. Listing(s8, E8, N8, 7 + CountOf(v8))
  BY <1>10, ListingAndOptional DEF CountOf
<1> HIDE DEF s8
<1>12. Listing(s9, E9, N9, 7 + CountOf(v8) + CountOf(v9))
  BY <1>11, ListingAndOptional DEF CountOf
<1>13. \A e \in E9 : Depth3(e.value)
  BY <1>3, IfSomeLists DEF Named
<1>14. v5 = Number(o.timeout_ms) /\ v4 = PubKeyCredParamsJson(o.pub_key_cred_params)
  BY DEF v4, v5
<1>15. /\ Named("timeout", v5) \in E9
      /\ \A e \in E9 : e.text = "timeout" => e = Named("timeout", v5)
  BY IfSomeLists DEF Named, E1, E2, E3, E4, E5, E6, E7, E8
<1>16. /\ Named("pubKeyCredParams", v4) \in E9
       /\ \A e \in E9 : e.text = "pubKeyCredParams" => e = Named("pubKeyCredParams", v4)
  BY IfSomeLists DEF Named, E1, E2, E3, E4, E5, E6, E7, E8
<1>20. ASSUME NEW e, o.extensions = {e}
       PROVE  /\ Named("extensions", RegistrationExtensions(e)) \in E9
              /\ \A f \in E9 : f.text = "extensions" =>
                    f = Named("extensions", RegistrationExtensions(e))
  <2>1. v9 = {RegistrationExtensions(e)}
    BY <1>20 DEF v9
  <2>2. Optional("extensions", v9) = {Named("extensions", RegistrationExtensions(e))}
    BY <2>1 DEF Optional
  <2> QED
    BY <2>2, IfSomeLists DEF Named, E1, E2, E3, E4, E5, E6, E7, E8
<1> HIDE DEF E9, N9, s9
<1>21. ASSUME NEW e, o.extensions = {e}
       PROVE  Field(Object(size, s9), "extensions") = {RegistrationExtensions(e)}
  BY <1>12, <1>20, <1>21, FieldFound DEF Object, Listing
<1>17. Field(Object(size, s9), "timeout") = {v5}
  BY <1>12, <1>15, FieldFound DEF Object, Listing
<1>18. Field(Object(size, s9), "pubKeyCredParams") = {v4}
  BY <1>12, <1>16, FieldFound DEF Object, Listing
<1>19. Depth4(Object(size, s9))
  BY <1>2, <1>12, <1>13, ObjectListed DEF Depth4
<1> QED
  BY <1>1, <1>14, <1>17, <1>18, <1>19, <1>21


-----------------------------------------------------------------------------
(***************************************************************************)
(* A configuration that is less strict accepts what the stricter accepts.  *)
(* Every check of a ceremony reads the configuration on one side only.     *)
(***************************************************************************)

\* The checks before the single-use set.
LEMMA LenientBinding ==
    ASSUME NEW p, NEW q, AtLeastAsStrict(p, q), p.max_age \in Int, q.max_age \in Int,
           NEW ceremony, NEW challenge, challenge.created_at \in Int, NEW cd, NEW now \in Int,
           BindingAnswer(p, ceremony, challenge, cd, now) = Ok
    PROVE  BindingAnswer(q, ceremony, challenge, cd, now) = Ok
<1>1. ~IsExpired(challenge.created_at, now, p.max_age)
  BY DEF BindingAnswer, Ok
<1>2. ~IsExpired(challenge.created_at, now, q.max_age)
  BY <1>1 DEF IsExpired, AtLeastAsStrict
<1>3. /\ cd.form \notin {"malformed", "bad_base64"} /\ cd.type = ceremony
      /\ cd.challenge = challenge.bytes /\ cd.origin \in p.allowed_origins
      /\ ~(p.reject_cross_origin /\ cd.cross_origin)
  BY DEF BindingAnswer, Ok
<1>4. cd.origin \in q.allowed_origins /\ ~(q.reject_cross_origin /\ cd.cross_origin)
  BY <1>3 DEF AtLeastAsStrict
<1> QED
  BY <1>2, <1>3, <1>4 DEF BindingAnswer

\* The policies on backup eligibility.
LEMMA LenientBackupPolicy ==
    ASSUME NEW p, NEW q, AtLeastAsStrict(p, q), NEW ad, BackupPolicyAnswer(p, ad) = Ok
    PROVE  BackupPolicyAnswer(q, ad) = Ok
<1>1. /\ ~(p.reject_backup_eligible /\ ad.backup_eligible)
      /\ ~(p.require_backup_eligible /\ ~ad.backup_eligible)
  BY DEF BackupPolicyAnswer, Ok
<1>2. /\ ~(q.reject_backup_eligible /\ ad.backup_eligible)
      /\ ~(q.require_backup_eligible /\ ~ad.backup_eligible)
  BY <1>1 DEF AtLeastAsStrict
<1> QED
  BY <1>2 DEF BackupPolicyAnswer

\* An authenticator that q reports compromised is one that p does.
LEMMA LenientMetadata ==
    ASSUME NEW p, NEW q, AtLeastAsStrict(p, q), NEW aaguid, Compromised(q, aaguid)
    PROVE  Compromised(p, aaguid)
BY DEF AtLeastAsStrict, Compromised

\* A key of a type that can be used, under an algorithm that p allows, is
\* under one that p offers, so that q offers it and allows it too.
LEMMA LenientAlgorithm ==
    ASSUME NEW p, NEW q, AtLeastAsStrict(p, q), NEW key, Convertible(key),
           Allowed(p, CoseAlg(key))
    PROVE  Allowed(q, CoseAlg(key))
<1>1. CoseAlg(key) \in {"ES256", "ES384", "EdDSA", "RS256"}
  BY DEF Convertible, CoseAlg
<1>2. CoseAlg(key) \in PubKeyCredParams(p)
  BY <1>1 DEF Allowed, PubKeyCredParams
<1>3. CoseAlg(key) \in PubKeyCredParams(q)
  BY <1>2 DEF AtLeastAsStrict
<1> QED
  BY <1>3 DEF Allowed, PubKeyCredParams

\* Registration after the single-use set.
LEMMA LenientRegistrationBody ==
    ASSUME NEW p, NEW q, AtLeastAsStrict(p, q), NEW response,
           RegistrationBodyAnswer(p, response) = Ok
    PROVE  RegistrationBodyAnswer(q, response) = Ok
<1> DEFINE ad == response.auth_data
<1>1. /\ response.parse = Ok /\ PresenceAnswer(p.id, ad) = Ok
      /\ BackupPolicyAnswer(p, ad) = Ok /\ ad.attested # {}
      /\ ~\E cred \in ad.attested : Compromised(p, cred.aaguid)
      /\ ~\E cred \in ad.attested : ~Allowed(p, CoseAlg(cred.public_key))
      /\ ~\E cred \in ad.attested : ~Convertible(cred.public_key)
      /\ response.attestation = Ok
  BY DEF RegistrationBodyAnswer, Ok
<1>2. PresenceAnswer(q.id, ad) = Ok
  BY <1>1 DEF AtLeastAsStrict
<1>3. BackupPolicyAnswer(q, ad) = Ok
  BY <1>1, LenientBackupPolicy
<1>4. ~\E cred \in ad.attested : Compromised(q, cred.aaguid)
  BY <1>1, LenientMetadata
<1>5. ~\E cred \in ad.attested : ~Allowed(q, CoseAlg(cred.public_key))
  BY <1>1, LenientAlgorithm
<1> QED
  BY <1>1, <1>2, <1>3, <1>4, <1>5 DEF RegistrationBodyAnswer

\* Authentication after the single-use set.
LEMMA LenientAuthenticationBody ==
    ASSUME NEW p, NEW q, AtLeastAsStrict(p, q), NEW credential, NEW response,
           AuthenticationBodyAnswer(p, credential, response) = Ok
    PROVE  AuthenticationBodyAnswer(q, credential, response) = Ok
<1> DEFINE ad == response.auth_data
<1>1. /\ PresenceAnswer(credential.rp_id, ad) = Ok
      /\ ~(p.require_user_verification /\ ~ad.user_verified)
      /\ BackupPolicyAnswer(p, ad) = Ok
      /\ ad.backup_eligible = credential.backup_eligible
      /\ VerifySignature(credential, response)
      /\ ~SignCountInvalid(credential.sign_count, ad.sign_count)
  BY DEF AuthenticationBodyAnswer, Ok
<1>2. ~(q.require_user_verification /\ ~ad.user_verified)
  BY <1>1 DEF AtLeastAsStrict
<1>3. BackupPolicyAnswer(q, ad) = Ok
  BY <1>1, LenientBackupPolicy
<1> QED
  BY <1>1, <1>2, <1>3 DEF AuthenticationBodyAnswer

\* The two ceremonies.
LEMMA LenientCeremonies ==
    ASSUME NEW p \in Policies, NEW q \in Policies, AtLeastAsStrict(p, q),
           NEW response, NEW now \in Int
    PROVE  /\ VerifyRegistration(p, Challenge, response, now) = Ok =>
                VerifyRegistration(q, Challenge, response, now) = Ok
           /\ \A credential :
                VerifyAuthentication(p, credential, Challenge, response, now) = Ok =>
                  VerifyAuthentication(q, credential, Challenge, response, now) = Ok
<1>1. /\ p.max_age \in Int /\ q.max_age \in Int /\ Challenge.created_at \in Int
  BY PoliciesAssumption DEF Challenge, IssuedAt
<1>2. \A ceremony :
         BindingAnswer(p, ceremony, Challenge, response.client_data, now) = Ok =>
           BindingAnswer(q, ceremony, Challenge, response.client_data, now) = Ok
  BY <1>1, LenientBinding
<1>3. ASSUME VerifyRegistration(p, Challenge, response, now) = Ok
      PROVE  VerifyRegistration(q, Challenge, response, now) = Ok
  BY <1>2, <1>3, RegistrationVerdict, LenientRegistrationBody
<1>4. ASSUME NEW credential, VerifyAuthentication(p, credential, Challenge, response, now) = Ok
      PROVE  VerifyAuthentication(q, credential, Challenge, response, now) = Ok
  BY <1>2, <1>4, AuthenticationVerdict, LenientAuthenticationBody
<1> QED
  BY <1>3, <1>4

-----------------------------------------------------------------------------
(***************************************************************************)
(* What the parsers answer for the responses of an authenticator.          *)
(***************************************************************************)

\* What the authenticator data of a response is answered with.
LEMMA ReadBackParse ==
    ASSUME NEW s
    PROVE  ReadBack(s).parse \in ParserVerdicts
<1> DEFINE octets == AuthenticatorDataOf(Devices[s.device], s)
           parsed == ParseAuthenticatorData(octets)
<1>1. ReadBack(s) = AsUsed(parsed, octets)
  BY DEF ReadBack, AuthDataOf
<1>2. parsed.verdict \in ParserVerdicts
  BY AuthenticatorDataVerdicts
<1> HIDE DEF octets, parsed
<1>3. AsUsed(parsed, octets).parse = parsed.verdict
  BY DEF AsUsed, Unread
<1> QED
  BY <1>1, <1>2, <1>3

\* And so an assertion's.
LEMMA AssertionParse ==
    ASSUME NEW s \in DOMAIN AssertionResponses
    PROVE  AssertionResponses[s].auth_data.parse \in ParserVerdicts
<1> DEFINE ad == ReadBack(s)
<1>1. AssertionResponses[s] = AssertionOf(s, ad, ClientData(s))
  BY DEF AssertionResponses, AssertionResponse
<1>2. ad.parse \in ParserVerdicts
  BY ReadBackParse
<1> HIDE DEF ad
<1>3. AssertionOf(s, ad, ClientData(s)).auth_data = ad
  BY DEF AssertionOf
<1> QED
  BY <1>1, <1>2, <1>3

-----------------------------------------------------------------------------
(***************************************************************************)
(* The responses: what the library reads is what the authenticator wrote,  *)
(* or it is refused.                                                       *)
(***************************************************************************)

\* The fields of an answer.
LEMMA AnswerIs ==
    ASSUME NEW create \in BOOLEAN, NEW s \in Answers(create)
    PROVE  /\ s.device \in DOMAIN Devices /\ s.create = create /\ s.rp_id = "example.com"
           /\ s.verified \in BOOLEAN /\ s.backup_state \in BOOLEAN
           /\ s.backup_state => Devices[s.device].backup_eligible
           /\ s.count \in 0 .. MaxCount
           /\ s.fault \in FaultsOf(s.device, create) \union {"none"}
           /\ s.fault # "none" => s.outputs = <<>>
<1>1. PICK d \in DOMAIN Devices : s \in AnswersOf(d, create)
  BY Zenon DEF Answers
<1>2. /\ BackupStates(d) \subseteq BOOLEAN /\ Counts(d) \subseteq 0 .. MaxCount
      /\ TRUE \in BackupStates(d) => Devices[d].backup_eligible
  <2>1. /\ BackupStates(d) \subseteq BOOLEAN
        /\ TRUE \in BackupStates(d) => Devices[d].backup_eligible
    BY DEF BackupStates
  <2>2. {0} \subseteq 0 .. MaxCount
    BY CounterAssumption
  <2>3. Counts(d) \subseteq 0 .. MaxCount
    BY <2>2, Zenon DEF Counts
  <2> QED
    BY <2>1, <2>3
<1>3. CASE s \in {Answer(d, create, verified, backup_state, cross_origin, count, f, <<>>) :
                    verified, cross_origin \in BOOLEAN, backup_state \in BackupStates(d),
                    count \in Counts(d), f \in FaultsOf(d, create)}
  <2>1. PICK verified, cross_origin \in BOOLEAN, backup_state \in BackupStates(d),
             count \in Counts(d), f \in FaultsOf(d, create) :
           s = Answer(d, create, verified, backup_state, cross_origin, count, f, <<>>)
    BY <1>3
  <2> QED
    BY <1>2, <2>1 DEF Answer
<1>4. CASE s \in {Answer(d, create, verified, backup_state, cross_origin, count, "none", outputs) :
                    verified, cross_origin \in BOOLEAN, backup_state \in BackupStates(d),
                    count \in Counts(d), outputs \in Outputs(create)}
  <2>1. PICK verified, cross_origin \in BOOLEAN, backup_state \in BackupStates(d),
             count \in Counts(d), outputs \in Outputs(create) :
           s = Answer(d, create, verified, backup_state, cross_origin, count, "none", outputs)
    BY <1>4
  <2> QED
    BY <1>2, <2>1 DEF Answer
<1> QED
  BY <1>1, <1>3, <1>4 DEF AnswersOf

\* What a device writes for an answer.
DataOf(d, s) ==
    [ rp_id           |-> IF s.fault = "rp_id" THEN "elsewhere" ELSE s.rp_id,
      user_present    |-> s.fault # "absent_user",
      user_verified   |-> s.verified,
      backup_eligible |-> d.backup_eligible # (s.fault = "eligibility"),
      backup_state    |-> s.backup_state,
      sign_count      |-> s.count,
      attested        |-> IF s.create /\ s.fault # "no_key"
                          THEN {[ aaguid |-> d.aaguid, id |-> CredentialId,
                                  key |-> CredentialKey(d) ]}
                          ELSE {},
      extensions      |-> IF s.outputs = <<>> THEN {} ELSE {Item(CborMap(s.outputs))} ]

\* The encoded key of a device.
LEMMA CredentialKeyIs ==
    ASSUME NEW d \in DOMAIN Devices
    PROVE  CredentialKey(Devices[d]).len = ItemOctets
<1>1. Devices[d].alg \in {"ES256", "ES384", "EdDSA", "RS256"}
  BY DevicesAssumption DEF CoseNumbers
<1> QED
  BY <1>1 DEF CredentialKey, EncodeEs256CoseKey, EncodeEs384CoseKey, EncodeEddsaCoseKey,
              EncodedRsa, EncodeRs256CoseKey, Item

\* It can be written.
LEMMA DataWritten ==
    ASSUME NEW create \in BOOLEAN, NEW s \in Answers(create)
    PROVE  Encodable(DataOf(Devices[s.device], s))
<1> DEFINE d == Devices[s.device]
           data == DataOf(d, s)
<1>1. /\ s.device \in DOMAIN Devices /\ s.create = create
      /\ s.verified \in BOOLEAN /\ s.backup_state \in BOOLEAN /\ s.count \in 0 .. MaxCount
  BY AnswerIs
<1>2. s.count \in Nat
  BY <1>1, CounterAssumption
<1>3. Aaguid(d.aaguid) /\ d.backup_eligible \in BOOLEAN
  BY <1>1, DevicesAssumption DEF Aaguid
<1>4. Identifier(CredentialId)
  <2>1. Octets(16, 30) \in Seq({Octet(30)}) /\ Len(Octets(16, 30)) = 16
    BY OctetsAre
  <2>2. {Octet(30)} \subseteq PlainOctets
    BY DEF Octet, PlainOctets
  <2>3. Octets(16, 30) \in Seq(PlainOctets)
    BY <2>1, <2>2, SeqMonotonic
  <2>4. 16 > 0 /\ 16 <= 1023
    OBVIOUS
  <2>5. Len(Octets(16, 30)) > 0 /\ Len(Octets(16, 30)) <= 1023
    BY <2>1, <2>4, Zenon
  <2> QED
    BY <2>3, <2>5, Zenon DEF Identifier, CredentialId
<1>5. CredentialKey(d).len \in Nat /\ CredentialKey(d).len > 1
  BY <1>1, CredentialKeyIs DEF ItemOctets
<1>6. \A outputs : Item(CborMap(outputs)).len \in Nat \ {0}
  BY DEF Item, ItemOctets
<1> HIDE DEF d
<1>7. /\ data.user_present \in BOOLEAN /\ data.user_verified \in BOOLEAN
      /\ data.backup_eligible \in BOOLEAN /\ data.backup_state \in BOOLEAN
      /\ data.sign_count \in Nat
  BY <1>1, <1>2, <1>3 DEF DataOf
<1>8. \A c \in data.attested : /\ data.attested = {c} /\ Aaguid(c.aaguid) /\ Identifier(c.id)
                               /\ c.key.len \in Nat /\ c.key.len > 1
  BY <1>3, <1>4, <1>5 DEF DataOf
<1>9. \A e \in data.extensions : data.extensions = {e} /\ e.len \in Nat \ {0}
  BY <1>6 DEF DataOf
<1> HIDE DEF data
<1>10. Encodable(data)
  BY <1>7, <1>8, <1>9 DEF Encodable
<1> QED
  BY <1>10 DEF data, d

\* What is read of an answer that parses: every field is the one written.
LEMMA ReadBackIs ==
    ASSUME NEW create \in BOOLEAN, NEW s \in Answers(create), ReadBack(s).parse = Ok
    PROVE  /\ s.fault # "malformed"
           /\ ReadBack(s).rp_id = IF s.fault = "rp_id" THEN "elsewhere" ELSE "example.com"
           /\ ReadBack(s).user_present = (s.fault # "absent_user")
           /\ ReadBack(s).user_verified = s.verified
           /\ ReadBack(s).backup_eligible =
                (Devices[s.device].backup_eligible # (s.fault = "eligibility"))
           /\ ReadBack(s).backup_state = s.backup_state
           /\ ReadBack(s).sign_count = s.count
           /\ ReadBack(s).attested = AttestedAsRead(DataOf(Devices[s.device], s))
           /\ \A c \in DataOf(Devices[s.device], s).attested :
                 FirstError(ParseCoseKey(c.key.value)) = Ok
<1> DEFINE d == Devices[s.device]
           data == DataOf(d, s)
           octets == AuthenticatorDataOf(d, s)
           parsed == ParseAuthenticatorData(octets)
<1>1. Encodable(data)
  BY DataWritten
<1>2. octets = Sent(s.fault, Encode(data))
  BY DEF AuthenticatorDataOf, DataOf
<1>3. ReadBack(s) = AsUsed(parsed, octets)
  BY DEF ReadBack, AuthDataOf
<1>4. data.extensions = IF s.outputs = <<>> THEN {} ELSE {Item(CborMap(s.outputs))}
  BY DEF DataOf
<1>5. /\ data.rp_id = IF s.fault = "rp_id" THEN "elsewhere" ELSE "example.com"
      /\ data.user_present = (s.fault # "absent_user") /\ data.user_verified = s.verified
      /\ data.backup_eligible = (d.backup_eligible # (s.fault = "eligibility"))
      /\ data.backup_state = s.backup_state /\ data.sign_count = s.count
  BY AnswerIs DEF DataOf
<1> HIDE DEF octets, data, d
<1> HIDE DEF parsed
<1>6. parsed.verdict = Ok
  BY <1>3 DEF AsUsed, Unread
<1>7. s.fault # "malformed"
  <2> SUFFICES ASSUME s.fault = "malformed" PROVE FALSE
    OBVIOUS
  <2>1. data.extensions = {}
    BY <1>4, AnswerIs
  <2>2. octets = Front(Encode(data))
    BY <1>2 DEF Sent
  <2> QED
    BY <1>1, <1>6, <2>1, <2>2, TruncatedRefused DEF parsed
<1>8. octets = Encode(data)
  BY <1>2, <1>7 DEF Sent
<1>9. \A c \in data.attested : FirstError(ParseCoseKey(c.key.value)) = Ok
  BY <1>1, <1>6, <1>8, WrittenParsed DEF parsed
<1>10. PICK hash, extensions :
          /\ hash[1].item = {RpIdHash(data.rp_id)}
          /\ parsed.value = {[ rp_id           |-> hash,
                               user_present    |-> data.user_present,
                               user_verified   |-> data.user_verified,
                               backup_eligible |-> data.backup_eligible,
                               backup_state    |-> data.backup_state,
                               sign_count      |-> data.sign_count,
                               attested        |-> AttestedAsRead(data),
                               extensions      |-> extensions ]}
  BY <1>1, <1>6, <1>8, WrittenParsed DEF parsed
<1> DEFINE v == [ rp_id           |-> hash,
                  user_present    |-> data.user_present,
                  user_verified   |-> data.user_verified,
                  backup_eligible |-> data.backup_eligible,
                  backup_state    |-> data.backup_state,
                  sign_count      |-> data.sign_count,
                  attested        |-> AttestedAsRead(data),
                  extensions      |-> extensions ]
           used == [v EXCEPT !.rp_id = (The(@[1].item)).value.of]
<1>11. The(parsed.value) = v /\ parsed.value # {}
  BY <1>10, TheOnly
<1>12. /\ used.rp_id = (The(hash[1].item)).value.of
       /\ used.user_present = data.user_present /\ used.user_verified = data.user_verified
       /\ used.backup_eligible = data.backup_eligible
       /\ used.backup_state = data.backup_state
       /\ used.sign_count = data.sign_count /\ used.attested = AttestedAsRead(data)
  OBVIOUS
<1>13. used.rp_id = data.rp_id
  <2>1. The(hash[1].item) = RpIdHash(data.rp_id)
    BY <1>10, TheOnly
  <2> QED
    BY <1>12, <2>1 DEF RpIdHash
<1>14. (IF parsed.value = {} THEN Unread
        ELSE [The(parsed.value) EXCEPT !.rp_id = (The(@[1].item)).value.of]) = used
  BY <1>11
<1> HIDE DEF used
<1>15. \A name \in DOMAIN Unread : ReadBack(s)[name] = used[name]
  BY <1>3, <1>14 DEF AsUsed
<1>16. /\ ReadBack(s).rp_id = used.rp_id /\ ReadBack(s).user_present = used.user_present
       /\ ReadBack(s).user_verified = used.user_verified
       /\ ReadBack(s).backup_eligible = used.backup_eligible
       /\ ReadBack(s).backup_state = used.backup_state
       /\ ReadBack(s).sign_count = used.sign_count /\ ReadBack(s).attested = used.attested
  BY <1>15 DEF Unread
<1> QED
  BY <1>5, <1>7, <1>9, <1>12, <1>13, <1>16 DEF data, d

-----------------------------------------------------------------------------
(***************************************************************************)
(* The faults: each is found by one of the checks.                         *)
(***************************************************************************)

\* When a response to the current question can come.
Timely(p, f, now) ==
    /\ now \in Int
    /\ f = "stale" => now = IssuedAt + p.max_age
    /\ f = "clock_back" => now = IssuedAt - 1
    /\ f \notin {"stale", "clock_back"} => now = IssuedAt + (Timeout - 1)

\* Before the single-use set: the age and the client data.
LEMMA BindingFaults ==
    ASSUME NEW p \in Policies, NEW s, NEW now, Timely(p, s.fault, now),
           NEW ceremony \in {"webauthn.create", "webauthn.get"},
           BindingAnswer(p, ceremony, Challenge, ClientData(s), now) = Ok
    PROVE  s.fault \notin {"stale", "clock_back", "json", "type", "challenge", "origin"}
<1> DEFINE cd == ClientData(s)
<1>1. /\ ~IsExpired(Challenge.created_at, now, p.max_age)
      /\ cd.form # "malformed" /\ cd.type = ceremony
      /\ cd.challenge = Challenge.bytes /\ cd.origin \in p.allowed_origins
  BY DEF BindingAnswer, Ok
<1>2. p.max_age \in Nat /\ "https://elsewhere" \notin p.allowed_origins
  BY PoliciesAssumption
<1>3. Challenge.bytes = "current" /\ Challenge.created_at = 1 /\ IssuedAt = 1
  BY DEF Challenge, IssuedAt
<1>4. s.fault # "stale" /\ s.fault # "clock_back"
  BY <1>1, <1>2, <1>3 DEF Timely, IsExpired
<1>5. s.fault # "json"
  BY <1>1 DEF ClientData
<1>6. s.fault # "type"
  BY <1>1 DEF ClientData
<1>7. s.fault # "challenge"
  BY <1>1, <1>3 DEF ClientData
<1>8. s.fault # "origin"
  BY <1>1, <1>2 DEF ClientData
<1> QED
  BY <1>4, <1>5, <1>6, <1>7, <1>8

\* The relying party's identifier, the user's presence and the octets.
LEMMA PresenceFaults ==
    ASSUME NEW create \in BOOLEAN, NEW s \in Answers(create), NEW rp_id, rp_id # "elsewhere",
           PresenceAnswer(rp_id, ReadBack(s)) = Ok
    PROVE  ReadBack(s).parse = Ok /\ s.fault \notin {"malformed", "rp_id", "absent_user"}
<1>1. /\ ReadBack(s).parse = Ok /\ ReadBack(s).rp_id = rp_id /\ ReadBack(s).user_present
  BY DEF PresenceAnswer, Ok
<1> QED
  BY <1>1, ReadBackIs

\* A signature that is not by the credential's key.
LEMMA OtherKey ==
    ASSUME NEW map, FirstError(ParseCoseKey(map)) = Ok
    PROVE  LET key == CoseKey(map)
           IN  Used(key, "signature").id # key.id /\ Used(key, "signature") # key
<1> DEFINE key == CoseKey(map)
           other == Used(key, "signature")
<1>1. key.id[-2] # {}
  BY KeyVerdicts DEF CoseKey
<1>2. other.id[-2] = {}
  BY DEF Used, CoseKey
<1> HIDE DEF key, other
<1>3. other.id # key.id /\ other # key
  BY <1>1, <1>2
<1> QED
  BY <1>3 DEF key, other

\* The statement of a self attestation.
SelfStatement(alg, sig) ==
    Statement(CborMap(<< Named("alg", alg), Named("sig", Bytes(Cbor(Item(sig)))) >>))

\* It is taken apart as it was put together.
LEMMA StatementIs ==
    ASSUME NEW alg, NEW sig
    PROVE  LET stmt == SelfStatement(alg, sig)
           IN  /\ stmt.form = "map" /\ stmt.ill_typed = {} /\ stmt.x5c = {} /\ stmt.sig = {sig}
               /\ stmt.alg = AlgName(alg.int)
<1> DEFINE item == Item(sig)
           e == << Named("alg", alg), Named("sig", Bytes(Cbor(item))) >>
           map == CborMap(e)
<1>1. Range(e) = {e[1], e[2]} /\ e[1].text = "alg" /\ e[2].text = "sig"
      /\ e[1].value = alg /\ e[2].value = Bytes(Cbor(item))
  BY DEF Named, Range
<1>2. Cbor(item)[1].item = {item}
  <2>1. item.len \in Nat \ {0}
    BY DEF Item, ItemOctets
  <2> HIDE DEF item
  <2> QED
    BY <2>1, ItemAlone
<1>3. item.value = sig
  BY DEF Item
<1>4. map.entries = e /\ map.type = "map"
  BY DEF CborMap
<1>5. /\ Statement(map).x5c = {} /\ Statement(map).form = map.type
      /\ Statement(map).ill_typed = {}
  BY DEF Statement
<1>0. Statement(map).alg = UNION {AlgName(v.int) : v \in Field(map, "alg")}
  BY DEF Statement
<1>6. Statement(map).sig = UNION {{i.value : i \in v.octets[1].item} : v \in Field(map, "sig")}
  BY DEF Statement
<1> HIDE DEF item, e, map
<1>7. Field(map, "sig") = {Bytes(Cbor(item))} /\ Field(map, "alg") = {alg}
  BY <1>1, <1>4 DEF Field
<1>12. Statement(map).alg = AlgName(alg.int)
  BY <1>0, <1>7
<1>8. Bytes(Cbor(item)).octets = Cbor(item)
  BY DEF Bytes
<1> DEFINE v == Bytes(Cbor(item))
<1>9. v.octets[1].item = {item}
  BY <1>2, <1>8
<1> HIDE DEF v
<1>10. Statement(map).sig = {i.value : i \in v.octets[1].item}
  BY <1>6, <1>7 DEF v
<1>11. Statement(map).sig = {sig}
  BY <1>3, <1>9, <1>10
<1> QED
  BY <1>4, <1>5, <1>11, <1>12 DEF map, e, item, SelfStatement

\* What attestation::verify answers for a self attestation.
LEMMA SelfAttestationTyped ==
    ASSUME NEW a, a.fmt = "packed", a.stmt.x5c = {}
    PROVE  Graded(Statements!Verify(a, {})) \in Verdicts
<1> DEFINE key == a.auth_data.public_key
           own == Statements!The(a.stmt.alg)
           c1 == Statements!Check(own # Statements!CoseAlg(key), "InvalidAttestationObject")
           c2 == Statements!Check(own \notin {"ES256", "EdDSA", "RS256"}, "UnsupportedAlgorithm")
           c3 == Statements!Verifies(key.id, own, Statements!ToBeSigned(a),
                                     Statements!The(a.stmt.sig))
<1>1. c1 \in Checks(Verdicts) /\ c2 \in Checks(Verdicts) /\ c3 \in Checks(Verdicts)
  BY DEF Statements!Verifies, Statements!Check, Checks, Verdicts, WebAuthnErrors, Ok
<1>2. Statements!VerifyPackedSelf(a) = Statements!Then(<<c1, c2, c3>>, "SelfAttestation")
  BY DEF Statements!VerifyPackedSelf
<1> HIDE DEF c1, c2, c3
<1> DEFINE checks == <<c1, c2, c3>>
<1>3. checks \in Lines(Verdicts)
  BY <1>1, FirstErrorOf3
<1> HIDE DEF checks
<1>4. FirstError(checks) \in Verdicts
  BY <1>3, FirstErrorType DEF Verdicts
<1>5. Statements!FirstError(checks) = FirstError(checks)
  BY DEF Statements!FirstError, FirstError, Statements!SelectInSeq, SelectInSeq,
         Statements!Min, Min, Statements!Ok, Ok
<1>6. Statements!VerifyPackedSelf(a) \in Verdicts \union {"SelfAttestation"}
  BY <1>2, <1>4, <1>5 DEF Statements!Then, checks
<1>7. Statements!VerifyPacked(a, {}) \in Verdicts \union {"SelfAttestation"}
  BY <1>6 DEF Statements!VerifyPacked, Verdicts, WebAuthnErrors
<1>8. Statements!Verify(a, {}) = Statements!VerifyPacked(a, {})
  BY DEF Statements!Verify
<1> QED
  BY <1>7, <1>8 DEF Graded, Statements!AttestationTypes, Verdicts, Ok

\* An authenticator's key is read with the algorithm that it was made for, and
\* becomes a typed one.
LEMMA KeyAlgorithm ==
    ASSUME NEW d, d.alg \in DOMAIN CoseNumbers
    PROVE  LET key == CoseKey(CredentialKey(d).value)
           IN  CoseAlg(key) = d.alg /\ Convertible(key)
<1> DEFINE map == CredentialKey(d).value
<1>1. d.alg \in {"ES256", "ES384", "EdDSA", "RS256"}
  BY DEF CoseNumbers
<1>2. ASSUME NEW x, NEW y PROVE /\ Entry(x, y).label = x
  BY DEF Entry
<1>3. CASE d.alg = "ES256"
  <2> DEFINE e == << Entry(1, Number(2)), Entry(3, Number(-7)), Entry(-1, Number(1)),
                    Entry(-2, Bytes(SubSeq(d.public_key, 2, 33))),
                    Entry(-3, Bytes(SubSeq(d.public_key, 34, 65))) >>
  <2>1. map = CborMap(e)
    BY <1>3 DEF CredentialKey, EncodeEs256CoseKey, Item
  <2>2. DOMAIN e = 1 .. 5 /\ e[1] = Entry(1, Number(2)) /\ e[2] = Entry(3, Number(-7))
    OBVIOUS
  <2>3. e[3].label = -1 /\ e[4].label = -2 /\ e[5].label = -3 /\ e[1].label = 1 /\ e[2].label = 3
    BY <1>2
  <2> HIDE DEF e
  <2>4. \A n \in Int : (IntIs(CborMap(e), 1, n) <=> 2 = n) /\ (IntIs(CborMap(e), 3, n) <=> -7 = n)
    BY <2>2, <2>3, KeyTyped
  <2> HIDE DEF map
  <2>5. ~IntIs(map, 1, 1) /\ IntIs(map, 1, 2) /\ IntIs(map, 3, -7)
        /\ ~IntIs(map, 3, -35) /\ ~IntIs(map, 3, -8)
    BY <2>1, <2>4
  <2> QED
    BY <1>3, <2>5 DEF CoseKey, CoseAlg, Convertible, map
<1>4. CASE d.alg = "ES384"
  <2> DEFINE e == << Entry(1, Number(2)), Entry(3, Number(-35)), Entry(-1, Number(2)),
                    Entry(-2, Bytes(SubSeq(d.public_key, 2, 49))),
                    Entry(-3, Bytes(SubSeq(d.public_key, 50, 97))) >>
  <2>1. map = CborMap(e)
    BY <1>4 DEF CredentialKey, EncodeEs384CoseKey, Item
  <2>2. DOMAIN e = 1 .. 5 /\ e[1] = Entry(1, Number(2)) /\ e[2] = Entry(3, Number(-35))
    OBVIOUS
  <2>3. e[3].label = -1 /\ e[4].label = -2 /\ e[5].label = -3 /\ e[1].label = 1 /\ e[2].label = 3
    BY <1>2
  <2> HIDE DEF e
  <2>4. \A n \in Int : (IntIs(CborMap(e), 1, n) <=> 2 = n) /\ (IntIs(CborMap(e), 3, n) <=> -35 = n)
    BY <2>2, <2>3, KeyTyped
  <2> HIDE DEF map
  <2>5. ~IntIs(map, 1, 1) /\ IntIs(map, 1, 2) /\ ~IntIs(map, 3, -7)
        /\ IntIs(map, 3, -35) /\ ~IntIs(map, 3, -8)
    BY <2>1, <2>4
  <2> QED
    BY <1>4, <2>5 DEF CoseKey, CoseAlg, Convertible, map
<1>5. CASE d.alg = "EdDSA"
  <2> DEFINE e == << Entry(1, Number(1)), Entry(3, Number(-8)), Entry(-1, Number(6)),
                    Entry(-2, Bytes(d.public_key)) >>
  <2>1. map = CborMap(e)
    BY <1>5 DEF CredentialKey, EncodeEddsaCoseKey, Item
  <2>2. DOMAIN e = 1 .. 4 /\ e[1] = Entry(1, Number(1)) /\ e[2] = Entry(3, Number(-8))
    OBVIOUS
  <2>3. e[3].label = -1 /\ e[4].label = -2 /\ e[1].label = 1 /\ e[2].label = 3
    BY <1>2
  <2> HIDE DEF e
  <2>4. \A n \in Int : (IntIs(CborMap(e), 1, n) <=> 1 = n) /\ (IntIs(CborMap(e), 3, n) <=> -8 = n)
    BY <2>2, <2>3, KeyTyped
  <2> HIDE DEF map
  <2>5. IntIs(map, 1, 1) /\ ~IntIs(map, 1, 2) /\ ~IntIs(map, 3, -7)
        /\ ~IntIs(map, 3, -35) /\ IntIs(map, 3, -8)
    BY <2>1, <2>4
  <2> QED
    BY <1>5, <2>5 DEF CoseKey, CoseAlg, Convertible, map
<1>6. CASE d.alg = "RS256"
  <2> DEFINE c == ExtractRsaComponents(d.public_key)
             e == << Entry(1, Number(3)), Entry(3, Number(-257)), Entry(-1, Bytes(c.n)),
                    Entry(-2, Bytes(c.e)) >>
  <2>1. map = CborMap(e)
    BY <1>6 DEF CredentialKey, EncodedRsa, EncodeRs256CoseKey, Item
  <2> HIDE DEF c
  <2>2. DOMAIN e = 1 .. 4 /\ e[1] = Entry(1, Number(3)) /\ e[2] = Entry(3, Number(-257))
    OBVIOUS
  <2>3. e[3].label = -1 /\ e[4].label = -2 /\ e[1].label = 1 /\ e[2].label = 3
    BY <1>2
  <2> HIDE DEF e
  <2>4. \A n \in Int : (IntIs(CborMap(e), 1, n) <=> 3 = n) /\ (IntIs(CborMap(e), 3, n) <=> -257 = n)
    BY <2>2, <2>3, KeyTyped
  <2> HIDE DEF map
  <2>5. ~IntIs(map, 1, 1) /\ ~IntIs(map, 1, 2)
    BY <2>1, <2>4
  <2> QED
    BY <1>6, <2>5 DEF CoseKey, CoseAlg, Convertible, map
<1> QED
  BY <1>1, <1>3, <1>4, <1>5, <1>6

\* attestation::verify does not take the self attestation of another key.
LEMMA ForgedAttestation ==
    ASSUME NEW map, FirstError(ParseCoseKey(map)) = Ok, NEW alg, NEW scheme, NEW data,
           NEW a, a.fmt = "packed", a.auth_data.public_key = CoseKey(map),
           a.stmt = SelfStatement(alg, Statements!Signature(Used(CoseKey(map), "signature").id,
                                                            scheme, data))
    PROVE  Statements!Verify(a, {}) \in WebAuthnErrors
<1> DEFINE key == CoseKey(map)
           other == Used(key, "signature")
           sig == Statements!Signature(other.id, scheme, data)
           own == Statements!The(a.stmt.alg)
           c1 == Statements!Check(own # Statements!CoseAlg(key), "InvalidAttestationObject")
           c2 == Statements!Check(own \notin {"ES256", "EdDSA", "RS256"}, "UnsupportedAlgorithm")
           c3 == Statements!Verifies(key.id, own, Statements!ToBeSigned(a),
                                     Statements!The(a.stmt.sig))
<1>1. other.id # key.id
  BY OtherKey
<1>2. a.stmt.x5c = {} /\ a.stmt.sig = {sig}
  BY StatementIs
<1>3. Statements!The(a.stmt.sig) = sig
  BY <1>2 DEF Statements!The
<1> HIDE DEF other
<1>4. sig[1] = other.id
  BY DEF Statements!Signature
<1>5. \A signed : sig # Statements!Signature(key.id, own, signed)
  BY <1>1, <1>4 DEF Statements!Signature
<1> HIDE DEF sig
<1>6. c3 = Check(TRUE, "SignatureVerificationFailed")
  BY <1>3, <1>5 DEF Statements!Verifies, Statements!Check, Check
<1>7. c1 \in Checks(Verdicts) /\ c2 \in Checks(Verdicts) /\ c3 \in Checks(Verdicts)
  <2>1. c1 \in Checks(Verdicts) /\ c2 \in Checks(Verdicts)
    BY DEF Statements!Check, Checks, Verdicts, WebAuthnErrors, Ok
  <2> HIDE DEF c3
  <2>2. c3 \in Checks(Verdicts)
    BY <1>6 DEF Check, Checks, Verdicts, WebAuthnErrors, Ok
  <2> QED
    BY <2>1, <2>2
<1>8. c1.error = "InvalidAttestationObject" /\ c2.error = "UnsupportedAlgorithm"
  BY DEF Statements!Check
<1>9. c3.failed /\ c3.error = "SignatureVerificationFailed"
  <2> HIDE DEF c3
  <2> QED
    BY <1>6 DEF Check
<1>10. Statements!VerifyPackedSelf(a) = Statements!Then(<<c1, c2, c3>>, "SelfAttestation")
  BY DEF Statements!VerifyPackedSelf
<1> HIDE DEF c1, c2, c3
<1>11. FirstError(<<c1, c2, c3>>) \in {"InvalidAttestationObject", "UnsupportedAlgorithm",
                                       "SignatureVerificationFailed"}
  BY <1>7, <1>8, <1>9, FirstErrorOf3
<1>12. Statements!FirstError(<<c1, c2, c3>>) = FirstError(<<c1, c2, c3>>)
  BY DEF Statements!FirstError, FirstError, Statements!SelectInSeq, SelectInSeq,
         Statements!Min, Min, Statements!Ok, Ok
<1>13. Statements!VerifyPackedSelf(a) = FirstError(<<c1, c2, c3>>)
  <2> DEFINE checks == <<c1, c2, c3>>
  <2> HIDE DEF checks
  <2>1. Statements!Then(checks, "SelfAttestation") =
          IF Statements!FirstError(checks) # Ok THEN Statements!FirstError(checks)
          ELSE "SelfAttestation"
    BY DEF Statements!Then, Statements!Ok, Ok
  <2> QED
    BY <1>10, <1>11, <1>12, <2>1 DEF checks, Ok
<1>14. Statements!VerifyPacked(a, {}) \in {"InvalidAttestationObject", "UnsupportedAlgorithm",
                                           "SignatureVerificationFailed"}
  BY <1>2, <1>11, <1>13 DEF Statements!VerifyPacked
<1>15. Statements!Verify(a, {}) = Statements!VerifyPacked(a, {})
  BY DEF Statements!Verify
<1> QED
  BY <1>14, <1>15 DEF WebAuthnErrors

\* A registration: what is read of the key, and of its attestation.
LEMMA RegistrationIs ==
    ASSUME NEW s \in Answers(TRUE)
    PROVE  LET response == AttestationResponses[s]
               d        == Devices[s.device]
               ad       == ReadBack(s)
               stmt     == SelfAttestation(d, SigningKey(s), ad, ClientData(s))
               a        == [ fmt |-> "packed", stmt |-> Statement(stmt),
                             auth_data |-> AttestedData(ad), client_data |-> ClientData(s) ]
           IN  /\ response.client_data = ClientData(s) /\ response.auth_data = ad
               /\ response.parse = Ok
               /\ response.attestation =
                    IF ad.attested # {} /\ d.attests THEN Graded(Statements!Verify(a, {})) ELSE Ok
<1> DEFINE d == Devices[s.device]
           ad == ReadBack(s)
           cd == ClientData(s)
           stmt == SelfAttestation(d, SigningKey(s), ad, cd)
           self == d.attests /\ ad.attested # {}
           fmt == IF self THEN "packed" ELSE "none"
           sent == IF self THEN stmt ELSE CborMap(<<>>)
           object == ParseAttestationObject(ObjectOf(s, ad, cd))
           v == [fmt |-> fmt, auth_data |-> ad.octets, att_stmt |-> sent]
           b == [ fmt |-> fmt, stmt |-> Statement(sent),
                  auth_data |-> AttestedData(ad), client_data |-> cd ]
<1>1. AttestationResponses[s] = Registration(object, ad, cd)
  BY DEF AttestationResponses, AttestationResponse, RegistrationOf
<1>2. ObjectOf(s, ad, cd) = AttestationObject(fmt, sent, ad.octets)
  BY DEF ObjectOf, MakeAttestationObject
<1> HIDE DEF stmt, ad, cd, self, d
<1>3. object = Read(Ok, {v}, 0)
  <2> HIDE DEF sent, fmt
  <2> QED
    BY <1>2, AttestationObjectParsed
<1> HIDE DEF object, fmt, sent
<1>4. object.verdict = Ok /\ object.value = {v}
  BY <1>3 DEF Read
<1>5. The(object.value) = v /\ object.value # {}
  <2> HIDE DEF v
  <2> QED
    BY <1>4, TheOnly
<1>6. v.fmt = fmt /\ v.att_stmt = sent
  OBVIOUS
<1>7. AttestationVerdict(object, ad, cd) =
        IF ad.attested = {} THEN Ok ELSE Graded(Statements!Verify(b, {}))
  <2> HIDE DEF v
  <2> QED
    BY <1>5, <1>6 DEF AttestationVerdict
<1> DEFINE r == Registration(object, ad, cd)
<1>8. r.client_data = cd /\ r.auth_data = ad /\ r.parse = object.verdict
      /\ r.attestation = AttestationVerdict(object, ad, cd)
  BY DEF Registration
<1>9. CASE self
  <2>1. fmt = "packed" /\ sent = stmt
    BY <1>9 DEF fmt, sent
  <2>2. ad.attested # {} /\ d.attests
    BY <1>9 DEF self
  <2> HIDE DEF r
  <2> QED
    BY <1>1, <1>4, <1>7, <1>8, <2>1, <2>2 DEF r, stmt, ad, cd, d
<1>10. CASE ~self
  <2>1. fmt = "none"
    BY <1>10 DEF fmt
  <2>2. b.fmt = "none"
    BY <2>1
  <2> HIDE DEF b
  <2>3. Statements!Verify(b, {}) = "None"
    BY <2>2 DEF Statements!Verify
  <2>4. Graded("None") = Ok
    BY DEF Graded, Statements!AttestationTypes
  <2>5. AttestationVerdict(object, ad, cd) = Ok
    BY <1>7, <2>3, <2>4
  <2>6. ~(ad.attested # {} /\ d.attests)
    BY <1>10 DEF self
  <2> HIDE DEF r
  <2> QED
    BY <1>1, <1>4, <1>8, <2>5, <2>6 DEF r, ad, cd, d
<1> QED
  BY <1>9, <1>10

\* The key of a device, as the library keeps it.
KeyMap(d) == CredentialKey(Devices[d]).value

\* A response to a registration that is accepted has no fault, and what is read
\* of it is the device's own.
LEMMA FaultyRegistrationRefused ==
    ASSUME NEW p \in Policies, NEW s \in Answers(TRUE), NEW now, Timely(p, s.fault, now),
           VerifyRegistration(p, Challenge, AttestationResponses[s], now) = Ok
    PROVE  /\ s.fault = "none" /\ ReadBack(s).parse = Ok
           /\ AttestationResponses[s].auth_data = ReadBack(s)
           /\ FirstError(ParseCoseKey(KeyMap(s.device))) = Ok
           /\ ReadBack(s).attested = {[ aaguid |-> Devices[s.device].aaguid, id |-> CredentialId,
                                        public_key |-> CoseKey(KeyMap(s.device)) ]}
           /\ Allowed(p, CoseAlg(CoseKey(KeyMap(s.device))))
<1> DEFINE response == AttestationResponses[s]
           d == Devices[s.device]
           ad == ReadBack(s)
           cd == ClientData(s)
           map == KeyMap(s.device)
           key == CoseKey(map)
           stmt == SelfAttestation(d, SigningKey(s), ad, cd)
           a == [ fmt |-> "packed", stmt |-> Statement(stmt),
                  auth_data |-> AttestedData(ad), client_data |-> cd ]
           data == DataOf(d, s)
<1>1. /\ response.client_data = cd /\ response.auth_data = ad
      /\ response.attestation =
           IF ad.attested # {} /\ d.attests THEN Graded(Statements!Verify(a, {})) ELSE Ok
  BY RegistrationIs
<1>2. s.create /\ s.fault \in FaultsOf(s.device, TRUE) \union {"none"}
  BY AnswerIs
<1>3. p.id # "elsewhere"
  BY PoliciesAssumption
<1> HIDE DEF a, stmt, ad, cd
<1>4. /\ BindingAnswer(p, "webauthn.create", Challenge, cd, now) = Ok
      /\ RegistrationBodyAnswer(p, response) = Ok
  <2> HIDE DEF response
  <2>1. BindingAnswer(p, "webauthn.create", Challenge, response.client_data, now) = Ok
    BY RegistrationVerdict DEF response
  <2> QED
    BY <1>1, <2>1, RegistrationVerdict DEF response
<1>5. /\ PresenceAnswer(p.id, ad) = Ok /\ ad.attested # {} /\ response.attestation = Ok
      /\ ~\E cred \in ad.attested : ~Allowed(p, CoseAlg(cred.public_key))
  <2> HIDE DEF response
  <2> QED
    BY <1>1, <1>4 DEF RegistrationBodyAnswer, Ok
<1>6. s.fault \notin {"stale", "clock_back", "json", "type", "challenge", "origin"}
  BY <1>4, BindingFaults DEF cd
<1>7. ad.parse = Ok /\ s.fault \notin {"malformed", "rp_id", "absent_user"}
  BY <1>3, <1>5, PresenceFaults DEF ad
<1>8. /\ ad.attested = AttestedAsRead(data)
      /\ \A c \in data.attested : FirstError(ParseCoseKey(c.key.value)) = Ok
  BY <1>7, ReadBackIs DEF ad
<1>9. s.fault # "no_key"
  <2> SUFFICES ASSUME s.fault = "no_key" PROVE FALSE
    OBVIOUS
  <2>1. data.attested = {}
    BY DEF DataOf
  <2> HIDE DEF data
  <2> QED
    BY <1>5, <1>8, <2>1 DEF AttestedAsRead
<1> DEFINE c == [aaguid |-> d.aaguid, id |-> CredentialId, key |-> CredentialKey(d)]
<1>10. data.attested = {c}
  BY <1>2, <1>9 DEF DataOf
<1>11. c.aaguid = d.aaguid /\ c.id = CredentialId /\ c.key.value = map
  BY DEF KeyMap
<1> HIDE DEF data, c, map
<1>12. FirstError(ParseCoseKey(map)) = Ok
  BY <1>8, <1>10, <1>11
<1> DEFINE cred == [aaguid |-> d.aaguid, id |-> CredentialId, public_key |-> key]
<1>13. ad.attested = {cred}
  BY <1>8, <1>10, <1>11 DEF AttestedAsRead
<1>14. cred.public_key = key
  OBVIOUS
<1> HIDE DEF cred, key
<1>15. Allowed(p, CoseAlg(key))
  BY <1>5, <1>13, <1>14
<1>16. s.fault # "signature"
  <2> SUFFICES ASSUME s.fault = "signature" PROVE FALSE
    OBVIOUS
  <2>1. d.attests
    BY <1>2 DEF FaultsOf
  <2> DEFINE other == Used(CoseKey(map), "signature")
             sig == Statements!Signature(other.id, d.alg, <<AttestedData(ad), cd>>)
  <2>2. SigningKey(s) = other
    BY DEF SigningKey, map, KeyMap
  <2>3. Statement(stmt) = SelfStatement(Number(CoseNumbers[d.alg]), sig)
    BY <2>2 DEF stmt, SelfAttestation, SelfStatement
  <2> HIDE DEF other
  <2>4. a.fmt = "packed" /\ a.stmt = Statement(stmt) /\ a.auth_data = AttestedData(ad)
    BY DEF a
  <2>5. AttestedData(ad).public_key = CoseKey(map)
    <3>1. The(ad.attested) = cred
      BY <1>13, TheOnly
    <3> QED
      BY <1>14, <3>1 DEF AttestedData, key
  <2> HIDE DEF sig
  <2>6. Statements!Verify(a, {}) \in WebAuthnErrors
    BY <1>12, <2>3, <2>4, <2>5, ForgedAttestation DEF sig, other
  <2>7. Graded(Statements!Verify(a, {})) # Ok
    BY <2>6 DEF Graded, Statements!AttestationTypes, WebAuthnErrors, Ok
  <2> HIDE DEF response
  <2> QED
    BY <1>1, <1>5, <2>1, <2>7
<1>17. s.fault = "none"
  BY <1>2, <1>6, <1>7, <1>9, <1>16 DEF FaultsOf, Faults, CommonFaults
<1> QED
  BY <1>1, <1>7, <1>12, <1>13, <1>15, <1>17 DEF ad, cred, key, map

\* A stored credential is that of a device.
KnownTo(d, c) ==
    /\ c.id = CredentialId /\ c.rp_id \in {p.id : p \in Policies}
    /\ c.public_key = CoseKey(KeyMap(d)) /\ FirstError(ParseCoseKey(KeyMap(d))) = Ok
    /\ c.backup_eligible = Devices[d].backup_eligible
    /\ c.sign_count \in 0 .. MaxCount

\* An assertion without an identifier is refused before anything else is looked at.
LEMMA NamedOrRefused ==
    ASSUME NEW c, NEW response, NEW now
    PROVE  LET verdict == LookedUpAndVerified(c, response, now)
           IN  /\ response.credential_id = "" => verdict = "MissingCredentialId"
               /\ response.credential_id # "" =>
                    verdict = VerifyAuthentication(rp, c, Challenge, response, now)
<1> DEFINE missing == response.credential_id = ""
           a == Check(missing, "MissingCredentialId")
<1>1. missing \in BOOLEAN
  OBVIOUS
<1>2. BeginAuthentication(response) = FirstError(<<a>>)
  BY DEF BeginAuthentication
<1> HIDE DEF missing
<1>3. a \in Checks(Verdicts) /\ a.error = "MissingCredentialId" /\ a.failed = missing
  BY <1>1 DEF Checks, Check, Verdicts, WebAuthnErrors, Ok
<1> HIDE DEF a
<1>4. BeginAuthentication(response) = IF missing THEN "MissingCredentialId" ELSE Ok
  BY <1>2, <1>3, FirstErrorOf1
<1>5. Ok # "MissingCredentialId"
  BY DEF Ok
<1>6. LET verdict == LookedUpAndVerified(c, response, now)
      IN  /\ missing => verdict = "MissingCredentialId"
          /\ ~missing => verdict = VerifyAuthentication(rp, c, Challenge, response, now)
  BY <1>4, <1>5 DEF LookedUpAndVerified
<1> QED
  BY <1>6, Zenon DEF missing

\* An assertion that is accepted has no fault either, and its count is the
\* authenticator's.
LEMMA FaultyAssertionRefused ==
    ASSUME rp \in Policies, NEW s \in Answers(FALSE), NEW now, Timely(rp, s.fault, now),
           NEW c, KnownTo(s.device, c),
           LookedUpAndVerified(c, AssertionResponses[s], now) = Ok
    PROVE  /\ s.fault = "none" /\ ReadBack(s).parse = Ok
           /\ AssertionResponses[s].auth_data = ReadBack(s)
           /\ ~SignCountInvalid(c.sign_count, ReadBack(s).sign_count)
<1> DEFINE response == AssertionResponses[s]
           d == Devices[s.device]
           ad == ReadBack(s)
           cd == ClientData(s)
<1>1. /\ response.client_data = cd /\ response.auth_data = ad
      /\ response.credential_id = IF s.fault = "no_id" THEN "" ELSE "cred"
      /\ response.signature = Sign(SigningKey(s), ad, cd)
  BY Zenon DEF AssertionResponses, AssertionResponse, AssertionOf
<1>2. /\ ~s.create /\ s.fault \in FaultsOf(s.device, FALSE) \union {"none"}
      /\ s.device \in DOMAIN Devices
  BY AnswerIs
<1>3. d.backup_eligible \in BOOLEAN
  BY <1>2, DevicesAssumption
<1> HIDE DEF response, ad, cd
<1>4. s.fault # "no_id"
  <2> SUFFICES ASSUME s.fault = "no_id" PROVE FALSE
    OBVIOUS
  <2>1. response.credential_id = ""
    BY <1>1, Zenon
  <2>2. LookedUpAndVerified(c, response, now) = "MissingCredentialId"
    BY <2>1, NamedOrRefused, Zenon
  <2>3. LookedUpAndVerified(c, response, now) = Ok
    BY DEF response
  <2> QED
    BY <2>2, <2>3 DEF Ok
<1>5. VerifyAuthentication(rp, c, Challenge, response, now) = Ok
  BY DEF response, LookedUpAndVerified
<1>6. /\ BindingAnswer(rp, "webauthn.get", Challenge, cd, now) = Ok
      /\ AuthenticationBodyAnswer(rp, c, response) = Ok
  <2>1. BindingAnswer(rp, "webauthn.get", Challenge, response.client_data, now) = Ok
    BY <1>5, AuthenticationVerdict
  <2> QED
    BY <1>1, <1>5, <2>1, AuthenticationVerdict
<1>7. /\ PresenceAnswer(c.rp_id, ad) = Ok /\ ad.backup_eligible = c.backup_eligible
      /\ VerifySignature(c, response) /\ ~SignCountInvalid(c.sign_count, ad.sign_count)
  BY <1>1, <1>6 DEF AuthenticationBodyAnswer, Ok
<1>8. s.fault \notin {"stale", "clock_back", "json", "type", "challenge", "origin"}
  BY <1>6, BindingFaults DEF cd
<1>9. ad.parse = Ok /\ s.fault \notin {"malformed", "rp_id", "absent_user"}
  <2>1. c.rp_id # "elsewhere"
    BY PoliciesAssumption DEF KnownTo
  <2> QED
    BY <1>7, <2>1, PresenceFaults DEF ad
<1>10. s.fault # "eligibility"
  <2>1. ad.backup_eligible = (d.backup_eligible # (s.fault = "eligibility"))
    BY <1>9, ReadBackIs DEF ad
  <2> QED
    BY <1>3, <1>7, <2>1 DEF KnownTo
<1>11. s.fault # "signature"
  <2> SUFFICES ASSUME s.fault = "signature" PROVE FALSE
    OBVIOUS
  <2> DEFINE key == CoseKey(KeyMap(s.device))
             other == Used(key, "signature")
  <2>1. SigningKey(s) = other
    BY DEF SigningKey, KeyMap
  <2>2. other # key
    BY OtherKey DEF KnownTo
  <2> HIDE DEF key, other
  <2>3. c.public_key = key
    BY DEF KnownTo, key
  <2>4. Sign(other, ad, cd) = Sign(key, ad, cd)
    BY <1>1, <1>7, <2>1, <2>3 DEF VerifySignature
  <2> QED
    BY <2>2, <2>4 DEF Sign
<1>12. s.fault = "none"
  BY <1>2, <1>4, <1>8, <1>9, <1>10, <1>11 DEF FaultsOf, Faults, CommonFaults
<1> QED
  BY <1>1, <1>7, <1>9, <1>12 DEF ad, response

-----------------------------------------------------------------------------
(***************************************************************************)
(* A response without a fault is accepted, unless the configuration minds  *)
(* what the options do not speak of.                                       *)
(***************************************************************************)

\* attestation::verify takes an authenticator's own attestation.
LEMMA OwnAttestation ==
    ASSUME NEW map, NEW alg \in {"ES256", "EdDSA", "RS256"}, CoseAlg(CoseKey(map)) = alg,
           NEW a, a.fmt = "packed", a.auth_data.public_key = CoseKey(map),
           a.stmt = SelfStatement(Number(CoseNumbers[alg]),
                                  Statements!Signature(CoseKey(map).id, alg,
                                                       Statements!ToBeSigned(a)))
    PROVE  Graded(Statements!Verify(a, {})) = Ok
<1> DEFINE key == CoseKey(map)
           sig == Statements!Signature(key.id, alg, Statements!ToBeSigned(a))
           own == Statements!The(a.stmt.alg)
           c1 == Statements!Check(own # Statements!CoseAlg(key), "InvalidAttestationObject")
           c2 == Statements!Check(own \notin {"ES256", "EdDSA", "RS256"}, "UnsupportedAlgorithm")
           c3 == Statements!Verifies(key.id, own, Statements!ToBeSigned(a),
                                     Statements!The(a.stmt.sig))
<1>1. /\ a.stmt.form = "map" /\ a.stmt.ill_typed = {} /\ a.stmt.x5c = {} /\ a.stmt.sig = {sig}
      /\ a.stmt.alg = AlgName(Number(CoseNumbers[alg]).int)
  BY StatementIs
<1>2. AlgName(Number(CoseNumbers[alg]).int) = {alg}
  BY DEF AlgName, Number, CoseNumbers
<1>3. own = alg
  BY <1>1, <1>2 DEF Statements!The
<1>4. Statements!The(a.stmt.sig) = sig
  BY <1>1 DEF Statements!The
<1>5. Statements!CoseAlg(key) = alg
  BY DEF Statements!CoseAlg, CoseAlg
<1> HIDE DEF key, own
<1>6. c3 = Check(FALSE, "SignatureVerificationFailed")
  <2> HIDE DEF sig
  <2>1. ~(sig # Statements!Signature(key.id, own, Statements!ToBeSigned(a)))
    BY <1>3 DEF sig, key
  <2> QED
    BY <1>4, <2>1 DEF Statements!Verifies, Statements!Check, Check
<1>7. /\ c1 = Check(FALSE, "InvalidAttestationObject")
      /\ c2 = Check(FALSE, "UnsupportedAlgorithm")
  BY <1>3, <1>5 DEF Statements!Check, Check
<1>8. /\ c1 \in Checks(Verdicts) /\ c2 \in Checks(Verdicts) /\ c3 \in Checks(Verdicts)
      /\ ~c1.failed /\ ~c2.failed /\ ~c3.failed
  <2> HIDE DEF c1, c2, c3
  <2> QED
    BY <1>6, <1>7 DEF Check, Checks, Verdicts, WebAuthnErrors, Ok
<1>9. Statements!VerifyPackedSelf(a) = Statements!Then(<<c1, c2, c3>>, "SelfAttestation")
  BY DEF Statements!VerifyPackedSelf, key, own
<1> HIDE DEF c1, c2, c3
<1>10. FirstError(<<c1, c2, c3>>) = Ok
  BY <1>8, FirstErrorOf3
<1> DEFINE checks == <<c1, c2, c3>>
<1> HIDE DEF checks
<1>11. Statements!FirstError(checks) = FirstError(checks)
  BY DEF Statements!FirstError, FirstError, Statements!SelectInSeq, SelectInSeq,
         Statements!Min, Min, Statements!Ok, Ok
<1>12. Statements!VerifyPackedSelf(a) = "SelfAttestation"
  BY <1>9, <1>10, <1>11 DEF Statements!Then, Statements!Ok, Ok, checks
<1> HIDE DEF sig
<1>13. ~Statements!Malformed(a.stmt, {"alg", "sig"}, {"x5c"})
  <2> DEFINE stmt == a.stmt
  <2>1. /\ stmt.form = "map" /\ stmt.ill_typed = {} /\ stmt.x5c = {}
        /\ stmt["sig"] = {sig} /\ stmt["alg"] = {alg}
    BY <1>1, <1>2
  <2> HIDE DEF stmt
  <2>2. ~Statements!Malformed(stmt, {"alg", "sig"}, {"x5c"})
    BY <2>1 DEF Statements!Malformed
  <2> QED
    BY <2>2 DEF stmt
<1>14. Statements!VerifyPacked(a, {}) = "SelfAttestation"
  BY <1>1, <1>12, <1>13 DEF Statements!VerifyPacked
<1>15. Statements!Verify(a, {}) = Statements!VerifyPacked(a, {})
  BY DEF Statements!Verify
<1> QED
  BY <1>14, <1>15 DEF Graded, Statements!AttestationTypes

\* It is read.
LEMMA KeyOfSizeRead ==
    ASSUME NEW d, KeyOfSize(d)
    PROVE  FirstError(ParseCoseKey(CredentialKey(d).value)) = Ok
<1> DEFINE map == CredentialKey(d).value
           E == {"InvalidPublicKey", "UnsupportedAlgorithm", Ok}
           Good(c) == c \in Checks(E) /\ ~c.failed
<1>1. \A failed \in BOOLEAN : ~failed =>
         Good(Check(failed, "InvalidPublicKey")) /\ Good(Check(failed, "UnsupportedAlgorithm"))
  BY DEF Checks, Check, Ok
<1>2. \A n : Number(n).type = "int" /\ Number(n).int = n
  BY DEF Number
<1>3. \A o : Bytes(o).type = "bytes" /\ Bytes(o).octets = o
  BY DEF Bytes
<1>4. /\ \A label, n : Get(map, label, "int") = {Number(n)} =>
              Has(map, label, "int") /\ IntIs(map, label, n)
      /\ \A label, o : Get(map, label, "bytes") = {Bytes(o)} =>
              Has(map, label, "bytes") /\ LenIs(map, label, Len(o))
  BY <1>2, <1>3 DEF IntIs, Has, LenIs
<1>5. \A label, n, m : Get(map, label, "int") = {Number(n)} /\ IntIs(map, label, m) => m = n
  BY <1>2 DEF IntIs
<1>6. ASSUME NEW label, NEW type, Has(map, label, type) PROVE Good(Missing(map, label, type))
  BY <1>1, <1>6 DEF Missing
<1>7. CASE d.alg = "EdDSA"
  <2> DEFINE key == d.public_key
  <2>1. map = FourMap(Number(1), Number(-8), Number(6), Bytes(key))
    BY <1>7 DEF CredentialKey, EncodeEddsaCoseKey, Item, FourMap
  <2> HIDE DEF map
  <2>2. /\ map.type = "map" /\ ~Duplicate(map)
        /\ Get(map, 1, "int") = {Number(1)} /\ Get(map, 3, "int") = {Number(-8)}
        /\ Get(map, -1, "int") = {Number(6)} /\ Get(map, -2, "bytes") = {Bytes(key)}
    BY <1>2, <1>3, <2>1, FourEntries
  <2>3. /\ IntIs(map, 1, 1) /\ IntIs(map, 3, -8) /\ IntIs(map, -1, 6)
        /\ Has(map, 1, "int") /\ Has(map, 3, "int") /\ Has(map, -1, "int") /\ Has(map, -2, "bytes")
        /\ LenIs(map, -2, Len(key))
    BY <1>4, <2>2
  <2>4. Len(key) = 32
    BY <1>7 DEF KeyOfSize
  <2> HIDE DEF Good
  <2> DEFINE c1 == Missing(map, 3, "int")
             c2 == Check(~IntIs(map, 3, -8), "UnsupportedAlgorithm")
             c3 == Missing(map, -1, "int")
             c4 == Check(~IntIs(map, -1, 6), "InvalidPublicKey")
             c5 == Missing(map, -2, "bytes")
             c6 == Check(~LenIs(map, -2, 32), "InvalidPublicKey")
  <2>5. Good(c1) /\ Good(c2) /\ Good(c3) /\ Good(c4) /\ Good(c5) /\ Good(c6)
    BY <1>1, <1>6, <2>3, <2>4
  <2>6. ParseOkpKey(map) = <<c1, c2, c3, c4, c5, c6>>
    BY DEF ParseOkpKey
  <2> HIDE DEF c1, c2, c3, c4, c5, c6
  <2>7. /\ ParseOkpKey(map) \in Lines(E)
        /\ \A i \in 1 .. Len(ParseOkpKey(map)) : ~ParseOkpKey(map)[i].failed
    BY <2>5, <2>6 DEF Lines, Good
  <2> QED
    BY <2>2, <2>3, <2>7, KeyPassed DEF map
<1>8. CASE d.alg = "RS256"
  <2> DEFINE n == ExtractRsaComponents(d.public_key).n
             e == ExtractRsaComponents(d.public_key).e
  <2>1. map = FourMap(Number(3), Number(-257), Bytes(n), Bytes(e))
    BY <1>8 DEF CredentialKey, EncodedRsa, EncodeRs256CoseKey, Item, FourMap
  <2>2. Len(n) \in Nat /\ Len(n) >= 256 /\ Len(e) # 0
    BY <1>8 DEF KeyOfSize
  <2> HIDE DEF map, n, e
  <2>3. /\ map.type = "map" /\ ~Duplicate(map)
        /\ Get(map, 1, "int") = {Number(3)} /\ Get(map, 3, "int") = {Number(-257)}
        /\ Get(map, -1, "bytes") = {Bytes(n)} /\ Get(map, -2, "bytes") = {Bytes(e)}
    BY <1>2, <1>3, <2>1, FourEntries
  <2>4. /\ IntIs(map, 1, 3) /\ IntIs(map, 3, -257)
        /\ Has(map, 1, "int") /\ Has(map, 3, "int") /\ Has(map, -1, "bytes") /\ Has(map, -2, "bytes")
    BY <1>4, <2>3
  <2>5. ~IntIs(map, 1, 1) /\ ~IntIs(map, 1, 2)
    BY <1>5, <2>3
  <2>6. /\ ~\E v \in Get(map, -1, "bytes") : Len(v.octets) < 256
        /\ ~LenIs(map, -2, 0)
    BY <1>3, <2>3, <2>2 DEF LenIs
  <2> HIDE DEF Good
  <2> DEFINE c1 == Missing(map, 3, "int")
             c2 == Check(~IntIs(map, 3, -257), "UnsupportedAlgorithm")
             c3 == Missing(map, -1, "bytes")
             c4 == Check(\E v \in Get(map, -1, "bytes") : Len(v.octets) < 256, "InvalidPublicKey")
             c5 == Missing(map, -2, "bytes")
             c6 == Check(LenIs(map, -2, 0), "InvalidPublicKey")
  <2>7. LenIs(map, -2, 0) \in BOOLEAN
    BY DEF LenIs
  <2>8. Good(c1) /\ Good(c2) /\ Good(c3) /\ Good(c4) /\ Good(c5) /\ Good(c6)
    BY <1>1, <1>6, <2>4, <2>6, <2>7
  <2>9. ParseRsaKey(map) = <<c1, c2, c3, c4, c5, c6>>
    BY DEF ParseRsaKey
  <2> HIDE DEF c1, c2, c3, c4, c5, c6
  <2>10. /\ ParseRsaKey(map) \in Lines(E)
        /\ \A i \in 1 .. Len(ParseRsaKey(map)) : ~ParseRsaKey(map)[i].failed
    BY <2>8, <2>9 DEF Lines, Good
  <2> QED
    BY <2>3, <2>4, <2>10, <2>5, KeyPassed DEF map
<1>9. ASSUME NEW alg \in {-7, -35}, NEW crv, NEW x, NEW y,
             crv = IF alg = -7 THEN 1 ELSE 2,
             Len(x) = IF alg = -7 THEN 32 ELSE 48, Len(y) = IF alg = -7 THEN 32 ELSE 48,
             map = FiveMap(Number(2), Number(alg), Number(crv), Bytes(x), Bytes(y))
      PROVE  FirstError(ParseCoseKey(map)) = Ok
  <2> DEFINE size == IF alg = -7 THEN 32 ELSE 48
  <2> HIDE DEF map
  <2>1. /\ map.type = "map" /\ ~Duplicate(map)
        /\ Get(map, 1, "int") = {Number(2)} /\ Get(map, 3, "int") = {Number(alg)}
        /\ Get(map, -1, "int") = {Number(crv)} /\ Get(map, -2, "bytes") = {Bytes(x)}
        /\ Get(map, -3, "bytes") = {Bytes(y)}
    <3>1. map = FiveMap(Number(2), Number(alg), Number(crv), Bytes(x), Bytes(y))
      BY <1>9
    <3> QED
      BY <1>2, <1>3, <3>1, FiveEntries
  <2>2. /\ IntIs(map, 1, 2) /\ IntIs(map, 3, alg) /\ IntIs(map, -1, crv)
        /\ Has(map, 1, "int") /\ Has(map, 3, "int") /\ Has(map, -1, "int")
        /\ Has(map, -2, "bytes") /\ LenIs(map, -2, Len(x))
        /\ Has(map, -3, "bytes") /\ LenIs(map, -3, Len(y))
    BY <1>4, <2>1
  <2>3. LenIs(map, -2, size) /\ LenIs(map, -3, size)
    BY <1>9, <2>2
  <2>4. ~IntIs(map, 1, 1) /\ (IntIs(map, 3, -7) => alg = -7)
    BY <1>5, <2>1
  <2>5. /\ crv = IF IntIs(map, 3, -7) THEN 1 ELSE 2
        /\ size = IF IntIs(map, 3, -7) THEN 32 ELSE 48
    BY <1>9, <2>2, <2>4
  <2> HIDE DEF Good
  <2> DEFINE c1 == Missing(map, 3, "int")
             c2 == Missing(map, -1, "int")
             c3 == Check(~IntIs(map, 3, -7) /\ ~IntIs(map, 3, -35), "UnsupportedAlgorithm")
             c4 == Check(~IntIs(map, -1, crv), "InvalidPublicKey")
             c5 == Missing(map, -2, "bytes")
             c6 == Missing(map, -3, "bytes")
             c7 == Check(~LenIs(map, -2, size), "InvalidPublicKey")
             c8 == Check(~LenIs(map, -3, size), "InvalidPublicKey")
  <2>6. /\ Good(c1) /\ Good(c2) /\ Good(c3) /\ Good(c4)
        /\ Good(c5) /\ Good(c6) /\ Good(c7) /\ Good(c8)
    <3>1. ~(~IntIs(map, 3, -7) /\ ~IntIs(map, 3, -35))
      BY <1>9, <2>2
    <3> QED
      BY <1>1, <1>6, <2>2, <2>3, <3>1
  <2>7. ParseEc2Key(map) = <<c1, c2, c3, c4, c5, c6, c7, c8>>
    BY <2>5 DEF ParseEc2Key
  <2> HIDE DEF c1, c2, c3, c4, c5, c6, c7, c8
  <2>8. /\ ParseEc2Key(map) \in Lines(E)
        /\ \A i \in 1 .. Len(ParseEc2Key(map)) : ~ParseEc2Key(map)[i].failed
    BY <2>6, <2>7 DEF Lines, Good
  <2> QED
    BY <2>1, <2>2, <2>8, <2>4, KeyPassed
<1>10. CASE d.alg = "ES256"
  <2> DEFINE x == SubSeq(d.public_key, 2, 33)
             y == SubSeq(d.public_key, 34, 65)
  <2>1. map = FiveMap(Number(2), Number(-7), Number(1), Bytes(x), Bytes(y))
    BY <1>10 DEF CredentialKey, EncodeEs256CoseKey, Item, FiveMap
  <2>2. Len(x) = 32 /\ Len(y) = 32
    <3>1. d.public_key \in Seq(PlainOctets) /\ Len(d.public_key) = 65
      BY <1>10 DEF KeyOfSize
    <3> QED
      BY <3>1, PartOf
  <2>3. /\ -7 \in {-7, -35} /\ 1 = IF -7 = -7 THEN 1 ELSE 2
        /\ Len(x) = IF -7 = -7 THEN 32 ELSE 48
        /\ Len(y) = IF -7 = -7 THEN 32 ELSE 48
    BY <2>2
  <2> HIDE DEF map, x, y
  <2> QED
    BY <1>9, <2>1, <2>3 DEF map
<1>11. CASE d.alg = "ES384"
  <2> DEFINE x == SubSeq(d.public_key, 2, 49)
             y == SubSeq(d.public_key, 50, 97)
  <2>1. map = FiveMap(Number(2), Number(-35), Number(2), Bytes(x), Bytes(y))
    BY <1>11 DEF CredentialKey, EncodeEs384CoseKey, Item, FiveMap
  <2>2. Len(x) = 48 /\ Len(y) = 48
    <3>1. d.public_key \in Seq(PlainOctets) /\ Len(d.public_key) = 97
      BY <1>11 DEF KeyOfSize
    <3> QED
      BY <3>1, PartOf
  <2>3. /\ -35 \in {-7, -35} /\ 2 = IF -35 = -7 THEN 1 ELSE 2
        /\ Len(x) = IF -35 = -7 THEN 32 ELSE 48
        /\ Len(y) = IF -35 = -7 THEN 32 ELSE 48
    BY <2>2
  <2> HIDE DEF map, x, y
  <2> QED
    BY <1>9, <2>1, <2>3 DEF map
<1> QED
  BY <1>7, <1>8, <1>10, <1>11 DEF KeyOfSize

\* The data of an answer without a fault is accepted.
LEMMA FaultlessParsed ==
    ASSUME Conforming, NEW create \in BOOLEAN, NEW s \in Answers(create), s.fault = "none"
    PROVE  ReadBack(s).parse = Ok
<1> DEFINE d == Devices[s.device]
           data == DataOf(d, s)
           octets == AuthenticatorDataOf(d, s)
           parsed == ParseAuthenticatorData(octets)
<1>1. Encodable(data)
  BY DataWritten
<1>2. octets = Encode(data)
  BY DEF AuthenticatorDataOf, DataOf, Sent
<1>3. ReadBack(s) = AsUsed(parsed, octets)
  BY DEF ReadBack, AuthDataOf
<1>4. s.device \in DOMAIN Devices /\ (s.backup_state => d.backup_eligible)
  BY AnswerIs
<1>5. d.backup_eligible \in BOOLEAN
  BY <1>4, DevicesAssumption
<1>6. FirstError(ParseCoseKey(CredentialKey(d).value)) = Ok
  BY <1>4, KeyOfSizeRead DEF Conforming
<1> HIDE DEF d, octets
<1>7. data.backup_state => data.backup_eligible
  BY <1>4, <1>5 DEF DataOf
<1>8. \A c \in data.attested : FirstError(ParseCoseKey(c.key.value)) = Ok
  <2>1. \A c \in data.attested : c.key = CredentialKey(d)
    BY DEF DataOf
  <2> HIDE DEF data
  <2> QED
    BY <1>6, <2>1
<1>9. \A e \in data.extensions : e.value.type = "map"
  BY DEF DataOf, Item, CborMap
<1> HIDE DEF data
<1>10. parsed.verdict = Ok
  BY <1>1, <1>2, <1>7, <1>8, <1>9, WellFormedParsed DEF Read
<1> HIDE DEF parsed
<1> QED
  BY <1>3, <1>10 DEF AsUsed, Unread

\* Everything before the single-use set passes an answer in time.
LEMMA FaultlessBinding ==
    ASSUME Conforming, NEW p \in Policies, NEW s, s.fault = "none",
           NEW ceremony \in {"webauthn.create", "webauthn.get"},
           s.create \in BOOLEAN, s.create <=> ceremony = "webauthn.create",
           ~(p.reject_cross_origin /\ s.cross_origin)
    PROVE  BindingAnswer(p, ceremony, Challenge, ClientData(s), IssuedAt + (Timeout - 1)) = Ok
<1> DEFINE cd == ClientData(s)
           now == IssuedAt + (Timeout - 1)
<1>1. cd.form = "ok" /\ cd.challenge = "current" /\ cd.origin = "https://example.com"
      /\ cd.cross_origin = s.cross_origin
  BY DEF ClientData
<1>2. cd.type = ceremony
  BY DEF ClientData
<1>3. "https://example.com" \in p.allowed_origins /\ Timeout \in 1 .. p.max_age
  BY DEF Conforming
<1>4. p.max_age \in Nat
  BY PoliciesAssumption
<1>5. ~IsExpired(Challenge.created_at, now, p.max_age)
  BY <1>3, <1>4 DEF IsExpired, Challenge, IssuedAt
<1>6. Challenge.bytes = "current"
  BY DEF Challenge
<1> HIDE DEF cd, now
<1>7. ~(p.reject_cross_origin /\ cd.cross_origin)
  BY <1>1, Zenon
<1>8. BindingAnswer(p, ceremony, Challenge, cd, now) = Ok
  BY <1>1, <1>2, <1>3, <1>5, <1>6, <1>7 DEF BindingAnswer, Ok
<1> QED
  BY <1>8 DEF cd, now

\* What the options do not say, and the configuration minds.
Minds(p, s) ==
    \/ p.reject_cross_origin /\ s.cross_origin
    \/ p.reject_backup_eligible /\ Devices[s.device].backup_eligible
    \/ p.require_backup_eligible /\ ~Devices[s.device].backup_eligible

\* A registration without a fault is accepted.
LEMMA FaultlessRegistration ==
    ASSUME Conforming, NEW p \in Policies, NEW s \in Answers(TRUE), s.fault = "none",
           Devices[s.device].alg \in PubKeyCredParams(p),
           ~Minds(p, s), ~Compromised(p, Devices[s.device].aaguid)
    PROVE  VerifyRegistration(p, Challenge, AttestationResponses[s], IssuedAt + (Timeout - 1)) = Ok
<1> DEFINE response == AttestationResponses[s]
           d == Devices[s.device]
           ad == ReadBack(s)
           cd == ClientData(s)
           now == IssuedAt + (Timeout - 1)
           map == CredentialKey(d).value
           key == CoseKey(map)
           stmt == SelfAttestation(d, SigningKey(s), ad, cd)
           a == [ fmt |-> "packed", stmt |-> Statement(stmt),
                  auth_data |-> AttestedData(ad), client_data |-> cd ]
           cred == [aaguid |-> d.aaguid, id |-> CredentialId, public_key |-> key]
           data == DataOf(d, s)
<1>1. /\ response.client_data = cd /\ response.auth_data = ad /\ response.parse = Ok
      /\ response.attestation =
           IF ad.attested # {} /\ d.attests THEN Graded(Statements!Verify(a, {})) ELSE Ok
  BY RegistrationIs
<1>2. s.create /\ s.device \in DOMAIN Devices
  BY AnswerIs
<1>3. d.alg \in DOMAIN CoseNumbers /\ d.backup_eligible \in BOOLEAN
  BY <1>2, DevicesAssumption
<1>4. d.attests => d.alg # "ES384"
  BY <1>2 DEF Conforming
<1>5. p.id = "example.com"
  BY DEF Conforming
<1>6. CoseAlg(key) = d.alg /\ Convertible(key)
  BY <1>3, KeyAlgorithm
<1>7. SigningKey(s) = key
  BY DEF SigningKey, Used
<1>8. ad.parse = Ok
  BY FaultlessParsed
<1>9. /\ ad.rp_id = "example.com" /\ ad.user_present
      /\ ad.backup_eligible = (d.backup_eligible # FALSE) /\ ad.attested = AttestedAsRead(data)
  BY <1>8, ReadBackIs
<1>10. data.attested = {[aaguid |-> d.aaguid, id |-> CredentialId, key |-> CredentialKey(d)]}
  BY <1>2 DEF DataOf
<1>11. BindingAnswer(p, "webauthn.create", Challenge, cd, now) = Ok
  BY <1>2, FaultlessBinding DEF Minds
<1>12. ~(p.reject_backup_eligible /\ d.backup_eligible)
       /\ ~(p.require_backup_eligible /\ ~d.backup_eligible)
  BY Zenon DEF Minds
<1> HIDE DEF ad, cd, data, now
<1>13. ad.attested = {cred}
  <2> DEFINE c == [aaguid |-> d.aaguid, id |-> CredentialId, key |-> CredentialKey(d)]
  <2>1. c.aaguid = d.aaguid /\ c.id = CredentialId /\ c.key.value = map
    OBVIOUS
  <2> HIDE DEF c, map, key, d
  <2>2. data.attested = {c}
    BY <1>10 DEF c
  <2> QED
    BY <1>9, <2>1, <2>2 DEF AttestedAsRead, key
<1>14. cred.public_key = key /\ cred.aaguid = d.aaguid
  OBVIOUS
<1> HIDE DEF cred
<1>15. d.attests => Graded(Statements!Verify(a, {})) = Ok
  <2> SUFFICES ASSUME d.attests PROVE Graded(Statements!Verify(a, {})) = Ok
    OBVIOUS
  <2>1. d.alg \in {"ES256", "EdDSA", "RS256"}
    BY <1>3, <1>4 DEF CoseNumbers
  <2>2. a.fmt = "packed" /\ a.stmt = Statement(stmt) /\ a.auth_data = AttestedData(ad)
        /\ a.client_data = cd
    OBVIOUS
  <2>3. a.auth_data.public_key = key
    <3>1. The(ad.attested) = cred
      BY <1>13, TheOnly
    <3> QED
      BY <1>14, <2>2, <3>1 DEF AttestedData
  <2>4. Statement(stmt) = SelfStatement(Number(CoseNumbers[d.alg]),
                             Statements!Signature(key.id, d.alg, <<AttestedData(ad), cd>>))
    BY <1>7 DEF SelfAttestation, SelfStatement
  <2>5. <<AttestedData(ad), cd>> = Statements!ToBeSigned(a)
    BY <2>2 DEF Statements!ToBeSigned
  <2> HIDE DEF a, stmt, map, d
  <2> QED
    BY <1>6, <2>1, <2>2, <2>3, <2>4, <2>5, OwnAttestation
<1> HIDE DEF a, response, d, key
<1>16. response.attestation = Ok
  BY <1>1, <1>15
<1>17. PresenceAnswer(p.id, ad) = Ok
  BY <1>5, <1>8, <1>9 DEF PresenceAnswer
<1>18. BackupPolicyAnswer(p, ad) = Ok
  <2>1. ad.backup_eligible = d.backup_eligible
    BY <1>3, <1>9
  <2> QED
    BY <1>12, <2>1, Zenon DEF BackupPolicyAnswer
<1>19. Allowed(p, d.alg)
  BY DEF Allowed, PubKeyCredParams, d
<1>20. /\ ad.attested # {}
       /\ \A c \in ad.attested : /\ ~Compromised(p, c.aaguid) /\ Allowed(p, CoseAlg(c.public_key))
                                 /\ Convertible(c.public_key)
  <2>1. ~Compromised(p, d.aaguid)
    BY DEF d
  <2> QED
    BY <1>6, <1>13, <1>14, <1>19, <2>1
<1>21. RegistrationBodyAnswer(p, response) = Ok
  BY <1>1, <1>16, <1>17, <1>18, <1>20, Zenon DEF RegistrationBodyAnswer
<1>22. VerifyRegistration(p, Challenge, response, now) =
         IF BindingAnswer(p, "webauthn.create", Challenge, cd, now) # Ok
         THEN BindingAnswer(p, "webauthn.create", Challenge, cd, now)
         ELSE RegistrationBodyAnswer(p, response)
  BY <1>1, RegistrationVerdict
<1> QED
  BY <1>11, <1>21, <1>22 DEF response, now

\* An assertion without a fault is accepted, unless the count has not advanced.
LEMMA FaultlessAssertion ==
    ASSUME Conforming, rp \in Policies, NEW s \in Answers(FALSE), s.fault = "none",
           NEW c, KnownTo(s.device, c), ~SignCountInvalid(c.sign_count, s.count),
           ~(rp.require_user_verification /\ ~s.verified), ~Minds(rp, s)
    PROVE  LookedUpAndVerified(c, AssertionResponses[s], IssuedAt + (Timeout - 1)) = Ok
<1> DEFINE response == AssertionResponses[s]
           d == Devices[s.device]
           ad == ReadBack(s)
           cd == ClientData(s)
           now == IssuedAt + (Timeout - 1)
           key == CoseKey(KeyMap(s.device))
<1>1. /\ response.client_data = cd /\ response.auth_data = ad /\ response.credential_id = "cred"
      /\ response.signature = Sign(SigningKey(s), ad, cd)
  BY Zenon DEF AssertionResponses, AssertionResponse, AssertionOf
<1>2. ~s.create /\ s.create \in BOOLEAN /\ s.device \in DOMAIN Devices
  BY AnswerIs
<1>3. d.backup_eligible \in BOOLEAN
  BY <1>2, DevicesAssumption
<1>4. c.rp_id = "example.com" /\ c.public_key = key /\ c.backup_eligible = d.backup_eligible
  BY DEF KnownTo, Conforming
<1>5. SigningKey(s) = key
  BY DEF SigningKey, Used, KeyMap
<1>6. ad.parse = Ok
  BY FaultlessParsed
<1>7. /\ ad.rp_id = "example.com" /\ ad.user_present /\ ad.user_verified = s.verified
      /\ ad.backup_eligible = (d.backup_eligible # FALSE) /\ ad.sign_count = s.count
  BY <1>6, ReadBackIs
<1>8. BindingAnswer(rp, "webauthn.get", Challenge, cd, now) = Ok
  BY <1>2, FaultlessBinding DEF Minds
<1>9. ~(rp.reject_backup_eligible /\ d.backup_eligible)
      /\ ~(rp.require_backup_eligible /\ ~d.backup_eligible)
  BY Zenon DEF Minds
<1> HIDE DEF response, d, ad, cd, now, key
<1>10. PresenceAnswer(c.rp_id, ad) = Ok
  BY <1>4, <1>6, <1>7 DEF PresenceAnswer
<1>11. ad.backup_eligible = d.backup_eligible
  BY <1>3, <1>7
<1>12. BackupPolicyAnswer(rp, ad) = Ok
  BY <1>9, <1>11, Zenon DEF BackupPolicyAnswer
<1>13. ~(rp.require_user_verification /\ ~ad.user_verified)
  BY <1>7, Zenon
<1>14. VerifySignature(c, response)
  BY <1>1, <1>4, <1>5 DEF VerifySignature
<1>15. AuthenticationBodyAnswer(rp, c, response) = Ok
  BY <1>1, <1>4, <1>7, <1>10, <1>11, <1>12, <1>13, <1>14, Zenon DEF AuthenticationBodyAnswer
<1>16. VerifyAuthentication(rp, c, Challenge, response, now) =
         IF BindingAnswer(rp, "webauthn.get", Challenge, cd, now) # Ok
         THEN BindingAnswer(rp, "webauthn.get", Challenge, cd, now)
         ELSE AuthenticationBodyAnswer(rp, c, response)
  BY <1>1, AuthenticationVerdict
<1>17. response.credential_id # ""
  BY <1>1, Zenon
<1>18. LookedUpAndVerified(c, response, now) = VerifyAuthentication(rp, c, Challenge, response, now)
  BY <1>17, NamedOrRefused, Zenon
<1> QED
  BY <1>8, <1>15, <1>16, <1>18 DEF response, now

-----------------------------------------------------------------------------
(***************************************************************************)
(* Extensions: from the caller's question through the options, the client  *)
(* and the authenticator data to the typed views.                          *)
(***************************************************************************)

\* The entry of an optional field holds what is in it.
LEMMA OptionHeld ==
    ASSUME NEW name, NEW some, IsOption(some)
    PROVE  Optional(name, some) = {Named(name, v) : v \in some}
<1>1. CASE some = {}
  BY <1>1 DEF Optional
<1>2. CASE some # {}
  <2>1. (CHOOSE x \in some : TRUE) \in some
    BY <1>2
  <2> QED
    BY <2>1 DEF Optional, IsOption
<1> QED
  BY <1>1, <1>2

\* What is listed under a name is found under it.
LEMMA FieldListed ==
    ASSUME NEW json, NEW es, Lists(json.entries, es), NEW name
    PROVE  Field(json, name) = {e.value : e \in {f \in es : f.text = name}}
BY DEF Field, Lists

\* A text that is an entry's name: the empty one is that of a label.
IsName(name) == name # ""

\* The map of a list's entries answers what is listed.
LEMMA LookupListed ==
    ASSUME NEW map, NEW es, Lists(map.entries, es), NEW name, IsName(name)
    PROVE  Lookup(ExtensionMap(map), name) = Field(map, name)
<1> DEFINE s == map.entries
           blank == ""
           at(text) == {i \in DOMAIN s : s[i].text = text}
           last(text) == CHOOSE i \in at(text) : \A j \in at(text) : j <= i
           texts == {s[i].text : i \in DOMAIN s} \ {blank}
           read == [text \in texts |-> s[last(text)].value]
<1>2. ExtensionMap(map) = read
  BY Zenon DEF ExtensionMap
<1>3. name # blank
  BY Zenon DEF IsName
<1> HIDE DEF blank
<1>4. /\ DOMAIN s = 1 .. Len(s) /\ Len(s) \in Nat
      /\ \A i, j \in DOMAIN s : s[i].text = s[j].text => i = j
  BY DEF Lists
<1>5. Field(map, name) = {s[i].value : i \in at(name)}
  BY DEF Field, Range
<1>6. CASE at(name) = {}
  <2>1. name \notin DOMAIN read
    BY <1>6
  <2> QED
    BY <1>2, <1>5, <1>6, <2>1 DEF Lookup
<1>7. ASSUME NEW i \in at(name)
      PROVE  Lookup(ExtensionMap(map), name) = Field(map, name)
  <2>1. at(name) = {i}
    BY <1>4, <1>7
  <2>2. last(name) = i
    <3>1. i <= i
      BY <1>4, <1>7
    <3> HIDE DEF at
    <3> QED
      BY <2>1, <3>1
  <2>3. name \in DOMAIN read /\ read[name] = s[i].value
    <3>1. name \in texts
      BY <1>3, <1>7
    <3> HIDE DEF last, texts
    <3> QED
      BY <2>2, <3>1
  <2>4. Lookup(read, name) = {read[name]}
    <3> HIDE DEF read
    <3> QED
      BY <2>3 DEF Lookup
  <2> HIDE DEF at, read
  <2> QED
    BY <1>2, <1>5, <2>1, <2>3, <2>4
<1> QED
  BY <1>6, <1>7

\* The first entry with a key is the only one in a list.
LEMMA FindListed ==
    ASSUME NEW map, NEW es, Lists(map.entries, es), NEW key
    PROVE  FindValue(map, key) = Field(map, key)
<1> DEFINE s == map.entries
           found == {i \in DOMAIN s : s[i].text = key}
           first == {j \in found : \A k \in found : j <= k}
<1>1. /\ DOMAIN s = 1 .. Len(s) /\ Len(s) \in Nat
      /\ \A i, j \in DOMAIN s : s[i].text = s[j].text => i = j
  BY DEF Lists
<1>2. Field(map, key) = {s[i].value : i \in found}
  BY DEF Field, Range
<1>3. first = found
  BY <1>1
<1>4. FindValue(map, key) = {s[i].value : i \in first}
  BY DEF FindValue
<1> QED
  BY <1>2, <1>3, <1>4

\* The extensions, in the order in which both sides write them.
Five(A, B, C, D, E) ==
    IfSome("credProps", A) \o IfSome("prf", B) \o IfSome("largeBlob", C)
      \o IfSome("credProtect", D) \o IfSome("minPinLength", E)

\* Each is found under its name, and where nothing is listed there is nothing.
LEMMA FiveListed ==
    ASSUME NEW A, NEW B, NEW C, NEW D, NEW E,
           IsOption(A), IsOption(B), IsOption(C), IsOption(D), IsOption(E),
           NEW json, json.entries = Five(A, B, C, D, E)
    PROVE  /\ \E es : Lists(json.entries, es)
           /\ Field(json, "credProps") = A /\ Field(json, "prf") = B
           /\ Field(json, "largeBlob") = C /\ Field(json, "credProtect") = D
           /\ Field(json, "minPinLength") = E /\ Field(json, "appid") = {}
           /\ json.entries = <<>> =>
                 A = {} /\ B = {} /\ C = {} /\ D = {} /\ E = {}
<1> DEFINE s1 == IfSome("credProps", A)
           E1 == Optional("credProps", A)
           N1 == {"credProps"}
           s2 == s1 \o IfSome("prf", B)
           E2 == E1 \union Optional("prf", B)
           N2 == N1 \union {"prf"}
           s3 == s2 \o IfSome("largeBlob", C)
           E3 == E2 \union Optional("largeBlob", C)
           N3 == N2 \union {"largeBlob"}
           s4 == s3 \o IfSome("credProtect", D)
           E4 == E3 \union Optional("credProtect", D)
           N4 == N3 \union {"credProtect"}
           s5 == s4 \o IfSome("minPinLength", E)
           E5 == E4 \union Optional("minPinLength", E)
           N5 == N4 \union {"minPinLength"}
<1>1. json.entries = s5
  BY DEF Five
<1>2. Listing(s1, E1, N1, CountOf(A))
  BY ListingOptional
<1> HIDE DEF s1
<1>3. Listing(s2, E2, N2, CountOf(A) + CountOf(B))
  BY <1>2, ListingAndOptional DEF CountOf
<1> HIDE DEF s2
<1>4. Listing(s3, E3, N3, CountOf(A) + CountOf(B) + CountOf(C))
  BY <1>3, ListingAndOptional DEF CountOf
<1> HIDE DEF s3
<1>5. Listing(s4, E4, N4, CountOf(A) + CountOf(B) + CountOf(C) + CountOf(D))
  BY <1>4, ListingAndOptional DEF CountOf
<1> HIDE DEF s4
<1>6. Listing(s5, E5, N5, CountOf(A) + CountOf(B) + CountOf(C) + CountOf(D) + CountOf(E))
  BY <1>5, ListingAndOptional DEF CountOf
<1> HIDE DEF s5
<1>7. E5 = {Named("credProps", v) : v \in A} \union {Named("prf", v) : v \in B}
             \union {Named("largeBlob", v) : v \in C} \union {Named("credProtect", v) : v \in D}
             \union {Named("minPinLength", v) : v \in E}
  BY OptionHeld
<1> HIDE DEF E5
<1>8. \A name, v : Named(name, v).text = name /\ Named(name, v).value = v
  BY DEF Named
<1>9. Lists(json.entries, E5) /\ Len(json.entries) = CountOf(A) + CountOf(B) + CountOf(C) + CountOf(D) + CountOf(E)
  BY <1>1, <1>6 DEF Listing
<1>10. \A name : Field(json, name) = {e.value : e \in {f \in E5 : f.text = name}}
  BY <1>9, FieldListed
<1>11. /\ {e.value : e \in {f \in E5 : f.text = "credProps"}} = A
       /\ {e.value : e \in {f \in E5 : f.text = "prf"}} = B
       /\ {e.value : e \in {f \in E5 : f.text = "largeBlob"}} = C
       /\ {e.value : e \in {f \in E5 : f.text = "credProtect"}} = D
       /\ {e.value : e \in {f \in E5 : f.text = "minPinLength"}} = E
       /\ {e.value : e \in {f \in E5 : f.text = "appid"}} = {}
  BY <1>7, <1>8
<1>12. ASSUME json.entries = <<>>
       PROVE  A = {} /\ B = {} /\ C = {} /\ D = {} /\ E = {}
  BY <1>9, <1>12 DEF CountOf
<1> QED
  BY <1>9, <1>10, <1>11, <1>12

\* What is listed under a key is the value found.
LEMMA FindAmong ==
    ASSUME NEW map, NEW es, Lists(map.entries, es), NEW key
    PROVE  FindValue(map, key) = {e.value : e \in {f \in es : f.text = key}}
<1>1. FindValue(map, key) = Field(map, key)
  BY FindListed
<1>2. Field(map, key) = {e.value : e \in {f \in es : f.text = key}}
  BY FieldListed
<1> QED
  BY <1>1, <1>2

\* One of a list of one.
LEMMA OneListed ==
    ASSUME NEW name, NEW value, NEW key
    PROVE  FindValue(CborMap(<<Named(name, value)>>), key) = IF key = name THEN {value} ELSE {}
<1> DEFINE map == CborMap(<<Named(name, value)>>)
<1>1. Lists(map.entries, {Named(name, value)})
  BY GivenLists DEF Given, CborMap
<1> HIDE DEF map
<1>2. FindValue(map, key) = {e.value : e \in {f \in {Named(name, value)} : f.text = key}}
  BY <1>1, FindAmong
<1> QED
  BY <1>2 DEF Named, map

\* A value that is there or not, and one behind another.
LEMMA OptionFound ==
    ASSUME NEW name, NEW some, IsOption(some)
    PROVE  FindValue(CborMap(IfSome(name, some)), name) = some
<1> DEFINE map == CborMap(IfSome(name, some))
<1>1. Lists(map.entries, Optional(name, some))
  BY IfSomeLists DEF CborMap
<1> HIDE DEF map
<1>2. FindValue(map, name) = {e.value : e \in {f \in Optional(name, some) : f.text = name}}
  BY <1>1, FindAmong
<1>3. Optional(name, some) = {Named(name, v) : v \in some}
  BY OptionHeld
<1>4. FindValue(map, name) = some
  <2>1. \A x : Named(name, x).text = name /\ Named(name, x).value = x
    BY DEF Named
  <2>2. {e.value : e \in {f \in Optional(name, some) : f.text = name}} = some
    BY <1>3, <2>1
  <2> QED
    BY <1>2, <2>2
<1> QED
  BY <1>4 DEF map

\* The two inputs of prf are found in an output that repeats them.
LEMMA EvalFound ==
    ASSUME NEW eval, IsOption(eval.second)
    PROVE  LET map == CborMap(PrfEvalInput(eval).entries)
           IN  map.type = "map" /\ FindBytes(map, "first") = {eval.first}
               /\ FindBytes(map, "second") = eval.second
<1> DEFINE v == Bytes(eval.first)
           w == {Bytes(second) : second \in eval.second}
           s == Given("first", v) \o IfSome("second", w)
           E == {Named("first", v)} \union Optional("second", w)
           map == CborMap(PrfEvalInput(eval).entries)
<1>1. map.entries = s /\ map.type = "map"
  BY DEF PrfEvalInput, Object, CborMap
<1>2. \A o : Bytes(o).type = "bytes" /\ Bytes(o).octets = o
  BY DEF Bytes
<1>3. IsOption(w)
  BY DEF IsOption
<1> HIDE DEF map, v, w
<1>4. Listing(s, E, {"first"} \union {"second"}, 1 + CountOf(w))
  BY ListingOne, ListingAndOptional
<1>5. Lists(map.entries, E)
  BY <1>1, <1>4 DEF Listing
<1>6. E = {Named("first", v)} \union {Named("second", x) : x \in w}
  BY <1>3, OptionHeld
<1> HIDE DEF E
<1>7. ASSUME NEW key PROVE FindValue(map, key) = {e.value : e \in {f \in E : f.text = key}}
  BY <1>5, FindAmong
<1>8. FindValue(map, "first") = {v} /\ FindValue(map, "second") = w
  <2>1. \A name, x : Named(name, x).text = name /\ Named(name, x).value = x
    BY DEF Named
  <2>2. /\ {e.value : e \in {f \in E : f.text = "first"}} = {v}
        /\ {e.value : e \in {f \in E : f.text = "second"}} = w
    BY <1>6, <2>1
  <2> QED
    BY <1>7, <2>2
<1>9. FindBytes(map, "first") = {eval.first} /\ FindBytes(map, "second") = eval.second
  BY <1>2, <1>8 DEF FindBytes, v, w
<1> QED
  BY <1>1, <1>9 DEF map

\* The output of prf.
PrfMap(prf) == CborMap(IfSome("results", {CborMap(PrfEvalInput(eval).entries) : eval \in prf.eval}))

\* Its view is the input.
LEMMA PrfSeen ==
    ASSUME NEW map, NEW some, MapAt(map, "prf") = {PrfMap(prf) : prf \in some},
           \A prf \in some : IsOption(prf.eval) /\ \A eval \in prf.eval :
               IsOption(eval.second) /\ eval = [first |-> eval.first, second |-> eval.second]
    PROVE  Prf(map) = {[results |-> prf.eval] : prf \in some}
<1> DEFINE results(m) ==
            UNION {{[first |-> n, second |-> FindBytes(r, "second")] : n \in FindBytes(r, "first")} :
                      r \in {v \in FindValue(m, "results") : v.type = "map"}}
<1>1. ASSUME NEW prf \in some
      PROVE  /\ results(PrfMap(prf)) = prf.eval
             /\ FindValue(PrfMap(prf), "results") # {} => results(PrfMap(prf)) # {}
  <2> DEFINE m == PrfMap(prf)
             found == {CborMap(PrfEvalInput(eval).entries) : eval \in prf.eval}
  <2>1. IsOption(prf.eval)
    BY <1>1
  <2>2. IsOption(found)
    BY <2>1 DEF IsOption
  <2>3. FindValue(m, "results") = found
    BY <2>2, OptionFound DEF PrfMap
  <2>4. \A eval \in prf.eval : /\ CborMap(PrfEvalInput(eval).entries).type = "map"
                               /\ FindBytes(CborMap(PrfEvalInput(eval).entries), "first") = {eval.first}
                               /\ FindBytes(CborMap(PrfEvalInput(eval).entries), "second") = eval.second
                               /\ eval = [first |-> eval.first, second |-> eval.second]
    BY <1>1, EvalFound
  <2> HIDE DEF m
  <2>5. {v \in FindValue(m, "results") : v.type = "map"} = found
    BY <2>3, <2>4
  <2>6. results(m) = UNION {{[first |-> n, second |-> FindBytes(r, "second")] :
                                n \in FindBytes(r, "first")} : r \in found}
    BY <2>5
  <2>7. results(m) = prf.eval
    <3>1. \A eval \in prf.eval :
             {[first |-> n, second |-> FindBytes(CborMap(PrfEvalInput(eval).entries), "second")] :
                 n \in FindBytes(CborMap(PrfEvalInput(eval).entries), "first")} = {eval}
      BY <2>4
    <3> HIDE DEF results
    <3> QED
      BY <2>6, <3>1
  <2> QED
    BY <2>3, <2>7 DEF m
<1> HIDE DEF results
<1>2. Prf(map) = {[results |-> results(m)] : m \in
                     {outer \in MapAt(map, "prf") :
                         FindValue(outer, "results") # {} => results(outer) # {}}}
  BY DEF Prf, results
<1> QED
  BY <1>1, <1>2

\* The outputs of an authenticator, as the typed views see them.
LEMMA OutputsSeen ==
    ASSUME NEW A, NEW B, NEW C, NEW D, NEW E,
           IsOption(A), IsOption(B), IsOption(C), IsOption(D), IsOption(E),
           NEW map, map = ExtensionMap(CborMap(Five(A, B, C, D, E)))
    PROVE  /\ Lookup(map, "credProps") = A /\ Lookup(map, "prf") = B
           /\ Lookup(map, "largeBlob") = C /\ Lookup(map, "credProtect") = D
           /\ Lookup(map, "minPinLength") = E /\ Lookup(map, "appid") = {}
<1> DEFINE cbor == CborMap(Five(A, B, C, D, E))
<1>1. cbor.entries = Five(A, B, C, D, E)
  BY DEF CborMap
<1>2. map = ExtensionMap(cbor)
  OBVIOUS
<1>3. /\ IsName("credProps") /\ IsName("prf") /\ IsName("largeBlob")
      /\ IsName("credProtect") /\ IsName("minPinLength") /\ IsName("appid")
  BY Zenon DEF IsName
<1> HIDE DEF cbor
<1>4. /\ \E es : Lists(cbor.entries, es)
      /\ Field(cbor, "credProps") = A /\ Field(cbor, "prf") = B
      /\ Field(cbor, "largeBlob") = C /\ Field(cbor, "credProtect") = D
      /\ Field(cbor, "minPinLength") = E /\ Field(cbor, "appid") = {}
  BY <1>1, FiveListed
<1>5. ASSUME NEW name, IsName(name)
      PROVE  Lookup(map, name) = Field(cbor, name)
  BY <1>2, <1>4, <1>5, LookupListed
<1> QED
  BY <1>3, <1>4, <1>5

\* Which number stands for which policy.
PolicyNumber(policy) ==
    CASE policy = "UserVerificationOptional" -> 1
      [] policy = "UserVerificationOptionalWithCredentialIdList" -> 2
      [] policy = "UserVerificationRequired" -> 3

\* What an authenticator puts out for what is asked of it.
Answered(r, blob) ==
    Five({CborMap(<<Named("rk", Bool(TRUE))>>) : b \in {c \in r.cred_props : c}},
         {PrfMap(prf) : prf \in r.prf},
         {CborMap(<<blob[b]>>) : b \in r.large_blob},
         {Number(PolicyNumber(c.policy)) : c \in r.cred_protect},
         {Number(4) : b \in {c \in r.min_pin_length : c}})

\* What is seen of a large blob's only entry.
BlobView(entry) ==
    LET map == CborMap(<<entry>>)
    IN  [ supported |-> FindBool(map, "supported"), blob |-> FindBytes(map, "blob"),
          written |-> FindBool(map, "written") ]

\* What an authenticator can answer.
Answerable(r) ==
    /\ OptionsOf(r) /\ MaxU32 >= 4
    /\ {c.policy : c \in r.cred_protect} \subseteq
          {"UserVerificationOptional", "UserVerificationOptionalWithCredentialIdList",
           "UserVerificationRequired"}

\* What is put out is seen as it was meant.
LEMMA AnsweredViews ==
    ASSUME NEW r, Answerable(r), NEW blob
    PROVE  Views(ExtensionMap(CborMap(Answered(r, blob)))) =
             [ cred_props     |-> {[rk |-> {TRUE}] : b \in {c \in r.cred_props : c}},
               appid          |-> {},
               prf            |-> {[results |-> prf.eval] : prf \in r.prf},
               large_blob     |-> {BlobView(blob[b]) : b \in r.large_blob},
               cred_protect   |-> {c.policy : c \in r.cred_protect},
               min_pin_length |-> {4 : b \in {c \in r.min_pin_length : c}} ]
<1> DEFINE rk == CborMap(<<Named("rk", Bool(TRUE))>>)
           A == {rk : b \in {c \in r.cred_props : c}}
           B == {PrfMap(prf) : prf \in r.prf}
           C == {CborMap(<<blob[b]>>) : b \in r.large_blob}
           D == {Number(PolicyNumber(c.policy)) : c \in r.cred_protect}
           E == {Number(4) : b \in {c \in r.min_pin_length : c}}
           map == ExtensionMap(CborMap(Answered(r, blob)))
<1>1. map = ExtensionMap(CborMap(Five(A, B, C, D, E)))
  BY DEF Answered
<1>2. IsOption(A) /\ IsOption(B) /\ IsOption(C) /\ IsOption(D) /\ IsOption(E)
  <2>1. /\ IsOption(r.cred_props) /\ IsOption(r.prf) /\ IsOption(r.large_blob)
        /\ IsOption(r.cred_protect) /\ IsOption(r.min_pin_length)
    BY DEF Answerable, OptionsOf
  <2> HIDE DEF rk
  <2> QED
    BY <2>1 DEF IsOption
<1>3. \A x : CborMap(x).type = "map"
  BY DEF CborMap
<1>4. \A n : Number(n).type = "int" /\ Number(n).int = n
  BY DEF Number
<1>5. MaxU32 \in Nat /\ MaxU32 >= 4
  BY MaxU32Assumption DEF Answerable
<1> HIDE DEF map, A, B, C, D, E
<1>6. /\ Lookup(map, "credProps") = A /\ Lookup(map, "prf") = B
      /\ Lookup(map, "largeBlob") = C /\ Lookup(map, "credProtect") = D
      /\ Lookup(map, "minPinLength") = E /\ Lookup(map, "appid") = {}
  BY <1>1, <1>2, OutputsSeen
<1>7. CredProps(map) = {[rk |-> {TRUE}] : b \in {c \in r.cred_props : c}}
  <2>1. FindValue(rk, "rk") = {Bool(TRUE)}
    BY OneListed
  <2>2. Bool(TRUE).type = "bool" /\ Bool(TRUE).bool = TRUE
    BY DEF Bool
  <2>3. rk.type = "map"
    BY <1>3
  <2> HIDE DEF rk
  <2>5. FindBool(rk, "rk") = {TRUE}
    BY <2>1, <2>2 DEF FindBool
  <2>4. MapAt(map, "credProps") = A
    BY <1>6, <2>3 DEF MapAt, A
  <2> QED
    BY <2>5, <2>4 DEF CredProps, A
<1>8. AppId(map) = {}
  BY <1>6 DEF AppId
<1>9. Prf(map) = {[results |-> prf.eval] : prf \in r.prf}
  <2>1. \A prf : PrfMap(prf).type = "map"
    BY DEF PrfMap, CborMap
  <2>2. MapAt(map, "prf") = {PrfMap(prf) : prf \in r.prf}
    BY <1>6, <2>1 DEF MapAt, B
  <2>3. \A prf \in r.prf : IsOption(prf.eval) /\ \A eval \in prf.eval :
            IsOption(eval.second) /\ eval = [first |-> eval.first, second |-> eval.second]
    BY DEF Answerable, OptionsOf
  <2> QED
    BY <2>2, <2>3, PrfSeen
<1>10. LargeBlob(map) = {BlobView(blob[b]) : b \in r.large_blob}
  <2>1. MapAt(map, "largeBlob") = {CborMap(<<blob[b]>>) : b \in r.large_blob}
    BY <1>3, <1>6 DEF MapAt, C
  <2> QED
    BY <2>1 DEF LargeBlob, BlobView
<1>11. CredProtect(map) = {c.policy : c \in r.cred_protect}
  <2> DEFINE names == <<"UserVerificationOptional", "UserVerificationOptionalWithCredentialIdList",
                        "UserVerificationRequired">>
  <2>1. NumberAt(map, "credProtect") = {PolicyNumber(c.policy) : c \in r.cred_protect}
    BY <1>4, <1>6 DEF NumberAt, D
  <2>2. \A c \in r.cred_protect :
           /\ PolicyNumber(c.policy) \in 0 .. 255 /\ PolicyNumber(c.policy) \in 1 .. 3
           /\ names[PolicyNumber(c.policy)] = c.policy
    BY DEF PolicyNumber, Answerable
  <2>3. CredProtect(map) = {names[n] : n \in {m \in NumberAt(map, "credProtect") :
                                                 m \in 0 .. 255 /\ m \in 1 .. 3}}
    BY DEF CredProtect
  <2> HIDE DEF names
  <2> QED
    BY <2>1, <2>2, <2>3
<1>12. MinPinLength(map) = {4 : b \in {c \in r.min_pin_length : c}}
  <2>1. NumberAt(map, "minPinLength") = {4 : b \in {c \in r.min_pin_length : c}}
    BY <1>4, <1>6 DEF NumberAt, E
  <2> QED
    BY <1>5, <2>1 DEF MinPinLength
<1> QED
  BY <1>7, <1>8, <1>9, <1>10, <1>11, <1>12 DEF Views, map

\* The outputs are those for the inputs under each name.
OutputsUnder(object, name) == UNION {Output(name, input) : input \in Field(object, name)}

\* An authenticator puts out what the input under each name calls for.
LEMMA OutputsAre ==
    ASSUME NEW options, NEW object, Field(options, "extensions") = {object}
    PROVE  ExtensionOutputs(options) =
             Five(OutputsUnder(object, "credProps"), OutputsUnder(object, "prf"),
                  OutputsUnder(object, "largeBlob"), OutputsUnder(object, "credProtect"),
                  OutputsUnder(object, "minPinLength"))
<1> DEFINE inputs(name) == UNION {Field(o, name) : o \in Field(options, "extensions")}
           outputs(name) == IfSome(name, UNION {Output(name, input) : input \in inputs(name)})
<1>1. ASSUME NEW name PROVE outputs(name) = IfSome(name, OutputsUnder(object, name))
  <2>1. inputs(name) = Field(object, name)
    OBVIOUS
  <2> HIDE DEF inputs
  <2> QED
    BY <2>1 DEF OutputsUnder
<1> HIDE DEF outputs, inputs
<1>2. ExtensionOutputs(options) = outputs("credProps") \o outputs("prf") \o outputs("largeBlob")
                                     \o outputs("credProtect") \o outputs("minPinLength")
  BY DEF ExtensionOutputs, outputs, inputs
<1> QED
  BY <1>1, <1>2 DEF Five

\* The input of an evaluation, read from the input of the prf extension.
LEMMA PrfOutputIs ==
    ASSUME NEW prf, IsOption(prf.eval)
    PROVE  Output("prf", PrfInput(prf)) = {PrfMap(prf)}
<1> DEFINE some == {PrfEvalInput(eval) : eval \in prf.eval}
           input == PrfInput(prf)
<1>1. IsOption(some)
  BY DEF IsOption
<1>2. input.entries = IfSome("eval", some)
  BY DEF PrfInput, Object
<1>3. \A name, x : Named(name, x).text = name /\ Named(name, x).value = x
  BY DEF Named
<1>4. Output("prf", input) = {CborMap(IfSome("results", {CborMap(e.entries) : e \in Field(input, "eval")}))}
  BY DEF Output, PrfOutput
<1> DEFINE tried == {CborMap(e.entries) : e \in some}
<1>5. tried = {CborMap(PrfEvalInput(eval).entries) : eval \in prf.eval}
  OBVIOUS
<1> HIDE DEF input, some
<1>6. Field(input, "eval") = some
  <2>1. Lists(input.entries, Optional("eval", some))
    BY <1>2, IfSomeLists
  <2>2. Optional("eval", some) = {Named("eval", x) : x \in some}
    BY <1>1, OptionHeld
  <2>3. {e.value : e \in {f \in Optional("eval", some) : f.text = "eval"}} = some
    BY <1>3, <2>2
  <2>4. Field(input, "eval") = {e.value : e \in {f \in Optional("eval", some) : f.text = "eval"}}
    BY <2>1, FieldListed
  <2> QED
    BY <2>3, <2>4
<1>7. Output("prf", input) = {CborMap(IfSome("results", tried))}
  BY <1>4, <1>6
<1> QED
  BY <1>5, <1>7 DEF PrfMap, input

\* The policy by its string, of which only the number comes back.
LEMMA CredProtectOutputIs ==
    ASSUME NEW c, c.policy \in {"UserVerificationOptional",
                                "UserVerificationOptionalWithCredentialIdList",
                                "UserVerificationRequired"}
    PROVE  Output("credProtect", CredProtectInput(c)) = {Number(PolicyNumber(c.policy))}
<1> DEFINE v == Text(CredProtectPolicyStr(c.policy))
           w == Bool(c.enforce)
           input == CredProtectInput(c)
           s == Given("credentialProtectionPolicy", v)
                  \o Given("enforceCredentialProtectionPolicy", w)
           es == {Named("credentialProtectionPolicy", v)}
                   \union {Named("enforceCredentialProtectionPolicy", w)}
           policies == <<"userVerificationOptional", "userVerificationOptionalWithCredentialIDList",
                         "userVerificationRequired">>
<1>1. input.entries = s
  BY DEF CredProtectInput, Object
<1>2. \A name, x : Named(name, x).text = name /\ Named(name, x).value = x
  BY DEF Named
<1>3. Output("credProtect", input) =
         {Number(i) : i \in {j \in DOMAIN policies :
                        Text(policies[j]) \in Field(input, "credentialProtectionPolicy")}}
  BY DEF Output, CredProtectOutput
<1> HIDE DEF v, w, input
<1>4. Lists(s, es)
  <2> DEFINE s1 == Given("credentialProtectionPolicy", v)
             es1 == {Named("credentialProtectionPolicy", v)}
             names == {"credentialProtectionPolicy"}
  <2>1. Listing(s1, es1, names, 1)
    BY ListingOne
  <2>2. "enforceCredentialProtectionPolicy" \notin names
    OBVIOUS
  <2> HIDE DEF s1, es1, names
  <2>3. Lists(s1 \o Given("enforceCredentialProtectionPolicy", w),
              es1 \union {Named("enforceCredentialProtectionPolicy", w)})
    BY <2>1, <2>2, ListingAnd DEF Listing
  <2> QED
    BY <2>3 DEF s1, es1
<1>5. {e.value : e \in {f \in es : f.text = "credentialProtectionPolicy"}} = {v}
  BY <1>2
<1> HIDE DEF es, s
<1>6. Field(input, "credentialProtectionPolicy") = {v}
  <2>1. Lists(input.entries, es)
    BY <1>1, <1>4
  <2>2. Field(input, "credentialProtectionPolicy") =
          {e.value : e \in {f \in es : f.text = "credentialProtectionPolicy"}}
    BY <2>1, FieldListed
  <2> QED
    BY <1>5, <2>2
<1>7. \A x, y : Text(x) = Text(y) => x = y
  <2>1. \A x : Text(x).text = x
    BY DEF Text
  <2> QED
    BY <2>1
<1>8. /\ DOMAIN policies = 1 .. 3 /\ PolicyNumber(c.policy) \in 1 .. 3
      /\ \A j \in 1 .. 3 : policies[j] = CredProtectPolicyStr(c.policy) <=> j = PolicyNumber(c.policy)
  BY DEF PolicyNumber, CredProtectPolicyStr
<1> HIDE DEF policies
<1>9. {j \in DOMAIN policies : Text(policies[j]) \in Field(input, "credentialProtectionPolicy")} =
         {PolicyNumber(c.policy)}
  BY <1>6, <1>7, <1>8 DEF v
<1> QED
  BY <1>3, <1>9 DEF input

\* The blob: whether it is supported at a registration; what was read or
\* whether it was written at an authentication.
LEMMA LargeBlobOutputIs ==
    /\ \A support : Output("largeBlob", LargeBlobRegistrationInput(support)) =
                      {CborMap(<<Named("supported", Bool(TRUE))>>)}
    /\ \A write : IsOption(write) =>
          Output("largeBlob", LargeBlobAuthenticationInput(write)) =
             {CborMap(<<IF write = {} THEN Named("blob", Bytes(Octets(2, 6)))
                        ELSE Named("written", Bool(TRUE))>>)}
<1>1. \A name, x : Named(name, x).text = name /\ Named(name, x).value = x
  BY DEF Named
<1>2. ASSUME NEW name, NEW value, NEW input, input.entries = Given(name, value), NEW other
      PROVE  Field(input, other) = IF other = name THEN {value} ELSE {}
  <2>1. Lists(input.entries, {Named(name, value)})
    BY <1>2, GivenLists
  <2>2. {e.value : e \in {f \in {Named(name, value)} : f.text = other}} =
           IF other = name THEN {value} ELSE {}
    BY <1>1
  <2> QED
    BY <2>1, <2>2, FieldListed
<1>3. \A input : Output("largeBlob", input) = {CborMap(<<LargeBlobOutput(input)>>)}
  BY DEF Output
<1>4. ASSUME NEW support
      PROVE  LargeBlobOutput(LargeBlobRegistrationInput(support)) = Named("supported", Bool(TRUE))
  <2> DEFINE input == LargeBlobRegistrationInput(support)
  <2>1. input.entries = Given("support", Text(support))
    BY DEF LargeBlobRegistrationInput, Object
  <2> HIDE DEF input
  <2>2. Field(input, "read") = {} /\ Field(input, "write") = {}
    BY <1>2, <2>1
  <2>3. LargeBlobOutput(input) = Named("supported", Bool(TRUE))
    BY <2>2 DEF LargeBlobOutput
  <2> QED
    BY <2>3 DEF input
<1>5. ASSUME NEW write, IsOption(write)
      PROVE  LargeBlobOutput(LargeBlobAuthenticationInput(write)) =
               IF write = {} THEN Named("blob", Bytes(Octets(2, 6))) ELSE Named("written", Bool(TRUE))
  <2> DEFINE input == LargeBlobAuthenticationInput(write)
  <2>1. CASE write = {}
    <3> DEFINE yes == Bool(TRUE)
    <3>1. input.entries = Given("read", yes)
      BY <2>1 DEF LargeBlobAuthenticationInput, Object
    <3> HIDE DEF input, yes
    <3>2. Field(input, "read") # {}
      BY <1>2, <3>1
    <3>3. LargeBlobOutput(input) = Named("blob", Bytes(Octets(2, 6)))
      BY <3>2 DEF LargeBlobOutput
    <3> QED
      BY <2>1, <3>3 DEF input
  <2>2. CASE write # {}
    <3> DEFINE some == {Bytes(octets) : octets \in write}
               v == CHOOSE x \in some : TRUE
    <3>4. input.entries = IfSome("write", some)
      BY <2>2 DEF LargeBlobAuthenticationInput, Object
    <3>5. some # {}
      BY <2>2
    <3> HIDE DEF input, some
    <3>1. input.entries = Given("write", v)
      BY <3>4, <3>5 DEF IfSome
    <3> HIDE DEF v
    <3>2. Field(input, "read") = {} /\ Field(input, "write") # {}
      BY <1>2, <3>1
    <3>3. LargeBlobOutput(input) = Named("written", Bool(TRUE))
      BY <3>2 DEF LargeBlobOutput
    <3> QED
      BY <2>2, <3>3 DEF input
  <2> QED
    BY <2>1, <2>2
<1> QED
  BY <1>3, <1>4, <1>5

\* What a flag that is set calls for.
BoolOutput(name) ==
    IF name = "credProps" THEN CborMap(<<Named("rk", Bool(TRUE))>>) ELSE Number(4)

\* A flag that is not set calls for nothing.
LEMMA FlagOutputIs ==
    ASSUME NEW name \in {"credProps", "minPinLength"}, NEW flags \in SUBSET BOOLEAN
    PROVE  UNION {Output(name, input) : input \in {Bool(b) : b \in flags}} =
             {BoolOutput(name) : b \in {c \in flags : c}}
<1>1. \A b \in BOOLEAN : Bool(b).bool = b
  BY DEF Bool
<1>2. \A input : Output(name, input) = {BoolOutput(name) : b \in {c \in {input} : c.bool}}
  BY DEF Output, BoolOutput
<1>3. ASSUME NEW b \in flags
      PROVE  Output(name, Bool(b)) = IF b THEN {BoolOutput(name)} ELSE {}
  <2> DEFINE input == Bool(b)
  <2>1. Output(name, input) = {BoolOutput(name) : x \in {c \in {input} : c.bool}}
    BY <1>2
  <2>2. input.bool = b
    BY <1>1
  <2> HIDE DEF input
  <2>3. Output(name, input) = IF b THEN {BoolOutput(name)} ELSE {}
    BY <2>1, <2>2
  <2> QED
    BY <2>3 DEF input
<1> QED
  BY <1>3

\* A registration's question is answered extension by extension.
LEMMA RegistrationAnswered ==
    ASSUME NEW r, OptionsOf(r), RegistrationAsks(r),
           NEW options, Field(options, "extensions") = {RegistrationExtensions(r)}
    PROVE  ExtensionOutputs(options) =
             Answered(r, [b \in r.large_blob |-> Named("supported", Bool(TRUE))])
<1> DEFINE object == RegistrationExtensions(r)
           blob == [b \in r.large_blob |-> Named("supported", Bool(TRUE))]
           A == {Bool(b) : b \in r.cred_props}
           B == {PrfInput(prf) : prf \in r.prf}
           C == {LargeBlobRegistrationInput(s) : s \in r.large_blob}
           D == {CredProtectInput(c) : c \in r.cred_protect}
           E == {Bool(b) : b \in r.min_pin_length}
<1>1. object.entries = Five(A, B, C, D, E)
  BY DEF RegistrationExtensions, Object, Five
<1>2. IsOption(A) /\ IsOption(B) /\ IsOption(C) /\ IsOption(D) /\ IsOption(E)
  BY DEF OptionsOf, IsOption
<1> HIDE DEF object
<1>3. /\ Field(object, "credProps") = A /\ Field(object, "prf") = B
      /\ Field(object, "largeBlob") = C /\ Field(object, "credProtect") = D
      /\ Field(object, "minPinLength") = E
  <2> HIDE DEF A, B, C, D, E
  <2> QED
    BY <1>1, <1>2, FiveListed
<1>4. OutputsUnder(object, "credProps") =
         {CborMap(<<Named("rk", Bool(TRUE))>>) : b \in {c \in r.cred_props : c}}
  <2>1. r.cred_props \in SUBSET BOOLEAN
    BY DEF RegistrationAsks
  <2>2. OutputsUnder(object, "credProps") = {BoolOutput("credProps") : b \in {c \in r.cred_props : c}}
    BY <1>3, <2>1, FlagOutputIs DEF OutputsUnder
  <2> QED
    BY <2>2 DEF BoolOutput
<1>5. OutputsUnder(object, "prf") = {PrfMap(prf) : prf \in r.prf}
  <2>1. \A prf \in r.prf : Output("prf", PrfInput(prf)) = {PrfMap(prf)}
    BY PrfOutputIs DEF OptionsOf
  <2>2. OutputsUnder(object, "prf") = UNION {Output("prf", input) : input \in B}
    BY <1>3 DEF OutputsUnder
  <2> QED
    BY <2>1, <2>2
<1>6. OutputsUnder(object, "largeBlob") = {CborMap(<<blob[b]>>) : b \in r.large_blob}
  <2>1. OutputsUnder(object, "largeBlob") = UNION {Output("largeBlob", input) : input \in C}
    BY <1>3 DEF OutputsUnder
  <2>2. \A b \in r.large_blob : Output("largeBlob", LargeBlobRegistrationInput(b)) = {CborMap(<<blob[b]>>)}
    BY LargeBlobOutputIs
  <2> DEFINE out(b) == CborMap(<<blob[b]>>)
  <2>3. \A b \in r.large_blob : Output("largeBlob", LargeBlobRegistrationInput(b)) = {out(b)}
    BY <2>2
  <2> HIDE DEF out
  <2>4. OutputsUnder(object, "largeBlob") = {out(b) : b \in r.large_blob}
    BY <2>1, <2>3
  <2> QED
    BY <2>4 DEF out
<1>7. OutputsUnder(object, "credProtect") = {Number(PolicyNumber(c.policy)) : c \in r.cred_protect}
  <2>1. OutputsUnder(object, "credProtect") = UNION {Output("credProtect", input) : input \in D}
    BY <1>3 DEF OutputsUnder
  <2>2. \A c \in r.cred_protect :
           Output("credProtect", CredProtectInput(c)) = {Number(PolicyNumber(c.policy))}
    BY CredProtectOutputIs DEF RegistrationAsks
  <2> QED
    BY <2>1, <2>2
<1>8. OutputsUnder(object, "minPinLength") = {Number(4) : b \in {c \in r.min_pin_length : c}}
  <2>1. r.min_pin_length \in SUBSET BOOLEAN
    BY DEF RegistrationAsks
  <2>2. OutputsUnder(object, "minPinLength") = {BoolOutput("minPinLength") : b \in {c \in r.min_pin_length : c}}
    BY <1>3, <2>1, FlagOutputIs DEF OutputsUnder
  <2> QED
    BY <2>2 DEF BoolOutput
<1>9. Field(options, "extensions") = {object}
  BY DEF object
<1> HIDE DEF blob
<1>10. ExtensionOutputs(options) = Answered(r, blob)
  BY <1>4, <1>5, <1>6, <1>7, <1>8, <1>9, OutputsAre DEF Answered
<1> QED
  BY <1>10 DEF blob

\* A large blob is read, or written.
BlobAnswer(write) ==
    IF write = {} THEN Named("blob", Bytes(Octets(2, 6))) ELSE Named("written", Bool(TRUE))

\* And an authentication's.
LEMMA AuthenticationAnswered ==
    ASSUME NEW r, OptionsOf(r), AuthenticationAsks(r),
           NEW options, Field(options, "extensions") = {AuthenticationExtensions(r)}
    PROVE  ExtensionOutputs(options) = Answered(r, [b \in r.large_blob |-> BlobAnswer(b)])
<1> DEFINE object == AuthenticationExtensions(r)
           blob == [b \in r.large_blob |-> BlobAnswer(b)]
           B == {PrfInput(prf) : prf \in r.prf}
           C == {LargeBlobAuthenticationInput(s) : s \in r.large_blob}
           s == IfSome("prf", B) \o IfSome("largeBlob", C)
           es == Optional("prf", B) \union Optional("largeBlob", C)
<1>1. object.entries = s
  BY DEF AuthenticationExtensions, Object
<1>2. IsOption(B) /\ IsOption(C)
  BY DEF OptionsOf, IsOption
<1> HIDE DEF object, B, C
<1>3. Lists(s, es)
  <2> DEFINE s1 == IfSome("prf", B)
             es1 == Optional("prf", B)
             names == {"prf"}
  <2>1. Listing(s1, es1, names, CountOf(B))
    BY ListingOptional
  <2>2. "largeBlob" \notin names
    OBVIOUS
  <2> HIDE DEF s1, es1, names
  <2>3. Lists(s1 \o IfSome("largeBlob", C), es1 \union Optional("largeBlob", C))
    BY <2>1, <2>2, ListingAndOptional DEF Listing
  <2> QED
    BY <2>3 DEF s1, es1
<1>4. es = {Named("prf", v) : v \in B} \union {Named("largeBlob", v) : v \in C}
  BY <1>2, OptionHeld
<1> HIDE DEF es, s
<1>5. ASSUME NEW name PROVE Field(object, name) = {e.value : e \in {f \in es : f.text = name}}
  BY <1>1, <1>3, FieldListed
<1>6. \A name, v : Named(name, v).text = name /\ Named(name, v).value = v
  BY DEF Named
<1>7. /\ {e.value : e \in {f \in es : f.text = "prf"}} = B
      /\ {e.value : e \in {f \in es : f.text = "largeBlob"}} = C
      /\ {e.value : e \in {f \in es : f.text = "credProps"}} = {}
      /\ {e.value : e \in {f \in es : f.text = "credProtect"}} = {}
      /\ {e.value : e \in {f \in es : f.text = "minPinLength"}} = {}
  BY <1>4, <1>6
<1>8. /\ Field(object, "credProps") = {} /\ Field(object, "prf") = B
      /\ Field(object, "largeBlob") = C /\ Field(object, "credProtect") = {}
      /\ Field(object, "minPinLength") = {}
  BY <1>5, <1>7
<1>9. /\ OutputsUnder(object, "credProps") = {} /\ OutputsUnder(object, "credProtect") = {}
      /\ OutputsUnder(object, "minPinLength") = {}
  BY <1>8 DEF OutputsUnder
<1>10. OutputsUnder(object, "prf") = {PrfMap(prf) : prf \in r.prf}
  <2>1. \A prf \in r.prf : Output("prf", PrfInput(prf)) = {PrfMap(prf)}
    BY PrfOutputIs DEF OptionsOf
  <2>2. OutputsUnder(object, "prf") = UNION {Output("prf", input) : input \in B}
    BY <1>8 DEF OutputsUnder
  <2> QED
    BY <2>1, <2>2 DEF B
<1>11. OutputsUnder(object, "largeBlob") = {CborMap(<<blob[b]>>) : b \in r.large_blob}
  <2>1. OutputsUnder(object, "largeBlob") = UNION {Output("largeBlob", input) : input \in C}
    BY <1>8 DEF OutputsUnder
  <2>2. \A b \in r.large_blob :
           Output("largeBlob", LargeBlobAuthenticationInput(b)) = {CborMap(<<BlobAnswer(b)>>)}
    BY LargeBlobOutputIs DEF AuthenticationAsks, BlobAnswer
  <2>3. \A b \in r.large_blob : blob[b] = BlobAnswer(b)
    OBVIOUS
  <2> DEFINE out(b) == CborMap(<<blob[b]>>)
  <2>4. \A b \in r.large_blob : Output("largeBlob", LargeBlobAuthenticationInput(b)) = {out(b)}
    BY <2>2, <2>3
  <2> HIDE DEF out
  <2>5. OutputsUnder(object, "largeBlob") = {out(b) : b \in r.large_blob}
    BY <2>1, <2>4 DEF C
  <2> QED
    BY <2>5 DEF out
<1>12. r.cred_props = {} /\ r.cred_protect = {} /\ r.min_pin_length = {}
  BY DEF AuthenticationAsks
<1>13. Field(options, "extensions") = {object}
  BY DEF object
<1> HIDE DEF blob
<1>14. /\ {CborMap(<<Named("rk", Bool(TRUE))>>) : b \in {c \in r.cred_props : c}} = {}
       /\ {Number(PolicyNumber(c.policy)) : c \in r.cred_protect} = {}
       /\ {Number(4) : b \in {c \in r.min_pin_length : c}} = {}
  BY <1>12
<1>15. ExtensionOutputs(options) = Answered(r, blob)
  BY <1>9, <1>10, <1>11, <1>13, <1>14, OutputsAre DEF Answered
<1> QED
  BY <1>15 DEF blob

\* Who asks for something is answered something.
LEMMA SomethingAnswered ==
    ASSUME NEW r, OptionsOf(r), NEW blob,
           \/ TRUE \in r.cred_props \union r.min_pin_length
           \/ r.prf # {} \/ r.large_blob # {} \/ r.cred_protect # {}
    PROVE  Answered(r, blob) # <<>>
<1> DEFINE A == {CborMap(<<Named("rk", Bool(TRUE))>>) : b \in {c \in r.cred_props : c}}
           B == {PrfMap(prf) : prf \in r.prf}
           C == {CborMap(<<blob[b]>>) : b \in r.large_blob}
           D == {Number(PolicyNumber(c.policy)) : c \in r.cred_protect}
           E == {Number(4) : b \in {c \in r.min_pin_length : c}}
           json == [entries |-> Five(A, B, C, D, E)]
<1>1. IsOption(A) /\ IsOption(B) /\ IsOption(C) /\ IsOption(D) /\ IsOption(E)
  BY DEF OptionsOf, IsOption
<1>2. A # {} \/ B # {} \/ C # {} \/ D # {} \/ E # {}
  OBVIOUS
<1>3. json.entries = Five(A, B, C, D, E)
  OBVIOUS
<1>4. Answered(r, blob) = json.entries
  BY DEF Answered
<1> HIDE DEF A, B, C, D, E, json
<1>5. /\ Field(json, "credProps") = A /\ Field(json, "prf") = B
      /\ json.entries = <<>> => A = {} /\ B = {} /\ C = {} /\ D = {} /\ E = {}
  BY <1>1, <1>3, FiveListed
<1> QED
  BY <1>2, <1>4, <1>5

\* What the authenticator puts out is what the library reads.
LEMMA OutputsReadBack ==
    ASSUME NEW create \in BOOLEAN, NEW s \in Answers(create), s.fault = "none",
           ReadBack(s).parse = Ok, s.outputs # <<>>
    PROVE  ReadBack(s).extensions = {ExtensionMap(CborMap(s.outputs))}
<1> DEFINE d == Devices[s.device]
           data == DataOf(d, s)
           octets == AuthenticatorDataOf(d, s)
           parsed == ParseAuthenticatorData(octets)
<1>1. Encodable(data)
  BY DataWritten
<1>2. octets = Encode(data)
  BY DEF AuthenticatorDataOf, DataOf, Sent
<1>3. ReadBack(s) = AsUsed(parsed, octets)
  BY DEF ReadBack, AuthDataOf
<1>4. s.device \in DOMAIN Devices /\ (s.backup_state => d.backup_eligible)
  BY AnswerIs
<1>5. d.backup_eligible \in BOOLEAN
  BY <1>4, DevicesAssumption
<1> HIDE DEF d, octets
<1>6. data.backup_state => data.backup_eligible
  BY <1>4, <1>5 DEF DataOf
<1>7. \A c \in data.attested : FirstError(ParseCoseKey(c.key.value)) = Ok
  BY ReadBackIs DEF d
<1>8. data.extensions = {Item(CborMap(s.outputs))}
  BY DEF DataOf
<1>9. \A e \in data.extensions : e.value = CborMap(s.outputs) /\ e.value.type = "map"
  <2>1. \A v : Item(v).value = v
    BY DEF Item
  <2>2. CborMap(s.outputs).type = "map"
    BY DEF CborMap
  <2> HIDE DEF data
  <2> QED
    BY <1>8, <2>1, <2>2
<1> HIDE DEF data
<1> DEFINE hash == SubSeq(Encode(data), 1, 32)
           v == [ rp_id           |-> hash,
                  user_present    |-> data.user_present,
                  user_verified   |-> data.user_verified,
                  backup_eligible |-> data.backup_eligible,
                  backup_state    |-> data.backup_state,
                  sign_count      |-> data.sign_count,
                  attested        |-> AttestedAsRead(data),
                  extensions      |-> {ExtensionMap(e.value) : e \in data.extensions} ]
           used == [v EXCEPT !.rp_id = (The(@[1].item)).value.of]
<1>10. parsed = Read(Ok, {v}, 0)
  BY <1>1, <1>2, <1>6, <1>7, <1>9, WellFormedParsed
<1> HIDE DEF parsed
<1>11. parsed.value = {v}
  BY <1>10 DEF Read
<1>12. used.extensions = {ExtensionMap(e.value) : e \in data.extensions}
  OBVIOUS
<1>13. (IF parsed.value = {} THEN Unread
        ELSE [The(parsed.value) EXCEPT !.rp_id = (The(@[1].item)).value.of]) = used
  BY <1>11, TheOnly
<1> HIDE DEF used
<1>14. ReadBack(s).extensions = used.extensions
  BY <1>3, <1>13 DEF AsUsed, Unread
<1> QED
  BY <1>8, <1>9, <1>12, <1>14

-----------------------------------------------------------------------------
(***************************************************************************)
(* What a ceremony answers with.                                           *)
(***************************************************************************)

\* A ceremony with a response whose parts are answered with the library's errors.
LEMMA RegistrationTyped ==
    ASSUME NEW p, NEW s \in Answers(TRUE), NEW now
    PROVE  VerifyRegistration(p, Challenge, AttestationResponses[s], now) \in Verdicts
<1> DEFINE response == AttestationResponses[s]
           d == Devices[s.device]
           ad == ReadBack(s)
           stmt == SelfAttestation(d, SigningKey(s), ad, ClientData(s))
           a == [ fmt |-> "packed", stmt |-> Statement(stmt),
                  auth_data |-> AttestedData(ad), client_data |-> ClientData(s) ]
           graded == Graded(Statements!Verify(a, {}))
<1>1. /\ response.auth_data = ad /\ response.parse = Ok
      /\ response.attestation = IF ad.attested # {} /\ d.attests THEN graded ELSE Ok
  BY RegistrationIs
<1>2. ad.parse \in Verdicts
  BY ReadBackParse DEF ParserVerdicts, Ok, Verdicts, WebAuthnErrors
<1>3. graded \in Verdicts
  <2> DEFINE sig == Statements!Signature(SigningKey(s).id, d.alg,
                                         <<AttestedData(ad), ClientData(s)>>)
  <2>1. Statement(stmt) = SelfStatement(Number(CoseNumbers[d.alg]), sig)
    BY DEF SelfAttestation, SelfStatement
  <2> HIDE DEF sig
  <2>2. a.fmt = "packed" /\ a.stmt = Statement(stmt)
    OBVIOUS
  <2> HIDE DEF a, stmt
  <2>3. a.stmt.x5c = {}
    BY <2>1, <2>2, StatementIs
  <2> QED
    BY <2>2, <2>3, SelfAttestationTyped
<1> HIDE DEF response, ad, graded
<1>4. Ok \in Verdicts
  BY DEF Verdicts
<1>5. response.attestation \in Verdicts /\ response.parse \in Verdicts
      /\ response.auth_data.parse \in Verdicts
  BY <1>1, <1>2, <1>3, <1>4
<1>6. RegistrationBody(p, response) \in Lines(Verdicts)
  BY <1>5, RegistrationBodyLine
<1> QED
  BY <1>4, <1>6, BindingLine, FirstErrorOfConcat, FirstErrorType DEF VerifyRegistration, response

\* An assertion's.
LEMMA AssertionTyped ==
    ASSUME NEW c, NEW s \in Answers(FALSE), NEW now
    PROVE  LookedUpAndVerified(c, AssertionResponses[s], now) \in Verdicts
<1> DEFINE response == AssertionResponses[s]
<1>1. response.auth_data.parse \in Verdicts
  BY AssertionParse DEF ParserVerdicts, Ok, Verdicts, WebAuthnErrors, AssertionResponses
<1> HIDE DEF response
<1>2. AuthenticationBody(rp, c, response) \in Lines(Verdicts)
  BY <1>1, AuthenticationBodyLine
<1>3. VerifyAuthentication(rp, c, Challenge, response, now) \in Verdicts
  <2>1. Ok \in Verdicts
    BY DEF Verdicts
  <2> QED
    BY <1>2, <2>1, BindingLine, FirstErrorOfConcat, FirstErrorType DEF VerifyAuthentication
<1>4. "MissingCredentialId" \in Verdicts
  BY DEF Verdicts, WebAuthnErrors
<1> DEFINE missing == response.credential_id = ""
<1>5. /\ missing => LookedUpAndVerified(c, response, now) = "MissingCredentialId"
      /\ ~missing => LookedUpAndVerified(c, response, now)
                       = VerifyAuthentication(rp, c, Challenge, response, now)
  BY NamedOrRefused, Zenon
<1> HIDE DEF missing
<1>6. LookedUpAndVerified(c, response, now) \in Verdicts
  BY <1>3, <1>4, <1>5
<1> QED
  BY <1>6 DEF response

-----------------------------------------------------------------------------
(***************************************************************************)
(* The invariant.                                                          *)
(***************************************************************************)

\* The outputs answer the request: they are an authenticator's for options whose
\* extensions are those of the request.
Extended(create, request, outputs) ==
    /\ request \in IF create THEN RegistrationRequests ELSE AuthenticationRequests
    /\ \A r : request = {r} => \E options :
          /\ Field(options, "extensions") = {IF create THEN RegistrationExtensions(r)
                                                       ELSE AuthenticationExtensions(r)}
          /\ outputs = ExtensionOutputs(options)

\* The last ceremony is remembered with the verdict of the configuration now
\* deployed, on a response that the authenticator can have given, at the time
\* that the fault asks for, and against what was stored; the extensions answer
\* the request, and who obeyed the options answered with an algorithm on offer
\* and verified the user if asked.
RegistrationExplained ==
    /\ Created
    /\ attempt.sent \in DOMAIN AttestationResponses /\ attempt.sent.device = device
    /\ Timely(rp, attempt.sent.fault, attempt.now)
    /\ attempt.verdict = VerifyRegistration(rp, Challenge, AttestationResponses[attempt.sent],
                                            attempt.now)
    /\ Extended(TRUE, attempt.request, attempt.sent.outputs)
    /\ attempt.obeyed =>
          Devices[device].alg \in Offered(CreationOptions(rp, attempt.request))

AssertionExplained(c) ==
    /\ Asserted
    /\ attempt.sent \in DOMAIN AssertionResponses /\ attempt.sent.device = device
    /\ Timely(rp, attempt.sent.fault, attempt.now)
    /\ attempt.against = {c} /\ KnownTo(device, c)
    /\ attempt.verdict = LookedUpAndVerified(c, AssertionResponses[attempt.sent], attempt.now)
    /\ Extended(FALSE, attempt.request, attempt.sent.outputs)
    /\ attempt.obeyed /\ rp.require_user_verification => attempt.sent.verified

AttemptExplained ==
    attempt = NoAttempt \/ RegistrationExplained \/ \E c : AssertionExplained(c)

\* What is stored is the credential of the device, whatever was deployed since,
\* and a question carries the timeout and the extensions of the request.
Asked(ask) ==
    /\ Depth4(ask.options) /\ Field(ask.options, "timeout") = {Number(Timeout)}
    /\ Extended(ask.create, ask.request, ExtensionOutputs(ask.options))

IInv ==
    /\ rp \in Policies /\ device \in DOMAIN Devices /\ counter \in 0 .. MaxCount
    /\ \A c \in stored : KnownTo(device, c) /\ stored = {c}
    /\ \A ask \in pending : Asked(ask) /\ pending = {ask}
    /\ AttemptExplained

\* The options that are asked for, whatever the configuration.
LEMMA CreationOptionsReadable ==
    ASSUME NEW p, NEW request
    PROVE  /\ Depth4(CreationOptions(p, request))
           /\ Field(CreationOptions(p, request), "timeout") = {Number(Timeout)}
           /\ Field(CreationOptions(p, request), "pubKeyCredParams") =
                {PubKeyCredParamsJson(PubKeyCredParams(p))}
           /\ \A r : request = {r} =>
                 Field(CreationOptions(p, request), "extensions") = {RegistrationExtensions(r)}
<1> DEFINE user == [id |-> Bytes(UserId), name |-> "alice", display_name |-> "Alice"]
           o == BeginRegistration(p, Text("current"), user, <<>>, request)
<1>1. /\ o.challenge = Text("current") /\ o.user.id = Bytes(UserId) /\ o.timeout_ms = Timeout
      /\ o.exclude_credentials = Descriptors(<<>>) /\ o.pub_key_cred_params = PubKeyCredParams(p)
      /\ o.extensions = request
  BY DEF BeginRegistration
<1>2. Depth2(CredentialDescriptors(Descriptors(<<>>)))
  BY DescriptorsReadable
<1>3. CreationOptions(p, request) = SerializeRegistrationOptions(o)
  BY DEF CreationOptions
<1> HIDE DEF o
<1> QED
  BY <1>1, <1>2, <1>3, LeafReadable, RegistrationOptionsReadable

\* The options of an authentication nest no deeper than the four levels that are
\* looked at, carry the timeout, and say when the user has to be verified.
LEMMA RequestOptionsReadable ==
    ASSUME NEW p, NEW id, NEW allow \in {<<>>, <<Bytes(id)>>}, NEW request
    PROVE  /\ Depth4(RequestOptions(p, allow, request))
           /\ Field(RequestOptions(p, allow, request), "timeout") = {Number(Timeout)}
           /\ p.require_user_verification =>
                 Text("required") \in UserVerification(RequestOptions(p, allow, request))
<1> DEFINE o == AuthenticationOptions(p, Text("current"), allow, request)
<1>1. /\ o.challenge = Text("current") /\ o.timeout_ms = Timeout
      /\ o.allow_credentials = Descriptors(allow)
      /\ p.require_user_verification => o.user_verification = "required"
  BY DEF AuthenticationOptions
<1>2. \A i \in DOMAIN allow : Depth0(allow[i])
  BY LeafReadable
<1>3. Depth2(CredentialDescriptors(Descriptors(allow)))
  BY <1>2, DescriptorsReadable
<1>4. RequestOptions(p, allow, request) = SerializeAuthenticationOptions(o)
  BY DEF RequestOptions
<1> HIDE DEF o
<1>5. /\ Depth4(SerializeAuthenticationOptions(o))
      /\ Field(SerializeAuthenticationOptions(o), "timeout") = {Number(o.timeout_ms)}
      /\ Field(SerializeAuthenticationOptions(o), "userVerification") = {Text(o.user_verification)}
  BY <1>1, <1>3, LeafReadable, AuthenticationOptionsReadable
<1> QED
  BY <1>1, <1>4, <1>5 DEF UserVerification

\* They carry the extensions that are asked for.
LEMMA RequestExtensions ==
    ASSUME NEW p, NEW allow, allow = <<>> \/ \E id : allow = <<Bytes(id)>>, NEW r
    PROVE  Field(RequestOptions(p, allow, {r}), "extensions") = {AuthenticationExtensions(r)}
<1> DEFINE o == AuthenticationOptions(p, Text("current"), allow, {r})
<1>1. /\ o.challenge = Text("current") /\ o.allow_credentials = Descriptors(allow)
      /\ o.extensions = {r}
  BY DEF AuthenticationOptions
<1>2. \A i \in DOMAIN allow : Depth0(allow[i])
  BY LeafReadable
<1>3. Depth2(CredentialDescriptors(Descriptors(allow)))
  BY <1>2, DescriptorsReadable
<1>4. RequestOptions(p, allow, {r}) = SerializeAuthenticationOptions(o)
  BY DEF RequestOptions
<1> HIDE DEF o
<1> QED
  BY <1>1, <1>3, <1>4, LeafReadable, AuthenticationOptionsReadable

\* A response comes when its fault has it come.
LEMMA ComesTimely ==
    ASSUME rp \in Policies, NEW options, Field(options, "timeout") = {Number(Timeout)}, NEW f
    PROVE  Timely(rp, f, IssuedAt + Age(options, f))
<1>1. rp.max_age \in Int
  BY PoliciesAssumption
<1>2. The(Field(options, "timeout")) = Number(Timeout)
  BY TheOnly, Zenon
<1>3. (The(Field(options, "timeout"))).int - 1 \in Int
  BY <1>2, TimeoutAssumption DEF Number
<1>4. /\ Age(options, f) \in Int
      /\ f = "stale" => Age(options, f) = rp.max_age
      /\ f = "clock_back" => Age(options, f) = -1
      /\ f \notin {"stale", "clock_back"} =>
            Age(options, f) = (The(Field(options, "timeout"))).int - 1
  BY <1>1, <1>3 DEF Age
<1>5. (The(Field(options, "timeout"))).int = Timeout
  BY <1>2 DEF Number
<1> QED
  BY <1>4, <1>5 DEF Timely, IssuedAt

\* A registration keeps the invariant: what it stores is the device's.
LEMMA RegisterStep ==
    ASSUME IInv, NEW verified, NEW backup_state, NEW cross_origin, NEW f,
           Register(verified, backup_state, cross_origin, f)
    PROVE  IInv' /\ attempt'.ceremony = "webauthn.create"
<1>1. UNCHANGED <<rp, device, counter>> /\ pending' = {}
  BY DEF Register
<1>2. PICK ask \in pending : ask.create /\
         \E age \in {Age(ask.options, f)},
            s \in {Answer(device, TRUE, verified, backup_state, cross_origin, counter, f,
                          ExtensionOutputs(ask.options))} \intersect DOMAIN AttestationResponses :
           \E response \in {AttestationResponses[s]} :
           \E verdict \in {VerifyRegistration(rp, Challenge, response, IssuedAt + age)} :
             /\ attempt' = Attempt(ask, s, age, verdict, {CreationOptions(rp, ask.request)})
             /\ stored' = IF verdict = Ok
                          THEN {NewCredential(rp, response, UserId, IssuedAt + age)}
                          ELSE stored
  BY DEF Register
<1>3. PICK age \in {Age(ask.options, f)},
           s \in {Answer(device, TRUE, verified, backup_state, cross_origin, counter, f,
                         ExtensionOutputs(ask.options))} \intersect DOMAIN AttestationResponses :
         LET verdict == VerifyRegistration(rp, Challenge, AttestationResponses[s], IssuedAt + age)
         IN  /\ attempt' = Attempt(ask, s, age, verdict, {CreationOptions(rp, ask.request)})
             /\ stored' = IF verdict = Ok
                          THEN {NewCredential(rp, AttestationResponses[s], UserId, IssuedAt + age)}
                          ELSE stored
  BY <1>2
<1> DEFINE now == IssuedAt + age
           response == AttestationResponses[s]
           verdict == VerifyRegistration(rp, Challenge, response, now)
<1>4. /\ s.create /\ s.device = device /\ s.fault = f /\ s \in Answers(TRUE)
      /\ s.outputs = ExtensionOutputs(ask.options)
  <2>1. /\ s.create /\ s.device = device /\ s.fault = f
        /\ s.outputs = ExtensionOutputs(ask.options)
    BY DEF Answer
  <2>2. DOMAIN AttestationResponses = Answers(TRUE)
    BY DEF AttestationResponses
  <2> QED
    BY <2>1, <2>2
<1>5. Timely(rp, s.fault, now)
  BY <1>4, ComesTimely DEF IInv, Asked
<1>6. /\ attempt'.ceremony = "webauthn.create" /\ attempt'.sent = s
      /\ attempt'.now = now /\ attempt'.verdict = verdict /\ attempt'.request = ask.request
      /\ attempt'.obeyed => Devices[device].alg \in Offered(CreationOptions(rp, ask.request))
  BY <1>3, <1>4 DEF Attempt, Obeys
<1>7. stored' = IF verdict = Ok THEN {NewCredential(rp, response, UserId, now)} ELSE stored
  BY <1>3
<1> HIDE DEF now
<1>12. Extended(TRUE, ask.request, s.outputs)
  BY <1>2, <1>4 DEF IInv, Asked, Extended
<1>8. AttemptExplained'
  BY <1>1, <1>4, <1>5, <1>6, <1>12
     DEF AttemptExplained, RegistrationExplained, Created, Timely, Extended
<1>9. ASSUME verdict = Ok
      PROVE  KnownTo(device, NewCredential(rp, response, UserId, now))
  <2> DEFINE ad == ReadBack(s)
             cred == [ aaguid |-> Devices[device].aaguid, id |-> CredentialId,
                       public_key |-> CoseKey(KeyMap(device)) ]
             kept == NewCredential(rp, response, UserId, now)
  <2>1. /\ s.fault = "none" /\ ad.parse = Ok /\ response.auth_data = ad
        /\ FirstError(ParseCoseKey(KeyMap(device))) = Ok /\ ad.attested = {cred}
    BY <1>4, <1>5, <1>9, FaultyRegistrationRefused DEF IInv
  <2>2. /\ ad.backup_eligible = (Devices[device].backup_eligible # FALSE)
        /\ ad.sign_count = s.count
    BY <1>4, <2>1, ReadBackIs
  <2>3. Devices[device].backup_eligible \in BOOLEAN /\ s.count \in 0 .. MaxCount
    BY <1>4, AnswerIs, DevicesAssumption
  <2>4. cred.id = CredentialId /\ cred.public_key = CoseKey(KeyMap(device))
    OBVIOUS
  <2> HIDE DEF ad, cred, response, verdict
  <2>5. (CHOOSE c \in ad.attested : TRUE) = cred
    BY <2>1
  <2>6. /\ kept.id = cred.id /\ kept.public_key = cred.public_key
        /\ kept.sign_count = ad.sign_count /\ kept.rp_id = rp.id
        /\ kept.backup_eligible = ad.backup_eligible
    BY <2>1, <2>5 DEF NewCredential
  <2>7. rp.id \in {p.id : p \in Policies}
    BY DEF IInv
  <2> HIDE DEF kept
  <2>8. KnownTo(device, kept)
    BY <2>1, <2>2, <2>3, <2>4, <2>6, <2>7 DEF KnownTo
  <2> QED
    BY <2>8 DEF kept
<1> HIDE DEF verdict, response
<1>10. \A c \in stored' : KnownTo(device, c) /\ stored' = {c}
  BY <1>7, <1>9 DEF IInv
<1>11. \A c \in stored' : KnownTo(device', c) /\ stored' = {c}
  BY <1>1, <1>10
<1> QED
  BY <1>1, <1>6, <1>8, <1>11 DEF IInv

\* From one sign count to the next that is accepted.
Advanced(c, d) == d.sign_count > c.sign_count \/ (d.sign_count = 0 /\ c.sign_count = 0)

\* An authentication keeps it too, and what it accepts has advanced.
LEMMA AuthenticateStep ==
    ASSUME IInv, NEW verified, NEW backup_state, NEW cross_origin, NEW f,
           Authenticate(verified, backup_state, cross_origin, f)
    PROVE  /\ IInv' /\ attempt'.ceremony = "webauthn.get"
           /\ attempt'.verdict = Ok => \A c \in stored, d \in stored' : Advanced(c, d)
<1>1. UNCHANGED <<rp, device>> /\ pending' = {}
  BY DEF Authenticate
<1>2. PICK ask \in pending, credential \in stored : ~ask.create /\
         \E age \in {Age(ask.options, f)},
            s \in {Answer(device, FALSE, verified, backup_state, cross_origin, counter', f,
                          ExtensionOutputs(ask.options))} \intersect DOMAIN AssertionResponses :
           \E response \in {AssertionResponses[s]} :
           \E verdict \in {LookedUpAndVerified(credential, response, IssuedAt + age)} :
             /\ attempt' = Attempt(ask, s, age, verdict,
                                   {RequestOptions(rp, allow, ask.request) :
                                       allow \in {<<>>, <<Bytes(credential.id)>>}})
             /\ stored' = IF verdict = Ok
                          THEN {Persisted(credential, AuthenticationResult(credential, response))}
                          ELSE stored
  BY DEF Authenticate
<1>3. PICK age \in {Age(ask.options, f)},
           s \in {Answer(device, FALSE, verified, backup_state, cross_origin, counter', f,
                         ExtensionOutputs(ask.options))} \intersect DOMAIN AssertionResponses :
         LET verdict == LookedUpAndVerified(credential, AssertionResponses[s], IssuedAt + age)
         IN  /\ attempt' = Attempt(ask, s, age, verdict,
                                   {RequestOptions(rp, allow, ask.request) :
                                       allow \in {<<>>, <<Bytes(credential.id)>>}})
             /\ stored' = IF verdict = Ok
                          THEN {Persisted(credential,
                                          AuthenticationResult(credential, AssertionResponses[s]))}
                          ELSE stored
  BY <1>2
<1> DEFINE now == IssuedAt + age
           response == AssertionResponses[s]
           verdict == LookedUpAndVerified(credential, response, now)
           kept == Persisted(credential, AuthenticationResult(credential, response))
<1>4. /\ ~s.create /\ s.device = device /\ s.fault = f /\ s \in Answers(FALSE)
      /\ s.outputs = ExtensionOutputs(ask.options)
  <2>1. /\ ~s.create /\ s.device = device /\ s.fault = f
        /\ s.outputs = ExtensionOutputs(ask.options)
    BY DEF Answer
  <2>2. DOMAIN AssertionResponses = Answers(FALSE)
    BY DEF AssertionResponses
  <2> QED
    BY <2>1, <2>2
<1>5. Timely(rp, s.fault, now)
  BY <1>4, ComesTimely DEF IInv, Asked
<1>6. /\ attempt'.ceremony = "webauthn.get" /\ attempt'.sent = s /\ attempt'.against = stored
      /\ attempt'.now = now /\ attempt'.verdict = verdict /\ attempt'.request = ask.request
      /\ attempt'.obeyed => \E allow \in {<<>>, <<Bytes(credential.id)>>} :
                               /\ ask.options = RequestOptions(rp, allow, ask.request)
                               /\ Obeys(ask.options, s, age)
  BY <1>3, <1>4 DEF Attempt
<1>0. ASSUME attempt'.obeyed, rp.require_user_verification PROVE s.verified
  <2>1. PICK allow \in {<<>>, <<Bytes(credential.id)>>} :
           /\ ask.options = RequestOptions(rp, allow, ask.request)
           /\ Obeys(ask.options, s, age)
    BY <1>0, <1>6
  <2>2. Text("required") \in UserVerification(ask.options)
    BY <1>0, <2>1, RequestOptionsReadable
  <2> QED
    BY <2>1, <2>2 DEF Obeys
<1>7. stored' = IF verdict = Ok THEN {kept} ELSE stored
  BY <1>3
<1>8. stored = {credential} /\ KnownTo(device, credential)
  BY DEF IInv
<1> HIDE DEF now
<1>14. Extended(FALSE, ask.request, s.outputs)
  <2>1. Extended(ask.create, ask.request, s.outputs)
    BY <1>4 DEF IInv, Asked
  <2>2. ~ask.create
    BY <1>2
  <2> QED
    BY <2>1, <2>2 DEF Extended
<1>9. AttemptExplained'
  <2>1. verdict' = LookedUpAndVerified(credential, response, now)'
    OBVIOUS
  <2>2. attempt'.verdict = IF BeginAuthentication(response) # Ok
                           THEN BeginAuthentication(response)
                           ELSE VerifyAuthentication(rp', credential, Challenge, response, now)
    BY <1>1, <1>6 DEF LookedUpAndVerified
  <2>3. /\ attempt'.ceremony = "webauthn.get" /\ attempt'.sent = s /\ attempt'.now = now
        /\ s \in DOMAIN AssertionResponses /\ s.device = device'
        /\ attempt'.against = {credential} /\ KnownTo(device', credential)
        /\ Timely(rp', s.fault, now)
        /\ attempt'.obeyed /\ rp'.require_user_verification => s.verified
    BY <1>0, <1>1, <1>4, <1>5, <1>6, <1>8
  <2> QED
    BY <1>6, <1>14, <2>2, <2>3
       DEF AttemptExplained, AssertionExplained, Asserted, LookedUpAndVerified, Extended
<1>10. ASSUME verdict = Ok
       PROVE  KnownTo(device, kept) /\ Advanced(credential, kept)
  <2> DEFINE ad == ReadBack(s)
             result == AuthenticationResult(credential, response)
  <2>1. /\ s.fault = "none" /\ ad.parse = Ok /\ response.auth_data = ad
        /\ ~SignCountInvalid(credential.sign_count, ad.sign_count)
    BY <1>4, <1>5, <1>8, <1>10, FaultyAssertionRefused DEF IInv
  <2>2. ad.sign_count = s.count
    BY <1>4, <2>1, ReadBackIs
  <2>3. s.count \in 0 .. MaxCount
    BY <1>4, AnswerIs
  <2> HIDE DEF ad, response, verdict
  <2>4. result.new_sign_count = ad.sign_count
    BY <2>1 DEF AuthenticationResult
  <2> HIDE DEF result
  <2>5. kept = [credential EXCEPT !.sign_count = result.new_sign_count,
                                  !.backup_state = result.backup_state]
    BY DEF result, Persisted
  <2> HIDE DEF kept
  <2>6. /\ kept.id = credential.id /\ kept.rp_id = credential.rp_id
        /\ kept.public_key = credential.public_key
        /\ kept.backup_eligible = credential.backup_eligible
    BY <2>5
  <2>7. kept.sign_count = s.count
    BY <2>2, <2>4, <2>5 DEF KnownTo
  <2>8. KnownTo(device, kept)
    BY <1>8, <2>3, <2>6, <2>7 DEF KnownTo
  <2>9. Advanced(credential, kept)
    <3> DEFINE old == credential.sign_count
               new == kept.sign_count
    <3>1. old \in 0 .. MaxCount /\ new \in 0 .. MaxCount
      BY <1>8, <2>3, <2>7 DEF KnownTo
    <3>2. ~SignCountInvalid(old, new)
      BY <2>1, <2>2, <2>7
    <3> HIDE DEF old, new
    <3>3. new > old \/ (new = 0 /\ old = 0)
      BY <3>1, <3>2, CounterAssumption DEF SignCountInvalid
    <3> QED
      BY <3>3 DEF Advanced, old, new
  <2> QED
    BY <2>8, <2>9
<1> HIDE DEF verdict, response, kept
<1>11. \A c \in stored' : KnownTo(device', c) /\ stored' = {c}
  BY <1>1, <1>7, <1>8, <1>10
<1>12. counter' \in 0 .. MaxCount
  <2>1. counter' = IF Devices[device].counts THEN (counter + 1) % (MaxCount + 1) ELSE counter
    BY DEF Authenticate
  <2>2. counter \in 0 .. MaxCount
    BY DEF IInv
  <2> QED
    BY <2>1, <2>2, CounterAssumption
<1>13. attempt'.verdict = Ok => \A c \in stored, d \in stored' : Advanced(c, d)
  BY <1>6, <1>7, <1>8, <1>10
<1> QED
  BY <1>1, <1>6, <1>9, <1>11, <1>12, <1>13 DEF IInv

\* A step that keeps the configuration, the device and what is stored, and
\* forgets the ceremony, keeps the invariant.
LEMMA ForgetStep ==
    ASSUME IInv, attempt' = NoAttempt, rp' \in Policies, counter' \in 0 .. MaxCount,
           UNCHANGED <<device, stored>>, \A ask \in pending' : Asked(ask) /\ pending' = {ask}
    PROVE  IInv'
<1>1. AttemptExplained'
  BY DEF AttemptExplained
<1>2. device' \in DOMAIN Devices /\ \A c \in stored' : KnownTo(device', c) /\ stored' = {c}
  BY DEF IInv
<1> QED
  BY <1>1, <1>2 DEF IInv

\* Every other step.
LEMMA OtherStep ==
    ASSUME IInv,
           \/ \E p \in Policies : Deploy(p)
           \/ \E n \in 0 .. MaxCount : Restore(n)
           \/ \E request \in RegistrationRequests : AskRegistration(request)
           \/ \E request \in AuthenticationRequests : AskAuthentication(request)
    PROVE  IInv' /\ attempt' = NoAttempt
<1>1. ASSUME NEW p \in Policies, Deploy(p) PROVE IInv' /\ attempt' = NoAttempt
  BY <1>1, ForgetStep DEF Deploy, IInv
<1>2. ASSUME NEW n \in 0 .. MaxCount, Restore(n) PROVE IInv' /\ attempt' = NoAttempt
  BY <1>2, ForgetStep DEF Restore, IInv
<1>3. ASSUME NEW request \in RegistrationRequests, AskRegistration(request)
      PROVE  IInv' /\ attempt' = NoAttempt
  <2> DEFINE options == CreationOptions(rp, request)
             ask == [create |-> TRUE, request |-> request, options |-> options]
  <2>1. /\ pending' = {ask} /\ attempt' = NoAttempt
        /\ UNCHANGED <<rp, device, counter, stored>>
    BY <1>3 DEF AskRegistration, Ask
  <2>2. /\ Depth4(options) /\ Field(options, "timeout") = {Number(Timeout)}
        /\ \A r : request = {r} => Field(options, "extensions") = {RegistrationExtensions(r)}
    BY CreationOptionsReadable
  <2> HIDE DEF options
  <2>3. ask.options = options /\ ask.create /\ ask.request = request
    OBVIOUS
  <2> HIDE DEF ask
  <2>4. \A a \in pending' : Asked(a) /\ pending' = {a}
    BY <2>1, <2>2, <2>3 DEF Asked, Extended
  <2> QED
    BY <2>1, <2>4, ForgetStep DEF IInv
<1>4. ASSUME NEW request \in AuthenticationRequests, AskAuthentication(request)
      PROVE  IInv' /\ attempt' = NoAttempt
  <2>1. PICK credential \in stored :
           \E allow \in {<<>>, <<Bytes(credential.id)>>} :
               Ask(FALSE, request, RequestOptions(rp, allow, request))
    BY <1>4 DEF AskAuthentication
  <2>2. PICK allow \in {<<>>, <<Bytes(credential.id)>>} :
           Ask(FALSE, request, RequestOptions(rp, allow, request))
    BY <2>1
  <2> DEFINE options == RequestOptions(rp, allow, request)
             ask == [create |-> FALSE, request |-> request, options |-> options]
  <2>3. /\ pending' = {ask} /\ attempt' = NoAttempt
        /\ UNCHANGED <<rp, device, counter, stored>>
    BY <2>2 DEF Ask
  <2>4. Depth4(options) /\ Field(options, "timeout") = {Number(Timeout)}
    BY RequestOptionsReadable
  <2>7. ASSUME NEW r, request = {r}
        PROVE  Field(options, "extensions") = {AuthenticationExtensions(r)}
    <3>1. options = RequestOptions(rp, allow, {r})
      BY <2>7 DEF options
    <3>2. allow = <<>> \/ \E id : allow = <<Bytes(id)>>
      OBVIOUS
    <3>3. Field(RequestOptions(rp, allow, {r}), "extensions") = {AuthenticationExtensions(r)}
      BY <3>2, RequestExtensions
    <3> HIDE DEF options
    <3> QED
      BY <3>1, <3>3
  <2> HIDE DEF options
  <2>5. ask.options = options /\ ~ask.create /\ ask.request = request
    OBVIOUS
  <2> HIDE DEF ask
  <2>6. \A a \in pending' : Asked(a) /\ pending' = {a}
    BY <2>3, <2>4, <2>5, <2>7 DEF Asked, Extended
  <2> QED
    BY <2>3, <2>6, ForgetStep DEF IInv
<1> QED
  BY <1>1, <1>2, <1>3, <1>4

\* The invariant is inductive, and every step advances what it accepts.
LEMMA InvariantKept ==
    ASSUME IInv, [Next]_vars
    PROVE  /\ IInv'
           /\ \/ UNCHANGED vars
              \/ \A c \in stored, d \in stored' :
                    attempt'.ceremony = "webauthn.get" /\ attempt'.verdict = Ok => Advanced(c, d)
<1>1. CASE \/ \E p \in Policies : Deploy(p)
           \/ \E n \in 0 .. MaxCount : Restore(n)
           \/ \E request \in RegistrationRequests : AskRegistration(request)
           \/ \E request \in AuthenticationRequests : AskAuthentication(request)
  BY <1>1, OtherStep DEF NoAttempt
<1>2. ASSUME NEW verified, NEW cross_origin, NEW backup_state, NEW f,
             Register(verified, backup_state, cross_origin, f)
      PROVE  IInv' /\ attempt'.ceremony # "webauthn.get"
  BY <1>2, RegisterStep
<1>3. ASSUME NEW verified, NEW cross_origin, NEW backup_state, NEW f,
             Authenticate(verified, backup_state, cross_origin, f)
      PROVE  /\ IInv'
             /\ attempt'.verdict = Ok => \A c \in stored, d \in stored' : Advanced(c, d)
  BY <1>3, AuthenticateStep
<1>4. CASE UNCHANGED vars
  BY <1>4 DEF vars, IInv, AttemptExplained, RegistrationExplained, AssertionExplained,
              Created, Asserted, LookedUpAndVerified, Extended, Asked
<1> QED
  BY <1>1, <1>2, <1>3, <1>4 DEF Next

\* The strengthened invariant holds in every reachable state.
LEMMA Invariance == Spec => []IInv
<1>1. Init => IInv
  BY CounterAssumption DEF Init, IInv, AttemptExplained
<1>2. IInv /\ [Next]_vars => IInv'
  BY InvariantKept
<1> QED
  BY <1>1, <1>2, PTL DEF Spec

\* What the invariant says of the last ceremony.
LEMMA Explained ==
    ASSUME IInv
    PROVE  /\ Created => RegistrationExplained
           /\ Asserted => \E c : AssertionExplained(c)
<1>1. attempt = NoAttempt => ~Created /\ ~Asserted
  BY DEF NoAttempt, Created, Asserted
<1>2. RegistrationExplained => ~Asserted
  BY DEF RegistrationExplained, Created, Asserted
<1>3. \A c : AssertionExplained(c) => ~Created
  BY DEF AssertionExplained, Created, Asserted
<1> QED
  BY <1>1, <1>2, <1>3 DEF IInv, AttemptExplained

\* The options can be read as they were announced, whatever the configuration
\* and the extensions asked for.
THEOREM OptionsAlwaysReadable == Spec => []OptionsReadable
<1>1. ASSUME NEW json, Depth4(json)
      PROVE  LET fields    == Within(json)
                 subfields == AllWithin(fields)
                 inputs    == AllWithin(subfields)
                 values    == AllWithin(inputs)
             IN  /\ \A v \in {json} \union fields \union subfields \union inputs : WellFormed(v)
                 /\ \A v \in values : Within(v) = {}
  <2> DEFINE fields    == Within(json)
             subfields == AllWithin(fields)
             inputs    == AllWithin(subfields)
             values    == AllWithin(inputs)
  <2>1. WellFormed(json) /\ \A v \in fields : Depth3(v)
    BY <1>1 DEF Depth4
  <2>2. \A v \in subfields : Depth2(v)
    BY <2>1 DEF Depth3, AllWithin
  <2>3. \A v \in inputs : Depth1(v)
    BY <2>2 DEF Depth2, AllWithin
  <2>4. \A v \in values : Depth0(v)
    BY <2>3 DEF Depth1, AllWithin
  <2> QED
    BY <2>1, <2>2, <2>3, <2>4 DEF Depth3, Depth2, Depth1, Depth0
<1>2. IInv => OptionsReadable
  BY <1>1 DEF IInv, Asked, OptionsReadable
<1> QED
  BY <1>2, Invariance, PTL

\* To make a configuration stricter never makes it accept more: what one
\* accepts, every other that is at most as strict accepts.
THEOREM RestrictionsOnlyRestrict == Spec => []LenientAcceptsMore
<1>1. IInv => LenientAcceptsMore
  <2> SUFFICES ASSUME IInv, Accepted, NEW q \in Policies, AtLeastAsStrict(rp, q)
               PROVE  VerdictOn(q, Response) = Ok
    BY DEF LenientAcceptsMore
  <2>1. CASE Created
    <3>1. /\ attempt.now \in Int
          /\ VerifyRegistration(rp, Challenge, AttestationResponses[attempt.sent],
                                attempt.now) = Ok
      BY <2>1, Explained DEF RegistrationExplained, Timely, Accepted
    <3>2. VerifyRegistration(q, Challenge, AttestationResponses[attempt.sent],
                             attempt.now) = Ok
      BY <3>1, LenientCeremonies DEF IInv
    <3> QED
      BY <2>1, <3>2 DEF VerdictOn, Response
  <2>2. CASE Asserted
    <3>1. PICK c : /\ attempt.now \in Int /\ attempt.against = {c}
                   /\ LookedUpAndVerified(c, AssertionResponses[attempt.sent],
                                          attempt.now) = Ok
      BY <2>2, Explained DEF AssertionExplained, Timely, Accepted
    <3>2. /\ The(attempt.against) = c
          /\ VerifyAuthentication(rp, c, Challenge, AssertionResponses[attempt.sent],
                                  attempt.now) = Ok
      BY <3>1 DEF The, LookedUpAndVerified
    <3>3. VerifyAuthentication(q, c, Challenge, AssertionResponses[attempt.sent],
                               attempt.now) = Ok
      BY <3>1, <3>2, LenientCeremonies DEF IInv
    <3> QED
      BY <2>2, <3>2, <3>3 DEF VerdictOn, Response, Created, Asserted
  <2> QED
    BY <2>1, <2>2 DEF Accepted
<1> QED
  BY <1>1, Invariance, PTL

\* An authenticator is reported cloned only on evidence it signed, for this
\* challenge and this site, of a count that has not advanced: the parser never
\* says so, and the check that does comes after those of the client data, of the
\* rpIdHash and of the signature.
THEOREM CloneAlarmsGenuine == Spec => []CloneAlarmIsGenuine
<1>1. IInv => CloneAlarmIsGenuine
  <2> SUFFICES ASSUME IInv, Asserted, attempt.verdict = "SignCountInvalid",
                      NEW c \in attempt.against
               PROVE  /\ VerifySignature(c, Response)
                      /\ SignCountInvalid(c.sign_count, Response.auth_data.sign_count)
                      /\ Response.auth_data.rp_id = c.rp_id
                      /\ Response.client_data.type = "webauthn.get"
                      /\ Response.client_data.challenge = Challenge.bytes
                      /\ Response.client_data.origin \in rp.allowed_origins
    BY DEF CloneAlarmIsGenuine
  <2> DEFINE response == AssertionResponses[attempt.sent]
  <2>1. /\ attempt.sent \in DOMAIN AssertionResponses /\ attempt.against = {c}
        /\ LookedUpAndVerified(c, response, attempt.now) = "SignCountInvalid"
    BY Explained DEF AssertionExplained
  <2>2. response.auth_data.parse # "SignCountInvalid"
    BY <2>1, AssertionParse DEF ParserVerdicts, Ok, Verdicts, WebAuthnErrors
  <2> HIDE DEF response
  <2>3. VerifyAuthentication(rp, c, Challenge, response, attempt.now) = "SignCountInvalid"
    <3>1. BeginAuthentication(response) # "SignCountInvalid"
      <4> DEFINE a == Check(response.credential_id = "", "MissingCredentialId")
      <4>1. a \in Checks(Verdicts) /\ a.error = "MissingCredentialId"
        BY DEF Checks, Check, Verdicts, WebAuthnErrors, Ok
      <4>2. BeginAuthentication(response) = FirstError(<<a>>)
        BY DEF BeginAuthentication
      <4> HIDE DEF a
      <4> QED
        BY <4>1, <4>2, FirstErrorOf1 DEF Ok
    <3> QED
      BY <2>1, <3>1 DEF LookedUpAndVerified
  <2> DEFINE binding == BindingAnswer(rp, "webauthn.get", Challenge, response.client_data,
                                      attempt.now)
  <2>4. binding = Ok /\ AuthenticationBodyAnswer(rp, c, response) = "SignCountInvalid"
    <3>1. binding # "SignCountInvalid"
      BY DEF BindingAnswer, Ok
    <3>2. IF binding # Ok THEN binding = "SignCountInvalid"
          ELSE AuthenticationBodyAnswer(rp, c, response) = "SignCountInvalid"
      BY <2>3, AuthenticationVerdict
    <3> QED
      BY <3>1, <3>2
  <2>5. /\ response.client_data.type = "webauthn.get"
        /\ response.client_data.challenge = Challenge.bytes
        /\ response.client_data.origin \in rp.allowed_origins
    BY <2>4 DEF BindingAnswer, Ok
  <2> HIDE DEF binding
  <2>6. PresenceAnswer(c.rp_id, response.auth_data) # "SignCountInvalid"
    BY <2>2 DEF PresenceAnswer, Ok
  <2>7. PresenceAnswer(c.rp_id, response.auth_data) = Ok =>
           response.auth_data.rp_id = c.rp_id
    BY DEF PresenceAnswer, Ok
  <2>8. /\ PresenceAnswer(c.rp_id, response.auth_data) = Ok
        /\ VerifySignature(c, response)
        /\ SignCountInvalid(c.sign_count, response.auth_data.sign_count)
    BY <2>4, <2>6 DEF AuthenticationBodyAnswer, BackupPolicyAnswer, Ok
  <2>9. Response = response
    BY DEF Response, Created, Asserted, response
  <2> QED
    BY <2>5, <2>7, <2>8, <2>9
<1> QED
  BY <1>1, Invariance, PTL


\* The caller holds at most one credential, the device's, and at most one
\* question; the counters stay within their bound; and a ceremony ends in Ok or
\* in one of the library's errors: the parsers, the attestation and the checks
\* answer with no other.
THEOREM TypeCorrect == Spec => []TypeOK
<1>1. ASSUME NEW S, \A v \in S : S = {v} PROVE Cardinality(S) <= 1
  <2>1. CASE S = {}
    BY <2>1, FS_EmptySet
  <2>2. CASE S # {}
    <3>1. PICK v : S = {v}
      BY <1>1, <2>2
    <3>2. Cardinality({v}) = 1
      BY FS_Singleton
    <3> QED
      BY <3>1, <3>2
  <2> QED
    BY <2>1, <2>2
<1>2. IInv => TypeOK
  <2> SUFFICES ASSUME IInv PROVE TypeOK
    OBVIOUS
  <2>1. Cardinality(stored) <= 1 /\ Cardinality(pending) <= 1
    BY <1>1 DEF IInv
  <2>2. attempt = NoAttempt \/ attempt.verdict \in Verdicts
    <3>1. ASSUME RegistrationExplained PROVE attempt.verdict \in Verdicts
      <4>1. DOMAIN AttestationResponses = Answers(TRUE)
        BY DEF AttestationResponses
      <4> QED
        BY <3>1, <4>1, RegistrationTyped DEF RegistrationExplained
    <3>2. ASSUME NEW c, AssertionExplained(c) PROVE attempt.verdict \in Verdicts
      <4>1. DOMAIN AssertionResponses = Answers(FALSE)
        BY DEF AssertionResponses
      <4>2. /\ attempt.sent \in Answers(FALSE)
            /\ attempt.verdict =
                 LookedUpAndVerified(c, AssertionResponses[attempt.sent], attempt.now)
        BY <3>2, <4>1 DEF AssertionExplained
      <4>3. LookedUpAndVerified(c, AssertionResponses[attempt.sent], attempt.now) \in Verdicts
        BY <4>2, AssertionTyped
      <4> QED
        BY <4>2, <4>3
    <3> QED
      BY <3>1, <3>2 DEF IInv, AttemptExplained
  <2> QED
    BY <2>1, <2>2 DEF IInv, KnownTo, TypeOK, Verdicts
<1> QED
  BY <1>2, Invariance, PTL

\* Nothing that is wrong with a response is accepted: for every configuration
\* and every authenticator, whichever check is the one that refuses it, and
\* whatever was deployed between the question and the answer.
THEOREM FaultsRefused == Spec => []FaultyNeverAccepted
<1>1. IInv => FaultyNeverAccepted
  <2> SUFFICES ASSUME IInv, Accepted PROVE attempt.sent.fault = "none"
    BY DEF FaultyNeverAccepted
  <2>1. CASE Created
    <3>1. DOMAIN AttestationResponses = Answers(TRUE)
      BY DEF AttestationResponses
    <3>2. /\ attempt.sent \in Answers(TRUE) /\ rp \in Policies
          /\ Timely(rp, attempt.sent.fault, attempt.now)
          /\ VerifyRegistration(rp, Challenge, AttestationResponses[attempt.sent],
                                attempt.now) = Ok
      BY <2>1, <3>1, Explained DEF RegistrationExplained, Accepted, IInv
    <3> QED
      BY <3>2, FaultyRegistrationRefused
  <2>2. CASE Asserted
    <3>1. DOMAIN AssertionResponses = Answers(FALSE)
      BY DEF AssertionResponses
    <3>2. PICK c : AssertionExplained(c)
      BY <2>2, Explained
    <3>3. /\ attempt.sent \in Answers(FALSE) /\ rp \in Policies
          /\ Timely(rp, attempt.sent.fault, attempt.now) /\ KnownTo(attempt.sent.device, c)
          /\ LookedUpAndVerified(c, AssertionResponses[attempt.sent], attempt.now) = Ok
      BY <3>1, <3>2 DEF AssertionExplained, Accepted, IInv
    <3> QED
      BY <3>3, FaultyAssertionRefused
  <2> QED
    BY <2>1, <2>2 DEF Accepted
<1> QED
  BY <1>1, Invariance, PTL

\* From one accepted assertion to the next the count goes up, or stays zero,
\* whatever the authenticator's counter does.
THEOREM CountsIncrease == Spec => AcceptedCountsIncrease
<1>1. IInv /\ [Next]_vars =>
        [ \A c \in stored, d \in stored' :
             attempt'.ceremony = "webauthn.get" /\ attempt'.verdict = Ok =>
                 d.sign_count > c.sign_count \/ (d.sign_count = 0 /\ c.sign_count = 0) ]_vars
  BY InvariantKept DEF Advanced
<1> QED
  BY <1>1, Invariance, PTL DEF Spec, AcceptedCountsIncrease

\* What is offered is a list.
LEMMA OfferedFinite ==
    ASSUME NEW p \in Policies
    PROVE  IsFiniteSet(PubKeyCredParams(p))
<1>1. IsFiniteSet({"ES256", "ES384", "EdDSA", "RS256"})
  <2>1. IsFiniteSet({"ES256"})
    BY FS_Singleton
  <2>2. IsFiniteSet({"ES256"} \union {"ES384"})
    BY <2>1, FS_AddElement
  <2>3. IsFiniteSet(({"ES256"} \union {"ES384"}) \union {"EdDSA"})
    BY <2>2, FS_AddElement
  <2>4. IsFiniteSet((({"ES256"} \union {"ES384"}) \union {"EdDSA"}) \union {"RS256"})
    BY <2>3, FS_AddElement
  <2>5. {"ES256", "ES384", "EdDSA", "RS256"} =
          (({"ES256"} \union {"ES384"}) \union {"EdDSA"}) \union {"RS256"}
    OBVIOUS
  <2> QED
    BY <2>4, <2>5
<1> QED
  BY <1>1, PoliciesAssumption DEF PubKeyCredParams

\* A credential that is accepted is of an algorithm that was on offer, whatever
\* list the caller configured, the empty one included.
THEOREM AcceptedOffered == Spec => []AcceptedWasOffered
<1>1. IInv => AcceptedWasOffered
  <2> SUFFICES ASSUME IInv, Created, Accepted
               PROVE  Devices[device].alg \in Offered(CreationOptions(rp, attempt.request))
    BY DEF AcceptedWasOffered
  <2> DEFINE alg == Devices[device].alg
             options == CreationOptions(rp, attempt.request)
             algs == PubKeyCredParams(rp)
  <2>1. DOMAIN AttestationResponses = Answers(TRUE)
    BY DEF AttestationResponses
  <2>2. /\ attempt.sent \in Answers(TRUE) /\ attempt.sent.device = device /\ rp \in Policies
        /\ Timely(rp, attempt.sent.fault, attempt.now)
        /\ VerifyRegistration(rp, Challenge, AttestationResponses[attempt.sent],
                              attempt.now) = Ok
    BY <2>1, Explained DEF RegistrationExplained, Accepted, IInv
  <2>3. Allowed(rp, CoseAlg(CoseKey(KeyMap(device))))
    BY <2>2, FaultyRegistrationRefused
  <2>4. Devices[device].alg \in DOMAIN CoseNumbers
    BY DevicesAssumption DEF IInv
  <2>5. CoseAlg(CoseKey(KeyMap(device))) = alg
    BY <2>4, KeyAlgorithm DEF KeyMap
  <2>6. alg \in algs
    BY <2>3, <2>4, <2>5 DEF Allowed, PubKeyCredParams, CoseNumbers
  <2>7. IsFiniteSet(algs)
    BY <2>2, OfferedFinite
  <2>8. Field(options, "pubKeyCredParams") = {PubKeyCredParamsJson(algs)}
    BY CreationOptionsReadable
  <2> HIDE DEF alg, options, algs
  <2>9. Offered(options) = algs
    BY <2>7, <2>8, AllOffered
  <2> QED
    BY <2>6, <2>9 DEF alg, options
<1> QED
  BY <1>1, Invariance, PTL

\* A caller that persists what it is given and a client that does as the options
\* say are never locked out, wherever there is one site, and its client, and
\* devices whose keys and attestations the library knows.
THEOREM ConformingNeverLockedOut ==
    ASSUME Conforming
    PROVE  Spec => []ConformingAccepted
<1>1. IInv => ConformingAccepted
  <2> DEFINE advanced == \A c \in attempt.against : \/ attempt.sent.count > c.sign_count
                                                    \/ attempt.sent.count = 0 /\ c.sign_count = 0
             minded == PolicyObjects
  <2> SUFFICES ASSUME IInv, Created \/ Asserted, attempt.sent.fault = "none", attempt.obeyed,
                      ~minded, ~(Asserted /\ ~advanced)
               PROVE  attempt.verdict = Ok
    BY DEF ConformingAccepted, Accepted
  <2> DEFINE s == attempt.sent
             now == IssuedAt + (Timeout - 1)
  <2>1. s.device = device => ~Minds(rp, s)
    BY DEF Minds, PolicyObjects
  <2>2. Created => ~Compromised(rp, Devices[device].aaguid)
    BY DEF PolicyObjects
  <2> HIDE DEF minded
  <2>3. rp \in Policies /\ device \in DOMAIN Devices
    BY DEF IInv
  <2>4. CASE Created
    <3>1. /\ s \in Answers(TRUE) /\ s.device = device /\ attempt.now = now
          /\ attempt.verdict = VerifyRegistration(rp, Challenge, AttestationResponses[s],
                                                  attempt.now)
          /\ Devices[device].alg \in Offered(CreationOptions(rp, attempt.request))
      <4>1. DOMAIN AttestationResponses = Answers(TRUE)
        BY DEF AttestationResponses
      <4> QED
        BY <2>4, <4>1, Explained DEF RegistrationExplained, Timely
    <3>2. IsFiniteSet(PubKeyCredParams(rp))
      BY <2>3, OfferedFinite
    <3>3. Field(CreationOptions(rp, attempt.request), "pubKeyCredParams") =
            {PubKeyCredParamsJson(PubKeyCredParams(rp))}
      BY CreationOptionsReadable
    <3>4. Devices[device].alg \in PubKeyCredParams(rp)
      <4> DEFINE options == CreationOptions(rp, attempt.request)
                 algs == PubKeyCredParams(rp)
      <4> HIDE DEF options, algs
      <4>1. Offered(options) = algs
        BY <3>2, <3>3, AllOffered DEF options, algs
      <4> QED
        BY <3>1, <4>1 DEF options, algs
    <3> QED
      BY <2>1, <2>2, <2>3, <2>4, <3>1, <3>4, FaultlessRegistration
  <2>5. CASE Asserted
    <3>1. PICK c : AssertionExplained(c)
      BY <2>5, Explained
    <3>2. /\ s \in Answers(FALSE) /\ s.device = device /\ attempt.now = now
          /\ attempt.against = {c} /\ KnownTo(device, c)
          /\ attempt.verdict = LookedUpAndVerified(c, AssertionResponses[s], attempt.now)
          /\ ~(rp.require_user_verification /\ ~s.verified)
      <4>1. DOMAIN AssertionResponses = Answers(FALSE)
        BY DEF AssertionResponses
      <4> QED
        BY <3>1, <4>1 DEF AssertionExplained, Timely
    <3>3. ~SignCountInvalid(c.sign_count, s.count)
      <4> DEFINE old == c.sign_count
                 new == s.count
      <4>1. new > old \/ (new = 0 /\ old = 0)
        BY <2>5, <3>2
      <4>2. old \in Nat /\ new \in Nat
        <5>1. old \in 0 .. MaxCount
          BY <3>2 DEF KnownTo
        <5> HIDE DEF s
        <5>2. s.count \in 0 .. MaxCount
          BY <3>2, AnswerIs
        <5> QED
          BY <5>1, <5>2, CounterAssumption
      <4> HIDE DEF old, new
      <4>3. ~SignCountInvalid(old, new)
        BY <4>1, <4>2 DEF SignCountInvalid
      <4> QED
        BY <4>3 DEF old, new
    <3> QED
      BY <2>1, <2>3, <3>2, <3>3, FaultlessAssertion
  <2> QED
    BY <2>4, <2>5
<1> QED
  BY <1>1, Invariance, PTL

\* The views of what was put out, for a registration and for an assertion.
LEMMA ViewsExpected ==
    ASSUME Asking, NEW create \in BOOLEAN, create <=> Created, create <=> ~Asserted,
           NEW r, NEW s, Extended(create, {r}, s.outputs)
    PROVE  /\ s.outputs # <<>>
           /\ Views(ExtensionMap(CborMap(s.outputs))) = ExpectedViews(r)
<1>1. PICK options :
         /\ Field(options, "extensions") = {IF create THEN RegistrationExtensions(r)
                                                      ELSE AuthenticationExtensions(r)}
         /\ s.outputs = ExtensionOutputs(options)
  BY DEF Extended
<1>2. {r} \in IF create THEN RegistrationRequests ELSE AuthenticationRequests
  BY DEF Extended
<1>3. OptionsOf(r) /\ MaxU32 >= 4
  BY <1>2 DEF Asking
<1> DEFINE yes == Bool(TRUE)
           seen(blob) == [ cred_props     |-> {[rk |-> {TRUE}] : b \in {c \in r.cred_props : c}},
                           appid          |-> {},
                           prf            |-> {[results |-> prf.eval] : prf \in r.prf},
                           large_blob     |-> {BlobView(blob[b]) : b \in r.large_blob},
                           cred_protect   |-> {c.policy : c \in r.cred_protect},
                           min_pin_length |-> {4 : b \in {c \in r.min_pin_length : c}} ]
<1>4. yes.type = "bool" /\ yes.bool = TRUE
  BY DEF Bool
<1> HIDE DEF yes
<1>5. CASE create
  <2> DEFINE blob == [b \in r.large_blob |-> Named("supported", Bool(TRUE))]
  <2>1. RegistrationAsks(r)
    BY <1>2, <1>5 DEF Asking
  <2>2. s.outputs = Answered(r, blob)
    BY <1>1, <1>3, <1>5, <2>1, RegistrationAnswered
  <2>3. Answered(r, blob) # <<>>
    BY <1>3, <2>1, SomethingAnswered DEF RegistrationAsks
  <2>4. Answerable(r)
    BY <1>3, <2>1 DEF Answerable, RegistrationAsks
  <2>5. Views(ExtensionMap(CborMap(Answered(r, blob)))) = seen(blob)
    BY <2>4, AnsweredViews
  <2>6. BlobView(Named("supported", yes)) = [supported |-> {TRUE}, blob |-> {}, written |-> {}]
    <3>1. /\ FindValue(CborMap(<<Named("supported", yes)>>), "supported") = {yes}
          /\ FindValue(CborMap(<<Named("supported", yes)>>), "blob") = {}
          /\ FindValue(CborMap(<<Named("supported", yes)>>), "written") = {}
      BY OneListed
    <3> QED
      BY <1>4, <3>1 DEF BlobView, FindBool, FindBytes
  <2>7. {BlobView(blob[b]) : b \in r.large_blob} =
          {[supported |-> {TRUE}, blob |-> {}, written |-> {}] : b \in r.large_blob}
    BY <2>6 DEF yes
  <2>8. seen(blob) = ExpectedViews(r)
    BY <1>5, <2>7 DEF ExpectedViews
  <2> QED
    BY <2>2, <2>3, <2>5, <2>8
<1>6. CASE ~create
  <2> DEFINE blob == [b \in r.large_blob |-> BlobAnswer(b)]
  <2>1. AuthenticationAsks(r)
    BY <1>2, <1>6 DEF Asking
  <2>2. s.outputs = Answered(r, blob)
    BY <1>1, <1>3, <1>6, <2>1, AuthenticationAnswered
  <2>3. Answered(r, blob) # <<>>
    BY <1>3, <2>1, SomethingAnswered DEF AuthenticationAsks
  <2>4. Answerable(r)
    BY <1>3, <2>1 DEF Answerable, AuthenticationAsks
  <2>5. Views(ExtensionMap(CborMap(Answered(r, blob)))) = seen(blob)
    BY <2>4, AnsweredViews
  <2> DEFINE six == Octets(2, 6)
             octets == Bytes(six)
             view(b) == [ supported |-> {}, blob |-> IF b = {} THEN {six} ELSE {},
                          written   |-> IF b # {} THEN {TRUE} ELSE {} ]
  <2> HIDE DEF six
  <2>6. octets.type = "bytes" /\ octets.octets = six
    BY DEF Bytes
  <2> HIDE DEF octets
  <2>7. BlobView(Named("blob", octets)) = [supported |-> {}, blob |-> {six}, written |-> {}]
    <3>1. /\ FindValue(CborMap(<<Named("blob", octets)>>), "supported") = {}
          /\ FindValue(CborMap(<<Named("blob", octets)>>), "blob") = {octets}
          /\ FindValue(CborMap(<<Named("blob", octets)>>), "written") = {}
      BY OneListed
    <3> QED
      BY <2>6, <3>1 DEF BlobView, FindBool, FindBytes
  <2>8. BlobView(Named("written", yes)) = [supported |-> {}, blob |-> {}, written |-> {TRUE}]
    <3>1. /\ FindValue(CborMap(<<Named("written", yes)>>), "supported") = {}
          /\ FindValue(CborMap(<<Named("written", yes)>>), "blob") = {}
          /\ FindValue(CborMap(<<Named("written", yes)>>), "written") = {yes}
      BY OneListed
    <3> QED
      BY <1>4, <3>1 DEF BlobView, FindBool, FindBytes
  <2>9. \A b \in r.large_blob : BlobView(blob[b]) = view(b)
    BY <2>7, <2>8 DEF BlobAnswer, octets, six, yes
  <2>10. {BlobView(blob[b]) : b \in r.large_blob} = {view(b) : b \in r.large_blob}
    <3> HIDE DEF blob, view
    <3> QED
      BY <2>9
  <2>11. seen(blob) = ExpectedViews(r)
    BY <1>6, <2>10 DEF ExpectedViews, six
  <2> QED
    BY <2>2, <2>3, <2>5, <2>11
<1> QED
  BY <1>5, <1>6

\* What the caller asked of an extension comes back to it, whatever it asked:
\* through the options, the client, the authenticator data and the typed views.
THEOREM ExtensionsComeBack ==
    ASSUME Asking
    PROVE  Spec => []ExtensionsAnswered
<1>1. IInv => ExtensionsAnswered
  <2> SUFFICES ASSUME IInv, Accepted, NEW r \in attempt.request
               PROVE  {Views(map) : map \in Response.auth_data.extensions} = {ExpectedViews(r)}
    BY DEF ExtensionsAnswered
  <2> DEFINE s == attempt.sent
             map == ExtensionMap(CborMap(s.outputs))
  <2>1. ASSUME Extended(Created, attempt.request, s.outputs)
        PROVE  Extended(Created, {r}, s.outputs)
    <3>1. attempt.request \in RegistrationRequests \union AuthenticationRequests
      BY <2>1 DEF Extended
    <3>2. attempt.request = {r}
      BY <3>1 DEF Asking, IsOption
    <3> QED
      BY <2>1, <3>2
  <2>2. CASE Created
    <3>1. DOMAIN AttestationResponses = Answers(TRUE)
      BY DEF AttestationResponses
    <3>2. /\ s \in Answers(TRUE) /\ rp \in Policies
          /\ Timely(rp, s.fault, attempt.now)
          /\ VerifyRegistration(rp, Challenge, AttestationResponses[s], attempt.now) = Ok
          /\ Extended(TRUE, attempt.request, s.outputs)
      BY <2>2, <3>1, Explained DEF RegistrationExplained, Accepted, IInv
    <3>3. s.fault = "none" /\ ReadBack(s).parse = Ok /\ Response.auth_data = ReadBack(s)
      BY <2>2, <3>2, FaultyRegistrationRefused DEF Response
    <3>4. ~Asserted
      BY <2>2 DEF Created, Asserted
    <3>5. Extended(TRUE, {r}, s.outputs)
      BY <2>1, <2>2, <3>2 DEF Extended
    <3>6. s.outputs # <<>> /\ Views(map) = ExpectedViews(r)
      BY <2>2, <3>4, <3>5, ViewsExpected
    <3>7. ReadBack(s).extensions = {map}
      BY <3>2, <3>3, <3>6, OutputsReadBack
    <3> QED
      BY <3>3, <3>6, <3>7
  <2>3. CASE Asserted
    <3>1. DOMAIN AssertionResponses = Answers(FALSE)
      BY DEF AssertionResponses
    <3>2. PICK c : AssertionExplained(c)
      BY <2>3, Explained
    <3>3. /\ s \in Answers(FALSE) /\ rp \in Policies
          /\ Timely(rp, s.fault, attempt.now) /\ KnownTo(s.device, c)
          /\ LookedUpAndVerified(c, AssertionResponses[s], attempt.now) = Ok
          /\ Extended(FALSE, attempt.request, s.outputs)
      BY <3>1, <3>2 DEF AssertionExplained, Accepted, IInv
    <3>4. ~Created
      BY <2>3 DEF Created, Asserted
    <3>5. s.fault = "none" /\ ReadBack(s).parse = Ok /\ Response.auth_data = ReadBack(s)
      BY <3>3, <3>4, FaultyAssertionRefused DEF Response
    <3>6. Extended(FALSE, {r}, s.outputs)
      BY <2>1, <3>3, <3>4 DEF Extended
    <3>7. s.outputs # <<>> /\ Views(map) = ExpectedViews(r)
      BY <2>3, <3>4, <3>6, ViewsExpected
    <3>8. ReadBack(s).extensions = {map}
      BY <3>3, <3>5, <3>7, OutputsReadBack
    <3> QED
      BY <3>5, <3>7, <3>8
  <2> QED
    BY <2>2, <2>3 DEF Accepted
<1> QED
  BY <1>1, Invariance, PTL
=============================================================================
