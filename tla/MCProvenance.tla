---------------------------- MODULE MCProvenance ----------------------------
(***************************************************************************)
(* One attestation of each format, and two of packed that share a chain.   *)
(***************************************************************************)
EXTENDS Provenance

P256(id) == [kind |-> "P256", id |-> id]
Rsa(id) == [kind |-> "RSA", id |-> id]

Cert(subject, key, issuer, signer) ==
    [ subject |-> subject, key |-> key, issuer |-> issuer, signer |-> signer,
      valid |-> TRUE, ca |-> FALSE, aaguid |-> {}, nonce |-> {}, host |-> "" ]

RootA == [Cert("RootA", P256("rootA"), "RootA", P256("rootA")) EXCEPT !.ca = TRUE]
RootB == [Cert("RootB", P256("rootB"), "RootB", P256("rootB")) EXCEPT !.ca = TRUE]
Intermediate == [Cert("CA", P256("ca"), "RootA", P256("rootA")) EXCEPT !.ca = TRUE]

Leaf(key) == Cert("Leaf", key, "CA", P256("ca"))
LongChain(leaf) == <<leaf, Intermediate>>
ShortChain(key) == <<Cert("Leaf", key, "RootB", P256("rootB"))>>

Es256(id) == [kty |-> "EC2", alg |-> "ES256", id |-> id]
Rs256(id) == [kty |-> "RSA", alg |-> "RS256", id |-> id]
Es384(id) == [kty |-> "EC2", alg |-> "ES384", id |-> id]

Data(id, key) == [rp_id |-> "example.com", credential_id |-> id, public_key |-> key,
                  aaguid |-> "model", sign_count |-> 0]

Made(object, vouches, grade, root) ==
    [object |-> object, vouches |-> vouches, grade |-> grade, root |-> root]

BatchLeaf == [Leaf(P256("batch")) EXCEPT !.aaguid = {"model"}]

MCAttestations ==
    { Made(AttestNone(Data("c1", Es256("k1")), "cd1"), {"None"}, "None", RootA),
      Made(AttestSelf(Data("c2", Es256("k2")), "cd2"), {"SelfAttestation"}, "SelfAttestation", RootA),
      Made(AttestSelf(Data("c3", Rs256("k3")), "cd3"), {"SelfAttestation"}, "SelfAttestation", RootA),
      Made(AttestPacked(Data("c4", Es256("k4")), "cd4", "ES256", LongChain(BatchLeaf)),
           {"Basic"}, "Basic", RootA),
      Made(AttestPacked(Data("c5", Rs256("k5")), "cd5", "RS256", ShortChain(Rsa("batch2"))),
           {"Basic"}, "Basic", RootB),
      Made(AttestU2f([Data("c6", Es256("k6")) EXCEPT !.aaguid = "zero"], "cd6",
                     ShortChain(P256("u2f"))), {"Basic"}, "Basic", RootB),
      \* The leaf certifies the credential key: either grade is true of it.
      Made(AttestAndroidKey(Data("c7", Es256("k7")), "cd7", LongChain(Leaf(P256("k7")))),
           {"SelfAttestation", "Basic"}, "Basic", RootA),
      Made(AttestApple(Data("c8", Es256("k8")), "cd8", LongChain(Leaf(P256("k8")))),
           {"Basic"}, "Basic", RootA),
      Made(AttestTpm(Data("c9", Rs256("k9")), "cd9", LongChain(Leaf(Rsa("aik")))),
           {"Basic"}, "Basic", RootA),
      Made(AttestSafetynet([Data("c10", Es256("k10")) EXCEPT !.rp_id = "other.com"], "cd10",
                           "ES256_JWS",
                           LongChain([Leaf(P256("google")) EXCEPT !.host = "attest.android.com"])),
           {"Basic"}, "Basic", RootA) }

MCSelfAttestations ==
    { Made(AttestSelf(Data("c", key), "cd"), {"SelfAttestation"}, "SelfAttestation", RootA) :
      key \in {Es256("k"), Es384("k"), Rs256("k")} }

MCRoots == {RootA, RootB}

\* Of the attestations of the first run, and not of those of the second.
ASSUME ConformingAssumption == \A made \in MCAttestations : Conforming(made)
=============================================================================
