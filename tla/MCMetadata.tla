----------------------------- MODULE MCMetadata -----------------------------
(***************************************************************************)
(* Entries of two models, and entries the reader has to skip; AAGUIDs of   *)
(* two octets.                                                             *)
(***************************************************************************)
EXTENDS Metadata

P256(id) == [kind |-> "P256", id |-> id]

Cert(subject, key, issuer, signer) ==
    [ subject |-> subject, key |-> key, issuer |-> issuer, signer |-> signer, valid |-> TRUE,
      ca |-> FALSE, aaguid |-> {}, nonce |-> {}, host |-> "" ]

MCRoot == Cert("Root", P256("root"), "Root", P256("root"))
MCSigner == << Cert("Signer", P256("signer"), "CA", P256("ca")),
               Cert("CA", P256("ca"), "Root", P256("root")) >>
\* A leaf of the same authority for another service, and one with another key.
MCStrangers == { Cert("Other", P256("other"), "CA", P256("ca")),
                 Cert("Old", [kind |-> "RSA", id |-> "old"], "CA", P256("ca")),
                 Cert("Other", P256("other"), "Nobody", P256("nobody")) }

Uuid(a, b, c, d) == <<Digit(a), Digit(b), Hyphen, Digit(c), Digit(d)>>
Entry(aaguid, status_reports) == [aaguid |-> aaguid, status_reports |-> status_reports]

SoundEntries ==
    { Entry({Uuid(0, 1, 0, 2)}, <<"Revoked">>),
      Entry({Uuid(0, 1, 0, 2)}, <<"FidoCertified", "FUTURE_STATUS">>),
      Entry({Uuid(1, 0, 2, 0)}, <<"UpdateAvailable">>),
      Entry({Uuid(1, 0, 2, 0)}, <<"FUTURE_STATUS", "UserVerificationBypass">>) }

\* No AAGUID, one too short, one with a letter that is no digit.
SkippedEntries ==
    { Entry({}, <<"Revoked">>),
      Entry({<<Digit(0), Digit(1)>>}, <<"Revoked">>),
      Entry({<<Digit(0), Char({}, 1), Hyphen, Digit(0), Digit(2)>>}, <<"Revoked">>) }

MCEntries == SoundEntries \union SkippedEntries
ASSUME Readable(MCEntries)

\* A hyphen in another place, a sign, and a letter of two octets.
OddEntries ==
    SoundEntries \union
    { Entry({<<Digit(0), Hyphen, Digit(1), Digit(0), Digit(2)>>}, <<"Revoked">>),
      Entry({<<Digit(0), Digit(1), Hyphen, Plus, Digit(2)>>}, <<"Revoked">>),
      Entry({<<Digit(0), Char({}, 2), Hyphen, Digit(2)>>}, <<"Revoked">>) }
=============================================================================
