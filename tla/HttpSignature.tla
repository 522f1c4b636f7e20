---------------------------- MODULE HttpSignature ----------------------------
(***************************************************************************)
(* The spec 004 write-auth profile of packages/crypto/src/http-signature.ts *)
(* as operators over a message: one RFC 9421 signature over the method, the *)
(* target, the digest of the body and, when the message carries a grant     *)
(* chain, that chain.  Hashes and signatures are ideal: two digests are     *)
(* equal only for equal octets, and a signature verifies only under its     *)
(* key and over the base that was signed.                                   *)
(*                                                                         *)
(* A message is a record                                                   *)
(*   method, url, body   what is asked, and the content octets on the wire  *)
(*   grants              the PN-Grants header                               *)
(*   digest              the Content-Digest header                          *)
(*   input               Signature-Input: [grants, created, keyId, nonce],  *)
(*                       where grants says whether the chain is covered     *)
(*   signature           Signature: [key, base]                             *)
(* and any of its headers may be Absent or, past the profile, Malformed.    *)
(***************************************************************************)
EXTENDS Integers, Sequences, FiniteSets

CONSTANTS
    Absent,            \* a header that is not there
    Malformed,         \* a header that does not match its pattern
    MaxVerifications   \* the allowance of one operation, in curve checks

ASSUME HttpSignatureAssumption ==
    /\ Absent # Malformed
    /\ MaxVerifications \in Nat

(* contentDigest: over the octets handed over, byte for byte. *)
ContentDigest(octets) == <<"sha-256", octets>>

(* signatureBase: the covered components and the parameters themselves. *)
SignatureBase(method, url, digest, input, grants) ==
    <<method, url, digest, input, grants>>

(* signRequest: the chain, when there is one, is sent and covered. *)
SignRequest(method, url, octets, keyId, key, created, nonce, grants) ==
    LET digest == ContentDigest(octets)
        input == [grants |-> grants # Absent, created |-> created,
                  keyId |-> keyId, nonce |-> nonce]
    IN  [method |-> method, url |-> url, body |-> octets, grants |-> grants,
         digest |-> digest, input |-> input,
         signature |-> [key |-> key,
                        base |-> SignatureBase(method, url, digest, input, grants)]]

-------------------------------------------------------------------------------
(* parseThreshold read a number, and the profile supports exactly 1. *)
SupportedThreshold(threshold) == threshold = 1

KeyMatches(m, key) ==
    /\ m.signature.key = key
    /\ m.signature.base = SignatureBase(m.method, m.url, m.digest, m.input, m.grants)

(* The keys are probed in order and the first match wins; the search stops   *)
(* at the limit before it spends past it.                                    *)
ProbeCost(m, keys) ==
    Cardinality({i \in DOMAIN keys : \A j \in 1 .. i - 1 : ~KeyMatches(m, keys[j])})

ProbeKeys(m, keys, limit) ==
    IF ProbeCost(m, keys) > limit THEN "request_signature_too_expensive"
    ELSE IF \E i \in DOMAIN keys : KeyMatches(m, keys[i]) THEN "verified"
    ELSE "signature_invalid"

(* verifyRequest: the first check to fail names the reason.  The reasons are *)
(* the ones verify reports for the classes it throws.                        *)
VerifyRequest(m, octets, keys, threshold, now, skew, limit) ==
    IF Absent \in {m.digest, m.input, m.signature} THEN "signature_invalid"
    ELSE IF m.digest # ContentDigest(octets) THEN "content_digest_mismatch"
    ELSE IF m.input = Malformed \/ m.input.grants # (m.grants # Absent) THEN "signature_invalid"
    ELSE IF now - m.input.created > skew \/ m.input.created - now > skew THEN "signature_stale"
    ELSE IF m.signature = Malformed \/ ~SupportedThreshold(threshold) THEN "signature_invalid"
    ELSE ProbeKeys(m, keys, limit)
===============================================================================
