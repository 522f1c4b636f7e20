----------------------------- MODULE SignatureSet -----------------------------
(***************************************************************************)
(* The rules of packages/crypto/src/signature-set.ts for a signed record   *)
(* or key event: S0 (no repeated key), S1 (the threshold's domain, t <= n, *)
(* and exactly t members) and, declaratively, S2/S3 (every member under a  *)
(* listed key of its own, in increasing key order).                        *)
(*                                                                         *)
(* A threshold text is the number it is the decimal rendering of, or       *)
(* Malformed when it is outside ^[1-9][0-9]*$ ("", "01", "0x2", "-1").     *)
(***************************************************************************)
EXTENDS Integers, Sequences, FiniteSets

Malformed == -1
NoThreshold == 0

ParseThreshold(text) == IF text \in Nat \ {0} THEN text ELSE NoThreshold

RepeatsKey(keys) ==
    \E i, j \in DOMAIN keys : i # j /\ keys[i] = keys[j]

CheckKeyState(keys, text) ==
    IF RepeatsKey(keys) THEN "state_repeats_key"
    ELSE IF ParseThreshold(text) = NoThreshold THEN "threshold_malformed"
    ELSE IF ParseThreshold(text) > Len(keys) THEN "threshold_exceeds_key_count"
    ELSE "ok"

CheckMemberCount(memberCount, threshold) ==
    IF memberCount = threshold THEN "ok" ELSE "signature_count_not_threshold"

(* The checks that cost no curve operation, in their order. *)
CheckStructure(keys, text, memberCount) ==
    IF CheckKeyState(keys, text) # "ok" THEN CheckKeyState(keys, text)
    ELSE CheckMemberCount(memberCount, ParseThreshold(text))

(* S2/S3 as the specification 015 states them: a strictly increasing choice   *)
(* of keys, one per member.  under[i] is the set of positions of the keys     *)
(* that member i verifies under.                                              *)
Increasing(choice) ==
    \A i, j \in DOMAIN choice : i < j => choice[i] < choice[j]

ConformingAssignment(choice, memberCount, keyCount, under) ==
    /\ choice \in [1 .. memberCount -> 1 .. keyCount]
    /\ Increasing(choice)
    /\ \A i \in 1 .. memberCount : choice[i] \in under[i]

Conforms(memberCount, keyCount, under) ==
    \E choice \in [1 .. memberCount -> 1 .. keyCount] :
        ConformingAssignment(choice, memberCount, keyCount, under)

(* What a set is to be answered, whoever computes it and however. *)
Judgement(keys, text, memberCount, under) ==
    IF CheckStructure(keys, text, memberCount) # "ok"
    THEN CheckStructure(keys, text, memberCount)
    ELSE IF Conforms(memberCount, Len(keys), under) THEN "ok"
    ELSE "no_conforming_assignment"
===============================================================================
