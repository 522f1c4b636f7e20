----------------------------- MODULE IdentityFile -----------------------------
(* The file an identity is kept in between two runs of its holder's program,  *)
(* packages/crypto/src/identity-file.ts.                                      *)
EXTENDS KeyLog

(* A fault to be caught: "no threshold" is written as an empty text. *)
FaultyToIdentityFile(holder) ==
    [holder EXCEPT !.nextThreshold = IF @ = NoThreshold THEN Malformed ELSE @]

(* toIdentityFile keeps every field; fromIdentityFile replays the log and      *)
(* holds the stored keys against it.                                           *)
ToIdentityFile(holder) == holder

Unloadable == [log |-> << >>]

FromIdentityFile(file) ==
    IF /\ Len(file.nextKeys) <= MaxKeys
       /\ Replays(file.log)
       /\ file.log[1].id = file.id
       /\ file.currentKeys = Last(file.log).keys
       /\ \/ file.nextThreshold = NoThreshold /\ file.nextKeys = << >>
          \/ /\ Committable(file.nextKeys, file.nextThreshold)
             /\ CommitToKeyState(file.nextKeys, file.nextThreshold) = Last(file.log).next
    THEN file
    ELSE Unloadable
===============================================================================
