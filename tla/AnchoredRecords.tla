---------------------------- MODULE AnchoredRecords ----------------------------
(* Records that carry a signature set and an anchor, packages/crypto/src/      *)
(* records.ts: judged against the one key state the anchor names.              *)
EXTENDS KeyLog

(* A member of the set verifies under the keys that made it, for this record *)
(* and this anchor.                                                          *)
MadeBy(state, signers) ==
    [i \in DOMAIN signers |-> {j \in DOMAIN state.keys : state.keys[j] = signers[i]}]

(* checkAnchoredSignatureSet over the states of a replayed log: one state is  *)
(* tried, the one that is named.                                              *)
CheckAnchored(record, log) ==
    IF ~ReplaysFor(identity.id, log) THEN "log_invalid"
    ELSE IF AnchoredStates(log, record.anchor) = {} THEN "anchor_unknown"
    ELSE LET state == CHOOSE s \in AnchoredStates(log, record.anchor) : TRUE
         IN  Judgement(state.keys, state.threshold, Len(record.signers),
                       MadeBy(state, record.signers))
===============================================================================
