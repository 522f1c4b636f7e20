----------------------------- MODULE MCNonceGuard -----------------------------
(* Instance of NonceGuardCaller: retention of 3 ticks (skew 0 would give one  *)
(* second; skew 1 at one tick per second gives 3), a ceiling of two entries   *)
(* and three nonces, so that capacity, expiry and refresh all happen.         *)
EXTENDS NonceGuardCaller, TLC

CONSTANTS n1, n2, n3

MCNonce == {n1, n2, n3}
MCReadings == {-1, 0}
NonceSymmetry == Permutations(MCNonce)
===============================================================================
