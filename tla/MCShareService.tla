---------------------------- MODULE MCShareService ----------------------------
(* Instances of ShareService for TLC.                                      *)
EXTENDS ShareServicePromise, TLC

CONSTANTS u1, u2, d1, d2, v1, a1

AllSymmetry == Permutations(Redemption) \cup Permutations(Upload)
=============================================================================
