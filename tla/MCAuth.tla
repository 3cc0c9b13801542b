-------------------------------- MODULE MCAuth --------------------------------
(* Instances of Auth for TLC.                                              *)
EXTENDS Auth, TLC

CONSTANTS amy, bob, l1, o1, o2, m1, w1, s1

AuthSymmetry == Permutations(User) \cup Permutations(Logout)
=============================================================================
