------------------------------ MODULE MCVault ------------------------------
EXTENDS Vault, TLC

CONSTANTS i1, i2, p1, p2, d1, d2

SetupSymmetry == Permutations({i1, i2})
VaultSymmetry == SetupSymmetry \cup Permutations({p1, p2}) \cup Permutations({d1, d2})
=============================================================================
