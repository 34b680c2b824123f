--------------------------- MODULE MCVaultSession ---------------------------
(* Instances of VaultSession for TLC.  No step tells one caller, or one    *)
(* block outside the hidden volume, from another.                          *)
EXTENDS VaultSessionInv, TLC

Interchangeable == Permutations(Callers) \cup Permutations(Blocks \ Hidden)
=============================================================================
