--------------------------- MODULE MCExfatVolume ---------------------------
(* Instances of ExfatVolume for TLC.  No call tells one file name from      *)
(* another.                                                                 *)
EXTENDS ExfatStoreInv, TLC

Interchangeable == Permutations(Names)
=============================================================================
