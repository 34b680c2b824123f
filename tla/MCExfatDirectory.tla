-------------------------- MODULE MCExfatDirectory --------------------------
(* Instances of ExfatDirectory for TLC.  Files among themselves, and        *)
(* directories among themselves, are interchangeable as long as they need   *)
(* the same number of slots.                                                *)
EXTENDS ExfatDirectoryInv, TLC

Interchangeable == Permutations(Files) \cup Permutations(Dirs)
=============================================================================
