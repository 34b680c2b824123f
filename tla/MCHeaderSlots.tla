--------------------------- MODULE MCHeaderSlots ---------------------------
(* Instances of HeaderSlots for TLC. *)
EXTENDS HeaderSlotsInv
=============================================================================
