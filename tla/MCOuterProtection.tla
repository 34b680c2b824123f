--------------------------- MODULE MCOuterProtection ---------------------------
(* Instances of OuterProtection for the model checker. *)
EXTENDS OuterProtection
================================================================================
