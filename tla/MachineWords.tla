---------------------------- MODULE MachineWords ----------------------------
(***************************************************************************)
(* The machine integers whose width shows: u32 and u64 as a release build  *)
(* computes with them (core/norse-exfat/src/format.rs, boot.rs,            *)
(* core/vc-format/src/create.rs, core/vc-types/src/registry.rs).           *)
(***************************************************************************)
EXTENDS Integers

CONSTANTS
    Word,       \* 2^32 in the code
    LongWord    \* 2^64 in the code

ASSUME WordAssumption ==
    /\ Word \in Nat /\ Word >= 65536
    /\ LongWord \in Nat /\ LongWord > Word

(* `x as u32`, and what u32 arithmetic leaves of a result. *)
AsU32(x) == x % Word

(* What u64 arithmetic leaves of a result. *)
AsU64(x) == x % LongWord
=============================================================================
