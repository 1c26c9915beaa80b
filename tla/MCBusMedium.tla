----------------------------- MODULE MCBusMedium -----------------------------
(* Instances of BusMedium for TLC. *)
EXTENDS BusMedium, TLC

CONSTANTS r, d, e

(* The devices are interchangeable. *)
DeviceSymmetry == Permutations(Device)

=============================================================================
