---------------------------- MODULE MCInventory ----------------------------
(***************************************************************************)
(* One product in two warehouses, lots of up to two units, two batch       *)
(* numbers: lots that run out in the middle of a deduction, transfers of   *)
(* part of a lot, goods without a lot, a lot of the other warehouse.       *)
(***************************************************************************)
EXTENDS Inventory, TLC

CONSTANTS p1, w1, w2, n1, n2

\* Warehouses and batch numbers are interchangeable.
MCSymmetry == Permutations({w1, w2}) \cup Permutations({n1, n2})
=============================================================================
