------------------------- MODULE MCRepairOrderBoard -------------------------
(* Small boards for TLC. *)
EXTENDS RepairOrderBoard, TLC

CONSTANTS o1, o2, o3, mother, child, child2, new, missed, invalid

Cards == Permutations(Orders)

TwoStatuses == (new :> "Open") @@ (missed :> "Missed")

ThreeStatuses == TwoStatuses @@ (invalid :> "Invalid")

AllPairs == Statuses \X Statuses

=============================================================================
