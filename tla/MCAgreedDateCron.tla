-------------------------- MODULE MCAgreedDateCron --------------------------
(* Three orders in one column of Mother. *)
EXTENDS AgreedDateCron

CONSTANTS o1, o2, o3, mother, new

OpenOnly == [s \in Statuses |-> "Open"]
=============================================================================
