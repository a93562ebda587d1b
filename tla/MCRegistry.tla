----------------------------- MODULE MCRegistry -----------------------------
(* Instances of Registry for TLC. *)
EXTENDS Registry, TLC

CONSTANTS a1, a2, l1

(* One operation for each way of touching the tables, the row counts and   *)
(* the re-read.                                                            *)
MCOps == {"insert_provider", "delete_provider", "insert_pool_key", "cleanup", "seed", "discover"}

(* Administrators are interchangeable.                                     *)
Interchangeable == Permutations(Admin)

SeedOps == {"insert_provider", "delete_provider", "seed", "discover"}
=============================================================================
