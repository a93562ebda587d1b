--------------------------- MODULE MCMaintenance ---------------------------
(* Instances of Maintenance for TLC. *)
EXTENDS Maintenance, TLC

CONSTANTS c1, c2, d1, e1, m1, m2, handPrice, otherPrice

A(fails, missing, price) ==
  [id |-> 0, active |-> TRUE,
   meta |-> [fails |-> fails, missing |-> missing, premium |-> FALSE, price |-> price]]

(* A model one failure short of its deactivation or, with a manual price,  *)
(* also a listing short of it, beside one that is not there yet.           *)
MCFirstRows ==
  {[m \in Model |-> IF m = m1 THEN A(1, p = "none", p) ELSE Nothing] : p \in {"none", handPrice}}

(* The two cleanups are interchangeable.                                   *)
Interchangeable == Permutations(Cleaner)
=============================================================================
