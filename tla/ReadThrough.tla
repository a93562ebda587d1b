---------------------------- MODULE ReadThrough ----------------------------
(***************************************************************************)
(* What ProviderManager promises as "a read-through cache" of the database *)
(* (services/provider_manager.py): table by table, its view is a state the *)
(* database has been in, and a view once reached is never exchanged for an *)
(* older one.  A state of a table is named by the number of commits that   *)
(* led to it.                                                              *)
(***************************************************************************)
EXTENDS Naturals

CONSTANT Table

VARIABLES source, view

Init ==
  /\ source \in [Table -> Nat]
  /\ view = source

(* The database moves on, the view follows at its own pace.                *)
Advance ==
  /\ source' \in [Table -> Nat]
  /\ view' \in [Table -> Nat]
  /\ \A T \in Table : source[T] <= source'[T]
  /\ \A T \in Table : view[T] <= view'[T] /\ view'[T] <= source'[T]

Spec == Init /\ [][Advance]_<< source, view >>
=============================================================================
