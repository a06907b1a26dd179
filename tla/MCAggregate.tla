---------------------------- MODULE MCAggregate -----------------------------
(* Instances of Aggregate: scalars of both classes and three sizes. *)
EXTENDS Aggregate
=============================================================================
