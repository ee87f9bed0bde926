-------------------------- MODULE MCCheckLifecycle --------------------------
(* A node whose configuration file lists one check.                         *)
EXTENDS CheckLifecycle

CONSTANT web

MC_Seeded == {[id |-> 1, name |-> web, enabled |-> TRUE]}
=============================================================================
