---------------------------- MODULE MCCoordinator ----------------------------
(* Small clusters for TLC: every watcher lists every other one.             *)
EXTENDS Coordinator

MC_Node2 == 1..2
MC_Node3 == 1..3
MC_Mesh2 == [n \in 1..2 |-> 1..2 \ {n}]
MC_Mesh3 == [n \in 1..3 |-> 1..3 \ {n}]
=============================================================================
