------------------------------- MODULE MCSpawn -------------------------------
(* Instances of SpawnWorkflow: one workflow of two or three requests and its *)
(* reviewer, whose children are c1 to c4.                                    *)
EXTENDS SpawnWorkflow

CONSTANTS c1, c2, c3, c4
=============================================================================
