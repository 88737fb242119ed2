--------------------------- MODULE MCHitlExecution ---------------------------
(* The instances of HitlExecution that TLC checks. *)
EXTENDS HitlExecution, TLC

CONSTANTS q1, c1, n1, r1, r2, r3

Interchangeable == Permutations(Runs)
=============================================================================
