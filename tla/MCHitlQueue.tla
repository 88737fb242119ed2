----------------------------- MODULE MCHitlQueue -----------------------------
(* The instances of HitlQueue that TLC checks. *)
EXTENDS HitlQueue, TLC

CONSTANTS c1, n1, n2, t1, t2, t3, g1, q1, q2, q3, h1, h2, h3

Interchangeable ==
    Permutations(Tickets) \cup Permutations(Requests) \cup Permutations(Handlers)
=============================================================================
