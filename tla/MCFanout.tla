------------------------------ MODULE MCFanout ------------------------------
(* Three actors of two domains, one of them mentioned by two accts and also *)
(* the author of the post replied to or announced.                         *)
EXTENDS Fanout, TLC

CONSTANTS a1, a2, a3, d1, d2, j1, m1, m2

MCDomainOf == (a1 :> d1) @@ (a2 :> d2) @@ (a3 :> d1)

MCActorOf == (m1 :> a1) @@ (m2 :> a1)

MCInitial == (a1 :> 1) @@ (a2 :> 2) @@ (a3 :> 3)

MCScenarios == [{j1} -> Kinds]

=============================================================================
