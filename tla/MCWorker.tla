------------------------------ MODULE MCWorker ------------------------------
(* Instances of module Worker for TLC. *)
EXTENDS WorkerInvariants, TLC

CONSTANTS j1, j2, p1, p2, d1

MCDomainOf == [j \in Jobs |-> d1]
MCNoDomains == [j \in Jobs |-> NoDomain]

=============================================================================
