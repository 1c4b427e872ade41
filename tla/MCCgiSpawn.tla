----------------------------- MODULE MCCgiSpawn -----------------------------
(* Instances of module CgiSpawn for TLC. *)
EXTENDS CgiSpawn, TLC

CONSTANTS j1, j2, p1, p2, r1, r2, d1

MCDomainOf == [j \in Jobs |-> d1]
MCNoDomains == [j \in Jobs |-> NoDomain]

ProcSymmetry == Permutations(Procs)
=============================================================================
