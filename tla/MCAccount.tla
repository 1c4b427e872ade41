------------------------------ MODULE MCAccount ------------------------------
EXTENDS Account, TLC

Symmetry == Permutations(Procs) \cup Permutations(Secrets) \cup Permutations(Names)

=============================================================================
