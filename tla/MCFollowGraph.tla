--------------------------- MODULE MCFollowGraph ----------------------------
EXTENDS FollowGraph, TLC

CONSTANTS A, B

Symmetry == Permutations(Servers)

AllOps == DOMAIN Methods

\* How a host is written makes a difference to the domain blocks of the other
\* server only: two pairs show what each kind does.
Pairs == {h \in [Servers -> Hosts] :
            {h[s] : s \in Servers} \in {{"plain"}, {"ported", "odd"}}}

=============================================================================
