--------------------------- MODULE MCPndirUpdate ---------------------------
EXTENDS PndirUpdate, TLC
Symmetry == Permutations(Pkg)

=============================================================================
