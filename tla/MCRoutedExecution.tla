------------------------- MODULE MCRoutedExecution -------------------------
\* Identical and different requests: reranks (kRank), embeddings of one input
\* (kOne) and of two (kTwo).
EXTENDS RoutedExecution, TLC
CONSTANTS r1, r2, r3, kRank, kOne, kTwo
MCInputs == (kRank :> 0) @@ (kOne :> 1) @@ (kTwo :> 2)
Ask(x, y, z) == (r1 :> x) @@ (r2 :> y) @@ (r3 :> z)
MCAsks == {Ask(kRank, kRank, kRank), Ask(kRank, kRank, kOne), Ask(kRank, kOne, kTwo),
           Ask(kOne, kOne, kTwo), Ask(kOne, kTwo, kTwo)}
=============================================================================
