---- MODULE MCLoopSplit ----
(* The blocks other than the header are interchangeable.                    *)
EXTENDS LoopSplit, TLC

\* The first value of the header is used after the loop.
headerUsed == {<<header, 1>>}

Symmetry == Permutations(Blocks \ {header})
====
