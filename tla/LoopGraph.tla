----------------------------- MODULE LoopGraph -----------------------------
(***************************************************************************)
(* Control flow graphs of loops, and what the LLVM analyses the pass asks  *)
(* say of them.  A graph G is a function from blocks to the sets of their  *)
(* successors; the exit of the loop is a successor outside DOMAIN G.       *)
(***************************************************************************)
EXTENDS Integers, FiniteSets

\* What control can come to from b, b included.
Reached(G, b) ==
    LET R[n \in 0 .. Cardinality(DOMAIN G)] ==
            IF n = 0 THEN {b}
            ELSE LET r == R[n - 1]
                 IN  r \cup UNION {G[c] : c \in r \cap DOMAIN G}
    IN  R[Cardinality(DOMAIN G)]

\* The post-dominators of b: the blocks no path from b to the exit e avoids.
PostDominators(G, e, b) ==
    {d \in DOMAIN G : e \notin Reached([G EXCEPT ![d] = {}], b)}

\* A natural loop with one exit: the header leads to every block, every
\* block leads back to it, and some block leaves.
IsLoop(G, header, e) ==
    /\ Reached(G, header) = DOMAIN G \cup {e}
    /\ \A b \in DOMAIN G : \E s \in G[b] : header \in Reached(G, s)

\* d is on every path from the header to b.
Dominates(G, header, d, b) ==
    b = d \/ d = header \/ b \notin Reached([G EXCEPT ![d] = {}], header)

\* The loop cut where an iteration ends, of it or of a loop inside it: where
\* an edge goes back to a block that dominates the one it comes from.
Iteration(G, header, e) ==
    [b \in DOMAIN G |->
        {IF s # e /\ Dominates(G, header, s, b) THEN e ELSE s : s \in G[b]}]

\* The loops inside a loop are entered at their headers: without the edges
\* that end an iteration nothing comes twice.
IsReducible(G, header, e) ==
    LET I == Iteration(G, header, e)
    IN  \A b \in DOMAIN G : \A s \in I[b] : b \notin Reached(I, s)

\* The pairs <<a, b>> where a decides whether control comes to b, again if it
\* is there (Ferrante, Ottenstein and Warren): one way out of a leads to b,
\* another need not.
Decisions(G, e) ==
    UNION {LET ways == {PostDominators(G, e, s) : s \in G[a]}
           IN  {a} \X {b \in UNION ways : \E w \in ways : b \notin w} :
             a \in DOMAIN G}
=============================================================================
