------------------------- MODULE ControlDependence -------------------------
(***************************************************************************)
(* buildPDG.cpp, control dependences: the blocks of the loop are sorted by *)
(* a depth first search, a dummy function is made with each block twice,   *)
(* for the first iteration (top half) and for all later ones (bottom       *)
(* half), and the post-dominator tree of that function is climbed from     *)
(* every successor of every dummy block.                                   *)
(*                                                                         *)
(* An edge goes from the terminator of a block to every instruction of     *)
(* another: it stands here for the pair of blocks.                         *)
(***************************************************************************)
EXTENDS LoopGraph, Sequences

CONSTANTS Blocks,      (* the blocks of the loop                            *)
          header,      (* the one it is entered at                          *)
          exit,        (* the block after it                                *)
          MaxSuccs     (* bound: successors of a block                      *)

ASSUME LoopAssumption == /\ header \in Blocks
                         /\ exit \notin Blocks \cup (Blocks \X {"top", "bottom"})
                         /\ IsFiniteSet(Blocks)
                         /\ MaxSuccs \in Nat

VARIABLES succs,       (* the successors of each block                      *)
          calls,       (* the calls of dfsVisit, the current one last       *)
          vis,         (* the blocks visited                                *)
          bb_ordered,  (* the blocks in the order they were left            *)
          it,          (* the dummy blocks climbed from so far              *)
          control      (* the edges added                                   *)

buildVars == <<succs, calls, vis, bb_ordered, it, control>>

Loops == {G \in [Blocks -> {S \in SUBSET (Blocks \cup {exit}) :
                               Cardinality(S) \in 1 .. MaxSuccs}] :
             IsLoop(G, header, exit) /\ IsReducible(G, header, exit)}

BuildFrom(loops) == /\ succs \in loops
                    /\ calls = <<>>
                    /\ vis = {}
                    /\ bb_ordered = <<>>
                    /\ it = 0
                    /\ control = {}

\* dfsVisit of b; the blocks are listed header first, in any order then.
Enter(b) == /\ b \notin vis
            /\ IF calls = <<>>
               THEN vis = {} => b = header
               ELSE b \in succs[calls[Len(calls)]]
            /\ vis' = vis \cup {b}
            /\ calls' = Append(calls, b)
            /\ UNCHANGED <<succs, bb_ordered, it, control>>

Leave == /\ calls # <<>>
         /\ succs[calls[Len(calls)]] \cap Blocks \subseteq vis
         /\ bb_ordered' = Append(bb_ordered, calls[Len(calls)])
         /\ calls' = SubSeq(calls, 1, Len(calls) - 1)
         /\ UNCHANGED <<succs, vis, it, control>>
-----------------------------------------------------------------------------
\* The place of a block in the order, which is read backwards.
instnum == [b \in Blocks |-> Len(bb_ordered)
              - (CHOOSE n \in DOMAIN bb_ordered : bb_ordered[n] = b)]

\* Mutant: an edge of a block to itself stays in the first iteration.
EarlierStrict(s, b) == instnum[s] < instnum[b]

\* The edge from b to s goes back.
Earlier(s, b) == instnum[s] <= instnum[b]

\* Mutant: the two halves are two copies of the loop.
TopToTop(b, s) == <<s, "top">>

\* Where the top half of b goes for its successor s.
TopTarget(b, s) == <<s, IF Earlier(s, b) THEN "bottom" ELSE "top">>

\* The dummy function; only a returning block has an edge to the exit.
Dummies == Blocks \X {"top", "bottom"}
Dummy == [d \in Dummies |->
            {IF s = exit THEN exit
             ELSE IF d[2] = "top" THEN TopTarget(d[1], s) ELSE <<s, "bottom">> :
             s \in succs[d[1]]}]

\* Mutant: the climb also takes what d itself leads to in any case.
ClimbToExit(d) == UNION {PostDominators(Dummy, exit, s) : s \in Dummy[d] \ {exit}}

\* The dummy blocks the tree is climbed over from the successors of d: those
\* below the nearest common post-dominator of d and the successor.
Climbed(d) == ClimbToExit(d) \ PostDominators(Dummy, exit, d)

\* The dummy blocks in the order of dummylist.
dummylist(n) == <<bb_ordered[Len(bb_ordered) - n \div 2],
                  IF n % 2 = 0 THEN "top" ELSE "bottom">>

Climb == /\ calls = <<>>
         /\ vis = Blocks
         /\ it < 2 * Len(bb_ordered)
         /\ control' = control \cup
               {<<dummylist(it)[1], c[1]>> : c \in Climbed(dummylist(it))}
         /\ it' = it + 1
         /\ UNCHANGED <<succs, calls, vis, bb_ordered>>

BuildNext == (\E b \in Blocks : Enter(b)) \/ Leave \/ Climb
-----------------------------------------------------------------------------
Built == it = 2 * Cardinality(Blocks)

BuildTypeOK ==
    /\ succs \in [Blocks -> SUBSET (Blocks \cup {exit})]
    /\ calls \in Seq(Blocks)
    /\ vis \subseteq Blocks
    /\ bb_ordered \in Seq(Blocks)
    /\ it \in 0 .. 2 * Cardinality(Blocks)
    /\ control \subseteq Blocks \X Blocks

\* A block that decides whether control comes to another, or once more to
\* itself in a later iteration, has an edge to it (buildPDG.cpp:357-387).
NoneMissed ==
    Built => Decisions(succs, exit) \subseteq control

\* So does a block that decides it for the current iteration only, when the
\* other block comes again in some later iteration whatever happens.
IterationsMissNone ==
    Built => Decisions(Iteration(succs, header, exit), exit) \subseteq control

\* An edge comes from a choice that matters: one way leads to the block for
\* certain, another lets the iteration end without it (buildPDG.cpp:373).
NoneInvented ==
    Built => \A e \in control :
               /\ \E s \in succs[e[1]] : e[2] \in PostDominators(succs, exit, s)
               /\ \E t \in succs[e[1]] :
                     e[2] \notin PostDominators(Iteration(succs, header, exit), exit, t)
=============================================================================
