---- MODULE MCPipeline ----
(* Loops with an if in them: while (top) { mid; if (mid) { low } } and     *)
(* do { top; if (top) { mid }; low } while (low), with what depends on     *)
(* what.                                                                    *)
EXTENDS Pipeline, TLC
CONSTANTS top, mid, low, out

while == top :> {mid, out} @@ mid :> {low, top} @@ low :> {top}
doWhile == top :> {mid, low} @@ mid :> {low} @@ low :> {top, out}
both == {while, doWhile}
whileOnly == {while}
doWhileOnly == {doWhile}

\* Two blocks compute their conditions.  What top computes goes to low, in turn
\* in the do while, and in the while it does not; or it goes round the loop, a
\* variable counted up in low, in one component.
within == {<<<<x, 1>>, <<x, 2>>>> : x \in {top, mid}}
across == within \cup {<<<<top, 1>>, <<low, 1>>>>}
counted == across \cup {<<<<low, 1>>, <<top, 1>>>>}
someDeps == {across, counted}

intoBranch == {{<<<<mid, 1>>, <<low, 1>>>>}}
outOfBranch == {{<<<<mid, 1>>, <<low, 1>>>>}}
====
