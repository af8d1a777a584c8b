---- MODULE MCSplitLoop ----
(* Channels for TLC: three workers in a pipeline, with a value the last     *)
(* worker needs from both others.                                           *)
EXTENDS SplitLoop, TLC

mc_uthread == 0 :> 0 @@ 1 :> 0 @@ 2 :> 1
mc_vthread == 0 :> 1 @@ 1 :> 2 @@ 2 :> 2
====
