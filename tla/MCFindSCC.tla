---- MODULE MCFindSCC ----
(* Every dependence graph on NumInsts instructions, with and without edges  *)
(* from an instruction to itself.                                           *)
EXTENDS FindSCC

mc_all == SUBSET (Insts \X Insts)
mc_noloops == SUBSET {e \in Insts \X Insts : e[1] # e[2]}
====
