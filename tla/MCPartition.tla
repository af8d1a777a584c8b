---- MODULE MCPartition ----
(* Every dependence graph on NumInsts instructions in which none but the    *)
(* first depends on itself; instructions that all cost the same, or         *)
(* nothing, or some nothing and some much.                                  *)
EXTENDS Partition

mc_graphs == SUBSET {e \in Insts \X Insts : e[1] # e[2] \/ e[1] = 1}
mc_instlat == {<<1, 1, 1, 1>>, <<0, 0, 0, 0>>, <<0, 4, 1, 0>>, <<4, 0, 1, 1>>}
mc_latencies == 0 .. 6
====
