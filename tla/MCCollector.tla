----------------------------- MODULE MCCollector ------------------------------
(* A GPU that is starved and hot, an idle one whose bus is not, and one whose  *)
(* bus is busier than 32 bits can tell.                                       *)
EXTENDS Collector

MCReadings == {[sm |-> 300, pcie |-> 100, temp |-> 90],
               [sm |-> 200, pcie |-> 700, temp |-> 70],
               [sm |-> 600, pcie |-> 8200, temp |-> 70]}
=============================================================================
