---------------------------- MODULE MCEvalRouter ------------------------------
(* Three models, each cheaper and, by the catalog, less sound than the one    *)
(* before; the second is the slowest.                                         *)
EXTENDS EvalRouter

MCCost == <<60, 44, 3>>
MCLatency == <<420, 450, 180>>
MCQuality == <<9650, 9000, 8850>>

Policy(q, l, c, s) == [quality |-> q, latency |-> l, cost |-> c, shadow |-> s]

\* The tiers' thresholds, with and without limits; the last is met by no model.
MCPolicies == {Policy(9500, None, None, TRUE), Policy(8800, 420, None, TRUE),
               Policy(8000, None, 50, FALSE), Policy(9900, None, None, TRUE)}
=============================================================================
