------------------------ MODULE MCInsightPromotion --------------------------
(***************************************************************************)
(* Two processes promote the insight i1 through the operator, under k1, or *)
(* the service, under k2, and try i2, which is not eligible, under k1.     *)
(***************************************************************************)
EXTENDS InsightPromotion, TLC

CONSTANTS i1, i2, m1, m2, k1, k2, seal, word

TheMemory == [i \in Insights |-> m1]
TheSupport == [i \in Insights |-> m2]
TheRequests == {<<seal, i1, k1>>, <<word, i1, k2>>, <<word, i2, k1>>}

Symmetry == Permutations(Promoters)
=============================================================================
