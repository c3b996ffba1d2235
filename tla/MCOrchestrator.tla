--------------------------- MODULE MCOrchestrator ---------------------------
(* Instances of Orchestrator for TLC. *)
EXTENDS Orchestrator, TLC

RunSymmetry == Permutations(Runs)

Obs(i, p, u) == [item |-> i, price |-> p, unit |-> u]

\* One item in one region, followed through price changes of every kind: from
\* and to free, by the threshold (1 and 2), by less (2 and 3), by more (1 and
\* 3), and a change of unit alone.
OneItem == {"sku"}
OneRegion == {"r1"}
OneItemRegion == [i \in OneItem |-> "r1"]
PriceMoves == {<<>>, <<Obs("sku", 0, "Hrs")>>, <<Obs("sku", 1, "Hrs")>>,
               <<Obs("sku", 2, "Hrs")>>, <<Obs("sku", 2, "Mo")>>,
               <<Obs("sku", 3, "Hrs")>>}

OneMove == {<<Obs("sku", 1, "Hrs")>>}

\* Two items in two regions.
TwoItems == {"a", "b"}
TwoRegions == {"r1", "r2"}
TwoItemsRegion == [i \in TwoItems |-> IF i = "a" THEN "r1" ELSE "r2"]
TwoItemBatches == {<<Obs("a", 1, "Hrs"), Obs("b", 1, "Hrs")>>,
                   <<Obs("b", 2, "Hrs"), Obs("a", 1, "Hrs")>>}

\* The tiers of one Azure storage meter: one item, two prices, one fetch.
Tiers == {<<Obs("sku", 1, "GB"), Obs("sku", 2, "GB")>>}
=============================================================================
