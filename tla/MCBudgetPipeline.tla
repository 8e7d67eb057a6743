-------------------------- MODULE MCBudgetPipeline --------------------------
(* Small instances of BudgetPipeline for TLC, and its mutants. *)
EXTENDS BudgetPipeline, TLC

CONSTANTS l1, l2

Cpc == [type |-> "CPC", value |-> 2]

Record(id, limit, spent) ==
  [ campaign_id          |-> id,
    day_budget_limit     |-> limit,
    day_budget_spent     |-> spent,
    day_budget_overdraft |-> 0,
    metric               |-> Cpc ]

MCCampaigns == {1, 2}
MCSource == <<Record(1, 3, 0), Record(2, 2, 0)>>
\* one ordinary edit of campaign 1; the same body may arrive under the URL of
\* campaign 2
MCBodies == {Record(1, 4, 1)}
MCPrices == {1, 3}
MCLoaders == {l1, l2}

LoaderSymmetry == Permutations(MCLoaders)
=============================================================================
