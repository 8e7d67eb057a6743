--------------------------- MODULE CampaignBudget ---------------------------
(***************************************************************************)
(* The budget record of a campaign and the pure operations on it:          *)
(* struct CampaignBudget and class BudgetManager of                        *)
(* examples/campaign/campaign_cache.hpp, and the two conversions a record  *)
(* goes through on its way between processes (the JSON body of a REST call *)
(* and the boost archive of a broadcast).  Amounts are micro dollars.      *)
(***************************************************************************)
EXTENDS Integers

MetricType == {"UNDEFINED", "CPM", "CPC", "CPA"}

Metric == [type : MetricType, value : Nat]

CampaignBudgets ==
  [ campaign_id          : Nat,
    day_budget_limit     : Nat,
    day_budget_spent     : Nat,
    day_budget_overdraft : Nat,
    metric               : Metric ]

(* What CampaignCache::retrieve(id) hands out when the key is not cached. *)
DefaultBudget ==
  [ campaign_id          |-> 0,
    day_budget_limit     |-> 0,
    day_budget_spent     |-> 0,
    day_budget_overdraft |-> 0,
    metric               |-> [type |-> "UNDEFINED", value |-> 0] ]

Least(a, b) == IF b < a THEN b ELSE a

(* Mutants of UpdatePrice: the limit is not clamped at zero; the whole     *)
(* price is booked as spent; the uncovered part is forgotten.              *)
UpdatePriceUnclamped(b, price) ==
  [b EXCEPT !.day_budget_limit = @ - price, !.day_budget_spent = @ + price]

UpdatePriceBooksAll(b, price) ==
  [b EXCEPT !.day_budget_limit = @ - Least(@, price), !.day_budget_spent = @ + price]

UpdatePriceForgetsRest(b, price) ==
  LET min_value == Least(b.day_budget_limit, price)
  IN  [b EXCEPT !.day_budget_limit = @ - min_value, !.day_budget_spent = @ + min_value]

(* CampaignBudget::update(types::price): the price is moved from the limit *)
(* to the spent amount; what the limit cannot cover becomes overdraft.     *)
UpdatePrice(b, price) ==
  LET min_value == Least(b.day_budget_limit, price)
  IN  [ campaign_id          |-> b.campaign_id,
        day_budget_limit     |-> b.day_budget_limit - min_value,
        day_budget_spent     |-> b.day_budget_spent + min_value,
        day_budget_overdraft |-> b.day_budget_overdraft + (price - min_value),
        metric               |-> b.metric ]

(* Mutant of Authorize: a spent budget is not recognized. *)
AuthorizeUnguarded(b) ==
  IF b.metric.type = "CPC"
  THEN Least(b.day_budget_limit - b.day_budget_spent, b.metric.value)
  ELSE 0

(* BudgetManager::authorize *)
Authorize(b) ==
  LET left == b.day_budget_limit - b.day_budget_spent
  IN  CASE b.day_budget_spent >= b.day_budget_limit -> 0
        [] b.day_budget_spent < b.day_budget_limit /\ b.metric.type = "CPM"
              -> Least(left, b.metric.value \div 1000)
        [] b.day_budget_spent < b.day_budget_limit /\ b.metric.type = "CPC"
              -> Least(left, b.metric.value)
        [] OTHER -> 0

(* The boost archive of a budget has no overdraft field: the record that   *)
(* the receiver default-constructs keeps a zero there.                     *)
Archived(b) == [b EXCEPT !.day_budget_overdraft = 0]

(* The JSON mapping has no overdraft member either, so a budget extracted  *)
(* from a request body never carries one.                                  *)
JsonBudgets == {b \in CampaignBudgets : b.day_budget_overdraft = 0}

(* All the money a record accounts for within its limit. *)
Total(b) == b.day_budget_limit + b.day_budget_spent

(* What winning bids have cost the campaign. *)
Cost(b) == b.day_budget_spent + b.day_budget_overdraft

=============================================================================
