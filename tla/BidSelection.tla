---------------------------- MODULE BidSelection ----------------------------
(***************************************************************************)
(* A bidder answers a bid request: Bidder::bid (examples/bidder/bidder.hpp *)
(* and its generic form rtb/core/bidder.hpp) walks over the impressions,   *)
(* AdSelector::select (examples/bidder/ad_selector.hpp) collects the ads   *)
(* of the campaigns for the user's geo, has the banker authorize a bid for *)
(* each campaign and takes the highest.                                    *)
(*                                                                         *)
(* Budgets are read from the shared cache one campaign at a time, and the  *)
(* cache changes in between.  The ad and geo caches are loaded at start.   *)
(***************************************************************************)
EXTENDS CampaignBudget, Sequences, FiniteSets

CONSTANTS
  Campaigns, NoEntry,
  Budgets,        \* budgets that other processes write to the cache
  GeoIds,         \* known geo ids; 0 is the default-constructed Geo
  UnknownGeo,     \* a city and country the geo cache does not know
  GeoCampaigns,   \* geo id -> campaigns of the geo, in index order
  Ads,            \* the ad cache, in index order
  Requests,       \* bid requests: geo, and the sizes of the impressions
  MaxBids,        \* bound on the requests handled
  MaxWrites       \* bound on the budget writes of other processes

AdRecords == [ad_id : Nat, campaign_id : Campaigns, size : Nat, max_bid_micros : Nat]

ASSUME CampaignsAssumption == Campaigns \subseteq Nat
ASSUME BudgetsAssumption == Budgets \subseteq CampaignBudgets /\ NoEntry \notin CampaignBudgets
ASSUME GeoAssumption ==
  /\ 0 \in GeoIds /\ UnknownGeo \notin GeoIds
  /\ GeoCampaigns \in [GeoIds -> Seq(Campaigns)]
ASSUME AdsAssumption == Ads \in Seq(AdRecords)
ASSUME RequestsAssumption ==
  Requests \subseteq [geo : GeoIds \cup {UnknownGeo}, imp : Seq(Nat)]
ASSUME BoundsAssumption == MaxBids \in Nat /\ MaxWrites \in Nat

VARIABLES
  budget_cache,          \* campaign -> budget or NoEntry
  pc,                    \* "idle", "imp" or "ads"
  request,               \* the request being answered
  imp,                   \* index of the impression being answered
  geo_campaigns,         \* campaigns not yet looked at
  retrieved_cached_ads,  \* candidates, with auth_bid_micros
  response,              \* bids so far
  bids, writes,          \* requests handled, budgets written
  held                   \* history: entries each campaign had since the
                         \* request came in

vars == <<budget_cache, pc, request, imp, geo_campaigns, retrieved_cached_ads,
          response, bids, writes, held>>

Candidates == [ad : AdRecords, auth_bid_micros : Nat]
Bids == [impid : Nat, ad : AdRecords, price : Nat]

Init ==
  /\ budget_cache \in [Campaigns -> Budgets \cup {NoEntry}]
  /\ pc = "idle"
  /\ request = [geo |-> UnknownGeo, imp |-> <<>>]
  /\ imp = 1
  /\ geo_campaigns = <<>>
  /\ retrieved_cached_ads = <<>>
  /\ response = <<>>
  /\ bids = 0
  /\ writes = 0
  /\ held = [c \in Campaigns |-> {}]

-----------------------------------------------------------------------------
(* Another process stores or removes a budget (see BudgetPipeline). *)
WriteBudget(c, e) ==
  /\ writes < MaxWrites
  /\ writes' = writes + 1
  /\ budget_cache' = [budget_cache EXCEPT ![c] = e]
  /\ held' = [held EXCEPT ![c] = @ \cup {e}]
  /\ UNCHANGED <<pc, request, imp, geo_campaigns, retrieved_cached_ads, response, bids>>

(* Bidder::bid clears the response of the request before. *)
Bid(r) ==
  /\ pc = "idle"
  /\ bids < MaxBids
  /\ bids' = bids + 1
  /\ pc' = "imp"
  /\ request' = r
  /\ imp' = 1
  /\ response' = <<>>
  /\ held' = [c \in Campaigns |-> {budget_cache[c]}]
  /\ UNCHANGED <<budget_cache, geo_campaigns, retrieved_cached_ads, writes>>

(* getGeo and getGeoCampaigns; without campaigns there is no bid for the   *)
(* impression.                                                             *)
CampaignsFor(geo) == IF geo = UnknownGeo THEN <<>> ELSE GeoCampaigns[geo]

(* Mutant of SelectCampaigns: the candidates are not cleared. *)
SelectKeepsAds ==
  /\ pc = "imp"
  /\ imp <= Len(request.imp)
  /\ IF CampaignsFor(request.geo) = <<>>
     THEN imp' = imp + 1 /\ UNCHANGED <<pc, geo_campaigns>>
     ELSE pc' = "ads" /\ geo_campaigns' = CampaignsFor(request.geo) /\ UNCHANGED imp
  /\ UNCHANGED <<budget_cache, request, retrieved_cached_ads, response, bids, writes, held>>

SelectCampaigns ==
  /\ pc = "imp"
  /\ imp <= Len(request.imp)
  /\ IF CampaignsFor(request.geo) = <<>>
     THEN /\ imp' = imp + 1
          /\ UNCHANGED <<pc, geo_campaigns, retrieved_cached_ads>>
     ELSE /\ pc' = "ads"
          /\ geo_campaigns' = CampaignsFor(request.geo)
          /\ retrieved_cached_ads' = <<>>
          /\ UNCHANGED imp
  /\ UNCHANGED <<budget_cache, request, response, bids, writes, held>>

(* ad_data_entity.retrieve(campaign_id, w, h): those among the first n ads, *)
(* for each n.                                                             *)
AdsUpTo(c, size) ==
  LET Fits(ad) == ad.campaign_id = c /\ ad.size = size
      upto[n \in 0..Len(Ads)] ==
        IF n = 0 THEN <<>>
        ELSE IF Fits(Ads[n]) THEN Append(upto[n - 1], Ads[n]) ELSE upto[n - 1]
  IN  upto

AdsOf(c, size) == AdsUpTo(c, size)[Len(Ads)]

(* Banker::authorize; a campaign without a cached budget is authorized on  *)
(* a default-constructed one.                                              *)
BudgetBid(c) ==
  Authorize(IF budget_cache[c] = NoEntry THEN DefaultBudget ELSE budget_cache[c])

(* Mutant of AuthBid: the authorized amount is ignored. *)
AuthBidUnlimited(budget_bid, ad) == ad.max_bid_micros

AuthBid(budget_bid, ad) == Least(ad.max_bid_micros, budget_bid)

(* One round of getCampaignAds *)
RetrieveAds ==
  /\ pc = "ads"
  /\ geo_campaigns # <<>>
  /\ LET c    == Head(geo_campaigns)
         ads  == AdsOf(c, request.imp[imp])
         more == [i \in 1..Len(ads) |->
                    [ad |-> ads[i], auth_bid_micros |-> AuthBid(BudgetBid(c), ads[i])]]
     IN  retrieved_cached_ads' = retrieved_cached_ads \o more
  /\ geo_campaigns' = Tail(geo_campaigns)
  /\ UNCHANGED <<budget_cache, pc, request, imp, response, bids, writes, held>>

(* Mutant of Less: ads are compared by the most they may bid. *)
LessByMaxBid(first, second) == first.ad.max_bid_micros < second.ad.max_bid_micros

(* The comparator of max_bid; every candidate has an authorized bid. *)
Less(first, second) == first.auth_bid_micros < second.auth_bid_micros

(* std::max_element: the first of the greatest. *)
MaxBid(cs) ==
  CHOOSE i \in 1..Len(cs) :
    /\ \A j \in 1..Len(cs) : ~Less(cs[i], cs[j])
    /\ \A j \in 1..(i - 1) : Less(cs[j], cs[i])

(* buildImpResponse and addBid *)
AddBid ==
  /\ pc = "ads"
  /\ geo_campaigns = <<>>
  /\ IF retrieved_cached_ads = <<>>
     THEN UNCHANGED response
     ELSE LET best == retrieved_cached_ads[MaxBid(retrieved_cached_ads)]
          IN  response' = Append(response, [impid |-> imp, ad |-> best.ad,
                                            price |-> best.auth_bid_micros])
  /\ pc' = "imp"
  /\ imp' = imp + 1
  /\ UNCHANGED <<budget_cache, request, geo_campaigns, retrieved_cached_ads, bids, writes, held>>

Reply ==
  /\ pc = "imp"
  /\ imp > Len(request.imp)
  /\ pc' = "idle"
  /\ UNCHANGED <<budget_cache, request, imp, geo_campaigns, retrieved_cached_ads,
                 response, bids, writes, held>>

-----------------------------------------------------------------------------
Next ==
  \/ \E c \in Campaigns, e \in Budgets \cup {NoEntry} : WriteBudget(c, e)
  \/ \E r \in Requests : Bid(r)
  \/ SelectCampaigns
  \/ RetrieveAds
  \/ AddBid
  \/ Reply

Spec == Init /\ [][Next]_vars

-----------------------------------------------------------------------------
TypeOK ==
  /\ budget_cache \in [Campaigns -> Budgets \cup {NoEntry}]
  /\ pc \in {"idle", "imp", "ads"}
  /\ request \in [geo : GeoIds \cup {UnknownGeo}, imp : Seq(Nat)]
  /\ imp \in 1..(Len(request.imp) + 1)
  /\ pc = "ads" => imp <= Len(request.imp)
  /\ geo_campaigns \in Seq(Campaigns)
  /\ retrieved_cached_ads \in Seq(Candidates)
  /\ response \in Seq(Bids)
  /\ bids \in 0..MaxBids
  /\ writes \in 0..MaxWrites
  /\ held \in [Campaigns -> SUBSET (Budgets \cup {NoEntry})]

(* A campaign's budget had this much left at some moment since the request *)
(* came in.                                                                *)
HadLeft(c, amount) ==
  \E e \in held[c] \ {NoEntry} : e.day_budget_spent + amount <= e.day_budget_limit

(* However the cache changes while a request is answered, a bid is covered *)
(* by what its campaign had left at some moment of the request, and stays  *)
(* within the ad's own maximum.  (A bid of nothing needs no cover.)        *)
BidsAffordable ==
  \A i \in 1..Len(response) :
    /\ response[i].price <= response[i].ad.max_bid_micros
    /\ response[i].price > 0 =>
         HadLeft(response[i].ad.campaign_id, response[i].price)

(* The bid for an impression is the highest authorized one among its       *)
(* candidates.                                                             *)
BestCandidateBids ==
  \A i \in 1..Len(response) :
    pc = "imp" /\ response[i].impid = imp - 1 =>
      \A j \in 1..Len(retrieved_cached_ads) :
        retrieved_cached_ads[j].auth_bid_micros <= response[i].price

(* A bid fits its impression: nothing retrieved for an earlier impression  *)
(* or for another geo is offered.                                          *)
BidsFit ==
  \A i \in 1..Len(response) :
    /\ response[i].ad.size = request.imp[response[i].impid]
    /\ \E k \in 1..Len(CampaignsFor(request.geo)) :
         CampaignsFor(request.geo)[k] = response[i].ad.campaign_id

(* "return 0; //no bid HTTP/204 or empty seatbid" in authorize: a campaign *)
(* that was authorized nothing all through the request does not bid.       *)
NothingAuthorizedNoBid ==
  \A i \in 1..Len(response) :
    \E e \in held[response[i].ad.campaign_id] \ {NoEntry} : Authorize(e) > 0

-----------------------------------------------------------------------------
(* The small instance that TLC checks.                                     *)
SmallBudget(id, limit, spent, type, value) ==
  [ campaign_id          |-> id,
    day_budget_limit     |-> limit,
    day_budget_spent     |-> spent,
    day_budget_overdraft |-> 0,
    metric               |-> [type |-> type, value |-> value] ]

SmallAd(id, c, size, max) ==
  [ad_id |-> id, campaign_id |-> c, size |-> size, max_bid_micros |-> max]

SmallCampaigns == {1, 2}
\* a CPC budget with room, one with little left, a spent one, a CPM budget
\* and one whose metric is not supported
SmallBudgets == { SmallBudget(1, 9, 0, "CPC", 4), SmallBudget(1, 9, 7, "CPC", 4),
               SmallBudget(1, 4, 5, "CPC", 4), SmallBudget(1, 9, 0, "CPM", 3000),
               SmallBudget(1, 9, 0, "CPA", 4) }
SmallGeoIds == {0, 1}
SmallGeoCampaigns == [g \in SmallGeoIds |-> IF g = 0 THEN <<>> ELSE <<1, 2>>]
\* campaign 1 has two ads of size 1, campaign 2 one of each size
SmallAds == <<SmallAd(1, 1, 1, 2), SmallAd(2, 1, 1, 5), SmallAd(3, 2, 1, 3), SmallAd(4, 2, 2, 6)>>
SmallRequests == { [geo |-> 1, imp |-> <<1, 2>>], [geo |-> 1, imp |-> <<2, 3, 1>>],
                [geo |-> 0, imp |-> <<1>>] , [geo |-> UnknownGeo, imp |-> <<1>>] }
=============================================================================
