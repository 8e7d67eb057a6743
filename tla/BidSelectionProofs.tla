------------------------- MODULE BidSelectionProofs -------------------------
(***************************************************************************)
(* Proofs about BidSelection for any campaigns, budgets, geos, ads,        *)
(* requests and number of writes by other processes.                       *)
(***************************************************************************)
EXTENDS BidSelection, WellFoundedInduction, TLAPS

(* A campaign of the geo of the request.                                   *)
OfGeo(c) == \E k \in 1..Len(CampaignsFor(request.geo)) : CampaignsFor(request.geo)[k] = c

(* What the cache holds is among what it held since the request came in.   *)
CacheHeld == pc # "idle" => \A c \in Campaigns : budget_cache[c] \in held[c]

(* The campaigns still to look at are of the geo.                          *)
CampaignsLeft ==
  pc = "ads" => \A k \in 1..Len(geo_campaigns) : OfGeo(geo_campaigns[k])

Covered(ad, amount) ==
  /\ amount <= ad.max_bid_micros
  /\ amount > 0 => HadLeft(ad.campaign_id, amount)

(* A candidate fits the impression and what it may bid is covered.         *)
CandidatesCovered ==
  pc = "ads" =>
    \A j \in 1..Len(retrieved_cached_ads) :
      /\ retrieved_cached_ads[j].ad.size = request.imp[imp]
      /\ OfGeo(retrieved_cached_ads[j].ad.campaign_id)
      /\ Covered(retrieved_cached_ads[j].ad, retrieved_cached_ads[j].auth_bid_micros)

(* Bids are for the impressions that were passed.                          *)
ImpressionsPassed ==
  \A i \in 1..Len(response) : response[i].impid \in 1..(imp - 1)

(* The inductive invariant.                                                *)
IInv ==
  /\ TypeOK
  /\ CacheHeld
  /\ CampaignsLeft
  /\ CandidatesCovered
  /\ ImpressionsPassed
  /\ BidsAffordable
  /\ BestCandidateBids
  /\ BidsFit

-----------------------------------------------------------------------------
(* Natural numbers are well-ordered: the induction of the next lemmas.     *)
Smaller == {ss \in Nat \X Nat : ss[1] < ss[2]}

LEMMA LeastNumber ==
  ASSUME NEW T \in SUBSET Nat, T # {}
  PROVE  \E x \in T : \A y \in T : x <= y
<1>1. IsWellFoundedOn(Smaller, Nat)
  BY NatLessThanWellFounded DEF OpToRel, Smaller
<1>2. PICK x \in T : \A y \in T : ~(<<y, x>> \in Smaller)
  BY <1>1, WFMin
<1>3. ASSUME NEW y \in T
      PROVE  x <= y
  <2>1. x \in Nat /\ y \in Nat /\ ~(<<y, x>> \in Smaller)
    BY <1>2
  <2>2. ~(y < x)
    BY <2>1 DEF Smaller
  <2>3. QED
    BY <2>1, <2>2
<1>4. QED
  BY <1>3

-----------------------------------------------------------------------------
(* The recursive function AdsUpTo is what its equation says.               *)
Upto(g, c, size, n) ==
  IF n = 0 THEN <<>>
  ELSE IF Ads[n].campaign_id = c /\ Ads[n].size = size
       THEN Append(g[n - 1], Ads[n]) ELSE g[n - 1]

LEMMA AdsUpToExists ==
  ASSUME NEW c, NEW size, NEW m \in Nat
  PROVE  \E g : g = [n \in 0..m |-> Upto(g, c, size, n)]
<1> DEFINE T == {k \in Nat : ~ \E g : g = [n \in 0..k |-> Upto(g, c, size, n)]}
<1> SUFFICES ASSUME T # {} PROVE FALSE
  OBVIOUS
<1>1. PICK k \in T : \A y \in T : k <= y
  <2>1. T \in SUBSET Nat
    OBVIOUS
  <2> HIDE DEF T
  <2>2. QED
    BY <2>1, LeastNumber
<1>2. k \in Nat /\ ~ \E g : g = [n \in 0..k |-> Upto(g, c, size, n)]
  BY <1>1
<1>3. CASE k = 0
  <2> DEFINE h == [n \in 0..0 |-> <<>>]
  <2>1. \A n \in 0..0 : n = 0
    OBVIOUS
  <2>2. h = [n \in 0..0 |-> Upto(h, c, size, n)]
    BY <2>1 DEF Upto
  <2>3. QED
    BY <1>2, <1>3, <2>2
<1>4. CASE k # 0
  <2>1. k - 1 \in Nat /\ k - 1 \notin T
    BY <1>1, <1>2, <1>4
  <2>2. PICK g : g = [n \in 0..(k - 1) |-> Upto(g, c, size, n)]
    BY <2>1
  <2> DEFINE h == [n \in 0..k |-> Upto(g, c, size, n)]
  <2>3. \A n \in 0..(k - 1) : h[n] = g[n]
    BY <2>2, <1>2
  <2>4. \A n \in 0..k : n # 0 => n - 1 \in 0..(k - 1)
    BY <1>2
  <2> HIDE DEF h
  <2>5. \A n \in 0..k : Upto(h, c, size, n) = Upto(g, c, size, n)
    BY <2>3, <2>4 DEF Upto
  <2>6. h = [n \in 0..k |-> Upto(h, c, size, n)]
    BY <2>5 DEF h
  <2>7. QED
    BY <1>2, <2>6
<1>5. QED
  BY <1>3, <1>4

LEMMA AdsUpToDef ==
  ASSUME NEW c, NEW size
  PROVE  AdsUpTo(c, size) = [n \in 0..Len(Ads) |-> Upto(AdsUpTo(c, size), c, size, n)]
<1>1. Len(Ads) \in Nat
  BY AdsAssumption
<1>2. \E g : g = [n \in 0..Len(Ads) |-> Upto(g, c, size, n)]
  BY <1>1, AdsUpToExists
<1>3. AdsUpTo(c, size) = CHOOSE g : g = [n \in 0..Len(Ads) |-> Upto(g, c, size, n)]
  BY DEF AdsUpTo, Upto
<1>4. QED
  BY <1>2, <1>3

(* What is retrieved for a campaign and a size is ads of both.             *)
AdsRight(q, c, size) ==
  /\ q \in Seq(AdRecords)
  /\ \A i \in 1..Len(q) : q[i].campaign_id = c /\ q[i].size = size

LEMMA AdsOfRight ==
  ASSUME NEW c, NEW size
  PROVE  AdsRight(AdsOf(c, size), c, size)
<1> DEFINE f == AdsUpTo(c, size)
           T == {k \in 0..Len(Ads) : ~ AdsRight(f[k], c, size)}
<1>1. Ads \in Seq(AdRecords) /\ Len(Ads) \in Nat
  BY AdsAssumption
<1>2. \A n \in 0..Len(Ads) : f[n] = Upto(f, c, size, n)
  BY AdsUpToDef
<1> HIDE DEF f
<1>3. T = {}
  <2> SUFFICES ASSUME T # {} PROVE FALSE
    OBVIOUS
  <2>1. PICK k \in T : \A y \in T : k <= y
    <3>1. T \in SUBSET Nat
      BY <1>1
    <3> HIDE DEF T
    <3>2. QED
      BY <3>1, LeastNumber
  <2>2. k \in 0..Len(Ads) /\ ~ AdsRight(f[k], c, size)
    BY <2>1
  <2>3. f[k] = Upto(f, c, size, k)
    BY <1>2, <2>2
  <2>4. CASE k = 0
    BY <2>2, <2>3, <2>4 DEF Upto, AdsRight
  <2>5. CASE k # 0
    <3>1. k - 1 \in 0..Len(Ads) /\ k - 1 \notin T /\ k \in 1..Len(Ads)
      BY <1>1, <2>1, <2>2, <2>5
    <3>2. AdsRight(f[k - 1], c, size)
      BY <3>1
    <3>3. Ads[k] \in AdRecords
      BY <1>1, <3>1
    <3>4. CASE f[k] = f[k - 1]
      BY <2>2, <3>2, <3>4
    <3>5. CASE /\ f[k] = Append(f[k - 1], Ads[k])
               /\ Ads[k].campaign_id = c /\ Ads[k].size = size
      <4> DEFINE q == f[k - 1]
      <4>1. q \in Seq(AdRecords) /\ \A i \in 1..Len(q) : q[i].campaign_id = c /\ q[i].size = size
        BY <3>2 DEF AdsRight
      <4> HIDE DEF q
      <4>2. /\ Append(q, Ads[k]) \in Seq(AdRecords)
            /\ \A i \in 1..Len(Append(q, Ads[k])) :
                 \/ i \in 1..Len(q) /\ Append(q, Ads[k])[i] = q[i]
                 \/ Append(q, Ads[k])[i] = Ads[k]
        BY <3>3, <4>1
      <4>3. AdsRight(Append(q, Ads[k]), c, size)
        BY <3>5, <4>1, <4>2 DEF AdsRight
      <4>4. QED
        BY <2>2, <3>5, <4>3 DEF q
    <3>6. QED
      BY <2>3, <2>5, <3>4, <3>5 DEF Upto
  <2>6. QED
    BY <2>4, <2>5
<1>4. Len(Ads) \in 0..Len(Ads)
  BY <1>1
<1>5. QED
  BY <1>3, <1>4 DEF AdsOf, f

LEMMA CandidateTyped ==
  ASSUME NEW cs \in Seq(Candidates), NEW i \in 1..Len(cs)
  PROVE  cs[i] \in Candidates /\ cs[i].ad \in AdRecords /\ cs[i].auth_bid_micros \in Nat
<1>1. cs[i] \in Candidates
  OBVIOUS
<1>2. QED
  BY <1>1 DEF Candidates

(* The first of the greatest candidates exists.                            *)
FirstBest(cs, n, i) ==
  /\ i \in 1..n
  /\ \A j \in 1..n : ~Less(cs[i], cs[j])
  /\ \A j \in 1..(i - 1) : Less(cs[j], cs[i])

LEMMA FirstBestExists ==
  ASSUME NEW cs \in Seq(Candidates), NEW m \in 1..Len(cs)
  PROVE  \E i \in 1..m : FirstBest(cs, m, i)
<1> DEFINE T == {k \in 1..Len(cs) : ~ \E i \in 1..k : FirstBest(cs, k, i)}
<1> SUFFICES ASSUME T # {} PROVE FALSE
  OBVIOUS
<1>1. PICK k \in T : \A y \in T : k <= y
  <2>1. T \in SUBSET Nat
    OBVIOUS
  <2> HIDE DEF T
  <2>2. QED
    BY <2>1, LeastNumber
<1>2. k \in 1..Len(cs) /\ ~ \E i \in 1..k : FirstBest(cs, k, i)
  BY <1>1
<1>3. \A i \in 1..Len(cs) : cs[i].auth_bid_micros \in Nat
  BY CandidateTyped
<1>4. CASE k = 1
  <2>1. FirstBest(cs, 1, 1)
    BY <1>2, <1>3, <1>4 DEF FirstBest, Less
  <2>2. QED
    BY <1>2, <1>4, <2>1
<1>5. CASE k # 1
  <2>1. k - 1 \in 1..Len(cs) /\ k - 1 \notin T
    BY <1>1, <1>2, <1>5
  <2>2. PICK i \in 1..(k - 1) : FirstBest(cs, k - 1, i)
    BY <2>1
  <2>3. /\ i \in 1..k /\ i \in 1..Len(cs) /\ k \in 1..k
        /\ \A j \in 1..k : j = k \/ j \in 1..(k - 1)
        /\ \A j \in 1..k : j \in 1..Len(cs)
    BY <1>2, <2>1
  <2>4. CASE Less(cs[i], cs[k])
    <3>1. \A j \in 1..(k - 1) : Less(cs[j], cs[k])
      BY <1>3, <2>2, <2>3, <2>4 DEF FirstBest, Less
    <3>2. \A j \in 1..k : ~Less(cs[k], cs[j])
      <4> SUFFICES ASSUME NEW j \in 1..k, Less(cs[k], cs[j]) PROVE FALSE
        OBVIOUS
      <4>1. cs[k].auth_bid_micros < cs[j].auth_bid_micros
        BY DEF Less
      <4>2. cs[k].auth_bid_micros \in Nat /\ cs[j].auth_bid_micros \in Nat
        BY <1>3, <2>3
      <4>3. j # k
        BY <4>1, <4>2
      <4>4. cs[j].auth_bid_micros < cs[k].auth_bid_micros
        BY <2>3, <3>1, <4>3 DEF Less
      <4>5. QED
        BY <4>1, <4>2, <4>4
    <3>3. FirstBest(cs, k, k)
      BY <2>3, <3>1, <3>2 DEF FirstBest
    <3>4. QED
      BY <1>2, <2>3, <3>3
  <2>5. CASE ~Less(cs[i], cs[k])
    <3>1. FirstBest(cs, k, i)
      BY <2>2, <2>3, <2>5 DEF FirstBest
    <3>2. QED
      BY <1>2, <2>3, <3>1
  <2>6. QED
    BY <2>4, <2>5
<1>6. QED
  BY <1>4, <1>5

LEMMA MaxBidBest ==
  ASSUME NEW cs \in Seq(Candidates), cs # <<>>
  PROVE  /\ MaxBid(cs) \in 1..Len(cs)
         /\ \A j \in 1..Len(cs) :
              cs[j].auth_bid_micros <= cs[MaxBid(cs)].auth_bid_micros
<1>1. Len(cs) \in 1..Len(cs)
  OBVIOUS
<1>2. \E i \in 1..Len(cs) : FirstBest(cs, Len(cs), i)
  BY <1>1, FirstBestExists
<1>3. MaxBid(cs) \in 1..Len(cs) /\ FirstBest(cs, Len(cs), MaxBid(cs))
  BY <1>2 DEF MaxBid, FirstBest
<1>4. \A j \in 1..Len(cs) : cs[j].auth_bid_micros \in Nat
  BY CandidateTyped
<1>5. QED
  BY <1>3, <1>4 DEF FirstBest, Less

-----------------------------------------------------------------------------
(* What the banker authorizes for a campaign is left of a budget that the  *)
(* cache holds.                                                            *)
LEMMA AuthorizeLeft ==
  ASSUME NEW b \in CampaignBudgets
  PROVE  /\ Authorize(b) \in Nat
         /\ Authorize(b) > 0 => b.day_budget_spent + Authorize(b) <= b.day_budget_limit
<1> DEFINE v == b.metric.value
           left == b.day_budget_limit - b.day_budget_spent
<1>1. /\ b.day_budget_limit \in Nat /\ b.day_budget_spent \in Nat
      /\ v \in Nat /\ v \div 1000 \in Nat
  BY DEF CampaignBudgets, Metric
<1> HIDE DEF v
<1>2. ASSUME NEW w \in Nat, b.day_budget_spent < b.day_budget_limit
      PROVE  Least(left, w) \in Nat /\ Least(left, w) <= left
  BY <1>1, <1>2 DEF Least
<1>3. CASE b.day_budget_spent >= b.day_budget_limit
  <2>1. Authorize(b) = 0
    BY <1>1, <1>3 DEF Authorize
  <2>2. QED
    BY <2>1
<1>4. CASE b.day_budget_spent < b.day_budget_limit
  <2>1. Authorize(b) \in {0, Least(left, v \div 1000), Least(left, v)}
    BY <1>1, <1>4 DEF Authorize, v
  <2>2. Authorize(b) \in Nat /\ Authorize(b) <= left
    BY <1>1, <1>2, <1>4, <2>1
  <2>3. QED
    BY <1>1, <2>2
<1>5. QED
  BY <1>1, <1>3, <1>4

LEMMA BudgetBidLeft ==
  ASSUME TypeOK, NEW c \in Campaigns
  PROVE  /\ BudgetBid(c) \in Nat
         /\ BudgetBid(c) > 0 =>
              /\ budget_cache[c] \in CampaignBudgets /\ budget_cache[c] # NoEntry
              /\ budget_cache[c].day_budget_spent + BudgetBid(c)
                   <= budget_cache[c].day_budget_limit
<1>1. budget_cache[c] \in CampaignBudgets \cup {NoEntry} /\ NoEntry \notin CampaignBudgets
  BY BudgetsAssumption DEF TypeOK
<1>2. CASE budget_cache[c] = NoEntry
  <2>1. Authorize(DefaultBudget) = 0
    BY DEF Authorize, DefaultBudget
  <2>2. BudgetBid(c) = 0
    BY <1>2, <2>1 DEF BudgetBid
  <2>3. QED
    BY <2>2
<1>3. CASE budget_cache[c] # NoEntry
  <2>1. BudgetBid(c) = Authorize(budget_cache[c]) /\ budget_cache[c] \in CampaignBudgets
    BY <1>1, <1>3 DEF BudgetBid
  <2>2. QED
    BY <1>3, <2>1, AuthorizeLeft
<1>4. QED
  BY <1>2, <1>3

(* A bid authorized for an ad is within its maximum and covered.           *)
LEMMA AuthBidCovered ==
  ASSUME TypeOK, CacheHeld, pc # "idle",
         NEW c \in Campaigns, NEW ad \in AdRecords, ad.campaign_id = c
  PROVE  /\ AuthBid(BudgetBid(c), ad) \in Nat
         /\ Covered(ad, AuthBid(BudgetBid(c), ad))
<1> DEFINE bb == BudgetBid(c)
           a == AuthBid(bb, ad)
<1>1. bb \in Nat /\ ad.max_bid_micros \in Nat
  BY BudgetBidLeft DEF AdRecords
<1> HIDE DEF bb
<1>2. a \in Nat /\ a <= ad.max_bid_micros /\ a <= bb
  BY <1>1 DEF AuthBid, Least
<1> HIDE DEF a
<1>3. ASSUME a > 0
      PROVE  HadLeft(c, a)
  <2>1. bb > 0
    BY <1>1, <1>2, <1>3
  <2> DEFINE e == budget_cache[c]
  <2>2. /\ e \in CampaignBudgets /\ e # NoEntry
        /\ e.day_budget_spent + bb <= e.day_budget_limit
    BY <2>1, BudgetBidLeft DEF bb
  <2>3. e \in held[c]
    BY DEF CacheHeld
  <2> HIDE DEF e
  <2>4. e.day_budget_spent \in Nat /\ e.day_budget_limit \in Nat
    BY <2>2 DEF CampaignBudgets
  <2>5. e.day_budget_spent + a <= e.day_budget_limit
    BY <1>1, <1>2, <2>2, <2>4
  <2>6. QED
    BY <2>2, <2>3, <2>5 DEF HadLeft
<1>4. QED
  BY <1>2, <1>3 DEF Covered, a, bb

-----------------------------------------------------------------------------
(* What one round of getCampaignAds finds.                                 *)
Found(c) ==
  LET ads == AdsOf(c, request.imp[imp])
  IN  [i \in 1..Len(ads) |->
         [ad |-> ads[i], auth_bid_micros |-> AuthBid(BudgetBid(c), ads[i])]]

LEMMA FoundRight ==
  ASSUME TypeOK, CacheHeld, pc = "ads", NEW c \in Campaigns
  PROVE  /\ Found(c) \in Seq(Candidates)
         /\ \A i \in 1..Len(Found(c)) :
              /\ Found(c)[i].ad.size = request.imp[imp]
              /\ Found(c)[i].ad.campaign_id = c
              /\ Covered(Found(c)[i].ad, Found(c)[i].auth_bid_micros)
<1> DEFINE size == request.imp[imp]
           q == AdsOf(c, size)
<1>1. q \in Seq(AdRecords) /\ \A i \in 1..Len(q) : q[i].campaign_id = c /\ q[i].size = size
  BY AdsOfRight DEF AdsRight
<1>2. Found(c) = [i \in 1..Len(q) |->
                    [ad |-> q[i], auth_bid_micros |-> AuthBid(BudgetBid(c), q[i])]]
  BY DEF Found
<1> HIDE DEF q
<1>3. \A i \in 1..Len(q) : q[i] \in AdRecords
  BY <1>1
<1>4. \A i \in 1..Len(q) : /\ AuthBid(BudgetBid(c), q[i]) \in Nat
                            /\ Covered(q[i], AuthBid(BudgetBid(c), q[i]))
  BY <1>1, <1>3, AuthBidCovered
<1>5. \A i \in 1..Len(q) :
        [ad |-> q[i], auth_bid_micros |-> AuthBid(BudgetBid(c), q[i])] \in Candidates
  BY <1>3, <1>4 DEF Candidates
<1>6. Len(q) \in Nat
  BY <1>1
<1>7. Found(c) \in Seq(Candidates) /\ Len(Found(c)) = Len(q)
  BY <1>2, <1>5, <1>6
<1>8. QED
  BY <1>1, <1>2, <1>4, <1>7

(* The head and the rest of the campaigns, and what is found appended.     *)
LEMMA HeadOf ==
  ASSUME NEW S, NEW q \in Seq(S), q # <<>>
  PROVE  /\ Head(q) \in S /\ Head(q) = q[1] /\ 1 \in 1..Len(q)
         /\ Tail(q) \in Seq(S)
         /\ \A i \in 1..Len(Tail(q)) : Tail(q)[i] = q[i + 1] /\ i + 1 \in 1..Len(q)
OBVIOUS

LEMMA ConcatOf ==
  ASSUME NEW S, NEW q \in Seq(S), NEW r \in Seq(S)
  PROVE  /\ q \o r \in Seq(S)
         /\ \A i \in 1..Len(q \o r) :
              \/ i \in 1..Len(q) /\ (q \o r)[i] = q[i]
              \/ i - Len(q) \in 1..Len(r) /\ (q \o r)[i] = r[i - Len(q)]
<1>1. /\ q \o r \in Seq(S) /\ Len(q \o r) = Len(q) + Len(r)
      /\ Len(q) \in Nat /\ Len(r) \in Nat
  OBVIOUS
<1>2. \A i \in 1..(Len(q) + Len(r)) :
        (q \o r)[i] = IF i <= Len(q) THEN q[i] ELSE r[i - Len(q)]
  OBVIOUS
<1>3. QED
  BY <1>1, <1>2

LEMMA RetrieveFinds ==
  ASSUME TypeOK, RetrieveAds
  PROVE  /\ pc = "ads" /\ Head(geo_campaigns) \in Campaigns
         /\ retrieved_cached_ads' = retrieved_cached_ads \o Found(Head(geo_campaigns))
         /\ geo_campaigns' = Tail(geo_campaigns)
<1>1. geo_campaigns \in Seq(Campaigns) /\ geo_campaigns # <<>>
  BY DEF TypeOK, RetrieveAds
<1>2. Head(geo_campaigns) \in Campaigns
  BY <1>1, HeadOf
<1>3. QED
  BY <1>2 DEF RetrieveAds, Found

-----------------------------------------------------------------------------
LEMMA CampaignsForTyped ==
  ASSUME NEW g \in GeoIds \cup {UnknownGeo}
  PROVE  CampaignsFor(g) \in Seq(Campaigns)
BY GeoAssumption DEF CampaignsFor

(* The best candidate as the bid that is added.                            *)
Best == retrieved_cached_ads[MaxBid(retrieved_cached_ads)]

LEMMA BestRight ==
  ASSUME TypeOK, CandidatesCovered, pc = "ads", retrieved_cached_ads # <<>>
  PROVE  /\ Best \in Candidates /\ Best.ad \in AdRecords /\ Best.auth_bid_micros \in Nat
         /\ Best.ad.size = request.imp[imp]
         /\ OfGeo(Best.ad.campaign_id)
         /\ Covered(Best.ad, Best.auth_bid_micros)
         /\ \A j \in 1..Len(retrieved_cached_ads) :
              retrieved_cached_ads[j].auth_bid_micros <= Best.auth_bid_micros
<1>1. retrieved_cached_ads \in Seq(Candidates)
  BY DEF TypeOK
<1>2. /\ MaxBid(retrieved_cached_ads) \in 1..Len(retrieved_cached_ads)
      /\ \A j \in 1..Len(retrieved_cached_ads) :
           retrieved_cached_ads[j].auth_bid_micros <= Best.auth_bid_micros
  BY <1>1, MaxBidBest DEF Best
<1>3. Best \in Candidates /\ Best.ad \in AdRecords /\ Best.auth_bid_micros \in Nat
  BY <1>1, <1>2, CandidateTyped DEF Best
<1>4. QED
  BY <1>2, <1>3 DEF CandidatesCovered, Best

NewBid == [impid |-> imp, ad |-> Best.ad, price |-> Best.auth_bid_micros]

(* AddBid adds nothing, or the best candidate.                             *)
LEMMA AddBidAdds ==
  ASSUME TypeOK, CandidatesCovered, AddBid
  PROVE  /\ pc = "ads" /\ pc' = "imp" /\ imp' = imp + 1
         /\ imp \in 1..Len(request.imp) /\ Len(request.imp) \in Nat
         /\ UNCHANGED <<budget_cache, request, geo_campaigns, retrieved_cached_ads, bids,
                        writes, held>>
         /\ \/ retrieved_cached_ads = <<>> /\ UNCHANGED response
            \/ /\ retrieved_cached_ads # <<>>
               /\ NewBid \in Bids
               /\ response' = Append(response, NewBid)
               /\ Len(response') = Len(response) + 1 /\ Len(response) \in Nat
               /\ \A i \in 1..Len(response) : response'[i] = response[i]
               /\ response'[Len(response) + 1] = NewBid
<1>1. /\ pc = "ads" /\ pc' = "imp" /\ imp' = imp + 1
      /\ UNCHANGED <<budget_cache, request, geo_campaigns, retrieved_cached_ads, bids,
                     writes, held>>
  BY DEF AddBid
<1>2. imp \in 1..Len(request.imp) /\ Len(request.imp) \in Nat
  BY <1>1 DEF TypeOK
<1>3. CASE retrieved_cached_ads = <<>>
  BY <1>1, <1>2, <1>3 DEF AddBid
<1>4. CASE retrieved_cached_ads # <<>>
  <2>1. response' = Append(response, NewBid)
    BY <1>4 DEF AddBid, NewBid, Best
  <2>2. NewBid \in Bids
    BY <1>1, <1>2, <1>4, BestRight DEF NewBid, Bids
  <2>3. response \in Seq(Bids)
    BY DEF TypeOK
  <2>4. /\ Len(Append(response, NewBid)) = Len(response) + 1 /\ Len(response) \in Nat
        /\ \A i \in 1..Len(response) : Append(response, NewBid)[i] = response[i]
        /\ Append(response, NewBid)[Len(response) + 1] = NewBid
    BY <2>2, <2>3
  <2>5. QED
    BY <1>1, <1>2, <1>4, <2>1, <2>2, <2>4
<1>5. QED
  BY <1>3, <1>4

-----------------------------------------------------------------------------
(* One lemma for each action.                                              *)

(* What was covered stays so while other processes write.                  *)
LEMMA WriteStep ==
  ASSUME IInv, NEW c \in Campaigns, NEW e \in Budgets \cup {NoEntry}, WriteBudget(c, e)
  PROVE  IInv'
<1>0. TypeOK
  BY DEF IInv
<1>1. /\ UNCHANGED <<pc, request, imp, geo_campaigns, retrieved_cached_ads, response, bids>>
      /\ writes' = writes + 1 /\ writes < MaxWrites
      /\ budget_cache' = [budget_cache EXCEPT ![c] = e]
      /\ held' = [held EXCEPT ![c] = @ \cup {e}]
  BY DEF WriteBudget
<1>2. \A d \in Campaigns : held'[d] = IF d = c THEN held[d] \cup {e} ELSE held[d]
  BY <1>0, <1>1 DEF TypeOK
<1>3. TypeOK'
  <2>1. held' \in [Campaigns -> SUBSET (Budgets \cup {NoEntry})]
    BY <1>0, <1>1 DEF TypeOK
  <2>2. budget_cache' \in [Campaigns -> Budgets \cup {NoEntry}]
    BY <1>0, <1>1 DEF TypeOK
  <2>3. writes' \in 0..MaxWrites
    BY <1>0, <1>1, BoundsAssumption DEF TypeOK
  <2>4. QED
    BY <1>0, <1>1, <2>1, <2>2, <2>3 DEF TypeOK
<1>4. CacheHeld'
  BY <1>0, <1>1, <1>2 DEF IInv, CacheHeld, TypeOK
<1>5. ASSUME NEW d \in Campaigns, NEW amount, HadLeft(d, amount)
      PROVE  HadLeft(d, amount)'
  <2>1. held[d] \subseteq held'[d]
    BY <1>2
  <2>2. QED
    BY <1>5, <2>1 DEF HadLeft
<1>6. \A ad \in AdRecords : \A amount : Covered(ad, amount) => Covered(ad, amount)'
  BY <1>5 DEF Covered, AdRecords
<1>7. CampaignsLeft'
  BY <1>1 DEF IInv, CampaignsLeft, OfGeo
<1>8. CandidatesCovered'
  <2> SUFFICES ASSUME pc' = "ads", NEW j \in 1..Len(retrieved_cached_ads')
               PROVE  (/\ retrieved_cached_ads[j].ad.size = request.imp[imp]
                       /\ OfGeo(retrieved_cached_ads[j].ad.campaign_id)
                       /\ Covered(retrieved_cached_ads[j].ad,
                                  retrieved_cached_ads[j].auth_bid_micros))'
    BY DEF CandidatesCovered
  <2> DEFINE m == retrieved_cached_ads[j]
  <2>1. j \in 1..Len(retrieved_cached_ads) /\ retrieved_cached_ads'[j] = m
    BY <1>1
  <2>2. m.ad \in AdRecords
    BY <1>0, <2>1, CandidateTyped DEF TypeOK
  <2>3. m.ad.size = request.imp[imp] /\ OfGeo(m.ad.campaign_id) /\ Covered(m.ad, m.auth_bid_micros)
    BY <1>1, <2>1 DEF IInv, CandidatesCovered
  <2>4. Covered(m.ad, m.auth_bid_micros)'
    BY <1>1, <1>6, <2>2, <2>3
  <2>5. QED
    BY <1>1, <2>1, <2>3, <2>4 DEF OfGeo
<1>9. BidsAffordable'
  <2> SUFFICES ASSUME NEW i \in 1..Len(response')
               PROVE  (/\ response[i].price <= response[i].ad.max_bid_micros
                       /\ response[i].price > 0 =>
                            HadLeft(response[i].ad.campaign_id, response[i].price))'
    BY DEF BidsAffordable
  <2>1. i \in 1..Len(response) /\ response'[i] = response[i]
    BY <1>1
  <2>2. response[i] \in Bids
    BY <1>0, <2>1 DEF TypeOK
  <2>3. response[i].ad.campaign_id \in Campaigns
    BY <2>2 DEF Bids, AdRecords
  <2>4. QED
    BY <1>1, <1>5, <2>1, <2>3 DEF IInv, BidsAffordable
<1>10. ImpressionsPassed' /\ BestCandidateBids' /\ BidsFit'
  BY <1>1 DEF IInv, ImpressionsPassed, BestCandidateBids, BidsFit
<1>11. QED
  BY <1>3, <1>4, <1>7, <1>8, <1>9, <1>10 DEF IInv

(* A request starts with no bids and with what the cache holds now.        *)
LEMMA BidStep ==
  ASSUME IInv, NEW r \in Requests, Bid(r)
  PROVE  IInv'
<1>0. TypeOK /\ r \in [geo : GeoIds \cup {UnknownGeo}, imp : Seq(Nat)]
  BY RequestsAssumption DEF IInv
<1>1. /\ pc' = "imp" /\ request' = r /\ imp' = 1 /\ response' = <<>>
      /\ bids' = bids + 1 /\ bids < MaxBids
      /\ held' = [c \in Campaigns |-> {budget_cache[c]}]
      /\ UNCHANGED <<budget_cache, geo_campaigns, retrieved_cached_ads, writes>>
  BY DEF Bid
<1>2. TypeOK'
  <2>1. held' \in [Campaigns -> SUBSET (Budgets \cup {NoEntry})]
    BY <1>0, <1>1 DEF TypeOK
  <2>2. imp' \in 1..(Len(request'.imp) + 1) /\ request' \in [geo : GeoIds \cup {UnknownGeo}, imp : Seq(Nat)]
    BY <1>0, <1>1
  <2>3. bids' \in 0..MaxBids
    BY <1>0, <1>1, BoundsAssumption DEF TypeOK
  <2>4. QED
    BY <1>0, <1>1, <2>1, <2>2, <2>3 DEF TypeOK
<1>3. CacheHeld'
  BY <1>1 DEF CacheHeld
<1>4. CampaignsLeft' /\ CandidatesCovered'
  BY <1>1 DEF CampaignsLeft, CandidatesCovered
<1>5. \A i : i \notin 1..Len(response')
  BY <1>1
<1>6. BidsAffordable' /\ ImpressionsPassed' /\ BestCandidateBids' /\ BidsFit'
  BY <1>5 DEF BidsAffordable, ImpressionsPassed, BestCandidateBids, BidsFit
<1>7. QED
  BY <1>2, <1>3, <1>4, <1>6 DEF IInv

(* The campaigns of an impression are those of the geo.                    *)
LEMMA SelectStep ==
  ASSUME IInv, SelectCampaigns
  PROVE  IInv'
<1>0. TypeOK /\ request.geo \in GeoIds \cup {UnknownGeo} /\ Len(request.imp) \in Nat
  BY DEF IInv, TypeOK
<1>1. /\ pc = "imp" /\ imp <= Len(request.imp)
      /\ UNCHANGED <<budget_cache, request, response, bids, writes, held>>
  BY DEF SelectCampaigns
<1>2. CASE /\ imp' = imp + 1
           /\ UNCHANGED <<pc, geo_campaigns, retrieved_cached_ads>>
  <2>1. imp \in Nat /\ imp' \in 1..(Len(request.imp) + 1)
    BY <1>0, <1>1, <1>2 DEF TypeOK
  <2>2. TypeOK'
    BY <1>0, <1>1, <1>2, <2>1 DEF TypeOK
  <2>3. CacheHeld' /\ CampaignsLeft' /\ CandidatesCovered'
    BY <1>1, <1>2 DEF IInv, CacheHeld, CampaignsLeft, CandidatesCovered
  <2>4. BidsAffordable' /\ BidsFit'
    BY <1>1, <1>2 DEF IInv, BidsAffordable, BidsFit, HadLeft
  <2>5. ImpressionsPassed'
    BY <1>1, <1>2, <2>1 DEF IInv, ImpressionsPassed
  <2>6. BestCandidateBids'
    BY <1>1, <1>2, <2>1 DEF IInv, ImpressionsPassed, BestCandidateBids
  <2>7. QED
    BY <2>2, <2>3, <2>4, <2>5, <2>6 DEF IInv
<1>3. CASE /\ pc' = "ads" /\ geo_campaigns' = CampaignsFor(request.geo)
           /\ retrieved_cached_ads' = <<>> /\ UNCHANGED imp
  <2>1. CampaignsFor(request.geo) \in Seq(Campaigns)
    BY <1>0, CampaignsForTyped
  <2>2. TypeOK'
    BY <1>0, <1>1, <1>3, <2>1 DEF TypeOK
  <2>3. CacheHeld' /\ CampaignsLeft' /\ CandidatesCovered'
    BY <1>1, <1>3 DEF IInv, CacheHeld, CampaignsLeft, CandidatesCovered, OfGeo
  <2>4. BidsAffordable' /\ BidsFit' /\ ImpressionsPassed'
    BY <1>1, <1>3 DEF IInv, BidsAffordable, BidsFit, HadLeft, ImpressionsPassed
  <2>5. BestCandidateBids'
    BY <1>3 DEF BestCandidateBids
  <2>6. QED
    BY <2>2, <2>3, <2>4, <2>5 DEF IInv
<1>4. QED
  BY <1>2, <1>3 DEF SelectCampaigns

(* A round adds candidates that fit and are covered.                       *)
LEMMA RetrieveStep ==
  ASSUME IInv, RetrieveAds
  PROVE  IInv'
<1> DEFINE c == Head(geo_campaigns)
<1>0. TypeOK /\ CacheHeld
  BY DEF IInv
<1>1. /\ pc = "ads" /\ c \in Campaigns
      /\ retrieved_cached_ads' = retrieved_cached_ads \o Found(c)
      /\ geo_campaigns' = Tail(geo_campaigns)
      /\ geo_campaigns # <<>>
      /\ UNCHANGED <<budget_cache, pc, request, imp, response, bids, writes, held>>
  BY <1>0, RetrieveFinds DEF RetrieveAds
<1>2. geo_campaigns \in Seq(Campaigns) /\ retrieved_cached_ads \in Seq(Candidates)
  BY <1>0 DEF TypeOK
<1>3. OfGeo(c)
  BY <1>1, <1>2, HeadOf DEF IInv, CampaignsLeft
<1> HIDE DEF c
<1>4. /\ Found(c) \in Seq(Candidates)
      /\ \A i \in 1..Len(Found(c)) :
           /\ Found(c)[i].ad.size = request.imp[imp]
           /\ Found(c)[i].ad.campaign_id = c
           /\ Covered(Found(c)[i].ad, Found(c)[i].auth_bid_micros)
  BY <1>0, <1>1, FoundRight
<1>5. TypeOK'
  <2>1. geo_campaigns' \in Seq(Campaigns)
    BY <1>1, <1>2, HeadOf
  <2>2. retrieved_cached_ads' \in Seq(Candidates)
    BY <1>1, <1>2, <1>4, ConcatOf
  <2>3. QED
    BY <1>0, <1>1, <2>1, <2>2 DEF TypeOK
<1>6. CacheHeld'
  BY <1>1 DEF IInv, CacheHeld
<1>7. CampaignsLeft'
  <2>1. \A k \in 1..Len(geo_campaigns') :
          geo_campaigns'[k] = geo_campaigns[k + 1] /\ k + 1 \in 1..Len(geo_campaigns)
    BY <1>1, <1>2, HeadOf
  <2>2. QED
    BY <1>1, <2>1 DEF IInv, CampaignsLeft, OfGeo
<1>8. CandidatesCovered'
  <2> DEFINE Right(m) == /\ m.ad.size = request.imp[imp]
                         /\ OfGeo(m.ad.campaign_id)
                         /\ Covered(m.ad, m.auth_bid_micros)
  <2>1. \A i \in 1..Len(retrieved_cached_ads) : Right(retrieved_cached_ads[i])
    BY <1>1 DEF IInv, CandidatesCovered
  <2>2. \A i \in 1..Len(Found(c)) : Right(Found(c)[i])
    BY <1>3, <1>4
  <2> HIDE DEF Right
  <2>3. \A i \in 1..Len(retrieved_cached_ads') : Right(retrieved_cached_ads'[i])
    BY <1>1, <1>2, <1>4, <2>1, <2>2, ConcatOf
  <2>4. QED
    BY <1>1, <2>3 DEF Right, CandidatesCovered, OfGeo, Covered, HadLeft
<1>9. BidsAffordable' /\ ImpressionsPassed' /\ BestCandidateBids' /\ BidsFit'
  BY <1>1 DEF IInv, BidsAffordable, ImpressionsPassed, BestCandidateBids, BidsFit, HadLeft
<1>10. QED
  BY <1>5, <1>6, <1>7, <1>8, <1>9 DEF IInv

(* The bid that is added is the best of the candidates of its impression.  *)
LEMMA AddBidStep ==
  ASSUME IInv, AddBid
  PROVE  IInv'
<1>0. TypeOK /\ CandidatesCovered
  BY DEF IInv
<1>1. /\ pc = "ads" /\ pc' = "imp" /\ imp' = imp + 1
      /\ imp \in 1..Len(request.imp) /\ Len(request.imp) \in Nat
      /\ UNCHANGED <<budget_cache, request, geo_campaigns, retrieved_cached_ads, bids,
                     writes, held>>
  BY <1>0, AddBidAdds
<1>2. imp' \in 1..(Len(request'.imp) + 1)
  BY <1>1
<1>3. CacheHeld' /\ CampaignsLeft' /\ CandidatesCovered'
  BY <1>1 DEF IInv, CacheHeld, CampaignsLeft, CandidatesCovered
<1>4. CASE retrieved_cached_ads = <<>> /\ UNCHANGED response
  <2>1. TypeOK'
    BY <1>0, <1>1, <1>2, <1>4 DEF TypeOK
  <2>2. BidsAffordable' /\ BidsFit'
    BY <1>1, <1>4 DEF IInv, BidsAffordable, BidsFit, HadLeft
  <2>3. ImpressionsPassed'
    BY <1>1, <1>4 DEF IInv, ImpressionsPassed
  <2>4. BestCandidateBids'
    BY <1>1, <1>4 DEF IInv, ImpressionsPassed, BestCandidateBids
  <2>5. QED
    BY <1>3, <2>1, <2>2, <2>3, <2>4 DEF IInv
<1>5. CASE /\ retrieved_cached_ads # <<>>
           /\ NewBid \in Bids
           /\ response' = Append(response, NewBid)
           /\ Len(response') = Len(response) + 1 /\ Len(response) \in Nat
           /\ \A i \in 1..Len(response) : response'[i] = response[i]
           /\ response'[Len(response) + 1] = NewBid
  <2>1. /\ Best.auth_bid_micros \in Nat
        /\ Best.ad.size = request.imp[imp]
        /\ OfGeo(Best.ad.campaign_id)
        /\ Covered(Best.ad, Best.auth_bid_micros)
        /\ \A j \in 1..Len(retrieved_cached_ads) :
             retrieved_cached_ads[j].auth_bid_micros <= Best.auth_bid_micros
    BY <1>0, <1>1, <1>5, BestRight
  <2>2. /\ NewBid.impid = imp /\ NewBid.ad = Best.ad
        /\ NewBid.price = Best.auth_bid_micros
    BY DEF NewBid
  <2>3. response' \in Seq(Bids)
    <3>1. response \in Seq(Bids)
      BY <1>0 DEF TypeOK
    <3>2. QED
      BY <1>5, <3>1
  <2>4. TypeOK'
    BY <1>0, <1>1, <1>2, <2>3 DEF TypeOK
  <2>5. \A i \in 1..Len(response') :
          \/ i \in 1..Len(response) /\ response'[i] = response[i]
          \/ response'[i] = NewBid
    BY <1>5
  <2>6. BidsAffordable'
    <3>1. Covered(NewBid.ad, NewBid.price)
      BY <2>1, <2>2
    <3>2. QED
      BY <1>1, <2>5, <3>1 DEF IInv, BidsAffordable, Covered, HadLeft
  <2>7. ImpressionsPassed'
    BY <1>1, <2>2, <2>5 DEF IInv, ImpressionsPassed
  <2>8. BestCandidateBids'
    <3> SUFFICES ASSUME NEW i \in 1..Len(response'), response'[i].impid = imp' - 1,
                        NEW j \in 1..Len(retrieved_cached_ads')
                 PROVE  retrieved_cached_ads'[j].auth_bid_micros <= response'[i].price
      BY DEF BestCandidateBids
    <3>1. response'[i] = NewBid
      BY <1>1, <2>5 DEF IInv, ImpressionsPassed
    <3>2. QED
      BY <1>1, <2>1, <2>2, <3>1
  <2>9. BidsFit'
    BY <1>1, <2>1, <2>2, <2>5 DEF IInv, BidsFit, OfGeo
  <2>10. QED
    BY <1>3, <2>4, <2>6, <2>7, <2>8, <2>9 DEF IInv
<1>6. QED
  BY <1>0, <1>4, <1>5, AddBidAdds

LEMMA ReplyStep ==
  ASSUME IInv, Reply \/ UNCHANGED vars
  PROVE  IInv'
<1>1. /\ pc' \in {pc, "idle"}
      /\ UNCHANGED <<budget_cache, request, imp, geo_campaigns, retrieved_cached_ads,
                     response, bids, writes, held>>
  BY DEF Reply, vars
<1>2. TypeOK'
  BY <1>1 DEF IInv, TypeOK
<1>3. CacheHeld' /\ CampaignsLeft' /\ CandidatesCovered'
  BY <1>1 DEF IInv, CacheHeld, CampaignsLeft, CandidatesCovered, OfGeo, Covered, HadLeft
<1>4. BidsAffordable' /\ ImpressionsPassed' /\ BestCandidateBids' /\ BidsFit'
  BY <1>1 DEF IInv, BidsAffordable, ImpressionsPassed, BestCandidateBids, BidsFit, HadLeft
<1>5. QED
  BY <1>2, <1>3, <1>4 DEF IInv

LEMMA NextIInv == IInv /\ [Next]_vars => IInv'
BY WriteStep, BidStep, SelectStep, RetrieveStep, AddBidStep, ReplyStep DEF Next

LEMMA InitIInv == Init => IInv
<1> SUFFICES ASSUME Init PROVE IInv
  OBVIOUS
<1>1. TypeOK
  BY GeoAssumption, BoundsAssumption DEF Init, TypeOK
<1>2. \A i : i \notin 1..Len(response)
  BY DEF Init
<1>3. BidsAffordable /\ ImpressionsPassed /\ BestCandidateBids /\ BidsFit
  BY <1>2 DEF BidsAffordable, ImpressionsPassed, BestCandidateBids, BidsFit
<1>4. CacheHeld /\ CampaignsLeft /\ CandidatesCovered
  BY DEF Init, CacheHeld, CampaignsLeft, CandidatesCovered
<1>5. QED
  BY <1>1, <1>3, <1>4 DEF IInv

LEMMA Invariance == Spec => []IInv
BY InitIInv, NextIInv, PTL DEF Spec

(* Candidates and bids are of ads that exist, for impressions that exist.  *)
THEOREM TypeCorrect == Spec => []TypeOK
BY Invariance, PTL DEF IInv

(* Whatever other processes write to the cache while Bidder::bid walks     *)
(* over the impressions, a bid is covered by what its campaign had left at *)
(* some moment of the request.                                             *)
THEOREM AffordableTheorem == Spec => []BidsAffordable
BY Invariance, PTL DEF IInv

(* std::max_element in AdSelector::max_bid: no candidate of the impression *)
(* was authorized more than the one that bids.                             *)
THEOREM BestTheorem == Spec => []BestCandidateBids
BY Invariance, PTL DEF IInv

(* A bid is of a campaign of the request's geo and of the size of its      *)
(* impression: nothing left of an earlier impression is offered.           *)
THEOREM FitTheorem == Spec => []BidsFit
BY Invariance, PTL DEF IInv

=============================================================================
