SPECIFICATION Spec
CONSTANTS
  Campaigns <- SmallCampaigns
  NoEntry = NoEntry
  Budgets <- SmallBudgets
  GeoIds <- SmallGeoIds
  UnknownGeo = UnknownGeo
  GeoCampaigns <- SmallGeoCampaigns
  Ads <- SmallAds
  Requests <- SmallRequests
  MaxBids = 2
  MaxWrites = 2
INVARIANTS BidsAffordable BestCandidateBids BidsFit
CHECK_DEADLOCK FALSE
