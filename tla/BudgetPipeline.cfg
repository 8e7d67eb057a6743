SPECIFICATION Spec
CONSTANTS
  Campaigns <- MCCampaigns
  NoEntry = NoEntry
  Source <- MCSource
  Bodies <- MCBodies
  Prices <- MCPrices
  l1 = l1
  l2 = l2
  Loaders <- MCLoaders
  MaxWins = 3
  MaxEdits = 3
SYMMETRY LoaderSymmetry
INVARIANTS TypeOK OverdrawnNeverAuthorized BudgetConserved LedgerExact LoadsForgetNothing
PROPERTY NoResurrection
CHECK_DEADLOCK FALSE
