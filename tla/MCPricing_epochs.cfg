\* One tracked model, one change of its price.
CONSTANTS
  Records <- PricedRecords
  ModelKeys <- NoModels
  Tracked <- TrackedIds
  VendorHost <- Hosts
  Rows <- HostRows
  VendorPrefixes = {"v"}
  Claude = {}
  Families <- NoFamilies
  DefaultName = "new"
  NoHost = "none"
  NoRate = 99
  Rates = {1, 2}
  Schedules = {}
  Thresholds = {1}
  Horizon = 3
  First <- FirstHistories
  MaxEdits = 1
SPECIFICATION PricingSpec
INVARIANT EpochsPriceAlike
CHECK_DEADLOCK FALSE
