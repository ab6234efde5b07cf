SPECIFICATION WebSpec
CONSTANTS
  MaxKeys = 3
  MaxSubmits = 2
  MaxMishaps = 1
  Tabs = {t1, t2}
  BrandFiles <- MCBrandFiles
  Events = TRUE
  MaxChanges = 3
  Browsers = {"ann", "bob"}
  Ranges = {"24h", "7d"}
  Filters = {"none", "team"}
  Receipts = {"r1", "r2"}
  Seed = {"r1"}
  MaxEntries = 2
  MaxVisits = 2
  SeedKeys <- MCSeedKeys
  KeyModels <- MCKeyModels
  ModelWeight <- MCModelWeight
  ByTeam <- MCByTeam
  Requests <- MCRequests
  Quarters <- MCQuarters
  TrendDays <- MCTrendDays
  TopN = 1
  Dims = {"team", "key", "project", "person"}
  MaxAsked = 2
  MaxGrowth = 1
  MaxOutages = 1
  Year = 4
  NewYear = 2
  RowIds = {1, 2, 3, 4}
  FirstRow = 1
  VerdictOf <- MCVerdictOf
  RowCap = 2
  ByIdCap = 3
  MaxStreams = 2
  MaxAsides = 1
  ToastOptions <- MCToastOptions
  ToastLimit = 1
  MaxToasts = 2
  MaxUpdates = 1
CONSTRAINTS OneStaleRange WeekByTheRest MishapForSubmit GrowthOrOutage
CHECK_DEADLOCK FALSE
INVARIANTS WebTypeOK MintedOnceAndShown ListCatchesUp WhatIsOpenedIsShown FiguresReconcile LinksOpenWhatIsShown ToastsAreAccessible
PROPERTIES RequestsSettle LookIsAsChosen AddressKeepsView ViewsFollowChoice RowsFollowReceipts
