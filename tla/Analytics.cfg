SPECIFICATION AnalyticsSpec
CONSTANTS
  t1 = t1
  t2 = t2
  t3 = t3
  t4 = t4
  Transformer = {t1, t2, t3, t4}
  Group <- MCGroup
  Groups = 4
  Weeks = 8
  Peaks = {20, 110, 300}
  Shares <- MCShares
  Connection = {1, 2, 3, 4}
  FedBy <- MCFedBy
  Observable <- MCObservable
  Day = 2
  Week = 6
  MinHistory = 10
  MinHeldOut = 3
  MaxRows = 60
  Walked = 2
  LoadFactor = {0, 60, 100, 150}
  SteadyRise <- MCSteadyRise
  Gradient <- MCGradient
  Ambient = {180, 300}
  OilLag = 6
  Observed = 3
  Horizon = 5
  Width = 2
  Tick = {0, 2, 3, 5, 6, 9}
  Amounts = {1, 7}
  Weights = {1, 3}
INVARIANTS
  HoursAsPublished MidnightConfined
  FewestSwitchedOff CommonReductionNotListed NothingFromTheFuture
  UnderestimatedNeverHotter
  HardBound EnergyKept HalfKeepTheirPurchase
CHECK_DEADLOCK FALSE
