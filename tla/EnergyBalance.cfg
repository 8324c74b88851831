SPECIFICATION EnergySpec
CONSTANTS
  t1 = t1
  t2 = t2
  home1 = home1
  home2 = home2
  plant = plant
  Connection = {home1, home2, plant}
  Transformer = {t1, t2}
  FedBy <- MCFedBy
  BaseKw <- MCBaseKw
  Supplies <- MCSupplies
  Retained = {50}
  PvOutputs = {150}
  Balances <- MCBalances
  Rates <- MCRates
  Industrial = {plant}
  Estimates = {100}
  MaxMoves = 1
  Rating = 5000
  NoLoadLoss = 15
  LoadLoss = 90
  DropScale = 2000
INVARIANTS LabelsTrue EnergyAccountedOnce ResidualTracksHidden
SYMMETRY Alike
CHECK_DEADLOCK FALSE
