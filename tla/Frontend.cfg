SPECIFICATION FrontendSpec
CONSTANTS
  Scenario = {s1, s2}
  NoScenario = none
  MaxOperations = 2
  Conditions <- FourConditions
  Node <- MCNode
  Root = root
  Parent <- MCParent
  Connection <- MCConnection
  At <- MCAt
  Nothing = nothing
  Suspects <- MCConnection
  Reconstructed <- MCConnection
  Anomalous <- MCAnomalous
  MaxClicks = 4
  feederA = feederA
  feederB = feederB
  transformer = transformer
  c1 = c1
  c2 = c2
INVARIANTS SettledOnSelection ExplorerSettled BreadcrumbIsPath ModalSettled
PROPERTIES LoadingEnds
CHECK_DEADLOCK FALSE
