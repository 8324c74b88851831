SPECIFICATION Spec
CONSTANTS
  g1 = g1
  g2 = g2
  g3 = g3
  demo = demo
  reseeded = reseeded
  other = other
  DemoStation = DemoStation
  OtherStation = OtherStation
  Generator = {g1}
  Scenario = {demo, reseeded, other}
  ScenarioOf <- JustOne
  SubstationOf <- MCSubstationOf
  MaxRuns = 1
PROPERTY AloneSucceeds
CHECK_DEADLOCK FALSE
