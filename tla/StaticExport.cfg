SPECIFICATION Spec
CONSTANTS
  g1 = g1
  g2 = g2
  g3 = g3
  demo = demo
  reseeded = reseeded
  other = other
  DemoStation = DemoStation
  OtherStation = OtherStation
  Generator = {g1, g2, g3}
  Scenario = {demo, reseeded, other}
  ScenarioOf <- MCScenarioOf
  SubstationOf <- MCSubstationOf
  MaxRuns = 2
INVARIANTS TraceableFigures RootedTree OneScenarioPerSubstation ExportComplete DiesAtTransformer OnlyOneExported
