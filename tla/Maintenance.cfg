SPECIFICATION Spec
CONSTANTS
  Bodies <- SomeBodies
  Lines <- SomeLines
  Schemas <- SomeSchemas
  Mappings <- SomeMappings
  Charts <- SomeCharts
  BLUEPRINT_ONLINE = TRUE
  MaxEdits = 2
  Definitions = {"node", "power", "allocation", "other"}
  HasFile = {"node", "power", "allocation"}
  Applied <- NodeThenPower
  Checked = {"power"}
  Fixed = 1
  Polls = 1
  MaxGenerators = 2
  MaxClock = 3
  MaxRuns = 2
  MaxFailures = 1
  Sample = 2
  Interval = 1
  Seconds = 8
  MaxFailed = 1
  MaxTime = 12
INVARIANTS
  BrokenScreenIsNoticed
  GreenManifestsApply
  GreenBodiesInventNothing
  GreenBlueprintPublishes
  CleanTreePasses
  RegenTypeOK
  ZeroIsTrue
  MeasuresTheWindow
PROPERTY
  NudgeReaches
CHECK_DEADLOCK FALSE
