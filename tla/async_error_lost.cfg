CONSTANTS
  Tasks <- AsyTasks
  Acts <- AsyActs
  Root = "wf"
  Children <- AsyChildren
  Actions <- AsyActions
  Name <- AsyName
  Fail <- AsyFail
  Kind <- AsyKind
  TagID <- AsyTagID
  Async <- AsyAsync
  Target <- AsyTarget
  Repeat <- AsyRepeat
  SwitchCases <- AsySwitchCases
  SubWorkflow <- AsySubWorkflow
  Roots <- AsyRoots
  InitRegistry = {"wf"}
  HasWhen = {"t1"}
  HasSkip = {}
  HasVars = {}
  HasExit = {}
  MayFail = {"a1", "a2", "a3", "a4"}
  TagIDs <- AsyTagIDs
  CanRunGates = {{}}
  Main = Main
  None = None

SPECIFICATION Spec
PROPERTY AsyncErrorSurfaces
