CONSTANTS
  Tasks <- GotoTasks
  Acts <- GotoActs
  Root = "wf"
  Children <- GotoChildren
  Actions <- GotoActions
  Name <- GotoName
  Fail <- GotoFail
  Kind <- GotoKind
  TagID <- GotoTagID
  Async <- GotoAsync
  Target <- GotoTarget
  Repeat <- GotoRepeat
  SwitchCases <- GotoSwitchCases
  SubWorkflow <- GotoSubWorkflow
  Roots <- GotoRoots
  InitRegistry = {"wf"}
  HasWhen = {}
  HasSkip = {}
  HasVars = {}
  HasExit = {}
  MayFail = {}
  TagIDs = {}
  CanRunGates = {{}}
  Main = Main
  None = None

SPECIFICATION Spec
INVARIANT GotoTargetRunsOnce
