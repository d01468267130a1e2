CONSTANTS
  Tasks <- CtlTasks
  Acts <- CtlActs
  Root = "wf"
  Children <- CtlChildren
  Actions <- CtlActions
  Name <- CtlName
  Fail <- CtlFail
  Kind <- CtlKind
  TagID <- CtlTagID
  Async <- CtlAsync
  Target <- CtlTarget
  Repeat <- CtlRepeat
  SwitchCases <- CtlSwitchCases
  SubWorkflow <- CtlSubWorkflow
  Roots <- CtlRoots
  InitRegistry = {"wf"}
  HasWhen = {"t1"}
  HasSkip = {"a5", "a6", "a9", "a10", "a14", "a19"}
  HasVars = {"s1"}
  HasExit = {"a3"}
  MayFail = {"a4", "a7", "a11", "a12", "a13", "a16", "a18"}
  TagIDs <- CtlTagIDs
  CanRunGates = {{}, {"terminated", "scheduled"}}
  Main = Main
  None = None

SPECIFICATION Spec
INVARIANT ErrorsNotLost
INVARIANT EventsPaired
PROPERTY ExitStartsNoTask
PROPERTY TasksStayInWorkflow
PROPERTY LifecycleSafe
