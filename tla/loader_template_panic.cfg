CONSTANTS
  Docs = {"main", "sub", "tpl"}
  Insts = {"default", "i1"}
  Nodes = {"t1", "a1", "a2", "b1", "c1"}
  Root = "main"
  Body <- MCBody
  Children <- MCChildren
  Type <- MCType
  HasTemplate = {"t1"}
  SubPath = {"t1"}
  MissingSubPath = {}
  RunURI <- MCRunURI
  IsTemplate = {"a1"}
  Instances <- MCInstances
  HasDefault = FALSE
  Files <- MCFiles
  MayBreak <- MCMayBreak
  WithDependencies = TRUE
  MaxLoads = 3

SPECIFICATION Spec
INVARIANT LoadReturns
CHECK_DEADLOCK FALSE
