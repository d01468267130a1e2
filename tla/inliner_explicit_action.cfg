SPECIFICATION Spec
CONSTANTS
  Docs <- MCExplicitDocs
  WorkflowName = "wf"
INVARIANT ActionsPreserved
