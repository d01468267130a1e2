SPECIFICATION Spec
CONSTANTS
  Docs <- MCDocs
  WorkflowName = "wf"
INVARIANT ActionsPreserved
INVARIANT OrderPreserved
