SPECIFICATION Spec
CONSTANTS
  Docs <- MCDocs
  WorkflowName = "wf"
INVARIANT MultiActionSharesScope
