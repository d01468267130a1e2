------------------------------ MODULE Inliner ------------------------------
(***************************************************************************)
(* Inlined.AsWorkflow of src/model/inlined.go: the compilation of a        *)
(* pipeline document into the TasksNode tree that WorkflowEngine runs.     *)
(*                                                                         *)
(* A document node is an ordered list of entries (a yaml.MapSlice).  An    *)
(* entry has a key, [p |-> prefix, n |-> name] with prefix "", ":" or "@", *)
(* and a value that is a scalar, a boolean, or a nested node ("kids").     *)
(* Scalar values other than booleans are abstracted away: only which keys  *)
(* a node has decides how it compiles.  Templates (getTemplateNode) and    *)
(* the errors of request and variable loading are not modelled.            *)
(*                                                                         *)
(* The compiler is a set of RECURSIVE operators; the behaviour picks one   *)
(* document and keeps it, so every invariant is checked on the compiled   *)
(* tree of every document of Docs.                                         *)
(***************************************************************************)
EXTENDS Naturals, Sequences, FiniteSets, SequencesExt

CONSTANTS
  Docs,          \* the pipelines (Inlined.Pipeline) to compile
  WorkflowName   \* AsWorkflow's name argument

VARIABLE doc

-----------------------------------------------------------------------------
Key(p, n) == [p |-> p, n |-> n]
Keys(es) == {es[i].k : i \in DOMAIN es}

(* updatereservedAttributes: a plain reserved key moves to its ":" form,   *)
(* a plain tag to "@tag", unless that form is already present.            *)
ReservedKeys == {"action", "workflow", "skip", "when", "post", "init",
                 "comments", "description", "fail"}
Moved(k, es) ==
  CASE k.p = "" /\ k.n \in ReservedKeys /\ Key(":", k.n) \notin Keys(es) ->
         Key(":", k.n)
    [] k.p = "" /\ k.n = "tag" /\ Key("@", "tag") \notin Keys(es) ->
         Key("@", "tag")
    [] OTHER -> k
UpdateReserved(es) == [i \in DOMAIN es |-> [es[i] EXCEPT !.k = Moved(@, es)]]

(* groupAttributes: the action attributes are the ":" keys, stripped, and  *)
(* the plain ones; "@" keys go to the request only.                        *)
ActionAttributes(es) ==
  LET ues == UpdateReserved(es)
      kept == SelectSeq(ues, LAMBDA e : e.k.p # "@")
  IN [i \in DOMAIN kept |-> [kept[i] EXCEPT !.k = Key("", @.n)]]

(* isActionNode, on attributes whose keys are taken as they are.           *)
IsActionNode(attrs) ==
  {Key("", "action"), Key("", "workflow")} \cap Keys(attrs) # {}

(* Mutant: hasActionNode looking at the direct children only.             *)
HasActionNodeShallow(attrs) ==
  \/ IsActionNode(attrs)
  \/ \E i \in DOMAIN attrs : attrs[i].kind = "node" /\ IsActionNode(attrs[i].kids)

(* hasActionNode: the node, or a descendant reached through a map or       *)
(* slice value, has an action or workflow key.  The descendants are        *)
(* normalised without updatereservedAttributes or groupAttributes.        *)
RECURSIVE HasActionNode(_)
HasActionNode(attrs) ==
  \/ IsActionNode(attrs)
  \/ \E i \in DOMAIN attrs : attrs[i].kind = "node" /\ HasActionNode(attrs[i].kids)

-----------------------------------------------------------------------------
(* buildTask: an empty, single-action task.                                *)
NewTask(name) ==
  [name |-> name, actions |-> <<>>, tasks |-> <<>>, multi |-> FALSE,
   onError |-> "", deferred |-> ""]

(* buildAction's TagID: the inherited tagId, else the node's name.         *)
NewAction(name, tagID) ==
  [name |-> name, tagID |-> IF tagID # "" THEN tagID ELSE name]

(* Mutant: the action always joins the parent task.                        *)
ActionIntoParent(parent, name, tagID) ==
  [parent EXCEPT !.actions = Append(@, NewAction(name, tagID))]

(* An action node joins a multi-action parent, or else gets a task of its  *)
(* own, named after it, appended to the parent's tasks.                    *)
ActionInto(parent, name, tagID) ==
  IF parent.multi
  THEN [parent EXCEPT !.actions = Append(@, NewAction(name, tagID))]
  ELSE [parent EXCEPT !.tasks =
          Append(@, [NewTask(name) EXCEPT !.actions = <<NewAction(name, tagID)>>])]

(* flagAsMultiActionIfMatched: a boolean multiaction or async entry sets   *)
(* the task's flag when the iteration reaches it.                          *)
MultiActionKeys == {"multiaction", "async"}
FlagMultiAction(task, e) ==
  IF e.k.n \in MultiActionKeys /\ e.kind = "bool"
  THEN [task EXCEPT !.multi = e.b] ELSE task

(* buildWorkflowNodes(name, source, parent, tagID): the parent task after  *)
(* the node is compiled into it; BuildEntries is its ProcessMap loop over  *)
(* the node's entries, recursing into the nested ones.                     *)
RECURSIVE Build(_, _, _, _), BuildEntries(_, _, _, _)
Build(name, es, parent, tagID) ==
  LET attrs == ActionAttributes(es) IN
  IF IsActionNode(attrs) THEN ActionInto(parent, name, tagID)
  ELSE IF ~HasActionNode(attrs) THEN parent
  ELSE [parent EXCEPT !.tasks =
          Append(@, BuildEntries(es, 1, NewTask(name), tagID \o "_" \o name))]

BuildEntries(es, i, task, tagID) ==
  IF i > Len(es) THEN task
  ELSE LET flagged == FlagMultiAction(task, es[i])
           built == IF es[i].kind = "node"
                    THEN Build(es[i].k.n, es[i].kids, flagged, tagID)
                    ELSE flagged
       IN BuildEntries(es, i + 1, built, tagID)

(* normalize: a child named catch / defer becomes the node's OnErrorTask / *)
(* DeferredTask, at every level.                                           *)
RECURSIVE Normalize(_)
Normalize(t) ==
  LET names == {t.tasks[i].name : i \in DOMAIN t.tasks} IN
  [t EXCEPT !.onError = IF "catch" \in names THEN "catch" ELSE @,
            !.deferred = IF "defer" \in names THEN "defer" ELSE @,
            !.tasks = [i \in DOMAIN @ |-> Normalize(@[i])]]

(* AsWorkflow: every pipeline entry is built into an unnamed root task     *)
(* with the workflow's name as tagID; the root's tasks, normalised, are    *)
(* the workflow's, or else the workflow runs the empty root itself.        *)
RECURSIVE BuildPipeline(_, _, _)
BuildPipeline(es, i, root) ==
  IF i > Len(es) THEN root
  ELSE BuildPipeline(es, i + 1, Build(es[i].k.n, es[i].kids, root, WorkflowName))

AsWorkflow(pipeline) ==
  LET root == BuildPipeline(pipeline, 1, NewTask("")) IN
  IF root.tasks # <<>> THEN Normalize(root)
  ELSE [NewTask(WorkflowName) EXCEPT !.tasks = <<root>>]

-----------------------------------------------------------------------------
Init == doc \in Docs
Next == UNCHANGED doc
Spec == Init /\ [][Next]_doc

(* The actions of the compiled tree in the order runTask takes them: a     *)
(* task's subtasks before its own actions (catch and defer included).      *)
RECURSIVE Compiled(_)
Compiled(t) ==
  FlattenSeq([i \in DOMAIN t.tasks |-> Compiled(t.tasks[i])])
    \o [i \in DOMAIN t.actions |-> <<t.actions[i].tagID, t.actions[i].name>>]

(* The reference: the action nodes of the document in document order,     *)
(* classified as section 4.F says (a ":" or plain action or workflow key   *)
(* makes an action node, an "@" key does not), each named by the tagID     *)
(* path of its enclosing nodes and its own key.                            *)
IsActionByKeys(es) ==
  \E i \in DOMAIN es : es[i].k.p # "@" /\ es[i].k.n \in {"action", "workflow"}
RECURSIVE DocActions(_, _)
DocActions(es, tag) ==
  FlattenSeq([i \in DOMAIN es |->
    IF es[i].kind # "node" THEN <<>>
    ELSE IF IsActionByKeys(es[i].kids) THEN <<<<tag, es[i].k.n>>>>
    ELSE DocActions(es[i].kids, tag \o "_" \o es[i].k.n)])

(* Every action node of the document is compiled into exactly one action  *)
(* of the workflow: buildWorkflowNodes never drops a branch that holds an  *)
(* action, however deep, and never compiles one twice.                     *)
ActionsPreserved ==
  LET c == Compiled(AsWorkflow(doc))
      d == DocActions(doc, WorkflowName)
  IN ToSet(c) = ToSet(d) /\ Len(c) = Len(d)

RECURSIVE HasMultiFlag(_)
HasMultiFlag(es) ==
  \E i \in DOMAIN es :
    \/ es[i].kind = "bool" /\ es[i].k.n \in MultiActionKeys /\ es[i].b
    \/ es[i].kind = "node" /\ HasMultiFlag(es[i].kids)

(* Section 8, invariant 3, for nested pipelines: without multi-action     *)
(* groups the engine reaches the actions in document order.                *)
OrderPreserved ==
  ~HasMultiFlag(doc) =>
    Compiled(AsWorkflow(doc)) = DocActions(doc, WorkflowName)

(* The task reached from t by the path of task names ns.                   *)
RECURSIVE TaskAt(_, _)
TaskAt(t, ns) ==
  IF ns = <<>> THEN t
  ELSE TaskAt(t.tasks[CHOOSE i \in DOMAIN t.tasks : t.tasks[i].name = Head(ns)],
              Tail(ns))

(* The groups of the document with a true multiaction flag, as the path of *)
(* names to them, with the names of their action children.                *)
RECURSIVE MultiGroups(_, _)
MultiGroups(es, path) ==
  UNION {IF es[i].kind # "node" \/ IsActionByKeys(es[i].kids) THEN {}
         ELSE LET kids == es[i].kids
                  here == Append(path, es[i].k.n)
              IN (IF HasMultiFlag(SelectSeq(kids, LAMBDA e : e.kind = "bool"))
                  THEN {<<here, {kids[j].k.n : j \in {m \in DOMAIN kids :
                          kids[m].kind = "node" /\ IsActionByKeys(kids[m].kids)}}>>}
                  ELSE {})
                 \cup MultiGroups(kids, here)
         : i \in DOMAIN es}

(* Section 3: a task flagged multiAction keeps all its actions in its own  *)
(* scope; none is wrapped in a synthesized single-action task.             *)
MultiActionSharesScope ==
  \A g \in {x \in MultiGroups(doc, <<>>) : x[2] # {}} :
    g[2] \subseteq {a.name : a \in ToSet(TaskAt(AsWorkflow(doc), g[1]).actions)}

=============================================================================
