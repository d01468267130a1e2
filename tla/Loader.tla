------------------------------- MODULE Loader -------------------------------
(***************************************************************************)
(* The project loader of src/model/project/loader/service.go: Load turns   *)
(* a workflow document into a bundle by walking its task tree             *)
(* (transferWorkflow, transferTasks, newTask), expanding template tasks    *)
(* over their instance directories (transferTempleExpandable,              *)
(* loadTemplate, loadTemplateInstance, each a nested Load) and loading    *)
(* the workflow:run dependencies (transferDependencies, again a nested    *)
(* Load).  The recursion is one goroutine's call stack, stk, of frames;   *)
(* each Load frame holds its own Session.                                  *)
(*                                                                         *)
(* Documents, nodes and instances are model values: a node is a task with *)
(* child nodes (possibly a template with a SubPath) or an action, whose    *)
(* "@uri" input to workflow:run is RunURI.  Which documents fail to load   *)
(* (graph.LoadWorkflow's error) is chosen in Init from MayBreak.  Assets,  *)
(* Init/Post variables and the request encoding are left out: no step's  *)
(* control depends on them except through errors of the same kind.        *)
(***************************************************************************)
EXTENDS Integers, Sequences, FiniteSets

CONSTANTS
  Docs,             \* workflow documents named by their URI
  Insts,            \* template instance directories, "default" included
  Nodes,            \* task and action nodes of all documents
  Root,             \* the document Load is called with
  Body,             \* Body[d]: the task nodes of d's workflow node
  Children,         \* Children[n]: the child nodes of task node n
  Type,             \* Type[n] \in {"task", "action"}
  HasTemplate,      \* task nodes whose value is a template
  SubPath,          \* template tasks with a non-empty SubPath
  MissingSubPath,   \* template tasks whose SubPath directory is missing
  RunURI,           \* RunURI[n]: the "@uri" of a workflow:run action, or ""
  IsTemplate,       \* actions flagged IsTemplate
  Instances,        \* Instances[n]: the instances listed under n's SubPath
  HasDefault,       \* the base URL has a "default" instance directory
  Files,            \* <<i, d>>: instance i holds d.yaml
  MayBreak,         \* URLs whose LoadWorkflow may fail
  WithDependencies, \* options.WithDependencies
  MaxLoads          \* nested Load calls before the goroutine stack is exhausted

(* A URL is a directory and a document: <<"base", d>> is d.yaml under    *)
(* the base URL, <<i, d>> the copy in instance directory i.               *)
URLs == ({"base"} \X Docs) \cup Files

ASSUME /\ Root \in Docs /\ MayBreak \subseteq URLs /\ MaxLoads \in Nat \ {0}
       /\ WithDependencies \in BOOLEAN /\ HasDefault \in BOOLEAN

VARIABLES stk, broken, result

vars == <<stk, broken, result>>

DocOf(u) == u[2]

Parents == Nodes \cup {""}

(* newSession: nothing collected yet; the Session is part of the frame.    *)
LoadFrame(u) ==
  [kind |-> "load", url |-> u, pc |-> "start", ret |-> "nil",
   templates |-> <<>>, subWorkflows |-> <<>>, dep |-> 1,
   taskIndex |-> [p \in Parents |-> 0], tasks |-> <<>>,
   subBundles |-> <<>>, tplBundles |-> <<>>]

TasksFrame(list, parent) ==
  [kind |-> "tasks", list |-> list, parent |-> parent, i |-> 1,
   pc |-> "loop", ret |-> "nil"]

(* loadTemplate: the "default" instance first, then the listed ones.       *)
ExpandFrame(n) ==
  [kind |-> "expand", task |-> n, j |-> 1, k |-> 1, pc |-> "loop", ret |-> "nil",
   insts |-> (IF HasDefault THEN <<"default">> ELSE <<>>) \o Instances[n]]

Top == stk[Len(stk)]

(* The innermost Load frame: the Session the running code writes to.       *)
LoadAt == CHOOSE k \in DOMAIN stk :
            stk[k].kind = "load" /\ \A j \in k + 1 .. Len(stk) : stk[j].kind # "load"

LoadCalls == Cardinality({k \in DOMAIN stk : stk[k].kind = "load"})

SetTop(f) == stk' = [stk EXCEPT ![Len(stk)] = f] /\ UNCHANGED result

Call(f, retpc) ==
  /\ stk' = Append([stk EXCEPT ![Len(stk)].pc = retpc], f)
  /\ UNCHANGED result

(* A return hands v to the caller; the outermost one ends Load.            *)
Return(v) ==
  IF Len(stk) = 1
  THEN stk' = <<>> /\ result' = IF v = "nil" THEN "bundle" ELSE "error"
  ELSE /\ stk' = [SubSeq(stk, 1, Len(stk) - 1) EXCEPT ![Len(stk) - 1].ret = v]
       /\ UNCHANGED result

(* s.Load from inside a Load; one Load too many exhausts the stack, a     *)
(* fatal error of the Go runtime.                                         *)
CallLoad(u, retpc) ==
  \/ LoadCalls < MaxLoads /\ Call(LoadFrame(u), retpc)
  \/ LoadCalls = MaxLoads /\ stk' = <<>> /\ result' = "overflow"

(* newTask: Position is the count of the parent's tasks so far.           *)
NewTask(s, n, parent) ==
  [s EXCEPT !.tasks = Append(@, [node |-> n, parent |-> parent,
                                 position |-> s.taskIndex[parent]]),
            !.taskIndex[parent] = @ + 1]

(* A workflow:run action with an "@uri" input is a template to expand or  *)
(* a dependency to load.                                                   *)
ScheduleRun(s, n) ==
  CASE RunURI[n] = "" -> s
    [] n \in IsTemplate -> [s EXCEPT !.templates = Append(@, RunURI[n])]
    [] OTHER -> [s EXCEPT !.subWorkflows = Append(@, RunURI[n])]

Init ==
  /\ stk = <<LoadFrame(<<"base", Root>>)>>
  /\ broken \in SUBSET MayBreak
  /\ result = "none"

-----------------------------------------------------------------------------
(* Load: graph.LoadWorkflow, whose error is returned; then                *)
(* transferWorkflow, which walks the workflow node's tasks.               *)
LoadWorkflow ==
  LET f == Top IN
  /\ f.kind = "load" /\ f.pc = "start"
  /\ \/ f.url \in broken /\ Return("error")
     \/ f.url \notin broken /\ Call(TasksFrame(Body[DocOf(f.url)], ""), "tasksret")

(* transferWorkflow's error ends Load; with WithDependencies the          *)
(* dependencies are loaded next.                                           *)
LoadTransferred ==
  LET f == Top IN
  /\ f.kind = "load" /\ f.pc = "tasksret"
  /\ \/ f.ret = "error" /\ Return("error")
     \/ f.ret = "nil" /\ SetTop([f EXCEPT !.pc = IF WithDependencies THEN "deps" ELSE "done"])

(* transferDependencies: a nested Load per scheduled sub-workflow, in the *)
(* order they were met; no set of URIs already loaded is kept.            *)
transferDependencies ==
  LET f == Top IN
  /\ f.kind = "load" /\ f.pc = "deps"
  /\ \/ f.dep > Len(f.subWorkflows) /\ SetTop([f EXCEPT !.pc = "done"])
     \/ f.dep <= Len(f.subWorkflows) /\ CallLoad(<<"base", f.subWorkflows[f.dep]>>, "depret")

transferDependenciesReturn ==
  LET f == Top IN
  /\ f.kind = "load" /\ f.pc = "depret"
  /\ \/ f.ret = "error" /\ Return("error")
     \/ /\ f.ret = "nil"
        /\ SetTop([f EXCEPT !.pc = "deps", !.dep = @ + 1,
                            !.subBundles = Append(@, f.subWorkflows[f.dep])])

(* The assets and the parent links, then the bundle is returned.           *)
LoadEnd ==
  LET f == Top IN
  /\ f.kind = "load" /\ f.pc = "done"
  /\ Return("nil")

-----------------------------------------------------------------------------
(* transferTasks' callback for one node: newTask, then a task node's      *)
(* children (its template's, for a template), or an action's workflow:run *)
(* scheduling.                                                             *)
transferTasks ==
  LET f == Top
      L == LoadAt
  IN
  /\ f.kind = "tasks" /\ f.pc = "loop"
  /\ \/ f.i > Len(f.list) /\ Return("nil")
     \/ /\ f.i <= Len(f.list) /\ Type[f.list[f.i]] = "task"
        /\ LET n == f.list[f.i] IN
             /\ stk' = Append([stk EXCEPT ![L] = NewTask(@, n, f.parent),
                                          ![Len(stk)].pc = IF n \in HasTemplate
                                                           THEN "tplret" ELSE "childret"],
                              TasksFrame(Children[n], n))
             /\ UNCHANGED result
     \/ /\ f.i <= Len(f.list) /\ Type[f.list[f.i]] = "action"
        /\ stk' = [stk EXCEPT ![L] = ScheduleRun(NewTask(@, f.list[f.i], f.parent), f.list[f.i]),
                              ![Len(stk)].i = @ + 1]
        /\ UNCHANGED result

transferTasksReturn ==
  LET f == Top IN
  /\ f.kind = "tasks" /\ f.pc \in {"childret", "expret"}
  /\ \/ f.ret = "error" /\ Return("error")
     \/ f.ret = "nil" /\ SetTop([f EXCEPT !.pc = "loop", !.i = @ + 1])

(* transferTempleExpandable after the template's tasks: nothing without a *)
(* SubPath, an error when its directory is missing, else loadTemplate.    *)
transferTempleExpandable ==
  LET f == Top
      n == f.list[f.i]
  IN
  /\ f.kind = "tasks" /\ f.pc = "tplret"
  /\ \/ f.ret = "error" /\ Return("error")
     \/ f.ret = "nil" /\ n \notin SubPath /\ SetTop([f EXCEPT !.pc = "loop", !.i = @ + 1])
     \/ f.ret = "nil" /\ n \in MissingSubPath /\ Return("error")
     \/ f.ret = "nil" /\ n \in SubPath \ MissingSubPath /\ Call(ExpandFrame(n), "expret")

(* loadTemplate / loadTemplateInstance: for each instance j, each name k  *)
(* of session.templates as it is now, a nested Load of the instance's     *)
(* name.yaml when it exists.                                               *)
loadTemplateInstance ==
  LET f == Top
      names == stk[LoadAt].templates
  IN
  /\ f.kind = "expand" /\ f.pc = "loop"
  /\ \/ f.j > Len(f.insts) /\ Return("nil")
     \/ /\ f.j <= Len(f.insts) /\ f.k > Len(names)
        /\ SetTop([f EXCEPT !.j = @ + 1, !.k = 1])
     \/ /\ f.j <= Len(f.insts) /\ f.k <= Len(names)
        /\ <<f.insts[f.j], names[f.k]>> \notin Files
        /\ SetTop([f EXCEPT !.k = @ + 1])
     \/ /\ f.j <= Len(f.insts) /\ f.k <= Len(names)
        /\ <<f.insts[f.j], names[f.k]>> \in Files
        /\ CallLoad(<<f.insts[f.j], names[f.k]>>, "instret")

(* After the nested Load: bundle.Workflow.Template is set before err is   *)
(* checked, so a failed load dereferences the nil bundle and panics.      *)
loadTemplateInstanceReturn ==
  LET f == Top
      L == LoadAt
  IN
  /\ f.kind = "expand" /\ f.pc = "instret"
  /\ \/ f.ret = "error" /\ stk' = <<>> /\ result' = "panic"
     \/ /\ f.ret = "nil"
        /\ stk' = [stk EXCEPT
                     ![L].tplBundles = Append(@, <<f.task, <<f.insts[f.j], stk[L].templates[f.k]>>>>),
                     ![Len(stk)].pc = "loop", ![Len(stk)].k = @ + 1]
        /\ UNCHANGED result

(* One step of the running Load; when the outermost one has returned the *)
(* loader has nothing left to do.                                          *)
Next ==
  /\ stk # <<>>
  /\ UNCHANGED broken
  /\ \/ LoadWorkflow \/ LoadTransferred \/ transferDependencies
     \/ transferDependenciesReturn \/ LoadEnd \/ transferTasks
     \/ transferTasksReturn \/ transferTempleExpandable
     \/ loadTemplateInstance \/ loadTemplateInstanceReturn

Spec == Init /\ [][Next]_vars

-----------------------------------------------------------------------------
TypeOK ==
  /\ \A k \in DOMAIN stk : stk[k].kind \in {"load", "tasks", "expand"}
  /\ broken \subseteq MayBreak
  /\ result \in {"none", "bundle", "error", "panic", "overflow"}

(* §7: a document that fails to load is an error Load returns (ErrCompile) *)
(* and the engine never exits the hosting process on its own; here Load   *)
(* returns a bundle or an error and never panics in loadTemplateInstance  *)
(* or recurses until the stack is exhausted.                               *)
LoadReturns == result \notin {"panic", "overflow"}

====
