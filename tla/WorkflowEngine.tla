--------------------------- MODULE WorkflowEngine ---------------------------
(***************************************************************************)
(* The workflow runtime of src/service/workflow/service.go: runWorkflow,   *)
(* runNode, runTasks, runTask, runAction, the async fan-out of             *)
(* runAsyncActions / runAsyncAction, runOnErrorTask, runDeferredTask and   *)
(* the workflow:goto, workflow:exit, workflow:fail and workflow:switch     *)
(* actions.                                                                *)
(*                                                                         *)
(* Every Go call of the engine is a frame on the stack of the goroutine    *)
(* that makes it.  Main is the goroutine of Service.run; each async action *)
(* of a task runs on a goroutine of its own, named after the action.       *)
(* The workflow tree is a constant: the TasksNode built by the inliner,    *)
(* with OnErrorTask / DeferredTask set by Inlined.normalize.  Criteria     *)
(* (When, Skip, Repeater.Exit), variable assignments (Init, Post) and      *)
(* service calls read state the model abstracts away, so their outcome is  *)
(* a nondeterministic choice among the outcomes the code distinguishes.    *)
(***************************************************************************)
EXTENDS Naturals, Sequences, FiniteSets, SequencesExt

CONSTANTS
  Tasks,       \* task ids
  Acts,        \* action ids
  Roots,       \* workflow ids (Workflow.AbstractNode/TasksNode)
  Root,        \* the workflow Service.run runs
  Children,    \* [Tasks \cup Roots -> Seq(Tasks)]: TasksNode.Tasks
  Actions,     \* [Tasks -> Seq(Acts)]: Task.Actions
  Name,        \* [Tasks -> STRING]: Task.Name
  Fail,        \* [Tasks -> BOOLEAN]: Task.Fail
  Kind,        \* [Acts -> {"service","goto","exit","fail","switch","run",
               \*           "register"}]
  TagID,       \* [Acts -> STRING]: Action.TagID
  Async,       \* [Acts -> BOOLEAN]: Action.Async
  Target,      \* [Acts -> STRING]: GotoRequest.Task of a goto action
  Repeat,      \* [Acts -> Nat \ {0}]: Repeater.Repeat
  SwitchCases, \* [Acts -> SUBSET (STRING \cup Acts)]: what the cases of a
               \* switch run: a task name (Case.Task) or a case action
  SubWorkflow, \* [Acts -> Roots \cup {"missing"}]: RunRequest.Name of a
               \* workflow:run action, or of a workflow:register action
  InitRegistry, \* the workflows registered before Service.run
  HasWhen,     \* nodes with a When criterion
  HasSkip,     \* actions with a Skip criterion
  HasVars,     \* nodes whose Init or Post holds a Required variable
  HasExit,     \* actions whose Repeater has an Exit criterion
  MayFail,     \* service actions whose service call may return an error
  TagIDs,      \* RunRequest.TagIDs as a set; {} when no tag filter is set
  CanRunGates, \* the readings of Process.CanRun: each a set of the Process
               \* flags that make it false
  Main, None

Nodes == Tasks \cup Roots
AsyncActs == {a \in Acts : Async[a]}
Threads == {Main} \cup AsyncActs
Errs == {"nil", "error"}

ASSUME CanRunGates \subseteq SUBSET {"terminated", "scheduled"} /\ Root \in Roots
ASSUME \A a \in AsyncActs : Kind[a] = "service"

VARIABLES
  stk,         \* [Threads -> Seq(Frame)]: the call stack of each goroutine
  events,      \* Seq(Event): what the context listener received, in order
  collected,   \* [AsyncActs -> Seq(Event)]: MakeAsyncSafe collector
  terminated,  \* [Roots -> BOOLEAN]: Terminated of the workflow's Process
  scheduled,   \* [Roots -> Tasks \cup {None}]: its Scheduled
  processes,   \* Seq(Roots): the context's Process stack (Push / Pop)
  registry,    \* SUBSET Roots: the names Service.registry holds
  canRunGate,  \* the reading of Process.CanRun this behaviour runs with
  pending,     \* [Tasks -> SUBSET AsyncActs]: the task's async WaitGroup
  groupErr,    \* [Tasks -> Errs]: groupErr of the last runAsyncActions
  uncaught,    \* ghost: an error raised on Main not yet handed to a catch
  asyncFailed  \* ghost: [Tasks -> BOOLEAN] an async action of the running
               \* invocation of the task returned an error

vars == <<stk, events, collected, terminated, scheduled, processes, registry,
          pending, groupErr, uncaught, asyncFailed, canRunGate>>
procVars == <<terminated, scheduled, processes, registry>>
asyncVars == <<pending, groupErr, asyncFailed>>

-----------------------------------------------------------------------------
(* Events of model.NewTaskStartEvent, NewActivityEndEvent, ...             *)
Ev(type, id) == [type |-> type, id |-> id, status |-> "none"]
EndEv(type, id, err) ==
  [type |-> type, id |-> id, status |-> IF err = "nil" THEN "ok" ELSE "error"]

(* Inlined.normalize: a child named "catch" / "defer" becomes the node's   *)
(* OnErrorTask / DeferredTask.  None stands for the TasksNode that         *)
(* runTasks builds around a scheduled task, which has neither.             *)
OnErrorTask(n) ==
  IF n # None /\ \E c \in ToSet(Children[n]) : Name[c] = "catch"
  THEN "catch" ELSE ""
DeferredTask(n) ==
  IF n # None /\ \E c \in ToSet(Children[n]) : Name[c] = "defer"
  THEN "defer" ELSE ""
TaskNamed(n, nm) == CHOOSE c \in ToSet(Children[n]) : Name[c] = nm

(* Task.AsyncActions, in declaration order.                                *)
AsyncActions(t) == SelectSeq(Actions[t], LAMBDA a : Async[a])
Owner(a) == CHOOSE t \in Tasks : a \in ToSet(Actions[t])

(* Last(context): the Process on top of the context's stack, the one that  *)
(* runTasks, runGoto, exitWorkflow and runSwitch act on.  A goroutine     *)
(* left running after the root's Pop (never, unless the group join is     *)
(* skipped) keeps acting on the root's process.                           *)
Current == IF processes = <<>> THEN Root ELSE Last(processes)

(* Process.CanRun, spec_modelled: the flags named in the reading stop it.  *)
(* Its code is not in the repository, so every reading of CanRunGates is   *)
(* a possible build, chosen once per behaviour.                            *)
CanRun ==
  /\ "terminated" \in canRunGate => ~terminated[Current]
  /\ "scheduled" \in canRunGate => scheduled[Current] = None

(* criteria.Evaluate: the default when the node has no criterion,          *)
(* otherwise any outcome of evaluating it, an evaluator error included.    *)
Evaluate(has, default) == IF has THEN {"true", "false", "error"} ELSE {default}
(* Variables.Apply fails only on an unresolved Required variable.          *)
ApplyOutcomes(n) == IF n \in HasVars THEN Errs ELSE {"nil"}

(* The last index of the run of actions from i on sharing acts[i]'s TagID. *)
EndOfTagGroup(acts, i) ==
  CHOOSE j \in i..Len(acts) :
    /\ \A k \in i..j : TagID[acts[k]] = TagID[acts[i]]
    /\ j < Len(acts) => TagID[acts[j + 1]] # TagID[acts[i]]

(* The process's TagIDs filter of runTask; a nested workflow:run passes    *)
(* no TagIDs.                                                              *)
FilteredOut(a) == Current = Root /\ TagIDs # {} /\ TagID[a] \notin TagIDs

-----------------------------------------------------------------------------
(* Frames.  kind is the Go function; pc the point reached in it.           *)
Frame(kind, id, node, list, pc) ==
  [kind |-> kind, id |-> id, node |-> node, list |-> list, pc |-> pc,
   i |-> 1, err |-> "nil", ret |-> "nil", aerr |-> "nil", rep |-> 1]
WorkflowFrame(w) == Frame("workflow", w, w, <<>>, "start")
TasksFrame(n, list) == Frame("tasks", n, n, list, "loop")
TaskFrame(t) == Frame("task", t, t, <<>>, "when")
ActionFrame(a) == Frame("action", a, None, <<>>, "when")
AsyncFrame(a) == Frame("async", a, None, <<>>, "run")

(* Where runNode's handler starts, and where its caller resumes.           *)
BodyPc == [workflow |-> "body", task |-> "sub", action |-> "call"]
AfterPc == [workflow |-> "end", task |-> "wait", action |-> "repeat"]

Top(th) == Last(stk[th])
SetTop(th, f) == stk' = [stk EXCEPT ![th] = [@ EXCEPT ![Len(@)] = f]]
Call(th, f, callerPc) ==
  stk' = [stk EXCEPT ![th] = Append([@ EXCEPT ![Len(@)].pc = callerPc], f)]
Return(th, e) ==
  stk' = [stk EXCEPT ![th] =
            IF Len(@) = 1 THEN <<>>
            ELSE LET s == Front(@) IN [s EXCEPT ![Len(s)].ret = e]]

(* Context.Publish: Main publishes to the listener, an async goroutine to  *)
(* the collector of its cloned context.                                    *)
Publish(th, es) ==
  IF th = Main
  THEN events' = events \o es /\ UNCHANGED collected
  ELSE collected' = [collected EXCEPT ![th] = @ \o es] /\ UNCHANGED events

(* An error originates on the goroutine th.                                *)
Raise(th) == uncaught' = (uncaught \/ th = Main)

(* runTask's prologue: SetTask and the TaskStartEvent, after the events    *)
(* the caller publishes first.                                             *)
CallTask(th, t, callerPc, before) ==
  /\ Call(th, TaskFrame(t), callerPc)
  /\ Publish(th, before \o <<Ev("TaskStart", t)>>)

-----------------------------------------------------------------------------
(* runNode: CanRun, the When guard, Init, the handler, Post.  The handler  *)
(* is the body of the frame's own function; SleepTimeMs has no effect on   *)
(* what the model observes.                                                *)
runNodeWhen(th) ==
  LET f == Top(th) IN
  /\ f.pc = "when"
  /\ \/ /\ ~CanRun
        /\ SetTop(th, [f EXCEPT !.pc = AfterPc[f.kind], !.err = "nil"])
        /\ UNCHANGED uncaught
     \/ /\ CanRun
        /\ \E o \in Evaluate(f.id \in HasWhen, "true") :
             \/ /\ o = "true"
                /\ SetTop(th, [f EXCEPT !.pc = "init"])
                /\ UNCHANGED uncaught
             \/ /\ o = "false"
                /\ SetTop(th, [f EXCEPT !.pc = AfterPc[f.kind], !.err = "nil"])
                /\ UNCHANGED uncaught
             \/ /\ o = "error"
                /\ SetTop(th, [f EXCEPT !.pc = AfterPc[f.kind], !.err = "error"])
                /\ Raise(th)
  /\ UNCHANGED <<events, collected, procVars, asyncVars>>

runNodeInit(th) ==
  LET f == Top(th) IN
  /\ f.pc = "init"
  /\ \E e \in ApplyOutcomes(f.id) :
       \/ /\ e = "nil"
          /\ SetTop(th, [f EXCEPT !.pc = BodyPc[f.kind]])
          /\ UNCHANGED uncaught
       \/ /\ e = "error"
          /\ SetTop(th, [f EXCEPT !.pc = AfterPc[f.kind], !.err = "error"])
          /\ Raise(th)
  /\ UNCHANGED <<events, collected, procVars, asyncVars>>

runNodePost(th) ==
  LET f == Top(th) IN
  /\ f.pc = "post"
  /\ \E e \in ApplyOutcomes(f.id) :
       /\ SetTop(th, [f EXCEPT !.pc = AfterPc[f.kind], !.err = e])
       /\ IF e = "error" THEN Raise(th) ELSE UNCHANGED uncaught
  /\ UNCHANGED <<events, collected, procVars, asyncVars>>

-----------------------------------------------------------------------------
(* runWorkflow: WorkflowStartEvent and Push; the handler runs the          *)
(* workflow's TasksNode; then the deferred Pop, WorkflowEndEvent and the   *)
(* EndEvent of Service.run.                                                *)
runWorkflowStart(th) ==
  LET f == Top(th) IN
  /\ f.kind = "workflow" /\ f.pc = "start"
  /\ Publish(th, <<Ev("WorkflowStart", f.id)>>)
  /\ processes' = Append(processes, f.id)
  /\ terminated' = [terminated EXCEPT ![f.id] = FALSE]
  /\ scheduled' = [scheduled EXCEPT ![f.id] = None]
  /\ SetTop(th, [f EXCEPT !.pc = "when"])
  /\ UNCHANGED <<registry, asyncVars, uncaught>>

runWorkflowBody(th) ==
  LET f == Top(th) IN
  /\ f.kind = "workflow" /\ f.pc = "body"
  /\ Call(th, TasksFrame(f.id, Children[f.id]), "bodyret")
  /\ UNCHANGED <<events, collected, procVars, asyncVars, uncaught>>

runWorkflowBodyReturn(th) ==
  LET f == Top(th) IN
  /\ f.kind = "workflow" /\ f.pc = "bodyret"
  /\ \/ f.ret = "error" /\ SetTop(th, [f EXCEPT !.pc = "end", !.err = "error"])
     \/ f.ret = "nil" /\ SetTop(th, [f EXCEPT !.pc = "post"])
  /\ UNCHANGED <<events, collected, procVars, asyncVars, uncaught>>

(* Mutant: runWorkflow without its deferred Pop.                         *)
runWorkflowEndNoPop(th) ==
  LET f == Top(th) IN
  /\ f.kind = "workflow" /\ f.pc = "end"
  /\ Publish(th, <<EndEv("WorkflowEnd", f.id, f.err), Ev("End", f.id)>>)
  /\ Return(th, f.err)
  /\ UNCHANGED <<procVars, asyncVars, uncaught>>

runWorkflowEnd(th) ==
  LET f == Top(th) IN
  /\ f.kind = "workflow" /\ f.pc = "end"
  /\ processes' = Front(processes)
  /\ Publish(th, <<EndEv("WorkflowEnd", f.id, f.err), Ev("End", f.id)>>)
  /\ Return(th, f.err)
  /\ UNCHANGED <<terminated, scheduled, registry, asyncVars, uncaught>>

-----------------------------------------------------------------------------
(* runTasks: the loop over the node's tasks, runOnErrorTask on a failed    *)
(* task, the scheduled (goto) task after the loop, and the deferred        *)
(* runDeferredTask whose error only replaces a nil one.                    *)
(* Mutant: the loop without its IsTerminated break.                       *)
runTasksLoopNoExitCheck(th) ==
  LET f == Top(th) IN
  /\ f.kind = "tasks" /\ f.pc = "loop"
  /\ \/ /\ f.i > Len(f.list)
        /\ SetTop(th, [f EXCEPT !.pc = "sched"])
        /\ UNCHANGED <<events, collected>>
     \/ /\ f.i <= Len(f.list)
        /\ Name[f.list[f.i]] \in {OnErrorTask(f.node), DeferredTask(f.node)}
        /\ SetTop(th, [f EXCEPT !.i = @ + 1])
        /\ UNCHANGED <<events, collected>>
     \/ /\ f.i <= Len(f.list)
        /\ Name[f.list[f.i]] \notin {OnErrorTask(f.node), DeferredTask(f.node)}
        /\ CallTask(th, f.list[f.i], "taskret", <<>>)
  /\ UNCHANGED <<procVars, asyncVars, uncaught>>

runTasksLoop(th) ==
  LET f == Top(th)
      t == f.list[f.i]
  IN
  /\ f.kind = "tasks" /\ f.pc = "loop"
  /\ \/ /\ f.i > Len(f.list)
        /\ SetTop(th, [f EXCEPT !.pc = "sched"])
        /\ UNCHANGED <<events, collected>>
     \/ /\ f.i <= Len(f.list)
        /\ Name[t] \in {OnErrorTask(f.node), DeferredTask(f.node)}
        /\ SetTop(th, [f EXCEPT !.i = @ + 1])
        /\ UNCHANGED <<events, collected>>
     \/ /\ f.i <= Len(f.list)
        /\ Name[t] \notin {OnErrorTask(f.node), DeferredTask(f.node)}
        /\ terminated[Current]
        /\ SetTop(th, [f EXCEPT !.pc = "sched"])
        /\ UNCHANGED <<events, collected>>
     \/ /\ f.i <= Len(f.list)
        /\ Name[t] \notin {OnErrorTask(f.node), DeferredTask(f.node)}
        /\ ~terminated[Current]
        /\ CallTask(th, t, "taskret", <<>>)
  /\ UNCHANGED <<procVars, asyncVars, uncaught>>

(* A failed task goes to runOnErrorTask: with a catch task, a ResetError   *)
(* unless catch.Fail, then the catch task, whose error is the result.      *)
runTasksTaskReturn(th) ==
  LET f == Top(th) IN
  /\ f.kind = "tasks" /\ f.pc = "taskret"
  /\ \/ /\ f.ret = "nil"
        /\ SetTop(th, [f EXCEPT !.pc = "loop", !.i = @ + 1])
        /\ UNCHANGED <<events, collected, uncaught>>
     \/ /\ f.ret = "error" /\ OnErrorTask(f.node) = ""
        /\ SetTop(th, [f EXCEPT !.pc = "defer", !.err = "error"])
        /\ UNCHANGED <<events, collected, uncaught>>
     \/ /\ f.ret = "error" /\ OnErrorTask(f.node) # ""
        /\ LET c == TaskNamed(f.node, OnErrorTask(f.node)) IN
             CallTask(th, c, "catchret",
                      IF Fail[c] THEN <<>> ELSE <<Ev("ResetError", f.node)>>)
        /\ uncaught' = (uncaught /\ th # Main)
  /\ UNCHANGED <<procVars, asyncVars>>

runTasksCatchReturn(th) ==
  LET f == Top(th) IN
  /\ f.kind = "tasks" /\ f.pc = "catchret"
  /\ \/ f.ret = "error" /\ SetTop(th, [f EXCEPT !.pc = "defer", !.err = "error"])
     \/ f.ret = "nil" /\ SetTop(th, [f EXCEPT !.pc = "loop", !.i = @ + 1])
  /\ UNCHANGED <<events, collected, procVars, asyncVars, uncaught>>

runTasksScheduled(th) ==
  LET f == Top(th) IN
  /\ f.kind = "tasks" /\ f.pc = "sched"
  /\ \/ /\ scheduled[Current] # None
        /\ scheduled' = [scheduled EXCEPT ![Current] = None]
        /\ Call(th, TasksFrame(None, <<scheduled[Current]>>), "schedret")
     \/ /\ scheduled[Current] = None
        /\ SetTop(th, [f EXCEPT !.pc = "defer"])
        /\ UNCHANGED scheduled
  /\ UNCHANGED <<events, collected, terminated, processes, registry, asyncVars, uncaught>>

(* Mutant: the scheduled task's error is not assigned to err.            *)
runTasksScheduledReturnDropped(th) ==
  LET f == Top(th) IN
  /\ f.kind = "tasks" /\ f.pc = "schedret"
  /\ SetTop(th, [f EXCEPT !.pc = "defer"])
  /\ UNCHANGED <<events, collected, procVars, asyncVars, uncaught>>

runTasksScheduledReturn(th) ==
  LET f == Top(th) IN
  /\ f.kind = "tasks" /\ f.pc = "schedret"
  /\ SetTop(th, [f EXCEPT !.pc = "defer", !.err = f.ret])
  /\ UNCHANGED <<events, collected, procVars, asyncVars, uncaught>>

runDeferredTask(th) ==
  LET f == Top(th) IN
  /\ f.kind = "tasks" /\ f.pc = "defer"
  /\ \/ /\ DeferredTask(f.node) # ""
        /\ CallTask(th, TaskNamed(f.node, DeferredTask(f.node)), "deferret", <<>>)
     \/ /\ DeferredTask(f.node) = ""
        /\ Return(th, f.err)
        /\ UNCHANGED <<events, collected>>
  /\ UNCHANGED <<procVars, asyncVars, uncaught>>

(* Mutant: the deferred task's result replaces the error unconditionally. *)
runTasksDeferredReturnOverride(th) ==
  LET f == Top(th) IN
  /\ f.kind = "tasks" /\ f.pc = "deferret"
  /\ Return(th, f.ret)
  /\ UNCHANGED <<events, collected, procVars, asyncVars, uncaught>>

runTasksDeferredReturn(th) ==
  LET f == Top(th) IN
  /\ f.kind = "tasks" /\ f.pc = "deferret"
  /\ Return(th, IF f.err = "nil" THEN f.ret ELSE f.err)
  /\ UNCHANGED <<events, collected, procVars, asyncVars, uncaught>>

-----------------------------------------------------------------------------
(* runTask's handler: subtasks first (their error, or the lack of actions, *)
(* ends it); then the async actions are forked; then the synchronous       *)
(* actions in order, honouring the TagIDs filter and the Skip criterion,   *)
(* which skips the contiguous actions sharing the TagID.                   *)
runTaskSubtasks(th) ==
  LET f == Top(th) IN
  /\ f.kind = "task" /\ f.pc = "sub"
  /\ \/ /\ Children[f.id] # <<>>
        /\ Call(th, TasksFrame(f.id, Children[f.id]), "subret")
     \/ /\ Children[f.id] = <<>>
        /\ SetTop(th, [f EXCEPT !.pc = "spawn"])
  /\ UNCHANGED <<events, collected, procVars, asyncVars, uncaught>>

runTaskSubtasksReturn(th) ==
  LET f == Top(th) IN
  /\ f.kind = "task" /\ f.pc = "subret"
  /\ \/ f.ret = "error" /\ SetTop(th, [f EXCEPT !.pc = "wait", !.err = "error"])
     \/ f.ret = "nil" /\ Actions[f.id] = <<>> /\ SetTop(th, [f EXCEPT !.pc = "post"])
     \/ f.ret = "nil" /\ Actions[f.id] # <<>> /\ SetTop(th, [f EXCEPT !.pc = "spawn"])
  /\ UNCHANGED <<events, collected, procVars, asyncVars, uncaught>>

(* runAsyncActions: TaskAsyncStartEvent, group.Add, an AsyncEvent and a   *)
(* goroutine per action.  A goroutine of an earlier call of the task that  *)
(* has not yet stored into that call's groupErr is dropped: nothing reads  *)
(* that variable any more.                                                 *)
runAsyncActions(th) ==
  LET f == Top(th)
      as == AsyncActions(f.id)
  IN
  /\ f.kind = "task" /\ f.pc = "spawn"
  /\ \/ /\ as = <<>>
        /\ SetTop(th, [f EXCEPT !.pc = "loop", !.i = 1])
        /\ UNCHANGED <<events, collected, asyncVars>>
     \/ /\ as # <<>>
        /\ Publish(th, <<Ev("TaskAsyncStart", f.id)>>
                       \o [k \in 1..Len(as) |-> Ev("Async", as[k])])
        /\ pending' = [pending EXCEPT ![f.id] = ToSet(as)]
        /\ groupErr' = [groupErr EXCEPT ![f.id] = "nil"]
        /\ asyncFailed' = [asyncFailed EXCEPT ![f.id] = FALSE]
        /\ stk' = [g \in Threads |->
                     IF g \in ToSet(as) THEN <<AsyncFrame(g)>>
                     ELSE IF g = th
                          THEN [stk[th] EXCEPT ![Len(stk[th])].pc = "readerr"]
                          ELSE stk[g]]
  /\ UNCHANGED <<procVars, uncaught>>

(* The racy read of groupErr right after the goroutines are started.       *)
runAsyncActionsReadError(th) ==
  LET f == Top(th) IN
  /\ f.kind = "task" /\ f.pc = "readerr"
  /\ SetTop(th, [f EXCEPT !.aerr = groupErr[f.id], !.pc = "loop", !.i = 1])
  /\ UNCHANGED <<events, collected, procVars, asyncVars, uncaught>>

runTaskActionLoop(th) ==
  LET f == Top(th)
      acts == Actions[f.id]
      a == acts[f.i]
  IN
  /\ f.kind = "task" /\ f.pc = "loop"
  /\ \/ /\ f.i > Len(acts)
        /\ SetTop(th, [f EXCEPT !.pc = "post"])
        /\ UNCHANGED uncaught
     \/ /\ f.i <= Len(acts)
        /\ Async[a] \/ FilteredOut(a)
        /\ SetTop(th, [f EXCEPT !.i = @ + 1])
        /\ UNCHANGED uncaught
     \/ /\ f.i <= Len(acts)
        /\ ~Async[a] /\ ~FilteredOut(a)
        /\ \E o \in Evaluate(a \in HasSkip, "false") :
             \/ /\ o = "error"
                /\ SetTop(th, [f EXCEPT !.pc = "wait", !.err = "error"])
                /\ Raise(th)
             \/ /\ o = "true"
                /\ SetTop(th, [f EXCEPT !.i = EndOfTagGroup(acts, f.i) + 1])
                /\ UNCHANGED uncaught
             \/ /\ o = "false"
                /\ Call(th, ActionFrame(a), "actret")
                /\ UNCHANGED uncaught
  /\ UNCHANGED <<events, collected, procVars, asyncVars>>

runTaskActionReturn(th) ==
  LET f == Top(th) IN
  /\ f.kind = "task" /\ f.pc = "actret"
  /\ \/ f.ret = "error" /\ SetTop(th, [f EXCEPT !.pc = "wait", !.err = "error"])
     \/ f.ret = "nil" /\ SetTop(th, [f EXCEPT !.pc = "loop", !.i = @ + 1])
  /\ UNCHANGED <<events, collected, procVars, asyncVars, uncaught>>

(* After runNode: RunInBackground waits for the group and publishes        *)
(* TaskAsyncDoneEvent whenever the task has async actions; asyncError      *)
(* replaces a nil error.                                                   *)
(* Mutant: TaskAsyncDone published without asyncGroup.Wait().             *)
runTaskWaitAsyncNoJoin(th) ==
  LET f == Top(th) IN
  /\ f.kind = "task" /\ f.pc = "wait"
  /\ \/ /\ AsyncActions(f.id) = <<>>
        /\ SetTop(th, [f EXCEPT !.pc = "end"])
        /\ UNCHANGED <<events, collected>>
     \/ /\ AsyncActions(f.id) # <<>>
        /\ Publish(th, <<Ev("TaskAsyncDone", f.id)>>)
        /\ SetTop(th, [f EXCEPT !.pc = "end",
                         !.err = IF @ = "nil" THEN f.aerr ELSE @])
  /\ UNCHANGED <<procVars, asyncVars, uncaught>>

runTaskWaitAsync(th) ==
  LET f == Top(th) IN
  /\ f.kind = "task" /\ f.pc = "wait"
  /\ \/ /\ AsyncActions(f.id) = <<>>
        /\ SetTop(th, [f EXCEPT !.pc = "end"])
        /\ UNCHANGED <<events, collected>>
     \/ /\ AsyncActions(f.id) # <<>>
        /\ pending[f.id] = {}
        /\ Publish(th, <<Ev("TaskAsyncDone", f.id)>>)
        /\ SetTop(th, [f EXCEPT !.pc = "end",
                         !.err = IF @ = "nil" THEN f.aerr ELSE @])
  /\ UNCHANGED <<procVars, asyncVars, uncaught>>

runTaskEnd(th) ==
  LET f == Top(th) IN
  /\ f.kind = "task" /\ f.pc = "end"
  /\ Publish(th, <<EndEv("TaskEnd", f.id, f.err)>>)
  /\ Return(th, f.err)
  /\ asyncFailed' = [asyncFailed EXCEPT ![f.id] = FALSE]
  /\ UNCHANGED <<procVars, pending, groupErr, uncaught>>

-----------------------------------------------------------------------------
(* runAction's handler: Push the activity, the ActivityStart event, the    *)
(* service call, then the deferred Pop and ActivityEnd event.  The         *)
(* workflow service's own actions act on the Last process: goto looks the  *)
(* task up in its workflow and schedules it, exit terminates the process,  *)
(* fail always errors; any other service may fail.                         *)
WorkflowTask(w, nm) ==
  IF \E c \in ToSet(Children[w]) : Name[c] = nm
  THEN TaskNamed(w, nm) ELSE None

(* Mutant: runGoto looks the task up in the outermost workflow.            *)
GotoTaskInRoot(a) ==
  WorkflowTask(Root, Target[a])

(* runGoto: process.Workflow.Task(request.Task) of the Last process.      *)
GotoTask(a) ==
  WorkflowTask(Current, Target[a])

(* Service.Register: Workflow.Validate fails (the outcome e), or the       *)
(* workflow is put in the registry under its name.  Service.Workflow:      *)
(* the registry lookup of getWorkflow.                                     *)
Register(w, e) == IF e = "nil" THEN registry \cup {w} ELSE registry
Registered(w) == w \in registry

(* The result of a service call, by the route that handles it: any other  *)
(* service returns nil, or an error if it may fail; workflow:register      *)
(* fails when validation does; workflow:fail always errs; workflow:exit    *)
(* never does; workflow:goto errs when the task is not found.              *)
ServiceOutcomes(a) ==
  CASE Kind[a] \in {"service", "register"} -> IF a \in MayFail THEN Errs ELSE {"nil"}
    [] Kind[a] = "fail" -> {"error"}
    [] Kind[a] = "exit" -> {"nil"}
    [] Kind[a] = "goto" -> IF GotoTask(a) # None THEN {"nil"} ELSE {"error"}

(* exitWorkflow: an exit action terminates the Last process of the        *)
(* context; Last is never nil while a workflow runs.                       *)
exitWorkflow(a) == [terminated EXCEPT ![Current] = @ \/ Kind[a] = "exit"]

runActionCall(th) ==
  LET f == Top(th)
      a == f.id
  IN
  /\ f.kind = "action" /\ f.pc = "call" /\ Kind[a] \notin {"switch", "run"}
  /\ Publish(th, <<Ev("ActivityStart", a)>>)
  /\ \E e \in ServiceOutcomes(a) :
       /\ SetTop(th, [f EXCEPT !.pc = "actend", !.err = e])
       /\ IF e = "error" THEN Raise(th) ELSE UNCHANGED uncaught
       /\ registry' = IF Kind[a] = "register" THEN Register(SubWorkflow[a], e)
                                             ELSE registry
  /\ terminated' = exitWorkflow(a)
  /\ scheduled' = IF Kind[a] = "goto" /\ GotoTask(a) # None
                  THEN [scheduled EXCEPT ![Current] = GotoTask(a)] ELSE scheduled
  /\ UNCHANGED <<processes, asyncVars>>

(* runSwitch, the workflow:switch service: the matched case (None when no  *)
(* case matches) names a task, looked up in the workflow of the Last      *)
(* process and run through runTask, or carries an action, run in place    *)
(* through runAction without a Repeater; their error is the switch's.     *)
(* Workflow.Task fails on an unknown task name.                           *)
runSwitch(th) ==
  LET f == Top(th)
      a == f.id
      started == <<Ev("ActivityStart", a)>>
  IN
  /\ f.kind = "action" /\ f.pc = "call" /\ Kind[a] = "switch"
  /\ \E c \in SwitchCases[a] \cup {None} :
       \/ /\ c = None
          /\ SetTop(th, [f EXCEPT !.pc = "actend", !.err = "nil"])
          /\ Publish(th, started)
          /\ UNCHANGED uncaught
       \/ /\ c \notin Acts \cup {None} /\ WorkflowTask(Current, c) = None
          /\ SetTop(th, [f EXCEPT !.pc = "actend", !.err = "error"])
          /\ Publish(th, started)
          /\ Raise(th)
       \/ /\ c \notin Acts \cup {None} /\ WorkflowTask(Current, c) # None
          /\ CallTask(th, WorkflowTask(Current, c), "svcret", started)
          /\ UNCHANGED uncaught
       \/ /\ c \in Acts
          /\ Call(th, ActionFrame(c), "svcret")
          /\ Publish(th, started)
          /\ UNCHANGED uncaught
  /\ UNCHANGED <<procVars, asyncVars>>


(* The workflow:run service: Service.run of the named workflow, on the      *)
(* action's context.  getWorkflow fails, before WorkflowStartEvent, on a   *)
(* workflow not registered; Service.run's deferred EndEvent is still       *)
(* published (its id here is the action's: it names the session).          *)
runSubWorkflow(th) ==
  LET f == Top(th)
      a == f.id
  IN
  /\ f.kind = "action" /\ f.pc = "call" /\ Kind[a] = "run"
  /\ \/ /\ ~Registered(SubWorkflow[a])
        /\ Publish(th, <<Ev("ActivityStart", a), Ev("End", a)>>)
        /\ SetTop(th, [f EXCEPT !.pc = "actend", !.err = "error"])
        /\ Raise(th)
     \/ /\ Registered(SubWorkflow[a])
        /\ Publish(th, <<Ev("ActivityStart", a)>>)
        /\ Call(th, WorkflowFrame(SubWorkflow[a]), "svcret")
        /\ UNCHANGED uncaught
  /\ UNCHANGED <<procVars, asyncVars>>

(* endly.Run returns the nested run's, or the switch's, error.            *)
runServiceReturn(th) ==
  LET f == Top(th) IN
  /\ f.kind = "action" /\ f.pc = "svcret"
  /\ SetTop(th, [f EXCEPT !.pc = "actend", !.err = f.ret])
  /\ UNCHANGED <<events, collected, procVars, asyncVars, uncaught>>

(* Mutant: ActivityEnd published after the handler returns, not deferred, *)
(* so an error return skips it.                                           *)
runActionEndOnSuccess(th) ==
  LET f == Top(th) IN
  /\ f.kind = "action" /\ f.pc = "actend"
  /\ \/ f.err = "error" /\ SetTop(th, [f EXCEPT !.pc = "repeat"]) /\ UNCHANGED <<events, collected>>
     \/ f.err = "nil" /\ SetTop(th, [f EXCEPT !.pc = "post"]) /\ Publish(th, <<Ev("ActivityEnd", f.id)>>)
  /\ UNCHANGED <<procVars, asyncVars, uncaught>>

runActionEnd(th) ==
  LET f == Top(th) IN
  /\ f.kind = "action" /\ f.pc = "actend"
  /\ Publish(th, <<Ev("ActivityEnd", f.id)>>)
  /\ \/ f.err = "error" /\ SetTop(th, [f EXCEPT !.pc = "repeat"])
     \/ f.err = "nil" /\ SetTop(th, [f EXCEPT !.pc = "post"])
  /\ UNCHANGED <<procVars, asyncVars, uncaught>>

(* Repeater.Run, spec_modelled: the handler runs up to Repeat times, an    *)
(* error ends the loop, a true Exit criterion stops it early.              *)
repeaterRun(th) ==
  LET f == Top(th) IN
  /\ f.kind = "action" /\ f.pc = "repeat"
  /\ \/ /\ f.err = "error"
        /\ Return(th, "error")
        /\ UNCHANGED uncaught
     \/ /\ f.err = "nil" /\ f.rep >= Repeat[f.id]
        /\ Return(th, "nil")
        /\ UNCHANGED uncaught
     \/ /\ f.err = "nil" /\ f.rep < Repeat[f.id]
        /\ \E x \in Evaluate(f.id \in HasExit, "false") :
             \/ x = "false" /\ SetTop(th, [f EXCEPT !.pc = "when", !.rep = @ + 1])
                /\ UNCHANGED uncaught
             \/ x = "true" /\ Return(th, "nil") /\ UNCHANGED uncaught
             \/ x = "error" /\ Return(th, "error") /\ Raise(th)
  /\ UNCHANGED <<events, collected, procVars, asyncVars>>

-----------------------------------------------------------------------------
(* runAsyncAction on its goroutine: the action through its Repeater, then  *)
(* the deferred replay of the collected events onto the parent, then the   *)
(* deferred group.Done, and only then the store into groupErr.             *)
runAsyncActionStart(g) ==
  LET f == Top(g) IN
  /\ f.kind = "async" /\ f.pc = "run"
  /\ Call(g, ActionFrame(g), "ret")
  /\ UNCHANGED <<events, collected, procVars, asyncVars, uncaught>>

runAsyncActionReturn(g) ==
  LET f == Top(g) IN
  /\ f.kind = "async" /\ f.pc = "ret"
  /\ asyncFailed' = [asyncFailed EXCEPT ![Owner(g)] = @ \/ f.ret = "error"]
  /\ SetTop(g, [f EXCEPT !.pc = "replay", !.err = f.ret])
  /\ UNCHANGED <<events, collected, procVars, pending, groupErr, uncaught>>

runAsyncActionReplay(g) ==
  LET f == Top(g) IN
  /\ f.kind = "async" /\ f.pc = "replay"
  /\ \/ /\ collected[g] # <<>>
        /\ events' = Append(events, Head(collected[g]))
        /\ collected' = [collected EXCEPT ![g] = Tail(@)]
        /\ UNCHANGED stk
     \/ /\ collected[g] = <<>>
        /\ SetTop(g, [f EXCEPT !.pc = "done"])
        /\ UNCHANGED <<events, collected>>
  /\ UNCHANGED <<procVars, asyncVars, uncaught>>

(* Mutant: group.Done() only on the success path, not deferred.           *)
runAsyncActionDoneOnSuccess(g) ==
  LET f == Top(g) IN
  /\ f.kind = "async" /\ f.pc = "done"
  /\ pending' = IF f.err = "nil"
                THEN [pending EXCEPT ![Owner(g)] = @ \ {g}] ELSE pending
  /\ SetTop(g, [f EXCEPT !.pc = "seterr"])
  /\ UNCHANGED <<events, collected, procVars, groupErr, asyncFailed, uncaught>>

runAsyncActionDone(g) ==
  LET f == Top(g) IN
  /\ f.kind = "async" /\ f.pc = "done"
  /\ pending' = [pending EXCEPT ![Owner(g)] = @ \ {g}]
  /\ SetTop(g, [f EXCEPT !.pc = "seterr"])
  /\ UNCHANGED <<events, collected, procVars, groupErr, asyncFailed, uncaught>>

runAsyncActionSetError(g) ==
  LET f == Top(g) IN
  /\ f.kind = "async" /\ f.pc = "seterr"
  /\ groupErr' = IF f.err = "error"
                 THEN [groupErr EXCEPT ![Owner(g)] = "error"] ELSE groupErr
  /\ Return(g, f.err)
  /\ UNCHANGED <<events, collected, procVars, pending, asyncFailed, uncaught>>

-----------------------------------------------------------------------------
Step(th) ==
  /\ stk[th] # <<>>
  /\ \/ runNodeWhen(th) \/ runNodeInit(th) \/ runNodePost(th)
     \/ runWorkflowStart(th) \/ runWorkflowBody(th)
     \/ runWorkflowBodyReturn(th) \/ runWorkflowEnd(th)
     \/ runTasksLoop(th) \/ runTasksTaskReturn(th) \/ runTasksCatchReturn(th)
     \/ runTasksScheduled(th) \/ runTasksScheduledReturn(th)
     \/ runDeferredTask(th) \/ runTasksDeferredReturn(th)
     \/ runTaskSubtasks(th) \/ runTaskSubtasksReturn(th)
     \/ runAsyncActions(th) \/ runAsyncActionsReadError(th)
     \/ runTaskActionLoop(th) \/ runTaskActionReturn(th)
     \/ runTaskWaitAsync(th) \/ runTaskEnd(th)
     \/ runActionCall(th) \/ runSwitch(th) \/ runSubWorkflow(th)
     \/ runServiceReturn(th)
     \/ runActionEnd(th) \/ repeaterRun(th)
     \/ runAsyncActionStart(th) \/ runAsyncActionReturn(th)
     \/ runAsyncActionReplay(th) \/ runAsyncActionDone(th)
     \/ runAsyncActionSetError(th)
  /\ UNCHANGED canRunGate

Init ==
  /\ stk = [th \in Threads |-> IF th = Main THEN <<WorkflowFrame(Root)>> ELSE <<>>]
  /\ events = <<>>
  /\ collected = [g \in AsyncActs |-> <<>>]
  /\ terminated = [w \in Roots |-> FALSE]
  /\ scheduled = [w \in Roots |-> None]
  /\ processes = <<>>
  /\ registry = InitRegistry
  /\ pending = [t \in Tasks |-> {}]
  /\ groupErr = [t \in Tasks |-> "nil"]
  /\ uncaught = FALSE
  /\ asyncFailed = [t \in Tasks |-> FALSE]
  /\ canRunGate \in CanRunGates

(* Service.run has returned and every goroutine it started has exited.     *)
Finished == \A th \in Threads : stk[th] = <<>>

Next ==
  \/ \E th \in Threads : Step(th)
  \/ Finished /\ UNCHANGED vars

(* The Go scheduler runs every runnable goroutine eventually, and service  *)
(* calls return: each goroutine is weakly fair.                            *)
Spec == Init /\ [][Next]_vars /\ \A th \in Threads : WF_vars(Step(th))

-----------------------------------------------------------------------------
(***************************************************************************)
(* Properties.                                                             *)
(***************************************************************************)
Kinds == {"workflow", "tasks", "task", "action", "async"}
Pcs == {"start", "when", "init", "body", "bodyret", "post", "end", "loop",
        "taskret", "catchret", "sched", "schedret", "defer", "deferret",
        "sub", "subret", "spawn", "readerr", "actret", "wait", "call",
        "actend", "svcret", "repeat", "run", "ret", "replay", "done", "seterr"}
Frames == [kind : Kinds, id : Nodes \cup Acts \cup {None},
           node : Nodes \cup {None}, list : Seq(Tasks), pc : Pcs, i : Nat,
           err : Errs, ret : Errs, aerr : Errs, rep : Nat]
Events == [type : STRING, id : Nodes \cup Acts, status : {"none", "ok", "error"}]

TypeOK ==
  /\ stk \in [Threads -> Seq(Frames)]
  /\ events \in Seq(Events)
  /\ collected \in [AsyncActs -> Seq(Events)]
  /\ terminated \in [Roots -> BOOLEAN]
  /\ scheduled \in [Roots -> Tasks \cup {None}]
  /\ processes \in Seq(Roots) /\ Len(processes) <= Cardinality(Roots)
  /\ registry \subseteq Roots
  /\ canRunGate \in CanRunGates
  /\ pending \in [Tasks -> SUBSET AsyncActs]
  /\ groupErr \in [Tasks -> Errs]
  /\ uncaught \in BOOLEAN
  /\ asyncFailed \in [Tasks -> BOOLEAN]

(* The events a step appends to the listener's stream.                     *)
NewEvents == {events'[k] : k \in Len(events) + 1 .. Len(events')}

(* S3 / §5: every ActivityStart and ActivityEnd of an async action reaches *)
(* the listener after its task's TaskAsyncStartEvent and before that       *)
(* task's TaskAsyncDoneEvent and TaskEndEvent: runAsyncAction replays its  *)
(* collector before group.Done, and runTask waits on the group.            *)
AsyncEventsWithinTask ==
  \A k \in 1..Len(events) :
    events[k].type \in {"ActivityStart", "ActivityEnd"} /\ events[k].id \in AsyncActs =>
      LET t == Owner(events[k].id)
          j == SelectLastInSubSeq(events, 1, k - 1,
                                  LAMBDA e : e = Ev("TaskAsyncStart", t))
      IN /\ j > 0
         /\ \A m \in j + 1 .. k - 1 :
              events[m].id = t => events[m].type \notin {"TaskAsyncDone", "TaskEnd"}

(* The start and end events Main publishes for workflows, tasks and       *)
(* actions; an async action's own, replayed from its collector, run in     *)
(* parallel and are left out.                                              *)
Opens == {"WorkflowStart", "TaskStart", "ActivityStart"}
Closes == [WorkflowEnd |-> "WorkflowStart", TaskEnd |-> "TaskStart",
           ActivityEnd |-> "ActivityStart"]
Paired(e) == e.type \in Opens \cup DOMAIN Closes /\ e.id \notin AsyncActs
Unpaired == <<[type |-> "unpaired", id |-> Root, status |-> "none"]>>

(* The start events left open by the first k events of s, innermost     *)
(* last; Unpaired once an end event closes anything but the innermost.    *)
RECURSIVE OpenAfter(_, _)
OpenAfter(s, k) ==
  IF k = 0 THEN <<>>
  ELSE LET open == OpenAfter(s, k - 1)
           e == s[k]
       IN CASE open = Unpaired -> Unpaired
            [] e.type \in Opens -> Append(open, e)
            [] open # <<>> /\ Last(open).type = Closes[e.type] /\ Last(open).id = e.id
                 -> Front(open)
            [] OTHER -> Unpaired

(* §3 and §8 invariant 2: every WorkflowStart, TaskStart and ActivityStart *)
(* is closed by exactly one end event of the same node, innermost first,   *)
(* and none is left open when the run is over: runWorkflow, runTask and    *)
(* runAction publish their end on every path (When false, Init/Post or    *)
(* service errors, catch, defer, goto, exit, switch and nested runs).     *)
EventsPaired ==
  LET paired == SelectSeq(events, Paired)
      open == OpenAfter(paired, Len(paired))
  IN open # Unpaired /\ (Finished => open = <<>>)

(* §7: a run whose WorkflowEndEvent says ok raised no error on its         *)
(* synchronous path (an action, a criterion, a variable) that was not      *)
(* handed to a catch task by runOnErrorTask: runNode, runTask, runTasks    *)
(* and the deferred-task merge never drop an error.                        *)
ErrorsNotLost ==
  \A k \in 1..Len(events) :
    events[k] = EndEv("WorkflowEnd", Root, "nil") => ~uncaught

(* §4.H: once workflow:exit has terminated the process, no task starts     *)
(* other than a catch or a deferred task: runTasks checks IsTerminated     *)
(* before every task, including the scheduled one.                         *)
ExitStartsNoTask ==
  [][processes # <<>> /\ terminated[Current] =>
       \A e \in NewEvents :
         e.type = "TaskStart" => Name[e.id] \in {"catch", "defer"}]_vars

(* The refinement mapping onto ProcessLifecycle.  A workflow not on the   *)
(* process stack is idle, or has ended as its last WorkflowEnd says.  On   *)
(* the stack it is finishing once the runTasks of its own TasksNode has    *)
(* reached the deferred task or returned (or runNode skipped the body),    *)
(* terminated once exit set its flag, recovering while that runTasks      *)
(* waits on its catch task, and running otherwise: while runNode's When   *)
(* and Init run, and through the task loop and the scheduled task.        *)
LifecycleStatus(w) ==
  LET st == stk[Main]
      wf == {k \in DOMAIN st : st[k].kind = "workflow" /\ st[k].id = w}
      tf == {k \in DOMAIN st : st[k].kind = "tasks" /\ st[k].node = w}
      ends == SelectSeq(events, LAMBDA e : e.type = "WorkflowEnd" /\ e.id = w)
  IN CASE w \notin ToSet(processes) /\ ends = <<>> -> "idle"
       [] w \notin ToSet(processes) -> IF Last(ends).status = "ok" THEN "ok" ELSE "failed"
       [] \/ \E k \in wf : st[k].pc \in {"post", "end"}
          \/ (\E k \in wf : st[k].pc = "bodyret") /\ tf = {}
          \/ \E k \in tf : st[k].pc \in {"defer", "deferret"} -> "finishing"
       [] terminated[w] -> "terminated"
       [] \E k \in tf : st[k].pc = "catchret" -> "recovering"
       [] OTHER -> "running"

Lifecycle == INSTANCE ProcessLifecycle
               WITH Workflows <- Roots,
                    status <- [w \in Roots |-> LifecycleStatus(w)]

(* §3 and §4.H: every workflow run, the root's and each nested            *)
(* workflow:run, follows the Process state machine: Push, its tasks, the   *)
(* catch, exit, the deferred task, then exactly one Pop with its result;   *)
(* a terminated or finishing process never runs its task loop again, and   *)
(* every run that starts ends.  runWorkflow, runTasks, runOnErrorTask and  *)
(* runDeferredTask implement ProcessLifecycle.                              *)
LifecycleRefined == Lifecycle!Spec

(* The safety part of the same refinement: no run of runWorkflow, with     *)
(* exit, goto, catch and nested workflow:run, makes a step the Process     *)
(* state machine forbids (a finished or terminated process back in its     *)
(* task loop, a second Pop, a Pop without the deferred task).              *)
LifecycleSafe == Lifecycle!Safety

(* The tasks of a workflow or task: its TasksNode, transitively.           *)
RECURSIVE Descendants(_)
Descendants(n) == UNION {{c} \cup Descendants(c) : c \in ToSet(Children[n])}

(* §4.H: a task only ever starts inside the workflow whose Process is on   *)
(* top of the context: runTasks, the goto lookup of runGoto and runSwitch  *)
(* all take their tasks from the Last process's workflow, and a nested     *)
(* workflow:run pushes a Process of its own and pops it when it ends.      *)
TasksStayInWorkflow ==
  [][\A e \in NewEvents :
       e.type = "TaskStart" => e.id \in Descendants(Current)]_vars

(* Service.run returns, and every async goroutine it started exits: no     *)
(* goroutine waits forever on a WaitGroup.                                 *)
RunTerminates == <>Finished

(* S3: TaskAsyncDoneEvent brackets the fan-out that a TaskAsyncStartEvent *)
(* opened: each one closes a TaskAsyncStart of the same task.              *)
AsyncDoneFollowsStart ==
  \A k \in 1..Len(events) :
    events[k].type = "TaskAsyncDone" =>
      LET t == events[k].id
          Count(type) == Cardinality({m \in 1..k - 1 : events[m] = Ev(type, t)})
      IN Count("TaskAsyncStart") > Count("TaskAsyncDone")

(* §4.H: an async sibling's error, when the synchronous part succeeded,    *)
(* surfaces after the join as the task's error.                            *)
AsyncErrorSurfaces ==
  [][\A t \in Tasks :
       EndEv("TaskEnd", t, "nil") \in NewEvents => ~asyncFailed[t]]_vars

(* S5: after goto the target task runs once, afterwards; no task of a run  *)
(* without loops starts twice.                                             *)
GotoTargetRunsOnce ==
  \A t \in Tasks : Cardinality({k \in 1..Len(events) : events[k] = Ev("TaskStart", t)}) <= 1

=============================================================================
