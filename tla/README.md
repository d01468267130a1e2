# TLA+ models of endly's workflow runtime

This directory holds TLA+ specifications of the concurrent and protocol-heavy
parts of endly (the Go sources under `src/`), the TLC configurations that
check them, and `PROJECT.json`. That file records:

- which definition models which source lines ("map");
- the runs and what each one checks;
- the mutants that show each property can fail;
- the findings;
- the hazards of the code.

## 1. The system and its parts

| Part | Source | What it does | Model |
|------|--------|--------------|-------|
| Workflow engine | `src/service/workflow/service.go` | Runs a compiled workflow (details below) | `WorkflowEngine` |
| Inliner | `src/model/inlined.go` | Compiles a pipeline document into the `Workflow` tree the engine runs: tasks, actions, TagIDs, the catch and defer names (`normalize`) | `Inliner` |
| Registry and routes | `src/service/workflow/service.go` | `Register` / `Workflow`, and the workflow service's routes (run, register, switch, goto, exit, fail, nop) | `WorkflowEngine` |
| Variables | `src/model/variables.go` | `Variables.Apply` for the Init and Post of every node | outcome only |
| Pub/Sub test client | `src/service/testing/msg/gcp.go` | `PullN`: a `Receive` loop whose callback counts messages and cancels at `max`, racing a timeout goroutine on the same counter | `PubSubPull` |
| Project loader | `src/model/project/loader/service.go` | `Load`: walks a workflow document's tasks into a bundle, expands template tasks over their instance directories and loads workflow:run dependencies, each by a nested `Load` | `Loader` |
| Process lifecycle (abstract) | spec §3, §4.H | What a workflow run promises: start, tasks, catch, exit, finishing, one end | `ProcessLifecycle` |
| UDFs, adapter generator, SDK setters, build contract, EC2 client, Kubernetes routes, elogger | various | I/O, data conversion and code generation | not modelled (PROJECT.json says why) |

The workflow engine's call chain is:

- `Service.run` calls `runWorkflow`.
- `runWorkflow` calls `runNode`, then `runTasks`.
- `runTasks` calls `runTask` for each task. Around the loop it handles `runOnErrorTask`, the scheduled (goto) task and `runDeferredTask`.
- `runTask` handles its subtasks, forks the async actions (`runAsyncActions` / `runAsyncAction`), then runs the synchronous actions through `runNode` and `runAction`.
- `runAction` calls the services. The workflow service's own actions are `exitWorkflow` (workflow:exit), `runGoto` (workflow:goto), workflow:fail, `registerWorkflow` (workflow:register), `runSwitch` (workflow:switch) and `run` (workflow:run).
- `runSwitch` runs the matched case: a task, looked up by name in the workflow of the process on top of the stack (an unknown name is an error), through `runTask`, or an action through `runAction`.
- A nested workflow:run calls `runWorkflow` again on the same context. It looks the workflow up in the registry, then pushes a new `Process` and pops it when it ends.

The engine's interactions:

- Every boundary publishes an event to the context's listener.
- An async action runs on its own goroutine and publishes into a collector (`MakeAsyncSafe`). A deferred loop replays the collector onto the parent context, before the deferred `group.Done()` runs.
- `runTask` joins the group (`RunInBackground` + `Wait`) and then publishes `TaskAsyncDoneEvent`.
- The exit and goto actions act on the `Process` on top of the context's stack (`Last`):
  - `Terminated` is read by `runTasks` before each task.
  - `Scheduled` is run by `runTasks` after its loop.

## 2. Modules

### WorkflowEngine.tla

**Tree and inputs.** The compiled workflow tree is a set of constants:

- `Children` and `Actions` give the node's tasks and the task's actions, in order.
- `Name`, `Fail`, `Kind`, `TagID`, `Async`, `Target` and `Repeat` describe the nodes and actions.
- Which nodes carry a When or Skip criterion, a Required variable or a Repeater Exit is a set (`HasWhen`, `HasSkip`, `HasVars`, `HasExit`). Evaluating one is a nondeterministic choice among the outcomes the code tells apart: true, false, or an evaluation error.
- A service call returns nil, or an error for the services in `MayFail`.

**Goroutines.** Each goroutine has a call stack `stk[th]` of frame records: `Main`, plus one goroutine per async action. A frame holds:

- the Go function (`kind`) and the point reached in it (`pc`);
- the loop index `i`;
- the error being returned (`err`), the callee's result (`ret`);
- the `asyncError` copy (`aerr`) and the repeat count (`rep`).

**Actions.** Each action takes one step of one function, named after it:

- `runNodeWhen`, `runNodeInit`, `runNodePost`;
- `runWorkflowStart` … `runWorkflowEnd`;
- `runTasksLoop`, `runTasksTaskReturn` (`runOnErrorTask`), `runTasksScheduled`, `runDeferredTask`, `runTasksDeferredReturn`;
- `runTaskSubtasks`, `runAsyncActions`, `runAsyncActionsReadError`, `runTaskActionLoop`, `runTaskWaitAsync`, `runTaskEnd`;
- `runActionCall` / `runActionEnd` (the exit and goto routes through the helpers `exitWorkflow` and `GotoTask`);
- `runSwitch`, `runSubWorkflow` (workflow:run) and `runServiceReturn`;
- `runAsyncActionStart` … `runAsyncActionSetError`.

A step is cut where another goroutine can observe something in between: a publication, the WaitGroup, `groupErr` or the `Process` flags.

**Shared state.**

- `events` is the listener's stream.
- `collected[g]` is the collector of goroutine `g`.
- `terminated[w]` and `scheduled[w]` are the flags of workflow `w`'s `Process`.
- `processes` is the context's process stack (`Push` / `Pop`); `Current` is its top.
- `registry` is the set of registered workflow names.
- `pending[t]` is the WaitGroup; `groupErr[t]` is the shared error variable.

**Ghosts.** Two variables exist only for the properties:

- `uncaught`: an error was raised on Main and not yet handed to a catch.
- `asyncFailed`: an async action of the running task failed.

**Taken from the spec.** Three pieces of code are not under `src/`, so they follow the spec:

- `Repeater.Run` (`repeaterRun`): up to `Repeat` iterations. An error ends the loop and a true Exit criterion stops it.
- `Process.CanRun` (`CanRun`): the variable `canRunGate`, fixed in `Init` from the constant `CanRunGates`, says which flags stop a node. The spec's reading is `{}` (§3); the upstream reading is `{"terminated", "scheduled"}`. `engine_control` checks both builds in one run.
- `Last(context)` (`Current`): the top of the process stack.

`MCWorkflowEngine.tla` holds three workflows:

- **Ctl…** (control flow): a task with subtasks and its own `catch` (`fail: true`); an exit; a skip group sharing a TagID; an action outside `TagIDs`; a goto backwards and a goto to a missing task; a switch whose cases are a task, an action and an unknown task; a fail; a repeater with an Exit criterion; root `catch` and `defer`. The catch registers a second workflow `sub`, and the defer runs it with workflow:run. So `sub` is found only when the catch ran. `sub` has a goto to a task of the outer workflow only, and an exit; its second task holds a goto to its own first task followed by an exit, so a goto is scheduled just before the process is terminated.
- **Asy…**: a task with subtasks, two async actions and a synchronous one, and a root `catch`.
- **Goto…**: scenario S5 of the spec.

**Event pairing.** `EventsPaired` drops async activity events from `events`, then folds the rest with the recursive operator `OpenAfter`, a stack of open WorkflowStart, TaskStart and ActivityStart events. Each end event must close the innermost open start of its own kind and id. The stack must never go wrong, and must be empty once the run has finished.

**Refinement.** `LifecycleStatus(w)` reads, from the process stack, `Main`'s frames, `terminated` and the last `WorkflowEnd` event, where workflow `w`'s run is: idle; running (When, Init, the task loop, the scheduled goto task); recovering (the `runTasks` of its own TasksNode waits on its catch task); terminated (exit set its flag); finishing (that `runTasks` reached its deferred task or returned, or `runNode` skipped the body, then Post and WorkflowEnd); or ended ok or failed. `Lifecycle` is `ProcessLifecycle` instantiated with that mapping. `LifecycleRefined` is its whole specification, fairness included; `LifecycleSafe` its safety part.

### ProcessLifecycle.tla

The abstract state machine of one `Process` per workflow (`status[w]`), with edges `Start`, `Recover`, `Resume`, `Exit`, `Finish` and `End`. A run that started must finish and end (weak fairness of `Finish` and `End`). The same workflow may run again after it ended, as a nested workflow:run does.

### Loader.tla

Models `Service.Load` and the functions it calls, as one goroutine's call stack `stk` of frames:

- a `load` frame per `Load` call, holding that call's `Session`: the `templates` and `subWorkflows` met so far, `taskIndex`, the tasks with their positions, and the loaded sub-workflow and template bundles;
- a `tasks` frame per `transferTasks` call (a node's task list, the parent task, the index);
- an `expand` frame for `loadTemplate` / `loadTemplateInstance` over a template task's instances (the `default` directory first) and the session's template names.

Actions: `LoadWorkflow` (graph.LoadWorkflow, then `transferWorkflow`), `LoadTransferred`, `transferDependencies` / `transferDependenciesReturn`, `LoadEnd`, `transferTasks` (with `NewTask` and `ScheduleRun`), `transferTasksReturn`, `transferTempleExpandable`, `loadTemplateInstance` / `loadTemplateInstanceReturn`. Which URLs fail to load is the variable `broken`, chosen in `Init` from `MayBreak`. `MaxLoads` nested `Load` calls stand for the goroutine stack limit: acyclic documents never reach it, a cycle always does. `result` ends as `bundle`, `error`, `panic` or `overflow`.

`MCLoader.tla`: `main` holds a template task `t1` (a SubPath, instance directory `i1`, its template running workflow `tpl`) and a dependency on `sub`; the copy of `tpl` in `i1` and `sub` may fail.

### Inliner.tla

Models `Inlined.AsWorkflow`. The model abstracts the document: a node is an ordered list of entries. An entry has a key (a prefix `""`, `:` or `@`, and a name) and a value: a scalar, a boolean or a nested node. The compiler is a set of RECURSIVE operators:

- `UpdateReserved`: `updatereservedAttributes`.
- `ActionAttributes`: the key split of `groupAttributes`.
- `IsActionNode`, `HasActionNode`.
- `Build` / `BuildEntries`: `buildWorkflowNodes` and its loop over the entries, with `FlagMultiAction`.
- `ActionInto`, `NewTask`, `NewAction`: `buildTask` and the TagID of `buildAction`.
- `Normalize`: catch and defer.
- `BuildPipeline` / `AsWorkflow`.

The only variable is the document, chosen in `Init` and kept. The invariants compare the compiled tree, flattened in the order `runTask` runs it (`Compiled`), with a reference reading of the spec over the document (`DocActions`).

`MCInliner.tla` builds the documents:

- pipelines of one or two entries, the second a `catch`;
- leaves: an action, a workflow, and a request-only `@action`;
- groups of up to three entries: two children and a multiaction flag, in every order;
- groups nested one level deeper.

### PubSubPull.tla

Models `gcpClient.PullN`:

| Variable | Meaning |
|----------|---------|
| `backlog` | undelivered messages |
| `inflight` | dispatched callbacks |
| `counter` | `pulledCounter` |
| `cancelled` | the receive context |
| `timer` | the timeout goroutine |
| `messages` | the result slice |
| `returned` | `Receive` has returned |

The actions:

- `Dispatch`: `Receive` hands a message to a callback while the context is live. PullN passes no `ReceiveSettings`, so the library's default of 1000 outstanding messages applies, which is above every backlog here: any number of callbacks can be in flight.
- `Callback`: runs under the mutex. It appends, increments the counter, cancels at `max`, and nacks (back to the backlog) or acks.
- `Timeout`: the timeout goroutine's single wake-up.
- `ReceiveReturn`: `Receive` returns once cancelled and idle.

`PullBound` bounds deliveries for mutants that never cancel. The code never reaches it, because every run cancels by `max + 1` counts.

## 3. Runs

| Run | Expect | Checks | Shows |
|-----|--------|--------|-------|
| engine_control | pass | ErrorsNotLost, EventsPaired, ExitStartsNoTask, TasksStayInWorkflow, LifecycleSafe | Under both readings of `CanRun`: no error on the synchronous path (action, criterion, variable, catch, defer, switch, nested run) is dropped before an ok WorkflowEnd. Every WorkflowStart, TaskStart and ActivityStart on the context's event stream is closed by its matching end, innermost first, whatever path (error, catch, defer, goto, switch, nested run) the run takes. No ordinary task starts after exit. Every task that starts belongs to the workflow on top of the process stack: a goto or switch inside a nested run never runs a task of the parent. Every step is a step of `ProcessLifecycle`, through catch (recovering and back), exit (terminated, also with a goto pending) and the deferred task. |
| engine_async | pass | AsyncEventsWithinTask, RunTerminates, LifecycleRefined | An async action's events are replayed between its task's TaskAsyncStart and TaskAsyncDone/TaskEnd. The run and all goroutines finish. The engine implements `ProcessLifecycle`, fairness included. |
| async_error_lost | violation | AsyncErrorSurfaces | The `groupErr` race loses an async error (code_bug). |
| async_done_without_start | violation | AsyncDoneFollowsStart | TaskAsyncDone is published without a TaskAsyncStart (code_bug). |
| goto_reruns_target | violation | GotoTargetRunsOnce | In S5, t2 runs twice, not once as the spec says. |
| loader_template_panic | violation | LoadReturns | A template instance whose workflow fails to load makes `loadTemplateInstance` dereference the nil bundle: `Load` panics instead of returning the error (code_bug). |
| inliner | pass | ActionsPreserved, OrderPreserved | Over 676 documents, every action node is compiled into exactly one action. Without multiaction, the actions run in document order. |
| inliner_explicit_action | violation | ActionsPreserved | A group whose action child uses `:action` is dropped, because `hasActionNode` looks only for plain keys (code_bug). |
| inliner_multiaction_order | violation | MultiActionSharesScope | Action children that come before the multiaction key are wrapped in tasks of their own, unlike spec §3. |
| pull | pass | TypeOK, PullNReturns | PullN(max 3) over three nacked messages, callbacks dispatched concurrently, always returns: a nacked message goes back to the backlog, so after any timeout another callback reaches the cancel. |
| pull_timeout_hang | violation | PullNReturns | The timeout's `+1` lands on max: nothing cancels (code_bug). |
| pull_exceeds_max | violation | ResultWithinMax | Callbacks already dispatched when the cancel comes still append, so PullN(max 1) returns two messages (code_bug). |

Every property of a passing run has a mutant in PROJECT.json: a plausible bug in the code that makes TLC report the property violated.

## 4. Bounds and fairness

**Engine bounds.**

- The control workflow has two workflows, 9 tasks and 18 actions, in nesting depth 2. It reaches every branch of `runTasks`, `runOnErrorTask` and `runTask`, every case of `runSwitch`, and both outcomes of the registry lookup. The process stack reaches depth 2, and a goto in the nested workflow names a task that only the outer one has.
- Errors can come from seven services, one Init/Post, seven Skips, a When and a Repeater Exit. That is enough to fail each layer once.
- The async workflow has two async actions, which is the smallest number where one goroutine's replay interleaves with another's. Together with a failing sync action, a subtask and a When, it reaches every join path.
- `engine_control` has about 1.4 million states and takes under two minutes; the others take seconds to a minute. The full refinement (with its fairness) is checked on the async workflow, where the liveness check is cheap; on the control workflow, with exit, goto and the nested run, its safety part is checked.

**Engine fairness.** Each goroutine is weakly fair (`WF_vars(Step(th))`). The Go scheduler runs runnable goroutines, and the model's service calls return. Nothing else is assumed. `ProcessLifecycle`'s own fairness (a started run finishes and ends) is not assumed for the engine: `LifecycleRefined` shows that it follows from the goroutines' fairness.

**Inliner bounds.** The documents reach two levels of groups, every position of the multiaction flag, and every kind of leaf. Those are the shapes where `hasActionNode`'s depth, the flag's order and the action-or-task choice of `buildWorkflowNodes` differ. Deeper documents repeat the same recursion.

**PubSubPull bounds.** Three messages with max 3 give 234 states. Every order of timeout and callbacks is covered.

**PubSubPull fairness.**

- The timeout's `time.Sleep` ends.
- Callbacks and `Receive`'s return are scheduled.
- Pub/Sub delivers a message it holds to a live `Receive`.

**Loader bounds.** Three documents, one template task with one listed instance, one dependency, `MaxLoads = 3` (the longest chain of nested `Load`s here is 2). TLC finds the panic in 9 steps.

**Deadlock.** It is checked everywhere except `pull_timeout_hang`, where the hang is the point, and `loader_template_panic`, where the loader stops once the outermost `Load` has returned.

## 5. Not modelled, and the plan

1. **Loader, further**: a passing run over the loader with properties of its own (positions of the tasks of each parent, the templates a template task expands) and the dependency cycle as a run of its own. The assets (`transferAssets`, `loadInstanceAsset`) are storage listing and downloads.
2. **Abstract task order**: a TasksNode specification of task order, catch and defer below `ProcessLifecycle`.
3. The activity stack shared by async goroutines (hazard at `service.go:112`).
4. The registry race between the unlocked `Register` and the locked `Workflow` (hazard at `service.go:52`). It needs an async workflow:register; a Go map race is undefined behaviour.
5. Asynchronous workflow:run (`Async: true`, `service.go:326-341`): the goroutine runs `runWorkflow` on the caller's own context, so its Process is pushed onto the shared process stack while the caller goes on. A later exit or goto of the caller then acts on `Last(context)`, the child's Process, and the two Pops interleave (hazard at `service.go:328`). Showing this needs a violation run of its own. Also `StateKey` and the `self` state restore, which only move state contents.
6. Inliner: templates and `isNormalizableRequest` (the `seleniun:run` typo is a hazard with a note).
7. Activity construction (`src/model/activity.go`: `NewActivity`, `FormatTag`, `NewActivityEndEvent`) fills the audit record from expanded strings, with defaults for a nil request. None of its branches changes control. The only reader that matters, `runOnErrorTask` copying `process.Activity` into the error state, depends on `Process.Push`/`Pop`, which are not under `src/` and whose effect on `Activity` the spec does not define (item 3).
8. The order of the deferred task and the goto target: `runTasks` runs the deferred task from a `defer`, so after the scheduled task (`service.go:601`). The spec lists both "after the loop" without fixing an order, so no property takes a side; `ErrorsNotLost` and `EventsPaired` hold for the code's order. The scheduled task's own error bypasses the catch (`service.go:625`); `ErrorsNotLost` checks that it still fails the workflow (a mutant that drops it is caught).

UDFs, SDK setters and code generation are data conversion and I/O, with nothing for a model checker to reach.
