-------------------------- MODULE ProcessLifecycle --------------------------
(***************************************************************************)
(* The per-Process state machine of section 4.H, as the engine promises    *)
(* it: a workflow run is pushed, runs its tasks, may recover through its   *)
(* catch task and go back to its tasks, may be terminated by               *)
(* workflow:exit, finishes (the deferred task and the workflow's Post)     *)
(* and ends ok or failed; the same workflow may be run again later.        *)
(*                                                                         *)
(* WorkflowEngine implements it under the mapping Lifecycle there.         *)
(***************************************************************************)
CONSTANT Workflows

VARIABLE status

Statuses == {"idle", "running", "recovering", "terminated", "finishing",
             "ok", "failed"}

Init == status = [w \in Workflows |-> "idle"]

(* The moves of one run, each an edge from -> to:                          *)
(*   Push of a new Process;                                                *)
(*   a task failed and the catch task runs;                                *)
(*   the catch task succeeded, the loop goes on with the next task;        *)
(*   workflow:exit set Terminated;                                         *)
(*   the task loop is over: the deferred task, Post, WorkflowEnd;          *)
(*   Pop: the run ends with its result.                                    *)
Start == {<<s, "running">> : s \in {"idle", "ok", "failed"}}
Recover == {<<"running", "recovering">>}
Resume == {<<"recovering", "running">>}
Exit == {<<s, "terminated">> : s \in {"running", "recovering"}}
Finish == {<<s, "finishing">> : s \in {"running", "recovering", "terminated"}}
End == {<<"finishing", r>> : r \in {"ok", "failed"}}

Move(w, edges) ==
  LET from == status[w] IN
  \E to \in {e[2] : e \in {x \in edges : x[1] = from}} :
    status' = [status EXCEPT ![w] = to]

Next == \E w \in Workflows :
          Move(w, Start \cup Recover \cup Resume \cup Exit \cup Finish \cup End)

Safety == Init /\ [][Next]_status

(* A run that has started ends: neither the task loop nor the finishing    *)
(* steps wait forever.                                                     *)
Spec == Safety /\ \A w \in Workflows : WF_status(Move(w, Finish)) /\ WF_status(Move(w, End))

TypeOK == status \in [Workflows -> Statuses]

=============================================================================
