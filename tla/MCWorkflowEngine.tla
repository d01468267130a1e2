-------------------------- MODULE MCWorkflowEngine --------------------------
(***************************************************************************)
(* Two workflows for WorkflowEngine, shaped like the TasksNode the inliner *)
(* builds from a pipeline.                                                 *)
(*                                                                         *)
(* Control flow (Ctl...), no async action:                                 *)
(*   t1:    (when) subtasks s1 and its own catch c1 (fail: true),          *)
(*          then a3 (repeat 2 with an exit criterion)                      *)
(*     s1:  (required init/post) a4, then a5 = workflow:exit (skip)        *)
(*   t2:    a6, a7 sharing TagID "g" (skip on a6), a8 outside TagIDs       *)
(*   t3:    a15 = workflow:switch with cases task t2, case action a16 and  *)
(*          an unknown task, then a9 = workflow:goto t2 (skip), then       *)
(*          a10 = workflow:fail (skip)                                     *)
(*   catch: a11 = workflow:register of sub           c1: a13               *)
(*   defer: a12, then a17 = workflow:run of sub (registered only if the   *)
(*          catch ran), then a14 = workflow:goto                           *)
(*          "t9", a task that does not exist (skip)                        *)
(*   sub, a second workflow:                                               *)
(*     st1: a18, then a19 = workflow:goto t2, a task of wf only (skip)     *)
(*     st2: a21 = workflow:goto st1, then a20 = workflow:exit: a goto     *)
(*          scheduled before an exit of the same process                   *)
(*                                                                         *)
(* Async fan-out (Asy...):                                                 *)
(*   t1:    (when) subtask s1, then a1, a2 (async) and a3                  *)
(*     s1:  a4                                                             *)
(*   catch: a5                                                             *)
(*                                                                         *)
(* Scenario S5 of the spec (Goto...): t1 = a1 workflow:goto t2, then a2;   *)
(*   t2 = a3.                                                              *)
(***************************************************************************)
EXTENDS WorkflowEngine

CtlRoots == {"wf", "sub"}
CtlTasks == {"t1", "s1", "c1", "t2", "t3", "catch", "defer", "st1", "st2"}
CtlActs == {"a3", "a4", "a5", "a6", "a7", "a8", "a9", "a10", "a11", "a12", "a13",
            "a14", "a15", "a16", "a17", "a18", "a19", "a20", "a21"}
CtlChildren ==
  [n \in CtlTasks \cup CtlRoots |->
     CASE n = "wf" -> <<"t1", "t2", "t3", "catch", "defer">>
       [] n = "sub" -> <<"st1", "st2">>
       [] n = "t1" -> <<"s1", "c1">>
       [] OTHER -> <<>>]
CtlActions ==
  [t \in CtlTasks |->
     CASE t = "t1" -> <<"a3">>
       [] t = "s1" -> <<"a4", "a5">>
       [] t = "c1" -> <<"a13">>
       [] t = "t2" -> <<"a6", "a7", "a8">>
       [] t = "t3" -> <<"a15", "a9", "a10">>
       [] t = "catch" -> <<"a11">>
       [] t = "defer" -> <<"a12", "a17", "a14">>
       [] t = "st1" -> <<"a18", "a19">>
       [] t = "st2" -> <<"a21", "a20">>]
CtlName == [t \in CtlTasks |-> IF t = "c1" THEN "catch" ELSE t]
CtlFail == [t \in CtlTasks |-> t = "c1"]
CtlKind ==
  [a \in CtlActs |->
     CASE a \in {"a5", "a20"} -> "exit"
       [] a \in {"a9", "a14", "a19", "a21"} -> "goto"
       [] a = "a10" -> "fail"
       [] a = "a15" -> "switch"
       [] a = "a17" -> "run"
       [] a = "a11" -> "register"
       [] OTHER -> "service"]
CtlTagID ==
  [a \in CtlActs |->
     CASE a \in {"a6", "a7"} -> "g"
       [] a = "a8" -> "x"
       [] OTHER -> a]
CtlAsync == [a \in CtlActs |-> FALSE]
CtlTarget == [a \in CtlActs |->
                CASE a = "a14" -> "t9" [] a = "a21" -> "st1" [] OTHER -> "t2"]
CtlRepeat == [a \in CtlActs |-> IF a = "a3" THEN 2 ELSE 1]
CtlSubWorkflow == [a \in CtlActs |-> IF a \in {"a11", "a17"} THEN "sub" ELSE "missing"]
CtlSwitchCases == [a \in CtlActs |-> IF a = "a15" THEN {"t2", "a16", "missing"} ELSE {}]
CtlTagIDs == {"a3", "a4", "a5", "g", "a9", "a10", "a11", "a12", "a13", "a14", "a15",
              "a17"}

AsyRoots == {"wf"}
AsyTasks == {"t1", "s1", "catch"}
AsyActs == {"a1", "a2", "a3", "a4", "a5"}
AsyChildren ==
  [n \in AsyTasks \cup AsyRoots |->
     CASE n = "wf" -> <<"t1", "catch">>
       [] n = "t1" -> <<"s1">>
       [] OTHER -> <<>>]
AsyActions ==
  [t \in AsyTasks |->
     CASE t = "t1" -> <<"a1", "a2", "a3">>
       [] t = "s1" -> <<"a4">>
       [] t = "catch" -> <<"a5">>]
AsyName == [t \in AsyTasks |-> t]
AsyFail == [t \in AsyTasks |-> FALSE]
AsyKind == [a \in AsyActs |-> "service"]
AsyTagID == [a \in AsyActs |-> a]
AsyAsync == [a \in AsyActs |-> a \in {"a1", "a2"}]
AsyTarget == [a \in AsyActs |-> "t1"]
AsyRepeat == [a \in AsyActs |-> 1]
AsySwitchCases == [a \in AsyActs |-> {}]
AsySubWorkflow == [a \in AsyActs |-> "missing"]
AsyTagIDs == {"a1", "a2", "a3", "a4", "a5"}

GotoRoots == {"wf"}
GotoTasks == {"t1", "t2"}
GotoActs == {"a1", "a2", "a3"}
GotoChildren ==
  [n \in GotoTasks \cup GotoRoots |-> IF n = "wf" THEN <<"t1", "t2">> ELSE <<>>]
GotoActions == [t \in GotoTasks |-> IF t = "t1" THEN <<"a1", "a2">> ELSE <<"a3">>]
GotoName == [t \in GotoTasks |-> t]
GotoFail == [t \in GotoTasks |-> FALSE]
GotoKind == [a \in GotoActs |-> IF a = "a1" THEN "goto" ELSE "service"]
GotoTagID == [a \in GotoActs |-> a]
GotoAsync == [a \in GotoActs |-> FALSE]
GotoTarget == [a \in GotoActs |-> "t2"]
GotoRepeat == [a \in GotoActs |-> 1]
GotoSwitchCases == [a \in GotoActs |-> {}]
GotoSubWorkflow == [a \in GotoActs |-> "missing"]

=============================================================================
