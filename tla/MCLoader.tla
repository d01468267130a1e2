------------------------------ MODULE MCLoader ------------------------------
(***************************************************************************)
(* Documents for Loader.  main has a template task t1 (SubPath, instance   *)
(* directory i1 besides "default") whose template runs the tpl workflow,  *)
(* and an action a2 running the sub workflow as a dependency; sub and tpl *)
(* hold one plain action each.  i1 holds tpl.yaml; that copy and sub may  *)
(* fail to load.  No document refers back to main, so the longest chain  *)
(* of nested Loads is 2 and MaxLoads = 3 is never reached.                *)
(***************************************************************************)
EXTENDS Loader

MCBody == [d \in {"main", "sub", "tpl"} |->
             CASE d = "main" -> <<"t1", "a2">>
               [] d = "sub" -> <<"b1">>
               [] OTHER -> <<"c1">>]

MCChildren == [n \in {"t1", "a1", "a2", "b1", "c1"} |->
                 IF n = "t1" THEN <<"a1">> ELSE <<>>]

MCType == [n \in {"t1", "a1", "a2", "b1", "c1"} |->
             IF n = "t1" THEN "task" ELSE "action"]

MCRunURI == [n \in {"t1", "a1", "a2", "b1", "c1"} |->
               CASE n = "a1" -> "tpl" [] n = "a2" -> "sub" [] OTHER -> ""]

MCInstances == [n \in {"t1", "a1", "a2", "b1", "c1"} |->
                  IF n = "t1" THEN <<"i1">> ELSE <<>>]

MCFiles == {<<"i1", "tpl">>}

MCMayBreak == {<<"i1", "tpl">>, <<"base", "sub">>}

====
