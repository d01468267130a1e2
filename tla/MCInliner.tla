----------------------------- MODULE MCInliner -----------------------------
(***************************************************************************)
(* Documents for Inliner: every pipeline of up to two entries built from   *)
(* leaves (an action, a workflow, or a request-only "@action" node),       *)
(* groups of up to two leaf children and a multiaction flag in every       *)
(* order, and groups nested one level deeper.                              *)
(***************************************************************************)
EXTENDS Inliner

Scalar(p, n) == [k |-> Key(p, n), kind |-> "scalar", b |-> FALSE, kids |-> <<>>]
Flag(n, b) == [k |-> Key("", n), kind |-> "bool", b |-> b, kids |-> <<>>]
Child(n, es) == [k |-> Key("", n), kind |-> "node", b |-> FALSE, kids |-> es]

LeafAction == <<Scalar("", "action")>>
LeafWorkflow == <<Scalar("", "workflow")>>
LeafRequest == <<Scalar("@", "action")>>
LeafExplicit == <<Scalar(":", "action")>>

PlainLeaves == {LeafAction, LeafWorkflow, LeafRequest}

(* The entries of a group: children n1, n2 and a multiaction flag, each at *)
(* most once, in any order.                                                *)
Groups(L) ==
  LET items == {Child("n1", l) : l \in L} \cup {Child("n2", l) : l \in L}
                 \cup {Flag("multiaction", TRUE)}
  IN {s \in UNION {[1..n -> items] : n \in 1..3} :
        \A i, j \in DOMAIN s : i # j => s[i].k # s[j].k}

Deep(L) ==
  {<<Child("g", g)>> : g \in Groups(L \ {LeafWorkflow})}
    \cup {<<Child("g", g), Child("n1", LeafAction)>> : g \in Groups({LeafAction})}
    \cup {<<Child("n1", LeafAction), Child("g", g)>> : g \in Groups({LeafAction})}

Pipelines(L) ==
  LET vals == L \cup Groups(L) \cup Deep(L) IN
  {<<Child("p1", v)>> : v \in vals}
    \cup {<<Child("p1", v), Child("catch", w)>> : v \in vals, w \in L}

MCDocs == Pipelines(PlainLeaves)

(* A group whose only action descendant uses the explicit ":action" key.   *)
MCExplicitDocs ==
  {<<Child("p1", <<Child("g", <<Child("n1", LeafExplicit)>>)>>)>>,
   <<Child("p1", <<Child("n1", LeafExplicit), Child("n2", LeafAction)>>)>>,
   <<Child("p1", LeafExplicit)>>}

=============================================================================
