----------------------------- MODULE MCVisibility -----------------------------
(***************************************************************************)
(* Model-checking instance of Visibility: no scope, every single row, and  *)
(* lists with two groups or with an early "all".                           *)
(***************************************************************************)
EXTENDS Visibility

Row(t) == [type |-> t]
GroupRow(g) == [type |-> "group", group |-> g]

Lists ==
  {<<>>, <<Row("self")>>, <<Row("attribute")>>}
  \cup {<<GroupRow(g)>> : g \in Groups}
  \cup {<<GroupRow(g), Row("all")>> : g \in Groups}
  \cup {<<GroupRow(g), GroupRow(h)>> : g, h \in Groups}
=============================================================================
