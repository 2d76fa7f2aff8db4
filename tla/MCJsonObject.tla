------------------------------ MODULE MCJsonObject ------------------------------
EXTENDS JsonDocument, TLC

\* Two names that strcasecmp takes for one, and another.
MCFold(k) == IF k = "A" THEN "a" ELSE k

\* [plain, plain], {"a": {"a": plain}} and {"b": plain, "A": plain}.
MCDocs ==
  LET Item(t, k, n, p, c) == [type |-> t, name |-> k, next |-> n, prev |-> p, child |-> c]
      Text(items) == [root |-> 1, items |-> items]
  IN {Text(<<Item("array", NoName, Null, Null, 2),
             Item("plain", NoName, 3, Null, Null), Item("plain", NoName, Null, 2, Null)>>),
      Text(<<Item("object", NoName, Null, Null, 2),
             Item("object", "a", Null, Null, 3), Item("plain", "a", Null, Null, Null)>>),
      Text(<<Item("object", NoName, Null, Null, 2),
             Item("plain", "b", 3, Null, Null), Item("plain", "A", Null, 2, Null)>>)}

\* States are told apart up to the choice of addresses and of the numbers of
\* objects.  Which item an object was made for and refers to is no part of the
\* shape: in a coherent state it is the one that is found.
RECURSIVE Shape(_)
Shape(id) == LET o == objs[id]
             IN <<DocumentOf(Now, id), o.own # Null, o.ext # Null, o.keys, o.it,
                  [k \in DOMAIN o.byKey |-> Shape(o.byKey[k])],
                  [i \in DOMAIN o.byIndex |-> Shape(o.byIndex[i])]>>

View == IF ListsLinked /\ Coherent THEN Shape(Root) ELSE vars
=================================================================================
