------------------------------ MODULE JsonDocument ------------------------------
(***************************************************************************)
(* What the calls of JsonObject do to the document as a value: types, names *)
(* and members within members, without the items that hold them.           *)
(***************************************************************************)
EXTENDS JsonObject, SequencesExt

\* The list that starts at item c, following next.
RECURSIVE Chain(_, _)
Chain(h, c) == IF c \in DOMAIN h THEN <<c>> \o Chain(h, h[c].next) ELSE <<>>

\* The value of item c.
RECURSIVE ValueOf(_, _)
ValueOf(h, c) == LET m == Chain(h, h[c].child)
                 IN [type |-> h[c].type,
                     members |-> [j \in DOMAIN m |-> [name |-> h[m[j]].name,
                                                      value |-> ValueOf(h, m[j])]]]

\* The value of an item without members.
Plain == [type |-> "plain", members |-> <<>>]

NoValue == [type |-> "none", members |-> <<>>]

\* What ToString says.
DocumentOf(s, id) == IF Focus(s, id) = Null THEN NoValue ELSE ValueOf(s.heap, Focus(s, id))

Given == {IF text = NoText THEN NoValue ELSE ValueOf(text.items, text.root) : text \in Sources}

\* w is v with one member added, deleted or replaced by one that was given, at any
\* depth.
RECURSIVE EditOf(_, _, _)
EditOf(v, w, given) ==
  \/ w = v
  \/ /\ w.type = v.type
     /\ \/ \E j \in DOMAIN v.members : w.members = RemoveAt(v.members, j)
        \/ \E j \in DOMAIN w.members : v.members = RemoveAt(w.members, j)
        \/ \E j \in DOMAIN v.members \cap DOMAIN w.members :
             /\ RemoveAt(w.members, j) = RemoveAt(v.members, j)
             /\ \/ EditOf(v.members[j].value, w.members[j].value, given)
                \/ w.members[j].value \in given

\* A call changes the document in one place: it is parsed anew, or one member of
\* one value comes, goes or is replaced by what the call was given (cJSON.c:884
\* and 920).
OneEdit ==
  [][\E h \in {heap'}, o \in {objs'} :
     \E v \in {DocumentOf(Now, Root)}, w \in {DocumentOf(Store(h, o), Root)} :
       \/ v = w
       \/ w \in Given
       \/ v = NoValue /\ Len(w.members) <= 1
       \/ v # NoValue /\ w # NoValue /\ EditOf(v, w, Given \cup {Plain})]_vars
=================================================================================
