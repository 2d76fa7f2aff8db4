-------------------------------- MODULE JsonLinks --------------------------------
(***************************************************************************)
(* The items of cJSON (cJSON.h) in memory and what cJSON.c does to the     *)
(* links between them.  A heap h is a function from the addresses in use   *)
(* to items, linked by next, prev and child; every operation is an         *)
(* operator that returns the heap it leaves behind, link by link as the    *)
(* code sets them.  Which member of an array or object an operation is     *)
(* about is for JsonTree to say.                                           *)
(*                                                                         *)
(* Forest says what the links of a heap have to be; that every operation   *)
(* keeps it is proved in JsonObjectProofs.                                 *)
(***************************************************************************)
EXTENDS Functions

CONSTANTS Null,           \* the null pointer
          NoName          \* string of an item that is no member of an object

NewItem(t) == [type |-> t, name |-> NoName, next |-> Null, prev |-> Null, child |-> Null]

\* A new item at x, an address that is not in use.
New(h, x, t) == [c \in DOMAIN h \cup {x} |-> IF c = x THEN NewItem(t) ELSE h[c]]

SetNext(h, c, n)  == [h EXCEPT ![c].next = n]
SetPrev(h, c, p)  == [h EXCEPT ![c].prev = p]
SetChild(h, a, c) == [h EXCEPT ![a].child = c]

-------------------------------------------------------------------------------
\* The least set that has C and with x all of to[x].
Reachable(to, C) ==
  LET closed == {S \in SUBSET DOMAIN to : /\ C \cap DOMAIN to \subseteq S
                                         /\ \A x \in S : to[x] \cap DOMAIN to \subseteq S}
  IN {x \in DOMAIN to : \A S \in closed : x \in S}

\* Who can be reached from the items C by next and child, and from c by next.
Reach(h, C) == Reachable([c \in DOMAIN h |-> {h[c].next, h[c].child}], C)

Onward(h, c) == Reachable([x \in DOMAIN h |-> {h[x].next}], {c})

\* The members of a.
Listed(h, a) == Onward(h, h[a].child)

\* What cJSON_Delete(c) frees: c, what is below it, and its later siblings.
Freed(h, c) == Reach(h, {c})

Delete(h, c) == Restrict(h, DOMAIN h \ Freed(h, c))

-------------------------------------------------------------------------------
\* item follows c.
suffix_object(h, c, item) == SetPrev(SetNext(h, c, item), item, c)

AddItemToArrayHead(h, a, item) ==
  LET c == h[a].child
  IN IF c = Null
     THEN SetChild(h, a, item)
     ELSE SetChild(SetPrev(SetNext(SetPrev(h, item, h[c].prev), item, c), c, item), a, item)

\* Faulty variant: the item after c goes on pointing back at it.
DetachForward(h, a, c) ==
  LET n == h[c].next
      p == h[c].prev
      before == IF p = Null THEN h ELSE SetNext(h, p, n)
      head == IF c = h[a].child THEN SetChild(before, a, n) ELSE before
  IN SetNext(SetPrev(head, c, Null), c, Null)

\* c, a member of a, is taken out.
Detach(h, a, c) ==
  LET n == h[c].next
      p == h[c].prev
      before == IF p = Null THEN h ELSE SetNext(h, p, n)
      after == IF n = Null THEN before ELSE SetPrev(before, n, p)
      head == IF c = h[a].child THEN SetChild(after, a, n) ELSE after
  IN SetNext(SetPrev(head, c, Null), c, Null)

\* item takes the place of c, a member of a.
Exchange(h, a, c, item) ==
  LET n == h[c].next
      p == h[c].prev
      linked == SetPrev(SetNext(h, item, n), item, p)
      after == IF n = Null THEN linked ELSE SetPrev(linked, n, item)
  IN IF c = h[a].child THEN SetChild(after, a, item) ELSE SetNext(after, p, item)

\* Faulty variant: c keeps its next, and cJSON_Delete goes on to its siblings.
ReplaceItemAndRest(h, a, c, item) == Delete(Exchange(h, a, c, item), c)

ReplaceItem(h, a, c, item) ==
  Delete(SetPrev(SetNext(Exchange(h, a, c, item), c, Null), c, Null), c)

-------------------------------------------------------------------------------
\* The links of a heap fit together: they lead to items that exist, next and prev
\* are inverse to each other, child leads to the first member, and no two items
\* have the same members.
Fields(h) == \A c \in DOMAIN h : {"next", "prev", "child"} \subseteq DOMAIN h[c]

Linked(h) ==
  /\ Null \notin DOMAIN h
  /\ Fields(h)
  /\ \A c \in DOMAIN h :
       /\ {h[c].next, h[c].prev, h[c].child} \subseteq DOMAIN h \cup {Null}
       /\ h[c].next # Null => h[h[c].next].prev = c
       /\ h[c].prev # Null => h[h[c].prev].next = c
       /\ h[c].child # Null => h[h[c].child].prev = Null
       /\ \A d \in DOMAIN h : h[c].child = h[d].child /\ h[c].child # Null => c = d

\* Nothing is linked to the items R.
Rooted(h, R) ==
  /\ R \subseteq DOMAIN h
  /\ \A r \in R : /\ h[r].next = Null /\ h[r].prev = Null
                  /\ \A c \in DOMAIN h : h[c].child # r

\* Every item belongs to the tree of one of R, in one place: none is lost, none
\* is shared.
Forest(h, R) == Linked(h) /\ Rooted(h, R) /\ Reach(h, R) = DOMAIN h
================================================================================
