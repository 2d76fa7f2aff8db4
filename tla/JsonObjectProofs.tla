--------------------------- MODULE JsonObjectProofs ---------------------------
(***************************************************************************)
(* Proofs about the items of cJSON and the objects of CJsonObject, for     *)
(* heaps and sets of objects of any size, any names and any values.        *)
(*                                                                         *)
(* 1. JsonLinks: what cJSON does to the links keeps every item in one      *)
(*    tree.  The argument is about referrers.  In a linked heap an item    *)
(*    has at most one, by next or by child, and a root has none; therefore *)
(*    what is outside the tree of a root refers to nothing inside it       *)
(*    (OutsideClosed).  Taking an item and its tree out of a heap          *)
(*    (Delete), hanging them below another item (Inserted) and cutting     *)
(*    them off (Detach) then changes one reference from outside and        *)
(*    nothing else.                                                        *)
(*                                                                         *)
(* 2. JsonTree: what an edit of a list does to what is found in it and in  *)
(*    all others.  The rest of a list is what next reaches, its order is   *)
(*    inclusion of these sets, and an edit is described by what it makes   *)
(*    of each (CutOnward, InsertedOnward); a position is a cardinality.    *)
(*                                                                         *)
(* 3. JsonObject: the lists, the cached objects and the listed names are   *)
(*    right together or not at all.  An object refers to the item of       *)
(*    another, so that the lists say what a reference means; deleting an   *)
(*    object frees its items, so that the lists are right only if no item  *)
(*    has two owners and the caches are a tree.  Fine joins them.  Most    *)
(*    operations change the heap first and the objects after it, or the    *)
(*    other way round, and Fine has three parameters for what is not right *)
(*    in between: roots that no object has, objects that are about to be   *)
(*    deleted, and objects whose names are about to be cleared.            *)
(***************************************************************************)
EXTENDS JsonObject, FiniteSetTheorems, TLAPS

\* 1. Links.  Assignments to one of them.

\* What an assignment to next leaves.
LEMMA SetNextIs ==
  ASSUME NEW h, NEW c, NEW n, Fields(h)
  PROVE  LET g == SetNext(h, c, n)
         IN /\ DOMAIN g = DOMAIN h /\ Fields(g)
            /\ \A x \in DOMAIN h : /\ g[x].next = IF x = c THEN n ELSE h[x].next
                                   /\ g[x].prev = h[x].prev
                                   /\ g[x].child = h[x].child
  BY DEF SetNext, Fields

\* To prev.
LEMMA SetPrevIs ==
  ASSUME NEW h, NEW c, NEW p, Fields(h)
  PROVE  LET g == SetPrev(h, c, p)
         IN /\ DOMAIN g = DOMAIN h /\ Fields(g)
            /\ \A x \in DOMAIN h : /\ g[x].next = h[x].next
                                   /\ g[x].prev = IF x = c THEN p ELSE h[x].prev
                                   /\ g[x].child = h[x].child
  BY DEF SetPrev, Fields

\* To child.
LEMMA SetChildIs ==
  ASSUME NEW h, NEW a, NEW c, Fields(h)
  PROVE  LET g == SetChild(h, a, c)
         IN /\ DOMAIN g = DOMAIN h /\ Fields(g)
            /\ \A x \in DOMAIN h : /\ g[x].next = h[x].next
                                   /\ g[x].prev = h[x].prev
                                   /\ g[x].child = IF x = a THEN c ELSE h[x].child
  BY DEF SetChild, Fields

-------------------------------------------------------------------------------
\* What can be reached.

Closed(h, S) == \A c \in S : {h[c].next, h[c].child} \cap DOMAIN h \subseteq S

NextClosed(h, S) == \A c \in S : {h[c].next} \cap DOMAIN h \subseteq S

\* Reachable is closed under the references and least.
LEMMA ReachableIs ==
  ASSUME NEW to, NEW C
  PROVE  /\ Reachable(to, C) \subseteq DOMAIN to
         /\ C \cap DOMAIN to \subseteq Reachable(to, C)
         /\ \A x \in Reachable(to, C) : to[x] \cap DOMAIN to \subseteq Reachable(to, C)
         /\ \A S \in SUBSET DOMAIN to :
              /\ C \cap DOMAIN to \subseteq S
              /\ \A x \in S : to[x] \cap DOMAIN to \subseteq S
              => Reachable(to, C) \subseteq S
  BY DEF Reachable

\* Reach(h, C) is closed, has C, and is the least such set.
LEMMA ReachClosed ==
  ASSUME NEW h, NEW C
  PROVE  /\ Reach(h, C) \subseteq DOMAIN h
         /\ C \cap DOMAIN h \subseteq Reach(h, C)
         /\ Closed(h, Reach(h, C))
<1> DEFINE to == [c \in DOMAIN h |-> {h[c].next, h[c].child}]
<1>1. DOMAIN to = DOMAIN h /\ \A c \in DOMAIN h : to[c] = {h[c].next, h[c].child}
  OBVIOUS
<1>2. Reach(h, C) = Reachable(to, C)
  BY DEF Reach
<1> HIDE DEF to
<1> QED BY <1>1, <1>2, ReachableIs DEF Closed

\* A closed set with C in it has all that C reaches.
LEMMA ReachLeast ==
  ASSUME NEW h, NEW C, NEW S \in SUBSET DOMAIN h, C \cap DOMAIN h \subseteq S, Closed(h, S)
  PROVE  Reach(h, C) \subseteq S
<1> DEFINE to == [c \in DOMAIN h |-> {h[c].next, h[c].child}]
<1>1. DOMAIN to = DOMAIN h /\ \A c \in DOMAIN h : to[c] = {h[c].next, h[c].child}
  OBVIOUS
<1>2. Reach(h, C) = Reachable(to, C)
  BY DEF Reach
<1> HIDE DEF to
<1> QED BY <1>1, <1>2, ReachableIs DEF Closed

\* The same of Onward(h, c).
LEMMA OnwardClosed ==
  ASSUME NEW h, NEW c
  PROVE  /\ Onward(h, c) \subseteq DOMAIN h
         /\ c \in DOMAIN h => c \in Onward(h, c)
         /\ NextClosed(h, Onward(h, c))
<1> DEFINE to == [x \in DOMAIN h |-> {h[x].next}]
<1>1. DOMAIN to = DOMAIN h /\ \A x \in DOMAIN h : to[x] = {h[x].next}
  OBVIOUS
<1>2. Onward(h, c) = Reachable(to, {c})
  BY DEF Onward
<1> HIDE DEF to
<1> QED BY <1>1, <1>2, ReachableIs DEF NextClosed

\* The same for what is reached by next alone.
LEMMA OnwardLeast ==
  ASSUME NEW h, NEW c, NEW S \in SUBSET DOMAIN h, c \in DOMAIN h => c \in S, NextClosed(h, S)
  PROVE  Onward(h, c) \subseteq S
<1> DEFINE to == [x \in DOMAIN h |-> {h[x].next}]
<1>1. DOMAIN to = DOMAIN h /\ \A x \in DOMAIN h : to[x] = {h[x].next}
  OBVIOUS
<1>2. Onward(h, c) = Reachable(to, {c})
  BY DEF Onward
<1> HIDE DEF to
<1> QED BY <1>1, <1>2, ReachableIs DEF NextClosed

\* Two items do not refer to the same one.
LEMMA OneReferrer ==
  ASSUME NEW h, Linked(h), NEW x \in DOMAIN h, NEW z \in DOMAIN h, NEW y \in DOMAIN h,
         y \in {h[x].next, h[x].child}, y \in {h[z].next, h[z].child}
  PROVE  x = z
  BY DEF Linked

\* Nothing outside the tree of a root refers to anything inside.
LEMMA OutsideClosed ==
  ASSUME NEW h, NEW R, Linked(h), Rooted(h, R), NEW r \in R
  PROVE  Closed(h, DOMAIN h \ Freed(h, r))
<1> DEFINE F == Freed(h, r)
<1>1. F \subseteq DOMAIN h /\ r \in F /\ Closed(h, F)
  BY ReachClosed DEF Freed, Rooted
<1> SUFFICES ASSUME NEW x \in DOMAIN h \ F, NEW y \in F, y \in {h[x].next, h[x].child}
             PROVE  FALSE
  BY DEF Closed
<1> HIDE DEF F
<1>2. y # r
  BY <1>1 DEF Linked, Rooted
<1>3. Closed(h, F \ {y})
  <2> SUFFICES ASSUME NEW z \in F \ {y}, NEW w \in DOMAIN h, w \in {h[z].next, h[z].child}
               PROVE  w \in F \ {y}
    BY DEF Closed
  <2>1. w \in F
    BY <1>1 DEF Closed
  <2>2. w # y
    BY <1>1, OneReferrer
  <2> QED BY <2>1, <2>2
<1>4. F \subseteq F \ {y}
  BY <1>1, <1>2, <1>3, ReachLeast DEF F, Freed
<1> QED BY <1>4

\* The tree of a root has no other root.
LEMMA RootsApart ==
  ASSUME NEW h, NEW R, Linked(h), Rooted(h, R), NEW r \in R, NEW s \in R, r # s
  PROVE  s \notin Freed(h, r)
<1> DEFINE F == Freed(h, r)
<1>1. F \subseteq DOMAIN h /\ r \in F /\ Closed(h, F)
  BY ReachClosed DEF Freed, Rooted
<1> HIDE DEF F
<1>2. Closed(h, F \ {s})
  <2>1. \A z \in DOMAIN h : s \notin {h[z].next, h[z].child}
    BY DEF Rooted, Linked
  <2> QED BY <1>1, <2>1 DEF Closed
<1>3. F \subseteq F \ {s}
  BY <1>1, <1>2, ReachLeast DEF F, Freed
<1> QED BY <1>3 DEF F

\* In a forest every item is in the tree of exactly one root: cJSON_Delete of one
\* object's items frees none of another's.
THEOREM OneTree ==
  ASSUME NEW h, NEW R, Forest(h, R)
  PROVE  /\ \A x \in DOMAIN h : \E r \in R : x \in Freed(h, r)
         /\ \A r, s \in R : r # s => Freed(h, r) \cap Freed(h, s) = {}
<1> USE DEF Forest
<1>1. ASSUME NEW x \in DOMAIN h PROVE \E r \in R : x \in Freed(h, r)
  <2> DEFINE U == {y \in DOMAIN h : \E r \in R : y \in Freed(h, r)}
  <2>1. R \subseteq U
    BY ReachClosed DEF Freed, Rooted
  <2>2. Closed(h, U)
    BY ReachClosed DEF Freed, Closed
  <2> HIDE DEF U
  <2>3. U \in SUBSET DOMAIN h
    BY DEF U
  <2>4. Reach(h, R) \subseteq U
    BY <2>1, <2>2, <2>3, ReachLeast
  <2> QED BY <2>4 DEF U
<1>2. ASSUME NEW r \in R, NEW s \in R, r # s PROVE Freed(h, r) \cap Freed(h, s) = {}
  <2>1. Freed(h, r) \subseteq DOMAIN h /\ r \in Freed(h, r) /\ Closed(h, Freed(h, r))
    BY ReachClosed DEF Freed, Rooted
  <2>2. Closed(h, DOMAIN h \ Freed(h, s))
    BY OutsideClosed
  <2>3. Closed(h, Freed(h, r) \ Freed(h, s))
    BY <2>1, <2>2 DEF Closed
  <2>4. r \notin Freed(h, s)
    BY <1>2, RootsApart
  <2>5. Freed(h, r) \subseteq Freed(h, r) \ Freed(h, s)
    BY <2>1, <2>3, <2>4, ReachLeast DEF Freed
  <2> QED BY <2>5
<1> QED BY <1>1, <1>2

-------------------------------------------------------------------------------
\* cJSON_New_Item makes a tree of its own.
THEOREM NewItemForest ==
  ASSUME NEW h, NEW R, Forest(h, R), NEW x, x \notin DOMAIN h, x # Null, NEW t
  PROVE  Forest(New(h, x, t), R \cup {x})
<1> DEFINE g == New(h, x, t)
<1> USE DEF Forest
<1>1. /\ DOMAIN g = DOMAIN h \cup {x}
      /\ g[x] = NewItem(t)
      /\ \A c \in DOMAIN h : g[c] = h[c]
  BY DEF New
<1> HIDE DEF g
<1>2. Linked(g)
  BY <1>1 DEF Linked, Fields, NewItem
<1>3. Rooted(g, R \cup {x})
  <2>1. \A c \in DOMAIN h : h[c].child # x
    BY DEF Linked
  <2> QED BY <1>1, <2>1 DEF Rooted, NewItem, Linked
<1>4. Reach(g, R \cup {x}) = DOMAIN g
  <2> DEFINE S == Reach(g, R \cup {x})
  <2>1. S \subseteq DOMAIN g /\ R \cup {x} \subseteq S /\ Closed(g, S)
    BY <1>3, ReachClosed DEF Rooted
  <2> HIDE DEF S
  <2>2. Closed(h, S \ {x})
    BY <1>1, <2>1 DEF Closed
  <2>3. Reach(h, R) \subseteq S \ {x}
    BY <1>1, <2>1, <2>2, ReachLeast
  <2> QED BY <1>1, <2>1, <2>3 DEF S
<1> QED BY <1>2, <1>3, <1>4 DEF g

\* Deleting some of the roots.
LEMMA RestrictForest ==
  ASSUME NEW h, NEW R, Forest(h, R), NEW Q, Q \cap DOMAIN h \subseteq R,
         NEW g, g = Restrict(h, DOMAIN h \ UNION {Freed(h, r) : r \in Q})
  PROVE  /\ Forest(g, R \ Q)
         /\ Closed(h, DOMAIN h \ UNION {Freed(h, r) : r \in Q})
<1> DEFINE F == UNION {Freed(h, r) : r \in Q}
<1> USE DEF Forest
<1>1. \A r : Freed(h, r) \subseteq DOMAIN h /\ Closed(h, Freed(h, r)) /\ (r \in DOMAIN h => r \in Freed(h, r))
  BY ReachClosed DEF Freed
<1>2. F \subseteq DOMAIN h /\ Closed(h, F)
  BY <1>1 DEF Closed
<1>3. \A r \in Q \cap DOMAIN h : r \in F
  BY <1>1
<1>4. ASSUME NEW r \in Q, Freed(h, r) # {} PROVE r \in R
  <2>1. Closed(h, {})
    BY DEF Closed
  <2>2. r \in DOMAIN h
    BY <1>4, <2>1, ReachLeast DEF Freed
  <2> QED BY <2>2
<1>5. Closed(h, DOMAIN h \ F)
  <2>1. \A r \in Q : Freed(h, r) # {} => Closed(h, DOMAIN h \ Freed(h, r))
    BY <1>4, OutsideClosed
  <2> QED BY <2>1 DEF Closed
<1>6. \A s \in R \ Q : s \notin F
  BY <1>4, RootsApart
<1>7. DOMAIN g = DOMAIN h \ F /\ \A c \in DOMAIN h \ F : g[c] = h[c]
  BY DEF Restrict
<1> HIDE DEF F
<1>8. ASSUME NEW c \in DOMAIN h \ F
      PROVE  {h[c].next, h[c].prev, h[c].child} \subseteq (DOMAIN h \ F) \cup {Null}
  <2>1. h[c].next \notin F /\ h[c].child \notin F
    BY <1>2, <1>5 DEF Closed
  <2>2. ASSUME h[c].prev \in F PROVE FALSE
    <3>1. h[c].prev # Null /\ h[h[c].prev].next = c
      BY <1>2, <2>2 DEF Linked
    <3> QED BY <1>2, <2>2, <3>1 DEF Closed
  <2> QED BY <2>1, <2>2 DEF Linked
<1>9. Linked(g)
  <2>1. Null \notin DOMAIN g /\ Fields(g)
    BY <1>7 DEF Linked, Fields
  <2>2. ASSUME NEW c \in DOMAIN g PROVE {g[c].next, g[c].prev, g[c].child} \subseteq DOMAIN g \cup {Null}
    BY <1>7, <1>8
  <2>3. ASSUME NEW c \in DOMAIN g
        PROVE  /\ g[c].next # Null => g[g[c].next].prev = c
               /\ g[c].prev # Null => g[g[c].prev].next = c
               /\ g[c].child # Null => g[g[c].child].prev = Null
    BY <1>7, <2>2 DEF Linked
  <2>4. ASSUME NEW c \in DOMAIN g, NEW d \in DOMAIN g, g[c].child = g[d].child, g[c].child # Null
        PROVE  c = d
    BY <1>7, <2>4 DEF Linked
  <2> QED BY <2>1, <2>2, <2>3, <2>4 DEF Linked
<1>10. Rooted(g, R \ Q)
  BY <1>6, <1>7 DEF Rooted
<1>11. Reach(g, R \ Q) = DOMAIN g
  <2> DEFINE S == Reach(g, R \ Q)
  <2>1. S \subseteq DOMAIN g /\ R \ Q \subseteq S /\ Closed(g, S)
    BY <1>10, ReachClosed DEF Rooted
  <2> HIDE DEF S
  <2>2. Closed(h, S \cup F)
    BY <1>2, <1>5, <1>7, <2>1 DEF Closed
  <2>3. R \subseteq S \cup F
    BY <1>3, <2>1 DEF Rooted
  <2>4. Reach(h, R) \subseteq S \cup F
    BY <1>2, <1>7, <2>1, <2>2, <2>3, ReachLeast
  <2> QED BY <1>7, <2>1, <2>4 DEF S
<1> QED BY <1>5, <1>9, <1>10, <1>11 DEF F

\* cJSON_Delete of a root frees its tree and nothing else, and leaves no reference
\* to what is freed (cJSON.c:99).
THEOREM DeleteForest ==
  ASSUME NEW h, NEW R, Forest(h, R), NEW r \in R
  PROVE  Forest(Delete(h, r), R \ {r})
<1>1. Freed(h, r) = UNION {Freed(h, q) : q \in {r}}
  OBVIOUS
<1>2. {r} \cap DOMAIN h \subseteq R
  OBVIOUS
<1> QED BY <1>1, <1>2, RestrictForest DEF Delete

-------------------------------------------------------------------------------
\* Hanging a tree below another item.

\* g is h with the root item between p and n among the members of a, at the
\* head if p is null and at the end if n is.
Inserted(h, g, a, p, n, item) ==
  /\ DOMAIN g = DOMAIN h /\ Fields(g)
  /\ \A x \in DOMAIN h :
       /\ g[x].next = IF x = item THEN n ELSE IF x = p THEN item ELSE h[x].next
       /\ g[x].prev = IF x = item THEN p ELSE IF x = n THEN item ELSE h[x].prev
       /\ g[x].child = IF x = a /\ p = Null THEN item ELSE h[x].child

\* p and n are a place among the members of a that is not below item itself.
Place(h, R, a, p, n, item) ==
  /\ a \in DOMAIN h
  /\ p = Null => n = h[a].child /\ a \notin Freed(h, item)
  /\ p # Null => p \in DOMAIN h \ R /\ n = h[p].next /\ p \notin Freed(h, item)

\* Hanging a root and its tree between two neighbours, or at an end, of a list.
LEMMA InsertedForest ==
  ASSUME NEW h, NEW g, NEW R, Forest(h, R), NEW item \in R, NEW a, NEW p, NEW n,
         Place(h, R, a, p, n, item), Inserted(h, g, a, p, n, item)
  PROVE  Forest(g, R \ {item})
<1> DEFINE F == Freed(h, item)
<1> USE DEF Forest, Place, Inserted
<1>1. F \subseteq DOMAIN h /\ item \in F /\ Closed(h, F)
  BY ReachClosed DEF Freed, Rooted
<1>2. a \in DOMAIN h /\ (p = Null => a # item) /\ p # item
  BY <1>1 DEF Linked, Rooted
<1> HIDE DEF F
<1>3. /\ item \in DOMAIN h /\ h[item].next = Null /\ h[item].prev = Null
      /\ \A c \in DOMAIN h : h[c].child # item /\ h[c].next # item
  BY DEF Linked, Rooted
<1>4. /\ n \in DOMAIN h \cup {Null} /\ n # item
      /\ n # Null => h[n].prev = p
  BY <1>2, <1>3 DEF Linked
<1>5. Linked(g)
  <2>1. ASSUME NEW c \in DOMAIN h
        PROVE  {g[c].next, g[c].prev, g[c].child} \subseteq DOMAIN h \cup {Null}
    BY <1>3, <1>4 DEF Linked
  <2>2. ASSUME NEW c \in DOMAIN h, g[c].next # Null PROVE g[g[c].next].prev = c
    BY <1>2, <1>3, <1>4, <2>2 DEF Linked
  <2>3. ASSUME NEW c \in DOMAIN h, g[c].prev # Null PROVE g[g[c].prev].next = c
    BY <1>2, <1>3, <1>4, <2>3 DEF Linked
  <2>4. ASSUME NEW c \in DOMAIN h, g[c].child # Null PROVE g[g[c].child].prev = Null
    BY <1>2, <1>3, <1>4, <2>4 DEF Linked
  <2>5. ASSUME NEW c \in DOMAIN h, NEW d \in DOMAIN h, g[c].child = g[d].child, g[c].child # Null
        PROVE  c = d
    BY <1>2, <1>3, <1>4, <2>5 DEF Linked
  <2> QED BY <2>1, <2>2, <2>3, <2>4, <2>5 DEF Linked
<1>6. Rooted(g, R \ {item})
  <2>1. ASSUME NEW r \in R \ {item} PROVE r # p /\ r # n
    <3>1. r # p
      BY DEF Linked, Rooted
    <3>2. h[r].prev = Null /\ \A c \in DOMAIN h : h[c].child # r
      BY DEF Rooted
    <3>3. r # Null
      BY DEF Linked, Rooted
    <3> QED BY <1>2, <1>4, <3>1, <3>2, <3>3
  <2> QED BY <1>3, <2>1 DEF Rooted
<1>7. Reach(g, R \ {item}) = DOMAIN g
  <2> DEFINE S == Reach(g, R \ {item})
  <2>1. S \subseteq DOMAIN h /\ R \ {item} \subseteq S /\ Closed(g, S)
    BY <1>6, ReachClosed DEF Rooted
  <2> HIDE DEF S
  <2>2. Closed(h, S \cup F)
    <3> SUFFICES ASSUME NEW x \in S, NEW y \in DOMAIN h, y \in {h[x].next, h[x].child}
                 PROVE  y \in S \cup F
      BY <1>1 DEF Closed
    <3>1. CASE y \in {g[x].next, g[x].child}
      BY <2>1, <3>1 DEF Closed
    <3>2. CASE x = item
      BY <1>1, <3>2 DEF Closed
    <3>3. CASE x # item /\ (x = p \/ (x = a /\ p = Null)) /\ y = n
      <4>1. item \in S
        BY <1>3, <2>1, <3>3 DEF Closed, Linked
      <4>2. n \in S
        BY <1>3, <2>1, <4>1, <3>3 DEF Closed
      <4> QED BY <3>3, <4>2
    <3>4. CASE x # item /\ y \notin {g[x].next, g[x].child} /\ y # n
      <4>1. x # Null /\ x \in DOMAIN h
        BY <2>1 DEF Linked
      <4> QED BY <3>4, <4>1
    <3>5. x # item /\ y \notin {g[x].next, g[x].child} => x = p \/ (x = a /\ p = Null)
      BY <2>1
    <3> QED BY <3>1, <3>2, <3>3, <3>4, <3>5
  <2>3. Reach(h, R) \subseteq S \cup F
    BY <1>1, <2>1, <2>2, ReachLeast
  <2>4. item \in S
    <3>1. CASE p = Null
      <4>1. a \in S
        BY <1>2, <2>3, <3>1 DEF F
      <4> QED BY <1>2, <1>3, <2>1, <3>1, <4>1 DEF Closed
    <3>2. CASE p # Null
      <4>1. p \in S
        BY <2>3, <3>2 DEF F
      <4> QED BY <1>2, <1>3, <2>1, <3>2, <4>1 DEF Closed
    <3> QED BY <3>1, <3>2
  <2>5. Closed(h, S)
    <3> SUFFICES ASSUME NEW x \in S, NEW y \in DOMAIN h, y \in {h[x].next, h[x].child}
                 PROVE  y \in S
      BY DEF Closed
    <3>1. CASE y \in {g[x].next, g[x].child}
      BY <2>1, <3>1 DEF Closed
    <3>2. CASE y = n
      BY <1>3, <2>1, <2>4, <3>2 DEF Closed
    <3>3. CASE y \notin {g[x].next, g[x].child} /\ y # n
      <4>1. x = item \/ x = p \/ (x = a /\ p = Null)
        BY <2>1, <3>3
      <4>2. x = item \/ x = p
        BY <1>2, <2>1, <3>3, <4>1
      <4> QED BY <1>3, <2>1, <3>3, <4>2 DEF Linked
    <3> QED BY <3>1, <3>2, <3>3
  <2>6. Reach(h, R) \subseteq S
    BY <2>1, <2>4, <2>5, ReachLeast
  <2> QED BY <2>1, <2>6 DEF S
<1> QED BY <1>5, <1>6, <1>7

\* suffix_object at the end of a list hangs item there.
LEMMA SuffixInserts ==
  ASSUME NEW h, NEW R, Forest(h, R), NEW item \in R, NEW a, NEW c \in DOMAIN h, c # item,
         h[c].next = Null
  PROVE  Inserted(h, suffix_object(h, c, item), a, c, Null, item)
<1> DEFINE f == SetNext(h, c, item)
           g == suffix_object(h, c, item)
<1>1. Null \notin DOMAIN h /\ Fields(h)
  BY DEF Forest, Linked
<1>2. /\ DOMAIN f = DOMAIN h /\ Fields(f)
      /\ \A x \in DOMAIN h : /\ f[x].next = IF x = c THEN item ELSE h[x].next
                             /\ f[x].prev = h[x].prev /\ f[x].child = h[x].child
  BY <1>1, SetNextIs
<1>3. g = SetPrev(f, item, c)
  BY DEF suffix_object
<1> HIDE DEF f, g
<1>4. /\ DOMAIN g = DOMAIN f /\ Fields(g)
      /\ \A x \in DOMAIN f : /\ g[x].next = f[x].next
                             /\ g[x].prev = IF x = item THEN c ELSE f[x].prev
                             /\ g[x].child = f[x].child
  BY <1>2, <1>3, SetPrevIs
<1>5. h[item].next = Null
  BY DEF Forest, Rooted
<1>6. Inserted(h, g, a, c, Null, item)
  BY <1>1, <1>2, <1>4, <1>5 DEF Inserted
<1> QED BY <1>6 DEF g

\* suffix_object, with which cJSON_AddItemToArray hangs a root behind the last
\* member of an array that is not in its own tree (cJSON.c:811).
THEOREM SuffixForest ==
  ASSUME NEW h, NEW R, Forest(h, R), NEW item \in R,
         NEW c \in DOMAIN h \ R, h[c].next = Null, c \notin Freed(h, item)
  PROVE  Forest(suffix_object(h, c, item), R \ {item})
<1>1. Place(h, R, c, c, Null, item)
  BY DEF Place, Forest, Linked
<1> QED BY <1>1, SuffixInserts, InsertedForest

\* cJSON_AddItemToArrayHead hangs item before the first.
LEMMA AddHeadInserts ==
  ASSUME NEW h, NEW R, Forest(h, R), NEW item \in R, NEW a \in DOMAIN h, a # item
  PROVE  Inserted(h, AddItemToArrayHead(h, a, item), a, Null, h[a].child, item)
<1> DEFINE g == AddItemToArrayHead(h, a, item)
           c == h[a].child
<1>1. /\ Null \notin DOMAIN h /\ Fields(h)
      /\ c # Null => c \in DOMAIN h /\ h[c].prev = Null
      /\ item \in DOMAIN h /\ h[item].next = Null /\ h[item].prev = Null /\ c # item
  BY DEF Forest, Linked, Rooted
<1>2. Inserted(h, g, a, Null, c, item)
  <2>1. CASE c = Null
    <3>1. g = SetChild(h, a, item)
      BY <2>1 DEF AddItemToArrayHead
    <3> HIDE DEF g
    <3>2. /\ DOMAIN g = DOMAIN h /\ Fields(g)
          /\ \A x \in DOMAIN h : /\ g[x].next = h[x].next
                                 /\ g[x].prev = h[x].prev
                                 /\ g[x].child = IF x = a THEN item ELSE h[x].child
      BY <1>1, <3>1, SetChildIs
    <3> QED BY <1>1, <2>1, <3>2 DEF Inserted
  <2>2. CASE c # Null
    <3> DEFINE f1 == SetPrev(h, item, h[c].prev)
               f2 == SetNext(f1, item, c)
               f3 == SetPrev(f2, c, item)
    <3>0. g = SetChild(f3, a, item)
      BY <2>2 DEF AddItemToArrayHead
    <3>1. /\ DOMAIN f1 = DOMAIN h /\ Fields(f1)
          /\ \A x \in DOMAIN h : /\ f1[x].next = h[x].next
                                 /\ f1[x].prev = IF x = item THEN h[c].prev ELSE h[x].prev
                                 /\ f1[x].child = h[x].child
      BY <1>1, SetPrevIs
    <3> HIDE DEF f1
    <3>2. /\ DOMAIN f2 = DOMAIN h /\ Fields(f2)
          /\ \A x \in DOMAIN h : /\ f2[x].next = IF x = item THEN c ELSE f1[x].next
                                 /\ f2[x].prev = f1[x].prev
                                 /\ f2[x].child = f1[x].child
      BY <3>1, SetNextIs
    <3> HIDE DEF f2
    <3>3. /\ DOMAIN f3 = DOMAIN h /\ Fields(f3)
          /\ \A x \in DOMAIN h : /\ f3[x].next = f2[x].next
                                 /\ f3[x].prev = IF x = c THEN item ELSE f2[x].prev
                                 /\ f3[x].child = f2[x].child
      BY <3>2, SetPrevIs
    <3> HIDE DEF f3, g
    <3>4. /\ DOMAIN g = DOMAIN h /\ Fields(g)
          /\ \A x \in DOMAIN h : /\ g[x].next = f3[x].next
                                 /\ g[x].prev = f3[x].prev
                                 /\ g[x].child = IF x = a THEN item ELSE f3[x].child
      BY <3>0, <3>3, SetChildIs
    <3> HIDE DEF c
    <3> QED BY <1>1, <2>2, <3>1, <3>2, <3>3, <3>4 DEF Inserted
  <2> QED BY <2>1, <2>2
<1> QED BY <1>2

\* cJSON_AddItemToArrayHead, and cJSON_AddItemToArray of an array without members.
THEOREM AddHeadForest ==
  ASSUME NEW h, NEW R, Forest(h, R), NEW item \in R,
         NEW a \in DOMAIN h, a \notin Freed(h, item)
  PROVE  Forest(AddItemToArrayHead(h, a, item), R \ {item})
<1>1. a # item
  BY ReachClosed DEF Freed, Forest, Rooted
<1>2. Place(h, R, a, Null, h[a].child, item)
  BY DEF Place
<1> QED BY <1>1, <1>2, AddHeadInserts, InsertedForest

-------------------------------------------------------------------------------
\* Cutting a tree off.

\* g is h without the link to c from before, from behind and from above.
Cut(h, g, a, c) ==
  /\ DOMAIN g = DOMAIN h /\ Fields(g)
  /\ \A x \in DOMAIN h :
       /\ g[x].next = IF x = c THEN Null ELSE IF x = h[c].prev THEN h[c].next ELSE h[x].next
       /\ g[x].prev = IF x = c THEN Null ELSE IF x = h[c].next THEN h[c].prev ELSE h[x].prev
       /\ g[x].child = IF x = a /\ h[a].child = c THEN h[c].next ELSE h[x].child

\* cJSON_DetachItemFromArray cuts c off.
LEMMA DetachCuts ==
  ASSUME NEW h, Linked(h), NEW a \in DOMAIN h, NEW c \in DOMAIN h
  PROVE  Cut(h, Detach(h, a, c), a, c)
<1> DEFINE n == h[c].next
           p == h[c].prev
           before == IF p = Null THEN h ELSE SetNext(h, p, n)
           after == IF n = Null THEN before ELSE SetPrev(before, n, p)
           head == IF c = h[a].child THEN SetChild(after, a, n) ELSE after
           f == SetPrev(head, c, Null)
           g == SetNext(f, c, Null)
<1>1. Null \notin DOMAIN h /\ Fields(h)
  BY DEF Linked
<1>2. /\ DOMAIN before = DOMAIN h /\ Fields(before)
      /\ \A x \in DOMAIN h : /\ before[x].next = IF x = p THEN n ELSE h[x].next
                             /\ before[x].prev = h[x].prev
                             /\ before[x].child = h[x].child
  BY <1>1, SetNextIs
<1> HIDE DEF before
<1>3. /\ DOMAIN after = DOMAIN h /\ Fields(after)
      /\ \A x \in DOMAIN h : /\ after[x].next = before[x].next
                             /\ after[x].prev = IF x = n THEN p ELSE before[x].prev
                             /\ after[x].child = before[x].child
  BY <1>1, <1>2, SetPrevIs
<1> HIDE DEF after
<1>4. /\ DOMAIN head = DOMAIN h /\ Fields(head)
      /\ \A x \in DOMAIN h : /\ head[x].next = after[x].next
                             /\ head[x].prev = after[x].prev
                             /\ head[x].child = IF x = a /\ h[a].child = c THEN n ELSE after[x].child
  BY <1>3, SetChildIs
<1> HIDE DEF head
<1>5. /\ DOMAIN f = DOMAIN h /\ Fields(f)
      /\ \A x \in DOMAIN h : /\ f[x].next = head[x].next
                             /\ f[x].prev = IF x = c THEN Null ELSE head[x].prev
                             /\ f[x].child = head[x].child
  BY <1>4, SetPrevIs
<1> HIDE DEF f
<1>6. /\ DOMAIN g = DOMAIN h /\ Fields(g)
      /\ \A x \in DOMAIN h : /\ g[x].next = IF x = c THEN Null ELSE f[x].next
                             /\ g[x].prev = f[x].prev
                             /\ g[x].child = f[x].child
  BY <1>5, SetNextIs
<1>7. g = Detach(h, a, c)
  BY DEF Detach, f, head, after, before
<1> HIDE DEF g
<1> QED BY <1>2, <1>3, <1>4, <1>5, <1>6, <1>7 DEF Cut

\* A member of a list is no root, and does not follow itself: it would be reached
\* from nowhere else.
LEMMA MemberApart ==
  ASSUME NEW h, NEW R, Forest(h, R), NEW a \in DOMAIN h, NEW c \in DOMAIN h,
         h[c].prev # Null \/ h[a].child = c
  PROVE  c \notin R /\ h[c].next # c /\ h[c].prev # c /\ h[c].child # c
<1>1. c \notin R
  BY DEF Forest, Rooted
<1>2. ASSUME c \in {h[c].next, h[c].child} PROVE FALSE
  <2>1. Closed(h, DOMAIN h \ {c})
    BY <1>2, OneReferrer DEF Forest, Closed
  <2>2. Reach(h, R) \subseteq DOMAIN h \ {c}
    BY <1>1, <2>1, ReachLeast
  <2> QED BY <2>2 DEF Forest
<1>3. h[c].prev = c => h[c].next = c
  BY DEF Forest, Linked
<1> QED BY <1>1, <1>2, <1>3

\* Detaching makes the member the root of a tree of its own: its old neighbours are
\* linked to each other, nothing goes on pointing at it and none of its siblings
\* goes with it (cJSON.c:884).
THEOREM DetachForest ==
  ASSUME NEW h, NEW R, Forest(h, R), NEW a \in DOMAIN h, NEW c \in DOMAIN h,
         h[c].prev # Null \/ h[a].child = c
  PROVE  Forest(Detach(h, a, c), R \cup {c})
<1> DEFINE g == Detach(h, a, c)
           n == h[c].next
           p == h[c].prev
<1> USE DEF Forest
<1>1. Cut(h, g, a, c)
  BY DetachCuts
<1>2. c \notin R /\ n # c /\ p # c
  BY MemberApart
<1>3. /\ n \in DOMAIN h \cup {Null} /\ p \in DOMAIN h \cup {Null} /\ Null \notin DOMAIN h
      /\ n # Null => h[n].prev = c
      /\ p # Null => h[p].next = c
      /\ p = Null <=> h[a].child = c
      /\ \A d \in DOMAIN h : h[d].child = c => d = a
      /\ c # Null
  BY DEF Linked
<1> HIDE DEF g, n, p
<1>4. /\ DOMAIN g = DOMAIN h /\ Fields(g)
      /\ \A x \in DOMAIN h :
           /\ g[x].next = IF x = c THEN Null ELSE IF x = p THEN n ELSE h[x].next
           /\ g[x].prev = IF x = c THEN Null ELSE IF x = n THEN p ELSE h[x].prev
           /\ g[x].child = IF x = a /\ p = Null THEN n ELSE h[x].child
  BY <1>1, <1>3 DEF Cut, n, p
<1>5. Linked(g)
  <2>1. ASSUME NEW x \in DOMAIN h
        PROVE  {g[x].next, g[x].prev, g[x].child} \subseteq DOMAIN h \cup {Null}
    BY <1>3, <1>4 DEF Linked
  <2>2. ASSUME NEW x \in DOMAIN h, g[x].next # Null PROVE g[g[x].next].prev = x
    BY <1>2, <1>3, <1>4, <2>2 DEF Linked
  <2>3. ASSUME NEW x \in DOMAIN h, g[x].prev # Null PROVE g[g[x].prev].next = x
    <3>1. CASE x = n
      BY <1>2, <1>3, <1>4, <2>3, <3>1
    <3>2. CASE x # n
      <4>1. x # c /\ g[x].prev = h[x].prev
        BY <1>4, <2>3, <3>2
      <4>2. h[x].prev \in DOMAIN h /\ h[h[x].prev].next = x
        BY <2>3, <4>1 DEF Linked
      <4>3. h[x].prev # p /\ h[x].prev # c
        BY <1>3, <3>2, <4>1, <4>2 DEF n
      <4> QED BY <1>4, <4>1, <4>2, <4>3
    <3> QED BY <3>1, <3>2
  <2>4. ASSUME NEW x \in DOMAIN h, g[x].child # Null PROVE g[g[x].child].prev = Null
    BY <1>2, <1>3, <1>4, <2>4 DEF Linked
  <2>5. ASSUME NEW x \in DOMAIN h, NEW d \in DOMAIN h, g[x].child = g[d].child, g[x].child # Null
        PROVE  x = d
    BY <1>2, <1>3, <1>4, <2>5 DEF Linked
  <2> QED BY <1>3, <1>4, <2>1, <2>2, <2>3, <2>4, <2>5 DEF Linked
<1>6. Rooted(g, R \cup {c})
  <2>1. ASSUME NEW r \in R
        PROVE  g[r].next = Null /\ g[r].prev = Null /\ \A x \in DOMAIN g : g[x].child # r
    <3>1. r \in DOMAIN h /\ h[r].next = Null /\ h[r].prev = Null /\ \A x \in DOMAIN h : h[x].child # r
      BY DEF Rooted
    <3>2. r # p /\ r # n /\ r # c
      BY <1>2, <1>3, <3>1
    <3> QED BY <1>4, <3>1, <3>2
  <2>2. g[c].next = Null /\ g[c].prev = Null
    BY <1>4
  <2>3. \A x \in DOMAIN g : g[x].child # c
    BY <1>2, <1>3, <1>4
  <2> QED BY <1>4, <2>1, <2>2, <2>3 DEF Rooted
<1>7. Reach(g, R \cup {c}) = DOMAIN g
  <2> DEFINE S == Reach(g, R \cup {c})
             F == Freed(g, c)
             before == IF p = Null THEN a ELSE p
  <2>1. S \subseteq DOMAIN h /\ R \cup {c} \subseteq S /\ Closed(g, S)
    BY <1>4, <1>6, ReachClosed DEF Rooted
  <2>2. F \subseteq DOMAIN h /\ c \in F
    BY <1>4, ReachClosed DEF Freed
  <2>3. Closed(g, DOMAIN h \ F)
    BY <1>4, <1>5, <1>6, OutsideClosed
  <2>4. \A r \in R : r \notin F
    BY <1>2, <1>5, <1>6, RootsApart
  <2> HIDE DEF S, F
  <2>5. before \in S
    <3> SUFFICES ASSUME before \notin S PROVE FALSE
      OBVIOUS
    <3>1. Closed(h, S \ F)
      <4> SUFFICES ASSUME NEW x \in S \ F, NEW y \in DOMAIN h, y \in {h[x].next, h[x].child}
                   PROVE  y \in S \ F
        BY DEF Closed
      <4>1. x \in DOMAIN h /\ x # c /\ x # before /\ x # Null
        BY <1>3, <2>1, <2>2
      <4>2. g[x].next = h[x].next /\ g[x].child = h[x].child
        BY <1>3, <1>4, <4>1
      <4> QED BY <1>4, <2>1, <2>3, <4>2 DEF Closed
    <3>2. Reach(h, R) \subseteq S \ F
      BY <2>1, <2>4, <3>1, ReachLeast
    <3> QED BY <2>2, <3>2
  <2>6. Closed(h, S)
    <3> SUFFICES ASSUME NEW x \in S, NEW y \in DOMAIN h, y \in {h[x].next, h[x].child}
                 PROVE  y \in S
      BY DEF Closed
    <3>1. CASE y \in {g[x].next, g[x].child}
      BY <1>4, <2>1, <3>1 DEF Closed
    <3>2. CASE y = c
      BY <2>1, <3>2
    <3>3. CASE y = n
      <4>1. n \in {g[before].next, g[before].child}
        BY <1>2, <1>3, <1>4, <2>1, <2>5
      <4> QED BY <1>4, <2>1, <2>5, <3>3, <4>1 DEF Closed
    <3>4. y \notin {g[x].next, g[x].child} => y = c \/ y = n
      BY <1>3, <1>4, <2>1 DEF n
    <3> QED BY <3>1, <3>2, <3>3, <3>4
  <2>7. Reach(h, R) \subseteq S
    BY <2>1, <2>6, ReachLeast
  <2> QED BY <1>4, <2>1, <2>7 DEF S
<1> QED BY <1>5, <1>6, <1>7 DEF g

-------------------------------------------------------------------------------
\* Replacing.

\* The heap before cJSON_Delete: the item in the place of the member detached.
Replaced(h, a, c, item) == SetPrev(SetNext(Exchange(h, a, c, item), c, Null), c, Null)

\* cJSON_ReplaceItemInArray hangs item where c was cut off.
LEMMA ReplacedInserts ==
  ASSUME NEW h, NEW R, Forest(h, R), NEW item \in R, NEW a \in DOMAIN h, NEW c \in DOMAIN h,
         h[c].prev # Null \/ h[a].child = c, c # item
  PROVE  Inserted(Detach(h, a, c), Replaced(h, a, c, item), a, h[c].prev, h[c].next, item)
<1> DEFINE n == h[c].next
           p == h[c].prev
           d == Detach(h, a, c)
           g == Replaced(h, a, c, item)
<1>1. Forest(d, R \cup {c}) /\ Cut(h, d, a, c)
  BY DetachForest, DetachCuts DEF Forest
<1>2. c \notin R /\ n # c /\ p # c /\ item # c
  BY MemberApart
<1>3. /\ n \in DOMAIN h \cup {Null} /\ p \in DOMAIN h \cup {Null} /\ Null \notin DOMAIN h
      /\ n # Null => h[n].prev = c
      /\ p # Null => h[p].next = c
      /\ p = Null <=> h[a].child = c
      /\ Fields(h)
      /\ item \in DOMAIN h /\ h[item].next = Null /\ h[item].prev = Null
      /\ p # item /\ n # item
  BY <1>2 DEF Forest, Linked, Rooted
<1>4. /\ DOMAIN g = DOMAIN h /\ Fields(g)
      /\ \A x \in DOMAIN h :
           /\ g[x].next = IF x = c THEN Null ELSE IF x = item THEN n
                          ELSE IF x = p THEN item ELSE h[x].next
           /\ g[x].prev = IF x = c THEN Null ELSE IF x = n THEN item
                          ELSE IF x = item THEN p ELSE h[x].prev
           /\ g[x].child = IF x = a /\ p = Null THEN item ELSE h[x].child
  <2> DEFINE f1 == SetNext(h, item, n)
             f2 == SetPrev(f1, item, p)
             f3 == IF n = Null THEN f2 ELSE SetPrev(f2, n, item)
             f4 == IF c = h[a].child THEN SetChild(f3, a, item) ELSE SetNext(f3, p, item)
             f5 == SetNext(f4, c, Null)
  <2>1. /\ DOMAIN f1 = DOMAIN h /\ Fields(f1)
        /\ \A x \in DOMAIN h : /\ f1[x].next = IF x = item THEN n ELSE h[x].next
                               /\ f1[x].prev = h[x].prev
                               /\ f1[x].child = h[x].child
    BY <1>3, SetNextIs
  <2> HIDE DEF f1
  <2>2. /\ DOMAIN f2 = DOMAIN h /\ Fields(f2)
        /\ \A x \in DOMAIN h : /\ f2[x].next = f1[x].next
                               /\ f2[x].prev = IF x = item THEN p ELSE f1[x].prev
                               /\ f2[x].child = f1[x].child
    BY <2>1, SetPrevIs
  <2> HIDE DEF f2
  <2>3. /\ DOMAIN f3 = DOMAIN h /\ Fields(f3)
        /\ \A x \in DOMAIN h : /\ f3[x].next = f2[x].next
                               /\ f3[x].prev = IF x = n THEN item ELSE f2[x].prev
                               /\ f3[x].child = f2[x].child
    BY <1>3, <2>2, SetPrevIs
  <2> HIDE DEF f3
  <2>4. /\ DOMAIN f4 = DOMAIN h /\ Fields(f4)
        /\ \A x \in DOMAIN h : /\ f4[x].next = IF x = p THEN item ELSE f3[x].next
                               /\ f4[x].prev = f3[x].prev
                               /\ f4[x].child = IF x = a /\ p = Null THEN item ELSE f3[x].child
    <3>1. CASE c = h[a].child
      BY <1>3, <2>3, <3>1, SetChildIs
    <3>2. CASE c # h[a].child
      BY <1>3, <2>3, <3>2, SetNextIs
    <3> QED BY <3>1, <3>2
  <2>5. f4 = Exchange(h, a, c, item)
    BY DEF Exchange, f3, f2, f1
  <2> HIDE DEF f4
  <2>6. /\ DOMAIN f5 = DOMAIN h /\ Fields(f5)
        /\ \A x \in DOMAIN h : /\ f5[x].next = IF x = c THEN Null ELSE f4[x].next
                               /\ f5[x].prev = f4[x].prev
                               /\ f5[x].child = f4[x].child
    BY <2>4, SetNextIs
  <2> HIDE DEF f5
  <2>7. g = SetPrev(f5, c, Null)
    BY <2>5 DEF f5, Replaced
  <2> HIDE DEF g, n, p
  <2>8. /\ DOMAIN g = DOMAIN h /\ Fields(g)
        /\ \A x \in DOMAIN h : /\ g[x].next = f5[x].next
                               /\ g[x].prev = IF x = c THEN Null ELSE f5[x].prev
                               /\ g[x].child = f5[x].child
    BY <2>6, <2>7, SetPrevIs
  <2> QED BY <1>2, <1>3, <2>1, <2>2, <2>3, <2>4, <2>6, <2>8
<1> HIDE DEF g, d, n, p
<1>5. /\ DOMAIN d = DOMAIN h /\ Fields(d)
      /\ \A x \in DOMAIN h :
           /\ d[x].next = IF x = c THEN Null ELSE IF x = p THEN n ELSE h[x].next
           /\ d[x].prev = IF x = c THEN Null ELSE IF x = n THEN p ELSE h[x].prev
           /\ d[x].child = IF x = a /\ p = Null THEN n ELSE h[x].child
  BY <1>1, <1>3 DEF Cut, n, p
<1>6. Inserted(d, g, a, p, n, item)
  BY <1>2, <1>3, <1>4, <1>5 DEF Inserted
<1> QED BY <1>6 DEF d, g, p, n

\* It takes item from the roots and makes c one, with its tree.
LEMMA ReplacedForest ==
  ASSUME NEW h, NEW R, Forest(h, R), NEW item \in R, NEW a \in DOMAIN h, NEW c \in DOMAIN h,
         h[c].prev # Null \/ h[a].child = c, c \notin Freed(h, item)
  PROVE  c \notin R /\ Forest(Replaced(h, a, c, item), (R \cup {c}) \ {item})
<1> DEFINE n == h[c].next
           p == h[c].prev
           d == Detach(h, a, c)
           g == Replaced(h, a, c, item)
<1>1. Forest(d, R \cup {c}) /\ Cut(h, d, a, c)
  BY DetachForest, DetachCuts DEF Forest
<1>2. c \notin R /\ n # c /\ p # c /\ item # c
  BY MemberApart
<1>3. /\ n \in DOMAIN h \cup {Null} /\ p \in DOMAIN h \cup {Null} /\ Null \notin DOMAIN h
      /\ n # Null => h[n].prev = c
      /\ p # Null => h[p].next = c
      /\ p = Null <=> h[a].child = c
      /\ Fields(h)
      /\ item \in DOMAIN h /\ h[item].next = Null /\ h[item].prev = Null
      /\ p # item /\ n # item
  BY <1>2 DEF Forest, Linked, Rooted
<1>4. Inserted(d, g, a, p, n, item)
  BY <1>2, ReplacedInserts
<1> HIDE DEF g, d, n, p
<1>5. /\ DOMAIN d = DOMAIN h /\ Fields(d)
      /\ \A x \in DOMAIN h :
           /\ d[x].next = IF x = c THEN Null ELSE IF x = p THEN n ELSE h[x].next
           /\ d[x].prev = IF x = c THEN Null ELSE IF x = n THEN p ELSE h[x].prev
           /\ d[x].child = IF x = a /\ p = Null THEN n ELSE h[x].child
  BY <1>1, <1>3 DEF Cut, n, p
<1>6. Place(d, R \cup {c}, a, p, n, item)
  <2> DEFINE F == Freed(h, item)
  <2>1. F \subseteq DOMAIN h /\ item \in F /\ Closed(h, F)
    BY <1>3, ReachClosed DEF Freed
  <2> HIDE DEF F
  <2>2. c \notin F
    BY DEF F
  <2>3. (p = Null => a \notin F) /\ p \notin F
    BY <1>3, <2>1, <2>2 DEF Closed
  <2>4. Closed(d, F)
    BY <1>3, <1>5, <2>1, <2>2, <2>3 DEF Closed
  <2>5. Freed(d, item) \subseteq F
    BY <1>5, <2>1, <2>4, ReachLeast DEF Freed
  <2>6. p # Null => p \in DOMAIN d \ (R \cup {c}) /\ d[p].next = n
    BY <1>2, <1>3, <1>5 DEF Forest, Rooted
  <2>7. p = Null => d[a].child = n
    BY <1>5
  <2> QED BY <1>5, <2>3, <2>5, <2>6, <2>7 DEF Place
<1>7. Forest(g, (R \cup {c}) \ {item})
  BY <1>1, <1>4, <1>6, InsertedForest
<1> QED BY <1>2, <1>7 DEF g

\* cJSON_ReplaceItemInArray puts the new item's tree where the member was and frees
\* the member with what is below it, but none of its siblings (cJSON.c:920).
THEOREM ReplaceForest ==
  ASSUME NEW h, NEW R, Forest(h, R), NEW item \in R, NEW a \in DOMAIN h, NEW c \in DOMAIN h,
         h[c].prev # Null \/ h[a].child = c, c \notin Freed(h, item)
  PROVE  Forest(ReplaceItem(h, a, c, item), R \ {item})
<1> DEFINE g == Replaced(h, a, c, item)
<1>1. c \notin R /\ Forest(g, (R \cup {c}) \ {item})
  BY ReplacedForest
<1>2. item # c /\ ReplaceItem(h, a, c, item) = Delete(g, c)
  BY <1>1 DEF ReplaceItem, Replaced
<1>3. c \in (R \cup {c}) \ {item} /\ ((R \cup {c}) \ {item}) \ {c} = R \ {item}
  BY <1>1, <1>2
<1> HIDE DEF g
<1>4. Forest(Delete(g, c), R \ {item})
  BY <1>1, <1>3, DeleteForest
<1> QED BY <1>2, <1>4

-------------------------------------------------------------------------------
\* 2. Lists.
\* What can be reached by next alone: the rest of a list.

\* The rest of a list from c is c and the rest from the item after it.
LEMMA OnwardStep ==
  ASSUME NEW h, NEW c \in DOMAIN h
  PROVE  Onward(h, c) = {c} \cup Onward(h, h[c].next)
<1> DEFINE n == h[c].next
<1>1. /\ Onward(h, c) \subseteq DOMAIN h /\ c \in Onward(h, c) /\ NextClosed(h, Onward(h, c))
      /\ Onward(h, n) \subseteq DOMAIN h /\ (n \in DOMAIN h => n \in Onward(h, n))
      /\ NextClosed(h, Onward(h, n))
  BY OnwardClosed
<1>2. Onward(h, c) \subseteq {c} \cup Onward(h, n)
  <2>1. NextClosed(h, {c} \cup Onward(h, n))
    BY <1>1 DEF NextClosed
  <2> QED BY <1>1, <2>1, OnwardLeast
<1>3. Onward(h, n) \subseteq Onward(h, c)
  <2>1. n \in DOMAIN h => n \in Onward(h, c)
    BY <1>1 DEF NextClosed
  <2> QED BY <1>1, <2>1, OnwardLeast
<1> QED BY <1>1, <1>2, <1>3

\* From the null pointer there is none.
LEMMA OnwardNone ==
  ASSUME NEW h, NEW c, c \notin DOMAIN h
  PROVE  Onward(h, c) = {}
<1>1. NextClosed(h, {})
  BY DEF NextClosed
<1> QED BY <1>1, OnwardLeast

\* The rest from a later item is a part of the rest.
LEMMA OnwardTrans ==
  ASSUME NEW h, NEW x, NEW y \in Onward(h, x)
  PROVE  Onward(h, y) \subseteq Onward(h, x)
  BY OnwardClosed, OnwardLeast

\* Only the first has none before it.
LEMMA OnwardBefore ==
  ASSUME NEW h, NEW x, NEW y \in Onward(h, x), y # x
  PROVE  \E w \in Onward(h, x) : h[w].next = y
<1> SUFFICES ASSUME \A w \in Onward(h, x) : h[w].next # y PROVE FALSE
  OBVIOUS
<1>1. /\ Onward(h, x) \subseteq DOMAIN h /\ (x \in DOMAIN h => x \in Onward(h, x))
      /\ NextClosed(h, Onward(h, x))
  BY OnwardClosed
<1>2. NextClosed(h, Onward(h, x) \ {y})
  BY <1>1 DEF NextClosed
<1>3. Onward(h, x) \subseteq Onward(h, x) \ {y}
  BY <1>1, <1>2, OnwardLeast
<1> QED BY <1>3

\* Of two items of a list one follows the other.
LEMMA OnwardTotal ==
  ASSUME NEW h, NEW x, NEW y \in Onward(h, x), NEW z \in Onward(h, x)
  PROVE  z \in Onward(h, y) \/ y \in Onward(h, z)
<1> DEFINE S == {w \in Onward(h, x) : w \in Onward(h, y) \/ y \in Onward(h, w)}
<1>1. /\ Onward(h, x) \subseteq DOMAIN h /\ (x \in DOMAIN h => x \in Onward(h, x))
      /\ NextClosed(h, Onward(h, x))
  BY OnwardClosed
<1>2. NextClosed(h, S)
  <2> SUFFICES ASSUME NEW w \in S, h[w].next \in DOMAIN h PROVE h[w].next \in S
    BY DEF NextClosed
  <2>1. h[w].next \in Onward(h, x)
    BY <1>1 DEF NextClosed
  <2>2. CASE w \in Onward(h, y)
    BY <2>1, <2>2, OnwardClosed DEF NextClosed
  <2>3. CASE y \in Onward(h, w) /\ y # w
    BY <1>1, <2>1, <2>3, OnwardStep
  <2>4. CASE y = w
    BY <1>1, <2>1, <2>4, OnwardClosed DEF NextClosed
  <2> QED BY <2>2, <2>3, <2>4
<1>3. Onward(h, x) \subseteq S
  BY <1>1, <1>2, OnwardLeast
<1> QED BY <1>3

\* No item of a forest follows itself: a circle would be reached from nowhere.
LEMMA OnwardNoCircle ==
  ASSUME NEW h, NEW R, Forest(h, R), NEW c \in DOMAIN h
  PROVE  c \notin Onward(h, h[c].next)
<1> SUFFICES ASSUME c \in Onward(h, h[c].next) PROVE FALSE
  OBVIOUS
<1> DEFINE Z == Onward(h, c)
<1>1. Z \subseteq DOMAIN h /\ c \in Z /\ NextClosed(h, Z)
  BY OnwardClosed
<1>2. Z \subseteq {z \in Z : c \in Onward(h, h[z].next)}
  <2> DEFINE S == {z \in Z : c \in Onward(h, h[z].next)}
  <2>1. NextClosed(h, S)
    <3> SUFFICES ASSUME NEW z \in S, h[z].next \in DOMAIN h PROVE h[z].next \in S
      BY DEF NextClosed
    <3>1. h[z].next \in Z
      BY <1>1 DEF NextClosed
    <3>2. c = h[z].next \/ c \in Onward(h, h[h[z].next].next)
      BY OnwardStep
    <3> QED BY <3>1, <3>2
  <2> QED BY <1>1, <2>1, OnwardLeast
<1>3. ASSUME NEW y \in Z PROVE \E w \in Z : h[w].next = y
  <2>1. y \in Onward(h, h[y].next)
    BY <1>2, OnwardTrans
  <2>2. \E w \in Onward(h, y) : h[w].next = y
    <3>1. CASE h[y].next = y
      BY <1>1, <3>1, OnwardClosed
    <3>2. CASE h[y].next # y
      BY <1>1, <2>1, <3>2, OnwardBefore, OnwardStep
    <3> QED BY <3>1, <3>2
  <2> QED BY <2>2, OnwardTrans
<1> HIDE DEF Z
<1>4. Closed(h, DOMAIN h \ Z)
  BY <1>1, <1>3, OneReferrer DEF Closed, Forest
<1>5. R \cap Z = {}
  BY <1>1, <1>3 DEF Forest, Linked, Rooted
<1>6. Reach(h, R) \subseteq DOMAIN h \ Z
  BY <1>4, <1>5, ReachLeast DEF Forest, Rooted
<1> QED BY <1>1, <1>6 DEF Forest

\* No two items of a list come each after the other.
LEMMA OnwardAntisym ==
  ASSUME NEW h, NEW R, Forest(h, R), NEW x \in DOMAIN h, NEW y \in Onward(h, x), x \in Onward(h, y)
  PROVE  x = y
  BY OnwardNoCircle, OnwardStep, OnwardTrans

-------------------------------------------------------------------------------
\* The members of an item.

\* A member has an item before it or is the first.
LEMMA ListedMember ==
  ASSUME NEW h, Linked(h), NEW a \in DOMAIN h, NEW x \in Listed(h, a)
  PROVE  /\ x \in DOMAIN h /\ x # Null
         /\ h[x].prev # Null \/ h[a].child = x
         /\ h[x].prev # Null => h[x].prev \in Listed(h, a)
<1>1. x \in DOMAIN h /\ x # Null
  BY OnwardClosed DEF Listed, Linked
<1>2. h[a].child # x => \E w \in Listed(h, a) : h[w].next = x
  BY OnwardBefore DEF Listed
<1>3. \A w \in Listed(h, a) : w \in DOMAIN h /\ w # Null
  BY OnwardClosed DEF Listed, Linked
<1>4. h[a].child = x => h[x].prev = Null
  BY <1>1 DEF Linked
<1>5. \A w \in DOMAIN h : h[w].next = x => h[x].prev = w
  BY <1>1 DEF Linked
<1> QED BY <1>1, <1>2, <1>3, <1>4, <1>5

\* No two items share a member.
LEMMA ListedApart ==
  ASSUME NEW h, Linked(h), NEW a \in DOMAIN h, NEW b \in DOMAIN h, a # b
  PROVE  Listed(h, a) \cap Listed(h, b) = {}
<1> DEFINE S == Listed(h, a) \ Listed(h, b)
<1>1. Listed(h, a) \subseteq DOMAIN h /\ NextClosed(h, Listed(h, a))
      /\ (h[a].child \in DOMAIN h => h[a].child \in Listed(h, a))
  BY OnwardClosed DEF Listed
<1>2. h[a].child \in DOMAIN h => h[a].child \notin Listed(h, b)
  BY ListedMember DEF Linked
<1>3. NextClosed(h, S)
  <2> SUFFICES ASSUME NEW z \in S, h[z].next \in DOMAIN h, h[z].next \in Listed(h, b) PROVE FALSE
    BY <1>1 DEF NextClosed
  <2>1. z \in DOMAIN h /\ z # Null /\ h[h[z].next].prev = z
    BY <1>1 DEF Linked
  <2> QED BY <2>1, ListedMember
<1>4. Listed(h, a) \subseteq S
  <2>1. Onward(h, h[a].child) \subseteq S
    BY <1>1, <1>2, <1>3, OnwardLeast
  <2> QED BY <2>1 DEF Listed
<1> QED BY <1>4

\* A member is not a root.
LEMMA ListedNoRoot ==
  ASSUME NEW h, NEW R, Forest(h, R), NEW a \in DOMAIN h, NEW x \in Listed(h, a)
  PROVE  x \notin R
  BY ListedMember DEF Forest, Rooted

\* A finite heap has finite lists.
LEMMA ListedFinite ==
  ASSUME NEW h, IsFiniteSet(DOMAIN h), NEW a
  PROVE  IsFiniteSet(Listed(h, a))
  BY OnwardClosed, FS_Subset DEF Listed

\* And finite rests of lists.
LEMMA OnwardFinite ==
  ASSUME NEW h, IsFiniteSet(DOMAIN h), NEW c
  PROVE  IsFiniteSet(Onward(h, c))
  BY OnwardClosed, FS_Subset

\* A list that is not empty has one last member.
LEMMA LastMember ==
  ASSUME NEW h, NEW R, Forest(h, R), IsFiniteSet(DOMAIN h), NEW a \in DOMAIN h, h[a].child # Null
  PROVE  LET last == CHOOSE c \in Listed(h, a) : h[c].next = Null
         IN /\ last \in Listed(h, a) /\ h[last].next = Null
            /\ \A x \in Listed(h, a) : last \in Onward(h, x)
<1> DEFINE L == Listed(h, a)
           last == CHOOSE c \in L : h[c].next = Null
<1>1. L \subseteq DOMAIN h /\ h[a].child \in L /\ NextClosed(h, L)
  BY OnwardClosed DEF Listed, Forest, Linked
<1>2. \E c \in L : h[c].next = Null
  <2> SUFFICES ASSUME \A c \in L : h[c].next # Null PROVE FALSE
    OBVIOUS
  <2> DEFINE f == [c \in L |-> h[c].next]
             T == L \ {h[a].child}
  <2>1. \A c \in L : h[c].next \in T
    BY <1>1 DEF Forest, Linked, NextClosed
  <2>2. \A c, d \in L : h[c].next = h[d].next => c = d
    BY <1>1 DEF Forest, Linked
  <2>3. f \in Injection(L, T)
    BY <2>1, <2>2 DEF Injection, IsInjective
  <2>4. IsFiniteSet(L) /\ IsFiniteSet(T)
    BY ListedFinite, FS_Subset
  <2>5. Cardinality(L) <= Cardinality(T)
    BY <2>3, <2>4, FS_Injection
  <2>6. Cardinality(T) = Cardinality(L) - 1
    BY <1>1, <2>4, FS_RemoveElement
  <2>7. Cardinality(L) \in Nat
    BY <2>4, FS_CardinalityType
  <2> QED BY <2>5, <2>6, <2>7
<1>3. last \in L /\ h[last].next = Null
  BY <1>2
<1> HIDE DEF last
<1>4. ASSUME NEW x \in L PROVE last \in Onward(h, x)
  <2>1. Null \notin DOMAIN h
    BY DEF Forest, Linked
  <2>2. Onward(h, last) = {last}
    BY <1>1, <1>3, <2>1, OnwardStep, OnwardNone
  <2>3. last \in Onward(h, x) \/ x \in Onward(h, last)
    BY <1>3, OnwardTotal DEF Listed
  <2>4. x \in Onward(h, x)
    BY <1>1, OnwardClosed
  <2> QED BY <2>2, <2>3, <2>4
<1> QED BY <1>3, <1>4 DEF last

-------------------------------------------------------------------------------
\* Looking a member up.  IsAt and IsNamed are what GetArrayItem and GetObjectItem
\* look for.

IsAt(h, a, i, c) ==
  c \in Listed(h, a) /\ Cardinality(UpTo(h, a, c)) = (IF i < 0 THEN 0 ELSE i) + 1

IsNamed(h, a, k, c) ==
  /\ c \in Listed(h, a) /\ Fold(h[c].name) = Fold(k)
  /\ \A d \in Listed(h, a) : Fold(h[d].name) = Fold(k) => d \in Onward(h, c)

\* And finite beginnings.
LEMMA UpToFinite ==
  ASSUME NEW h, IsFiniteSet(DOMAIN h), NEW a, NEW c
  PROVE  IsFiniteSet(UpTo(h, a, c)) /\ Cardinality(UpTo(h, a, c)) \in Nat
<1>1. UpTo(h, a, c) \subseteq Listed(h, a)
  BY DEF UpTo
<1> QED BY <1>1, ListedFinite, FS_Subset, FS_CardinalityType

\* Two members are not at the same position.
LEMMA PositionOnce ==
  ASSUME NEW h, NEW R, Forest(h, R), IsFiniteSet(DOMAIN h), NEW a \in DOMAIN h,
         NEW x \in Listed(h, a), NEW y \in Listed(h, a),
         Cardinality(UpTo(h, a, x)) = Cardinality(UpTo(h, a, y))
  PROVE  x = y
<1>1. ASSUME NEW u \in Listed(h, a), NEW v \in Listed(h, a), v \in Onward(h, u),
             Cardinality(UpTo(h, a, u)) = Cardinality(UpTo(h, a, v))
      PROVE  u = v
  <2>1. UpTo(h, a, u) \subseteq UpTo(h, a, v)
    BY <1>1, OnwardTrans DEF UpTo
  <2>2. UpTo(h, a, u) = UpTo(h, a, v)
    BY <1>1, <2>1, UpToFinite, FS_Subset
  <2>3. v \in DOMAIN h /\ v \in Onward(h, v)
    BY <1>1, OnwardClosed DEF Listed
  <2>4. u \in Onward(h, v)
    BY <1>1, <2>2, <2>3 DEF UpTo
  <2>5. u \in DOMAIN h
    BY OnwardClosed DEF Listed
  <2> QED BY <1>1, <2>4, <2>5, OnwardAntisym
<1>2. y \in Onward(h, x) \/ x \in Onward(h, y)
  BY OnwardTotal DEF Listed
<1> QED BY <1>1, <1>2

\* GetArrayItem returns the member at i and nothing else.
LEMMA GetArrayItemIs ==
  ASSUME NEW h, NEW R, Forest(h, R), IsFiniteSet(DOMAIN h), NEW a \in DOMAIN h, NEW i
  PROVE  /\ GetArrayItem(h, a, i) # Null => IsAt(h, a, i, GetArrayItem(h, a, i))
         /\ \A c : IsAt(h, a, i, c) => GetArrayItem(h, a, i) = c /\ c # Null
<1> DEFINE at == {c \in Listed(h, a) : Cardinality(UpTo(h, a, c)) = (IF i < 0 THEN 0 ELSE i) + 1}
<1>1. GetArrayItem(h, a, i) = IF at = {} THEN Null ELSE CHOOSE c \in at : TRUE
  BY DEF GetArrayItem
<1>2. \A c, d \in at : c = d
  BY PositionOnce DEF IsAt
<1>3. \A c \in Listed(h, a) : c # Null
  BY ListedMember DEF Forest
<1>4. \A c : IsAt(h, a, i, c) <=> c \in at
  BY DEF IsAt
<1> HIDE DEF at
<1>5. at # {} => (CHOOSE c \in at : TRUE) \in at
  OBVIOUS
<1>6. at \subseteq Listed(h, a)
  BY DEF at
<1> QED BY <1>1, <1>2, <1>3, <1>4, <1>5, <1>6

\* GetObjectItem returns the first member with the name k and nothing else.
LEMMA GetObjectItemIs ==
  ASSUME NEW h, NEW R, Forest(h, R), NEW a \in DOMAIN h, NEW k
  PROVE  /\ GetObjectItem(h, a, k) # Null => IsNamed(h, a, k, GetObjectItem(h, a, k))
         /\ \A c : IsNamed(h, a, k, c) => GetObjectItem(h, a, k) = c /\ c # Null
<1> DEFINE named == {c \in Listed(h, a) : Fold(h[c].name) = Fold(k)}
           first == {c \in named : named \subseteq Onward(h, c)}
<1>1. first = {c \in Listed(h, a) : IsNamed(h, a, k, c)}
  BY DEF IsNamed
<1>2. GetObjectItem(h, a, k) = IF first = {} THEN Null ELSE CHOOSE c \in first : TRUE
  BY DEF GetObjectItem
<1>3. \A c \in Listed(h, a) : c # Null /\ c \in DOMAIN h
  BY ListedMember DEF Forest
<1>4. \A c, d \in first : c = d
  BY <1>1, <1>3, OnwardAntisym DEF IsNamed
<1>5. \A c : IsNamed(h, a, k, c) <=> c \in first
  BY <1>1 DEF IsNamed
<1>6. first \subseteq Listed(h, a)
  OBVIOUS
<1> HIDE DEF first
<1>7. first # {} => (CHOOSE c \in first : TRUE) \in first
  OBVIOUS
<1> QED BY <1>2, <1>3, <1>4, <1>5, <1>6, <1>7

-------------------------------------------------------------------------------
\* What an edit leaves as it was.

\* What happens outside a closed set S leaves the lists in S as they are.
LEMMA OnwardFrame ==
  ASSUME NEW h, NEW g, NEW x, NEW S \in SUBSET (DOMAIN h \cap DOMAIN g),
         x \in DOMAIN h \cup DOMAIN g => x \in S, NextClosed(h, S), NextClosed(g, S),
         \A c \in S : g[c].next = h[c].next
  PROVE  Onward(g, x) = Onward(h, x)
<1>1. /\ Onward(h, x) \subseteq DOMAIN h /\ (x \in DOMAIN h => x \in Onward(h, x))
      /\ NextClosed(h, Onward(h, x))
      /\ Onward(g, x) \subseteq DOMAIN g /\ (x \in DOMAIN g => x \in Onward(g, x))
      /\ NextClosed(g, Onward(g, x))
  BY OnwardClosed
<1>2. Onward(h, x) \subseteq S /\ Onward(g, x) \subseteq S
  BY OnwardLeast
<1>3. NextClosed(g, Onward(h, x))
  BY <1>1, <1>2 DEF NextClosed
<1>4. NextClosed(h, Onward(g, x))
  BY <1>1, <1>2 DEF NextClosed
<1>5. Onward(g, x) \subseteq Onward(h, x)
  BY <1>1, <1>2, <1>3, OnwardLeast
<1>6. Onward(h, x) \subseteq Onward(g, x)
  BY <1>1, <1>2, <1>4, OnwardLeast
<1> QED BY <1>5, <1>6

\* b has the same members, in the same order and with the same names.
SameList(h, g, b) ==
  /\ b \in DOMAIN h /\ b \in DOMAIN g
  /\ g[b].type = h[b].type
  /\ Listed(g, b) = Listed(h, b)
  /\ \A x \in Listed(h, b) : Onward(g, x) = Onward(h, x) /\ g[x].name = h[x].name

\* In the same list the same members are found.
LEMMA SameFound ==
  ASSUME NEW h, NEW g, NEW b, SameList(h, g, b)
  PROVE  /\ \A k : GetObjectItem(g, b, k) = GetObjectItem(h, b, k)
         /\ \A i : GetArrayItem(g, b, i) = GetArrayItem(h, b, i)
<1>1. ASSUME NEW k PROVE GetObjectItem(g, b, k) = GetObjectItem(h, b, k)
  <2> DEFINE named(f) == {c \in Listed(f, b) : Fold(f[c].name) = Fold(k)}
             first(f) == {c \in named(f) : named(f) \subseteq Onward(f, c)}
  <2>1. named(g) = named(h)
    BY DEF SameList
  <2>2. first(g) = first(h)
    BY <2>1 DEF SameList
  <2> HIDE DEF first
  <2>3. GetObjectItem(g, b, k) = IF first(g) = {} THEN Null ELSE CHOOSE c \in first(g) : TRUE
    BY DEF GetObjectItem, first
  <2>4. GetObjectItem(h, b, k) = IF first(h) = {} THEN Null ELSE CHOOSE c \in first(h) : TRUE
    BY DEF GetObjectItem, first
  <2> QED BY <2>2, <2>3, <2>4
<1>2. \A x \in Listed(h, b) : UpTo(g, b, x) = UpTo(h, b, x)
  BY DEF SameList, UpTo
<1>3. ASSUME NEW i PROVE GetArrayItem(g, b, i) = GetArrayItem(h, b, i)
  <2> DEFINE at(f) == {c \in Listed(f, b) : Cardinality(UpTo(f, b, c)) = (IF i < 0 THEN 0 ELSE i) + 1}
  <2>1. at(g) = at(h)
    BY <1>2 DEF SameList
  <2> HIDE DEF at
  <2>2. GetArrayItem(g, b, i) = IF at(g) = {} THEN Null ELSE CHOOSE c \in at(g) : TRUE
    BY DEF GetArrayItem, at
  <2>3. GetArrayItem(h, b, i) = IF at(h) = {} THEN Null ELSE CHOOSE c \in at(h) : TRUE
    BY DEF GetArrayItem, at
  <2> QED BY <2>1, <2>2, <2>3
<1> QED BY <1>1, <1>3

-------------------------------------------------------------------------------
\* The list a member is cut out of.

\* Cutting c off takes it out of its list and leaves the order of the rest.
LEMMA CutOnward ==
  ASSUME NEW h, NEW R, Forest(h, R), NEW a \in DOMAIN h, NEW c \in Listed(h, a),
         NEW g, Cut(h, g, a, c)
  PROVE  /\ Onward(g, c) = {c}
         /\ \A x \in DOMAIN h \ {c} : Onward(g, x) = Onward(h, x) \ {c}
         /\ \A b \in DOMAIN h : Listed(g, b) = Listed(h, b) \ {c}
<1> DEFINE n == h[c].next
           p == h[c].prev
<1>1. /\ c \in DOMAIN h /\ (p # Null \/ h[a].child = c)
      /\ Null \notin DOMAIN h
  BY ListedMember DEF Forest, Linked
<1>2. c \notin R /\ n # c /\ p # c
  BY <1>1, MemberApart
<1>3. /\ p \in DOMAIN h \cup {Null} /\ n \in DOMAIN h \cup {Null}
      /\ \A z \in DOMAIN h : h[z].next = c <=> (z = p /\ p # Null)
      /\ \A z \in DOMAIN h : h[z].next \in DOMAIN h \cup {Null}
  BY <1>1 DEF Forest, Linked
<1>4. /\ DOMAIN g = DOMAIN h
      /\ \A z \in DOMAIN h : g[z].next = IF z = c THEN Null ELSE IF z = p THEN n ELSE h[z].next
  BY DEF Cut
<1>5. \A z \in DOMAIN h : g[z].child = IF z = a /\ h[a].child = c THEN n ELSE h[z].child
  BY DEF Cut
<1> HIDE DEF n, p
<1>6. Onward(g, c) = {c}
  BY <1>1, <1>4, OnwardStep, OnwardNone
<1>7. ASSUME NEW x \in DOMAIN h \ {c} PROVE Onward(g, x) = Onward(h, x) \ {c}
  <2>1. /\ Onward(h, x) \subseteq DOMAIN h /\ x \in Onward(h, x) /\ NextClosed(h, Onward(h, x))
        /\ Onward(g, x) \subseteq DOMAIN h /\ x \in Onward(g, x) /\ NextClosed(g, Onward(g, x))
    BY <1>4, <1>7, OnwardClosed
  <2>2. NextClosed(g, Onward(h, x) \ {c})
    <3> SUFFICES ASSUME NEW z \in Onward(h, x) \ {c}, g[z].next \in DOMAIN h
                 PROVE  g[z].next \in Onward(h, x) \ {c}
      BY <1>4 DEF NextClosed
    <3>1. CASE z = p
      <4>1. h[p].next = c /\ h[c].next = n
        BY <1>1, <1>3, <2>1, <3>1 DEF n
      <4>2. n \in DOMAIN h /\ c \in Onward(h, x)
        BY <1>1, <1>4, <2>1, <3>1, <4>1 DEF NextClosed
      <4> QED BY <1>2, <1>4, <2>1, <3>1, <4>1, <4>2 DEF NextClosed
    <3>2. CASE z # p
      BY <1>3, <1>4, <2>1, <3>2 DEF NextClosed
    <3> QED BY <3>1, <3>2
  <2>3. Onward(g, x) \subseteq Onward(h, x) \ {c}
    BY <1>4, <1>7, <2>1, <2>2, OnwardLeast
  <2> DEFINE S == {z \in Onward(h, x) : z \in Onward(g, x) \/ (z = c /\ p \in Onward(g, x))}
  <2>4. NextClosed(h, S)
    <3> SUFFICES ASSUME NEW z \in S, h[z].next \in DOMAIN h PROVE h[z].next \in S
      BY DEF NextClosed
    <3>1. h[z].next \in Onward(h, x)
      BY <2>1 DEF NextClosed
    <3>2. CASE z = c
      <4>1. p \in Onward(g, x) /\ p \in DOMAIN h /\ g[p].next = n /\ n \in DOMAIN h /\ h[z].next = n
        BY <1>2, <1>4, <2>1, <2>3, <3>2 DEF n
      <4> QED BY <1>4, <2>1, <3>1, <4>1 DEF NextClosed
    <3>3. CASE z # c /\ z = p
      BY <1>1, <1>3, <2>1, <3>1, <3>3
    <3>4. CASE z # c /\ z # p
      BY <1>4, <2>1, <3>1, <3>4 DEF NextClosed
    <3> QED BY <3>2, <3>3, <3>4
  <2>5. Onward(h, x) \subseteq S
    BY <2>1, <2>4, OnwardLeast
  <2> QED BY <2>3, <2>5
<1>8. ASSUME NEW b \in DOMAIN h PROVE Listed(g, b) = Listed(h, b) \ {c}
  <2>1. CASE h[b].child = c
    <3>1. a = b
      BY <1>1, <2>1, ListedApart, OnwardClosed DEF Forest, Listed
    <3>2. g[b].child = n
      BY <1>5, <2>1, <3>1
    <3>3. Onward(h, c) = {c} \cup Onward(h, n) /\ c \notin Onward(h, n)
      BY <1>1, OnwardStep, OnwardNoCircle DEF n
    <3>4. Onward(g, n) = Onward(h, n)
      <4>1. CASE n = Null
        BY <1>1, <1>4, <4>1, OnwardNone
      <4>2. CASE n # Null
        <5>1. n \in DOMAIN h \ {c}
          BY <1>2, <1>3, <4>2
        <5>2. Onward(g, n) = Onward(h, n) \ {c}
          BY <1>7, <5>1
        <5> QED BY <3>3, <5>2
      <4> QED BY <4>1, <4>2
    <3> QED BY <2>1, <3>2, <3>3, <3>4 DEF Listed
  <2>2. CASE h[b].child # c
    <3>1. g[b].child = h[b].child
      BY <1>5, <2>2
    <3>2. h[b].child \in DOMAIN h \cup {Null}
      BY DEF Forest, Linked
    <3> QED BY <1>1, <1>4, <1>7, <2>2, <3>1, <3>2, OnwardNone DEF Listed
  <2> QED BY <2>1, <2>2
<1> QED BY <1>6, <1>7, <1>8

\* p and n are neighbours among the members of a.
Neighbours(h, a, p, n) ==
  /\ p = Null => n = h[a].child
  /\ p # Null => p \in Listed(h, a) /\ n = h[p].next

\* The list an item is put into.
LEMMA InsertedOnward ==
  ASSUME NEW h, NEW R, Forest(h, R), NEW item \in R, NEW a \in DOMAIN h, a # item,
         NEW p, NEW n, Neighbours(h, a, p, n), NEW g, Inserted(h, g, a, p, n, item)
  PROVE  /\ Onward(g, item) = {item} \cup Onward(h, n)
         /\ \A x \in DOMAIN h \ {item} :
              Onward(g, x) = IF p \in Onward(h, x) THEN Onward(h, x) \cup {item} ELSE Onward(h, x)
         /\ \A b \in DOMAIN h :
              Listed(g, b) = IF b = a THEN Listed(h, b) \cup {item} ELSE Listed(h, b)
<1> USE DEF Neighbours
<1>1. /\ item \in DOMAIN h /\ h[item].next = Null /\ h[item].prev = Null
      /\ \A c \in DOMAIN h : h[c].child # item /\ h[c].next # item
      /\ Null \notin DOMAIN h
      /\ \A c \in DOMAIN h : h[c].next \in DOMAIN h \cup {Null} /\ h[c].child \in DOMAIN h \cup {Null}
  BY DEF Forest, Linked, Rooted
<1>2. p # item /\ (p # Null => p \in DOMAIN h)
  BY <1>1, ListedMember DEF Forest
<1>3. n \in DOMAIN h \cup {Null} /\ n # item
  BY <1>1, <1>2
<1>4. /\ DOMAIN g = DOMAIN h
      /\ \A x \in DOMAIN h : g[x].next = IF x = item THEN n ELSE IF x = p THEN item ELSE h[x].next
      /\ \A x \in DOMAIN h : g[x].child = IF x = a /\ p = Null THEN item ELSE h[x].child
  BY DEF Inserted
<1>5. ASSUME NEW x \in DOMAIN h \cup {Null}, x # item PROVE item \notin Onward(h, x)
  BY <1>1, <1>5, OnwardBefore, OnwardClosed
<1>6. ASSUME NEW x \in DOMAIN h \cup {Null}, x # item, p \notin Onward(h, x)
      PROVE  Onward(g, x) = Onward(h, x)
  <2>1. /\ Onward(h, x) \subseteq DOMAIN h /\ (x \in DOMAIN h => x \in Onward(h, x))
        /\ NextClosed(h, Onward(h, x)) /\ item \notin Onward(h, x)
    BY <1>5, <1>6, OnwardClosed
  <2>2. \A c \in Onward(h, x) : g[c].next = h[c].next
    BY <1>4, <1>6, <2>1
  <2>3. NextClosed(g, Onward(h, x))
    BY <1>4, <2>1, <2>2 DEF NextClosed
  <2> QED BY <1>4, <2>1, <2>2, <2>3, OnwardFrame
<1>7. p \notin Onward(h, n)
  BY <1>1, <1>2, OnwardNoCircle, OnwardClosed
<1>8. Onward(g, item) = {item} \cup Onward(h, n)
  BY <1>1, <1>3, <1>4, <1>6, <1>7, OnwardStep
<1>9. ASSUME NEW x \in DOMAIN h \ {item}, p \in Onward(h, x)
      PROVE  Onward(g, x) = Onward(h, x) \cup {item}
  <2>1. /\ Onward(h, x) \subseteq DOMAIN h /\ x \in Onward(h, x) /\ NextClosed(h, Onward(h, x))
        /\ Onward(g, x) \subseteq DOMAIN h /\ x \in Onward(g, x) /\ NextClosed(g, Onward(g, x))
        /\ item \notin Onward(h, x)
    BY <1>4, <1>5, <1>9, OnwardClosed
  <2>2. p \in DOMAIN h /\ p # Null /\ n = h[p].next
    BY <1>1, <1>9, <2>1
  <2>3. NextClosed(g, Onward(h, x) \cup {item})
    BY <1>1, <1>4, <1>9, <2>1, <2>2 DEF NextClosed
  <2>4. Onward(g, x) \subseteq Onward(h, x) \cup {item}
    BY <1>1, <1>4, <2>1, <2>3, OnwardLeast
  <2>5. NextClosed(h, Onward(g, x) \cap Onward(h, x))
    <3> SUFFICES ASSUME NEW z \in Onward(g, x) \cap Onward(h, x), h[z].next \in DOMAIN h
                 PROVE  h[z].next \in Onward(g, x)
      BY <2>1 DEF NextClosed
    <3>1. CASE z = p
      <4>1. item \in Onward(g, x)
        BY <1>1, <1>2, <1>4, <2>1, <2>2, <3>1 DEF NextClosed
      <4> QED BY <1>1, <1>4, <2>1, <2>2, <3>1, <4>1 DEF NextClosed
    <3>2. CASE z # p
      BY <1>4, <2>1, <3>2 DEF NextClosed
    <3> QED BY <3>1, <3>2
  <2>6. Onward(h, x) \subseteq Onward(g, x)
    BY <2>1, <2>5, OnwardLeast
  <2>7. item \in Onward(g, x)
    BY <1>1, <1>2, <1>4, <1>9, <2>1, <2>2, <2>6 DEF NextClosed
  <2> QED BY <2>4, <2>6, <2>7
<1>10. ASSUME NEW b \in DOMAIN h
       PROVE  Listed(g, b) = IF b = a THEN Listed(h, b) \cup {item} ELSE Listed(h, b)
  <2>1. CASE b = a /\ p = Null
    BY <1>4, <1>8, <2>1 DEF Listed
  <2>2. CASE b = a /\ p # Null
    <3>1. p \in Onward(h, h[b].child) /\ g[b].child = h[b].child
      BY <1>4, <2>2 DEF Listed
    <3>2. h[b].child \in DOMAIN h
      BY <1>1, <3>1, OnwardNone
    <3> QED BY <1>1, <1>9, <2>2, <3>1, <3>2 DEF Listed
  <2>3. CASE b # a
    <3>1. p \notin Onward(h, h[b].child) /\ g[b].child = h[b].child
      BY <1>1, <1>4, <2>3, ListedApart, ListedMember DEF Listed, Forest
    <3> QED BY <1>1, <1>6, <2>3, <3>1 DEF Listed
  <2> QED BY <2>1, <2>2, <2>3
<1>11. \A x \in DOMAIN h \ {item} :
         Onward(g, x) = IF p \in Onward(h, x) THEN Onward(h, x) \cup {item} ELSE Onward(h, x)
  BY <1>6, <1>9
<1> QED BY <1>8, <1>10, <1>11

-------------------------------------------------------------------------------
\* What an operation leaves of the items apart from their links.

Kept(h, g) == /\ DOMAIN g = DOMAIN h /\ Items(g)
              /\ \A c \in DOMAIN h : g[c].type = h[c].type /\ g[c].name = h[c].name

\* Assignments to links keep the rest of the items.
LEMMA SetKeeps ==
  ASSUME NEW h, Items(h), NEW c, NEW n
  PROVE  Kept(h, SetNext(h, c, n)) /\ Kept(h, SetPrev(h, c, n)) /\ Kept(h, SetChild(h, c, n))
  BY DEF Items, Kept, SetNext, SetPrev, SetChild

\* One after the other.
LEMMA KeptTwice ==
  ASSUME NEW h, NEW f, NEW g, Kept(h, f), Kept(f, g)
  PROVE  Kept(h, g)
  BY DEF Kept

\* So do the operations made of them.
LEMMA SuffixKeeps ==
  ASSUME NEW h, Items(h), NEW c, NEW item
  PROVE  Kept(h, suffix_object(h, c, item))
<1> DEFINE f == SetNext(h, c, item)
<1>1. Kept(h, f)
  BY SetKeeps
<1> HIDE DEF f
<1>2. Kept(f, SetPrev(f, item, c))
  BY <1>1, SetKeeps DEF Kept
<1> QED BY <1>1, <1>2, KeptTwice DEF suffix_object, f

\* Adding at the head does.
LEMMA AddHeadKeeps ==
  ASSUME NEW h, Items(h), NEW a, NEW item
  PROVE  Kept(h, AddItemToArrayHead(h, a, item))
<1> DEFINE c == h[a].child
           f1 == SetPrev(h, item, h[c].prev)
           f2 == SetNext(f1, item, c)
           f3 == SetPrev(f2, c, item)
<1>1. Kept(h, f1)
  BY SetKeeps
<1>2. Kept(f1, f2)
  <2> HIDE DEF f1
  <2> QED BY <1>1, SetKeeps DEF Kept
<1>3. Kept(f2, f3)
  <2> HIDE DEF f2
  <2> QED BY <1>2, SetKeeps DEF Kept
<1>4. Kept(f3, SetChild(f3, a, item))
  <2> HIDE DEF f3
  <2> QED BY <1>3, SetKeeps DEF Kept
<1>5. AddItemToArrayHead(h, a, item) = IF c = Null THEN SetChild(h, a, item) ELSE SetChild(f3, a, item)
  BY DEF AddItemToArrayHead
<1> HIDE DEF f1, f2, f3, c
<1>6. Kept(h, SetChild(f3, a, item))
  BY <1>1, <1>2, <1>3, <1>4, KeptTwice
<1>7. Kept(h, SetChild(h, a, item))
  BY SetKeeps
<1> QED BY <1>5, <1>6, <1>7

\* Detaching does.
LEMMA DetachKeeps ==
  ASSUME NEW h, Items(h), NEW a, NEW c
  PROVE  Kept(h, Detach(h, a, c))
<1> DEFINE n == h[c].next
           p == h[c].prev
           before == IF p = Null THEN h ELSE SetNext(h, p, n)
           after == IF n = Null THEN before ELSE SetPrev(before, n, p)
           head == IF c = h[a].child THEN SetChild(after, a, n) ELSE after
           f == SetPrev(head, c, Null)
<1>0. Kept(h, h)
  BY DEF Kept
<1>1. Kept(h, before)
  BY <1>0, SetKeeps
<1>2. Kept(h, after)
  <2> HIDE DEF before
  <2>1. Kept(before, SetPrev(before, n, p))
    BY <1>1, SetKeeps DEF Kept
  <2> QED BY <1>1, <2>1, KeptTwice
<1>3. Kept(h, head)
  <2> HIDE DEF after
  <2>1. Kept(after, SetChild(after, a, n))
    BY <1>2, SetKeeps DEF Kept
  <2> QED BY <1>2, <2>1, KeptTwice
<1>4. Kept(h, f)
  <2> HIDE DEF head
  <2>1. Kept(head, f)
    BY <1>3, SetKeeps DEF Kept
  <2> QED BY <1>3, <2>1, KeptTwice
<1>5. Detach(h, a, c) = SetNext(f, c, Null)
  BY DEF Detach
<1> HIDE DEF f
<1>6. Kept(f, SetNext(f, c, Null))
  BY <1>4, SetKeeps DEF Kept
<1> QED BY <1>4, <1>5, <1>6, KeptTwice

\* Replacing does.
LEMMA ReplacedKeeps ==
  ASSUME NEW h, Items(h), NEW a, NEW c, NEW item
  PROVE  Kept(h, Replaced(h, a, c, item))
<1> DEFINE n == h[c].next
           p == h[c].prev
           f1 == SetNext(h, item, n)
           f2 == SetPrev(f1, item, p)
           f3 == IF n = Null THEN f2 ELSE SetPrev(f2, n, item)
           f4 == IF c = h[a].child THEN SetChild(f3, a, item) ELSE SetNext(f3, p, item)
           f5 == SetNext(f4, c, Null)
<1>1. Kept(h, f1)
  BY SetKeeps
<1>2. Kept(h, f2)
  <2> HIDE DEF f1
  <2>1. Kept(f1, f2)
    BY <1>1, SetKeeps DEF Kept
  <2> QED BY <1>1, <2>1, KeptTwice
<1>3. Kept(h, f3)
  <2> HIDE DEF f2
  <2>1. Kept(f2, SetPrev(f2, n, item))
    BY <1>2, SetKeeps DEF Kept
  <2> QED BY <1>2, <2>1, KeptTwice
<1>4. Kept(h, f4)
  <2> HIDE DEF f3
  <2>1. Kept(f3, SetChild(f3, a, item)) /\ Kept(f3, SetNext(f3, p, item))
    BY <1>3, SetKeeps DEF Kept
  <2> QED BY <1>3, <2>1, KeptTwice
<1>5. Kept(h, f5)
  <2> HIDE DEF f4
  <2>1. Kept(f4, f5)
    BY <1>4, SetKeeps DEF Kept
  <2> QED BY <1>4, <2>1, KeptTwice
<1>6. Replaced(h, a, c, item) = SetPrev(f5, c, Null)
  BY DEF Replaced, Exchange
<1> HIDE DEF f5
<1>7. Kept(f5, SetPrev(f5, c, Null))
  BY <1>5, SetKeeps DEF Kept
<1> QED BY <1>5, <1>6, <1>7, KeptTwice

-------------------------------------------------------------------------------
\* Putting an item at the end of a's members.
Appended(h, g, a, item) ==
  /\ item \notin Listed(h, a)
  /\ Listed(g, a) = Listed(h, a) \cup {item}
  /\ \A x \in Listed(h, a) : Onward(g, x) = Onward(h, x) \cup {item}
  /\ Onward(g, item) = {item}

\* cJSON_AddItemToArray puts item after all members of a and changes no other list.
LEMMA AppendList ==
  ASSUME NEW h, NEW R, Forest(h, R), Items(h), IsFiniteSet(DOMAIN h),
         NEW item \in R, NEW a \in DOMAIN h, a \notin Freed(h, item),
         NEW g, g = AddItemToArray(h, a, item)
  PROVE  /\ Forest(g, R \ {item})
         /\ Kept(h, g)
         /\ \A b \in DOMAIN h \ {a} : SameList(h, g, b)
         /\ Appended(h, g, a, item)
<1> DEFINE last == CHOOSE c \in Listed(h, a) : h[c].next = Null
           p == IF h[a].child = Null THEN Null ELSE last
<1>1. /\ Null \notin DOMAIN h /\ Fields(h) /\ item \in DOMAIN h
      /\ h[item].next = Null /\ h[item].prev = Null
  BY DEF Forest, Linked, Rooted
<1>2. a # item
  BY <1>1, ReachClosed DEF Freed
<1>3. /\ item \notin Listed(h, a)
      /\ \A b \in DOMAIN h : \A x \in Listed(h, b) : x \in DOMAIN h /\ x # Null /\ x # item
      /\ h[a].child = Null => Listed(h, a) = {}
  BY <1>1, ListedNoRoot, ListedMember, OnwardNone DEF Forest, Listed
<1>4. /\ p # Null => p \in Listed(h, a) /\ h[p].next = Null /\ \A x \in Listed(h, a) : p \in Onward(h, x)
      /\ p = Null => h[a].child = Null
  BY <1>3, LastMember
<1>5. Inserted(h, g, a, p, Null, item) /\ Kept(h, g)
  <2>1. CASE h[a].child = Null
    <3>1. g = SetChild(h, a, item) /\ p = Null
      BY <2>1 DEF AddItemToArray
    <3> QED BY <1>1, <2>1, <3>1, SetChildIs, SetKeeps DEF Inserted
  <2>2. CASE h[a].child # Null
    <3>1. g = suffix_object(h, p, item)
      BY <2>2 DEF AddItemToArray
    <3>2. p \in DOMAIN h /\ p # item /\ h[p].next = Null
      BY <1>3, <2>2, LastMember
    <3> HIDE DEF p
    <3> QED BY <3>1, <3>2, SuffixInserts, SuffixKeeps
  <2> QED BY <2>1, <2>2
<1> HIDE DEF p
<1>6. Place(h, R, a, p, Null, item)
  <2>1. Closed(h, DOMAIN h \ Freed(h, item))
    BY OutsideClosed DEF Forest
  <2>2. h[a].child # Null => h[a].child \in DOMAIN h \ Freed(h, item)
    BY <2>1 DEF Closed, Forest, Linked
  <2>3. NextClosed(h, DOMAIN h \ Freed(h, item))
    BY <2>1 DEF Closed, NextClosed
  <2>4. Listed(h, a) \subseteq DOMAIN h \ Freed(h, item)
    BY <2>2, <2>3, <1>1, OnwardLeast DEF Listed
  <2> QED BY <1>4, <2>4, ListedNoRoot DEF Place
<1>7. Forest(g, R \ {item})
  BY <1>5, <1>6, InsertedForest
<1>8a. Neighbours(h, a, p, Null)
  BY <1>4 DEF Neighbours
<1>8. /\ Onward(g, item) = {item} \cup Onward(h, Null)
      /\ \A x \in DOMAIN h \ {item} :
           Onward(g, x) = IF p \in Onward(h, x) THEN Onward(h, x) \cup {item} ELSE Onward(h, x)
      /\ \A b \in DOMAIN h :
           Listed(g, b) = IF b = a THEN Listed(h, b) \cup {item} ELSE Listed(h, b)
  BY <1>2, <1>5, <1>8a, InsertedOnward
<1>9. Onward(h, Null) = {}
  BY <1>1, OnwardNone
<1>10. ASSUME NEW b \in DOMAIN h \ {a} PROVE SameList(h, g, b)
  <2>1. \A x \in Listed(h, b) : Onward(h, x) \subseteq Listed(h, b)
    BY OnwardTrans DEF Listed
  <2>2. p \notin Listed(h, b)
    BY <1>3, <1>4, ListedApart DEF Forest
  <2> QED BY <1>3, <1>5, <1>8, <2>1, <2>2 DEF SameList, Kept
<1>11. \A x \in Listed(h, a) : Onward(g, x) = Onward(h, x) \cup {item}
  BY <1>3, <1>4, <1>8
<1>12. Appended(h, g, a, item)
  BY <1>3, <1>8, <1>9, <1>11 DEF Appended
<1> QED BY <1>5, <1>7, <1>10, <1>12

\* Putting an item before a's members.
LEMMA PrependList ==
  ASSUME NEW h, NEW R, Forest(h, R), Items(h), NEW item \in R, NEW a \in DOMAIN h, a \notin Freed(h, item),
         NEW g, g = AddItemToArrayHead(h, a, item)
  PROVE  /\ Forest(g, R \ {item})
         /\ Kept(h, g)
         /\ \A b \in DOMAIN h \ {a} : SameList(h, g, b)
<1>1. a # item
  BY ReachClosed DEF Freed, Forest, Rooted
<1>2. Inserted(h, g, a, Null, h[a].child, item)
  BY <1>1, AddHeadInserts
<1>3. Kept(h, g) /\ Forest(g, R \ {item})
  BY AddHeadKeeps, AddHeadForest
<1>4. Null \notin DOMAIN h
  BY DEF Forest, Linked
<1>5. \A b \in DOMAIN h : \A x \in Listed(h, b) : x \in DOMAIN h \ {item}
  BY ListedNoRoot, ListedMember DEF Forest
<1>6a. Neighbours(h, a, Null, h[a].child)
  BY DEF Neighbours
<1>6. \A x \in DOMAIN h \ {item} : Onward(g, x) = Onward(h, x)
  BY <1>1, <1>2, <1>4, <1>6a, InsertedOnward, OnwardClosed
<1>7. \A b \in DOMAIN h : b # a => Listed(g, b) = Listed(h, b)
  BY <1>1, <1>2, <1>6a, InsertedOnward
<1> QED BY <1>3, <1>5, <1>6, <1>7 DEF SameList, Kept

\* Taking c out of a's members.
LEMMA DetachList ==
  ASSUME NEW h, NEW R, Forest(h, R), Items(h), NEW a \in DOMAIN h, NEW c \in Listed(h, a),
         NEW g, g = Detach(h, a, c)
  PROVE  /\ Forest(g, R \cup {c}) /\ c \notin R
         /\ Kept(h, g)
         /\ \A b \in DOMAIN h \ {a} : SameList(h, g, b)
         /\ Listed(g, a) = Listed(h, a) \ {c}
         /\ \A x \in Listed(h, a) \ {c} : Onward(g, x) = Onward(h, x) \ {c}
<1>1. c \in DOMAIN h /\ (h[c].prev # Null \/ h[a].child = c)
  BY ListedMember DEF Forest
<1>2. Forest(g, R \cup {c}) /\ Cut(h, g, a, c) /\ Kept(h, g) /\ c \notin R
  BY <1>1, DetachForest, DetachCuts, DetachKeeps, ListedNoRoot DEF Forest
<1>3. /\ \A x \in DOMAIN h \ {c} : Onward(g, x) = Onward(h, x) \ {c}
      /\ \A b \in DOMAIN h : Listed(g, b) = Listed(h, b) \ {c}
  BY <1>2, CutOnward
<1>4. ASSUME NEW b \in DOMAIN h \ {a} PROVE SameList(h, g, b)
  <2>1. \A x \in Listed(h, b) : Onward(h, x) \subseteq Listed(h, b) /\ x \in DOMAIN h
    BY OnwardTrans, ListedMember DEF Listed, Forest
  <2>2. c \notin Listed(h, b)
    BY ListedApart DEF Forest
  <2>3. Listed(g, b) = Listed(h, b)
    BY <1>3, <2>2
  <2>4. ASSUME NEW x \in Listed(h, b) PROVE Onward(g, x) = Onward(h, x)
    <3>1. Onward(g, x) = Onward(h, x) \ {c}
      BY <1>3, <2>1, <2>2
    <3>2. c \notin Onward(h, x)
      BY <2>1, <2>2
    <3> QED BY <3>1, <3>2
  <2> QED BY <1>2, <2>1, <2>3, <2>4 DEF SameList, Kept
<1>5. \A x \in Listed(h, a) : x \in DOMAIN h
  BY ListedMember DEF Forest
<1> QED BY <1>2, <1>3, <1>4, <1>5

\* Putting item in the place of c among a's members.
LEMMA ReplacedList ==
  ASSUME NEW h, NEW R, Forest(h, R), Items(h), NEW item \in R, NEW a \in DOMAIN h, NEW c \in Listed(h, a),
         a \notin Freed(h, item),
         NEW g, g = Replaced(h, a, c, item)
  PROVE  /\ Forest(g, (R \cup {c}) \ {item}) /\ c \notin R
         /\ Kept(h, g)
         /\ \A b \in DOMAIN h \ {a} : SameList(h, g, b)
         /\ item \notin Listed(h, a)
         /\ Listed(g, a) = (Listed(h, a) \ {c}) \cup {item}
         /\ \A x \in Listed(h, a) \ {c} :
              Onward(g, x) = IF c \in Onward(h, x) THEN (Onward(h, x) \ {c}) \cup {item} ELSE Onward(h, x)
         /\ Onward(g, item) = (Onward(h, c) \ {c}) \cup {item}
<1> DEFINE d == Detach(h, a, c)
           p == h[c].prev
           n == h[c].next
<1>1. c \in DOMAIN h /\ (p # Null \/ h[a].child = c) /\ c \notin R /\ c # item
  BY ListedMember, ListedNoRoot DEF Forest
<1>2. a # item
  BY ReachClosed DEF Freed, Forest, Rooted
<1>3. c \notin Freed(h, item)
  <2>1. Closed(h, DOMAIN h \ Freed(h, item))
    BY OutsideClosed DEF Forest
  <2>2. h[a].child \in DOMAIN h => h[a].child \in DOMAIN h \ Freed(h, item)
    BY <2>1 DEF Closed
  <2>3. NextClosed(h, DOMAIN h \ Freed(h, item))
    BY <2>1 DEF Closed, NextClosed
  <2>4. Listed(h, a) \subseteq DOMAIN h \ Freed(h, item)
    BY <2>2, <2>3, OnwardLeast DEF Listed
  <2> QED BY <2>4
<1>4. Forest(g, (R \cup {c}) \ {item}) /\ Kept(h, g) /\ Inserted(d, g, a, p, n, item)
  BY <1>1, <1>3, ReplacedForest, ReplacedKeeps, ReplacedInserts
<1>5. /\ Forest(d, R \cup {c}) /\ Kept(h, d) /\ Cut(h, d, a, c)
      /\ \A b \in DOMAIN h \ {a} : SameList(h, d, b)
  BY <1>1, DetachList, DetachCuts DEF Forest
<1>6. /\ Onward(d, c) = {c}
      /\ \A x \in DOMAIN h \ {c} : Onward(d, x) = Onward(h, x) \ {c}
      /\ \A b \in DOMAIN h : Listed(d, b) = Listed(h, b) \ {c}
  BY <1>5, CutOnward
<1> HIDE DEF d, p, n
<1>7. /\ p \in DOMAIN h \cup {Null} /\ n \in DOMAIN h \cup {Null} /\ Null \notin DOMAIN h
      /\ p # c /\ n # c
      /\ p # Null => h[p].next = c /\ p \in Listed(h, a)
      /\ p = Null => h[a].child = c
      /\ h[c].next = n
  BY <1>1, MemberApart, ListedMember DEF Forest, Linked, p, n
<1>8. /\ DOMAIN d = DOMAIN h
      /\ p = Null => d[a].child = n
      /\ p # Null => d[p].next = n
  BY <1>5, <1>7 DEF Cut, p, n
<1>9. /\ Onward(g, item) = {item} \cup Onward(d, n)
      /\ \A x \in DOMAIN h \ {item} :
           Onward(g, x) = IF p \in Onward(d, x) THEN Onward(d, x) \cup {item} ELSE Onward(d, x)
      /\ \A b \in DOMAIN h :
           Listed(g, b) = IF b = a THEN Listed(d, b) \cup {item} ELSE Listed(d, b)
  <2>1. p # Null => p \in Listed(d, a)
    BY <1>6, <1>7
  <2>2. item \in R \cup {c} /\ a \in DOMAIN d
    BY <1>8
  <2>3. Neighbours(d, a, p, n)
    BY <1>8, <2>1 DEF Neighbours
  <2>4. Forest(d, R \cup {c}) /\ Inserted(d, g, a, p, n, item)
    BY <1>4, <1>5
  <2>5. /\ Onward(g, item) = {item} \cup Onward(d, n)
        /\ \A x \in DOMAIN d \ {item} :
             Onward(g, x) = IF p \in Onward(d, x) THEN Onward(d, x) \cup {item} ELSE Onward(d, x)
        /\ \A b \in DOMAIN d :
             Listed(g, b) = IF b = a THEN Listed(d, b) \cup {item} ELSE Listed(d, b)
    BY <1>2, <2>2, <2>3, <2>4, InsertedOnward
  <2> QED BY <1>8, <2>5
<1>10. ASSUME NEW x \in DOMAIN h \ {c} PROVE p \in Onward(d, x) <=> c \in Onward(h, x)
  <2>1. p \in Onward(d, x) <=> p \in Onward(h, x)
    BY <1>6, <1>7
  <2>2. p \in Onward(h, x) => c \in Onward(h, x)
    BY <1>1, <1>7, OnwardClosed DEF NextClosed
  <2>3. c \in Onward(h, x) => p \in Onward(h, x)
    <3>1. c \in Onward(h, x) => \E w \in Onward(h, x) : h[w].next = c
      BY OnwardBefore
    <3>2. \A w \in DOMAIN h : h[w].next = c => w = p
      BY <1>1, <1>7 DEF Forest, Linked, p
    <3> QED BY <3>1, <3>2, OnwardClosed
  <2> QED BY <2>1, <2>2, <2>3
<1>11. Onward(d, n) = Onward(h, c) \ {c}
  <2>1. Onward(h, c) = {c} \cup Onward(h, n) /\ c \notin Onward(h, n)
    BY <1>1, <1>7, OnwardStep, OnwardNoCircle
  <2>2. CASE n = Null
    <3>1. Onward(h, n) = {} /\ Onward(d, n) = {}
      BY <1>7, <1>8, <2>2, OnwardNone
    <3> QED BY <2>1, <3>1
  <2>3. CASE n # Null
    <3>1. Onward(d, n) = Onward(h, n) \ {c}
      BY <1>6, <1>7, <2>3
    <3> QED BY <2>1, <3>1
  <2> QED BY <2>2, <2>3
<1>12. item \notin Listed(h, a)
  BY ListedNoRoot
<1>13. ASSUME NEW x \in Listed(h, a) \ {c}
       PROVE  Onward(g, x) = IF c \in Onward(h, x) THEN (Onward(h, x) \ {c}) \cup {item} ELSE Onward(h, x)
  <2>1. x \in DOMAIN h \ {c} /\ x # item
    BY <1>12, ListedMember DEF Forest
  <2>2. Onward(d, x) = Onward(h, x) \ {c}
    BY <1>6, <2>1
  <2>3. CASE c \in Onward(h, x)
    BY <1>9, <1>10, <2>1, <2>2, <2>3
  <2>4. CASE c \notin Onward(h, x)
    <3>1. Onward(d, x) = Onward(h, x)
      BY <2>2, <2>4
    <3> QED BY <1>9, <1>10, <2>1, <2>4, <3>1
  <2> QED BY <2>3, <2>4
<1>14. ASSUME NEW b \in DOMAIN h \ {a} PROVE SameList(h, g, b)
  <2>1. SameList(h, d, b)
    BY <1>5
  <2>2. \A x \in Listed(h, b) : Onward(h, x) \subseteq Listed(h, b) /\ x \in DOMAIN h /\ x \notin R
    BY OnwardTrans, ListedMember, ListedNoRoot DEF Listed, Forest
  <2>3. p \notin Listed(h, b)
    <3>1. Null \notin Listed(h, b)
      BY <1>7, <2>2
    <3> QED BY <1>7, <3>1, ListedApart DEF Forest
  <2>4. ASSUME NEW x \in Listed(h, b) PROVE Onward(g, x) = Onward(h, x)
    <3>1. Onward(d, x) = Onward(h, x)
      BY <2>1 DEF SameList
    <3>2. p \notin Onward(d, x) /\ x \in DOMAIN h \ {item}
      BY <2>2, <2>3, <3>1
    <3> QED BY <1>9, <3>1, <3>2
  <2>5. Listed(g, b) = Listed(h, b)
    BY <1>9, <2>1 DEF SameList
  <2> QED BY <1>4, <2>2, <2>4, <2>5 DEF SameList, Kept
<1>15. Listed(g, a) = (Listed(h, a) \ {c}) \cup {item}
  BY <1>6, <1>9
<1> QED BY <1>1, <1>4, <1>9, <1>11, <1>12, <1>13, <1>14, <1>15

-------------------------------------------------------------------------------
\* What is found among the members afterwards.

\* What was found before an item was put at the end is found after, and under other
\* names and at other positions than its own nothing new is.
LEMMA AppendFound ==
  ASSUME NEW h, NEW R, Forest(h, R), Items(h), IsFiniteSet(DOMAIN h),
         NEW item \in R, NEW a \in DOMAIN h, a \notin Freed(h, item),
         NEW g, g = AddItemToArray(h, a, item)
  PROVE  /\ \A k : GetObjectItem(h, a, k) # Null => GetObjectItem(g, a, k) = GetObjectItem(h, a, k)
         /\ \A i : GetArrayItem(h, a, i) # Null => GetArrayItem(g, a, i) = GetArrayItem(h, a, i)
         /\ \A k : GetObjectItem(h, a, k) = Null /\ Fold(h[item].name) # Fold(k) => GetObjectItem(g, a, k) = Null
         /\ \A i \in Nat : GetArrayItem(h, a, i) = Null /\ i # GetArraySize(h, a) => GetArrayItem(g, a, i) = Null
<1>0. Forest(g, R \ {item}) /\ Kept(h, g) /\ Appended(h, g, a, item)
  BY AppendList
<1>1. /\ Forest(g, R \ {item})
      /\ Kept(h, g)
      /\ item \notin Listed(h, a)
      /\ Listed(g, a) = Listed(h, a) \cup {item}
      /\ \A x \in Listed(h, a) : Onward(g, x) = Onward(h, x) \cup {item}
      /\ Onward(g, item) = {item}
  BY <1>0 DEF Appended
<1>2. DOMAIN g = DOMAIN h /\ \A x \in Listed(h, a) : g[x].name = h[x].name
  BY <1>1, ListedMember DEF Kept, Forest
<1>3. ASSUME NEW k, GetObjectItem(h, a, k) # Null
      PROVE  GetObjectItem(g, a, k) = GetObjectItem(h, a, k)
  <2> DEFINE c == GetObjectItem(h, a, k)
  <2>1. IsNamed(h, a, k, c)
    BY <1>3, GetObjectItemIs
  <2> HIDE DEF c
  <2>2. IsNamed(g, a, k, c)
    BY <1>1, <1>2, <2>1 DEF IsNamed
  <2>3. GetObjectItem(g, a, k) = c
    BY <1>1, <1>2, <2>2, GetObjectItemIs
  <2> QED BY <2>3 DEF c
<1>4. ASSUME NEW i, GetArrayItem(h, a, i) # Null
      PROVE  GetArrayItem(g, a, i) = GetArrayItem(h, a, i)
  <2> DEFINE c == GetArrayItem(h, a, i)
  <2>1. IsAt(h, a, i, c)
    BY <1>4, GetArrayItemIs
  <2> HIDE DEF c
  <2>2. UpTo(g, a, c) = UpTo(h, a, c)
    BY <1>1, <2>1 DEF IsAt, UpTo
  <2>3. IsAt(g, a, i, c)
    BY <1>1, <2>1, <2>2 DEF IsAt
  <2>4. GetArrayItem(g, a, i) = c
    BY <1>1, <1>2, <2>3, GetArrayItemIs
  <2> QED BY <2>4 DEF c
<1>5. ASSUME NEW k, GetObjectItem(h, a, k) = Null, Fold(h[item].name) # Fold(k)
      PROVE  GetObjectItem(g, a, k) = Null
  <2> DEFINE c == GetObjectItem(g, a, k)
  <2> SUFFICES ASSUME c # Null PROVE FALSE
    OBVIOUS
  <2>1. IsNamed(g, a, k, c)
    BY <1>1, <1>2, GetObjectItemIs
  <2> HIDE DEF c
  <2>2. item \in DOMAIN h /\ g[item].name = h[item].name
    BY <1>1 DEF Kept, Forest, Rooted
  <2>3. c \in Listed(h, a) /\ c # item
    BY <1>1, <1>5, <2>1, <2>2 DEF IsNamed
  <2>4. IsNamed(h, a, k, c)
    BY <1>1, <1>2, <2>1, <2>3 DEF IsNamed
  <2> QED BY <1>5, <2>4, GetObjectItemIs
<1>6. ASSUME NEW i \in Nat, GetArrayItem(h, a, i) = Null, i # GetArraySize(h, a)
      PROVE  GetArrayItem(g, a, i) = Null
  <2> DEFINE c == GetArrayItem(g, a, i)
  <2> SUFFICES ASSUME c # Null PROVE FALSE
    OBVIOUS
  <2>1. IsAt(g, a, i, c)
    BY <1>1, <1>2, GetArrayItemIs
  <2> HIDE DEF c
  <2>2. CASE c # item
    <3>1. c \in Listed(h, a)
      BY <1>1, <2>1, <2>2 DEF IsAt
    <3>2. UpTo(g, a, c) = UpTo(h, a, c)
      BY <1>1, <2>2, <3>1 DEF UpTo
    <3>3. IsAt(h, a, i, c)
      BY <2>1, <3>1, <3>2 DEF IsAt
    <3> QED BY <1>6, <3>3, GetArrayItemIs
  <2>3. CASE c = item
    <3>1. UpTo(g, a, item) = Listed(h, a) \cup {item}
      BY <1>1 DEF UpTo
    <3>2. IsFiniteSet(Listed(h, a)) /\ GetArraySize(h, a) = Cardinality(Listed(h, a))
          /\ Cardinality(Listed(h, a)) \in Nat
      BY OnwardClosed, FS_Subset, FS_CardinalityType DEF Listed, GetArraySize
    <3>3. Cardinality(UpTo(g, a, item)) = GetArraySize(h, a) + 1
      <4>1. item \notin Listed(h, a)
        BY <1>1
      <4>2. Cardinality(Listed(h, a) \cup {item}) = Cardinality(Listed(h, a)) + 1
        BY <3>2, <4>1, FS_AddElement
      <4> QED BY <3>1, <3>2, <4>2
    <3>4. Cardinality(UpTo(g, a, item)) = i + 1
      BY <2>1, <2>3 DEF IsAt
    <3> QED BY <1>6, <3>2, <3>3, <3>4
  <2> QED BY <2>2, <2>3
<1> QED BY <1>3, <1>4, <1>5, <1>6

\* Before a member there are fewer.
LEMMA UpToLess ==
  ASSUME NEW h, IsFiniteSet(DOMAIN h), NEW a, NEW x, NEW y,
         Cardinality(UpTo(h, a, x)) < Cardinality(UpTo(h, a, y))
  PROVE  x \notin Onward(h, y)
<1> SUFFICES ASSUME x \in Onward(h, y) PROVE FALSE
  OBVIOUS
<1>1. UpTo(h, a, y) \subseteq UpTo(h, a, x)
  BY OnwardTrans DEF UpTo
<1>2. Cardinality(UpTo(h, a, y)) <= Cardinality(UpTo(h, a, x))
  BY <1>1, UpToFinite, FS_Subset
<1>3. Cardinality(UpTo(h, a, y)) \in Nat /\ Cardinality(UpTo(h, a, x)) \in Nat
  BY UpToFinite
<1> QED BY <1>2, <1>3

\* A name is found that one member has and all others have only behind it, but for
\* one.
LEMMA NamedFound ==
  ASSUME NEW h, NEW R, Forest(h, R), NEW a \in DOMAIN h, NEW c \in Listed(h, a), NEW k,
         NEW y \in Listed(h, a), Fold(h[y].name) = Fold(k),
         \A d \in Listed(h, a) \ {c} : Fold(h[d].name) = Fold(k) => d \in Onward(h, y)
  PROVE  GetObjectItem(h, a, k) # Null
<1>1. CASE Fold(h[c].name) # Fold(k) \/ c \in Onward(h, y)
  <2>1. IsNamed(h, a, k, y)
    BY <1>1 DEF IsNamed
  <2> QED BY <2>1, GetObjectItemIs
<1>2. CASE Fold(h[c].name) = Fold(k) /\ c \notin Onward(h, y)
  <2>1. y \in Onward(h, c)
    BY <1>2, OnwardTotal DEF Listed
  <2>2. Onward(h, y) \subseteq Onward(h, c)
    BY <2>1, OnwardTrans
  <2>3. c \in Onward(h, c)
    BY ListedMember, OnwardClosed DEF Forest
  <2>4. IsNamed(h, a, k, c)
    BY <1>2, <2>2, <2>3 DEF IsNamed
  <2> QED BY <2>4, GetObjectItemIs
<1> QED BY <1>1, <1>2

\* Every other name, and every position before that of the member taken out, leads
\* to the same member, or still to none.
LEMMA DetachFound ==
  ASSUME NEW h, NEW R, Forest(h, R), Items(h), IsFiniteSet(DOMAIN h),
         NEW a \in DOMAIN h, NEW c \in Listed(h, a),
         NEW g, g = Detach(h, a, c)
  PROVE  /\ \A k : GetObjectItem(h, a, k) \notin {c, Null} =>
                     GetObjectItem(g, a, k) = GetObjectItem(h, a, k)
         /\ \A i \in Nat, j \in Nat :
              c = GetArrayItem(h, a, i) /\ j < i /\ GetArrayItem(h, a, j) # Null =>
                GetArrayItem(g, a, j) = GetArrayItem(h, a, j)
         /\ \A k : GetObjectItem(h, a, k) = Null => GetObjectItem(g, a, k) = Null
<1>1. /\ Forest(g, R \cup {c})
      /\ Kept(h, g)
      /\ Listed(g, a) = Listed(h, a) \ {c}
      /\ \A x \in Listed(h, a) \ {c} : Onward(g, x) = Onward(h, x) \ {c}
  BY DetachList
<1>2. DOMAIN g = DOMAIN h /\ \A x \in Listed(h, a) : g[x].name = h[x].name
  BY <1>1, ListedMember DEF Kept, Forest
<1>3. ASSUME NEW k, GetObjectItem(h, a, k) \notin {c, Null}
      PROVE  GetObjectItem(g, a, k) = GetObjectItem(h, a, k)
  <2> DEFINE x == GetObjectItem(h, a, k)
  <2>1. IsNamed(h, a, k, x) /\ x # c
    BY <1>3, GetObjectItemIs
  <2> HIDE DEF x
  <2>2. IsNamed(g, a, k, x)
    BY <1>1, <1>2, <2>1 DEF IsNamed
  <2>3. GetObjectItem(g, a, k) = x
    BY <1>1, <1>2, <2>2, GetObjectItemIs
  <2> QED BY <2>3 DEF x
<1>4. ASSUME NEW i \in Nat, NEW j \in Nat, c = GetArrayItem(h, a, i), j < i, GetArrayItem(h, a, j) # Null
      PROVE  GetArrayItem(g, a, j) = GetArrayItem(h, a, j)
  <2> DEFINE y == GetArrayItem(h, a, j)
  <2>1. IsAt(h, a, j, y)
    BY <1>4, GetArrayItemIs
  <2>2. IsAt(h, a, i, c)
    <3>1. c # Null
      BY ListedMember DEF Forest
    <3> QED BY <1>4, <3>1, GetArrayItemIs
  <2> HIDE DEF y
  <2>3. Cardinality(UpTo(h, a, y)) = j + 1 /\ Cardinality(UpTo(h, a, c)) = i + 1
    BY <2>1, <2>2 DEF IsAt
  <2>4. y \notin Onward(h, c) /\ y # c
    BY <1>4, <2>3, UpToLess
  <2>5. UpTo(g, a, y) = UpTo(h, a, y)
    BY <1>1, <2>4 DEF UpTo
  <2>6. IsAt(g, a, j, y)
    BY <1>1, <2>1, <2>4, <2>5 DEF IsAt
  <2>7. GetArrayItem(g, a, j) = y
    BY <1>1, <1>2, <2>6, GetArrayItemIs
  <2> QED BY <2>7 DEF y
<1>5. ASSUME NEW k, GetObjectItem(h, a, k) = Null
      PROVE  GetObjectItem(g, a, k) = Null
  <2> DEFINE y == GetObjectItem(g, a, k)
  <2> SUFFICES ASSUME y # Null PROVE FALSE
    OBVIOUS
  <2>1. IsNamed(g, a, k, y)
    BY <1>1, <1>2, GetObjectItemIs
  <2> HIDE DEF y
  <2>2. y \in Listed(h, a) \ {c} /\ Fold(h[y].name) = Fold(k)
    BY <1>1, <1>2, <2>1 DEF IsNamed
  <2>3. \A d \in Listed(h, a) \ {c} : Fold(h[d].name) = Fold(k) => d \in Onward(h, y)
    BY <1>1, <1>2, <2>1, <2>2 DEF IsNamed
  <2> QED BY <1>5, <2>2, <2>3, NamedFound
<1> QED BY <1>3, <1>4, <1>5

\* One element for another leaves the size of a set.
LEMMA ExchangeCardinality ==
  ASSUME NEW S, IsFiniteSet(S), NEW c \in S, NEW item, item \notin S
  PROVE  Cardinality((S \ {c}) \cup {item}) = Cardinality(S)
<1>1. IsFiniteSet(S \ {c}) /\ Cardinality(S \ {c}) = Cardinality(S) - 1 /\ Cardinality(S) \in Nat
  BY FS_RemoveElement, FS_CardinalityType
<1>2. item \notin S \ {c}
  OBVIOUS
<1>3. Cardinality((S \ {c}) \cup {item}) = Cardinality(S \ {c}) + 1
  BY <1>1, <1>2, FS_AddElement
<1> QED BY <1>1, <1>3

\* The item is found where the member was, and everything else as before, or still
\* not at all.
LEMMA ReplacedFound ==
  ASSUME NEW h, NEW R, Forest(h, R), Items(h), IsFiniteSet(DOMAIN h), NEW item \in R,
         NEW a \in DOMAIN h, NEW c \in Listed(h, a), a \notin Freed(h, item),
         NEW g, g = Replaced(h, a, c, item)
  PROVE  /\ \A k : GetObjectItem(h, a, k) \notin {c, Null} /\ Fold(h[item].name) # Fold(k) =>
                     GetObjectItem(g, a, k) = GetObjectItem(h, a, k)
         /\ \A i : GetArrayItem(g, a, i) = IF GetArrayItem(h, a, i) = c THEN item ELSE GetArrayItem(h, a, i)
         /\ GetArraySize(g, a) = GetArraySize(h, a)
         /\ \A k : GetObjectItem(h, a, k) = Null /\ Fold(h[item].name) # Fold(k) => GetObjectItem(g, a, k) = Null
<1>1. /\ Forest(g, (R \cup {c}) \ {item})
      /\ Kept(h, g)
      /\ item \notin Listed(h, a)
      /\ Listed(g, a) = (Listed(h, a) \ {c}) \cup {item}
      /\ \A x \in Listed(h, a) \ {c} :
           Onward(g, x) = IF c \in Onward(h, x) THEN (Onward(h, x) \ {c}) \cup {item} ELSE Onward(h, x)
      /\ Onward(g, item) = (Onward(h, c) \ {c}) \cup {item}
  BY ReplacedList
<1>2. /\ DOMAIN g = DOMAIN h /\ item \in DOMAIN h /\ g[item].name = h[item].name
      /\ \A x \in Listed(h, a) : g[x].name = h[x].name
      /\ \A x \in Listed(h, a) : x # Null
  <2>1. item \in DOMAIN h /\ Linked(h)
    BY DEF Forest, Rooted
  <2>2. \A x \in Listed(h, a) : x \in DOMAIN h /\ x # Null
    BY <2>1, ListedMember
  <2>3. DOMAIN g = DOMAIN h /\ \A x \in DOMAIN h : g[x].name = h[x].name
    BY <1>1 DEF Kept
  <2> QED BY <2>1, <2>2, <2>3
<1>3. ASSUME NEW k, GetObjectItem(h, a, k) \notin {c, Null}, Fold(h[item].name) # Fold(k)
      PROVE  GetObjectItem(g, a, k) = GetObjectItem(h, a, k)
  <2> DEFINE x == GetObjectItem(h, a, k)
  <2>1. IsNamed(h, a, k, x) /\ x # c
    BY <1>3, GetObjectItemIs
  <2> HIDE DEF x
  <2>2. IsNamed(g, a, k, x)
    BY <1>1, <1>2, <1>3, <2>1 DEF IsNamed
  <2>3. GetObjectItem(g, a, k) = x
    BY <1>1, <1>2, <2>2, GetObjectItemIs
  <2> QED BY <2>3 DEF x
<1>4. \A x \in Listed(h, a) : item \notin Onward(h, x)
  BY <1>1, OnwardTrans DEF Listed
<1>5. ASSUME NEW y \in Listed(h, a) \ {c}
      PROVE  Cardinality(UpTo(g, a, y)) = Cardinality(UpTo(h, a, y))
  <2>1. y # item
    BY <1>1
  <2>2. y \in Onward(g, item) <=> y \in Onward(h, c)
    BY <1>1, <2>1
  <2>3. \A x \in Listed(h, a) \ {c} : y \in Onward(g, x) <=> y \in Onward(h, x)
    BY <1>1, <2>1
  <2>4. CASE y \in Onward(h, c)
    <3>1. UpTo(g, a, y) = (UpTo(h, a, y) \ {c}) \cup {item}
      BY <1>1, <2>2, <2>3, <2>4 DEF UpTo
    <3>2. c \in UpTo(h, a, y) /\ item \notin UpTo(h, a, y)
      BY <1>1, <2>4 DEF UpTo
    <3> QED BY <3>1, <3>2, UpToFinite, ExchangeCardinality
  <2>5. CASE y \notin Onward(h, c)
    <3>1. UpTo(g, a, y) = UpTo(h, a, y)
      BY <1>1, <2>2, <2>3, <2>5 DEF UpTo
    <3> QED BY <3>1
  <2> QED BY <2>4, <2>5
<1>6. Cardinality(UpTo(g, a, item)) = Cardinality(UpTo(h, a, c))
  <2>1. \A x \in Listed(h, a) \ {c} : item \in Onward(g, x) <=> c \in Onward(h, x)
    BY <1>1, <1>4
  <2>2. UpTo(g, a, item) = (UpTo(h, a, c) \ {c}) \cup {item}
    BY <1>1, <2>1 DEF UpTo
  <2>3. c \in UpTo(h, a, c) /\ item \notin UpTo(h, a, c)
    BY <1>1, ListedMember, OnwardClosed DEF UpTo, Forest
  <2> QED BY <2>2, <2>3, UpToFinite, ExchangeCardinality
<1>7. ASSUME NEW i
      PROVE  GetArrayItem(g, a, i) = IF GetArrayItem(h, a, i) = c THEN item ELSE GetArrayItem(h, a, i)
  <2>1. \A y \in Listed(h, a) \ {c} : IsAt(g, a, i, y) <=> IsAt(h, a, i, y)
    BY <1>1, <1>5 DEF IsAt
  <2>2. IsAt(g, a, i, item) <=> IsAt(h, a, i, c)
    BY <1>1, <1>6 DEF IsAt
  <2>3. a \in DOMAIN g /\ IsFiniteSet(DOMAIN g)
    BY <1>2
  <2>4. /\ GetArrayItem(g, a, i) # Null => IsAt(g, a, i, GetArrayItem(g, a, i))
        /\ \A y : IsAt(g, a, i, y) => GetArrayItem(g, a, i) = y
    BY <1>1, <2>3, GetArrayItemIs
  <2>5. /\ GetArrayItem(h, a, i) # Null => IsAt(h, a, i, GetArrayItem(h, a, i))
        /\ \A y : IsAt(h, a, i, y) => GetArrayItem(h, a, i) = y
    BY GetArrayItemIs
  <2>6. CASE GetArrayItem(h, a, i) = c
    <3>1. IsAt(h, a, i, c)
      BY <1>2, <2>5, <2>6
    <3> QED BY <2>2, <2>4, <2>6, <3>1
  <2>7. CASE GetArrayItem(h, a, i) \notin {c, Null}
    <3>1. IsAt(h, a, i, GetArrayItem(h, a, i)) /\ GetArrayItem(h, a, i) \in Listed(h, a) \ {c}
      BY <2>5, <2>7 DEF IsAt
    <3> QED BY <2>1, <2>4, <2>7, <3>1
  <2>8. CASE GetArrayItem(h, a, i) = Null
    <3>1. GetArrayItem(g, a, i) # Null => \E y : IsAt(h, a, i, y)
      BY <1>1, <2>1, <2>2, <2>4 DEF IsAt
    <3>2. \A y : ~IsAt(h, a, i, y)
      BY <1>2, <2>5, <2>8 DEF IsAt
    <3> QED BY <1>2, <2>8, <3>1, <3>2
  <2> QED BY <2>6, <2>7, <2>8
<1>8. GetArraySize(g, a) = GetArraySize(h, a)
  BY <1>1, ListedFinite, ExchangeCardinality DEF GetArraySize
<1>9. ASSUME NEW k, GetObjectItem(h, a, k) = Null, Fold(h[item].name) # Fold(k)
      PROVE  GetObjectItem(g, a, k) = Null
  <2> DEFINE y == GetObjectItem(g, a, k)
  <2> SUFFICES ASSUME y # Null PROVE FALSE
    OBVIOUS
  <2>1. IsNamed(g, a, k, y)
    BY <1>1, <1>2, GetObjectItemIs
  <2> HIDE DEF y
  <2>2. y \in Listed(h, a) \ {c} /\ Fold(h[y].name) = Fold(k)
    BY <1>1, <1>2, <1>9, <2>1 DEF IsNamed
  <2>3. ASSUME NEW d \in Listed(h, a) \ {c}, Fold(h[d].name) = Fold(k) PROVE d \in Onward(h, y)
    <3>1. d \in Onward(g, y) /\ d # item
      BY <1>1, <1>2, <2>1, <2>3 DEF IsNamed
    <3> QED BY <1>1, <2>2, <3>1
  <2> QED BY <1>9, <2>2, <2>3, NamedFound
<1> QED BY <1>3, <1>7, <1>8, <1>9

-------------------------------------------------------------------------------
\* Items that are freed and items that are made.

\* Deleting some of the roots leaves the lists of all others as they are.
LEMMA RestrictLists ==
  ASSUME NEW h, NEW R, Forest(h, R), Items(h), NEW Q, Q \cap DOMAIN h \subseteq R,
         NEW g, g = Restrict(h, DOMAIN h \ UNION {Freed(h, r) : r \in Q})
  PROVE  /\ Forest(g, R \ Q) /\ Items(g)
         /\ DOMAIN g = DOMAIN h \ UNION {Freed(h, r) : r \in Q}
         /\ \A b \in DOMAIN g : g[b] = h[b] /\ SameList(h, g, b)
<1> DEFINE F == UNION {Freed(h, r) : r \in Q}
<1>1. Forest(g, R \ Q) /\ Closed(h, DOMAIN h \ F)
  BY RestrictForest
<1>2. DOMAIN g = DOMAIN h \ F /\ \A c \in DOMAIN h \ F : g[c] = h[c]
  BY DEF Restrict
<1> HIDE DEF F
<1>3. Items(g)
  BY <1>2 DEF Items
<1>4. NextClosed(h, DOMAIN g) /\ NextClosed(g, DOMAIN g)
  BY <1>1, <1>2 DEF NextClosed, Closed
<1>5. ASSUME NEW x \in DOMAIN g \cup {Null} PROVE Onward(g, x) = Onward(h, x)
  <2>1. x \in DOMAIN h \cup DOMAIN g => x \in DOMAIN g
    BY <1>2 DEF Forest, Linked
  <2>2. DOMAIN g \in SUBSET (DOMAIN h \cap DOMAIN g)
    BY <1>2
  <2> QED BY <1>2, <1>4, <2>1, <2>2, OnwardFrame
<1>6. ASSUME NEW b \in DOMAIN g PROVE SameList(h, g, b)
  <2>1. b \in DOMAIN h /\ g[b] = h[b] /\ h[b].child \in DOMAIN g \cup {Null}
    BY <1>1, <1>2 DEF Closed, Forest, Linked
  <2>2. Listed(g, b) = Listed(h, b)
    BY <1>5, <2>1 DEF Listed
  <2>3. Listed(g, b) \subseteq DOMAIN g
    BY OnwardClosed DEF Listed
  <2> QED BY <1>2, <1>5, <2>1, <2>2, <2>3 DEF SameList
<1> QED BY <1>1, <1>2, <1>3, <1>6 DEF F

\* If each of X is a root other than r, or a member of another of X, none of X is
\* below r.
LEMMA NoneBelow ==
  ASSUME NEW h, NEW R, Forest(h, R), NEW r \in R, NEW X \in SUBSET DOMAIN h, r \notin X,
         \A x \in X : x \in R \/ \E y \in X : x \in Listed(h, y)
  PROVE  X \cap Freed(h, r) = {}
<1> DEFINE F == Freed(h, r)
           Z == {x \in F : x = r \/ \E y \in F \ X : x \in Listed(h, y)}
<1>1. F \subseteq DOMAIN h /\ r \in F /\ Closed(h, F)
  BY ReachClosed DEF Freed, Forest, Rooted
<1>2. ASSUME NEW x \in Z, x \in X PROVE FALSE
  <2>1. PICK y \in F \ X : x \in Listed(h, y)
    BY <1>2
  <2>2. x \notin R
    BY <1>1, <2>1, ListedNoRoot
  <2>3. PICK z \in X : x \in Listed(h, z)
    BY <1>2, <2>2
  <2>4. z = y
    BY <1>1, <2>1, <2>3, ListedApart DEF Forest
  <2> QED BY <2>1, <2>3, <2>4
<1>3. Closed(h, Z)
  <2> SUFFICES ASSUME NEW x \in Z, NEW y \in DOMAIN h, y \in {h[x].next, h[x].child}
               PROVE  y \in Z
    BY DEF Closed
  <2>1. x \in F /\ y \in F
    BY <1>1 DEF Closed
  <2>2. CASE y = h[x].child
    <3>1. y \in Listed(h, x)
      BY <2>2, OnwardClosed DEF Listed
    <3>2. x \notin X
      BY <1>2
    <3> QED BY <2>1, <3>1, <3>2
  <2>3. CASE y = h[x].next
    <3>1. x # r
      BY <2>3 DEF Forest, Linked, Rooted
    <3>2. PICK z \in F \ X : x \in Listed(h, z)
      BY <3>1
    <3>3. y \in Listed(h, z)
      BY <2>3, <3>2, OnwardClosed DEF Listed, NextClosed
    <3> QED BY <2>1, <3>2, <3>3
  <2> QED BY <2>2, <2>3
<1>4. F \subseteq Z
  <2>1. Z \in SUBSET DOMAIN h /\ r \in Z
    BY <1>1
  <2> HIDE DEF Z
  <2> QED BY <1>3, <2>1, ReachLeast DEF Freed
<1> QED BY <1>2, <1>4

\* Names do not matter to the links.
LEMMA LinksFrame ==
  ASSUME NEW h, NEW g, DOMAIN g = DOMAIN h, Fields(g),
         \A c \in DOMAIN h : g[c].next = h[c].next /\ g[c].prev = h[c].prev /\ g[c].child = h[c].child
  PROVE  /\ \A R : Forest(h, R) => Forest(g, R)
         /\ \A c : Freed(g, c) = Freed(h, c)
         /\ \A c : Onward(g, c) = Onward(h, c)
<1>1. [c \in DOMAIN g |-> {g[c].next, g[c].child}] = [c \in DOMAIN h |-> {h[c].next, h[c].child}]
  OBVIOUS
<1>2. [c \in DOMAIN g |-> {g[c].next}] = [c \in DOMAIN h |-> {h[c].next}]
  OBVIOUS
<1>3. \A C : Reach(g, C) = Reach(h, C)
  BY <1>1 DEF Reach
<1>4. \A c : Onward(g, c) = Onward(h, c)
  BY <1>2 DEF Onward
<1>5. ASSUME NEW R, Forest(h, R) PROVE Forest(g, R)
  <2>1. Linked(g)
    BY <1>5 DEF Forest, Linked
  <2>2. Rooted(g, R)
    BY <1>5 DEF Forest, Rooted
  <2> QED BY <1>3, <1>5, <2>1, <2>2 DEF Forest
<1> QED BY <1>3, <1>4, <1>5 DEF Freed

\* Naming an item that is no member.
LEMMA SetNameForest ==
  ASSUME NEW h, NEW R, Forest(h, R), Items(h), NEW item \in R, NEW k,
         NEW g, g = SetName(h, item, k)
  PROVE  /\ Forest(g, R) /\ Items(g) /\ DOMAIN g = DOMAIN h
         /\ Freed(g, item) = Freed(h, item)
         /\ g[item].name = k
         /\ \A b \in DOMAIN h : SameList(h, g, b)
<1>1. /\ DOMAIN g = DOMAIN h /\ Items(g) /\ Fields(g) /\ item \in DOMAIN h
      /\ \A c \in DOMAIN h : /\ g[c].next = h[c].next /\ g[c].prev = h[c].prev /\ g[c].child = h[c].child
                             /\ g[c].type = h[c].type
                             /\ g[c].name = IF c = item THEN k ELSE h[c].name
  BY DEF SetName, Items, Fields, Forest, Rooted
<1>2. /\ Forest(g, R)
      /\ \A c : Freed(g, c) = Freed(h, c)
      /\ \A c : Onward(g, c) = Onward(h, c)
  BY <1>1, LinksFrame
<1>3. \A b \in DOMAIN h : Listed(g, b) = Listed(h, b)
  BY <1>1, <1>2 DEF Listed
<1>4. \A b \in DOMAIN h : \A x \in Listed(h, b) : x \in DOMAIN h /\ x # item
  BY ListedMember, ListedNoRoot DEF Forest
<1> QED BY <1>1, <1>2, <1>3, <1>4 DEF SameList

\* What is put beside a heap changes none of its lists.
Extends(h, g) == DOMAIN h \subseteq DOMAIN g /\ \A c \in DOMAIN h : g[c] = h[c]

\* Items elsewhere leave every list as it is.
LEMMA ExtendsLists ==
  ASSUME NEW h, Linked(h), NEW g, Extends(h, g), Null \notin DOMAIN g
  PROVE  \A b \in DOMAIN h : SameList(h, g, b)
<1>1. NextClosed(h, DOMAIN h) /\ NextClosed(g, DOMAIN h)
  BY DEF NextClosed, Linked, Extends
<1>2. ASSUME NEW x \in DOMAIN h \cup {Null} PROVE Onward(g, x) = Onward(h, x)
  <2>1. x \in DOMAIN h \cup DOMAIN g => x \in DOMAIN h
    OBVIOUS
  <2>2. DOMAIN h \in SUBSET (DOMAIN h \cap DOMAIN g)
    BY DEF Extends
  <2> QED BY <1>1, <2>1, <2>2, OnwardFrame DEF Extends
<1>3. ASSUME NEW b \in DOMAIN h PROVE SameList(h, g, b)
  <2>1. Listed(g, b) = Listed(h, b)
    BY <1>2 DEF Listed, Extends, Linked
  <2>2. Listed(h, b) \subseteq DOMAIN h
    BY OnwardClosed DEF Listed
  <2>3. b \in DOMAIN g /\ g[b].type = h[b].type
    BY DEF Extends
  <2>4. \A x \in Listed(h, b) : Onward(g, x) = Onward(h, x) /\ g[x].name = h[x].name
    BY <1>2, <2>2 DEF Extends
  <2> QED BY <2>1, <2>3, <2>4 DEF SameList
<1> QED BY <1>3

\* So does cJSON_New_Item, whose item is a root.
LEMMA NewItemList ==
  ASSUME NEW h, NEW R, Forest(h, R), Items(h), NEW x, x \notin DOMAIN h, x # Null, NEW t,
         NEW g, g = New(h, x, t)
  PROVE  /\ Forest(g, R \cup {x}) /\ Items(g)
         /\ DOMAIN g = DOMAIN h \cup {x} /\ Extends(h, g) /\ g[x].type = t
         /\ \A b \in DOMAIN h : SameList(h, g, b) /\ b \notin Freed(g, x)
         /\ Listed(g, x) = {}
<1>1. DOMAIN g = DOMAIN h \cup {x} /\ Extends(h, g) /\ g[x] = NewItem(t)
  BY DEF New, Extends
<1>2. Forest(g, R \cup {x})
  BY NewItemForest
<1>3. Items(g)
  BY <1>1 DEF Items, NewItem, Extends
<1>4. Closed(g, {x})
  BY <1>1, <1>2 DEF Closed, NewItem, Forest, Linked
<1>5. Freed(g, x) \subseteq {x}
  BY <1>1, <1>4, ReachLeast DEF Freed
<1>6. \A b \in DOMAIN h : SameList(h, g, b)
  <2>1. Linked(h) /\ Null \notin DOMAIN g
    BY <1>2 DEF Forest, Linked
  <2> QED BY <1>1, <2>1, ExtendsLists
<1>7. Listed(g, x) = {}
  <2>1. Null \notin DOMAIN g /\ g[x].child = Null
    BY <1>1, <1>2 DEF Forest, Linked, NewItem
  <2>2. NextClosed(g, {}) /\ {} \in SUBSET DOMAIN g
    BY DEF NextClosed
  <2>3. Onward(g, Null) \subseteq {}
    BY <2>1, <2>2, OnwardLeast
  <2> QED BY <2>1, <2>3 DEF Listed
<1> QED BY <1>1, <1>2, <1>3, <1>5, <1>6, <1>7 DEF NewItem

\* And cJSON_Parse: what it allocates is one tree of its own.
LEMMA ParsedList ==
  ASSUME NEW h, NEW R, Forest(h, R), Items(h), Null \notin Addresses,
         NEW text, WellFormed(text), Allocations(h, text) # {},
         NEW g, g = Parsed(h, text), NEW a, a = ParsedAt(h, text)
  PROVE  /\ Forest(g, R \cup {a}) /\ Items(g)
         /\ DOMAIN g \subseteq DOMAIN h \cup Addresses /\ Extends(h, g)
         /\ a \notin DOMAIN h /\ a # Null
         /\ \A b \in DOMAIN h : SameList(h, g, b) /\ b \notin Freed(g, a)
<1> DEFINE p == Allocated(h, text)
           T == text.items
           At(c) == IF c = Null THEN Null ELSE p[c]
           N == {p[c] : c \in DOMAIN T}
<1>1. p \in Injection(DOMAIN T, Addresses \ DOMAIN h)
  BY DEF Allocations, Allocated
<1>2. /\ p \in [DOMAIN T -> Addresses \ DOMAIN h]
      /\ \A c, d \in DOMAIN T : p[c] = p[d] => c = d
  BY <1>1 DEF Injection, IsInjective
<1>3. Linked(T) /\ text.root \in DOMAIN T /\ Linked(h) /\ Rooted(h, R) /\ Rooted(T, {text.root})
      /\ Reach(T, {text.root}) = DOMAIN T /\ Reach(h, R) = DOMAIN h
  BY DEF WellFormed, Forest, Rooted
<1>4. /\ DOMAIN g = DOMAIN h \cup N
      /\ \A c \in DOMAIN h : g[c] = h[c]
      /\ \A c \in DOMAIN T :
           g[p[c]] = [type |-> T[c].type, name |-> T[c].name,
                      next |-> At(T[c].next), prev |-> At(T[c].prev), child |-> At(T[c].child)]
  <2> DEFINE Copy(i) == [type |-> i.type, name |-> i.name,
                         next |-> At(i.next), prev |-> At(i.prev), child |-> At(i.child)]
  <2>1. g = [x \in DOMAIN h \cup Range(p) |->
               IF x \in DOMAIN h THEN h[x] ELSE Copy(T[CHOOSE c \in DOMAIN p : p[c] = x])]
    BY DEF Parsed
  <2>2. DOMAIN p = DOMAIN T /\ Range(p) = N
    BY <1>2 DEF Range
  <2>3. ASSUME NEW c \in DOMAIN T PROVE (CHOOSE d \in DOMAIN p : p[d] = p[c]) = c
    BY <1>2, <2>2
  <2>4. \A c \in DOMAIN T : p[c] \notin DOMAIN h /\ p[c] \in N
    BY <1>2
  <2> HIDE DEF Copy, p, N
  <2>5. DOMAIN g = DOMAIN h \cup N /\ \A c \in DOMAIN h : g[c] = h[c]
    BY <2>1, <2>2
  <2>6. ASSUME NEW c \in DOMAIN T PROVE g[p[c]] = Copy(T[c])
    <3>1. p[c] \in DOMAIN h \cup Range(p) /\ p[c] \notin DOMAIN h
      BY <2>2, <2>4
    <3>2. g[p[c]] = Copy(T[CHOOSE d \in DOMAIN p : p[d] = p[c]])
      BY <2>1, <3>1
    <3> QED BY <2>3, <3>2
  <2> QED BY <2>5, <2>6 DEF Copy
<1>5. a = p[text.root]
  BY DEF ParsedAt
<1> HIDE DEF p, T
<1>6. \A c \in DOMAIN T : p[c] \in Addresses \ DOMAIN h /\ p[c] # Null
  BY <1>2
<1>7. \A x \in N : \E c \in DOMAIN T : x = p[c]
  OBVIOUS
<1>8. /\ \A c \in DOMAIN T : /\ p[c] \in N
                             /\ g[p[c]].next = At(T[c].next) /\ g[p[c]].prev = At(T[c].prev)
                             /\ g[p[c]].child = At(T[c].child)
      /\ N \cap DOMAIN h = {}
  <2>1. N \cap DOMAIN h = {}
    BY <1>6, <1>7
  <2>2. ASSUME NEW c \in DOMAIN T
        PROVE  /\ g[p[c]].next = At(T[c].next) /\ g[p[c]].prev = At(T[c].prev)
               /\ g[p[c]].child = At(T[c].child)
    <3>1. g[p[c]] = [type |-> T[c].type, name |-> T[c].name,
                     next |-> At(T[c].next), prev |-> At(T[c].prev), child |-> At(T[c].child)]
      BY <1>4
    <3> HIDE DEF At
    <3> QED BY <3>1
  <2> QED BY <2>1, <2>2
<1>9. \A c \in DOMAIN T \cup {Null} :
        At(c) \in N \cup {Null} /\ (At(c) = Null <=> c = Null) /\ (c # Null => At(c) = p[c])
  BY <1>6 DEF Linked
<1>10. \A c, d \in DOMAIN T \cup {Null} : At(c) = At(d) => c = d
  BY <1>2, <1>6
<1>11. \A c \in DOMAIN T : {T[c].next, T[c].prev, T[c].child} \subseteq DOMAIN T \cup {Null}
  BY <1>3 DEF Linked
<1> HIDE DEF At, N
<1>12. Linked(g)
  <2>1. Null \notin DOMAIN g
    BY <1>3, <1>4, <1>6, <1>7 DEF Linked
  <2>2. Fields(g)
    <3>1. \A c \in DOMAIN T : DOMAIN g[p[c]] = {"type", "name", "next", "prev", "child"}
      BY <1>4
    <3> QED BY <1>3, <1>4, <1>7, <3>1 DEF Linked, Fields
  <2>3. ASSUME NEW c \in DOMAIN h
        PROVE  /\ {g[c].next, g[c].prev, g[c].child} \subseteq DOMAIN h \cup {Null}
               /\ g[c].next # Null => g[g[c].next].prev = c
               /\ g[c].prev # Null => g[g[c].prev].next = c
               /\ g[c].child # Null => g[g[c].child].prev = Null
               /\ \A d \in DOMAIN h : g[c].child = g[d].child /\ g[c].child # Null => c = d
    BY <1>3, <1>4 DEF Linked
  <2>4. ASSUME NEW c \in DOMAIN T
        PROVE  /\ {g[p[c]].next, g[p[c]].prev, g[p[c]].child} \subseteq N \cup {Null}
               /\ g[p[c]].next # Null => g[g[p[c]].next].prev = p[c]
               /\ g[p[c]].prev # Null => g[g[p[c]].prev].next = p[c]
               /\ g[p[c]].child # Null => g[g[p[c]].child].prev = Null
               /\ \A d \in DOMAIN T : g[p[c]].child = g[p[d]].child /\ g[p[c]].child # Null => c = d
    <3>1. {g[p[c]].next, g[p[c]].prev, g[p[c]].child} \subseteq N \cup {Null}
      BY <1>8, <1>9, <1>11
    <3>2. g[p[c]].next # Null => g[g[p[c]].next].prev = p[c]
      BY <1>3, <1>8, <1>9, <1>11 DEF Linked
    <3>3. g[p[c]].prev # Null => g[g[p[c]].prev].next = p[c]
      BY <1>3, <1>8, <1>9, <1>11 DEF Linked
    <3>4. g[p[c]].child # Null => g[g[p[c]].child].prev = Null
      BY <1>3, <1>8, <1>9, <1>11 DEF Linked
    <3>5. ASSUME NEW d \in DOMAIN T, g[p[c]].child = g[p[d]].child, g[p[c]].child # Null PROVE c = d
      <4>1. T[c].child = T[d].child /\ T[c].child # Null
        BY <1>8, <1>9, <1>10, <1>11, <3>5
      <4> QED BY <1>3, <4>1 DEF Linked
    <3> QED BY <3>1, <3>2, <3>3, <3>4, <3>5
  <2>5. ASSUME NEW c \in DOMAIN g
        PROVE  /\ {g[c].next, g[c].prev, g[c].child} \subseteq DOMAIN g \cup {Null}
               /\ g[c].next # Null => g[g[c].next].prev = c
               /\ g[c].prev # Null => g[g[c].prev].next = c
               /\ g[c].child # Null => g[g[c].child].prev = Null
    BY <1>4, <1>7, <2>3, <2>4
  <2>6. ASSUME NEW c \in DOMAIN g, NEW d \in DOMAIN g, g[c].child = g[d].child, g[c].child # Null
        PROVE  c = d
    <3>1. CASE c \in DOMAIN h
      <4>1. d \notin N
        BY <1>7, <1>8, <2>3, <2>4, <2>6, <3>1
      <4> QED BY <1>4, <2>3, <2>6, <3>1, <4>1
    <3>2. CASE c \in N
      <4>1. d \notin DOMAIN h
        BY <1>7, <1>8, <2>3, <2>4, <2>6, <3>2
      <4> QED BY <1>4, <1>7, <2>4, <2>6, <3>2, <4>1
    <3> QED BY <1>4, <3>1, <3>2
  <2> QED BY <2>1, <2>2, <2>5, <2>6 DEF Linked
<1>13. Rooted(g, R \cup {a})
  <2>1. a \in N /\ g[a].next = Null /\ g[a].prev = Null
    BY <1>3, <1>5, <1>8, <1>9 DEF Rooted
  <2>2. \A c \in DOMAIN T : g[p[c]].child # a
    <3>1. \A c \in DOMAIN T : T[c].child # text.root
      BY <1>3 DEF Rooted
    <3>2. a = At(text.root)
      BY <1>3, <1>5, <1>9 DEF Linked
    <3> QED BY <1>3, <1>8, <1>10, <1>11, <3>1, <3>2
  <2>3. \A c \in DOMAIN h : g[c].child # a
    BY <1>3, <1>4, <1>6, <1>5 DEF Linked
  <2>4. \A c \in DOMAIN g : g[c].child # a
    BY <1>4, <1>7, <2>2, <2>3
  <2>5. ASSUME NEW r \in R
        PROVE  r \in DOMAIN h /\ g[r].next = Null /\ g[r].prev = Null /\ \A c \in DOMAIN g : g[c].child # r
    <3>1. r \in DOMAIN h /\ g[r].next = Null /\ g[r].prev = Null /\ \A c \in DOMAIN h : g[c].child # r
      BY <1>3, <1>4 DEF Rooted
    <3>2. \A c \in DOMAIN T : g[p[c]].child \in N \cup {Null}
      BY <1>8, <1>9, <1>11
    <3>3. r \notin N \cup {Null}
      BY <1>3, <1>8, <3>1 DEF Linked
    <3> QED BY <1>4, <1>7, <3>1, <3>2, <3>3
  <2> QED BY <1>4, <2>1, <2>4, <2>5 DEF Rooted
<1>14. Reach(g, R \cup {a}) = DOMAIN g
  <2> DEFINE S == Reach(g, R \cup {a})
             V == {c \in DOMAIN T : p[c] \in S}
  <2>1. S \subseteq DOMAIN g /\ R \cup {a} \subseteq S /\ Closed(g, S)
    BY <1>13, ReachClosed DEF Rooted
  <2> HIDE DEF S
  <2>2. DOMAIN h \subseteq S
    <3>1. Closed(h, S \cap DOMAIN h)
      BY <1>4, <2>1 DEF Closed
    <3>2. R \subseteq S \cap DOMAIN h
      BY <1>3, <2>1 DEF Rooted
    <3> QED BY <1>3, <3>1, <3>2, ReachLeast
  <2>3. DOMAIN T \subseteq V
    <3>1. Closed(T, V)
      <4> SUFFICES ASSUME NEW c \in V, NEW d \in DOMAIN T, d \in {T[c].next, T[c].child}
                   PROVE  p[d] \in S
        BY DEF Closed
      <4>1. d # Null /\ At(d) = p[d] /\ p[d] \in DOMAIN g
        BY <1>3, <1>4, <1>8, <1>9 DEF Linked
      <4>2. p[d] \in {g[p[c]].next, g[p[c]].child}
        BY <1>8, <4>1
      <4> QED BY <2>1, <4>1, <4>2 DEF Closed
    <3>2. text.root \in V
      BY <1>3, <1>5, <2>1
    <3>3. Reach(T, {text.root}) \subseteq V
      BY <3>1, <3>2, ReachLeast
    <3> QED BY <1>3, <3>3
  <2> QED BY <1>4, <1>7, <2>1, <2>2, <2>3 DEF S
<1>15. Items(g)
  <2>1. \A c \in DOMAIN T : DOMAIN g[p[c]] = {"type", "name", "next", "prev", "child"}
    BY <1>4
  <2> QED BY <1>4, <1>7, <2>1 DEF Items
<1>16. Closed(g, N)
  BY <1>3, <1>7, <1>8, <1>9, <1>11, <1>12 DEF Closed, Linked
<1>17. Freed(g, a) \subseteq N
  <2>1. N \subseteq DOMAIN g /\ a \in N
    BY <1>3, <1>4, <1>5, <1>8
  <2> QED BY <1>16, <2>1, ReachLeast DEF Freed
<1>18. Extends(h, g)
  BY <1>4 DEF Extends
<1>19. \A b \in DOMAIN h : SameList(h, g, b)
  BY <1>3, <1>12, <1>18, ExtendsLists DEF Linked
<1>20. a \notin DOMAIN h /\ a # Null /\ N \subseteq Addresses
  BY <1>3, <1>5, <1>6, <1>7
<1> QED BY <1>4, <1>8, <1>12, <1>13, <1>14, <1>15, <1>17, <1>18, <1>19, <1>20 DEF Forest

\* What cJSON_Print says of an item that exists is well formed.
LEMMA TextOfWellFormed ==
  ASSUME NEW h, NEW R, Forest(h, R), NEW c \in DOMAIN h
  PROVE  WellFormed(TextOf(h, c))
<1> DEFINE B == Reach(h, {h[c].child})
           T == TextOf(h, c).items
<1>1. B \subseteq DOMAIN h /\ Closed(h, B) /\ (h[c].child \in DOMAIN h => h[c].child \in B)
  BY ReachClosed
<1>2. Linked(h) /\ Rooted(h, R) /\ Reach(h, R) = DOMAIN h
  BY DEF Forest
<1>3. ASSUME NEW x \in B, x # h[c].child PROVE \E w \in B : x \in {h[w].next, h[w].child}
  <2> SUFFICES ASSUME \A w \in B : x \notin {h[w].next, h[w].child} PROVE FALSE
    OBVIOUS
  <2>1. Closed(h, B \ {x})
    BY <1>1 DEF Closed
  <2>2. {h[c].child} \cap DOMAIN h \subseteq B \ {x} /\ B \ {x} \in SUBSET DOMAIN h
    BY <1>1, <1>3
  <2>3. B \subseteq B \ {x}
    <3> DEFINE V == B \ {x}
    <3> HIDE DEF V
    <3>1. Reach(h, {h[c].child}) \subseteq V
      BY <2>1, <2>2, ReachLeast DEF V
    <3> QED BY <3>1 DEF V
  <2> QED BY <2>3
<1>4. T = [x \in {c} \cup B |->
             [type |-> h[x].type,
              name |-> IF x = c THEN NoName ELSE h[x].name,
              next |-> IF x = c THEN Null ELSE h[x].next,
              prev |-> IF x = c THEN Null ELSE h[x].prev,
              child |-> h[x].child]]
  BY DEF TextOf, Tree
<1>5. TextOf(h, c).root = c
  BY DEF TextOf
<1> HIDE DEF T, B
<1>6. /\ DOMAIN T = {c} \cup B
      /\ \A x \in {c} \cup B : /\ T[x].next = IF x = c THEN Null ELSE h[x].next
                               /\ T[x].prev = IF x = c THEN Null ELSE h[x].prev
                               /\ T[x].child = h[x].child
                               /\ {"type", "name", "next", "prev", "child"} \subseteq DOMAIN T[x]
  BY <1>4
<1>7. c \notin B
  <2> SUFFICES ASSUME c \in B PROVE FALSE
    OBVIOUS
  <2>1. \A y \in B : \E w \in B : y \in {h[w].next, h[w].child}
    BY <1>3
  <2>2. Closed(h, DOMAIN h \ B)
    BY <1>1, <1>2, <2>1, OneReferrer DEF Closed
  <2>3. R \cap B = {}
    BY <1>1, <1>2, <2>1 DEF Rooted, Linked
  <2>4. Reach(h, R) \subseteq DOMAIN h \ B
    BY <1>2, <2>2, <2>3, ReachLeast DEF Rooted
  <2> QED BY <1>2, <2>4
<1>8. ASSUME NEW x \in B
      PROVE  /\ h[x].next \in B \cup {Null} /\ h[x].child \in B \cup {Null}
             /\ h[x].prev \in B \cup {Null}
  <2>1. h[x].next \in B \cup {Null} /\ h[x].child \in B \cup {Null}
    BY <1>1, <1>2 DEF Closed, Linked
  <2>2. ASSUME h[x].prev # Null PROVE h[x].prev \in B
    <3>1. h[x].prev \in DOMAIN h /\ h[h[x].prev].next = x /\ x # h[c].child
      BY <1>1, <1>2, <2>2 DEF Linked
    <3>2. PICK w \in B : x \in {h[w].next, h[w].child}
      BY <1>3, <3>1
    <3>3. w = h[x].prev
      BY <1>1, <1>2, <3>1, <3>2, OneReferrer
    <3> QED BY <3>2, <3>3
  <2> QED BY <2>1, <2>2
<1>9. h[c].child \in B \cup {Null} /\ Null \notin B
  BY <1>1, <1>2 DEF Linked
<1>10. Linked(T)
  <2>1. Null \notin DOMAIN T /\ Fields(T)
    BY <1>2, <1>6, <1>9 DEF Linked, Fields
  <2>2. ASSUME NEW x \in DOMAIN T
        PROVE  /\ {T[x].next, T[x].prev, T[x].child} \subseteq DOMAIN T \cup {Null}
               /\ T[x].next # Null => T[T[x].next].prev = x
               /\ T[x].prev # Null => T[T[x].prev].next = x
               /\ T[x].child # Null => T[T[x].child].prev = Null
    BY <1>1, <1>2, <1>6, <1>7, <1>8, <1>9 DEF Linked
  <2>3. ASSUME NEW x \in DOMAIN T, NEW d \in DOMAIN T, T[x].child = T[d].child, T[x].child # Null
        PROVE  x = d
    BY <1>1, <1>2, <1>6, <2>3 DEF Linked
  <2> QED BY <2>1, <2>2, <2>3 DEF Linked
<1>11. Rooted(T, {c})
  BY <1>2, <1>6, <1>7, <1>8, <1>9 DEF Rooted, Linked
<1>12. Reach(T, {c}) = DOMAIN T
  <2> DEFINE S == Reach(T, {c})
  <2>1. S \subseteq DOMAIN T /\ c \in S /\ Closed(T, S)
    BY <1>6, ReachClosed
  <2> HIDE DEF S
  <2>2. Closed(h, S \cap B)
    BY <1>1, <1>6, <1>7, <2>1 DEF Closed
  <2>3. h[c].child \in DOMAIN h => h[c].child \in S \cap B
    BY <1>1, <1>6, <2>1 DEF Closed
  <2>4. S \cap B \in SUBSET DOMAIN h
    BY <1>1
  <2>5. B \subseteq S \cap B
    BY <2>2, <2>3, <2>4, ReachLeast DEF B
  <2> QED BY <1>6, <2>1, <2>5 DEF S
<1>13. Items(T)
  BY <1>6 DEF Items
<1> QED BY <1>5, <1>10, <1>11, <1>12, <1>13 DEF WellFormed, Forest, T

-------------------------------------------------------------------------------
\* 3. Objects.
\* The caches of an object, by kind: what operator[] is given, what the object
\* has to be for it to find an item, and which.
Kinds == {"key", "index"}

Slots(o, p, kind) == IF kind = "key" THEN o[p].byKey ELSE o[p].byIndex

TypeOf(kind) == IF kind = "key" THEN "object" ELSE "array"

Found(h, f, kind, x) == IF kind = "key" THEN GetObjectItem(h, f, x) ELSE GetArrayItem(h, f, x)

\* What operator[] of an object that has or refers to f finds.
ItemFor(h, f, kind, x) ==
  IF f \in DOMAIN h /\ h[f].type = TypeOf(kind) THEN Found(h, f, kind, x) ELSE Null

FocusOf(o, p) == IF o[p].own # Null THEN o[p].own ELSE o[p].ext

Owned(o) == {o[p].own : p \in DOMAIN o} \ {Null}

-------------------------------------------------------------------------------
\* The invariant.  E are roots of the heap that no object has yet or has any more,
\* and D are the objects an operation is about to delete; between operations there
\* are none of either.  K are the objects whose list of names it is about to clear.

IsObject(r) ==
  /\ {"own", "ext", "byKey", "byIndex", "keys", "it", "found"} \subseteq DOMAIN r
  /\ DOMAIN r.byKey \subseteq OneSpelling /\ DOMAIN r.byIndex \subseteq Indices
  /\ r.own # Null => r.ext = Null
  /\ r.ext # Null => r.ext = r.found

\* Root is cached nowhere, every other object in one place, and all of them in
\* Root or below.
CacheTree(o) ==
  /\ Root \in DOMAIN o
  /\ \A p \in DOMAIN o, kind \in Kinds : \A x \in DOMAIN Slots(o, p, kind) :
       Slots(o, p, kind)[x] \in DOMAIN o \ {Root}
  /\ \A p, q \in DOMAIN o, kind, other \in Kinds :
       \A x \in DOMAIN Slots(o, p, kind), y \in DOMAIN Slots(o, q, other) :
         Slots(o, p, kind)[x] = Slots(o, q, other)[y] => p = q /\ kind = other /\ x = y
  /\ Nested(o, {Root}) = DOMAIN o

Objects(o) ==
  /\ DOMAIN o \subseteq Ids
  /\ \A p \in DOMAIN o : IsObject(o[p])
  /\ \A p, q \in DOMAIN o : o[p].own = o[q].own /\ o[p].own # Null => p = q
  /\ CacheTree(o)
  /\ o[Root].ext = Null

\* All that is cached in D or below.
CacheClosed(o, D) == \A p \in D : Cached(o, p) \subseteq D

\* No two objects have or refer to the same item.
FocusOnce(o, D) ==
  \A p, q \in DOMAIN o \ D : FocusOf(o, p) = FocusOf(o, q) /\ FocusOf(o, p) # Null => p = q

\* An object made for an item is to be up to date; one made for nothing may be
\* stale if the program adds where nothing was found.
Counts(o, c) == o[c].found # Null \/ ~ AddMissed

\* Coherent, for the objects that stay and count.
CoherentBut(h, o, D) ==
  \A p \in DOMAIN o \ D, kind \in Kinds : \A x \in DOMAIN Slots(o, p, kind) :
    LET c == Slots(o, p, kind)[x]
    IN c \notin D /\ Counts(o, c) => o[c].found = ItemFor(h, FocusOf(o, p), kind, x)

\* The folded names of the members of f.
NamesIn(h, f) == LET m == Members(h, f) IN [j \in DOMAIN m |-> Fold(h[m[j]].name)]

\* KeysFresh, for one object.
KeysGood(h, o, p) ==
  o[p].keys # <<>> =>
    /\ p = Root /\ FocusOf(o, p) # Null /\ h[FocusOf(o, p)].type # "array"
    /\ Len(o[p].keys) \in Nat /\ o[p].it \in 1..Len(o[p].keys) + 1
    /\ [j \in DOMAIN o[p].keys |-> Fold(o[p].keys[j])] = NamesIn(h, FocusOf(o, p))

Heap(h) == DOMAIN h \subseteq Addresses /\ Items(h)

Fine(h, o, E, D, K) ==
  /\ Heap(h) /\ Forest(h, Owned(o) \cup E) /\ E \cap Owned(o) = {}
  /\ Objects(o)
  /\ D \subseteq DOMAIN o \ {Root} /\ CacheClosed(o, D)
  /\ FocusOnce(o, D)
  /\ \A p \in DOMAIN o \ D : FocusOf(o, p) \notin E
  /\ CoherentBut(h, o, D)
  /\ \A p \in DOMAIN o \ (D \cup K) : KeysGood(h, o, p)

-------------------------------------------------------------------------------
\* What is cached where.

\* What is cached in p is in a slot of p.
LEMMA CachedIs ==
  ASSUME NEW o, NEW p
  PROVE  /\ \A c \in Cached(o, p) : \E kind \in Kinds : \E x \in DOMAIN Slots(o, p, kind) :
              c = Slots(o, p, kind)[x]
         /\ \A kind \in Kinds : \A x \in DOMAIN Slots(o, p, kind) : Slots(o, p, kind)[x] \in Cached(o, p)
  BY DEF Cached, Slots, Kinds, Range

\* Nested is closed under Cached and least.
LEMMA NestedIs ==
  ASSUME NEW o, NEW ids
  PROVE  /\ Nested(o, ids) \subseteq DOMAIN o
         /\ ids \cap DOMAIN o \subseteq Nested(o, ids)
         /\ \A p \in Nested(o, ids) : Cached(o, p) \cap DOMAIN o \subseteq Nested(o, ids)
         /\ \A S \in SUBSET DOMAIN o :
              ids \cap DOMAIN o \subseteq S /\ (\A p \in S : Cached(o, p) \cap DOMAIN o \subseteq S)
              => Nested(o, ids) \subseteq S
<1> DEFINE to == [p \in DOMAIN o |-> Cached(o, p)]
<1>1. DOMAIN to = DOMAIN o /\ \A p \in DOMAIN o : to[p] = Cached(o, p)
  OBVIOUS
<1>2. Nested(o, ids) = Reachable(to, ids)
  BY DEF Nested
<1> HIDE DEF to
<1> QED BY <1>1, <1>2, ReachableIs

\* What is nested in ids and not of them is in a slot of another that is.
LEMMA Holder ==
  ASSUME NEW o, NEW ids, NEW c \in Nested(o, ids), c \notin ids
  PROVE  \E p \in Nested(o, ids), kind \in Kinds : \E x \in DOMAIN Slots(o, p, kind) :
           c = Slots(o, p, kind)[x]
<1> SUFFICES ASSUME \A p \in Nested(o, ids) : c \notin Cached(o, p) PROVE FALSE
  BY CachedIs
<1> DEFINE S == Nested(o, ids) \ {c}
<1>1. S \in SUBSET DOMAIN o /\ ids \cap DOMAIN o \subseteq S
      /\ \A p \in S : Cached(o, p) \cap DOMAIN o \subseteq S
  BY NestedIs
<1>2. Nested(o, ids) \subseteq S
  <2> HIDE DEF S
  <2> QED BY <1>1, NestedIs
<1> QED BY <1>2

\* What is below some of the objects cached in id: of what stays, only id refers to
\* it, and only by those.
LEMMA NestedBelow ==
  ASSUME NEW o, CacheTree(o), NEW id \in DOMAIN o, NEW ids, ids \subseteq Cached(o, id),
         NEW D, D = Nested(o, ids)
  PROVE  /\ D \subseteq DOMAIN o \ {Root} /\ CacheClosed(o, D)
         /\ id \notin D /\ ids \subseteq D
         /\ \A p \in DOMAIN o \ D, kind \in Kinds : \A x \in DOMAIN Slots(o, p, kind) :
              Slots(o, p, kind)[x] \in D => p = id /\ Slots(o, p, kind)[x] \in ids
<1>1. \A p \in DOMAIN o : Cached(o, p) \subseteq DOMAIN o \ {Root}
  BY CachedIs DEF CacheTree
<1>2. D \subseteq DOMAIN o /\ ids \subseteq D /\ CacheClosed(o, D)
  BY <1>1, NestedIs DEF CacheClosed
<1>3. \A c \in ids : \E kind \in Kinds : \E x \in DOMAIN Slots(o, id, kind) : c = Slots(o, id, kind)[x]
  BY CachedIs
<1>4. ASSUME NEW p \in DOMAIN o \ D, NEW kind \in Kinds, NEW x \in DOMAIN Slots(o, p, kind),
             Slots(o, p, kind)[x] \in D
      PROVE  p = id /\ Slots(o, p, kind)[x] \in ids
  <2>1. Slots(o, p, kind)[x] \in ids
    <3> SUFFICES ASSUME Slots(o, p, kind)[x] \notin ids PROVE FALSE
      OBVIOUS
    <3>1. PICK q \in D, other \in Kinds : \E y \in DOMAIN Slots(o, q, other) :
            Slots(o, p, kind)[x] = Slots(o, q, other)[y]
      BY <1>4, Holder
    <3>2. p = q
      BY <1>2, <3>1 DEF CacheTree
    <3> QED BY <3>2
  <2>2. p = id
    BY <1>3, <2>1 DEF CacheTree
  <2> QED BY <2>1, <2>2
<1>5. Root \notin D
  <2>1. Root \in D => Root \in ids \/ \E p \in D : Root \in Cached(o, p)
    BY Holder, CachedIs
  <2> QED BY <1>1, <1>2, <2>1
<1>6. id \notin D
  <2> SUFFICES ASSUME id \in D PROVE FALSE
    OBVIOUS
  <2> DEFINE S == DOMAIN o \ D
  <2>1. \A p \in S : Cached(o, p) \cap DOMAIN o \subseteq S
    BY <1>4, CachedIs
  <2>2. Root \in S
    BY <1>5 DEF CacheTree
  <2>3. S \in SUBSET DOMAIN o
    OBVIOUS
  <2>4. Nested(o, {Root}) \subseteq S
    <3> HIDE DEF S
    <3> QED BY <2>1, <2>2, <2>3, NestedIs
  <2> QED BY <2>4 DEF CacheTree
<1> QED BY <1>2, <1>4, <1>5, <1>6

\* Deleting them, and what refers to them, leaves a tree.
Dropped(o, n, id, ids) ==
  \A p \in DOMAIN n, kind \in Kinds :
    \A x : /\ x \in DOMAIN Slots(n, p, kind) <=>
                x \in DOMAIN Slots(o, p, kind) /\ (p = id => Slots(o, p, kind)[x] \notin ids)
           /\ x \in DOMAIN Slots(n, p, kind) => Slots(n, p, kind)[x] = Slots(o, p, kind)[x]

LEMMA DropTree ==
  ASSUME NEW o, CacheTree(o), NEW id \in DOMAIN o, NEW ids, ids \subseteq Cached(o, id),
         NEW D, D = Nested(o, ids), NEW n, DOMAIN n = DOMAIN o \ D, Dropped(o, n, id, ids)
  PROVE  CacheTree(n)
<1>0. ASSUME NEW p \in DOMAIN n, NEW kind \in Kinds, NEW x
      PROVE  /\ x \in DOMAIN Slots(n, p, kind) <=>
                  x \in DOMAIN Slots(o, p, kind) /\ (p = id => Slots(o, p, kind)[x] \notin ids)
             /\ x \in DOMAIN Slots(n, p, kind) => Slots(n, p, kind)[x] = Slots(o, p, kind)[x]
  BY DEF Dropped
<1>1. /\ D \subseteq DOMAIN o \ {Root} /\ CacheClosed(o, D)
      /\ id \notin D /\ ids \subseteq D
      /\ \A p \in DOMAIN o \ D, kind \in Kinds : \A x \in DOMAIN Slots(o, p, kind) :
           Slots(o, p, kind)[x] \in D => p = id /\ Slots(o, p, kind)[x] \in ids
  BY NestedBelow
<1>2. Root \in DOMAIN n
  BY <1>1 DEF CacheTree
<1>3. ASSUME NEW p \in DOMAIN n, NEW kind \in Kinds, NEW x \in DOMAIN Slots(n, p, kind)
      PROVE  Slots(n, p, kind)[x] \in DOMAIN n \ {Root}
  <2>1. x \in DOMAIN Slots(o, p, kind) /\ Slots(n, p, kind)[x] = Slots(o, p, kind)[x]
        /\ (p = id => Slots(o, p, kind)[x] \notin ids)
    BY <1>0
  <2>2. Slots(o, p, kind)[x] \notin D
    BY <1>1, <2>1
  <2> QED BY <2>1, <2>2 DEF CacheTree
<1>4. ASSUME NEW p \in DOMAIN n, NEW q \in DOMAIN n, NEW kind \in Kinds, NEW other \in Kinds,
             NEW x \in DOMAIN Slots(n, p, kind), NEW y \in DOMAIN Slots(n, q, other),
             Slots(n, p, kind)[x] = Slots(n, q, other)[y]
      PROVE  p = q /\ kind = other /\ x = y
  <2>1. /\ p \in DOMAIN o /\ q \in DOMAIN o
        /\ x \in DOMAIN Slots(o, p, kind) /\ y \in DOMAIN Slots(o, q, other)
        /\ Slots(o, p, kind)[x] = Slots(o, q, other)[y]
    BY <1>0, <1>4
  <2> QED BY <2>1 DEF CacheTree
<1>5. Nested(n, {Root}) = DOMAIN n
  <2> DEFINE T == Nested(n, {Root})
  <2>1. T \subseteq DOMAIN n /\ Root \in T /\ \A p \in T : Cached(n, p) \cap DOMAIN n \subseteq T
    BY <1>2, NestedIs
  <2> HIDE DEF T
  <2>2. ASSUME NEW p \in T \cup D PROVE Cached(o, p) \cap DOMAIN o \subseteq T \cup D
    <3>1. CASE p \in D
      BY <1>1, <3>1 DEF CacheClosed
    <3>2. CASE p \in T
      <4> SUFFICES ASSUME NEW c \in Cached(o, p), c \notin D PROVE c \in T
        OBVIOUS
      <4>1. PICK kind \in Kinds : \E x \in DOMAIN Slots(o, p, kind) : c = Slots(o, p, kind)[x]
        BY CachedIs
      <4>2. PICK x \in DOMAIN Slots(o, p, kind) : c = Slots(o, p, kind)[x]
        BY <4>1
      <4>3. x \in DOMAIN Slots(n, p, kind) /\ c = Slots(n, p, kind)[x]
        <5>1. p \in DOMAIN n /\ c \notin ids
          BY <1>1, <2>1, <3>2
        <5> QED BY <1>0, <4>2, <5>1
      <4>4. c \in Cached(n, p) /\ c \in DOMAIN n
        BY <1>3, <2>1, <3>2, <4>3, CachedIs
      <4> QED BY <2>1, <3>2, <4>4
    <3> QED BY <3>1, <3>2
  <2>3. Root \in T \cup D /\ T \cup D \in SUBSET DOMAIN o
    BY <1>1, <2>1
  <2>4. Nested(o, {Root}) \subseteq T \cup D
    <3> DEFINE U == T \cup D
    <3>1. /\ {Root} \cap DOMAIN o \subseteq U /\ U \in SUBSET DOMAIN o
          /\ \A p \in U : Cached(o, p) \cap DOMAIN o \subseteq U
      BY <2>2, <2>3
    <3> HIDE DEF U
    <3>2. Nested(o, {Root}) \subseteq U
      BY <3>1, NestedIs
    <3> QED BY <3>2 DEF U
  <2> QED BY <2>1, <2>4 DEF CacheTree, T
<1> QED BY <1>2, <1>3, <1>4, <1>5 DEF CacheTree

\* A new object in a slot that was free.
Grown(o, n, id, what, key, new) ==
  /\ \A kind \in Kinds : DOMAIN Slots(n, new, kind) = {}
  /\ \A p \in DOMAIN o, kind \in Kinds :
       \A x : /\ x \in DOMAIN Slots(n, p, kind) <=>
                   x \in DOMAIN Slots(o, p, kind) \/ (p = id /\ kind = what /\ x = key)
              /\ x \in DOMAIN Slots(o, p, kind) => Slots(n, p, kind)[x] = Slots(o, p, kind)[x]
  /\ Slots(n, id, what)[key] = new

LEMMA GrowTree ==
  ASSUME NEW o, CacheTree(o), NEW id \in DOMAIN o, NEW new, new \notin DOMAIN o, new # Root,
         NEW what \in Kinds, NEW key, key \notin DOMAIN Slots(o, id, what),
         NEW n, DOMAIN n = DOMAIN o \cup {new}, Grown(o, n, id, what, key, new)
  PROVE  CacheTree(n)
<1>1. ASSUME NEW p \in DOMAIN n, NEW kind \in Kinds, NEW x \in DOMAIN Slots(n, p, kind)
      PROVE  /\ p \in DOMAIN o
             /\ \/ x \in DOMAIN Slots(o, p, kind) /\ Slots(n, p, kind)[x] = Slots(o, p, kind)[x]
                \/ p = id /\ kind = what /\ x = key /\ Slots(n, p, kind)[x] = new
  <2>1. p \in DOMAIN o
    BY DEF Grown
  <2>2. CASE x \in DOMAIN Slots(o, p, kind)
    BY <2>1, <2>2 DEF Grown
  <2>3. CASE x \notin DOMAIN Slots(o, p, kind)
    <3>1. p = id /\ kind = what /\ x = key
      BY <2>1, <2>3 DEF Grown
    <3> QED BY <2>1, <3>1 DEF Grown
  <2> QED BY <2>2, <2>3
<1>2. Root \in DOMAIN n
  BY DEF CacheTree
<1>3. ASSUME NEW p \in DOMAIN n, NEW kind \in Kinds, NEW x \in DOMAIN Slots(n, p, kind)
      PROVE  Slots(n, p, kind)[x] \in DOMAIN n \ {Root}
  BY <1>1 DEF CacheTree
<1>4. ASSUME NEW p \in DOMAIN n, NEW q \in DOMAIN n, NEW kind \in Kinds, NEW other \in Kinds,
             NEW x \in DOMAIN Slots(n, p, kind), NEW y \in DOMAIN Slots(n, q, other),
             Slots(n, p, kind)[x] = Slots(n, q, other)[y]
      PROVE  p = q /\ kind = other /\ x = y
  <2>1. ASSUME x \in DOMAIN Slots(o, p, kind), Slots(n, p, kind)[x] = Slots(o, p, kind)[x], p \in DOMAIN o
        PROVE  p = q /\ kind = other /\ x = y
    <3>1. Slots(n, p, kind)[x] # new
      BY <2>1 DEF CacheTree
    <3>2. y \in DOMAIN Slots(o, q, other) /\ Slots(n, q, other)[y] = Slots(o, q, other)[y] /\ q \in DOMAIN o
      BY <1>1, <1>4, <3>1
    <3>3. Slots(o, p, kind)[x] = Slots(o, q, other)[y]
      BY <1>4, <2>1, <3>2
    <3> QED BY <2>1, <3>2, <3>3 DEF CacheTree
  <2>2. ASSUME p = id, kind = what, x = key, Slots(n, p, kind)[x] = new
        PROVE  p = q /\ kind = other /\ x = y
    <3>1. ~(y \in DOMAIN Slots(o, q, other) /\ Slots(n, q, other)[y] = Slots(o, q, other)[y] /\ q \in DOMAIN o)
      BY <1>4, <2>2 DEF CacheTree
    <3>2. q = id /\ other = what /\ y = key
      BY <1>1, <3>1
    <3> QED BY <2>2, <3>2
  <2>3. /\ p \in DOMAIN o
        /\ \/ x \in DOMAIN Slots(o, p, kind) /\ Slots(n, p, kind)[x] = Slots(o, p, kind)[x]
           \/ p = id /\ kind = what /\ x = key /\ Slots(n, p, kind)[x] = new
    BY <1>1
  <2> QED BY <2>1, <2>2, <2>3
<1>5. Nested(n, {Root}) = DOMAIN n
  <2> DEFINE T == Nested(n, {Root})
             U == T \cap DOMAIN o
  <2>1. T \subseteq DOMAIN n /\ Root \in T /\ \A p \in T : Cached(n, p) \cap DOMAIN n \subseteq T
    BY <1>2, NestedIs
  <2> HIDE DEF T
  <2>2. ASSUME NEW p \in U PROVE Cached(o, p) \cap DOMAIN o \subseteq U
    <3> SUFFICES ASSUME NEW c \in Cached(o, p), c \in DOMAIN o PROVE c \in T
      OBVIOUS
    <3>1. PICK kind \in Kinds : \E x \in DOMAIN Slots(o, p, kind) : c = Slots(o, p, kind)[x]
      BY CachedIs
    <3>2. PICK x \in DOMAIN Slots(o, p, kind) : c = Slots(o, p, kind)[x]
      BY <3>1
    <3>3. x \in DOMAIN Slots(n, p, kind) /\ c = Slots(n, p, kind)[x]
      <4>1. p \in DOMAIN o
        OBVIOUS
      <4>2. \A y : /\ y \in DOMAIN Slots(o, p, kind) => y \in DOMAIN Slots(n, p, kind)
                   /\ y \in DOMAIN Slots(o, p, kind) => Slots(n, p, kind)[y] = Slots(o, p, kind)[y]
        BY <3>1, <4>1 DEF Grown
      <4> QED BY <3>2, <4>2
    <3>4. c \in Cached(n, p) /\ c \in DOMAIN n
      BY <3>3, CachedIs
    <3> QED BY <2>1, <3>4
  <2>3. Root \in U /\ U \in SUBSET DOMAIN o
    BY <2>1 DEF CacheTree
  <2>4. Nested(o, {Root}) \subseteq U
    <3>1. /\ {Root} \cap DOMAIN o \subseteq U /\ U \in SUBSET DOMAIN o
          /\ \A p \in U : Cached(o, p) \cap DOMAIN o \subseteq U
      BY <2>2, <2>3
    <3> HIDE DEF U
    <3> QED BY <3>1, NestedIs
  <2>5. new \in T
    <3>1. id \in T
      BY <2>4 DEF CacheTree
    <3>2. new \in Cached(n, id)
      <4>1. key \in DOMAIN Slots(n, id, what) /\ Slots(n, id, what)[key] = new
        BY DEF Grown
      <4> QED BY <4>1, CachedIs
    <3> QED BY <2>1, <3>1, <3>2
  <2>6. DOMAIN o \subseteq T
    BY <2>4 DEF CacheTree
  <2>7. DOMAIN n \subseteq T
    BY <2>5, <2>6
  <2> QED BY <2>1, <2>7 DEF T
<1> QED BY <1>2, <1>3, <1>4, <1>5 DEF CacheTree

\* Every position below the size has a member.
LEMMA PositionsFull ==
  ASSUME NEW h, NEW R, Forest(h, R), IsFiniteSet(DOMAIN h), NEW a \in DOMAIN h,
         NEW j \in 1..GetArraySize(h, a)
  PROVE  GetArrayItem(h, a, j - 1) \in Listed(h, a)
<1> DEFINE L == Listed(h, a)
           n == Cardinality(L)
           at == [c \in L |-> Cardinality(UpTo(h, a, c))]
<1>1. IsFiniteSet(L) /\ n \in Nat
  BY ListedFinite, FS_CardinalityType
<1>2. ASSUME NEW c \in L PROVE at[c] \in 1..n
  <2>1. UpTo(h, a, c) \in SUBSET L
    BY DEF UpTo
  <2>2. IsFiniteSet(UpTo(h, a, c)) /\ Cardinality(UpTo(h, a, c)) \in Nat /\ at[c] = Cardinality(UpTo(h, a, c))
    BY UpToFinite
  <2>3. at[c] <= n
    <3> HIDE DEF L, at
    <3> QED BY <1>1, <2>1, <2>2, FS_Subset
  <2>4. c \in UpTo(h, a, c)
    <3>1. c \in DOMAIN h
      BY OnwardClosed DEF Listed
    <3> QED BY <3>1, OnwardClosed DEF UpTo
  <2>5. at[c] # 0
    BY <2>2, <2>4, FS_EmptySet
  <2> QED BY <1>1, <2>2, <2>3, <2>5
<1>3. at \in Injection(L, 1..n)
  <2>1. at \in [L -> 1..n]
    BY <1>2
  <2>2. ASSUME NEW x \in L, NEW y \in L, at[x] = at[y] PROVE x = y
    BY <2>2, PositionOnce
  <2> HIDE DEF at, n, L
  <2> QED BY <2>1, <2>2 DEF Injection, IsInjective
<1>4. at \in Surjection(L, 1..n)
  <2>1. IsFiniteSet(1..n) /\ Cardinality(1..n) = n
    BY <1>1, FS_Interval
  <2> HIDE DEF at
  <2> QED BY <1>1, <1>3, <2>1, FS_Injection
<1>5. PICK c \in L : at[c] = j
  <2>1. j \in 1..n
    BY DEF GetArraySize
  <2> HIDE DEF at
  <2> QED BY <1>4, <2>1 DEF Surjection
<1>6. j - 1 \in Nat
  BY <1>1 DEF GetArraySize
<1>7. IsAt(h, a, j - 1, c)
  <2>1. Cardinality(UpTo(h, a, c)) = j
    BY <1>5
  <2> QED BY <1>6, <2>1 DEF IsAt
<1>8. GetArrayItem(h, a, j - 1) = c
  BY <1>6, <1>7, GetArrayItemIs
<1> QED BY <1>8

\* Where an item is found one is found at every position before.
LEMMA FoundBefore ==
  ASSUME NEW h, NEW R, Forest(h, R), IsFiniteSet(DOMAIN h), NEW a \in DOMAIN h,
         NEW i \in Nat, NEW j \in Nat, j < i, GetArrayItem(h, a, i) # Null
  PROVE  GetArrayItem(h, a, j) # Null
<1> DEFINE c == GetArrayItem(h, a, i)
<1>1. c \in Listed(h, a) /\ Cardinality(UpTo(h, a, c)) = i + 1
  BY GetArrayItemIs DEF IsAt
<1>2. UpTo(h, a, c) \subseteq Listed(h, a)
  BY DEF UpTo
<1> HIDE DEF c
<1>3. Cardinality(UpTo(h, a, c)) <= GetArraySize(h, a) /\ GetArraySize(h, a) \in Nat
  BY <1>2, ListedFinite, FS_Subset, FS_CardinalityType DEF GetArraySize
<1>4. j + 1 \in 1..GetArraySize(h, a) /\ (j + 1) - 1 = j
  BY <1>1, <1>3
<1>5. GetArrayItem(h, a, (j + 1) - 1) \in Listed(h, a)
  BY <1>4, PositionsFull
<1>6. GetArrayItem(h, a, j) \in Listed(h, a)
  BY <1>4, <1>5
<1> QED BY <1>6, ListedMember DEF Forest

\* In the same list are the same names.
LEMMA SameNames ==
  ASSUME NEW h, NEW R, Forest(h, R), IsFiniteSet(DOMAIN h), NEW g, NEW b, SameList(h, g, b)
  PROVE  NamesIn(g, b) = NamesIn(h, b)
<1>1. GetArraySize(g, b) = GetArraySize(h, b)
  BY DEF SameList, GetArraySize
<1>2. \A i : GetArrayItem(g, b, i) = GetArrayItem(h, b, i)
  BY SameFound
<1>3. Members(g, b) = Members(h, b)
  BY <1>1, <1>2 DEF Members
<1>4. ASSUME NEW j \in DOMAIN Members(h, b)
      PROVE  g[Members(h, b)[j]].name = h[Members(h, b)[j]].name
  <2>1. j \in 1..GetArraySize(h, b) /\ Members(h, b)[j] = GetArrayItem(h, b, j - 1)
    BY DEF Members
  <2>2. Members(h, b)[j] \in Listed(h, b)
    BY <2>1, PositionsFull DEF SameList
  <2> QED BY <2>2 DEF SameList
<1> QED BY <1>3, <1>4 DEF NamesIn

\* A heap has finitely many items.
LEMMA FiniteHeap ==
  ASSUME NEW h, Heap(h)
  PROVE  IsFiniteSet(DOMAIN h)
<1>1. IsFiniteSet(Addresses)
  BY JsonObjectAssumption, FS_Interval DEF Addresses
<1> QED BY <1>1, FS_Subset DEF Heap

\* What operator[] finds is a member.
LEMMA FoundMember ==
  ASSUME NEW h, NEW R, Forest(h, R), Heap(h), NEW f \in DOMAIN h, NEW kind, NEW x,
         Found(h, f, kind, x) # Null
  PROVE  Found(h, f, kind, x) \in Listed(h, f)
  BY FiniteHeap, GetArrayItemIs, GetObjectItemIs DEF Found, IsAt, IsNamed

-------------------------------------------------------------------------------
\* What the objects refer to.

\* An object without items of its own has its item from the object it is cached in.
LEMMA Referrer ==
  ASSUME NEW h, NEW o, NEW E, NEW D, NEW K, Fine(h, o, E, D, K),
         NEW p \in DOMAIN o \ D, o[p].ext # Null
  PROVE  \E q \in DOMAIN o \ D, kind \in Kinds : \E x \in DOMAIN Slots(o, q, kind) :
           /\ Slots(o, q, kind)[x] = p
           /\ FocusOf(o, q) \in DOMAIN h /\ h[FocusOf(o, q)].type = TypeOf(kind)
           /\ o[p].ext = Found(h, FocusOf(o, q), kind, x)
           /\ o[p].ext \in Listed(h, FocusOf(o, q))
<1>1. p # Root /\ p \in Nested(o, {Root})
  BY DEF Fine, Objects, CacheTree
<1>2. PICK q \in Nested(o, {Root}), kind \in Kinds : \E x \in DOMAIN Slots(o, q, kind) :
        p = Slots(o, q, kind)[x]
  BY <1>1, Holder
<1>3. PICK x \in DOMAIN Slots(o, q, kind) : p = Slots(o, q, kind)[x]
  BY <1>2
<1>4. q \in DOMAIN o \ D
  <2>1. q \in DOMAIN o
    BY NestedIs
  <2>2. p \in Cached(o, q)
    BY <1>3, CachedIs
  <2> QED BY <2>1, <2>2 DEF Fine, CacheClosed
<1>5. /\ FocusOf(o, q) \in DOMAIN h /\ h[FocusOf(o, q)].type = TypeOf(kind)
      /\ o[p].ext = Found(h, FocusOf(o, q), kind, x)
  <2>1. o[p].ext = o[p].found
    BY DEF Fine, Objects, IsObject
  <2>2. o[p].found = ItemFor(h, FocusOf(o, q), kind, x)
    BY <1>3, <1>4, <2>1 DEF Fine, CoherentBut, Counts
  <2> QED BY <2>1, <2>2 DEF ItemFor
<1>6. o[p].ext \in Listed(h, FocusOf(o, q))
  BY <1>5, FoundMember DEF Fine
<1> QED BY <1>3, <1>4, <1>5, <1>6

\* What an object has or refers to is in the heap: no reference dangles.
LEMMA FocusIn ==
  ASSUME NEW h, NEW o, NEW E, NEW D, NEW K, Fine(h, o, E, D, K),
         NEW p \in DOMAIN o \ D, FocusOf(o, p) # Null
  PROVE  FocusOf(o, p) \in DOMAIN h
<1>1. CASE o[p].own # Null
  BY <1>1 DEF FocusOf, Fine, Owned, Forest, Rooted
<1>2. CASE o[p].own = Null
  <2>1. o[p].ext # Null /\ FocusOf(o, p) = o[p].ext
    BY <1>2 DEF FocusOf
  <2>2. \E q : o[p].ext \in Listed(h, FocusOf(o, q))
    BY <2>1, Referrer
  <2> QED BY <2>1, <2>2, OnwardClosed DEF Listed
<1> QED BY <1>1, <1>2

\* No object that stays refers to what is below a root that none of them has.
LEMMA FociFree ==
  ASSUME NEW h, NEW o, NEW E, NEW D, NEW K, Fine(h, o, E, D, K), NEW r \in Owned(o) \cup E,
         \A p \in DOMAIN o \ D : FocusOf(o, p) # r
  PROVE  \A p \in DOMAIN o \ D : FocusOf(o, p) \notin Freed(h, r)
<1> DEFINE X == {FocusOf(o, p) : p \in DOMAIN o \ D} \cap DOMAIN h
           R == Owned(o) \cup E
<1>1. ASSUME NEW x \in X PROVE x \in R \/ \E y \in X : x \in Listed(h, y)
  <2>1. PICK p \in DOMAIN o \ D : x = FocusOf(o, p)
    OBVIOUS
  <2>2. x # Null
    BY DEF Fine, Forest, Linked
  <2>3. CASE o[p].own # Null
    BY <2>1, <2>3 DEF FocusOf, Owned
  <2>4. CASE o[p].own = Null
    <3>1. x = o[p].ext
      BY <2>1, <2>4 DEF FocusOf
    <3>2. \E q \in DOMAIN o \ D : FocusOf(o, q) \in DOMAIN h /\ x \in Listed(h, FocusOf(o, q))
      BY <2>2, <3>1, Referrer
    <3> QED BY <3>2
  <2> QED BY <2>3, <2>4
<1>2. X \in SUBSET DOMAIN h /\ r \notin X /\ r \in R /\ Forest(h, R)
  BY DEF Fine
<1>3. X \cap Freed(h, r) = {}
  <2> HIDE DEF X, R
  <2> QED BY <1>1, <1>2, NoneBelow
<1>4. Freed(h, r) \subseteq DOMAIN h
  BY ReachClosed DEF Freed
<1> QED BY <1>3, <1>4

\* An object that refers to a member of the list of id is cached in id, for it.
LEMMA HeldBy ==
  ASSUME NEW h, NEW o, NEW E, NEW D, NEW K, Fine(h, o, E, D, K),
         NEW id \in DOMAIN o \ D, FocusOf(o, id) \in DOMAIN h,
         NEW p \in DOMAIN o \ D, FocusOf(o, p) \in Listed(h, FocusOf(o, id))
  PROVE  /\ o[p].ext = FocusOf(o, p) /\ o[p].ext # Null
         /\ \E kind \in Kinds : \E x \in DOMAIN Slots(o, id, kind) :
              /\ Slots(o, id, kind)[x] = p
              /\ h[FocusOf(o, id)].type = TypeOf(kind)
              /\ FocusOf(o, p) = Found(h, FocusOf(o, id), kind, x)
<1>1. FocusOf(o, p) \notin Owned(o) /\ FocusOf(o, p) # Null
  BY ListedNoRoot, ListedMember DEF Fine, Forest
<1>2. o[p].ext = FocusOf(o, p) /\ o[p].ext # Null
  BY <1>1 DEF FocusOf, Owned
<1>3. PICK q \in DOMAIN o \ D, kind \in Kinds : \E x \in DOMAIN Slots(o, q, kind) :
           /\ Slots(o, q, kind)[x] = p
           /\ FocusOf(o, q) \in DOMAIN h /\ h[FocusOf(o, q)].type = TypeOf(kind)
           /\ o[p].ext = Found(h, FocusOf(o, q), kind, x)
           /\ o[p].ext \in Listed(h, FocusOf(o, q))
  BY <1>2, Referrer
<1>4. FocusOf(o, q) = FocusOf(o, id)
  BY <1>2, <1>3, ListedApart DEF Fine, Forest
<1>5. q = id
  <2>1. FocusOf(o, id) # Null
    BY DEF Fine, Forest, Linked
  <2> QED BY <1>4, <2>1 DEF Fine, FocusOnce
<1> QED BY <1>2, <1>3, <1>5

-------------------------------------------------------------------------------
\* What a change of the heap must not do to an object that stays.
Stays(h, g, o, p, C) ==
  /\ FocusOf(o, p) \in DOMAIN g /\ g[FocusOf(o, p)].type = h[FocusOf(o, p)].type
  /\ \A kind \in Kinds : \A x \in DOMAIN Slots(o, p, kind) :
       LET c == Slots(o, p, kind)[x]
       IN c \notin C /\ Counts(o, c) => ItemFor(g, FocusOf(o, p), kind, x) = ItemFor(h, FocusOf(o, p), kind, x)

LEMMA EditFine ==
  ASSUME NEW h, NEW o, NEW E, NEW D, NEW K, Fine(h, o, E, D, K),
         NEW g, NEW F, Heap(g), Forest(g, Owned(o) \cup F), F \cap Owned(o) = {},
         NEW C, D \subseteq C, C \subseteq DOMAIN o \ {Root}, CacheClosed(o, C),
         NEW L, K \subseteq L,
         \A p \in DOMAIN o \ C : FocusOf(o, p) \notin F,
         \A p \in DOMAIN o \ C : FocusOf(o, p) # Null => Stays(h, g, o, p, C),
         \A p \in DOMAIN o \ (C \cup L) : FocusOf(o, p) # Null => NamesIn(g, FocusOf(o, p)) = NamesIn(h, FocusOf(o, p))
  PROVE  Fine(g, o, F, C, L)
<1>1. FocusOnce(o, C)
  BY DEF Fine, FocusOnce
<1>2. CoherentBut(g, o, C)
  <2> SUFFICES ASSUME NEW p \in DOMAIN o \ C, NEW kind \in Kinds, NEW x \in DOMAIN Slots(o, p, kind),
                      Slots(o, p, kind)[x] \notin C, Counts(o, Slots(o, p, kind)[x])
               PROVE  o[Slots(o, p, kind)[x]].found = ItemFor(g, FocusOf(o, p), kind, x)
    BY DEF CoherentBut
  <2>1. o[Slots(o, p, kind)[x]].found = ItemFor(h, FocusOf(o, p), kind, x)
    BY DEF Fine, CoherentBut
  <2>2. CASE FocusOf(o, p) # Null
    <3>1. Stays(h, g, o, p, C)
      BY <2>2
    <3> QED BY <2>1, <3>1 DEF Stays
  <2>3. CASE FocusOf(o, p) = Null
    <3>1. Null \notin DOMAIN h /\ Null \notin DOMAIN g
      BY DEF Fine, Forest, Linked
    <3> QED BY <2>1, <2>3, <3>1 DEF ItemFor
  <2> QED BY <2>2, <2>3
<1>3. ASSUME NEW p \in DOMAIN o \ (C \cup L) PROVE KeysGood(g, o, p)
  <2>1. KeysGood(h, o, p)
    BY DEF Fine
  <2>2. CASE FocusOf(o, p) = Null
    BY <2>1, <2>2 DEF KeysGood
  <2>3. CASE FocusOf(o, p) # Null
    <3>1. Stays(h, g, o, p, C) /\ NamesIn(g, FocusOf(o, p)) = NamesIn(h, FocusOf(o, p))
      BY <2>3
    <3> QED BY <2>1, <3>1 DEF KeysGood, Stays
  <2> QED BY <2>2, <2>3
<1> QED BY <1>1, <1>2, <1>3 DEF Fine

\* An object whose list is the same stays.
LEMMA SameStays ==
  ASSUME NEW h, NEW R, Forest(h, R), Heap(h), NEW g, NEW o, NEW p, NEW C, SameList(h, g, FocusOf(o, p))
  PROVE  Stays(h, g, o, p, C) /\ NamesIn(g, FocusOf(o, p)) = NamesIn(h, FocusOf(o, p))
<1>1. Stays(h, g, o, p, C)
  BY SameFound DEF Stays, SameList, Found, ItemFor
<1> QED BY <1>1, FiniteHeap, SameNames

\* A change that leaves the lists of all objects.
LEMMA SameListFine ==
  ASSUME NEW h, NEW o, NEW E, NEW D, NEW K, Fine(h, o, E, D, K),
         NEW g, NEW F, Heap(g), Forest(g, Owned(o) \cup F), F \cap Owned(o) = {},
         \A p \in DOMAIN o \ D : FocusOf(o, p) \notin F,
         \A p \in DOMAIN o \ D : FocusOf(o, p) # Null => SameList(h, g, FocusOf(o, p))
  PROVE  Fine(g, o, F, D, K)
<1>1. \A p \in DOMAIN o \ D : FocusOf(o, p) # Null =>
        Stays(h, g, o, p, D) /\ NamesIn(g, FocusOf(o, p)) = NamesIn(h, FocusOf(o, p))
  BY SameStays DEF Fine
<1>2. D \subseteq DOMAIN o \ {Root} /\ CacheClosed(o, D)
  BY DEF Fine
<1> QED BY <1>1, <1>2, EditFine

\* More objects may be about to be deleted, or their names cleared.
LEMMA WiderFine ==
  ASSUME NEW h, NEW o, NEW E, NEW D, NEW K, Fine(h, o, E, D, K),
         NEW C, D \subseteq C, C \subseteq DOMAIN o \ {Root}, CacheClosed(o, C),
         NEW L, K \subseteq L
  PROVE  Fine(h, o, E, C, L)
<1>1. \A p \in DOMAIN o \ C : FocusOf(o, p) # Null => Stays(h, h, o, p, C)
  BY FocusIn DEF Stays
<1>2. /\ Heap(h) /\ Forest(h, Owned(o) \cup E) /\ E \cap Owned(o) = {}
      /\ \A p \in DOMAIN o \ C : FocusOf(o, p) \notin E
  BY DEF Fine
<1> QED BY <1>1, <1>2, EditFine

\* A new root outside all lists.
LEMMA ExtendFine ==
  ASSUME NEW h, NEW o, NEW D, NEW K, Fine(h, o, {}, D, K),
         NEW g, NEW a, a \notin DOMAIN h, a # Null, Heap(g), Forest(g, Owned(o) \cup {a}),
         \A b \in DOMAIN h : SameList(h, g, b)
  PROVE  Fine(g, o, {a}, D, K)
<1>1. Owned(o) \subseteq DOMAIN h
  BY DEF Fine, Forest, Rooted
<1>2. \A p \in DOMAIN o \ D : FocusOf(o, p) # Null => SameList(h, g, FocusOf(o, p))
  BY FocusIn
<1>3. \A p \in DOMAIN o \ D : FocusOf(o, p) \notin {a}
  BY FocusIn
<1> QED BY <1>1, <1>2, <1>3, SameListFine

\* One that cJSON_New_Item makes.
LEMMA NewFine ==
  ASSUME NEW h, NEW o, NEW D, NEW K, Fine(h, o, {}, D, K), NEW a \in Addresses, a \notin DOMAIN h, NEW t,
         NEW g, g = New(h, a, t)
  PROVE  /\ Fine(g, o, {a}, D, K)
         /\ a \in DOMAIN g /\ a # Null /\ g[a].type = t /\ Listed(g, a) = {}
         /\ \A b \in DOMAIN h : SameList(h, g, b)
<1>1. Forest(h, Owned(o)) /\ Items(h) /\ DOMAIN h \subseteq Addresses
  BY DEF Fine, Heap
<1>2. a # Null
  BY JsonObjectAssumption
<1>3. /\ Forest(g, Owned(o) \cup {a}) /\ Items(g)
      /\ DOMAIN g = DOMAIN h \cup {a} /\ Extends(h, g) /\ g[a].type = t
      /\ \A b \in DOMAIN h : SameList(h, g, b) /\ b \notin Freed(g, a)
      /\ Listed(g, a) = {}
  <2>1. Extends(h, g) /\ g[a].type = t
    BY DEF New, Extends, NewItem
  <2> DEFINE R == Owned(o)
  <2> HIDE DEF R
  <2>2. Forest(h, R)
    BY <1>1 DEF R
  <2>3. Forest(g, R \cup {a})
    BY <1>1, <1>2, <2>2, NewItemList
  <2>4. Items(g) /\ DOMAIN g = DOMAIN h \cup {a}
    BY <1>1, <1>2, <2>2, NewItemList
  <2>5. Listed(g, a) = {} /\ \A b \in DOMAIN h : SameList(h, g, b) /\ b \notin Freed(g, a)
    BY <1>1, <1>2, <2>2, NewItemList
  <2> QED BY <2>1, <2>3, <2>4, <2>5 DEF R
<1>4. Heap(g)
  BY <1>1, <1>3 DEF Heap
<1>5. Fine(g, o, {a}, D, K)
  BY <1>2, <1>3, <1>4, ExtendFine
<1> QED BY <1>2, <1>3, <1>5

\* The one of the items that cJSON_Parse makes.
LEMMA ParsedFine ==
  ASSUME NEW h, NEW o, NEW D, NEW K, Fine(h, o, {}, D, K),
         NEW text, WellFormed(text), Allocations(h, text) # {},
         NEW g, g = Parsed(h, text), NEW a, a = ParsedAt(h, text)
  PROVE  /\ Fine(g, o, {a}, D, K) /\ a # Null
         /\ \A b \in DOMAIN h : SameList(h, g, b)
<1>1. Forest(h, Owned(o)) /\ Items(h) /\ DOMAIN h \subseteq Addresses
  BY DEF Fine, Heap
<1>3. /\ Forest(g, Owned(o) \cup {a}) /\ Items(g)
      /\ DOMAIN g \subseteq DOMAIN h \cup Addresses /\ Extends(h, g)
      /\ a \notin DOMAIN h /\ a # Null
      /\ \A b \in DOMAIN h : SameList(h, g, b) /\ b \notin Freed(g, a)
  BY <1>1, JsonObjectAssumption, ParsedList
<1>4. Heap(g)
  BY <1>1, <1>3 DEF Heap
<1>5. Fine(g, o, {a}, D, K)
  BY <1>3, <1>4, ExtendFine
<1> QED BY <1>3, <1>5

\* Naming a root that no object has yet.
LEMMA SetNameFine ==
  ASSUME NEW h, NEW o, NEW D, NEW K, NEW a, Fine(h, o, {a}, D, K), NEW k,
         NEW g, g = SetName(h, a, k)
  PROVE  Fine(g, o, {a}, D, K) /\ g[a].name = k /\ \A b \in DOMAIN h : SameList(h, g, b)
<1>1. Forest(h, Owned(o) \cup {a}) /\ Items(h)
  BY DEF Fine, Heap
<1>2. /\ Forest(g, Owned(o) \cup {a}) /\ Items(g) /\ DOMAIN g = DOMAIN h
      /\ g[a].name = k
      /\ \A b \in DOMAIN h : SameList(h, g, b)
  BY <1>1, SetNameForest
<1>3. Heap(g) /\ {a} \cap Owned(o) = {} /\ \A p \in DOMAIN o \ D : FocusOf(o, p) \notin {a}
  BY <1>2 DEF Fine, Heap
<1>4. \A p \in DOMAIN o \ D : FocusOf(o, p) # Null => SameList(h, g, FocusOf(o, p))
  BY <1>2, FocusIn
<1>5. Fine(g, o, {a}, D, K)
  BY <1>2, <1>3, <1>4, SameListFine
<1> QED BY <1>2, <1>5

\* An object that stays and counts is cached in id for x, in the way x is looked up.
Served(h, o, C, id, kind, x) ==
  LET c == Slots(o, id, kind)[x]
  IN /\ c \notin C /\ Counts(o, c) /\ o[c].found = Found(h, FocusOf(o, id), kind, x)
     /\ h[FocusOf(o, id)].type = TypeOf(kind)

\* None of them is found elsewhere in g, or was made for c, or is cached for the
\* name n, or was made for nothing where n or the next position is looked up.
SameServed(h, g, o, C, id) ==
  \A kind \in Kinds : \A x \in DOMAIN Slots(o, id, kind) :
    Served(h, o, C, id, kind, x) => Found(g, FocusOf(o, id), kind, x) = Found(h, FocusOf(o, id), kind, x)

NotServed(h, o, C, id, c) ==
  \A kind \in Kinds : \A x \in DOMAIN Slots(o, id, kind) :
    Served(h, o, C, id, kind, x) => Found(h, FocusOf(o, id), kind, x) # c

NotNamed(h, o, C, id, n) ==
  \A x \in DOMAIN Slots(o, id, "key") : Served(h, o, C, id, "key", x) => Fold(n) # Fold(x)

NotMissed(h, o, C, id, n) ==
  \A kind \in Kinds : \A x \in DOMAIN Slots(o, id, kind) :
    Served(h, o, C, id, kind, x) /\ Found(h, FocusOf(o, id), kind, x) = Null =>
      IF kind = "key" THEN Fold(n) # Fold(x) ELSE x \in Nat /\ x # GetArraySize(h, FocusOf(o, id))

\* A change of the list of one object.
LEMMA ListFine ==
  ASSUME NEW h, NEW o, NEW E, NEW D, NEW K, Fine(h, o, E, D, K),
         NEW C, D \subseteq C, C \subseteq DOMAIN o \ {Root}, CacheClosed(o, C),
         NEW id \in DOMAIN o \ C, NEW f, f = FocusOf(o, id), f # Null,
         NEW g, NEW F, Kept(h, g), Forest(g, Owned(o) \cup F), F \cap Owned(o) = {},
         \A b \in DOMAIN h \ {f} : SameList(h, g, b),
         \A p \in DOMAIN o \ C : FocusOf(o, p) \notin F,
         NEW L, K \subseteq L, id \in L \/ NamesIn(g, f) = NamesIn(h, f),
         SameServed(h, g, o, C, id)
  PROVE  Fine(g, o, F, C, L)
<1>1. Heap(g) /\ f \in DOMAIN h /\ f \in DOMAIN g /\ g[f].type = h[f].type
  BY FocusIn DEF Fine, Heap, Kept
<1>2. ASSUME NEW p \in DOMAIN o \ C, FocusOf(o, p) # Null, p # id
      PROVE  SameList(h, g, FocusOf(o, p))
  <2>1. FocusOf(o, p) # f
    BY <1>2 DEF Fine, FocusOnce
  <2> QED BY <1>2, <2>1, FocusIn
<1>3. ASSUME NEW p \in DOMAIN o \ C, FocusOf(o, p) # Null
      PROVE  Stays(h, g, o, p, C)
  <2>1. CASE p # id
    BY <1>2, <1>3, <2>1, SameStays DEF Fine
  <2>2. CASE p = id
    <3>1. ASSUME NEW kind \in Kinds, NEW x \in DOMAIN Slots(o, id, kind), Slots(o, id, kind)[x] \notin C,
                 Counts(o, Slots(o, id, kind)[x])
          PROVE  ItemFor(g, f, kind, x) = ItemFor(h, f, kind, x)
      <4>1. CASE h[f].type # TypeOf(kind)
        BY <1>1, <4>1 DEF ItemFor
      <4>2. CASE h[f].type = TypeOf(kind)
        <5>1. o[Slots(o, id, kind)[x]].found = ItemFor(h, f, kind, x)
          BY <3>1 DEF Fine, CoherentBut
        <5>2. Served(h, o, C, id, kind, x)
          BY <1>1, <3>1, <4>2, <5>1 DEF Served, ItemFor
        <5>3. Found(g, f, kind, x) = Found(h, f, kind, x)
          BY <5>2 DEF SameServed
        <5> QED BY <1>1, <4>2, <5>3 DEF ItemFor
      <4> QED BY <4>1, <4>2
    <3> QED BY <1>1, <2>2, <3>1 DEF Stays
  <2> QED BY <2>1, <2>2
<1>4. ASSUME NEW p \in DOMAIN o \ (C \cup L), FocusOf(o, p) # Null
      PROVE  NamesIn(g, FocusOf(o, p)) = NamesIn(h, FocusOf(o, p))
  <2>1. CASE p = id
    BY <1>4, <2>1
  <2>2. CASE p # id
    <3>1. SameList(h, g, FocusOf(o, p))
      BY <1>2, <1>4, <2>2
    <3>2. Heap(h) /\ Forest(h, Owned(o) \cup E)
      BY DEF Fine
    <3> QED BY <3>1, <3>2, FiniteHeap, SameNames
  <2> QED BY <2>1, <2>2
<1> QED BY <1>1, <1>3, <1>4, EditFine

\* An item that no object has comes at the end of the list of id, where nothing
\* that stays in its cache was made for its absence.
LEMMA AppendFine ==
  ASSUME NEW h, NEW o, NEW D, NEW K, NEW a, Fine(h, o, {a}, D, K),
         NEW id \in DOMAIN o \ D, FocusOf(o, id) # Null, NotMissed(h, o, D, id, h[a].name),
         NEW g, g = AddItemToArray(h, FocusOf(o, id), a)
  PROVE  Fine(g, o, {}, D, K \cup {id})
<1> DEFINE f == FocusOf(o, id)
           R == Owned(o) \cup {a}
<1>1. Forest(h, R) /\ Items(h) /\ IsFiniteSet(DOMAIN h) /\ a \in R /\ f \in DOMAIN h
      /\ g = AddItemToArray(h, f, a)
  BY FiniteHeap, FocusIn DEF Fine, Heap
<1>2. f \notin Freed(h, a)
  BY FociFree DEF Fine
<1>3. R \ {a} = Owned(o) \cup {}
  BY DEF Fine
<1>4. /\ Forest(g, R \ {a}) /\ Kept(h, g)
      /\ \A b \in DOMAIN h \ {f} : SameList(h, g, b)
  <2> HIDE DEF f, R
  <2> QED BY <1>1, <1>2, AppendList
<1>5. /\ \A k : GetObjectItem(h, f, k) # Null => GetObjectItem(g, f, k) = GetObjectItem(h, f, k)
      /\ \A i : GetArrayItem(h, f, i) # Null => GetArrayItem(g, f, i) = GetArrayItem(h, f, i)
      /\ \A k : GetObjectItem(h, f, k) = Null /\ Fold(h[a].name) # Fold(k) => GetObjectItem(g, f, k) = Null
      /\ \A i \in Nat : GetArrayItem(h, f, i) = Null /\ i # GetArraySize(h, f) => GetArrayItem(g, f, i) = Null
  <2> HIDE DEF f, R
  <2> QED BY <1>1, <1>2, AppendFound
<1>6. Forest(g, Owned(o) \cup {}) /\ D \subseteq DOMAIN o \ {Root} /\ CacheClosed(o, D)
  BY <1>3, <1>4 DEF Fine
<1>7. ASSUME NEW kind \in Kinds, NEW x \in DOMAIN Slots(o, id, kind), Served(h, o, D, id, kind, x)
      PROVE  Found(g, f, kind, x) = Found(h, f, kind, x)
  <2>1. CASE Found(h, f, kind, x) # Null
    BY <1>5, <2>1 DEF Found
  <2>2. CASE Found(h, f, kind, x) = Null
    <3>1. IF kind = "key" THEN Fold(h[a].name) # Fold(x) ELSE x \in Nat /\ x # GetArraySize(h, f)
      BY <1>7, <2>2 DEF NotMissed
    <3> QED BY <1>5, <2>2, <3>1 DEF Found
  <2> QED BY <2>1, <2>2
<1>8. SameServed(h, g, o, D, id)
  BY <1>7 DEF SameServed
<1> QED
  <2> HIDE DEF R
  <2> QED BY <1>4, <1>6, <1>8, ListFine

\* An item that no object has comes at the head of the list of id, an array of
\* which no element stays cached.
LEMMA PrependFine ==
  ASSUME NEW h, NEW o, NEW D, NEW K, NEW a, Fine(h, o, {a}, D, K),
         NEW C, D \subseteq C, C \subseteq DOMAIN o \ {Root}, CacheClosed(o, C),
         NEW id \in DOMAIN o \ C, FocusOf(o, id) # Null, h[FocusOf(o, id)].type = "array",
         \A x \in DOMAIN o[id].byIndex : o[id].byIndex[x] \in C,
         NEW g, g = AddItemToArrayHead(h, FocusOf(o, id), a)
  PROVE  Fine(g, o, {}, C, K \cup {id})
<1> DEFINE f == FocusOf(o, id)
           R == Owned(o) \cup {a}
<1>1. Forest(h, R) /\ Items(h) /\ a \in R /\ f \in DOMAIN h
      /\ g = AddItemToArrayHead(h, f, a)
  BY FocusIn DEF Fine, Heap
<1>2. f \notin Freed(h, a)
  BY FociFree DEF Fine
<1>3. R \ {a} = Owned(o) \cup {}
  BY DEF Fine
<1>4. /\ Forest(g, R \ {a}) /\ Kept(h, g)
      /\ \A b \in DOMAIN h \ {f} : SameList(h, g, b)
  <2> HIDE DEF f, R
  <2> QED BY <1>1, <1>2, PrependList
<1>5. Forest(g, Owned(o) \cup {})
  BY <1>3, <1>4
<1>6. ASSUME NEW kind \in Kinds, NEW x \in DOMAIN Slots(o, id, kind), Served(h, o, C, id, kind, x)
      PROVE  FALSE
  BY <1>6 DEF Slots, TypeOf, Kinds, Served
<1>7. SameServed(h, g, o, C, id) /\ {} \cap Owned(o) = {}
  BY <1>6 DEF SameServed
<1> QED
  <2> HIDE DEF R
  <2> QED BY <1>4, <1>5, <1>7, ListFine

\* A member of the list of id is cut off; of what is cached in id nothing stays
\* that refers to it or would find another member.
LEMMA DetachFine ==
  ASSUME NEW h, NEW o, NEW D, NEW K, Fine(h, o, {}, D, K),
         NEW C, D \subseteq C, C \subseteq DOMAIN o \ {Root}, CacheClosed(o, C),
         NEW id \in DOMAIN o \ C, NEW c \in Listed(h, FocusOf(o, id)),
         NEW g, g = Detach(h, FocusOf(o, id), c), FocusOf(o, id) # Null,
         NotServed(h, o, C, id, c), SameServed(h, g, o, C, id)
  PROVE  Fine(g, o, {c}, C, K \cup {id})
<1> DEFINE f == FocusOf(o, id)
           R == Owned(o)
<1>1. Forest(h, R) /\ Items(h) /\ f \in DOMAIN h /\ c \in Listed(h, f) /\ g = Detach(h, f, c)
  BY FocusIn DEF Fine, Heap
<1>2. /\ Forest(g, R \cup {c}) /\ c \notin R /\ Kept(h, g)
      /\ \A b \in DOMAIN h \ {f} : SameList(h, g, b)
  <2> HIDE DEF f, R
  <2> QED BY <1>1, DetachList
<1>3. ASSUME NEW p \in DOMAIN o \ C PROVE FocusOf(o, p) # c
  <2> SUFFICES ASSUME FocusOf(o, p) = c PROVE FALSE
    OBVIOUS
  <2>1. p \in DOMAIN o \ D /\ id \in DOMAIN o \ D
    OBVIOUS
  <2>2. /\ o[p].ext = c /\ o[p].ext # Null
        /\ \E kind \in Kinds : \E x \in DOMAIN Slots(o, id, kind) :
              /\ Slots(o, id, kind)[x] = p
              /\ h[f].type = TypeOf(kind)
              /\ c = Found(h, f, kind, x)
    BY <1>1, <2>1, HeldBy
  <2>3. PICK kind \in Kinds : \E x \in DOMAIN Slots(o, id, kind) :
              /\ Slots(o, id, kind)[x] = p
              /\ h[f].type = TypeOf(kind)
              /\ c = Found(h, f, kind, x)
    BY <2>2
  <2>4. PICK x \in DOMAIN Slots(o, id, kind) :
              /\ Slots(o, id, kind)[x] = p
              /\ h[f].type = TypeOf(kind)
              /\ c = Found(h, f, kind, x)
    BY <2>3
  <2>5. o[p].ext = o[p].found /\ p \notin C
    BY <2>2 DEF Fine, Objects, IsObject
  <2>6. Served(h, o, C, id, kind, x)
    BY <2>2, <2>4, <2>5 DEF Served, Counts
  <2> QED BY <2>4, <2>6 DEF NotServed
<1> QED
  <2>1. {c} \cap Owned(o) = {} /\ \A p \in DOMAIN o \ C : FocusOf(o, p) \notin {c}
    BY <1>2, <1>3
  <2> QED BY <1>2, <2>1, ListFine

\* An item that no object has takes the place of a member of the list of id that
\* nothing that stays refers to; in an object the name stays.
LEMMA ReplacedFine ==
  ASSUME NEW h, NEW o, NEW D, NEW K, NEW a, Fine(h, o, {a}, D, K),
         NEW C, D \subseteq C, C \subseteq DOMAIN o \ {Root}, CacheClosed(o, C),
         NEW id \in DOMAIN o \ C, NEW c \in Listed(h, FocusOf(o, id)),
         NEW g, g = Replaced(h, FocusOf(o, id), c, a), FocusOf(o, id) # Null,
         NEW L, K \subseteq L, id \in L \/ Fold(h[a].name) = Fold(h[c].name),
         NotServed(h, o, C, id, c), NotNamed(h, o, C, id, h[a].name)
  PROVE  Fine(g, o, {c}, C, L)
<1> DEFINE f == FocusOf(o, id)
           R == Owned(o) \cup {a}
<1>1. Forest(h, R) /\ Items(h) /\ IsFiniteSet(DOMAIN h) /\ a \in R /\ f \in DOMAIN h
      /\ c \in Listed(h, f) /\ g = Replaced(h, f, c, a)
  BY FiniteHeap, FocusIn DEF Fine, Heap
<1>2. f \notin Freed(h, a)
  BY FociFree DEF Fine
<1>3. /\ Forest(g, (R \cup {c}) \ {a}) /\ c \notin R /\ Kept(h, g)
      /\ \A b \in DOMAIN h \ {f} : SameList(h, g, b)
  <2> HIDE DEF f, R
  <2> QED BY <1>1, <1>2, ReplacedList
<1>4. /\ \A k : GetObjectItem(h, f, k) \notin {c, Null} /\ Fold(h[a].name) # Fold(k) =>
                     GetObjectItem(g, f, k) = GetObjectItem(h, f, k)
      /\ \A i : GetArrayItem(g, f, i) = IF GetArrayItem(h, f, i) = c THEN a ELSE GetArrayItem(h, f, i)
      /\ GetArraySize(g, f) = GetArraySize(h, f)
      /\ \A k : GetObjectItem(h, f, k) = Null /\ Fold(h[a].name) # Fold(k) => GetObjectItem(g, f, k) = Null
  <2> HIDE DEF f, R
  <2> QED BY <1>1, <1>2, ReplacedFound
<1>5. Forest(g, Owned(o) \cup {c}) /\ {c} \cap Owned(o) = {}
  <2>1. (R \cup {c}) \ {a} = Owned(o) \cup {c}
    <3>1. a \notin Owned(o) /\ c # a
      BY <1>3 DEF Fine
    <3> QED BY <3>1
  <2> QED BY <1>3, <2>1
<1>6. ASSUME NEW p \in DOMAIN o \ C PROVE FocusOf(o, p) # c
  <2> SUFFICES ASSUME FocusOf(o, p) = c PROVE FALSE
    OBVIOUS
  <2>1. p \in DOMAIN o \ D /\ id \in DOMAIN o \ D
    OBVIOUS
  <2>2. /\ o[p].ext = c /\ o[p].ext # Null
        /\ \E kind \in Kinds : \E x \in DOMAIN Slots(o, id, kind) :
              /\ Slots(o, id, kind)[x] = p
              /\ h[f].type = TypeOf(kind)
              /\ c = Found(h, f, kind, x)
    BY <1>1, <2>1, HeldBy
  <2>3. PICK kind \in Kinds : \E x \in DOMAIN Slots(o, id, kind) :
              /\ Slots(o, id, kind)[x] = p
              /\ h[f].type = TypeOf(kind)
              /\ c = Found(h, f, kind, x)
    BY <2>2
  <2>4. PICK x \in DOMAIN Slots(o, id, kind) :
              /\ Slots(o, id, kind)[x] = p
              /\ h[f].type = TypeOf(kind)
              /\ c = Found(h, f, kind, x)
    BY <2>3
  <2>5. o[p].ext = o[p].found /\ p \notin C
    BY <2>2 DEF Fine, Objects, IsObject
  <2>6. Served(h, o, C, id, kind, x)
    BY <2>2, <2>4, <2>5 DEF Served, Counts
  <2> QED BY <2>4, <2>6 DEF NotServed
<1>7. ASSUME NEW kind \in Kinds, NEW x \in DOMAIN Slots(o, id, kind), Served(h, o, C, id, kind, x)
      PROVE  Found(g, f, kind, x) = Found(h, f, kind, x)
  <2>1. Found(h, f, kind, x) # c /\ (kind = "key" => Fold(h[a].name) # Fold(x))
    BY <1>7 DEF NotServed, NotNamed
  <2> QED BY <1>4, <2>1 DEF Found
<1>8. Fold(h[a].name) = Fold(h[c].name) => NamesIn(g, f) = NamesIn(h, f)
  <2> SUFFICES ASSUME Fold(h[a].name) = Fold(h[c].name) PROVE NamesIn(g, f) = NamesIn(h, f)
    OBVIOUS
  <2>1. DOMAIN Members(g, f) = 1..GetArraySize(h, f) /\ DOMAIN Members(h, f) = 1..GetArraySize(h, f)
    BY <1>4 DEF Members
  <2>2. ASSUME NEW j \in 1..GetArraySize(h, f)
        PROVE  Fold(g[Members(g, f)[j]].name) = Fold(h[Members(h, f)[j]].name)
    <3>1. Members(g, f)[j] = GetArrayItem(g, f, j - 1) /\ Members(h, f)[j] = GetArrayItem(h, f, j - 1)
      BY <1>4 DEF Members
    <3>2. GetArrayItem(h, f, j - 1) \in Listed(h, f)
      <4> HIDE DEF f, R
      <4> QED BY <1>1, PositionsFull
    <3>3. GetArrayItem(h, f, j - 1) \in DOMAIN h /\ a \in DOMAIN h
      BY <1>1, <3>2, OnwardClosed DEF Listed, Forest, Rooted
    <3>4. g[a].name = h[a].name /\ g[GetArrayItem(h, f, j - 1)].name = h[GetArrayItem(h, f, j - 1)].name
      BY <1>3, <3>3 DEF Kept
    <3> QED BY <1>4, <3>1, <3>4
  <2> QED BY <2>1, <2>2 DEF NamesIn
<1> QED
  <2>1. \A p \in DOMAIN o \ C : FocusOf(o, p) \notin {c}
    BY <1>6
  <2>2. id \in L \/ NamesIn(g, f) = NamesIn(h, f)
    BY <1>8
  <2>3. SameServed(h, g, o, C, id)
    BY <1>7 DEF SameServed
  <2> HIDE DEF R
  <2> QED BY <1>3, <1>5, <2>1, <2>2, <2>3, ListFine

\* cJSON_Delete of an item that no object has, or of the null pointer.
LEMMA DeleteFine ==
  ASSUME NEW h, NEW o, NEW D, NEW K, NEW c, Fine(h, o, {c} \ {Null}, D, K),
         NEW g, g = Delete(h, c)
  PROVE  Fine(g, o, {}, D, K) /\ \A b \in DOMAIN g : SameList(h, g, b)
<1> DEFINE R == Owned(o) \cup ({c} \ {Null})
           Q == {c}
<1>1. Forest(h, R) /\ Items(h) /\ Q \cap DOMAIN h \subseteq R /\ DOMAIN h \subseteq Addresses
  BY DEF Fine, Heap, Forest, Linked
<1>2. g = Restrict(h, DOMAIN h \ UNION {Freed(h, r) : r \in Q})
  BY DEF Delete
<1>3. /\ Forest(g, R \ Q) /\ Items(g)
      /\ DOMAIN g = DOMAIN h \ UNION {Freed(h, r) : r \in Q}
      /\ \A b \in DOMAIN g : g[b] = h[b] /\ SameList(h, g, b)
  <2> HIDE DEF R, Q
  <2> QED BY <1>1, <1>2, RestrictLists
<1>4. R \ Q = Owned(o) \cup {}
  BY DEF Fine, Owned
<1>5. ASSUME NEW p \in DOMAIN o \ D, FocusOf(o, p) # Null PROVE SameList(h, g, FocusOf(o, p))
  <2>1. FocusOf(o, p) \in DOMAIN h
    BY <1>5, FocusIn
  <2>2. FocusOf(o, p) \notin Freed(h, c)
    <3>1. CASE c = Null
      <4>1. Closed(h, {}) /\ {c} \cap DOMAIN h \subseteq {}
        BY <1>1, <3>1 DEF Closed, Forest, Linked
      <4>2. Freed(h, c) \subseteq {}
        BY <4>1, ReachLeast DEF Freed
      <4> QED BY <4>2
    <3>2. CASE c # Null
      <4>1. c \in Owned(o) \cup ({c} \ {Null}) /\ \A q \in DOMAIN o \ D : FocusOf(o, q) # c
        BY <3>2 DEF Fine
      <4> QED BY <4>1, FociFree
    <3> QED BY <3>1, <3>2
  <2>3. FocusOf(o, p) \in DOMAIN g
    BY <1>3, <2>1, <2>2
  <2> QED BY <1>3, <2>3
<1>6. Heap(g) /\ Forest(g, Owned(o) \cup {}) /\ {} \cap Owned(o) = {}
  BY <1>1, <1>3, <1>4 DEF Heap
<1>7. Fine(g, o, {}, D, K)
  <2> HIDE DEF R, Q
  <2> QED BY <1>5, <1>6, SameListFine
<1> QED BY <1>3, <1>7

-------------------------------------------------------------------------------
\* Changes of the objects.

\* The caches of two sets of objects are the same.
SameSlots(o, n, p) ==
  \A kind \in Kinds : /\ DOMAIN Slots(n, p, kind) = DOMAIN Slots(o, p, kind)
                      /\ \A x \in DOMAIN Slots(o, p, kind) : Slots(n, p, kind)[x] = Slots(o, p, kind)[x]

LEMMA SameTree ==
  ASSUME NEW o, CacheTree(o), NEW n, DOMAIN n = DOMAIN o, \A p \in DOMAIN o : SameSlots(o, n, p)
  PROVE  CacheTree(n) /\ \A p \in DOMAIN o : Cached(n, p) = Cached(o, p)
<1>1. ASSUME NEW p \in DOMAIN o PROVE Cached(n, p) = Cached(o, p)
  <2>1. ASSUME NEW c \in Cached(n, p) PROVE c \in Cached(o, p)
    <3>1. PICK kind \in Kinds : \E x \in DOMAIN Slots(n, p, kind) : c = Slots(n, p, kind)[x]
      BY CachedIs
    <3>2. PICK x \in DOMAIN Slots(n, p, kind) : c = Slots(n, p, kind)[x]
      BY <3>1
    <3>3. x \in DOMAIN Slots(o, p, kind) /\ c = Slots(o, p, kind)[x]
      BY <3>2 DEF SameSlots
    <3> QED BY <3>3, CachedIs
  <2>2. ASSUME NEW c \in Cached(o, p) PROVE c \in Cached(n, p)
    <3>1. PICK kind \in Kinds : \E x \in DOMAIN Slots(o, p, kind) : c = Slots(o, p, kind)[x]
      BY CachedIs
    <3>2. PICK x \in DOMAIN Slots(o, p, kind) : c = Slots(o, p, kind)[x]
      BY <3>1
    <3>3. x \in DOMAIN Slots(n, p, kind) /\ c = Slots(n, p, kind)[x]
      BY <3>2 DEF SameSlots
    <3> QED BY <3>3, CachedIs
  <2> QED BY <2>1, <2>2
<1>2. Nested(n, {Root}) = Nested(o, {Root})
  <2>1. [p \in DOMAIN n |-> Cached(n, p)] = [p \in DOMAIN o |-> Cached(o, p)]
    BY <1>1
  <2> QED BY <2>1 DEF Nested
<1>3. ASSUME NEW p \in DOMAIN o, NEW kind \in Kinds
      PROVE  \A x : /\ x \in DOMAIN Slots(n, p, kind) <=> x \in DOMAIN Slots(o, p, kind)
                    /\ x \in DOMAIN Slots(o, p, kind) => Slots(n, p, kind)[x] = Slots(o, p, kind)[x]
  BY DEF SameSlots
<1>4. ASSUME NEW p \in DOMAIN o, NEW q \in DOMAIN o, NEW kind \in Kinds, NEW other \in Kinds,
             NEW x \in DOMAIN Slots(n, p, kind), NEW y \in DOMAIN Slots(n, q, other),
             Slots(n, p, kind)[x] = Slots(n, q, other)[y]
      PROVE  p = q /\ kind = other /\ x = y
  <2>1. /\ x \in DOMAIN Slots(o, p, kind) /\ y \in DOMAIN Slots(o, q, other)
        /\ Slots(o, p, kind)[x] = Slots(o, q, other)[y]
    BY <1>3, <1>4
  <2> QED BY <2>1 DEF CacheTree
<1>5. ASSUME NEW p \in DOMAIN o, NEW kind \in Kinds, NEW x \in DOMAIN Slots(n, p, kind)
      PROVE  Slots(n, p, kind)[x] \in DOMAIN o \ {Root}
  BY <1>3 DEF CacheTree
<1> QED BY <1>1, <1>2, <1>4, <1>5 DEF CacheTree

\* Lists of names and positions in them.
LEMMA KeysFine ==
  ASSUME NEW h, NEW o, NEW E, NEW D, NEW K, Fine(h, o, E, D, K),
         NEW n, DOMAIN n = DOMAIN o,
         \A p \in DOMAIN o : /\ IsObject(n[p]) /\ n[p].own = o[p].own /\ n[p].ext = o[p].ext
                             /\ n[p].byKey = o[p].byKey /\ n[p].byIndex = o[p].byIndex
                             /\ n[p].found = o[p].found,
         NEW L, \A p \in DOMAIN o \ (D \cup L) : KeysGood(h, n, p)
  PROVE  Fine(h, n, E, D, L)
<1>1. \A p \in DOMAIN o, kind \in Kinds : Slots(n, p, kind) = Slots(o, p, kind)
  BY DEF Slots
<1>2. \A p \in DOMAIN o : SameSlots(o, n, p)
  BY <1>1 DEF SameSlots
<1>3. CacheTree(n) /\ \A p \in DOMAIN o : Cached(n, p) = Cached(o, p)
  BY <1>2, SameTree DEF Fine, Objects
<1>4. \A p \in DOMAIN o : FocusOf(n, p) = FocusOf(o, p)
  BY DEF FocusOf
<1>5. Owned(n) = Owned(o)
  BY DEF Owned
<1>6. Objects(n)
  BY <1>3 DEF Fine, Objects, CacheTree
<1>7. CacheClosed(n, D) /\ FocusOnce(n, D)
  BY <1>3, <1>4 DEF Fine, CacheClosed, FocusOnce
<1>8. CoherentBut(h, n, D)
  <2> SUFFICES ASSUME NEW p \in DOMAIN o \ D, NEW kind \in Kinds, NEW x \in DOMAIN Slots(o, p, kind),
                      Slots(o, p, kind)[x] \notin D, Counts(n, Slots(o, p, kind)[x])
               PROVE  n[Slots(o, p, kind)[x]].found = ItemFor(h, FocusOf(o, p), kind, x)
    BY <1>1, <1>4 DEF CoherentBut
  <2>1. Slots(o, p, kind)[x] \in DOMAIN o
    BY DEF Fine, Objects, CacheTree
  <2> QED BY <2>1 DEF Fine, CoherentBut, Counts
<1> QED BY <1>4, <1>5, <1>6, <1>7, <1>8 DEF Fine

\* An object that is empty gets items that no object has, and in which nothing is
\* found that was looked up before.
Adopted(o, n, id, a) ==
  /\ DOMAIN n = DOMAIN o /\ \A p \in DOMAIN o \ {id} : n[p] = o[p]
  /\ DOMAIN n[id] = DOMAIN o[id] /\ n[id].own = a /\ n[id].ext = o[id].ext
  /\ n[id].byKey = o[id].byKey /\ n[id].byIndex = o[id].byIndex
  /\ n[id].keys = o[id].keys /\ n[id].it = o[id].it /\ n[id].found = o[id].found

LEMMA AdoptFine ==
  ASSUME NEW h, NEW o, NEW K, NEW a, a # Null, Fine(h, o, {a}, {}, K),
         NEW id \in DOMAIN o, FocusOf(o, id) = Null,
         \A kind \in Kinds : \A x \in DOMAIN Slots(o, id, kind) : ItemFor(h, a, kind, x) = Null,
         NEW n, Adopted(o, n, id, a)
  PROVE  Fine(h, n, {}, {}, K) /\ FocusOf(n, id) = a
<1>1. /\ DOMAIN n = DOMAIN o
      /\ \A p \in DOMAIN o \ {id} : n[p] = o[p]
  BY DEF Adopted
<1>2. IsObject(o[id]) /\ o[id].own = Null /\ o[id].ext = Null
  BY DEF Fine, Objects, FocusOf
<1>3. /\ DOMAIN n[id] = DOMAIN o[id] /\ n[id].own = a /\ n[id].ext = Null
      /\ n[id].byKey = o[id].byKey /\ n[id].byIndex = o[id].byIndex
      /\ n[id].keys = o[id].keys /\ n[id].it = o[id].it /\ n[id].found = o[id].found
  BY <1>2 DEF Adopted
<1>4. IsObject(n[id])
  BY <1>2, <1>3 DEF IsObject
<1>5. \A p \in DOMAIN o, kind \in Kinds : Slots(n, p, kind) = Slots(o, p, kind)
  BY <1>1, <1>3 DEF Slots
<1>6. \A p \in DOMAIN o : SameSlots(o, n, p)
  BY <1>5 DEF SameSlots
<1>7. CacheTree(n)
  BY <1>1, <1>6, SameTree DEF Fine, Objects
<1>8. FocusOf(n, id) = a /\ \A p \in DOMAIN o \ {id} : FocusOf(n, p) = FocusOf(o, p)
  BY <1>1, <1>3 DEF FocusOf
<1>9. a \notin Owned(o) /\ \A p \in DOMAIN o : FocusOf(o, p) # a
  BY DEF Fine
<1>10. Owned(n) = Owned(o) \cup {a}
  <2>1. Owned(n) \subseteq Owned(o) \cup {a}
    BY <1>1, <1>3 DEF Owned
  <2>2. a \in Owned(n)
    BY <1>1, <1>3 DEF Owned
  <2>3. ASSUME NEW r \in Owned(o) PROVE r \in Owned(n)
    <3>1. PICK p \in DOMAIN o : r = o[p].own /\ r # Null
      BY DEF Owned
    <3>2. p # id
      BY <1>2, <3>1
    <3> QED BY <1>1, <3>1, <3>2 DEF Owned
  <2> QED BY <2>1, <2>2, <2>3
<1>11. ASSUME NEW p \in DOMAIN o, NEW q \in DOMAIN o, n[p].own = n[q].own, n[p].own # Null
       PROVE  p = q
  <2>1. \A u \in DOMAIN o \ {id} : n[u].own # a
    BY <1>1, <1>9 DEF FocusOf
  <2>2. p = id \/ q = id => p = q
    BY <1>3, <1>11, <2>1
  <2> QED BY <1>1, <1>11, <2>2 DEF Fine, Objects
<1>12. Objects(n)
  <2>1. \A p \in DOMAIN n : IsObject(n[p])
    BY <1>1, <1>4 DEF Fine, Objects
  <2>2. DOMAIN n \subseteq Ids /\ n[Root].ext = Null
    BY <1>1, <1>3, <1>7 DEF Fine, Objects, CacheTree
  <2> QED BY <1>1, <1>7, <1>11, <2>1, <2>2 DEF Objects
<1>13. FocusOnce(n, {})
  <2> SUFFICES ASSUME NEW p \in DOMAIN o, NEW q \in DOMAIN o, FocusOf(n, p) = FocusOf(n, q), FocusOf(n, p) # Null
               PROVE  p = q
    BY <1>1 DEF FocusOnce
  <2>1. p = id \/ q = id => p = q
    BY <1>8, <1>9
  <2> QED BY <1>8, <2>1 DEF Fine, FocusOnce
<1>14. CoherentBut(h, n, {})
  <2> SUFFICES ASSUME NEW p \in DOMAIN n, NEW kind \in Kinds, NEW x \in DOMAIN Slots(n, p, kind),
                      Counts(n, Slots(n, p, kind)[x])
               PROVE  n[Slots(n, p, kind)[x]].found = ItemFor(h, FocusOf(n, p), kind, x)
    BY DEF CoherentBut
  <2>1. Slots(n, p, kind) = Slots(o, p, kind) /\ p \in DOMAIN o
    BY <1>1, <1>5
  <2>2. Slots(o, p, kind)[x] \in DOMAIN o
    BY <2>1 DEF Fine, Objects, CacheTree
  <2>3. n[Slots(o, p, kind)[x]].found = o[Slots(o, p, kind)[x]].found
    BY <1>1, <1>3, <2>2
  <2>4. o[Slots(o, p, kind)[x]].found = ItemFor(h, FocusOf(o, p), kind, x)
    BY <2>1, <2>3 DEF Fine, CoherentBut, Counts
  <2>5. CASE p # id
    BY <1>8, <2>1, <2>3, <2>4, <2>5
  <2>6. CASE p = id
    <3>1. ItemFor(h, Null, kind, x) = Null
      BY DEF ItemFor, Fine, Forest, Linked
    <3>2. ItemFor(h, a, kind, x) = Null
      BY <2>1, <2>6
    <3> QED BY <1>8, <2>1, <2>3, <2>4, <2>6, <3>1, <3>2
  <2> QED BY <2>5, <2>6
<1>15. ASSUME NEW p \in DOMAIN o \ K PROVE KeysGood(h, n, p)
  <2>1. KeysGood(h, o, p)
    BY DEF Fine
  <2>2. CASE p = id
    BY <1>3, <2>1, <2>2 DEF KeysGood
  <2>3. CASE p # id
    BY <1>1, <1>8, <2>1, <2>3 DEF KeysGood
  <2> QED BY <2>2, <2>3
<1>16. Heap(h) /\ Forest(h, Owned(n) \cup {}) /\ {} \cap Owned(n) = {}
  <2>1. Owned(n) \cup {} = Owned(o) \cup {a}
    BY <1>10
  <2> QED BY <2>1 DEF Fine
<1>17. {} \subseteq DOMAIN n \ {Root} /\ CacheClosed(n, {})
  BY DEF CacheClosed
<1>18. Fine(h, n, {}, {}, K)
  BY <1>1, <1>12, <1>13, <1>14, <1>15, <1>16, <1>17 DEF Fine
<1> QED BY <1>1, <1>3, <1>8, <1>18

\* An object in which nothing is cached is emptied; what it had is no object's.
LEMMA ReleaseFine ==
  ASSUME NEW h, NEW o, Fine(h, o, {}, {}, {}),
         NEW id \in DOMAIN o, \A kind \in Kinds : DOMAIN Slots(o, id, kind) = {},
         NEW n, DOMAIN n = DOMAIN o, \A p \in DOMAIN o \ {id} : n[p] = o[p],
         n[id] = [Empty EXCEPT !.found = o[id].found]
  PROVE  Fine(h, n, {o[id].own} \ {Null}, {}, {})
<1> DEFINE E == {o[id].own} \ {Null}
<1>1. /\ IsObject(n[id]) /\ n[id].own = Null /\ n[id].ext = Null /\ n[id].keys = <<>>
      /\ n[id].found = o[id].found
      /\ \A kind \in Kinds : DOMAIN Slots(n, id, kind) = {}
  BY DEF IsObject, Empty, Slots, Nothing
<1>2. \A p \in DOMAIN o \ {id}, kind \in Kinds : Slots(n, p, kind) = Slots(o, p, kind)
  BY DEF Slots
<1>3. \A p \in DOMAIN o : SameSlots(o, n, p)
  BY <1>1, <1>2 DEF SameSlots
<1>4. CacheTree(n)
  BY <1>3, SameTree DEF Fine, Objects
<1>5. FocusOf(n, id) = Null /\ \A p \in DOMAIN o \ {id} : FocusOf(n, p) = FocusOf(o, p)
  BY <1>1 DEF FocusOf
<1>6. Owned(n) \cup E = Owned(o)
  <2>1. n[id].own = Null /\ \A p \in DOMAIN o \ {id} : n[p].own = o[p].own
    BY <1>1
  <2>2. Owned(n) \subseteq Owned(o) /\ E \subseteq Owned(o)
    BY <2>1 DEF Owned
  <2>3. ASSUME NEW p \in DOMAIN o, o[p].own # Null PROVE o[p].own \in Owned(n) \cup E
    <3>1. CASE p = id
      BY <2>3, <3>1
    <3>2. CASE p # id
      <4>1. n[p].own \in Owned(n)
        BY <2>1, <2>3, <3>2 DEF Owned
      <4> QED BY <2>1, <3>2, <4>1
    <3> QED BY <3>1, <3>2
  <2>4. Owned(o) \subseteq Owned(n) \cup E
    BY <2>3 DEF Owned
  <2> QED BY <2>2, <2>4
<1>7. E \cap Owned(n) = {}
  <2> SUFFICES ASSUME NEW p \in DOMAIN n, n[p].own = o[id].own, n[p].own # Null PROVE FALSE
    BY DEF Owned
  <2>1. p \in DOMAIN o \ {id} /\ o[p].own = o[id].own /\ o[id].own # Null
    BY <1>1
  <2> QED BY <2>1 DEF Fine, Objects
<1>8. Objects(n)
  <2>1. \A p \in DOMAIN n : IsObject(n[p])
    BY <1>1 DEF Fine, Objects
  <2>2. \A p, q \in DOMAIN n : n[p].own = n[q].own /\ n[p].own # Null => p = q
    BY <1>1 DEF Fine, Objects
  <2>3. n[Root].ext = Null
    BY <1>1, <1>4 DEF Fine, Objects, CacheTree
  <2> QED BY <1>4, <2>1, <2>2, <2>3 DEF Fine, Objects
<1>9. FocusOnce(n, {})
  BY <1>5 DEF Fine, FocusOnce
<1>10. ASSUME NEW p \in DOMAIN n PROVE FocusOf(n, p) \notin E
  <2>1. CASE p = id
    BY <1>5, <2>1
  <2>2. CASE p # id
    <3>1. o[id].own # Null => FocusOf(o, id) = o[id].own
      BY DEF FocusOf
    <3> QED BY <1>5, <2>2, <3>1 DEF Fine, FocusOnce
  <2> QED BY <2>1, <2>2
<1>11. CoherentBut(h, n, {})
  <2> SUFFICES ASSUME NEW p \in DOMAIN o, NEW kind \in Kinds, NEW x \in DOMAIN Slots(n, p, kind),
                      Counts(n, Slots(n, p, kind)[x])
               PROVE  n[Slots(n, p, kind)[x]].found = ItemFor(h, FocusOf(n, p), kind, x)
    BY DEF CoherentBut
  <2>1. p # id
    BY <1>1
  <2>2. Slots(n, p, kind) = Slots(o, p, kind) /\ FocusOf(n, p) = FocusOf(o, p)
    BY <1>2, <1>5, <2>1
  <2>3. Slots(o, p, kind)[x] \in DOMAIN o
    BY <2>2 DEF Fine, Objects, CacheTree
  <2>4. n[Slots(o, p, kind)[x]].found = o[Slots(o, p, kind)[x]].found
    BY <1>1, <2>3
  <2> QED BY <2>2, <2>3, <2>4 DEF Fine, CoherentBut, Counts
<1>12. ASSUME NEW p \in DOMAIN n PROVE KeysGood(h, n, p)
  <2>1. CASE p = id
    BY <1>1, <2>1 DEF KeysGood
  <2>2. CASE p # id
    <3>1. KeysGood(h, o, p)
      BY DEF Fine
    <3> QED BY <1>5, <2>2, <3>1 DEF KeysGood
  <2> QED BY <2>1, <2>2
<1>13. CacheClosed(n, {})
  BY DEF CacheClosed
<1>14. Forest(h, Owned(n) \cup E) /\ Heap(h)
  <2>1. Forest(h, Owned(o) \cup {})
    BY DEF Fine
  <2>2. Owned(o) \cup {} = Owned(n) \cup E
    BY <1>6
  <2> QED BY <2>1, <2>2 DEF Fine
<1> QED BY <1>7, <1>8, <1>9, <1>10, <1>11, <1>12, <1>13, <1>14 DEF Fine

\* What is left of a heap when the objects D are deleted.
Surviving(h, o, D) == Without(h, UNION {Freed(h, o[p].own) : p \in D})

\* Apart from the caches, the objects n are what they were.
SameObjects(o, n) ==
  \A p \in DOMAIN n : /\ IsObject(n[p]) /\ n[p].own = o[p].own /\ n[p].ext = o[p].ext
                      /\ n[p].keys = o[p].keys /\ n[p].it = o[p].it /\ n[p].found = o[p].found

\* Some of the objects cached in id are deleted with all below them, and forgotten.
LEMMA DropFine ==
  ASSUME NEW h, NEW o, NEW D, NEW K, Fine(h, o, {}, D, K),
         NEW id \in DOMAIN o, NEW ids, ids \subseteq Cached(o, id), D = Nested(o, ids),
         NEW g, g = Surviving(h, o, D),
         NEW n, DOMAIN n = DOMAIN o \ D, SameObjects(o, n), Dropped(o, n, id, ids)
  PROVE  Fine(g, n, {}, {}, K) /\ Extends(g, h)
<1>0. \A p \in DOMAIN n : /\ IsObject(n[p]) /\ n[p].own = o[p].own /\ n[p].ext = o[p].ext
                          /\ n[p].keys = o[p].keys /\ n[p].it = o[p].it /\ n[p].found = o[p].found
  BY DEF SameObjects
<1> USE <1>0
<1> DEFINE Q == {o[p].own : p \in D}
           R == Owned(o)
<1>1. CacheTree(o) /\ CacheTree(n)
  <2>1. CacheTree(o)
    BY DEF Fine, Objects
  <2> QED BY <2>1, DropTree
<1>2. /\ D \subseteq DOMAIN o \ {Root} /\ CacheClosed(o, D) /\ id \notin D
  BY <1>1, NestedBelow
<1>3. \A p \in DOMAIN n : FocusOf(n, p) = FocusOf(o, p)
  BY DEF FocusOf
<1>4. Forest(h, R) /\ Items(h) /\ DOMAIN h \subseteq Addresses /\ Null \notin DOMAIN h
  BY DEF Fine, Heap, Forest, Linked
<1>5. Q \cap DOMAIN h \subseteq R
  BY <1>2, <1>4 DEF Owned
<1>6. g = Restrict(h, DOMAIN h \ UNION {Freed(h, r) : r \in Q})
  <2>1. UNION {Freed(h, o[p].own) : p \in D} = UNION {Freed(h, r) : r \in Q}
    OBVIOUS
  <2> QED BY <2>1 DEF Without, Surviving
<1>7. /\ Forest(g, R \ Q) /\ Items(g)
      /\ DOMAIN g = DOMAIN h \ UNION {Freed(h, r) : r \in Q}
      /\ \A b \in DOMAIN g : g[b] = h[b] /\ SameList(h, g, b)
  <2> HIDE DEF Q, R
  <2> QED BY <1>4, <1>5, <1>6, RestrictLists
<1>8. R \ Q = Owned(n) \cup {}
  <2>1. ASSUME NEW r \in R \ Q PROVE r \in Owned(n)
    <3>1. PICK p \in DOMAIN o : r = o[p].own /\ r # Null
      BY DEF Owned
    <3>2. p \in DOMAIN n
      BY <2>1, <3>1
    <3> QED BY <3>1, <3>2 DEF Owned
  <2>2. ASSUME NEW r \in Owned(n) PROVE r \in R \ Q
    <3>1. PICK p \in DOMAIN n : r = o[p].own /\ r # Null
      BY DEF Owned
    <3>2. \A q \in D : o[q].own # r
      BY <1>2, <3>1 DEF Fine, Objects
    <3> QED BY <3>1, <3>2 DEF Owned
  <2> QED BY <2>1, <2>2
<1>9. ASSUME NEW p \in DOMAIN n, FocusOf(o, p) # Null PROVE SameList(h, g, FocusOf(o, p))
  <2>1. FocusOf(o, p) \in DOMAIN h /\ p \in DOMAIN o \ D
    BY <1>9, FocusIn
  <2>2. ASSUME NEW q \in D PROVE FocusOf(o, p) \notin Freed(h, o[q].own)
    <3>1. CASE o[q].own = Null
      <4>1. Closed(h, {}) /\ {o[q].own} \cap DOMAIN h \subseteq {}
        BY <1>4, <3>1 DEF Closed
      <4>2. Freed(h, o[q].own) \subseteq {}
        BY <4>1, ReachLeast DEF Freed
      <4> QED BY <4>2
    <3>2. CASE o[q].own # Null
      <4>1. o[q].own \in Owned(o)
        BY <1>2, <3>2 DEF Owned
      <4>2. ASSUME NEW u \in DOMAIN o \ D, FocusOf(o, u) = o[q].own PROVE FALSE
        <5>1. CASE o[u].own # Null
          <6>1. o[u].own = o[q].own /\ u # q /\ q \in DOMAIN o
            BY <1>2, <4>2, <5>1 DEF FocusOf
          <6> QED BY <5>1, <6>1 DEF Fine, Objects
        <5>2. CASE o[u].own = Null
          <6>1. o[u].ext = o[q].own /\ o[u].ext # Null
            BY <3>2, <4>2, <5>2 DEF FocusOf
          <6>2. \E v \in DOMAIN o : FocusOf(o, v) \in DOMAIN h /\ o[u].ext \in Listed(h, FocusOf(o, v))
            BY <6>1, Referrer
          <6> QED BY <1>4, <4>1, <6>1, <6>2, ListedNoRoot
        <5> QED BY <5>1, <5>2
      <4> QED BY <2>1, <4>1, <4>2, FociFree
    <3> QED BY <3>1, <3>2
  <2>3. FocusOf(o, p) \in DOMAIN g
    BY <1>7, <2>1, <2>2
  <2> QED BY <1>7, <2>3
<1>10. Objects(n)
  <2>1. \A p, q \in DOMAIN n : n[p].own = n[q].own /\ n[p].own # Null => p = q
    BY DEF Fine, Objects
  <2>2. n[Root].ext = Null /\ DOMAIN n \subseteq Ids
    BY <1>1 DEF Fine, Objects, CacheTree
  <2> QED BY <1>1, <2>1, <2>2 DEF Objects
<1>11. FocusOnce(n, {}) /\ CacheClosed(n, {})
  BY <1>3 DEF Fine, FocusOnce, CacheClosed
<1>12. CoherentBut(g, n, {})
  <2> SUFFICES ASSUME NEW p \in DOMAIN n, NEW kind \in Kinds, NEW x \in DOMAIN Slots(n, p, kind),
                      Counts(n, Slots(n, p, kind)[x])
               PROVE  n[Slots(n, p, kind)[x]].found = ItemFor(g, FocusOf(n, p), kind, x)
    BY DEF CoherentBut
  <2>1. Slots(n, p, kind)[x] \in DOMAIN n
    BY <1>1 DEF CacheTree
  <2>2. x \in DOMAIN Slots(o, p, kind) /\ Slots(n, p, kind)[x] = Slots(o, p, kind)[x]
    BY DEF Dropped
  <2>3. p \in DOMAIN o \ D /\ Slots(o, p, kind)[x] \notin D
        /\ o[Slots(o, p, kind)[x]].found = n[Slots(n, p, kind)[x]].found
    BY <2>1, <2>2
  <2>4. o[Slots(o, p, kind)[x]].found = ItemFor(h, FocusOf(o, p), kind, x)
    BY <2>2, <2>3 DEF Fine, CoherentBut, Counts
  <2>5. CASE FocusOf(o, p) # Null
    <3>1. SameList(h, g, FocusOf(o, p))
      BY <1>9, <2>5
    <3>2. ItemFor(g, FocusOf(o, p), kind, x) = ItemFor(h, FocusOf(o, p), kind, x)
      BY <3>1, SameFound DEF ItemFor, Found, SameList
    <3> QED BY <1>3, <2>3, <2>4, <3>2
  <2>6. CASE FocusOf(o, p) = Null
    BY <1>3, <1>4, <1>7, <2>3, <2>4, <2>6 DEF ItemFor
  <2> QED BY <2>5, <2>6
<1>13. ASSUME NEW p \in DOMAIN n \ K PROVE KeysGood(g, n, p)
  <2>1. KeysGood(h, o, p)
    BY DEF Fine
  <2>2. CASE FocusOf(o, p) = Null
    BY <1>3, <2>1, <2>2 DEF KeysGood
  <2>3. CASE FocusOf(o, p) # Null
    <3>1. SameList(h, g, FocusOf(o, p))
      BY <1>9, <2>3
    <3>2. NamesIn(g, FocusOf(o, p)) = NamesIn(h, FocusOf(o, p))
      BY <1>4, <3>1, FiniteHeap, SameNames DEF Fine
    <3> QED BY <1>3, <2>1, <3>1, <3>2 DEF KeysGood, SameList
  <2> QED BY <2>2, <2>3
<1>14. Heap(g) /\ Forest(g, Owned(n) \cup {})
  BY <1>4, <1>7, <1>8 DEF Heap
<1>15. Fine(g, n, {}, {}, K)
  BY <1>10, <1>11, <1>12, <1>13, <1>14 DEF Fine
<1> QED BY <1>7, <1>15 DEF Extends

\* operator[] makes an object for the item it finds, if any.
LEMMA LookUpFine ==
  ASSUME NEW h, NEW o, NEW K, Fine(h, o, {}, {}, K),
         NEW id \in DOMAIN o, NEW what \in Kinds, NEW key, key \notin DOMAIN Slots(o, id, what),
         NEW new \in Ids, new \notin DOMAIN o, NEW item, item = ItemFor(h, FocusOf(o, id), what, key),
         NEW n, DOMAIN n = DOMAIN o \cup {new},
         \A p \in DOMAIN n : IsObject(n[p]),
         n[new] = Referring(item),
         SameObjects(o, [p \in DOMAIN o |-> n[p]]), Grown(o, n, id, what, key, new),
         \A x \in DOMAIN Slots(o, id, what) :
           what = "key" => Fold(x) # Fold(key)
  PROVE  Fine(h, n, {}, {}, K)
<1>0. \A p \in DOMAIN o : /\ n[p].own = o[p].own /\ n[p].ext = o[p].ext
                          /\ n[p].keys = o[p].keys /\ n[p].it = o[p].it /\ n[p].found = o[p].found
  BY DEF SameObjects
<1> USE <1>0
<1>1. Objects(o) /\ CacheTree(o) /\ Root \in DOMAIN o /\ new # Root
  BY DEF Fine, Objects, CacheTree
<1>2. /\ n[new].own = Null /\ n[new].ext = item /\ n[new].keys = <<>> /\ n[new].found = item
  BY DEF Referring, Empty
<1>12. item # Null => /\ FocusOf(o, id) \in DOMAIN h /\ h[FocusOf(o, id)].type = TypeOf(what)
                      /\ item = Found(h, FocusOf(o, id), what, key)
  BY DEF ItemFor
<1>3. CacheTree(n)
  BY <1>1, <1>2, GrowTree
<1>4. FocusOf(n, new) = item /\ \A p \in DOMAIN o : FocusOf(n, p) = FocusOf(o, p)
  BY <1>2 DEF FocusOf
<1>5. Owned(n) = Owned(o)
  <2>1. \A p \in DOMAIN n : n[p].own # Null => p \in DOMAIN o /\ n[p].own = o[p].own
    BY <1>2
  <2>2. \A p \in DOMAIN o : p \in DOMAIN n /\ n[p].own = o[p].own
    OBVIOUS
  <2>3. Owned(n) \subseteq Owned(o)
    BY <2>1 DEF Owned
  <2>4. Owned(o) \subseteq Owned(n)
    BY <2>2 DEF Owned
  <2> QED BY <2>3, <2>4
<1>6. Objects(n)
  <2>1. \A p, q \in DOMAIN n : n[p].own = n[q].own /\ n[p].own # Null => p = q
    BY <1>1, <1>2 DEF Objects
  <2>2. n[Root].ext = Null /\ DOMAIN n \subseteq Ids
    BY <1>1 DEF Objects
  <2> QED BY <1>3, <2>1, <2>2 DEF Objects
<1>7. ASSUME NEW p \in DOMAIN o, item # Null PROVE FocusOf(o, p) # item
  <2> SUFFICES ASSUME FocusOf(o, p) = item PROVE FALSE
    OBVIOUS
  <2>1. FocusOf(o, id) \in DOMAIN h
    BY <1>7, <1>12
  <2>2. item \in Listed(h, FocusOf(o, id))
    BY <1>7, <1>12, <2>1, FoundMember DEF Fine
  <2>3. PICK kind \in Kinds : \E x \in DOMAIN Slots(o, id, kind) :
              /\ Slots(o, id, kind)[x] = p
              /\ h[FocusOf(o, id)].type = TypeOf(kind)
              /\ FocusOf(o, p) = Found(h, FocusOf(o, id), kind, x)
    BY <2>1, <2>2, HeldBy
  <2>4. PICK x \in DOMAIN Slots(o, id, kind) :
              /\ h[FocusOf(o, id)].type = TypeOf(kind)
              /\ item = Found(h, FocusOf(o, id), kind, x)
    BY <2>3
  <2>5. kind = what /\ x \in DOMAIN Slots(o, id, what) /\ x # key
    <3>1. kind = what
      BY <1>7, <1>12, <2>4 DEF Kinds, TypeOf
    <3> QED BY <3>1
  <2>6. CASE what = "key"
    <3>1. item = GetObjectItem(h, FocusOf(o, id), key) /\ item = GetObjectItem(h, FocusOf(o, id), x)
      BY <1>7, <1>12, <2>4, <2>5, <2>6 DEF Found
    <3>2. Forest(h, Owned(o) \cup {})
      BY DEF Fine
    <3>3. IsNamed(h, FocusOf(o, id), key, GetObjectItem(h, FocusOf(o, id), key))
      BY <1>7, <2>1, <3>1, <3>2, GetObjectItemIs
    <3>4. IsNamed(h, FocusOf(o, id), x, GetObjectItem(h, FocusOf(o, id), x))
      BY <1>7, <2>1, <3>1, <3>2, GetObjectItemIs
    <3> QED BY <2>5, <2>6, <3>1, <3>3, <3>4 DEF IsNamed
  <2>7. CASE what = "index"
    <3>1. item = GetArrayItem(h, FocusOf(o, id), key) /\ item = GetArrayItem(h, FocusOf(o, id), x)
      BY <1>7, <1>12, <2>4, <2>5, <2>7 DEF Found
    <3>2. Forest(h, Owned(o) \cup {}) /\ IsFiniteSet(DOMAIN h)
      BY FiniteHeap DEF Fine
    <3>4. IsAt(h, FocusOf(o, id), key, GetArrayItem(h, FocusOf(o, id), key))
      BY <1>7, <2>1, <3>1, <3>2, GetArrayItemIs
    <3>5. IsAt(h, FocusOf(o, id), x, GetArrayItem(h, FocusOf(o, id), x))
      BY <1>7, <2>1, <3>1, <3>2, GetArrayItemIs
    <3>3. x \in Nat /\ key \in Nat
      <4>1. x \in Indices
        BY <1>1, <2>5, <2>7 DEF Objects, IsObject, Slots
      <4>2. key \in DOMAIN Slots(n, id, what) /\ id \in DOMAIN n /\ IsObject(n[id])
        BY DEF Grown
      <4>3. key \in Indices
        BY <2>7, <4>2 DEF IsObject, Slots
      <4> QED BY <4>1, <4>3, JsonObjectAssumption
    <3> QED BY <2>5, <3>1, <3>3, <3>4, <3>5 DEF IsAt
  <2> QED BY <2>6, <2>7 DEF Kinds
<1>8. FocusOnce(n, {})
  <2> SUFFICES ASSUME NEW p \in DOMAIN n, NEW q \in DOMAIN n, FocusOf(n, p) = FocusOf(n, q), FocusOf(n, p) # Null
               PROVE  p = q
    BY DEF FocusOnce
  <2>1. p = new \/ q = new => p = q
    BY <1>4, <1>7
  <2>2. p \in DOMAIN o /\ q \in DOMAIN o => p = q
    BY <1>4 DEF Fine, FocusOnce
  <2> QED BY <2>1, <2>2
<1>9. CoherentBut(h, n, {})
  <2> SUFFICES ASSUME NEW p \in DOMAIN n, NEW kind \in Kinds, NEW x \in DOMAIN Slots(n, p, kind),
                      Counts(n, Slots(n, p, kind)[x])
               PROVE  n[Slots(n, p, kind)[x]].found = ItemFor(h, FocusOf(n, p), kind, x)
    BY DEF CoherentBut
  <2>1. p \in DOMAIN o
    BY DEF Grown
  <2>2. CASE x \in DOMAIN Slots(o, p, kind)
    <3>1. Slots(n, p, kind)[x] = Slots(o, p, kind)[x] /\ Slots(o, p, kind)[x] \in DOMAIN o
      BY <1>1, <2>1, <2>2 DEF CacheTree, Grown
    <3>2. n[Slots(n, p, kind)[x]].found = o[Slots(o, p, kind)[x]].found
      BY <3>1
    <3> QED BY <1>4, <2>1, <2>2, <3>1, <3>2 DEF Fine, CoherentBut, Counts
  <2>3. CASE x \notin DOMAIN Slots(o, p, kind)
    <3>1. p = id /\ kind = what /\ x = key
      BY <2>1, <2>3 DEF Grown
    <3>2. n[Slots(n, p, kind)[x]].found = item
      BY <1>2, <3>1 DEF Grown
    <3> QED BY <1>4, <3>1, <3>2
  <2> QED BY <2>2, <2>3
<1>10. ASSUME NEW p \in DOMAIN n \ K PROVE KeysGood(h, n, p)
  <2>1. CASE p = new
    BY <1>2, <2>1 DEF KeysGood
  <2>2. CASE p # new
    <3>1. KeysGood(h, o, p) /\ p \in DOMAIN o
      BY <2>2 DEF Fine
    <3> QED BY <1>4, <3>1 DEF KeysGood
  <2> QED BY <2>1, <2>2
<1>11. CacheClosed(n, {})
  BY DEF CacheClosed
<1> QED BY <1>5, <1>6, <1>8, <1>9, <1>10, <1>11 DEF Fine

\* Only the items and the links matter.
LEMMA SameHeapFine ==
  ASSUME NEW h, NEW o, Fine(h, o, {}, {}, {}),
         NEW g, DOMAIN g = DOMAIN h, \A c \in DOMAIN h : g[c] = h[c]
  PROVE  Fine(g, o, {}, {}, {})
<1>1. Linked(h) /\ Null \notin DOMAIN g /\ Extends(h, g)
  BY DEF Fine, Forest, Linked, Extends
<1>2. \A b \in DOMAIN h : SameList(h, g, b)
  BY <1>1, ExtendsLists
<1>3. Heap(g) /\ Fields(g)
  BY <1>1 DEF Fine, Heap, Items, Linked, Fields
<1>4. Forest(g, Owned(o) \cup {})
  <2>1. Forest(h, Owned(o) \cup {})
    BY DEF Fine
  <2>2. \A R : Forest(h, R) => Forest(g, R)
    BY <1>3, LinksFrame
  <2> QED BY <2>1, <2>2
<1>5. \A p \in DOMAIN o \ {} : FocusOf(o, p) # Null => SameList(h, g, FocusOf(o, p))
  BY <1>2, FocusIn
<1> QED BY <1>3, <1>4, <1>5, SameListFine

-------------------------------------------------------------------------------
\* The parts the operations of CJsonObject are made of.

\* Where there is room there is a free address.
LEMMA RoomIs ==
  ASSUME NEW h, Heap(h)
  PROVE  /\ Room(h, 1) => FreeAddress(h) \in Addresses \ DOMAIN h
         /\ Room(h, 2) => Room(h, 1) /\ \A g, a : DOMAIN g \subseteq DOMAIN h \cup {a} => Room(g, 1)
<1> DEFINE S == Addresses \ DOMAIN h
<1>1. IsFiniteSet(Addresses)
  BY JsonObjectAssumption, FS_Interval DEF Addresses
<1>2. IsFiniteSet(S) /\ Cardinality(S) \in Nat
  BY <1>1, FS_Subset, FS_CardinalityType
<1>3. Room(h, 1) => S # {}
  BY <1>2, FS_EmptySet DEF Room
<1>4. ASSUME Room(h, 2), NEW g, NEW a, DOMAIN g \subseteq DOMAIN h \cup {a} PROVE Room(g, 1)
  <2>1. IsFiniteSet(S \ {a}) /\ Cardinality(S \ {a}) >= 1 /\ Cardinality(S \ {a}) \in Nat
    <3>1. Cardinality(S) >= 2
      BY <1>4 DEF Room
    <3> HIDE DEF S
    <3>2. Cardinality(S \ {a}) = IF a \in S THEN Cardinality(S) - 1 ELSE Cardinality(S)
      BY <1>2, FS_RemoveElement
    <3>3. IsFiniteSet(S \ {a})
      BY <1>2, FS_RemoveElement
    <3> QED BY <1>2, <3>1, <3>2, <3>3
  <2>2. S \ {a} \in SUBSET (Addresses \ DOMAIN g)
    BY <1>4
  <2>3. IsFiniteSet(Addresses \ DOMAIN g)
    BY <1>1, FS_Subset
  <2>4. Cardinality(S \ {a}) <= Cardinality(Addresses \ DOMAIN g) /\ Cardinality(Addresses \ DOMAIN g) \in Nat
    <3> HIDE DEF S
    <3> QED BY <2>2, <2>3, FS_Subset, FS_CardinalityType
  <2> QED BY <2>1, <2>4 DEF Room
<1>5. Room(h, 2) => Room(h, 1)
  BY <1>2 DEF Room
<1> QED BY <1>3, <1>4, <1>5 DEF FreeAddress

\* The names of id are cleared, or it is gone.
LEMMA NoKeysFine ==
  ASSUME NEW h, NEW o, NEW id, Fine(h, o, {}, {}, {id}), id \in DOMAIN o => o[id].keys = <<>>
  PROVE  Fine(h, o, {}, {}, {})
<1>1. \A p \in DOMAIN o \ ({} \cup {}) : KeysGood(h, o, p)
  BY DEF Fine, KeysGood
<1>2. \A p \in DOMAIN o : IsObject(o[p])
  BY DEF Fine, Objects
<1> QED BY <1>1, <1>2, KeysFine

\* Items and objects together.
IsStore(s) == s = Store(s.heap, s.objs)

\* Clearing the names of id ends what K is for.
LEMMA ForgetFine ==
  ASSUME NEW s, NEW id \in DOMAIN s.objs, Fine(s.heap, s.objs, {}, {}, {id}),
         NEW r, r = ForgetKeys(s, id), IsStore(s)
  PROVE  Fine(r.heap, r.objs, {}, {}, {})
<1> DEFINE o == s.objs
           n == r.objs
<1>1. r.heap = s.heap /\ DOMAIN n = DOMAIN o /\ \A p \in DOMAIN o \ {id} : n[p] = o[p]
  BY DEF ForgetKeys, Store
<1>2. IsObject(o[id])
  BY DEF Fine, Objects
<1>3. /\ DOMAIN n[id] = DOMAIN o[id] /\ n[id].own = o[id].own /\ n[id].ext = o[id].ext
      /\ n[id].byKey = o[id].byKey /\ n[id].byIndex = o[id].byIndex /\ n[id].keys = <<>>
      /\ n[id].found = o[id].found
  BY <1>2 DEF ForgetKeys, Store, IsObject
<1>4. IsObject(n[id])
  BY <1>2, <1>3 DEF IsObject
<1>5. \A p \in DOMAIN o : /\ IsObject(n[p]) /\ n[p].own = o[p].own /\ n[p].ext = o[p].ext
                          /\ n[p].byKey = o[p].byKey /\ n[p].byIndex = o[p].byIndex
                          /\ n[p].found = o[p].found
  BY <1>1, <1>3, <1>4 DEF Fine, Objects
<1>6. ASSUME NEW p \in DOMAIN o PROVE KeysGood(s.heap, n, p)
  <2>1. CASE p = id
    BY <1>3, <2>1 DEF KeysGood
  <2>2. CASE p # id
    <3>1. KeysGood(s.heap, o, p)
      BY <2>2 DEF Fine
    <3>2. n[p] = o[p]
      BY <1>1, <2>2
    <3> QED BY <3>1, <3>2 DEF KeysGood, FocusOf
  <2> QED BY <2>1, <2>2
<1> QED
  <2> HIDE DEF o, n
  <2>1. Fine(s.heap, o, {}, {}, {id})
    BY DEF o
  <2>2. Fine(s.heap, n, {}, {}, {})
    BY <1>1, <1>5, <1>6, <2>1, KeysFine
  <2> QED BY <1>1, <2>2 DEF n

\* Become makes them the state.
LEMMA BecomeFine ==
  ASSUME NEW s, Fine(s.heap, s.objs, {}, {}, {}), Become(s)
  PROVE  Fine(heap, objs, {}, {}, {})'
<1>1. DOMAIN heap' = DOMAIN s.heap /\ (\A c \in DOMAIN s.heap : heap'[c] = s.heap[c]) /\ objs' = s.objs
  BY DEF Become
<1>2. Fine(heap', objs', {}, {}, {})
  BY <1>1, SameHeapFine
<1> QED BY <1>2

\* What is cached for some names or indices is dropped.
Uncached(h, o, g, n, id, what, S) ==
  /\ id \in DOMAIN n /\ DOMAIN n \subseteq DOMAIN o
  /\ n[id].own = o[id].own /\ n[id].ext = o[id].ext /\ n[id].keys = o[id].keys
  /\ DOMAIN Slots(n, id, what) = DOMAIN Slots(o, id, what) \ S
  /\ Extends(g, h)

CachedFor(o, id, what, S) == {Slots(o, id, what)[j] : j \in DOMAIN Slots(o, id, what) \cap S}

\* Deleting objects deletes the items they have.
LEMMA DiscardIs ==
  ASSUME NEW h, NEW o, NEW ids, NEW D, D = Nested(o, ids)
  PROVE  Discard(Store(h, o), ids) = Store(Surviving(h, o, D), Without(o, D))
  BY DEF Discard, Store, Surviving

Forgets(o, n, D, id, what, S) ==
  /\ DOMAIN n = DOMAIN o \ D /\ \A p \in DOMAIN n \ {id} : n[p] = o[p]
  /\ DOMAIN n[id] = DOMAIN o[id] /\ n[id].own = o[id].own /\ n[id].ext = o[id].ext
  /\ n[id].keys = o[id].keys /\ n[id].it = o[id].it /\ n[id].found = o[id].found
  /\ Slots(n, id, what) = Without(Slots(o, id, what), S)
  /\ \A kind \in Kinds \ {what} : Slots(n, id, kind) = Slots(o, id, kind)

LEMMA UncachedFine ==
  ASSUME NEW h, NEW o, NEW K, NEW id \in DOMAIN o, NEW what \in Kinds, NEW S,
         NEW D, D = Nested(o, CachedFor(o, id, what, S)), Fine(h, o, {}, D, K),
         NEW g, g = Surviving(h, o, D),
         NEW n, Forgets(o, n, D, id, what, S)
  PROVE  Fine(g, n, {}, {}, K) /\ Uncached(h, o, g, n, id, what, S)
<1>a. /\ DOMAIN n = DOMAIN o \ D /\ \A p \in DOMAIN n \ {id} : n[p] = o[p]
      /\ DOMAIN n[id] = DOMAIN o[id] /\ n[id].own = o[id].own /\ n[id].ext = o[id].ext
      /\ n[id].keys = o[id].keys /\ n[id].it = o[id].it /\ n[id].found = o[id].found
      /\ Slots(n, id, what) = Without(Slots(o, id, what), S)
      /\ \A kind \in Kinds \ {what} : Slots(n, id, kind) = Slots(o, id, kind)
  BY DEF Forgets
<1> USE <1>a
<1> DEFINE ids == CachedFor(o, id, what, S)
<1>0. ids = {Slots(o, id, what)[j] : j \in DOMAIN Slots(o, id, what) \cap S} /\ D = Nested(o, ids)
  BY DEF CachedFor
<1> HIDE DEF ids
<1>1. CacheTree(o)
  BY DEF Fine, Objects
<1>2. ids \subseteq Cached(o, id)
  <2>1. \A x \in DOMAIN Slots(o, id, what) : Slots(o, id, what)[x] \in Cached(o, id)
    BY CachedIs
  <2> QED BY <1>0, <2>1
<1>3. id \in DOMAIN n
  BY <1>0, <1>1, <1>2, NestedBelow
<1>4. /\ DOMAIN Slots(n, id, what) = DOMAIN Slots(o, id, what) \ S
      /\ \A x \in DOMAIN Slots(n, id, what) : Slots(n, id, what)[x] = Slots(o, id, what)[x]
  BY DEF Without, Restrict
<1>5. ASSUME NEW p \in DOMAIN n, NEW kind \in Kinds, NEW x
      PROVE  /\ x \in DOMAIN Slots(n, p, kind) <=>
                  x \in DOMAIN Slots(o, p, kind) /\ (p = id => Slots(o, p, kind)[x] \notin ids)
             /\ x \in DOMAIN Slots(n, p, kind) => Slots(n, p, kind)[x] = Slots(o, p, kind)[x]
  <2>1. CASE p # id
    <3>1. Slots(n, p, kind) = Slots(o, p, kind)
      BY <2>1 DEF Slots
    <3> QED BY <2>1, <3>1
  <2>2. CASE p = id /\ kind = what
    <3>1. ASSUME x \in DOMAIN Slots(o, id, what) PROVE x \in S <=> Slots(o, id, what)[x] \in ids
      BY <1>0, <1>1, <3>1 DEF CacheTree
    <3> QED BY <1>4, <2>2, <3>1
  <2>3. CASE p = id /\ kind # what
    <3>1. Slots(n, p, kind) = Slots(o, p, kind)
      BY <2>3
    <3>2. ASSUME x \in DOMAIN Slots(o, id, kind) PROVE Slots(o, id, kind)[x] \notin ids
      BY <1>0, <1>1, <2>3, <3>2 DEF CacheTree
    <3> QED BY <2>3, <3>1, <3>2
  <2> QED BY <2>1, <2>2, <2>3
<1>6. Dropped(o, n, id, ids)
  BY <1>5 DEF Dropped
<1>7. IsObject(n[id])
  <2>1. IsObject(o[id])
    BY DEF Fine, Objects
  <2>2. DOMAIN n[id].byKey \subseteq DOMAIN o[id].byKey /\ DOMAIN n[id].byIndex \subseteq DOMAIN o[id].byIndex
    <3>1. \A kind \in Kinds : DOMAIN Slots(n, id, kind) \subseteq DOMAIN Slots(o, id, kind)
      BY <1>3, <1>5
    <3>2. Slots(n, id, "key") = n[id].byKey /\ Slots(o, id, "key") = o[id].byKey
          /\ Slots(n, id, "index") = n[id].byIndex /\ Slots(o, id, "index") = o[id].byIndex
      BY DEF Slots
    <3>3. "key" \in Kinds /\ "index" \in Kinds
      BY DEF Kinds
    <3> QED BY <3>1, <3>2, <3>3
  <2> QED BY <2>1, <2>2 DEF IsObject
<1>8. SameObjects(o, n)
  BY <1>7 DEF Fine, Objects, SameObjects
<1>9. Fine(g, n, {}, {}, K)
  BY <1>0, <1>2, <1>6, <1>8, DropFine
<1>10. Extends(g, h)
  BY <1>0, <1>2, <1>6, <1>8, DropFine
<1> QED BY <1>3, <1>4, <1>9, <1>10 DEF Uncached

\* Erasing a name from m_mapJsonObjectRef.
LEMMA UncacheFine ==
  ASSUME NEW h, NEW o, NEW K, NEW id \in DOMAIN o, NEW k,
         NEW D, D = Nested(o, CachedFor(o, id, "key", {k})), Fine(h, o, {}, D, K),
         NEW u, u = Uncache(Store(h, o), id, k)
  PROVE  /\ Fine(u.heap, u.objs, {}, {}, K)
         /\ Uncached(h, o, u.heap, u.objs, id, "key", {k})
         /\ IsStore(u)
<1> DEFINE ids == CachedFor(o, id, "key", {k})
           g == Surviving(h, o, D)
           rest == Without(o, D)
           n == [rest EXCEPT ![id].byKey = Without(o[id].byKey, {k})]
<1>1. ids = {o[id].byKey[j] : j \in DOMAIN o[id].byKey \cap {k}}
  BY DEF CachedFor, Slots
<1>0. D = Nested(o, ids)
  OBVIOUS
<1>2. u = Store(g, n)
  <2>1. Discard(Store(h, o), ids) = Store(g, rest)
    <3> HIDE DEF ids
    <3> QED BY <1>0, DiscardIs
  <2>2. u = [Store(g, rest) EXCEPT !.objs[id].byKey = Without(o[id].byKey, {k})]
    BY <1>1, <2>1 DEF Uncache, Store
  <2> HIDE DEF g, rest
  <2> QED BY <2>2 DEF Store
<1>3. CacheTree(o) /\ IsObject(o[id])
  BY DEF Fine, Objects
<1>4. ids \subseteq Cached(o, id)
  <2>1. \A x \in DOMAIN Slots(o, id, "key") : Slots(o, id, "key")[x] \in Cached(o, id)
    BY CachedIs DEF Kinds
  <2> QED BY <2>1 DEF CachedFor
<1>5. id \notin D
  <2> HIDE DEF ids
  <2> QED BY <1>0, <1>3, <1>4, NestedBelow
<1>6. DOMAIN rest = DOMAIN o \ D /\ \A p \in DOMAIN rest : rest[p] = o[p]
  BY DEF Without, Restrict
<1>7. /\ DOMAIN n = DOMAIN o \ D /\ \A p \in DOMAIN n \ {id} : n[p] = o[p]
      /\ n[id] = [o[id] EXCEPT !.byKey = Without(o[id].byKey, {k})]
  <2> HIDE DEF rest
  <2> QED BY <1>5, <1>6
<1>8. /\ DOMAIN n[id] = DOMAIN o[id] /\ n[id].own = o[id].own /\ n[id].ext = o[id].ext
      /\ n[id].keys = o[id].keys /\ n[id].it = o[id].it /\ n[id].found = o[id].found
      /\ n[id].byKey = Without(o[id].byKey, {k}) /\ n[id].byIndex = o[id].byIndex
  <2> HIDE DEF n
  <2> QED BY <1>3, <1>7 DEF IsObject
<1>9. /\ Slots(n, id, "key") = Without(Slots(o, id, "key"), {k})
      /\ \A kind \in Kinds \ {"key"} : Slots(n, id, kind) = Slots(o, id, kind)
  <2> HIDE DEF n
  <2> QED BY <1>8 DEF Slots, Kinds
<1>10. "key" \in Kinds
  BY DEF Kinds
<1>11. Fine(g, n, {}, {}, K) /\ Uncached(h, o, g, n, id, "key", {k})
  <2> HIDE DEF n, g, ids
  <2>1. D = Nested(o, CachedFor(o, id, "key", {k})) /\ g = Surviving(h, o, D)
    BY DEF g
  <2>4. Forgets(o, n, D, id, "key", {k})
    BY <1>7, <1>8, <1>9 DEF Forgets
  <2>2. Fine(g, n, {}, {}, K)
    BY <1>10, <2>1, <2>4, UncachedFine
  <2>3. Uncached(h, o, g, n, id, "key", {k})
    BY <1>10, <2>1, <2>4, UncachedFine
  <2> QED BY <2>2, <2>3
<1>12. u.heap = g /\ u.objs = n /\ IsStore(u)
  <2> HIDE DEF n, g
  <2> QED BY <1>2 DEF Store, IsStore
<1> QED
  <2> HIDE DEF n, g
  <2> QED BY <1>11, <1>12

\* Erasing indices from m_mapJsonArrayRef.
LEMMA UncacheAtFine ==
  ASSUME NEW h, NEW o, NEW K, NEW id \in DOMAIN o, NEW S,
         NEW D, D = Nested(o, CachedFor(o, id, "index", S)), Fine(h, o, {}, D, K),
         NEW u, u = UncacheAt(Store(h, o), id, S)
  PROVE  /\ Fine(u.heap, u.objs, {}, {}, K)
         /\ Uncached(h, o, u.heap, u.objs, id, "index", S)
         /\ IsStore(u)
<1> DEFINE ids == CachedFor(o, id, "index", S)
           g == Surviving(h, o, D)
           rest == Without(o, D)
           n == [rest EXCEPT ![id].byIndex = Without(o[id].byIndex, S)]
<1>1. ids = {o[id].byIndex[j] : j \in DOMAIN o[id].byIndex \cap S}
  BY DEF CachedFor, Slots
<1>0. D = Nested(o, ids)
  OBVIOUS
<1>2. u = Store(g, n)
  <2>1. Discard(Store(h, o), ids) = Store(g, rest)
    <3> HIDE DEF ids
    <3> QED BY <1>0, DiscardIs
  <2>2. u = [Store(g, rest) EXCEPT !.objs[id].byIndex = Without(o[id].byIndex, S)]
    BY <1>1, <2>1 DEF UncacheAt, Store
  <2> HIDE DEF g, rest
  <2> QED BY <2>2 DEF Store
<1>3. CacheTree(o) /\ IsObject(o[id])
  BY DEF Fine, Objects
<1>4. ids \subseteq Cached(o, id)
  <2>1. \A x \in DOMAIN Slots(o, id, "index") : Slots(o, id, "index")[x] \in Cached(o, id)
    BY CachedIs DEF Kinds
  <2> QED BY <2>1 DEF CachedFor
<1>5. id \notin D
  <2> HIDE DEF ids
  <2> QED BY <1>0, <1>3, <1>4, NestedBelow
<1>6. DOMAIN rest = DOMAIN o \ D /\ \A p \in DOMAIN rest : rest[p] = o[p]
  BY DEF Without, Restrict
<1>7. /\ DOMAIN n = DOMAIN o \ D /\ \A p \in DOMAIN n \ {id} : n[p] = o[p]
      /\ n[id] = [o[id] EXCEPT !.byIndex = Without(o[id].byIndex, S)]
  <2> HIDE DEF rest
  <2> QED BY <1>5, <1>6
<1>8. /\ DOMAIN n[id] = DOMAIN o[id] /\ n[id].own = o[id].own /\ n[id].ext = o[id].ext
      /\ n[id].keys = o[id].keys /\ n[id].it = o[id].it /\ n[id].found = o[id].found
      /\ n[id].byIndex = Without(o[id].byIndex, S) /\ n[id].byKey = o[id].byKey
  <2> HIDE DEF n
  <2> QED BY <1>3, <1>7 DEF IsObject
<1>9. /\ Slots(n, id, "index") = Without(Slots(o, id, "index"), S)
      /\ \A kind \in Kinds \ {"index"} : Slots(n, id, kind) = Slots(o, id, kind)
  <2> HIDE DEF n
  <2> QED BY <1>8 DEF Slots, Kinds
<1>10. "index" \in Kinds
  BY DEF Kinds
<1>11. Fine(g, n, {}, {}, K) /\ Uncached(h, o, g, n, id, "index", S)
  <2> HIDE DEF n, g, ids
  <2>1. D = Nested(o, CachedFor(o, id, "index", S)) /\ g = Surviving(h, o, D)
    BY DEF g
  <2>4. Forgets(o, n, D, id, "index", S)
    BY <1>7, <1>8, <1>9 DEF Forgets
  <2>2. Fine(g, n, {}, {}, K)
    BY <1>10, <2>1, <2>4, UncachedFine
  <2>3. Uncached(h, o, g, n, id, "index", S)
    BY <1>10, <2>1, <2>4, UncachedFine
  <2> QED BY <2>2, <2>3
<1>12. u.heap = g /\ u.objs = n /\ IsStore(u)
  <2> HIDE DEF n, g
  <2> QED BY <1>2 DEF Store, IsStore
<1> QED
  <2> HIDE DEF n, g
  <2> QED BY <1>11, <1>12

\* Clear leaves an empty object.
LEMMA ClearedFine ==
  ASSUME NEW h, NEW o, NEW id \in DOMAIN o, Fine(h, o, {}, {}, {}),
         NEW u, u = Cleared(Store(h, o), id)
  PROVE  /\ Fine(u.heap, u.objs, {}, {}, {})
         /\ id \in DOMAIN u.objs /\ u.objs[id] = [Empty EXCEPT !.found = o[id].found]
<1> DEFINE ids == Cached(o, id)
           D == Nested(o, ids)
           g == Surviving(h, o, D)
           rest == Without(o, D)
           n == [rest EXCEPT ![id] = [Empty EXCEPT !.found = o[id].found]]
           m == [rest EXCEPT ![id].byKey = Nothing, ![id].byIndex = Nothing]
<1>1. u = Store(Delete(g, o[id].own), n)
  BY DEF Cleared, Discard, Store, Surviving
<1>2. CacheTree(o) /\ IsObject(o[id])
  BY DEF Fine, Objects
<1>3. D \subseteq DOMAIN o \ {Root} /\ CacheClosed(o, D) /\ id \notin D
  <2>1. ids \subseteq Cached(o, id) /\ D = Nested(o, ids)
    OBVIOUS
  <2> HIDE DEF ids, D
  <2> QED BY <1>2, <2>1, NestedBelow
<1>4. Fine(h, o, {}, D, {})
  <2> HIDE DEF D
  <2> QED BY <1>3, WiderFine
<1>5. DOMAIN rest = DOMAIN o \ D /\ \A p \in DOMAIN rest : rest[p] = o[p]
  BY DEF Without, Restrict
<1>6. /\ DOMAIN m = DOMAIN o \ D /\ \A p \in DOMAIN m \ {id} : m[p] = o[p]
      /\ m[id] = [o[id] EXCEPT !.byKey = Nothing, !.byIndex = Nothing]
  <2> HIDE DEF rest, D
  <2> QED BY <1>3, <1>5
<1>7. /\ DOMAIN m[id] = DOMAIN o[id] /\ m[id].own = o[id].own /\ m[id].ext = o[id].ext
      /\ m[id].keys = o[id].keys /\ m[id].it = o[id].it /\ m[id].found = o[id].found
      /\ m[id].byKey = Nothing /\ m[id].byIndex = Nothing
  <2> HIDE DEF m
  <2> QED BY <1>2, <1>6 DEF IsObject
<1>8. \A kind \in Kinds : DOMAIN Slots(m, id, kind) = {}
  <2> HIDE DEF m
  <2> QED BY <1>7 DEF Slots, Nothing
<1>9. Dropped(o, m, id, ids)
  <2> SUFFICES ASSUME NEW p \in DOMAIN m, NEW kind \in Kinds, NEW x
               PROVE  /\ x \in DOMAIN Slots(m, p, kind) <=>
                           x \in DOMAIN Slots(o, p, kind) /\ (p = id => Slots(o, p, kind)[x] \notin ids)
                      /\ x \in DOMAIN Slots(m, p, kind) => Slots(m, p, kind)[x] = Slots(o, p, kind)[x]
    BY DEF Dropped
  <2>1. CASE p = id
    <3>1. x \in DOMAIN Slots(o, id, kind) => Slots(o, id, kind)[x] \in ids
      BY CachedIs
    <3>2. x \notin DOMAIN Slots(m, id, kind)
      <4> HIDE DEF m
      <4> QED BY <1>8
    <3> HIDE DEF m, ids
    <3> QED BY <2>1, <3>1, <3>2
  <2>2. CASE p # id
    <3>1. Slots(m, p, kind) = Slots(o, p, kind)
      <4> HIDE DEF m
      <4> QED BY <1>6, <2>2 DEF Slots
    <3> HIDE DEF m
    <3> QED BY <2>2, <3>1
  <2> QED BY <2>1, <2>2
<1>10. IsObject(m[id])
  <2> HIDE DEF m
  <2> QED BY <1>2, <1>7 DEF IsObject, Nothing
<1>11. SameObjects(o, m)
  <2> HIDE DEF m
  <2> QED BY <1>6, <1>7, <1>10 DEF Fine, Objects, SameObjects
<1>12. Fine(g, m, {}, {}, {})
  <2>1. ids \subseteq Cached(o, id) /\ D = Nested(o, ids) /\ g = Surviving(h, o, D)
    OBVIOUS
  <2> HIDE DEF ids, D, g, m
  <2> QED BY <1>4, <1>6, <1>9, <1>11, <2>1, DropFine
<1>16. m[id].found = o[id].found
  BY <1>7
<1>13. /\ DOMAIN n = DOMAIN m /\ n[id] = [Empty EXCEPT !.found = o[id].found] /\ id \in DOMAIN m
       /\ \A p \in DOMAIN m \ {id} : n[p] = m[p]
  <2> HIDE DEF rest, D
  <2> QED BY <1>3, <1>5
<1>14. Fine(g, n, {m[id].own} \ {Null}, {}, {})
  <2> HIDE DEF m, n, g
  <2> QED BY <1>8, <1>12, <1>13, <1>16, ReleaseFine
<1>15. Fine(Delete(g, o[id].own), n, {}, {}, {})
  <2>1. Fine(g, n, {o[id].own} \ {Null}, {}, {})
    BY <1>7, <1>14
  <2> HIDE DEF n, g
  <2> QED BY <2>1, DeleteFine
<1> QED
  <2> HIDE DEF n, g, m
  <2> QED BY <1>1, <1>13, <1>15 DEF Store

\* id has an item, a new one if it had none.
Opens(h, o, id, s) ==
  /\ id \in DOMAIN s.objs /\ FocusOf(s.objs, id) # Null
  /\ s.objs[id].byIndex = o[id].byIndex
  /\ IsStore(s)
  /\ Room(h, 2) => Room(s.heap, 1)

\* Opening an empty object gives it an item of its own.
LEMMA OpenedFine ==
  ASSUME NEW h, NEW o, NEW id \in DOMAIN o, Fine(h, o, {}, {}, {}), Room(h, 1), NEW type,
         NEW s, s = Opened(Store(h, o), id, type)
  PROVE  /\ Fine(s.heap, s.objs, {}, {}, {})
         /\ Opens(h, o, id, s)
<1> DEFINE a == FreeAddress(h)
           g == New(h, a, type)
           n == [o EXCEPT ![id].own = a]
<1>1. IsObject(o[id]) /\ Heap(h)
  BY DEF Fine, Objects
<1>2. CASE FocusOf(o, id) # Null
  <2>1. s = Store(h, o)
    BY <1>2 DEF Opened, Focus, FocusOf, Store
  <2>2. Room(h, 2) => Room(h, 1)
    OBVIOUS
  <2> QED BY <1>2, <2>1, <2>2 DEF Store, IsStore, Opens
<1>3. CASE FocusOf(o, id) = Null
  <2>1. s = Store(g, n)
    BY <1>3 DEF Opened, Focus, FocusOf, Store
  <2>2. a \in Addresses /\ a \notin DOMAIN h /\ a # Null
    BY <1>1, RoomIs, JsonObjectAssumption
  <2>3. Fine(g, o, {a}, {}, {}) /\ a \in DOMAIN g /\ Listed(g, a) = {}
    <3> HIDE DEF a
    <3> QED BY <2>2, NewFine
  <2>9. \A kind, x : ItemFor(g, a, kind, x) = Null
    <3> HIDE DEF a, g
    <3> QED BY <2>3, FoundMember DEF Fine, ItemFor
  <2>4. DOMAIN n = DOMAIN o /\ n[id] = [o[id] EXCEPT !.own = a] /\ \A p \in DOMAIN o \ {id} : n[p] = o[p]
    OBVIOUS
  <2> HIDE DEF n
  <2>5. Adopted(o, n, id, a) /\ n[id].byIndex = o[id].byIndex
    BY <1>1, <2>4 DEF IsObject, Adopted
  <2>6. Fine(g, n, {}, {}, {}) /\ FocusOf(n, id) = a
    <3> HIDE DEF a, g
    <3> QED BY <1>3, <2>2, <2>3, <2>4, <2>5, <2>9, AdoptFine
  <2>7. Room(h, 2) => Room(g, 1)
    <3>1. DOMAIN g \subseteq DOMAIN h \cup {a}
      BY DEF New
    <3> HIDE DEF a, g
    <3> QED BY <1>1, <3>1, RoomIs
  <2> HIDE DEF a, g
  <2>8. s.heap = g /\ s.objs = n /\ IsStore(s)
    BY <2>1 DEF Store, IsStore
  <2> QED BY <2>2, <2>4, <2>5, <2>6, <2>7, <2>8 DEF Opens
<1> QED BY <1>2, <1>3

\* What is cached for S and below, of an object that stays itself.
LEMMA CachedForBelow ==
  ASSUME NEW o, CacheTree(o), NEW id \in DOMAIN o, NEW what \in Kinds, NEW S,
         NEW D, D = Nested(o, CachedFor(o, id, what, S))
  PROVE  /\ D \subseteq DOMAIN o \ {Root} /\ CacheClosed(o, D) /\ id \in DOMAIN o \ D
         /\ \A x \in DOMAIN Slots(o, id, what) : x \in S => Slots(o, id, what)[x] \in D
<1> DEFINE ids == CachedFor(o, id, what, S)
<1>1. ids \subseteq Cached(o, id)
  <2>1. \A x \in DOMAIN Slots(o, id, what) : Slots(o, id, what)[x] \in Cached(o, id)
    BY CachedIs
  <2> QED BY <2>1 DEF CachedFor
<1>2. D \subseteq DOMAIN o \ {Root} /\ CacheClosed(o, D) /\ id \notin D /\ ids \subseteq D
  <2>1. D = Nested(o, ids)
    OBVIOUS
  <2> HIDE DEF ids
  <2> QED BY <1>1, <2>1, NestedBelow
<1>3. \A x \in DOMAIN Slots(o, id, what) : x \in S => Slots(o, id, what)[x] \in ids
  BY DEF CachedFor
<1> HIDE DEF ids
<1> QED BY <1>2, <1>3

\* An array, and an object without an item, has no names listed.
LEMMA NoKeys ==
  ASSUME NEW h, NEW o, Fine(h, o, {}, {}, {}), NEW id \in DOMAIN o,
         FocusOf(o, id) = Null \/ h[FocusOf(o, id)].type = "array"
  PROVE  o[id].keys = <<>>
  BY DEF Fine, KeysGood

\* Two names of one object, two positions in one array.
LEMMA OtherName ==
  ASSUME NEW h, NEW R, Forest(h, R), NEW f \in DOMAIN h,
         NEW k \in OneSpelling, NEW x \in OneSpelling, x # k, GetObjectItem(h, f, k) # Null
  PROVE  GetObjectItem(h, f, x) # GetObjectItem(h, f, k) /\ Fold(x) # Fold(k)
<1>1. Fold(x) # Fold(k)
  BY JsonObjectAssumption
<1>2. IsNamed(h, f, k, GetObjectItem(h, f, k))
  BY GetObjectItemIs
<1>3. GetObjectItem(h, f, x) # Null => IsNamed(h, f, x, GetObjectItem(h, f, x))
  BY GetObjectItemIs
<1> QED BY <1>1, <1>2, <1>3 DEF IsNamed

\* At another index is another member.
LEMMA OtherPosition ==
  ASSUME NEW h, NEW R, Forest(h, R), IsFiniteSet(DOMAIN h), NEW f \in DOMAIN h,
         NEW i \in Indices, NEW x \in Indices, x # i, GetArrayItem(h, f, i) # Null
  PROVE  GetArrayItem(h, f, x) # GetArrayItem(h, f, i)
<1>1. i \in Nat /\ x \in Nat
  BY JsonObjectAssumption
<1>2. IsAt(h, f, i, GetArrayItem(h, f, i))
  BY GetArrayItemIs
<1>3. GetArrayItem(h, f, x) # Null => IsAt(h, f, x, GetArrayItem(h, f, x))
  BY GetArrayItemIs
<1> QED BY <1>1, <1>2, <1>3 DEF IsAt

\* A member that nothing that stays refers to is cut off and deleted.
LEMMA CutFine ==
  ASSUME NEW h, NEW o, Fine(h, o, {}, {}, {}),
         NEW C, C \subseteq DOMAIN o \ {Root}, CacheClosed(o, C),
         NEW id \in DOMAIN o \ C, FocusOf(o, id) # Null, NEW c \in Listed(h, FocusOf(o, id)), c # Null,
         NEW d, d = Detach(h, FocusOf(o, id), c),
         NotServed(h, o, C, id, c), SameServed(h, d, o, C, id)
  PROVE  Fine(Delete(d, c), o, {}, C, {id})
<1>1. Fine(d, o, {c}, C, {} \cup {id})
  <2>1. {} \subseteq C
    OBVIOUS
  <2> QED BY <2>1, DetachFine
<1>2. {c} \ {Null} = {c} /\ {} \cup {id} = {id}
  OBVIOUS
<1>3. Fine(d, o, {c} \ {Null}, C, {id})
  BY <1>1, <1>2
<1> QED BY <1>3, DeleteFine

\* cJSON_DeleteItemFromObject, before what was cached for k is deleted.
LEMMA DeleteKeyFine ==
  ASSUME NEW h, NEW o, Fine(h, o, {}, {}, {}), NEW id \in DOMAIN o, NEW k \in OneSpelling,
         NEW f, f = FocusOf(o, id), f # Null, h[f].type = "object",
         NEW D, D = Nested(o, CachedFor(o, id, "key", {k})),
         NEW g, g = DeleteItemFromObject(h, f, k)
  PROVE  Fine(g, o, {}, D, {id})
<1> DEFINE c == GetObjectItem(h, f, k)
           d == Detach(h, f, c)
<1>1. "key" \in Kinds /\ CacheTree(o) /\ f \in DOMAIN h /\ \A p \in DOMAIN o : IsObject(o[p])
  BY FocusIn DEF Kinds, Fine, Objects
<1>2. /\ D \subseteq DOMAIN o \ {Root} /\ CacheClosed(o, D) /\ id \in DOMAIN o \ D
      /\ \A x \in DOMAIN Slots(o, id, "key") : x \in {k} => Slots(o, id, "key")[x] \in D
  <2>1. D \subseteq DOMAIN o \ {Root} /\ CacheClosed(o, D) /\ id \in DOMAIN o \ D
    BY <1>1, CachedForBelow
  <2>2. \A x \in DOMAIN Slots(o, id, "key") : x \in {k} => Slots(o, id, "key")[x] \in D
    BY <1>1, CachedForBelow
  <2> QED BY <2>1, <2>2
<1>3. CASE c = Null
  <2>1. g = h
    BY <1>3 DEF DeleteItemFromObject, DeleteItem
  <2> QED BY <1>2, <2>1, WiderFine
<1>4. CASE c # Null
  <2>1. g = Delete(d, c)
    BY <1>4 DEF DeleteItemFromObject, DeleteItem
  <2>2. Forest(h, Owned(o) \cup {}) /\ IsFiniteSet(DOMAIN h) /\ Items(h)
    BY FiniteHeap DEF Fine, Heap
  <2>3. c \in Listed(h, f)
    BY <1>1, <1>4, <2>2, GetObjectItemIs DEF IsNamed
  <2>4. ASSUME NEW kind \in Kinds, NEW x \in DOMAIN Slots(o, id, kind), Served(h, o, D, id, kind, x)
        PROVE  Found(h, f, kind, x) # c /\ Found(d, f, kind, x) = Found(h, f, kind, x)
    <3>1. kind = "key"
      BY <2>4 DEF TypeOf, Kinds, Served
    <3>2. x \in OneSpelling
      BY <1>1, <3>1 DEF Slots, IsObject
    <3>3. x # k
      BY <1>2, <2>4, <3>1 DEF Served
    <3>4. GetObjectItem(h, f, x) # c
      BY <1>1, <1>4, <2>2, <3>2, <3>3, OtherName
    <3>6. GetObjectItem(d, f, x) = GetObjectItem(h, f, x)
      <4> HIDE DEF c
      <4> QED BY <1>1, <2>2, <2>3, <3>4, DetachFound
    <3> QED BY <3>1, <3>4, <3>6 DEF Found
  <2>5. NotServed(h, o, D, id, c) /\ SameServed(h, d, o, D, id)
    BY <2>4 DEF NotServed, SameServed
  <2>6. c \in Listed(h, FocusOf(o, id)) /\ d = Detach(h, FocusOf(o, id), c) /\ FocusOf(o, id) # Null
        /\ c # Null
    BY <1>4, <2>3
  <2>7. D \subseteq DOMAIN o \ {Root} /\ CacheClosed(o, D) /\ id \in DOMAIN o \ D
    BY <1>2
  <2> HIDE DEF c, d
  <2>8. Fine(Delete(d, c), o, {}, D, {id})
    BY <2>5, <2>6, <2>7, CutFine
  <2> QED BY <2>1, <2>8
<1> QED BY <1>3, <1>4

\* cJSON_DeleteItemFromArray, before what was cached from i on is deleted.
LEMMA DeleteIndexFine ==
  ASSUME NEW h, NEW o, Fine(h, o, {}, {}, {}), NEW id \in DOMAIN o, NEW i \in Indices,
         NEW f, f = FocusOf(o, id), f # Null, h[f].type = "array",
         NEW S, S = {j \in Indices : j >= i},
         NEW D, D = Nested(o, CachedFor(o, id, "index", S)),
         NEW g, g = DeleteItemFromArray(h, f, i)
  PROVE  Fine(g, o, {}, D, {id})
<1> DEFINE c == GetArrayItem(h, f, i)
           d == Detach(h, f, c)
<1>1. "index" \in Kinds /\ CacheTree(o) /\ f \in DOMAIN h /\ \A p \in DOMAIN o : IsObject(o[p])
  BY FocusIn DEF Kinds, Fine, Objects
<1>2. /\ D \subseteq DOMAIN o \ {Root} /\ CacheClosed(o, D) /\ id \in DOMAIN o \ D
      /\ \A x \in DOMAIN Slots(o, id, "index") : x \in S => Slots(o, id, "index")[x] \in D
  <2>1. D \subseteq DOMAIN o \ {Root} /\ CacheClosed(o, D) /\ id \in DOMAIN o \ D
    BY <1>1, CachedForBelow
  <2>2. \A x \in DOMAIN Slots(o, id, "index") : x \in S => Slots(o, id, "index")[x] \in D
    BY <1>1, CachedForBelow
  <2> QED BY <2>1, <2>2
<1>3. CASE c = Null
  <2>1. g = h
    BY <1>3 DEF DeleteItemFromArray, DeleteItem
  <2> QED BY <1>2, <2>1, WiderFine
<1>4. CASE c # Null
  <2>1. g = Delete(d, c)
    BY <1>4 DEF DeleteItemFromArray, DeleteItem
  <2>2. Forest(h, Owned(o) \cup {}) /\ IsFiniteSet(DOMAIN h) /\ Items(h)
    BY FiniteHeap DEF Fine, Heap
  <2>3. c \in Listed(h, f)
    BY <1>1, <1>4, <2>2, GetArrayItemIs DEF IsAt
  <2>4. ASSUME NEW kind \in Kinds, NEW x \in DOMAIN Slots(o, id, kind), Served(h, o, D, id, kind, x)
        PROVE  Found(h, f, kind, x) # c /\ Found(d, f, kind, x) = Found(h, f, kind, x)
    <3>1. kind = "index"
      BY <2>4 DEF TypeOf, Kinds, Served
    <3>2. x \in Indices
      BY <1>1, <3>1 DEF Slots, IsObject
    <3>3. x \in Nat /\ i \in Nat
      BY <3>2, JsonObjectAssumption
    <3>4. x < i /\ x # i
      BY <1>2, <2>4, <3>1, <3>2, <3>3 DEF Served
    <3>5. GetArrayItem(h, f, x) # c
      BY <1>1, <1>4, <2>2, <3>2, <3>4, OtherPosition
    <3>6. GetArrayItem(h, f, x) # Null
      BY <1>1, <1>4, <2>2, <3>3, <3>4, FoundBefore
    <3>7. GetArrayItem(d, f, x) = GetArrayItem(h, f, x)
      <4>1. c = GetArrayItem(h, f, i)
        OBVIOUS
      <4> HIDE DEF c
      <4> QED BY <1>1, <2>2, <2>3, <3>3, <3>4, <3>6, <4>1, DetachFound
    <3> QED BY <3>1, <3>5, <3>7 DEF Found
  <2>5. NotServed(h, o, D, id, c) /\ SameServed(h, d, o, D, id)
    BY <2>4 DEF NotServed, SameServed
  <2>6. c \in Listed(h, FocusOf(o, id)) /\ d = Detach(h, FocusOf(o, id), c) /\ FocusOf(o, id) # Null
        /\ c # Null
    BY <1>4, <2>3
  <2>7. D \subseteq DOMAIN o \ {Root} /\ CacheClosed(o, D) /\ id \in DOMAIN o \ D
    BY <1>2
  <2> HIDE DEF c, d
  <2>8. Fine(Delete(d, c), o, {}, D, {id})
    BY <2>5, <2>6, <2>7, CutFine
  <2> QED BY <2>1, <2>8
<1> QED BY <1>3, <1>4

\* The item is found by the name of the member it replaced.
LEMMA ReplacedNamed ==
  ASSUME NEW h, NEW R, Forest(h, R), Items(h), NEW item \in R,
         NEW a \in DOMAIN h, NEW c \in Listed(h, a), a \notin Freed(h, item),
         NEW k, c = GetObjectItem(h, a, k), c # Null, Fold(h[item].name) = Fold(k),
         NEW g, g = Replaced(h, a, c, item)
  PROVE  GetObjectItem(g, a, k) = item
<1>1. /\ Forest(g, (R \cup {c}) \ {item})
      /\ Kept(h, g)
      /\ item \notin Listed(h, a)
      /\ Listed(g, a) = (Listed(h, a) \ {c}) \cup {item}
      /\ \A x \in Listed(h, a) \ {c} :
           Onward(g, x) = IF c \in Onward(h, x) THEN (Onward(h, x) \ {c}) \cup {item} ELSE Onward(h, x)
      /\ Onward(g, item) = (Onward(h, c) \ {c}) \cup {item}
  BY ReplacedList
<1>2. /\ DOMAIN g = DOMAIN h /\ g[item].name = h[item].name
      /\ \A x \in Listed(h, a) : g[x].name = h[x].name
  BY <1>1, ListedMember DEF Kept, Forest, Rooted
<1>3. IsNamed(h, a, k, c)
  BY GetObjectItemIs
<1>4. IsNamed(g, a, k, item)
  BY <1>1, <1>2, <1>3 DEF IsNamed
<1> QED BY <1>1, <1>2, <1>4, GetObjectItemIs

\* Of what stays, nothing refers to c, a member of the list of id, or would find a,
\* which has the name of c if that is to stay.
Replaceable(h, o, C, L, id, c, a) ==
  /\ c \in Listed(h, FocusOf(o, id))
  /\ id \in L \/ Fold(h[a].name) = Fold(h[c].name)
  /\ NotServed(h, o, C, id, c) /\ NotNamed(h, o, C, id, h[a].name)

\* The objects C can be deleted, and id stays and has an item.
Spares(o, C, id) ==
  /\ C \subseteq DOMAIN o \ {Root} /\ CacheClosed(o, C)
  /\ id \in DOMAIN o \ C /\ FocusOf(o, id) # Null

\* What is cached in id for x goes.
Drops(o, C, id, what, x) == x \in DOMAIN Slots(o, id, what) => Slots(o, id, what)[x] \in C

\* Putting a in the place of c, or nothing if nothing was found.
LEMMA SubstituteFine ==
  ASSUME NEW h, NEW o, NEW a, Fine(h, o, {a}, {}, {}),
         NEW C, NEW id, Spares(o, C, id), NEW c, NEW L,
         c # Null => Replaceable(h, o, C, L, id, c, a),
         NEW g, g = Substitute(h, FocusOf(o, id), c, a)
  PROVE  /\ Fine(g, o, {}, C, L)
         /\ c # Null => SameList(Replaced(h, FocusOf(o, id), c, a), g, FocusOf(o, id))
<1>1. /\ {} \subseteq C /\ C \subseteq DOMAIN o \ {Root} /\ CacheClosed(o, C)
      /\ id \in DOMAIN o \ C /\ FocusOf(o, id) # Null /\ {} \subseteq L
  BY DEF Spares
<1>2. CASE c = Null
  <2>1. g = Delete(h, a)
    BY <1>2 DEF Substitute
  <2>2. Fine(h, o, {a}, C, L)
    BY <1>1, WiderFine
  <2>3. {a} \ {Null} = {a}
    BY DEF Fine, Forest, Rooted, Linked
  <2>4. Fine(h, o, {a} \ {Null}, C, L)
    BY <2>2, <2>3
  <2>5. Fine(g, o, {}, C, L) /\ \A b \in DOMAIN g : SameList(h, g, b)
    BY <2>1, <2>4, DeleteFine
  <2> QED BY <1>2, <2>5
<1>3. CASE c # Null
  <2> DEFINE r == Replaced(h, FocusOf(o, id), c, a)
  <2>1. g = Delete(r, c)
    BY <1>3 DEF Substitute, ReplaceItem, Replaced
  <2>2. r = Replaced(h, FocusOf(o, id), c, a)
    OBVIOUS
  <2> HIDE DEF r
  <2>3. Fine(r, o, {c}, C, L)
    BY <1>1, <1>3, <2>2, ReplacedFine DEF Replaceable
  <2>4. {c} \ {Null} = {c}
    BY <1>3
  <2>5. Fine(r, o, {c} \ {Null}, C, L)
    BY <2>3, <2>4
  <2>6. Fine(g, o, {}, C, L) /\ \A b \in DOMAIN g : SameList(r, g, b)
    BY <2>1, <2>5, DeleteFine
  <2> QED BY <1>1, <1>3, <2>2, <2>6, FocusIn
<1> QED BY <1>2, <1>3

\* cJSON_ReplaceItemInObject, when what is cached for k is or will be deleted.
LEMMA ReplaceKeyFine ==
  ASSUME NEW h, NEW o, NEW a, Fine(h, o, {a}, {}, {}), NEW id \in DOMAIN o, NEW k \in OneSpelling,
         NEW f, f = FocusOf(o, id), h[f].type = "object",
         NEW C, Spares(o, C, id), GetObjectItem(h, f, k) # Null => Drops(o, C, id, "key", k),
         NEW g, g = ReplaceItemInObject(h, f, k, a)
  PROVE  /\ Fine(g, o, {}, C, {})
         /\ GetObjectItem(g, f, k) = Null => GetObjectItem(h, f, k) = Null
<1> DEFINE s == SetName(h, a, k)
           c == GetObjectItem(s, f, k)
           R == Owned(o) \cup {a}
<1>1. s = SetName(h, a, k)
  OBVIOUS
<1>2. Fine(s, o, {a}, {}, {}) /\ s[a].name = k /\ \A b \in DOMAIN h : SameList(h, s, b)
  <2> HIDE DEF s
  <2> QED BY <1>1, SetNameFine
<1>0. f # Null
  BY DEF Spares
<1>3. f \in DOMAIN h /\ f \in DOMAIN s /\ s[f].type = "object"
  <2>1. f \in DOMAIN h
    BY <1>0, FocusIn
  <2> QED BY <1>2, <2>1 DEF SameList
<1>4. c = GetObjectItem(h, f, k)
  BY <1>2, <1>3, SameFound
<1>5. g = Substitute(s, f, c, a)
  BY <1>4 DEF ReplaceItemInObject
<1>6. Forest(s, R) /\ Items(s) /\ a \in R /\ \A p \in DOMAIN o : IsObject(o[p])
  BY <1>2 DEF Fine, Heap, Objects
<1> HIDE DEF s
<1>7. c # Null => IsNamed(s, f, k, c)
  BY <1>3, <1>6, GetObjectItemIs
<1>8. ASSUME c # Null, NEW kind \in Kinds, NEW x \in DOMAIN Slots(o, id, kind), Served(s, o, C, id, kind, x)
      PROVE  kind = "key" /\ Found(s, f, kind, x) # c /\ Fold(k) # Fold(x)
  <2>1. kind = "key"
    BY <1>3, <1>8 DEF TypeOf, Kinds, Served
  <2>2. x \in OneSpelling
    BY <1>6, <2>1 DEF Slots, IsObject
  <2>3. x # k
    BY <1>4, <1>8, <2>1 DEF Served, Drops
  <2>4. GetObjectItem(s, f, x) # c /\ Fold(x) # Fold(k)
    BY <1>3, <1>6, <1>8, <2>2, <2>3, OtherName
  <2> QED BY <2>1, <2>4 DEF Found
<1>9. "key" \in Kinds
  BY DEF Kinds
<1>10. c # Null => Replaceable(s, o, C, {}, id, c, a)
  <2> SUFFICES ASSUME c # Null
               PROVE  /\ c \in Listed(s, FocusOf(o, id)) /\ Fold(s[a].name) = Fold(s[c].name)
                      /\ NotServed(s, o, C, id, c) /\ NotNamed(s, o, C, id, s[a].name)
    BY DEF Replaceable
  <2>1. c \in Listed(s, FocusOf(o, id)) /\ Fold(s[a].name) = Fold(s[c].name)
    BY <1>2, <1>7 DEF IsNamed
  <2>2. NotServed(s, o, C, id, c)
    BY <1>8 DEF NotServed
  <2>3. NotNamed(s, o, C, id, s[a].name)
    BY <1>2, <1>8, <1>9 DEF NotNamed
  <2> QED BY <2>1, <2>2, <2>3
<1>11. c = GetObjectItem(s, f, k)
  OBVIOUS
<1> HIDE DEF c, R
<1>12. Spares(o, C, id) /\ g = Substitute(s, FocusOf(o, id), c, a)
  BY <1>5
<1>13. Fine(g, o, {}, C, {})
  BY <1>2, <1>10, <1>12, SubstituteFine
<1>14. c # Null => SameList(Replaced(s, f, c, a), g, f)
  BY <1>2, <1>10, <1>12, SubstituteFine
<1>15. ASSUME c # Null PROVE GetObjectItem(g, f, k) # Null
  <2> DEFINE r == Replaced(s, f, c, a)
  <2>1. f \notin Freed(s, a)
    BY <1>2, FociFree DEF Fine
  <2>2. c \in Listed(s, f) /\ Fold(s[a].name) = Fold(k) /\ r = Replaced(s, f, c, a)
    BY <1>2, <1>7, <1>15 DEF IsNamed
  <2>3. SameList(r, g, f)
    BY <1>14, <1>15
  <2> HIDE DEF r
  <2>4. GetObjectItem(r, f, k) = a
    BY <1>3, <1>6, <1>11, <1>15, <2>1, <2>2, ReplacedNamed
  <2>5. GetObjectItem(g, f, k) = a
    BY <2>3, <2>4, SameFound
  <2>6. a # Null
    BY <1>6 DEF Forest, Rooted, Linked
  <2> QED BY <2>5, <2>6
<1> QED BY <1>4, <1>13, <1>15

\* cJSON_ReplaceItemInArray, likewise.
LEMMA ReplaceIndexFine ==
  ASSUME NEW h, NEW o, NEW a, Fine(h, o, {a}, {}, {}), NEW id \in DOMAIN o, NEW i \in Indices,
         NEW f, f = FocusOf(o, id), h[f].type = "array",
         NEW C, Spares(o, C, id), GetArrayItem(h, f, i) # Null => Drops(o, C, id, "index", i),
         NEW g, g = ReplaceItemInArray(h, f, i, a)
  PROVE  /\ Fine(g, o, {}, C, {id})
         /\ GetArrayItem(g, f, i) = Null => GetArrayItem(h, f, i) = Null
<1> DEFINE c == GetArrayItem(h, f, i)
           R == Owned(o) \cup {a}
<1>1. g = Substitute(h, f, c, a)
  BY DEF ReplaceItemInArray
<1>2. Forest(h, R) /\ Items(h) /\ IsFiniteSet(DOMAIN h) /\ a \in R /\ f \in DOMAIN h
      /\ \A p \in DOMAIN o : IsObject(o[p])
  BY FiniteHeap, FocusIn DEF Fine, Heap, Objects, Spares
<1>3. c # Null => IsAt(h, f, i, c)
  BY <1>2, GetArrayItemIs
<1>4. ASSUME c # Null, NEW kind \in Kinds, NEW x \in DOMAIN Slots(o, id, kind), Served(h, o, C, id, kind, x)
      PROVE  kind = "index" /\ Found(h, f, kind, x) # c
  <2>1. kind = "index"
    BY <1>4 DEF TypeOf, Kinds, Served
  <2>2. x \in Indices
    BY <1>2, <2>1 DEF Slots, IsObject
  <2>3. x # i
    BY <1>4, <2>1 DEF Served, Drops
  <2>4. GetArrayItem(h, f, x) # c
    BY <1>2, <1>4, <2>2, <2>3, OtherPosition
  <2> QED BY <2>1, <2>4 DEF Found
<1>5. c # Null => Replaceable(h, o, C, {id}, id, c, a)
  <2> SUFFICES ASSUME c # Null
               PROVE  /\ c \in Listed(h, FocusOf(o, id))
                      /\ NotServed(h, o, C, id, c) /\ NotNamed(h, o, C, id, h[a].name)
    BY DEF Replaceable
  <2>1. c \in Listed(h, FocusOf(o, id))
    BY <1>3 DEF IsAt
  <2>2. NotServed(h, o, C, id, c)
    BY <1>4 DEF NotServed
  <2>3. "key" \in Kinds
    BY DEF Kinds
  <2>4. NotNamed(h, o, C, id, h[a].name)
    BY <1>4, <2>3 DEF NotNamed
  <2> QED BY <2>1, <2>2, <2>4
<1>6. c = GetArrayItem(h, f, i)
  OBVIOUS
<1> HIDE DEF c, R
<1>7. Spares(o, C, id) /\ g = Substitute(h, FocusOf(o, id), c, a)
  BY <1>1
<1>8. Fine(g, o, {}, C, {id})
  BY <1>5, <1>7, SubstituteFine
<1>9. ASSUME c # Null PROVE SameList(Replaced(h, f, c, a), g, f)
  <2>1. Replaceable(h, o, C, {id}, id, c, a)
    BY <1>5, <1>9
  <2>2. SameList(Replaced(h, FocusOf(o, id), c, a), g, FocusOf(o, id))
    BY <1>7, <1>9, <2>1, SubstituteFine
  <2> QED BY <2>2
<1>10. ASSUME c # Null PROVE GetArrayItem(g, f, i) # Null
  <2> DEFINE r == Replaced(h, f, c, a)
  <2>1. f \notin Freed(h, a)
    BY FociFree DEF Fine
  <2>2. c \in Listed(h, f) /\ r = Replaced(h, f, c, a)
    BY <1>3, <1>10 DEF IsAt
  <2>3. SameList(r, g, f)
    BY <1>9, <1>10
  <2> HIDE DEF r
  <2>4. GetArrayItem(r, f, i) = a
    BY <1>2, <1>6, <2>1, <2>2, ReplacedFound
  <2>5. GetArrayItem(g, f, i) = a
    BY <2>3, <2>4, SameFound
  <2>6. a # Null
    BY <1>2 DEF Forest, Rooted, Linked
  <2> QED BY <2>5, <2>6
<1> QED BY <1>6, <1>8, <1>10

-------------------------------------------------------------------------------
\* The operations keep the invariant.

IInv == Fine(heap, objs, {}, {}, {})

\* A new object, empty or for an item, is cached in id for key.
CachesNew(o, n, id, what, key, new, item) ==
  /\ DOMAIN n = DOMAIN o \cup {new} /\ \A p \in DOMAIN o \ {id} : n[p] = o[p]
  /\ n[new] = Referring(item)
  /\ DOMAIN n[id] = DOMAIN o[id] /\ n[id].own = o[id].own /\ n[id].ext = o[id].ext
  /\ n[id].keys = o[id].keys /\ n[id].it = o[id].it /\ n[id].found = o[id].found
  /\ Slots(n, id, what) = With(Slots(o, id, what), key, new)
  /\ \A kind \in Kinds \ {what} : Slots(n, id, kind) = Slots(o, id, kind)

LEMMA CachesNewFine ==
  ASSUME NEW h, NEW o, Fine(h, o, {}, {}, {}),
         NEW id \in DOMAIN o, NEW what \in Kinds, NEW key, key \notin DOMAIN Slots(o, id, what),
         key \in IF what = "key" THEN OneSpelling ELSE Indices,
         NEW new \in Ids, new \notin DOMAIN o, NEW item, item = ItemFor(h, FocusOf(o, id), what, key),
         NEW n, CachesNew(o, n, id, what, key, new, item)
  PROVE  Fine(h, n, {}, {}, {})
<1> DEFINE e == Referring(item)
<1>1. /\ DOMAIN n = DOMAIN o \cup {new} /\ \A p \in DOMAIN o \ {id} : n[p] = o[p]
      /\ n[new] = e
      /\ DOMAIN n[id] = DOMAIN o[id] /\ n[id].own = o[id].own /\ n[id].ext = o[id].ext
      /\ n[id].keys = o[id].keys /\ n[id].it = o[id].it /\ n[id].found = o[id].found
      /\ Slots(n, id, what) = With(Slots(o, id, what), key, new)
      /\ \A kind \in Kinds \ {what} : Slots(n, id, kind) = Slots(o, id, kind)
  BY DEF CachesNew
<1>2. /\ e.own = Null /\ DOMAIN e.byKey = {} /\ DOMAIN e.byIndex = {}
      /\ {"own", "ext", "byKey", "byIndex", "keys", "it", "found"} \subseteq DOMAIN e
      /\ e.ext = e.found
  BY DEF Referring, Empty, Nothing
<1> HIDE DEF e
<1>3. new # id /\ \A p \in DOMAIN o : p # new
  OBVIOUS
<1>4. \A p \in DOMAIN o : IsObject(o[p])
  BY DEF Fine, Objects
<1>5. /\ DOMAIN Slots(n, id, what) = DOMAIN Slots(o, id, what) \cup {key}
      /\ Slots(n, id, what)[key] = new
      /\ \A x \in DOMAIN Slots(o, id, what) : Slots(n, id, what)[x] = Slots(o, id, what)[x]
  BY <1>1 DEF With
<1>6. ASSUME NEW p \in DOMAIN n PROVE IsObject(n[p])
  <2>1. CASE p = new
    BY <1>1, <1>2, <2>1 DEF IsObject
  <2>2. CASE p \in DOMAIN o \ {id}
    BY <1>1, <1>4, <2>2
  <2>3. CASE p = id
    <3>1. /\ DOMAIN o[id].byKey \subseteq OneSpelling /\ DOMAIN o[id].byIndex \subseteq Indices
          /\ o[id].own # Null => o[id].ext = Null
          /\ o[id].ext # Null => o[id].ext = o[id].found
          /\ {"own", "ext", "byKey", "byIndex", "keys", "it", "found"} \subseteq DOMAIN o[id]
      BY <1>4 DEF IsObject
    <3>2. DOMAIN n[id].byKey \subseteq OneSpelling
      <4>1. CASE what = "key"
        BY <1>5, <3>1, <4>1 DEF Slots
      <4>2. CASE what # "key"
        BY <1>1, <3>1, <4>2 DEF Slots, Kinds
      <4> QED BY <4>1, <4>2
    <3>3. DOMAIN n[id].byIndex \subseteq Indices
      <4>1. CASE what = "index"
        BY <1>5, <3>1, <4>1 DEF Slots
      <4>2. CASE what # "index"
        BY <1>1, <3>1, <4>2 DEF Slots, Kinds
      <4> QED BY <4>1, <4>2
    <3> QED BY <1>1, <2>3, <3>1, <3>2, <3>3 DEF IsObject
  <2> QED BY <1>1, <2>1, <2>2, <2>3
<1>7. SameObjects(o, [p \in DOMAIN o |-> n[p]])
  <2> DEFINE m == [p \in DOMAIN o |-> n[p]]
  <2>1. DOMAIN m = DOMAIN o /\ \A p \in DOMAIN o : m[p] = n[p]
    OBVIOUS
  <2>2. \A p \in DOMAIN o : /\ IsObject(n[p]) /\ n[p].own = o[p].own /\ n[p].ext = o[p].ext
                            /\ n[p].keys = o[p].keys /\ n[p].it = o[p].it /\ n[p].found = o[p].found
    BY <1>1, <1>6
  <2> HIDE DEF m
  <2>3. SameObjects(o, m)
    BY <2>1, <2>2 DEF SameObjects
  <2> QED BY <2>3 DEF m
<1>8. ASSUME NEW p \in DOMAIN o, NEW kind \in Kinds, NEW x
      PROVE  /\ x \in DOMAIN Slots(n, p, kind) <=>
                  x \in DOMAIN Slots(o, p, kind) \/ (p = id /\ kind = what /\ x = key)
             /\ x \in DOMAIN Slots(o, p, kind) => Slots(n, p, kind)[x] = Slots(o, p, kind)[x]
  <2>1. CASE p # id
    BY <1>1, <2>1 DEF Slots
  <2>2. CASE p = id /\ kind = what
    BY <1>5, <2>2
  <2>3. CASE p = id /\ kind # what
    BY <1>1, <2>3
  <2> QED BY <2>1, <2>2, <2>3
<1>9. \A kind \in Kinds : DOMAIN Slots(n, new, kind) = {}
  BY <1>1, <1>2 DEF Slots, Kinds
<1>10. Grown(o, n, id, what, key, new)
  BY <1>5, <1>8, <1>9 DEF Grown
<1>11. \A x \in DOMAIN Slots(o, id, what) : what = "key" => Fold(x) # Fold(key)
  BY <1>4, JsonObjectAssumption DEF Slots, IsObject
<1>12. DOMAIN n = DOMAIN o \cup {new} /\ n[new] = Referring(item)
  BY <1>1 DEF e
<1> QED BY <1>6, <1>7, <1>10, <1>11, <1>12, LookUpFine

\* A new object has an id of its own.
LEMMA FreeIdIs ==
  ASSUME IInv, DOMAIN objs # Ids
  PROVE  FreeId \in Ids /\ FreeId \notin DOMAIN objs
<1>1. \E id \in Ids : id \notin DOMAIN objs
  BY DEF IInv, Fine, Objects
<1> QED BY <1>1 DEF FreeId

\* Focus and Is of the model are FocusOf and a type.
LEMMA FocusNow ==
  ASSUME NEW s, IsStore(s), NEW id
  PROVE  /\ Focus(s, id) = FocusOf(s.objs, id)
         /\ \A type : Is(s, id, type) <=>
              FocusOf(s.objs, id) # Null /\ s.heap[FocusOf(s.objs, id)].type = type
  BY DEF Focus, FocusOf, Is, IsStore

\* The state before a step.
LEMMA NowIs ==
  /\ Now = Store(heap, objs) /\ Now.heap = heap /\ Now.objs = objs
  /\ IsStore(Now)
  /\ \A g : [Now EXCEPT !.heap = g] = Store(g, objs)
  BY DEF Now, Store, IsStore

\* What operator[] would find is ItemFor.
LEMMA ItemOfIs ==
  ASSUME IInv, NEW id \in DOMAIN objs
  PROVE  /\ \A k : ItemOfKey(id, k) = ItemFor(heap, FocusOf(objs, id), "key", k)
         /\ \A i : ItemOfIndex(id, i) = ItemFor(heap, FocusOf(objs, id), "index", i)
<1>1. /\ Focus(Now, id) = FocusOf(objs, id)
      /\ \A type : Is(Now, id, type) <=> FocusOf(objs, id) # Null /\ heap[FocusOf(objs, id)].type = type
  BY NowIs, FocusNow
<1>2. FocusOf(objs, id) \in DOMAIN heap <=> FocusOf(objs, id) # Null
  BY FocusIn, JsonObjectAssumption DEF IInv, Fine, Heap
<1> QED BY <1>1, <1>2 DEF ItemOfKey, ItemOfIndex, ItemFor, Found, TypeOf

\* operator[](const string&).
LEMMA LookUpKeyStep ==
  ASSUME IInv, NEW id \in DOMAIN objs, NEW k \in OneSpelling, LookUpKey(id, k)
  PROVE  IInv'
<1> DEFINE item == ItemOfKey(id, k)
<1>1. k \notin DOMAIN Slots(objs, id, "key") /\ DOMAIN objs # Ids /\ heap' = heap
  BY DEF LookUpKey, Slots
<1>2. objs' = With([objs EXCEPT ![id].byKey = With(@, k, FreeId)], FreeId, Referring(item))
  BY DEF LookUpKey
<1>3. item = ItemFor(heap, FocusOf(objs, id), "key", k)
  BY ItemOfIs
<1> HIDE DEF item
<1>4. FreeId \in Ids /\ FreeId \notin DOMAIN objs
  BY <1>1, FreeIdIs
<1>5. "key" \in Kinds /\ (k \in IF "key" = "key" THEN OneSpelling ELSE Indices) /\ IsObject(objs[id])
  BY DEF Kinds, IInv, Fine, Objects
<1>6. CachesNew(objs, objs', id, "key", k, FreeId, item)
  <2> DEFINE m == [objs EXCEPT ![id].byKey = With(@, k, FreeId)]
  <2>1. /\ DOMAIN m = DOMAIN objs /\ \A p \in DOMAIN objs \ {id} : m[p] = objs[p]
        /\ DOMAIN m[id] = DOMAIN objs[id] /\ m[id].own = objs[id].own /\ m[id].ext = objs[id].ext
        /\ m[id].keys = objs[id].keys /\ m[id].it = objs[id].it
        /\ m[id].found = objs[id].found
        /\ m[id].byKey = With(objs[id].byKey, k, FreeId) /\ m[id].byIndex = objs[id].byIndex
    BY <1>5 DEF IsObject
  <2>2. objs' = With(m, FreeId, Referring(item))
    BY <1>2
  <2> HIDE DEF m
  <2>3. /\ DOMAIN objs' = DOMAIN m \cup {FreeId} /\ \A p \in DOMAIN objs : objs'[p] = m[p]
        /\ objs'[FreeId] = Referring(item)
    BY <1>4, <2>1, <2>2 DEF With
  <2> QED BY <2>1, <2>3 DEF CachesNew, Slots, Kinds
<1>7. Fine(heap, objs', {}, {}, {})
  BY <1>1, <1>3, <1>4, <1>5, <1>6, CachesNewFine DEF IInv
<1> QED BY <1>1, <1>7 DEF IInv

\* operator[](unsigned int).
LEMMA LookUpIndexStep ==
  ASSUME IInv, NEW id \in DOMAIN objs, NEW i \in Indices, LookUpIndex(id, i)
  PROVE  IInv'
<1> DEFINE item == ItemOfIndex(id, i)
<1>1. i \notin DOMAIN Slots(objs, id, "index") /\ DOMAIN objs # Ids /\ heap' = heap
  BY DEF LookUpIndex, Slots
<1>2. objs' = With([objs EXCEPT ![id].byIndex = With(@, i, FreeId)], FreeId, Referring(item))
  BY DEF LookUpIndex
<1>3. item = ItemFor(heap, FocusOf(objs, id), "index", i)
  BY ItemOfIs
<1> HIDE DEF item
<1>4. FreeId \in Ids /\ FreeId \notin DOMAIN objs
  BY <1>1, FreeIdIs
<1>5. "index" \in Kinds /\ (i \in IF "index" = "key" THEN OneSpelling ELSE Indices) /\ IsObject(objs[id])
  BY DEF Kinds, IInv, Fine, Objects
<1>6. CachesNew(objs, objs', id, "index", i, FreeId, item)
  <2> DEFINE m == [objs EXCEPT ![id].byIndex = With(@, i, FreeId)]
  <2>1. /\ DOMAIN m = DOMAIN objs /\ \A p \in DOMAIN objs \ {id} : m[p] = objs[p]
        /\ DOMAIN m[id] = DOMAIN objs[id] /\ m[id].own = objs[id].own /\ m[id].ext = objs[id].ext
        /\ m[id].keys = objs[id].keys /\ m[id].it = objs[id].it
        /\ m[id].found = objs[id].found
        /\ m[id].byIndex = With(objs[id].byIndex, i, FreeId) /\ m[id].byKey = objs[id].byKey
    BY <1>5 DEF IsObject
  <2>2. objs' = With(m, FreeId, Referring(item))
    BY <1>2
  <2> HIDE DEF m
  <2>3. /\ DOMAIN objs' = DOMAIN m \cup {FreeId} /\ \A p \in DOMAIN objs : objs'[p] = m[p]
        /\ objs'[FreeId] = Referring(item)
    BY <1>4, <2>1, <2>2 DEF With
  <2> QED BY <2>1, <2>3 DEF CachesNew, Slots, Kinds
<1>7. Fine(heap, objs', {}, {}, {})
  BY <1>1, <1>3, <1>4, <1>5, <1>6, CachesNewFine DEF IInv
<1> QED BY <1>1, <1>7 DEF IInv

\* What a text is made of is well formed, that of an object in the heap too.
LEMMA SourceWellFormed ==
  ASSUME IInv, NEW text \in Sources, text # NoText
  PROVE  WellFormed(text)
<1>1. CASE text \in Docs
  BY <1>1, JsonObjectAssumption
<1>2. ASSUME NEW c \in DOMAIN heap, text = TextOf(heap, c) PROVE WellFormed(text)
  <2>1. Forest(heap, Owned(objs) \cup {})
    BY DEF IInv, Fine
  <2> QED BY <1>2, <2>1, TextOfWellFormed
<1> QED BY <1>1, <1>2 DEF Sources

\* The assignment to m_pJsonData.
LEMMA AdoptedIs ==
  ASSUME NEW h, NEW o, NEW E, NEW D, NEW K, Fine(h, o, E, D, K), NEW id \in DOMAIN o, NEW a
  PROVE  Adopted(o, [o EXCEPT ![id].own = a], id, a)
<1> DEFINE n == [o EXCEPT ![id].own = a]
<1>1. IsObject(o[id])
  BY DEF Fine, Objects
<1>2. /\ DOMAIN n = DOMAIN o /\ \A p \in DOMAIN o \ {id} : n[p] = o[p]
      /\ DOMAIN n[id] = DOMAIN o[id] /\ n[id].own = a /\ n[id].ext = o[id].ext
      /\ n[id].byKey = o[id].byKey /\ n[id].byIndex = o[id].byIndex
      /\ n[id].keys = o[id].keys /\ n[id].it = o[id].it /\ n[id].found = o[id].found
  BY <1>1 DEF IsObject
<1> HIDE DEF n
<1>3. Adopted(o, n, id, a)
  BY <1>2 DEF Adopted
<1> QED BY <1>3 DEF n

\* Parse.
LEMMA ParseStep ==
  ASSUME IInv, NEW id \in DOMAIN objs, NEW text \in Sources, Parse(id, text)
  PROVE  IInv'
<1> DEFINE s == Cleared(Now, id)
           g == Parsed(s.heap, text)
           a == ParsedAt(s.heap, text)
           n == [s.objs EXCEPT ![id].own = a]
<1>1. Fits(s.heap, text) /\ Become(IF text = NoText THEN s ELSE Store(g, n))
  BY DEF Parse
<1>2. s = Cleared(Store(heap, objs), id)
  BY NowIs
<1>3. g = Parsed(s.heap, text) /\ a = ParsedAt(s.heap, text) /\ n = [s.objs EXCEPT ![id].own = a]
  OBVIOUS
<1> HIDE DEF s, g, a, n
<1>4. /\ Fine(s.heap, s.objs, {}, {}, {})
      /\ id \in DOMAIN s.objs /\ s.objs[id] = [Empty EXCEPT !.found = objs[id].found]
  BY <1>2, ClearedFine DEF IInv
<1>5. CASE text = NoText
  <2>1. Become(s)
    BY <1>1, <1>5
  <2> QED BY <1>4, <2>1, BecomeFine DEF IInv
<1>6. CASE text # NoText
  <2>1. WellFormed(text) /\ Allocations(s.heap, text) # {}
    BY <1>1, <1>6, SourceWellFormed DEF Fits
  <2>2. Fine(g, s.objs, {a}, {}, {}) /\ a # Null
    BY <1>3, <1>4, <2>1, ParsedFine
  <2>3. Adopted(s.objs, n, id, a)
    BY <1>3, <1>4, <2>2, AdoptedIs
  <2>4. FocusOf(s.objs, id) = Null /\ \A kind \in Kinds : DOMAIN Slots(s.objs, id, kind) = {}
    BY <1>4 DEF FocusOf, Empty, Slots, Nothing
  <2>5. Fine(g, n, {}, {}, {})
    BY <1>4, <2>2, <2>3, <2>4, AdoptFine
  <2>6. Become(Store(g, n)) /\ Store(g, n).heap = g /\ Store(g, n).objs = n
    BY <1>1, <1>6 DEF Store
  <2>7. Fine(Store(g, n).heap, Store(g, n).objs, {}, {}, {})
    BY <2>5, <2>6
  <2> QED BY <2>6, <2>7, BecomeFine DEF IInv
<1> QED BY <1>5, <1>6

\* What is cached for S may be about to be deleted.
LEMMA CacheDropFine ==
  ASSUME NEW h, NEW o, NEW E, NEW K, Fine(h, o, E, {}, K),
         NEW id \in DOMAIN o, NEW what \in Kinds, NEW S,
         NEW D, D = Nested(o, CachedFor(o, id, what, S))
  PROVE  Fine(h, o, E, D, K) /\ id \in DOMAIN o \ D
<1>1. CacheTree(o)
  BY DEF Fine, Objects
<1>2. /\ D \subseteq DOMAIN o \ {Root} /\ CacheClosed(o, D) /\ {} \subseteq D /\ K \subseteq K
      /\ id \in DOMAIN o \ D
  BY <1>1, CachedForBelow
<1> QED BY <1>2, WiderFine

\* In an object, a name was missed only where it goes or where the program is not
\* to add it.
LEMMA NameNotMissed ==
  ASSUME NEW h, NEW o, NEW C, NEW id, h[FocusOf(o, id)].type = "object", NEW k,
         \/ AddMissed
         \/ \A x \in DOMAIN o[id].byKey :
              Fold(x) = Fold(k) /\ GetObjectItem(h, FocusOf(o, id), x) = Null => o[id].byKey[x] \in C
  PROVE  NotMissed(h, o, C, id, k)
<1> SUFFICES ASSUME NEW kind \in Kinds, NEW x \in DOMAIN Slots(o, id, kind),
                    Served(h, o, C, id, kind, x), Found(h, FocusOf(o, id), kind, x) = Null
             PROVE  kind = "key" /\ Fold(k) # Fold(x)
  BY DEF NotMissed
<1>1. kind = "key" /\ x \in DOMAIN o[id].byKey
  BY DEF Served, TypeOf, Slots, Kinds
<1>2. ~AddMissed
  BY DEF Served, Counts
<1>3. GetObjectItem(h, FocusOf(o, id), x) = Null /\ o[id].byKey[x] \notin C
  BY <1>1 DEF Found, Served, Slots
<1> QED BY <1>1, <1>2, <1>3

\* In an array, the index of the next element was.
LEMMA IndexNotMissed ==
  ASSUME NEW h, NEW o, NEW C, NEW id, h[FocusOf(o, id)].type = "array", IsObject(o[id]), NEW n,
         \/ AddMissed
         \/ \A x \in DOMAIN o[id].byIndex : x = GetArraySize(h, FocusOf(o, id)) => o[id].byIndex[x] \in C
  PROVE  NotMissed(h, o, C, id, n)
<1> SUFFICES ASSUME NEW kind \in Kinds, NEW x \in DOMAIN Slots(o, id, kind),
                    Served(h, o, C, id, kind, x), Found(h, FocusOf(o, id), kind, x) = Null
             PROVE  kind # "key" /\ x \in Nat /\ x # GetArraySize(h, FocusOf(o, id))
  BY DEF NotMissed
<1>1. kind = "index" /\ x \in DOMAIN o[id].byIndex
  BY DEF Served, TypeOf, Slots, Kinds
<1>2. ~AddMissed
  BY DEF Served, Counts
<1>3. o[id].byIndex[x] \notin C
  BY <1>1 DEF Served, Slots
<1>4. x \in Nat
  BY <1>1, JsonObjectAssumption DEF IsObject
<1> QED BY <1>1, <1>2, <1>3, <1>4

\* What was missed in a list is missed in the same list elsewhere.
LEMMA SameMissed ==
  ASSUME NEW h, NEW g, NEW o, NEW C, NEW id, NEW n, SameList(h, g, FocusOf(o, id)), NotMissed(h, o, C, id, n)
  PROVE  NotMissed(g, o, C, id, n)
<1> DEFINE f == FocusOf(o, id)
<1>1. /\ g[f].type = h[f].type /\ GetArraySize(g, f) = GetArraySize(h, f)
      /\ \A kind, x : Found(g, f, kind, x) = Found(h, f, kind, x)
  BY SameFound DEF SameList, GetArraySize, Found
<1> HIDE DEF f
<1>2. \A kind, x : Served(g, o, C, id, kind, x) <=> Served(h, o, C, id, kind, x)
  BY <1>1 DEF Served, f
<1> QED BY <1>1, <1>2 DEF NotMissed, f

\* An item that no object has becomes a member of the object id.
LEMMA AddNamedFine ==
  ASSUME NEW h, NEW o, NEW D, NEW a, Fine(h, o, {a}, D, {}),
         NEW id \in DOMAIN o \ D, FocusOf(o, id) # Null, NEW k, NotMissed(h, o, D, id, k),
         NEW g, g = AddItemToObject(h, FocusOf(o, id), k, a)
  PROVE  Fine(g, o, {}, D, {id})
<1> DEFINE m == SetName(h, a, k)
<1>1. m = SetName(h, a, k) /\ g = AddItemToArray(m, FocusOf(o, id), a)
  BY DEF AddItemToObject
<1> HIDE DEF m
<1>2. Fine(m, o, {a}, D, {}) /\ m[a].name = k /\ \A b \in DOMAIN h : SameList(h, m, b)
  BY <1>1, SetNameFine
<1>3. NotMissed(m, o, D, id, m[a].name)
  BY <1>2, FocusIn, SameMissed
<1>4. Fine(g, o, {}, D, {} \cup {id})
  BY <1>1, <1>2, <1>3, AppendFine
<1>5. {} \cup {id} = {id}
  OBVIOUS
<1> QED BY <1>4, <1>5

\* cJSON_AddItemToArray, before the names of id are cleared.
LEMMA AddFine ==
  ASSUME NEW h, NEW o, NEW D, NEW a, Fine(h, o, {a}, D, {}),
         NEW id \in DOMAIN o \ D, FocusOf(o, id) # Null, NotMissed(h, o, D, id, h[a].name),
         NEW g, g = AddItemToArray(h, FocusOf(o, id), a)
  PROVE  Fine(g, o, {}, D, {id})
<1>1. Fine(g, o, {}, D, {} \cup {id})
  BY AppendFine
<1>2. {} \cup {id} = {id}
  OBVIOUS
<1> QED BY <1>1, <1>2

\* The array is one element longer then.
LEMMA AddSize ==
  ASSUME NEW h, NEW o, NEW a, Fine(h, o, {a}, {}, {}), NEW id \in DOMAIN o, FocusOf(o, id) # Null,
         NEW g, g = AddItemToArray(h, FocusOf(o, id), a)
  PROVE  GetArraySize(h, FocusOf(o, id)) \in Nat /\ GetArraySize(g, FocusOf(o, id)) = GetArraySize(h, FocusOf(o, id)) + 1
<1> DEFINE f == FocusOf(o, id)
           R == Owned(o) \cup {a}
<1>1. Forest(h, R) /\ Items(h) /\ IsFiniteSet(DOMAIN h) /\ a \in R /\ f \in DOMAIN h
      /\ g = AddItemToArray(h, f, a)
  BY FiniteHeap, FocusIn DEF Fine, Heap
<1>2. f \notin Freed(h, a)
  BY FociFree DEF Fine
<1> HIDE DEF f, R
<1>3. a \notin Listed(h, f) /\ Listed(g, f) = Listed(h, f) \cup {a}
  <2>1. Appended(h, g, f, a)
    BY <1>1, <1>2, AppendList
  <2> QED BY <2>1 DEF Appended
<1>4. IsFiniteSet(Listed(h, f))
  BY <1>1, ListedFinite
<1>5. Cardinality(Listed(h, f)) \in Nat /\ Cardinality(Listed(h, f) \cup {a}) = Cardinality(Listed(h, f)) + 1
  BY <1>3, <1>4, FS_CardinalityType, FS_AddElement
<1>6. GetArraySize(h, f) \in Nat /\ GetArraySize(g, f) = GetArraySize(h, f) + 1
  BY <1>3, <1>5 DEF GetArraySize
<1> QED BY <1>6 DEF f

\* The parts of a Store.
LEMMA StoreIs ==
  ASSUME NEW h, NEW o
  PROVE  /\ Store(h, o).heap = h /\ Store(h, o).objs = o
         /\ \A g : [Store(h, o) EXCEPT !.heap = g] = Store(g, o)
  BY DEF Store

\* Add(const string&, const CJsonObject&).
LEMMA AddObjectStep ==
  ASSUME IInv, NEW id \in DOMAIN objs, NEW k, NEW text \in Sources, AddObject(id, k, text)
  PROVE  IInv'
<1> DEFINE s == Opened(Now, id, "object")
           h == s.heap
           o == s.objs
           f == Focus(s, id)
           a == ParsedAt(h, text)
           p == Parsed(h, text)
           g == AddItemToObject(p, f, k, a)
           added == [s EXCEPT !.heap = g]
           u == Uncache(added, id, k)
           r == ForgetKeys(u, id)
           D == Nested(o, CachedFor(o, id, "key", {k}))
<1>1. /\ Room(heap, 1) /\ Fits(h, text) /\ Become(IF ~Is(s, id, "object") \/ text = NoText THEN s ELSE r)
      /\ AddMissed \/ Missed(s, id, k) \subseteq {k}
  BY DEF AddObject
<1>2. s = Opened(Store(heap, objs), id, "object")
  BY NowIs
<1>3. /\ Fine(h, o, {}, {}, {})
      /\ id \in DOMAIN o /\ FocusOf(o, id) # Null
      /\ s = Store(h, o) /\ IsStore(s)
  <2> HIDE DEF s
  <2>1. Fine(s.heap, s.objs, {}, {}, {}) /\ Opens(heap, objs, id, s)
    BY <1>1, <1>2, OpenedFine DEF IInv
  <2> QED BY <2>1 DEF Opens, IsStore
<1>4. f = FocusOf(o, id) /\ added = Store(g, o)
  <2> HIDE DEF g
  <2>1. added = Store(g, o)
    BY <1>3, StoreIs
  <2>2. f = FocusOf(o, id)
    BY <1>3, FocusNow
  <2> QED BY <2>1, <2>2
<1>5. /\ p = Parsed(h, text) /\ a = ParsedAt(h, text) /\ g = AddItemToObject(p, f, k, a)
      /\ u = Uncache(added, id, k) /\ r = ForgetKeys(u, id)
      /\ D = Nested(o, CachedFor(o, id, "key", {k}))
  OBVIOUS
<1>6. h = s.heap /\ o = s.objs
  OBVIOUS
<1> HIDE DEF s, h, o, f, a, p, g, added, u, r, D
<1>7. CASE ~Is(s, id, "object") \/ text = NoText
  <2>1. Become(s)
    BY <1>1, <1>7
  <2>2. Fine(s.heap, s.objs, {}, {}, {})
    BY <1>3, <1>6
  <2> QED BY <2>1, <2>2, BecomeFine DEF IInv
<1>8. CASE text # NoText /\ Is(s, id, "object")
  <2>1. WellFormed(text) /\ Allocations(h, text) # {}
    BY <1>1, <1>8, SourceWellFormed DEF Fits
  <2>2. /\ Fine(h, o, {}, D, {}) /\ id \in DOMAIN o \ D
        /\ \A x \in DOMAIN Slots(o, id, "key") : x \in {k} => Slots(o, id, "key")[x] \in D
    <3>1. "key" \in Kinds /\ CacheTree(o)
      BY <1>3 DEF Kinds, Fine, Objects
    <3> QED BY <1>3, <1>5, <3>1, CacheDropFine, CachedForBelow
  <2>3. Fine(p, o, {a}, D, {}) /\ \A b \in DOMAIN h : SameList(h, p, b)
    BY <1>5, <2>1, <2>2, ParsedFine
  <2>10. NotMissed(h, o, D, id, k)
    <3>1. h[FocusOf(o, id)].type = "object"
      BY <1>3, <1>6, <1>8, FocusNow
    <3>2. Missed(s, id, k) =
            {x \in DOMAIN o[id].byKey : Fold(x) = Fold(k) /\ GetObjectItem(h, FocusOf(o, id), x) = Null}
      BY <1>4, <1>5, <1>6, FocusNow, <1>3 DEF Missed, f
    <3>3. \/ AddMissed
          \/ \A x \in DOMAIN o[id].byKey :
               Fold(x) = Fold(k) /\ GetObjectItem(h, FocusOf(o, id), x) = Null => o[id].byKey[x] \in D
      BY <1>1, <2>2, <3>2 DEF Slots
    <3> QED BY <3>1, <3>3, NameNotMissed
  <2>4. Fine(g, o, {}, D, {id})
    <3>1. g = AddItemToObject(p, FocusOf(o, id), k, a)
      BY <1>4, <1>5
    <3>2. NotMissed(p, o, D, id, k)
      BY <1>3, <2>3, <2>10, FocusIn, SameMissed
    <3> QED BY <1>3, <2>2, <2>3, <3>1, <3>2, AddNamedFine
  <2>5. u = Uncache(Store(g, o), id, k)
    BY <1>4, <1>5
  <2>6. /\ Fine(u.heap, u.objs, {}, {}, {id})
        /\ Uncached(g, o, u.heap, u.objs, id, "key", {k})
        /\ IsStore(u)
    <3>1. id \in DOMAIN o /\ D = Nested(o, CachedFor(o, id, "key", {k}))
      BY <1>3, <1>5
    <3> QED BY <2>4, <2>5, <3>1, UncacheFine
  <2>7. id \in DOMAIN u.objs
    BY <2>6 DEF Uncached
  <2>8. Fine(r.heap, r.objs, {}, {}, {})
    BY <1>5, <2>6, <2>7, ForgetFine
  <2>9. Become(r)
    BY <1>1, <1>8
  <2> QED BY <2>8, <2>9, BecomeFine DEF IInv
<1> QED BY <1>7, <1>8

\* Add of a name and a plain value.
LEMMA AddPlainStep ==
  ASSUME IInv, NEW id \in DOMAIN objs, NEW k, NEW type, AddPlain(id, k, type)
  PROVE  IInv'
<1> DEFINE s == Opened(Now, id, "object")
           h == s.heap
           o == s.objs
           f == Focus(s, id)
           a == FreeAddress(h)
           p == New(h, a, type)
           g == AddItemToObject(p, f, k, a)
           added == [s EXCEPT !.heap = g]
           r == ForgetKeys(added, id)
<1>1. /\ Room(heap, 2) /\ Become(IF Is(s, id, "object") THEN r ELSE s)
      /\ AddMissed \/ Missed(s, id, k) = {}
  BY DEF AddPlain
<1>2. s = Opened(Store(heap, objs), id, "object") /\ Room(heap, 1)
  BY <1>1, NowIs, RoomIs DEF IInv, Fine
<1>3. /\ Fine(h, o, {}, {}, {})
      /\ id \in DOMAIN o /\ FocusOf(o, id) # Null
      /\ s = Store(h, o) /\ IsStore(s) /\ Room(h, 1)
  <2> HIDE DEF s
  <2>1. Fine(s.heap, s.objs, {}, {}, {}) /\ Opens(heap, objs, id, s)
    BY <1>2, OpenedFine DEF IInv
  <2> QED BY <1>1, <2>1 DEF Opens, IsStore
<1>4. f = FocusOf(o, id) /\ added = Store(g, o)
  <2> HIDE DEF g
  <2>1. added = Store(g, o)
    BY <1>3, StoreIs
  <2>2. f = FocusOf(o, id)
    BY <1>3, FocusNow
  <2> QED BY <2>1, <2>2
<1>5. /\ a = FreeAddress(h) /\ p = New(h, a, type) /\ g = AddItemToObject(p, f, k, a)
      /\ r = ForgetKeys(added, id)
  OBVIOUS
<1>6. h = s.heap /\ o = s.objs
  OBVIOUS
<1> HIDE DEF s, h, o, f, a, p, g, added, r
<1>7. CASE ~Is(s, id, "object")
  <2>1. Become(s)
    BY <1>1, <1>7
  <2>2. Fine(s.heap, s.objs, {}, {}, {})
    BY <1>3, <1>6
  <2> QED BY <2>1, <2>2, BecomeFine DEF IInv
<1>8. CASE Is(s, id, "object")
  <2>1. a \in Addresses /\ a \notin DOMAIN h
    BY <1>3, <1>5, RoomIs DEF Fine
  <2>2. Fine(p, o, {a}, {}, {}) /\ \A b \in DOMAIN h : SameList(h, p, b)
    BY <1>3, <1>5, <2>1, NewFine
  <2>8. NotMissed(h, o, {}, id, k)
    <3>1. h[FocusOf(o, id)].type = "object"
      BY <1>3, <1>6, <1>8, FocusNow
    <3>2. Missed(s, id, k) =
            {x \in DOMAIN o[id].byKey : Fold(x) = Fold(k) /\ GetObjectItem(h, FocusOf(o, id), x) = Null}
      BY <1>3, <1>6, FocusNow DEF Missed
    <3> QED BY <1>1, <3>1, <3>2, NameNotMissed
  <2>3. Fine(g, o, {}, {}, {id})
    <3>1. g = AddItemToObject(p, FocusOf(o, id), k, a)
      BY <1>4, <1>5
    <3>2. NotMissed(p, o, {}, id, k)
      BY <1>3, <2>2, <2>8, FocusIn, SameMissed
    <3> QED BY <1>3, <2>2, <3>1, <3>2, AddNamedFine
  <2>4. added.heap = g /\ added.objs = o
    BY <1>4, StoreIs
  <2>5. /\ Fine(added.heap, added.objs, {}, {}, {id}) /\ id \in DOMAIN added.objs
        /\ IsStore(added)
    BY <1>3, <1>4, <2>3, <2>4 DEF IsStore
  <2>6. Fine(r.heap, r.objs, {}, {}, {})
    BY <1>5, <2>5, ForgetFine
  <2>7. Become(r)
    BY <1>1, <1>8
  <2> QED BY <2>6, <2>7, BecomeFine DEF IInv
<1> QED BY <1>7, <1>8

\* Nothing is left to clear in the list of names of an array.
LEMMA ArrayFine ==
  ASSUME NEW h, NEW o, Fine(h, o, {}, {}, {}), NEW id \in DOMAIN o, h[FocusOf(o, id)].type = "array",
         NEW g, Fine(g, o, {}, {}, {id})
  PROVE  Fine(g, o, {}, {}, {})
<1>1. o[id].keys = <<>>
  BY NoKeys
<1> QED BY <1>1, NoKeysFine

\* What is cached for S is dropped after a change of the elements of an array.
LEMMA UncacheArrayFine ==
  ASSUME NEW h, NEW o, Fine(h, o, {}, {}, {}), NEW id \in DOMAIN o, h[FocusOf(o, id)].type = "array",
         NEW S, NEW D, D = Nested(o, CachedFor(o, id, "index", S)),
         NEW g, Fine(g, o, {}, D, {id}), NEW u, u = UncacheAt(Store(g, o), id, S)
  PROVE  Fine(u.heap, u.objs, {}, {}, {})
<1>1. o[id].keys = <<>>
  BY NoKeys
<1>2. Fine(u.heap, u.objs, {}, {}, {id}) /\ Uncached(g, o, u.heap, u.objs, id, "index", S)
  BY UncacheAtFine
<1>3. u.objs[id].keys = <<>>
  BY <1>1, <1>2 DEF Uncached
<1> QED BY <1>2, <1>3, NoKeysFine

\* Add(const CJsonObject&).
LEMMA AppendObjectStep ==
  ASSUME IInv, NEW id \in DOMAIN objs, NEW text \in Sources, AppendObject(id, text)
  PROVE  IInv'
<1> DEFINE s == Opened(Now, id, "array")
           h == s.heap
           o == s.objs
           f == Focus(s, id)
           a == ParsedAt(h, text)
           p == Parsed(h, text)
           g == AddItemToArray(p, f, a)
           added == [s EXCEPT !.heap = g]
           S == {i \in Indices : i >= GetArraySize(added.heap, f) - 1}
           u == UncacheAt(added, id, S)
           D == Nested(o, CachedFor(o, id, "index", S))
<1>1. Room(heap, 1) /\ Fits(h, text) /\ Become(IF ~Is(s, id, "array") \/ text = NoText THEN s ELSE u)
  BY DEF AppendObject
<1>2. s = Opened(Store(heap, objs), id, "array")
  BY NowIs
<1>3. /\ Fine(h, o, {}, {}, {})
      /\ id \in DOMAIN o /\ FocusOf(o, id) # Null
      /\ s = Store(h, o) /\ IsStore(s)
  <2> HIDE DEF s
  <2>1. Fine(s.heap, s.objs, {}, {}, {}) /\ Opens(heap, objs, id, s)
    BY <1>1, <1>2, OpenedFine DEF IInv
  <2> QED BY <2>1 DEF Opens, IsStore
<1>4. f = FocusOf(o, id) /\ added = Store(g, o)
  <2> HIDE DEF g
  <2>1. added = Store(g, o)
    BY <1>3, StoreIs
  <2>2. f = FocusOf(o, id)
    BY <1>3, FocusNow
  <2> QED BY <2>1, <2>2
<1>5. /\ p = Parsed(h, text) /\ a = ParsedAt(h, text) /\ g = AddItemToArray(p, f, a)
      /\ u = UncacheAt(added, id, S)
      /\ D = Nested(o, CachedFor(o, id, "index", S))
  OBVIOUS
<1>6. h = s.heap /\ o = s.objs
  OBVIOUS
<1> HIDE DEF s, h, o, f, a, p, g, added, u, D, S
<1>7. CASE ~Is(s, id, "array") \/ text = NoText
  <2>1. Become(s)
    BY <1>1, <1>7
  <2>2. Fine(s.heap, s.objs, {}, {}, {})
    BY <1>3, <1>6
  <2> QED BY <2>1, <2>2, BecomeFine DEF IInv
<1>8. CASE text # NoText /\ Is(s, id, "array")
  <2>0. h[FocusOf(o, id)].type = "array"
    BY <1>3, <1>6, <1>8, FocusNow
  <2>1. WellFormed(text) /\ Allocations(h, text) # {}
    BY <1>1, <1>8, SourceWellFormed DEF Fits
  <2>2. Fine(p, o, {a}, {}, {}) /\ \A b \in DOMAIN h : SameList(h, p, b)
    BY <1>3, <1>5, <2>1, ParsedFine
  <2>3. g = AddItemToArray(p, FocusOf(o, id), a)
    BY <1>4, <1>5
  <2>8. /\ Fine(p, o, {a}, D, {}) /\ id \in DOMAIN o \ D
        /\ \A x \in DOMAIN Slots(o, id, "index") : x \in S => Slots(o, id, "index")[x] \in D
    <3>1. "index" \in Kinds /\ CacheTree(o)
      BY <1>3 DEF Kinds, Fine, Objects
    <3> QED BY <1>3, <1>5, <2>2, <3>1, CacheDropFine, CachedForBelow
  <2>9. NotMissed(p, o, D, id, p[a].name)
    <3>1. IsObject(o[id]) /\ p[FocusOf(o, id)].type = "array"
      BY <1>3, <2>0, <2>2, FocusIn DEF SameList, Fine, Objects
    <3>2. ASSUME NEW x \in DOMAIN o[id].byIndex, x = GetArraySize(p, FocusOf(o, id)) PROVE o[id].byIndex[x] \in D
      <4>1. x \in Nat /\ GetArraySize(g, FocusOf(o, id)) = x + 1
        BY <1>3, <2>2, <2>3, <3>2, AddSize
      <4>2. added.heap = g /\ f = FocusOf(o, id)
        BY <1>4, StoreIs
      <4>3. x \in S
        BY <3>1, <4>1, <4>2 DEF S, IsObject
      <4> QED BY <2>8, <4>3 DEF Slots
    <3> QED BY <3>1, <3>2, IndexNotMissed
  <2>4. Fine(g, o, {}, D, {id})
    BY <1>3, <2>3, <2>8, <2>9, AddFine
  <2>5. u = UncacheAt(Store(g, o), id, S) /\ D = Nested(o, CachedFor(o, id, "index", S))
    BY <1>4, <1>5
  <2>6. Fine(u.heap, u.objs, {}, {}, {})
    BY <1>3, <2>0, <2>4, <2>5, UncacheArrayFine
  <2>7. Become(u)
    BY <1>1, <1>8
  <2> QED BY <2>6, <2>7, BecomeFine DEF IInv
<1> QED BY <1>7, <1>8

\* Add of a plain value.
LEMMA AppendPlainStep ==
  ASSUME IInv, NEW id \in DOMAIN objs, AppendPlain(id)
  PROVE  IInv'
<1> DEFINE s == Opened(Now, id, "array")
           h == s.heap
           o == s.objs
           f == Focus(s, id)
           a == FreeAddress(h)
           p == New(h, a, "plain")
           g == AddItemToArray(p, f, a)
           added == [s EXCEPT !.heap = g]
<1>1. /\ Room(heap, 2) /\ Become(IF ~Is(s, id, "array") THEN s ELSE added)
      /\ AddMissed \/ GetArraySize(h, f) \notin DOMAIN objs[id].byIndex
  BY DEF AppendPlain
<1>2. s = Opened(Store(heap, objs), id, "array") /\ Room(heap, 1)
  BY <1>1, NowIs, RoomIs DEF IInv, Fine
<1>3. /\ Fine(h, o, {}, {}, {})
      /\ id \in DOMAIN o /\ FocusOf(o, id) # Null
      /\ s = Store(h, o) /\ IsStore(s) /\ Room(h, 1)
      /\ o[id].byIndex = objs[id].byIndex
  <2> HIDE DEF s
  <2>1. Fine(s.heap, s.objs, {}, {}, {}) /\ Opens(heap, objs, id, s)
    BY <1>2, OpenedFine DEF IInv
  <2> QED BY <1>1, <2>1 DEF Opens, IsStore
<1>4. f = FocusOf(o, id) /\ added = Store(g, o)
  <2> HIDE DEF g
  <2>1. added = Store(g, o)
    BY <1>3, StoreIs
  <2>2. f = FocusOf(o, id)
    BY <1>3, FocusNow
  <2> QED BY <2>1, <2>2
<1>5. a = FreeAddress(h) /\ p = New(h, a, "plain") /\ g = AddItemToArray(p, f, a)
  OBVIOUS
<1>6. h = s.heap /\ o = s.objs
  OBVIOUS
<1> HIDE DEF s, h, o, f, a, p, g, added
<1>7. CASE ~Is(s, id, "array")
  <2>1. Become(s)
    BY <1>1, <1>7
  <2>2. Fine(s.heap, s.objs, {}, {}, {})
    BY <1>3, <1>6
  <2> QED BY <2>1, <2>2, BecomeFine DEF IInv
<1>8. CASE Is(s, id, "array")
  <2>0. h[FocusOf(o, id)].type = "array"
    BY <1>3, <1>6, <1>8, FocusNow
  <2>1. a \in Addresses /\ a \notin DOMAIN h
    BY <1>3, <1>5, RoomIs DEF Fine
  <2>2. Fine(p, o, {a}, {}, {}) /\ \A b \in DOMAIN h : SameList(h, p, b)
    BY <1>3, <1>5, <2>1, NewFine
  <2>7. NotMissed(h, o, {}, id, p[a].name)
    <3>1. IsObject(o[id])
      BY <1>3 DEF Fine, Objects
    <3> QED BY <1>1, <1>3, <1>4, <2>0, <3>1, IndexNotMissed
  <2>3. Fine(g, o, {}, {}, {id})
    <3>1. g = AddItemToArray(p, FocusOf(o, id), a)
      BY <1>4, <1>5
    <3>2. NotMissed(p, o, {}, id, p[a].name)
      BY <1>3, <2>2, <2>7, FocusIn, SameMissed
    <3> QED BY <1>3, <2>2, <3>1, <3>2, AddFine
  <2>4. Fine(g, o, {}, {}, {})
    BY <1>3, <2>0, <2>3, ArrayFine
  <2>5. Fine(added.heap, added.objs, {}, {}, {})
    BY <1>4, <2>4, StoreIs
  <2>6. Become(added)
    BY <1>1, <1>8
  <2> QED BY <2>5, <2>6, BecomeFine DEF IInv
<1> QED BY <1>7, <1>8

\* All that is cached in an array goes when an element comes before the others.
LEMMA AddFirstFine ==
  ASSUME NEW h, NEW o, NEW a, Fine(h, o, {a}, {}, {}), NEW C, NEW id, Spares(o, C, id),
         h[FocusOf(o, id)].type = "array",
         \A x \in DOMAIN o[id].byIndex : o[id].byIndex[x] \in C,
         NEW g, g = AddItemToArrayHead(h, FocusOf(o, id), a)
  PROVE  Fine(g, o, {}, C, {id})
<1>1. /\ {} \subseteq C /\ C \subseteq DOMAIN o \ {Root} /\ CacheClosed(o, C)
      /\ id \in DOMAIN o \ C /\ FocusOf(o, id) # Null
  BY DEF Spares
<1>2. Fine(g, o, {}, C, {} \cup {id})
  BY <1>1, PrependFine
<1>3. {} \cup {id} = {id}
  OBVIOUS
<1> QED BY <1>2, <1>3

\* AddAsFirst(const CJsonObject&).
LEMMA PrependObjectStep ==
  ASSUME IInv, NEW id \in DOMAIN objs, NEW text \in Sources, PrependObject(id, text)
  PROVE  IInv'
<1> DEFINE s == Opened(Now, id, "array")
           h == s.heap
           o == s.objs
           f == Focus(s, id)
           a == ParsedAt(h, text)
           p == Parsed(h, text)
           g == AddItemToArrayHead(p, f, a)
           added == [s EXCEPT !.heap = g]
           u == UncacheAt(added, id, Indices)
           D == Nested(o, CachedFor(o, id, "index", Indices))
<1>1. Room(heap, 1) /\ Fits(h, text) /\ Become(IF ~Is(s, id, "array") \/ text = NoText THEN s ELSE u)
  BY DEF PrependObject
<1>2. s = Opened(Store(heap, objs), id, "array")
  BY NowIs
<1>3. /\ Fine(h, o, {}, {}, {})
      /\ id \in DOMAIN o /\ FocusOf(o, id) # Null
      /\ s = Store(h, o) /\ IsStore(s)
  <2> HIDE DEF s
  <2>1. Fine(s.heap, s.objs, {}, {}, {}) /\ Opens(heap, objs, id, s)
    BY <1>1, <1>2, OpenedFine DEF IInv
  <2> QED BY <2>1 DEF Opens, IsStore
<1>4. f = FocusOf(o, id) /\ added = Store(g, o)
  <2> HIDE DEF g
  <2>1. added = Store(g, o)
    BY <1>3, StoreIs
  <2>2. f = FocusOf(o, id)
    BY <1>3, FocusNow
  <2> QED BY <2>1, <2>2
<1>5. /\ p = Parsed(h, text) /\ a = ParsedAt(h, text) /\ g = AddItemToArrayHead(p, f, a)
      /\ u = UncacheAt(added, id, Indices)
      /\ D = Nested(o, CachedFor(o, id, "index", Indices))
  OBVIOUS
<1>6. h = s.heap /\ o = s.objs
  OBVIOUS
<1> HIDE DEF s, h, o, f, a, p, g, added, u, D
<1>7. CASE ~Is(s, id, "array") \/ text = NoText
  <2>1. Become(s)
    BY <1>1, <1>7
  <2>2. Fine(s.heap, s.objs, {}, {}, {})
    BY <1>3, <1>6
  <2> QED BY <2>1, <2>2, BecomeFine DEF IInv
<1>8. CASE text # NoText /\ Is(s, id, "array")
  <2>0. h[FocusOf(o, id)].type = "array"
    BY <1>3, <1>6, <1>8, FocusNow
  <2>1. WellFormed(text) /\ Allocations(h, text) # {}
    BY <1>1, <1>8, SourceWellFormed DEF Fits
  <2>2. Fine(p, o, {a}, {}, {}) /\ \A b \in DOMAIN h : SameList(h, p, b)
    BY <1>3, <1>5, <2>1, ParsedFine
  <2>3. p[FocusOf(o, id)].type = "array"
    <3>1. FocusOf(o, id) \in DOMAIN h
      BY <1>3, FocusIn
    <3> QED BY <2>0, <2>2, <3>1 DEF SameList
  <2>4. Spares(o, D, id) /\ \A x \in DOMAIN o[id].byIndex : o[id].byIndex[x] \in D
    <3>1. "index" \in Kinds /\ CacheTree(o) /\ DOMAIN o[id].byIndex \subseteq Indices
      BY <1>3 DEF Kinds, Fine, Objects, IsObject
    <3>2. D \subseteq DOMAIN o \ {Root} /\ CacheClosed(o, D) /\ id \in DOMAIN o \ D
      BY <1>3, <1>5, <3>1, CachedForBelow
    <3>3. \A x \in DOMAIN Slots(o, id, "index") : x \in Indices => Slots(o, id, "index")[x] \in D
      BY <1>3, <1>5, <3>1, CachedForBelow
    <3> QED BY <1>3, <3>1, <3>2, <3>3 DEF Spares, Slots
  <2>5. Fine(g, o, {}, D, {id})
    <3>1. g = AddItemToArrayHead(p, FocusOf(o, id), a)
      BY <1>4, <1>5
    <3> QED BY <2>2, <2>3, <2>4, <3>1, AddFirstFine
  <2>6. u = UncacheAt(Store(g, o), id, Indices) /\ D = Nested(o, CachedFor(o, id, "index", Indices))
    BY <1>4, <1>5
  <2>7. Fine(u.heap, u.objs, {}, {}, {})
    BY <1>3, <2>0, <2>5, <2>6, UncacheArrayFine
  <2>8. Become(u)
    BY <1>1, <1>8
  <2> QED BY <2>7, <2>8, BecomeFine DEF IInv
<1> QED BY <1>7, <1>8

\* AddAsFirst of a plain value, which drops nothing cached: the one step that needs
\* nothing to be cached.
LEMMA PrependPlainStep ==
  ASSUME IInv, ~ShiftCached, NEW id \in DOMAIN objs, PrependPlain(id)
  PROVE  IInv'
<1> DEFINE s == Opened(Now, id, "array")
           h == s.heap
           o == s.objs
           f == Focus(s, id)
           a == FreeAddress(h)
           p == New(h, a, "plain")
           g == AddItemToArrayHead(p, f, a)
           added == [s EXCEPT !.heap = g]
<1>1. /\ DOMAIN objs[id].byIndex = {} /\ Room(heap, 2)
      /\ Become(IF ~Is(s, id, "array") THEN s ELSE added)
  BY DEF PrependPlain
<1>2. s = Opened(Store(heap, objs), id, "array") /\ Room(heap, 1)
  BY <1>1, NowIs, RoomIs DEF IInv, Fine
<1>3. /\ Fine(h, o, {}, {}, {})
      /\ id \in DOMAIN o /\ FocusOf(o, id) # Null
      /\ s = Store(h, o) /\ IsStore(s) /\ Room(h, 1)
      /\ DOMAIN o[id].byIndex = {}
  <2> HIDE DEF s
  <2>1. Fine(s.heap, s.objs, {}, {}, {}) /\ Opens(heap, objs, id, s)
    BY <1>2, OpenedFine DEF IInv
  <2> QED BY <1>1, <2>1 DEF Opens, IsStore
<1>4. f = FocusOf(o, id) /\ added = Store(g, o)
  <2> HIDE DEF g
  <2>1. added = Store(g, o)
    BY <1>3, StoreIs
  <2>2. f = FocusOf(o, id)
    BY <1>3, FocusNow
  <2> QED BY <2>1, <2>2
<1>5. a = FreeAddress(h) /\ p = New(h, a, "plain") /\ g = AddItemToArrayHead(p, f, a)
  OBVIOUS
<1>6. h = s.heap /\ o = s.objs
  OBVIOUS
<1> HIDE DEF s, h, o, f, a, p, g, added
<1>7. CASE ~Is(s, id, "array")
  <2>1. Become(s)
    BY <1>1, <1>7
  <2>2. Fine(s.heap, s.objs, {}, {}, {})
    BY <1>3, <1>6
  <2> QED BY <2>1, <2>2, BecomeFine DEF IInv
<1>8. CASE Is(s, id, "array")
  <2>0. h[FocusOf(o, id)].type = "array" /\ FocusOf(o, id) \in DOMAIN h
    <3>1. h[FocusOf(o, id)].type = "array"
      BY <1>3, <1>6, <1>8, FocusNow
    <3>2. FocusOf(o, id) \in DOMAIN h
      BY <1>3, FocusIn
    <3> QED BY <3>1, <3>2
  <2>1. a \in Addresses /\ a \notin DOMAIN h
    BY <1>3, <1>5, RoomIs DEF Fine
  <2>2. Fine(p, o, {a}, {}, {}) /\ \A b \in DOMAIN h : SameList(h, p, b)
    BY <1>3, <1>5, <2>1, NewFine
  <2>3. p[FocusOf(o, id)].type = "array"
    BY <2>0, <2>2 DEF SameList
  <2>4. Spares(o, {}, id) /\ \A x \in DOMAIN o[id].byIndex : o[id].byIndex[x] \in {}
    BY <1>3 DEF Spares, CacheClosed
  <2>5. Fine(g, o, {}, {}, {id})
    <3>1. g = AddItemToArrayHead(p, FocusOf(o, id), a)
      BY <1>4, <1>5
    <3> QED BY <2>2, <2>3, <2>4, <3>1, AddFirstFine
  <2>6. Fine(g, o, {}, {}, {})
    BY <1>3, <2>0, <2>5, ArrayFine
  <2>7. Fine(added.heap, added.objs, {}, {}, {})
    BY <1>4, <2>6, StoreIs
  <2>8. Become(added)
    BY <1>1, <1>8
  <2> QED BY <2>7, <2>8, BecomeFine DEF IInv
<1> QED BY <1>7, <1>8

\* Delete(const string&).
LEMMA DeleteKeyStep ==
  ASSUME IInv, NEW id \in DOMAIN objs, NEW k \in OneSpelling, DeleteKey(id, k)
  PROVE  IInv'
<1> DEFINE f == Focus(Now, id)
           g == DeleteItemFromObject(heap, f, k)
           s == [Now EXCEPT !.heap = g]
           u == Uncache(s, id, k)
           r == ForgetKeys(u, id)
           D == Nested(objs, CachedFor(objs, id, "key", {k}))
<1>1. Is(Now, id, "object") /\ Become(r)
  BY NowIs DEF DeleteKey
<1>2. f = FocusOf(objs, id) /\ f # Null /\ heap[f].type = "object"
  BY <1>1, NowIs, FocusNow
<1>3. s = Store(g, objs)
  BY NowIs
<1>4. /\ g = DeleteItemFromObject(heap, f, k)
      /\ u = Uncache(s, id, k) /\ r = ForgetKeys(u, id)
      /\ D = Nested(objs, CachedFor(objs, id, "key", {k}))
  OBVIOUS
<1> HIDE DEF f, g, s, u, r, D
<1>5. Fine(g, objs, {}, D, {id})
  BY <1>2, <1>4, DeleteKeyFine DEF IInv
<1>6. u = Uncache(Store(g, objs), id, k)
  BY <1>3, <1>4
<1>7. /\ Fine(u.heap, u.objs, {}, {}, {id})
      /\ Uncached(g, objs, u.heap, u.objs, id, "key", {k})
      /\ IsStore(u)
  BY <1>4, <1>5, <1>6, UncacheFine
<1>8. id \in DOMAIN u.objs
  BY <1>7 DEF Uncached
<1>9. Fine(r.heap, r.objs, {}, {}, {})
  BY <1>4, <1>7, <1>8, ForgetFine
<1> QED BY <1>1, <1>9, BecomeFine DEF IInv

\* Delete(int).
LEMMA DeleteIndexStep ==
  ASSUME IInv, NEW id \in DOMAIN objs, NEW i \in Indices, DeleteIndex(id, i)
  PROVE  IInv'
<1> DEFINE f == Focus(Now, id)
           g == DeleteItemFromArray(heap, f, i)
           s == [Now EXCEPT !.heap = g]
           S == {j \in Indices : j >= i}
           u == UncacheAt(s, id, S)
           D == Nested(objs, CachedFor(objs, id, "index", S))
<1>1. Is(Now, id, "array") /\ Become(u)
  BY NowIs DEF DeleteIndex
<1>2. f = FocusOf(objs, id) /\ f # Null /\ heap[f].type = "array"
  BY <1>1, NowIs, FocusNow
<1>3. s = Store(g, objs)
  BY NowIs
<1>4. /\ g = DeleteItemFromArray(heap, f, i)
      /\ u = UncacheAt(s, id, S) /\ S = {j \in Indices : j >= i}
      /\ D = Nested(objs, CachedFor(objs, id, "index", S))
  OBVIOUS
<1> HIDE DEF f, g, s, u, D, S
<1>5. Fine(g, objs, {}, D, {id})
  BY <1>2, <1>4, DeleteIndexFine DEF IInv
<1>6. u = UncacheAt(Store(g, objs), id, S) /\ heap[FocusOf(objs, id)].type = "array"
  BY <1>2, <1>3, <1>4
<1>7. Fine(u.heap, u.objs, {}, {}, {})
  BY <1>4, <1>5, <1>6, UncacheArrayFine DEF IInv
<1> QED BY <1>1, <1>7, BecomeFine DEF IInv

\* What is cached for one name or index: it can be dropped.
LEMMA CachedForOne ==
  ASSUME NEW h, NEW o, NEW K, Fine(h, o, {}, {}, K), NEW id \in DOMAIN o, FocusOf(o, id) # Null,
         NEW what \in Kinds, NEW x, NEW C, C = Nested(o, CachedFor(o, id, what, {x}))
  PROVE  Spares(o, C, id) /\ Drops(o, C, id, what, x)
<1>1. CacheTree(o)
  BY DEF Fine, Objects
<1>2. C \subseteq DOMAIN o \ {Root} /\ CacheClosed(o, C) /\ id \in DOMAIN o \ C
  BY <1>1, CachedForBelow
<1>3. \A y \in DOMAIN Slots(o, id, what) : y \in {x} => Slots(o, id, what)[y] \in C
  BY <1>1, CachedForBelow
<1> QED BY <1>2, <1>3 DEF Spares, Drops

\* Replace(const string&, const CJsonObject&).
LEMMA ReplaceObjectStep ==
  ASSUME IInv, NEW id \in DOMAIN objs, NEW k \in OneSpelling, NEW text \in Sources, ReplaceObject(id, k, text)
  PROVE  IInv'
<1> DEFINE f == Focus(Now, id)
           a == ParsedAt(heap, text)
           p == Parsed(heap, text)
           g == ReplaceItemInObject(p, f, k, a)
           s == [Now EXCEPT !.heap = g]
           u == Uncache(s, id, k)
           D == Nested(objs, CachedFor(objs, id, "key", {k}))
<1>1. /\ Is(Now, id, "object") /\ text # NoText /\ Fits(heap, text)
      /\ Become(IF GetObjectItem(s.heap, f, k) = Null THEN s ELSE u)
  BY NowIs DEF ReplaceObject
<1>2. f = FocusOf(objs, id) /\ f # Null /\ heap[f].type = "object"
  BY <1>1, NowIs, FocusNow
<1>3. s = Store(g, objs)
  BY NowIs
<1>4. /\ a = ParsedAt(heap, text) /\ p = Parsed(heap, text) /\ g = ReplaceItemInObject(p, f, k, a)
      /\ u = Uncache(s, id, k)
      /\ D = Nested(objs, CachedFor(objs, id, "key", {k}))
  OBVIOUS
<1> HIDE DEF f, a, p, g, s, u, D
<1>5. s.heap = g /\ s.objs = objs
  BY <1>3, StoreIs
<1>6. Fine(p, objs, {a}, {}, {}) /\ \A b \in DOMAIN heap : SameList(heap, p, b)
  <2>1. WellFormed(text) /\ Allocations(heap, text) # {}
    BY <1>1, SourceWellFormed DEF Fits
  <2> QED BY <1>4, <2>1, ParsedFine DEF IInv
<1>7. p[f].type = "object"
  <2>1. f \in DOMAIN heap
    BY <1>2, FocusIn DEF IInv
  <2> QED BY <1>2, <1>6, <2>1 DEF SameList
<1>8. Spares(objs, D, id) /\ Drops(objs, D, id, "key", k)
  <2>1. "key" \in Kinds
    BY DEF Kinds
  <2> QED BY <1>2, <1>4, <2>1, CachedForOne DEF IInv
<1>9. /\ Fine(g, objs, {}, D, {})
      /\ GetObjectItem(g, f, k) = Null => GetObjectItem(p, f, k) = Null
  BY <1>2, <1>4, <1>6, <1>7, <1>8, ReplaceKeyFine
<1>10. CASE GetObjectItem(g, f, k) = Null
  <2>1. GetObjectItem(p, f, k) = Null
    BY <1>9, <1>10
  <2>2. Spares(objs, {}, id)
    BY <1>2 DEF Spares, CacheClosed
  <2>3. Fine(g, objs, {}, {}, {})
    BY <1>2, <1>4, <1>6, <1>7, <2>1, <2>2, ReplaceKeyFine
  <2>4. Become(s) /\ Fine(s.heap, s.objs, {}, {}, {})
    BY <1>1, <1>5, <1>10, <2>3
  <2> QED BY <2>4, BecomeFine DEF IInv
<1>11. CASE GetObjectItem(g, f, k) # Null
  <2>1. Become(u)
    BY <1>1, <1>5, <1>11
  <2>2. u = Uncache(Store(g, objs), id, k)
    BY <1>3, <1>4
  <2>3. Fine(u.heap, u.objs, {}, {}, {})
    BY <1>4, <1>9, <2>2, UncacheFine
  <2> QED BY <2>1, <2>3, BecomeFine DEF IInv
<1> QED BY <1>10, <1>11

\* Replace(int, const CJsonObject&).
LEMMA ReplaceIndexStep ==
  ASSUME IInv, NEW id \in DOMAIN objs, NEW i \in Indices, NEW text \in Sources, ReplaceIndex(id, i, text)
  PROVE  IInv'
<1> DEFINE f == Focus(Now, id)
           a == ParsedAt(heap, text)
           p == Parsed(heap, text)
           g == ReplaceItemInArray(p, f, i, a)
           s == [Now EXCEPT !.heap = g]
           u == UncacheAt(s, id, {i})
           D == Nested(objs, CachedFor(objs, id, "index", {i}))
<1>1. /\ Is(Now, id, "array") /\ text # NoText /\ Fits(heap, text)
      /\ Become(IF GetArrayItem(s.heap, f, i) = Null THEN s ELSE u)
  BY NowIs DEF ReplaceIndex
<1>2. f = FocusOf(objs, id) /\ f # Null /\ heap[f].type = "array"
  BY <1>1, NowIs, FocusNow
<1>3. s = Store(g, objs)
  BY NowIs
<1>4. /\ a = ParsedAt(heap, text) /\ p = Parsed(heap, text) /\ g = ReplaceItemInArray(p, f, i, a)
      /\ u = UncacheAt(s, id, {i})
      /\ D = Nested(objs, CachedFor(objs, id, "index", {i}))
  OBVIOUS
<1> HIDE DEF f, a, p, g, s, u, D
<1>5. s.heap = g /\ s.objs = objs
  BY <1>3, StoreIs
<1>6. Fine(p, objs, {a}, {}, {}) /\ \A b \in DOMAIN heap : SameList(heap, p, b)
  <2>1. WellFormed(text) /\ Allocations(heap, text) # {}
    BY <1>1, SourceWellFormed DEF Fits
  <2> QED BY <1>4, <2>1, ParsedFine DEF IInv
<1>7. p[f].type = "array"
  <2>1. f \in DOMAIN heap
    BY <1>2, FocusIn DEF IInv
  <2> QED BY <1>2, <1>6, <2>1 DEF SameList
<1>8. Spares(objs, D, id) /\ Drops(objs, D, id, "index", i)
  <2>1. "index" \in Kinds
    BY DEF Kinds
  <2> QED BY <1>2, <1>4, <2>1, CachedForOne DEF IInv
<1>9. /\ Fine(g, objs, {}, D, {id})
      /\ GetArrayItem(g, f, i) = Null => GetArrayItem(p, f, i) = Null
  BY <1>2, <1>4, <1>6, <1>7, <1>8, ReplaceIndexFine
<1>10. heap[FocusOf(objs, id)].type = "array"
  BY <1>2
<1>11. CASE GetArrayItem(g, f, i) = Null
  <2>1. GetArrayItem(p, f, i) = Null
    BY <1>9, <1>11
  <2>2. Spares(objs, {}, id)
    BY <1>2 DEF Spares, CacheClosed
  <2>3. Fine(g, objs, {}, {}, {id})
    BY <1>2, <1>4, <1>6, <1>7, <2>1, <2>2, ReplaceIndexFine
  <2>4. Fine(g, objs, {}, {}, {})
    BY <1>10, <2>3, ArrayFine DEF IInv
  <2>5. Become(s) /\ Fine(s.heap, s.objs, {}, {}, {})
    BY <1>1, <1>5, <1>11, <2>4
  <2> QED BY <2>5, BecomeFine DEF IInv
<1>12. CASE GetArrayItem(g, f, i) # Null
  <2>1. Become(u)
    BY <1>1, <1>5, <1>12
  <2>2. u = UncacheAt(Store(g, objs), id, {i})
    BY <1>3, <1>4
  <2>3. Fine(u.heap, u.objs, {}, {}, {})
    BY <1>4, <1>9, <1>10, <2>2, UncacheArrayFine DEF IInv
  <2> QED BY <2>1, <2>3, BecomeFine DEF IInv
<1> QED BY <1>11, <1>12

\* Where there was room there is room when items are gone.
LEMMA RoomLess ==
  ASSUME NEW h, Heap(h), Room(h, 1), NEW g, DOMAIN g \subseteq DOMAIN h
  PROVE  FreeAddress(g) \in Addresses /\ FreeAddress(g) \notin DOMAIN g
<1>1. FreeAddress(h) \in Addresses \ DOMAIN h
  BY RoomIs
<1>2. \E a \in Addresses : a \notin DOMAIN g
  BY <1>1
<1> QED BY <1>2 DEF FreeAddress

\* What is left of an object in which something was dropped.
LEMMA UncachedIs ==
  ASSUME NEW h, NEW o, NEW g, NEW n, NEW id, NEW what, NEW x, Uncached(h, o, g, n, id, what, {x}),
         NEW K, Fine(g, n, {}, {}, K), FocusOf(o, id) # Null
  PROVE  /\ FocusOf(n, id) = FocusOf(o, id) /\ FocusOf(o, id) \in DOMAIN g
         /\ g[FocusOf(o, id)].type = h[FocusOf(o, id)].type
         /\ Spares(n, {}, id) /\ Drops(n, {}, id, what, x)
         /\ DOMAIN g \subseteq DOMAIN h
<1>1. id \in DOMAIN n /\ FocusOf(n, id) = FocusOf(o, id)
  BY DEF Uncached, FocusOf
<1>2. FocusOf(n, id) \in DOMAIN g
  BY <1>1, FocusIn
<1>3. Spares(n, {}, id)
  BY <1>1 DEF Spares, CacheClosed
<1>4. Drops(n, {}, id, what, x)
  BY DEF Uncached, Drops
<1> QED BY <1>1, <1>2, <1>3, <1>4 DEF Uncached, Extends

\* Replace of a name by a plain value.
LEMMA ReplacePlainStep ==
  ASSUME IInv, NEW id \in DOMAIN objs, NEW k \in OneSpelling, ReplacePlain(id, k)
  PROVE  IInv'
<1> DEFINE s == Uncache(Now, id, k)
           h == s.heap
           o == s.objs
           f == Focus(s, id)
           a == FreeAddress(h)
           p == New(h, a, "plain")
           g == ReplaceItemInObject(p, f, k, a)
           r == [s EXCEPT !.heap = g]
           D == Nested(objs, CachedFor(objs, id, "key", {k}))
<1>1. Is(Now, id, "object") /\ Room(heap, 1) /\ Become(r)
  BY DEF ReplacePlain
<1>2. FocusOf(objs, id) # Null /\ heap[FocusOf(objs, id)].type = "object"
  BY <1>1, NowIs, FocusNow
<1>3. s = Uncache(Store(heap, objs), id, k) /\ D = Nested(objs, CachedFor(objs, id, "key", {k}))
  BY NowIs
<1>4. Fine(heap, objs, {}, D, {})
  <2>1. "key" \in Kinds
    BY DEF Kinds
  <2> HIDE DEF D
  <2> QED BY <1>3, <2>1, CacheDropFine DEF IInv
<1>5. /\ Fine(s.heap, s.objs, {}, {}, {})
      /\ Uncached(heap, objs, s.heap, s.objs, id, "key", {k})
      /\ IsStore(s)
  <2> HIDE DEF s, D
  <2> QED BY <1>3, <1>4, UncacheFine
<1>6. Fine(h, o, {}, {}, {}) /\ Uncached(heap, objs, h, o, id, "key", {k}) /\ s = Store(h, o)
  <2> HIDE DEF s
  <2> QED BY <1>5 DEF IsStore
<1>7. f = FocusOf(o, id) /\ r = Store(g, o)
  <2>1. r = Store(g, o)
    <3> HIDE DEF s, g
    <3> QED BY <1>6, StoreIs
  <2>2. Focus(s, id) = FocusOf(s.objs, id)
    <3> HIDE DEF s
    <3> QED BY <1>5, FocusNow
  <2> QED BY <2>1, <2>2
<1>8. a = FreeAddress(h) /\ p = New(h, a, "plain") /\ g = ReplaceItemInObject(p, f, k, a)
  OBVIOUS
<1> HIDE DEF s, h, o, f, a, p, g, r, D
<1>9. /\ FocusOf(o, id) = FocusOf(objs, id) /\ FocusOf(objs, id) \in DOMAIN h
      /\ h[FocusOf(objs, id)].type = heap[FocusOf(objs, id)].type
      /\ Spares(o, {}, id) /\ Drops(o, {}, id, "key", k)
      /\ DOMAIN h \subseteq DOMAIN heap
  BY <1>2, <1>6, UncachedIs
<1>10. f \in DOMAIN h /\ h[f].type = "object" /\ id \in DOMAIN o
  BY <1>2, <1>7, <1>9 DEF Spares
<1>11. a \in Addresses /\ a \notin DOMAIN h
  BY <1>1, <1>8, <1>9, RoomLess DEF IInv, Fine
<1>12. Fine(p, o, {a}, {}, {}) /\ \A b \in DOMAIN h : SameList(h, p, b)
  BY <1>6, <1>8, <1>11, NewFine
<1>13. p[f].type = "object"
  BY <1>10, <1>12 DEF SameList
<1>14. Fine(g, o, {}, {}, {})
  BY <1>7, <1>8, <1>9, <1>10, <1>12, <1>13, ReplaceKeyFine
<1>15. Fine(r.heap, r.objs, {}, {}, {})
  BY <1>7, <1>14, StoreIs
<1> QED BY <1>1, <1>15, BecomeFine DEF IInv

\* Replace at an index by a plain value.
LEMMA ReplaceIndexPlainStep ==
  ASSUME IInv, NEW id \in DOMAIN objs, NEW i \in Indices, ReplaceIndexPlain(id, i)
  PROVE  IInv'
<1> DEFINE s == UncacheAt(Now, id, {i})
           h == s.heap
           o == s.objs
           f == Focus(s, id)
           a == FreeAddress(h)
           p == New(h, a, "plain")
           g == ReplaceItemInArray(p, f, i, a)
           r == [s EXCEPT !.heap = g]
           D == Nested(objs, CachedFor(objs, id, "index", {i}))
<1>1. Is(Now, id, "array") /\ Room(heap, 1) /\ Become(r)
  BY DEF ReplaceIndexPlain
<1>2. FocusOf(objs, id) # Null /\ heap[FocusOf(objs, id)].type = "array"
  BY <1>1, NowIs, FocusNow
<1>3. s = UncacheAt(Store(heap, objs), id, {i}) /\ D = Nested(objs, CachedFor(objs, id, "index", {i}))
  BY NowIs
<1>4. Fine(heap, objs, {}, D, {})
  <2>1. "index" \in Kinds
    BY DEF Kinds
  <2> HIDE DEF D
  <2> QED BY <1>3, <2>1, CacheDropFine DEF IInv
<1>5. /\ Fine(s.heap, s.objs, {}, {}, {})
      /\ Uncached(heap, objs, s.heap, s.objs, id, "index", {i})
      /\ IsStore(s)
  <2> HIDE DEF s, D
  <2> QED BY <1>3, <1>4, UncacheAtFine
<1>6. Fine(h, o, {}, {}, {}) /\ Uncached(heap, objs, h, o, id, "index", {i}) /\ s = Store(h, o)
  <2> HIDE DEF s
  <2> QED BY <1>5 DEF IsStore
<1>7. f = FocusOf(o, id) /\ r = Store(g, o)
  <2>1. r = Store(g, o)
    <3> HIDE DEF s, g
    <3> QED BY <1>6, StoreIs
  <2>2. Focus(s, id) = FocusOf(s.objs, id)
    <3> HIDE DEF s
    <3> QED BY <1>5, FocusNow
  <2> QED BY <2>1, <2>2
<1>8. a = FreeAddress(h) /\ p = New(h, a, "plain") /\ g = ReplaceItemInArray(p, f, i, a)
  OBVIOUS
<1> HIDE DEF s, h, o, f, a, p, g, r, D
<1>9. /\ FocusOf(o, id) = FocusOf(objs, id) /\ FocusOf(objs, id) \in DOMAIN h
      /\ h[FocusOf(objs, id)].type = heap[FocusOf(objs, id)].type
      /\ Spares(o, {}, id) /\ Drops(o, {}, id, "index", i)
      /\ DOMAIN h \subseteq DOMAIN heap
  BY <1>2, <1>6, UncachedIs
<1>10. f \in DOMAIN h /\ h[f].type = "array" /\ id \in DOMAIN o
  BY <1>2, <1>7, <1>9 DEF Spares
<1>11. a \in Addresses /\ a \notin DOMAIN h
  BY <1>1, <1>8, <1>9, RoomLess DEF IInv, Fine
<1>12. Fine(p, o, {a}, {}, {}) /\ \A b \in DOMAIN h : SameList(h, p, b)
  BY <1>6, <1>8, <1>11, NewFine
<1>13. p[f].type = "array"
  BY <1>10, <1>12 DEF SameList
<1>14. Fine(g, o, {}, {}, {id})
  BY <1>7, <1>8, <1>9, <1>10, <1>12, <1>13, ReplaceIndexFine
<1>15. h[FocusOf(o, id)].type = "array"
  BY <1>7, <1>10
<1>16. Fine(g, o, {}, {}, {})
  BY <1>6, <1>10, <1>14, <1>15, ArrayFine
<1>17. Fine(r.heap, r.objs, {}, {}, {})
  BY <1>7, <1>16, StoreIs
<1> QED BY <1>1, <1>17, BecomeFine DEF IInv

\* The names of the members are listed, and the position is within the list.
LEMMA NamesListed ==
  ASSUME NEW h, Heap(h), NEW f, NEW keys, keys = [j \in DOMAIN Members(h, f) |-> h[Members(h, f)[j]].name]
  PROVE  Len(keys) \in Nat /\ [j \in DOMAIN keys |-> Fold(keys[j])] = NamesIn(h, f)
<1>1. GetArraySize(h, f) \in Nat
  BY FiniteHeap, ListedFinite, FS_CardinalityType DEF GetArraySize
<1>2. DOMAIN Members(h, f) = 1..GetArraySize(h, f)
  BY DEF Members
<1>3. keys = [j \in 1..GetArraySize(h, f) |-> h[Members(h, f)[j]].name]
  BY <1>2
<1>4. Len(keys) = GetArraySize(h, f)
  BY <1>1, <1>3
<1>5. [j \in DOMAIN keys |-> Fold(keys[j])] = NamesIn(h, f)
  BY DEF NamesIn
<1> QED BY <1>1, <1>4, <1>5

\* Only the list of names of Root and the position in it change.
LEMMA TraversedFine ==
  ASSUME IInv, NEW keys, NEW it, objs' = [objs EXCEPT ![Root].keys = keys, ![Root].it = it],
         heap' = heap, KeysGood(heap, objs', Root)
  PROVE  IInv'
<1> DEFINE n == objs'
<1>1. \A p \in DOMAIN objs : IsObject(objs[p])
  BY DEF IInv, Fine, Objects
<1>2. Root \in DOMAIN objs
  BY DEF IInv, Fine, Objects, CacheTree
<1>3. /\ DOMAIN n = DOMAIN objs /\ \A p \in DOMAIN objs \ {Root} : n[p] = objs[p]
      /\ DOMAIN n[Root] = DOMAIN objs[Root] /\ n[Root].own = objs[Root].own /\ n[Root].ext = objs[Root].ext
      /\ n[Root].byKey = objs[Root].byKey /\ n[Root].byIndex = objs[Root].byIndex
      /\ n[Root].found = objs[Root].found
  BY <1>1, <1>2 DEF IsObject
<1> HIDE DEF n
<1>4. \A p \in DOMAIN objs : /\ IsObject(n[p]) /\ n[p].own = objs[p].own /\ n[p].ext = objs[p].ext
                             /\ n[p].byKey = objs[p].byKey /\ n[p].byIndex = objs[p].byIndex
                             /\ n[p].found = objs[p].found
  <2> SUFFICES ASSUME NEW p \in DOMAIN objs
               PROVE  /\ IsObject(n[p]) /\ n[p].own = objs[p].own /\ n[p].ext = objs[p].ext
                      /\ n[p].byKey = objs[p].byKey /\ n[p].byIndex = objs[p].byIndex
                      /\ n[p].found = objs[p].found
    OBVIOUS
  <2>1. CASE p = Root
    BY <1>1, <1>3, <2>1 DEF IsObject
  <2>2. CASE p # Root
    BY <1>1, <1>3, <2>2
  <2> QED BY <2>1, <2>2
<1>5. ASSUME NEW p \in DOMAIN objs \ ({} \cup {}) PROVE KeysGood(heap, n, p)
  <2>1. CASE p = Root
    BY <2>1 DEF n
  <2>2. CASE p # Root
    <3>1. KeysGood(heap, objs, p) /\ n[p] = objs[p]
      BY <1>3, <2>2 DEF IInv, Fine
    <3> QED BY <3>1 DEF KeysGood, FocusOf
  <2> QED BY <2>1, <2>2
<1>6. Fine(heap, n, {}, {}, {})
  BY <1>3, <1>4, <1>5, KeysFine DEF IInv
<1> QED BY <1>6 DEF IInv, n

\* GetKey.
LEMMA TraverseStep ==
  ASSUME IInv, NEW id \in DOMAIN objs, Traverse(id)
  PROVE  IInv'
<1>1. id = Root /\ KeysGood(heap, objs, Root) /\ IsObject(objs[Root])
  BY DEF Traverse, IInv, Fine, Objects, CacheTree
<1>2. CASE GetKey(id)
  <2> DEFINE f == FocusOf(objs, Root)
             m == Members(heap, f)
             names == [j \in DOMAIN m |-> heap[m[j]].name]
             keys == IF objs[Root].keys = <<>> THEN names ELSE objs[Root].keys
             at == IF objs[Root].keys = <<>> THEN 1 ELSE objs[Root].it
             it == IF at = Len(keys) + 1 THEN 1 ELSE at + 1
  <2>0. GetKey(Root)
    BY <1>1, <1>2
  <2>1. f # Null /\ heap[f].type # "array"
    <3>1. Focus(Now, Root) # Null /\ ~Is(Now, Root, "array")
      BY <2>0 DEF GetKey
    <3>2. /\ Focus(Now, Root) = FocusOf(objs, Root)
          /\ \A type : Is(Now, Root, type) <=>
               FocusOf(objs, Root) # Null /\ heap[FocusOf(objs, Root)].type = type
      BY NowIs, FocusNow
    <3> QED BY <3>1, <3>2
  <2>2. objs' = [objs EXCEPT ![Root].keys = keys, ![Root].it = it] /\ heap' = heap
    <3>1. Focus(Now, Root) = f
      BY NowIs, FocusNow
    <3> QED BY <2>0, <3>1 DEF GetKey
  <2>3. Len(names) \in Nat /\ [j \in DOMAIN names |-> Fold(names[j])] = NamesIn(heap, f)
    <3>1. Heap(heap)
      BY DEF IInv, Fine
    <3>2. names = [j \in DOMAIN Members(heap, f) |-> heap[Members(heap, f)[j]].name]
      OBVIOUS
    <3> HIDE DEF names, f
    <3> QED BY <3>1, <3>2, NamesListed
  <2>4. /\ Len(keys) \in Nat /\ at \in 1..Len(keys) + 1
        /\ [j \in DOMAIN keys |-> Fold(keys[j])] = NamesIn(heap, f)
    <3> HIDE DEF names, f
    <3>1. CASE objs[Root].keys = <<>>
      BY <2>3, <3>1
    <3>2. CASE objs[Root].keys # <<>>
      BY <1>1, <3>2 DEF KeysGood, f
    <3> QED BY <3>1, <3>2
  <2>5. it \in 1..Len(keys) + 1
    <3> HIDE DEF keys, at
    <3> QED BY <2>4
  <2> HIDE DEF f, keys, at, it, m, names
  <2>6. KeysGood(heap, objs', Root)
    <3> DEFINE n == objs'
    <3>1. n[Root].own = objs[Root].own /\ n[Root].ext = objs[Root].ext /\ n[Root].keys = keys /\ n[Root].it = it
      BY <1>1, <2>2 DEF IsObject
    <3> HIDE DEF n
    <3>2. FocusOf(n, Root) = f
      BY <3>1 DEF FocusOf, f
    <3>3. KeysGood(heap, n, Root)
      BY <2>1, <2>4, <2>5, <3>1, <3>2 DEF KeysGood
    <3> QED BY <3>3 DEF n
  <2> QED BY <2>2, <2>6, TraversedFine
<1>3. CASE ResetTraversing(id)
  <2>1. objs' = [objs EXCEPT ![Root].it = 1] /\ heap' = heap
    BY <1>1, <1>3 DEF ResetTraversing
  <2>2. objs' = [objs EXCEPT ![Root].keys = objs[Root].keys, ![Root].it = 1]
    BY <1>1, <2>1 DEF IsObject
  <2>3. KeysGood(heap, objs', Root)
    <3> DEFINE n == objs'
    <3>1. n[Root].own = objs[Root].own /\ n[Root].ext = objs[Root].ext
          /\ n[Root].keys = objs[Root].keys /\ n[Root].it = 1
      BY <1>1, <2>1 DEF IsObject
    <3> HIDE DEF n
    <3>2. FocusOf(n, Root) = FocusOf(objs, Root)
      BY <3>1 DEF FocusOf
    <3>3. KeysGood(heap, n, Root)
      BY <1>1, <3>1, <3>2 DEF KeysGood
    <3> QED BY <3>3 DEF n
  <2> QED BY <2>1, <2>2, <2>3, TraversedFine
<1> QED BY <1>2, <1>3 DEF Traverse

\* Before the program does anything there are no items and one empty object.
LEMMA InitFine == Init => IInv
<1> SUFFICES ASSUME Init PROVE IInv
  OBVIOUS
<1>1. DOMAIN heap = {}
  BY DEF Init, Nothing
<1>2. DOMAIN objs = {Root} /\ objs[Root] = Empty
  BY DEF Init
<1>3. /\ Empty.own = Null /\ Empty.ext = Null /\ DOMAIN Empty.byKey = {} /\ DOMAIN Empty.byIndex = {}
      /\ Empty.keys = <<>> /\ {"own", "ext", "byKey", "byIndex", "keys", "it", "found"} \subseteq DOMAIN Empty
  BY DEF Empty, Nothing
<1>4. FocusOf(objs, Root) = Null /\ \A kind \in Kinds : DOMAIN Slots(objs, Root, kind) = {}
  BY <1>2, <1>3 DEF FocusOf, Slots, Kinds
<1>5. Owned(objs) = {}
  BY <1>2, <1>3 DEF Owned
<1>6. Forest(heap, Owned(objs) \cup {})
  <2>1. Linked(heap) /\ Rooted(heap, {})
    BY <1>1 DEF Linked, Fields, Rooted
  <2>2. Reach(heap, {}) = {}
    BY <1>1, ReachClosed
  <2>3. Owned(objs) \cup {} = {}
    BY <1>5
  <2>4. Forest(heap, {})
    BY <1>1, <2>1, <2>2 DEF Forest
  <2> QED BY <2>3, <2>4
<1>7. Heap(heap)
  BY <1>1 DEF Heap, Items
<1>8. CacheTree(objs)
  <2>1. {Root} \cap DOMAIN objs \subseteq Nested(objs, {Root}) /\ Nested(objs, {Root}) \subseteq DOMAIN objs
    BY NestedIs
  <2>2. Nested(objs, {Root}) = DOMAIN objs
    BY <1>2, <2>1
  <2> QED BY <1>2, <1>4, <2>2 DEF CacheTree
<1>9. Objects(objs)
  <2>1. IsObject(Empty)
    BY <1>3 DEF IsObject
  <2>2. Root \in Ids
    BY JsonObjectAssumption DEF Root, Ids
  <2> QED BY <1>2, <1>3, <1>8, <2>1, <2>2 DEF Objects
<1>10. CacheClosed(objs, {}) /\ FocusOnce(objs, {}) /\ CoherentBut(heap, objs, {})
  BY <1>2, <1>4 DEF CacheClosed, FocusOnce, CoherentBut
<1>11. \A p \in DOMAIN objs : KeysGood(heap, objs, p)
  BY <1>2, <1>3 DEF KeysGood
<1> QED BY <1>5, <1>6, <1>7, <1>9, <1>10, <1>11 DEF IInv, Fine

\* Every operation keeps the invariant.
LEMMA NextFine ==
  ASSUME ~ShiftCached, IInv, [Next]_vars
  PROVE  IInv'
<1>1. CASE UNCHANGED vars
  BY <1>1 DEF vars, IInv
<1>2. ASSUME NEW id \in DOMAIN objs, Traverse(id) PROVE IInv'
  BY <1>2, TraverseStep
<1>3. ASSUME NEW id \in DOMAIN objs, KeyStep(id) PROVE IInv'
  <2>1. ASSUME NEW k \in OneSpelling, LookUpKey(id, k) \/ DeleteKey(id, k) \/ ReplacePlain(id, k) PROVE IInv'
    BY <2>1, LookUpKeyStep, DeleteKeyStep, ReplacePlainStep
  <2>2. ASSUME NEW k \in Names, NEW type \in {"plain", "object", "array"}, AddPlain(id, k, type) PROVE IInv'
    BY <2>2, AddPlainStep
  <2> QED BY <1>3, <2>1, <2>2 DEF KeyStep
<1>4. ASSUME NEW id \in DOMAIN objs, IndexStep(id) PROVE IInv'
  <2>1. ASSUME NEW i \in Indices, LookUpIndex(id, i) \/ DeleteIndex(id, i) \/ ReplaceIndexPlain(id, i) PROVE IInv'
    BY <2>1, LookUpIndexStep, DeleteIndexStep, ReplaceIndexPlainStep
  <2> QED BY <1>4, <2>1, AppendPlainStep, PrependPlainStep DEF IndexStep
<1>5. ASSUME NEW text \in Sources, NEW id \in DOMAIN objs, TextStep(id, text) PROVE IInv'
  <2>1. ASSUME NEW k \in Names, AddObject(id, k, text) PROVE IInv'
    BY <2>1, AddObjectStep
  <2>2. ASSUME NEW k \in OneSpelling, ReplaceObject(id, k, text) PROVE IInv'
    BY <2>2, ReplaceObjectStep
  <2>3. ASSUME NEW i \in Indices, ReplaceIndex(id, i, text) PROVE IInv'
    BY <2>3, ReplaceIndexStep
  <2> QED BY <1>5, <2>1, <2>2, <2>3, ParseStep, AppendObjectStep, PrependObjectStep DEF TextStep
<1> QED BY <1>1, <1>2, <1>3, <1>4, <1>5 DEF Next

\* The roots are the items of the owners.
LEMMA FineLinked == IInv => ListsLinked
<1> SUFFICES ASSUME IInv PROVE ListsLinked
  OBVIOUS
<1>1. Forest(heap, Owned(objs) \cup {})
  BY DEF IInv, Fine
<1>2. Owned(objs) \cup {} = {objs[id].own : id \in Owners}
  BY DEF Owned, Owners
<1>3. \A id, other \in Owners : objs[id].own = objs[other].own => id = other
  BY DEF IInv, Fine, Objects, Owners
<1> QED BY <1>1, <1>2, <1>3 DEF ListsLinked

\* What is cached was made for what is found, if all that is cached counts.
LEMMA FineCoherent ==
  ASSUME ~AddMissed
  PROVE  IInv => Coherent
<1> SUFFICES ASSUME IInv, NEW id \in DOMAIN objs
             PROVE  /\ \A k \in DOMAIN objs[id].byKey :
                         LET c == objs[id].byKey[k]
                             item == ItemOfKey(id, k)
                         IN c \in DOMAIN objs /\ objs[c].found = item /\ objs[c].ext \in {Null, item}
                    /\ \A i \in DOMAIN objs[id].byIndex :
                         LET c == objs[id].byIndex[i]
                             item == ItemOfIndex(id, i)
                         IN c \in DOMAIN objs /\ objs[c].found = item /\ objs[c].ext \in {Null, item}
  BY DEF Coherent
<1>1. Objects(objs) /\ CacheTree(objs) /\ CoherentBut(heap, objs, {})
  BY DEF IInv, Fine, Objects
<1>2. ASSUME NEW kind \in Kinds, NEW x \in DOMAIN Slots(objs, id, kind)
      PROVE  LET c == Slots(objs, id, kind)[x]
                 item == ItemFor(heap, FocusOf(objs, id), kind, x)
             IN c \in DOMAIN objs /\ objs[c].found = item /\ objs[c].ext \in {Null, item}
  <2> DEFINE c == Slots(objs, id, kind)[x]
  <2>1. c \in DOMAIN objs
    BY <1>1 DEF CacheTree
  <2>2. objs[c].found = ItemFor(heap, FocusOf(objs, id), kind, x)
    BY <1>1 DEF CoherentBut, Counts
  <2>3. objs[c].ext \in {Null, objs[c].found}
    BY <1>1, <2>1 DEF Objects, IsObject
  <2> QED BY <2>1, <2>2, <2>3
<1>3. "key" \in Kinds /\ "index" \in Kinds
      /\ Slots(objs, id, "key") = objs[id].byKey /\ Slots(objs, id, "index") = objs[id].byIndex
  BY DEF Kinds, Slots
<1> QED BY <1>2, <1>3, ItemOfIs

\* And the names are the members' names.
LEMMA FineKeys == IInv => KeysFresh
<1> SUFFICES ASSUME IInv, NEW id \in DOMAIN objs, objs[id].keys # <<>>
             PROVE  LET m == Members(heap, Focus(Now, id))
                        o == objs[id]
                    IN /\ o.it \in 1..Len(o.keys) + 1
                       /\ [j \in DOMAIN o.keys |-> Fold(o.keys[j])] = [j \in DOMAIN m |-> Fold(heap[m[j]].name)]
  BY DEF KeysFresh
<1>1. KeysGood(heap, objs, id)
  BY DEF IInv, Fine
<1>2. Focus(Now, id) = FocusOf(objs, id)
  BY NowIs, FocusNow
<1> QED BY <1>1, <1>2 DEF KeysGood, NamesIn

\* The invariant holds in every state.
LEMMA AlwaysFine ==
  ASSUME ~ShiftCached
  PROVE  Spec => []IInv
<1>1. IInv /\ [Next]_vars => IInv'
  BY NextFine
<1> QED BY InitFine, <1>1, PTL DEF Spec

\* CJsonObject hands cJSON only items that are in the heap, and keeps, deletes and
\* replaces them such that every list stays doubly linked, no item is in two lists or
\* below itself, and no item is owned by two objects or lost (but the new one of a
\* Replace that finds nothing, which the model forgets): for any number of items and
\* objects and any names and texts, when no two spellings of one name are used and
\* AddAsFirst of a plain value is not called while elements are cached.
THEOREM ObjectsListsLinked ==
  ASSUME ~ShiftCached
  PROVE  Spec => []ListsLinked
BY AlwaysFine, FineLinked, PTL

\* Each object that operator[] has cached it would make again for the same item, or
\* again for none, if it were called now; none refers to an item that has been freed
\* or is elsewhere, or stays empty where a member has come, whatever was added,
\* deleted or replaced since.  That is so under the same conditions and when the
\* program adds nothing where a look-up found nothing, other than by Add of an object
\* under the very name it looked up.
THEOREM ObjectsCoherent ==
  ASSUME ~ShiftCached, ~AddMissed
  PROVE  Spec => []Coherent
BY AlwaysFine, FineCoherent, PTL

\* The names that GetKey goes through are those of the members as they are now, in
\* their order: whatever changes the members has cleared the list; under the same
\* conditions.
THEOREM ObjectsKeysFresh ==
  ASSUME ~ShiftCached
  PROVE  Spec => []KeysFresh
BY AlwaysFine, FineKeys, PTL
===============================================================================
