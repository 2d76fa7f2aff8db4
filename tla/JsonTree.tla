-------------------------------- MODULE JsonTree --------------------------------
(***************************************************************************)
(* The items of cJSON (cJSON.h, cJSON.c) as members of arrays and objects: *)
(* which one an operation of JsonLinks is applied to, by position or by    *)
(* name, and what an item is as a text and is made from one.  A heap h is  *)
(* a function from the addresses in use to items.                          *)
(*                                                                         *)
(* An item's value is abstracted to its type.  malloc never fails, and no  *)
(* item is a reference (cJSON_IsReference), as CJsonObject makes none.     *)
(***************************************************************************)
EXTENDS JsonLinks, Integers, FiniteSets, Sequences

CONSTANTS MaxItems,       \* bound: addresses an item may have
          Fold(_)         \* a name in lower case

Addresses == 1..MaxItems

Room(h, n) == Cardinality(Addresses \ DOMAIN h) >= n

FreeAddress(h) == CHOOSE a \in Addresses : a \notin DOMAIN h

-------------------------------------------------------------------------------
\* The members of a as far as c.
UpTo(h, a, c) == {d \in Listed(h, a) : c \in Onward(h, d)}

GetArraySize(h, a) == Cardinality(Listed(h, a))

\* The item at position i or the null pointer; an index below 0 counts as 0.
GetArrayItem(h, a, i) ==
  LET at == {c \in Listed(h, a) : Cardinality(UpTo(h, a, c)) = (IF i < 0 THEN 0 ELSE i) + 1}
  IN IF at = {} THEN Null ELSE CHOOSE c \in at : TRUE

Members(h, a) == [j \in 1..GetArraySize(h, a) |-> GetArrayItem(h, a, j - 1)]

\* The first member with the name k or the null pointer.
GetObjectItem(h, a, k) ==
  LET named == {c \in Listed(h, a) : Fold(h[c].name) = Fold(k)}
      first == {c \in named : named \subseteq Onward(h, c)}
  IN IF first = {} THEN Null ELSE CHOOSE c \in first : TRUE

-------------------------------------------------------------------------------
SetName(h, c, k) == [h EXCEPT ![c].name = k]

AddItemToArray(h, a, item) ==
  IF h[a].child = Null
  THEN SetChild(h, a, item)
  ELSE suffix_object(h, CHOOSE c \in Listed(h, a) : h[c].next = Null, item)

AddItemToObject(h, a, k, item) == AddItemToArray(SetName(h, item, k), a, item)

\* c was looked up among the members of a.
DeleteItem(h, a, c) == IF c = Null THEN h ELSE Delete(Detach(h, a, c), c)

DeleteItemFromArray(h, a, i) == DeleteItem(h, a, GetArrayItem(h, a, i))

DeleteItemFromObject(h, a, k) == DeleteItem(h, a, GetObjectItem(h, a, k))

\* Nothing refers to the new item any more if there is none to replace; the
\* code does not free it, the model forgets it.
Substitute(h, a, c, item) == IF c = Null THEN Delete(h, item) ELSE ReplaceItem(h, a, c, item)

ReplaceItemInArray(h, a, i, item) == Substitute(h, a, GetArrayItem(h, a, i), item)

ReplaceItemInObject(h, a, k, item) ==
  Substitute(SetName(h, item, k), a, GetObjectItem(h, a, k), item)

-------------------------------------------------------------------------------
\* A text says which items there are and how they belong together, not where they
\* are: it is the items of a value wherever they may be, and which is the first.
\* What cJSON_Print of item c says.
Tree(h, c) == {c} \cup Reach(h, {h[c].child})

TextOf(h, c) ==
  [root |-> c,
   items |-> [x \in Tree(h, c) |->
                [type |-> h[x].type,
                 name |-> IF x = c THEN NoName ELSE h[x].name,
                 next |-> IF x = c THEN Null ELSE h[x].next,
                 prev |-> IF x = c THEN Null ELSE h[x].prev,
                 child |-> h[x].child]]]

Items(h) == \A c \in DOMAIN h : {"type", "name", "next", "prev", "child"} \subseteq DOMAIN h[c]

WellFormed(text) == Forest(text.items, {text.root}) /\ Items(text.items)

\* Where malloc may put the items of a text.
Allocations(h, text) == Injection(DOMAIN text.items, Addresses \ DOMAIN h)

Allocated(h, text) == CHOOSE p \in Allocations(h, text) : TRUE

\* cJSON_Parse of a text that is well formed: its items, linked in the same way,
\* and where the first is.
Parsed(h, text) ==
  LET p == Allocated(h, text)
      At(c) == IF c = Null THEN Null ELSE p[c]
      Copy(i) == [type |-> i.type, name |-> i.name,
                  next |-> At(i.next), prev |-> At(i.prev), child |-> At(i.child)]
  IN [x \in DOMAIN h \cup Range(p) |->
        IF x \in DOMAIN h THEN h[x]
        ELSE Copy(text.items[CHOOSE c \in DOMAIN p : p[c] = x])]

ParsedAt(h, text) == Allocated(h, text)[text.root]
=================================================================================
