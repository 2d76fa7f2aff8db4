------------------------------- MODULE JsonObject -------------------------------
(***************************************************************************)
(* CJsonObject (CJsonObject.hpp, CJsonObject.cpp) over the items of cJSON: *)
(* one object made by the program, Root, and the objects that operator[]   *)
(* makes, keeps in m_mapJsonObjectRef or m_mapJsonArrayRef and returns by  *)
(* reference.  An object has items of its own or refers to an item among   *)
(* those of the object it was made by.                                     *)
(*                                                                         *)
(* The program may call any operation of any object that exists.  Of a     *)
(* value the model keeps the type and the members; each overload of Add,   *)
(* AddAsFirst and Replace for text, numbers, booleans or null is "Plain".  *)
(* Four things the code does not guard against are left to the caller: see *)
(* OneSpelling, ShiftCached, AddMissed and Indices.                        *)
(***************************************************************************)
EXTENDS JsonTree

CONSTANTS Names,          \* names of members
          OneSpelling,    \* those used with [], Delete and Replace: one of those
                          \* that strcasecmp takes for the same
          Indices,        \* the indices used; none is below 0
          ShiftCached,    \* whether AddAsFirst of a plain value is called while
                          \* elements are cached
          AddMissed,      \* whether something is added where a look-up has found
                          \* nothing, by an overload that keeps what that cached
          Docs,           \* values that the program has the text of
          NoText,         \* the text of an empty object; no JSON
          MaxObjects,     \* bound: objects that exist at a time
          MaxOwned,       \* bound: own items of an object that is cached
          MaxTraversed    \* bound: members Root has when its names are traversed

\* No item is at the null pointer, no index is below 0, the names used for an
\* object are not two spellings of one, and a text that is JSON has the items of
\* one value.
ASSUME JsonObjectAssumption ==
  /\ MaxItems \in Nat /\ MaxObjects \in Nat \ {0}
  /\ Null \notin Addresses
  /\ Indices \subseteq Nat
  /\ \A k, l \in OneSpelling : Fold(k) = Fold(l) => k = l
  /\ \A text \in Docs : text = NoText \/ WellFormed(text)

VARIABLES heap,           \* the items
          objs            \* the objects

vars == <<heap, objs>>

Root == 1

Ids == 1..MaxObjects

\* own is m_pJsonData, ext m_pExternJsonDataRef; byKey and byIndex are the maps
\* of cached objects; keys is m_listKeys and it the position of m_itKey, which
\* clearing the list leaves Dangling.  found is no member of the class: it
\* records the item, if any, that operator[] made the object for.  No step
\* depends on it.
Dangling == 0

Nothing == [k \in {} |-> Null]

Empty == [own |-> Null, ext |-> Null, byKey |-> Nothing, byIndex |-> Nothing,
          keys |-> <<>>, it |-> Dangling, found |-> Null]

Init == /\ heap = Nothing
        /\ objs = [id \in {Root} |-> Empty]

-------------------------------------------------------------------------------
\* Items and objects together, as the operations below pass them on.
Store(h, o) == [heap |-> h, objs |-> o]

Now == Store(heap, objs)

\* The heap is written out item by item for TLC to compute it at once, and not
\* only when an item is looked at.
Become(result) == \E s \in {result} : /\ heap' = [c \in DOMAIN s.heap |-> s.heap[c]]
                                      /\ objs' = s.objs

Focus(s, id) == IF s.objs[id].own # Null THEN s.objs[id].own ELSE s.objs[id].ext

Is(s, id, type) == Focus(s, id) # Null /\ s.heap[Focus(s, id)].type = type

\* The first lines of every Add: an empty object becomes {} or [].
Opened(s, id, type) ==
  IF Focus(s, id) # Null THEN s
  ELSE LET a == FreeAddress(s.heap)
       IN Store(New(s.heap, a, type), [s.objs EXCEPT ![id].own = a])

With(f, k, v) == [j \in DOMAIN f \cup {k} |-> IF j = k THEN v ELSE f[j]]

Without(f, S) == Restrict(f, DOMAIN f \ S)

Cached(o, id) == Range(o[id].byKey) \cup Range(o[id].byIndex)

\* The objects ids and all those cached in them or below.
Nested(o, ids) == Reachable([id \in DOMAIN o |-> Cached(o, id)], ids)

\* delete of the objects ids.
Discard(s, ids) ==
  LET gone == Nested(s.objs, ids)
      freed == UNION {Freed(s.heap, s.objs[id].own) : id \in gone}
  IN Store(Without(s.heap, freed), Without(s.objs, gone))

\* Delete, erase and forget what is cached for the name k.
Uncache(s, id, k) ==
  LET c == s.objs[id].byKey
      d == Discard(s, {c[j] : j \in DOMAIN c \cap {k}})
  IN [d EXCEPT !.objs[id].byKey = Without(c, {k})]

\* The same for the indices S.
UncacheAt(s, id, S) ==
  LET c == s.objs[id].byIndex
      d == Discard(s, {c[j] : j \in DOMAIN c \cap S})
  IN [d EXCEPT !.objs[id].byIndex = Without(c, S)]

ForgetKeys(s, id) == [s EXCEPT !.objs[id].keys = <<>>, !.objs[id].it = Dangling]

Cleared(s, id) ==
  LET c == s.objs[id]
      d == Discard(s, Cached(s.objs, id))
  IN Store(Delete(d.heap, c.own), [d.objs EXCEPT ![id] = [Empty EXCEPT !.found = c.found]])

\* The texts the program may hand over: some of its own, and what ToString or
\* Get makes of an item that exists.
Sources == Docs \cup {NoText} \cup {TextOf(heap, c) : c \in DOMAIN heap}

Fits(h, text) == text # NoText => Allocations(h, text) # {}

-------------------------------------------------------------------------------
\* operator[]: the object cached, else a new one for the item found, which is
\* empty if none is.

FreeId == CHOOSE id \in Ids : id \notin DOMAIN objs

ItemOfKey(id, k) == IF Is(Now, id, "object") THEN GetObjectItem(heap, Focus(Now, id), k) ELSE Null

ItemOfIndex(id, i) == IF Is(Now, id, "array") THEN GetArrayItem(heap, Focus(Now, id), i) ELSE Null

Referring(item) == [Empty EXCEPT !.ext = item, !.found = item]

LookUpKey(id, k) ==
  /\ k \notin DOMAIN objs[id].byKey
  /\ DOMAIN objs # Ids
  /\ objs' = With([objs EXCEPT ![id].byKey = With(@, k, FreeId)], FreeId, Referring(ItemOfKey(id, k)))
  /\ UNCHANGED heap

LookUpIndex(id, i) ==
  /\ i \notin DOMAIN objs[id].byIndex
  /\ DOMAIN objs # Ids
  /\ objs' = With([objs EXCEPT ![id].byIndex = With(@, i, FreeId)], FreeId, Referring(ItemOfIndex(id, i)))
  /\ UNCHANGED heap

-------------------------------------------------------------------------------
\* Parse, operator=, the copying Get and Clear: the text is taken first, and the
\* object is left empty if it is no JSON.

Parse(id, text) ==
  /\ LET s == Cleared(Now, id)
     IN /\ Fits(s.heap, text)
        /\ Become(IF text = NoText THEN s
                  ELSE Store(Parsed(s.heap, text),
                             [s.objs EXCEPT ![id].own = ParsedAt(s.heap, text)]))

-------------------------------------------------------------------------------
\* Members of an object.

\* The names cached in id for which nothing is there and that k would be found by.
Missed(s, id, k) ==
  {j \in DOMAIN s.objs[id].byKey :
     Fold(j) = Fold(k) /\ GetObjectItem(s.heap, Focus(s, id), j) = Null}

\* Faulty variant: what is cached for the name stays.
AddObjectKept(id, k, text) ==
  LET s == Opened(Now, id, "object")
      a == ParsedAt(s.heap, text)
      added == [s EXCEPT !.heap = AddItemToObject(Parsed(@, text), Focus(s, id), k, a)]
  IN /\ Room(heap, 1)
     /\ AddMissed \/ Missed(s, id, k) \subseteq {k}
     /\ Fits(s.heap, text)
     /\ Become(IF ~Is(s, id, "object") \/ text = NoText THEN s ELSE ForgetKeys(added, id))

\* Add(key, object); if the text is no JSON the object has still become {}.  What
\* is cached for exactly this name goes.
AddObject(id, k, text) ==
  LET s == Opened(Now, id, "object")
      a == ParsedAt(s.heap, text)
      added == [s EXCEPT !.heap = AddItemToObject(Parsed(@, text), Focus(s, id), k, a)]
  IN /\ Room(heap, 1)
     /\ AddMissed \/ Missed(s, id, k) \subseteq {k}
     /\ Fits(s.heap, text)
     /\ Become(IF ~Is(s, id, "object") \/ text = NoText THEN s
               ELSE ForgetKeys(Uncache(added, id, k), id))

\* AddEmptySubObject, AddEmptySubArray and the other overloads of Add(key, ...):
\* what is cached stays, and if nothing was there for k, operator[] goes on
\* returning the empty object it made for that.
AddPlain(id, k, type) ==
  LET s == Opened(Now, id, "object")
      a == FreeAddress(s.heap)
      added == [s EXCEPT !.heap = AddItemToObject(New(@, a, type), Focus(s, id), k, a)]
  IN /\ Room(heap, 2)
     /\ AddMissed \/ Missed(s, id, k) = {}
     /\ Become(IF Is(s, id, "object") THEN ForgetKeys(added, id) ELSE s)

\* Faulty variant: m_listKeys is left alone.
DeleteKeyOnly(id, k) ==
  /\ Is(Now, id, "object")
  /\ Become(Uncache([Now EXCEPT !.heap = DeleteItemFromObject(@, Focus(Now, id), k)], id, k))

DeleteKey(id, k) ==
  /\ Is(Now, id, "object")
  /\ LET s == [Now EXCEPT !.heap = DeleteItemFromObject(@, Focus(Now, id), k)]
     IN Become(ForgetKeys(Uncache(s, id, k), id))

\* Replace(key, object): what is cached is kept if there was nothing to replace.
ReplaceObject(id, k, text) ==
  /\ Is(Now, id, "object") /\ text # NoText
  /\ Fits(heap, text)
  /\ LET f == Focus(Now, id)
         a == ParsedAt(heap, text)
         s == [Now EXCEPT !.heap = ReplaceItemInObject(Parsed(@, text), f, k, a)]
     IN Become(IF GetObjectItem(s.heap, f, k) = Null THEN s ELSE Uncache(s, id, k))

\* The other overloads of Replace(key, ...): what is cached goes first.
ReplacePlain(id, k) ==
  /\ Is(Now, id, "object")
  /\ Room(heap, 1)
  /\ LET s == Uncache(Now, id, k)
         a == FreeAddress(s.heap)
     IN Become([s EXCEPT !.heap = ReplaceItemInObject(New(@, a, "plain"), Focus(s, id), k, a)])

-------------------------------------------------------------------------------
\* Traversing the names of the members.

GetKey(id) ==
  /\ Focus(Now, id) # Null /\ ~Is(Now, id, "array")
  /\ LET m == Members(heap, Focus(Now, id))
         o == objs[id]
         keys == IF o.keys = <<>> THEN [j \in DOMAIN m |-> heap[m[j]].name] ELSE o.keys
         it == IF o.keys = <<>> THEN 1 ELSE o.it
     IN objs' = [objs EXCEPT ![id].keys = keys,
                             ![id].it = IF it = Len(keys) + 1 THEN 1 ELSE it + 1]
  /\ UNCHANGED heap

ResetTraversing(id) == /\ objs' = [objs EXCEPT ![id].it = 1]
                       /\ UNCHANGED heap

-------------------------------------------------------------------------------
\* Elements of an array.

\* Add(object): of what is cached the index of the new element and those after
\* it go.
AppendObject(id, text) ==
  LET s == Opened(Now, id, "array")
      f == Focus(s, id)
      a == ParsedAt(s.heap, text)
      added == [s EXCEPT !.heap = AddItemToArray(Parsed(@, text), f, a)]
      last == GetArraySize(added.heap, f) - 1
  IN /\ Room(heap, 1)
     /\ Fits(s.heap, text)
     /\ Become(IF ~Is(s, id, "array") \/ text = NoText THEN s
               ELSE UncacheAt(added, id, {i \in Indices : i >= last}))

\* The other overloads of Add for an array: what is cached stays, an empty object
\* made for the index of the new element too.
AppendPlain(id) ==
  LET s == Opened(Now, id, "array")
      a == FreeAddress(s.heap)
  IN /\ Room(heap, 2)
     /\ AddMissed \/ GetArraySize(s.heap, Focus(s, id)) \notin DOMAIN objs[id].byIndex
     /\ Become(IF ~Is(s, id, "array") THEN s
               ELSE [s EXCEPT !.heap = AddItemToArray(New(@, a, "plain"), Focus(s, id), a)])

\* AddAsFirst(object): all that is cached goes.
PrependObject(id, text) ==
  LET s == Opened(Now, id, "array")
      a == ParsedAt(s.heap, text)
      added == [s EXCEPT !.heap = AddItemToArrayHead(Parsed(@, text), Focus(s, id), a)]
  IN /\ Room(heap, 1)
     /\ Fits(s.heap, text)
     /\ Become(IF ~Is(s, id, "array") \/ text = NoText THEN s
               ELSE UncacheAt(added, id, Indices))

\* The other overloads of AddAsFirst; what is cached stays, for the element
\* before.
PrependPlain(id) ==
  LET s == Opened(Now, id, "array")
      a == FreeAddress(s.heap)
  IN /\ ShiftCached \/ DOMAIN objs[id].byIndex = {}
     /\ Room(heap, 2)
     /\ Become(IF ~Is(s, id, "array") THEN s
               ELSE [s EXCEPT !.heap = AddItemToArrayHead(New(@, a, "plain"), Focus(s, id), a)])

\* Delete(index): what is cached from there on goes, as the elements move up.
DeleteIndex(id, i) ==
  /\ Is(Now, id, "array")
  /\ LET s == [Now EXCEPT !.heap = DeleteItemFromArray(@, Focus(Now, id), i)]
     IN Become(UncacheAt(s, id, {j \in Indices : j >= i}))

ReplaceIndex(id, i, text) ==
  /\ Is(Now, id, "array") /\ text # NoText
  /\ Fits(heap, text)
  /\ LET f == Focus(Now, id)
         a == ParsedAt(heap, text)
         s == [Now EXCEPT !.heap = ReplaceItemInArray(Parsed(@, text), f, i, a)]
     IN Become(IF GetArrayItem(s.heap, f, i) = Null THEN s ELSE UncacheAt(s, id, {i}))

ReplaceIndexPlain(id, i) ==
  /\ Is(Now, id, "array")
  /\ Room(heap, 1)
  /\ LET s == UncacheAt(Now, id, {i})
         a == FreeAddress(s.heap)
     IN Become([s EXCEPT !.heap = ReplaceItemInArray(New(@, a, "plain"), Focus(s, id), i, a)])

-------------------------------------------------------------------------------
Traverse(id) ==
  /\ id = Root
  /\ Focus(Now, id) # Null => GetArraySize(heap, Focus(Now, id)) <= MaxTraversed
  /\ GetKey(id) \/ ResetTraversing(id)

KeyStep(id) ==
  \/ \E k \in OneSpelling : LookUpKey(id, k) \/ DeleteKey(id, k) \/ ReplacePlain(id, k)
  \/ \E k \in Names, type \in {"plain", "object", "array"} : AddPlain(id, k, type)

IndexStep(id) ==
  \/ AppendPlain(id)
  \/ PrependPlain(id)
  \/ \E i \in Indices : LookUpIndex(id, i) \/ DeleteIndex(id, i) \/ ReplaceIndexPlain(id, i)

TextStep(id, text) ==
  \/ Parse(id, text)
  \/ \E k \in Names : AddObject(id, k, text)
  \/ \E k \in OneSpelling : ReplaceObject(id, k, text)
  \/ AppendObject(id, text)
  \/ PrependObject(id, text)
  \/ \E i \in Indices : ReplaceIndex(id, i, text)

Next == /\ \/ \E id \in DOMAIN objs : Traverse(id) \/ KeyStep(id) \/ IndexStep(id)
           \/ \E text \in Sources, id \in DOMAIN objs : TextStep(id, text)
        /\ \A h \in {heap'}, o \in {objs'} :
             \A id \in DOMAIN o \ {Root} : Cardinality(Freed(h, o[id].own)) <= MaxOwned

Spec == Init /\ [][Next]_vars

-------------------------------------------------------------------------------
\* Every item is in the tree of one object that exists, once: no edit frees an
\* item that is still linked, shares one or loses one; next, prev and child
\* say the same (cJSON.c:847, 884 and 920).
Owners == {id \in DOMAIN objs : objs[id].own # Null}

ListsLinked ==
  /\ Forest(heap, {objs[id].own : id \in Owners})
  /\ \A id, other \in Owners : objs[id].own = objs[other].own => id = other

\* For each object in a cache operator[] would find now, if the cache were empty,
\* what it found when it made the object: the same item, or again none.  So the
\* object refers to no item that was freed or has moved, and none that was made
\* for nothing is returned where there is something.  Each edit has dropped what
\* it made stale (CJsonObject.cpp:902, 1307, 2146 and 2996), also in the objects
\* cached below.  An object that was cleared or parsed since refers to nothing.
Coherent ==
  LET UpToDate(c, item) == /\ c \in DOMAIN objs
                           /\ objs[c].found = item
                           /\ objs[c].ext \in {Null, item}
  IN \A id \in DOMAIN objs :
       /\ \A k \in DOMAIN objs[id].byKey : UpToDate(objs[id].byKey[k], ItemOfKey(id, k))
       /\ \A i \in DOMAIN objs[id].byIndex : UpToDate(objs[id].byIndex[i], ItemOfIndex(id, i))

\* GetKey enumerates the members there are, in whatever way they changed since
\* the last call, and never goes on from a position in a list that was cleared
\* (CJsonObject.cpp:141).  Replace may change the case of a name.
KeysFresh ==
  \A id \in DOMAIN objs :
    objs[id].keys # <<>> =>
      LET m == Members(heap, Focus(Now, id))
          o == objs[id]
      IN /\ o.it \in 1..Len(o.keys) + 1
         /\ [j \in DOMAIN o.keys |-> Fold(o.keys[j])] = [j \in DOMAIN m |-> Fold(heap[m[j]].name)]
=================================================================================
