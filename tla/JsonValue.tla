------------------------------- MODULE JsonValue -------------------------------
(***************************************************************************)
(* The values of JSON as cJSON parses, prints and stores them and as       *)
(* CJsonObject hands them in and out.  One object's value, doc, is parsed  *)
(* from a text that comes in token by token, or built by calls of Add,     *)
(* AddAsFirst and Replace; it may be copied, that is printed and parsed    *)
(* (operator=), again and again.  Objects within objects are JsonObject's. *)
(*                                                                         *)
(* A text is a sequence of tokens; spaces and the indentation of           *)
(* cJSON_Print are left out.  A string is a sequence of character codes,   *)
(* and its token has them escaped.  Integers have Bits64 and Bits32 bits.  *)
(* A double is a number of ticks, Unit of which are 1; of these %f keeps   *)
(* multiples of Step, as it keeps six decimals.  Of an integer a double    *)
(* and a float keep the first DoubleBits and FloatBits bits, as they keep  *)
(* 53 and 24.                                                              *)
(*                                                                         *)
(* Left out are numbers for which a cast in the code is undefined, doubles *)
(* that a float cannot hold and surrogate pairs.                           *)
(***************************************************************************)
EXTENDS Integers, Sequences, SequencesExt, FiniteSetsExt, FiniteSets

CONSTANTS Bits32, Bits64, DoubleBits, FloatBits, Unit, Step,
          Tokens,         \* the tokens of a text from outside
          MaxText,        \* bound: tokens of such a text
          MaxMembers,     \* bound: members of an object that is built
          Names,          \* names of its members
          Ints,           \* the integers stored, of whatever type
          Reals,          \* ticks of the doubles stored
          Strings         \* the strings stored

ASSUME JsonValueAssumption == /\ 1 < Bits32 /\ Bits32 < Bits64
                              /\ FloatBits \in 1..Bits32 - 1 /\ DoubleBits \in Bits32 + 1..Bits64 - 1
                              /\ Step % 2 = 1 /\ Unit % Step = 0

VARIABLES text,           \* what has come in of a text
          doc,            \* the value of m_pJsonData
          stored          \* what each member of doc was given

vars == <<text, doc, stored>>

-------------------------------------------------------------------------------
\* Integers of each type, and what a cast to one of them makes of any.
Kinds == {"int32", "uint32", "int64", "uint64"}

Signed(kind) == kind \in {"int32", "int64"}

Size(kind) == 2 ^ (IF kind \in {"int32", "uint32"} THEN Bits32 ELSE Bits64)

RangeOf(kind) == IF Signed(kind) THEN -(Size(kind) \div 2)..(Size(kind) \div 2) - 1
                 ELSE 0..Size(kind) - 1

Cast(n, kind) == CHOOSE m \in RangeOf(kind) : (m - n) % Size(kind) = 0

Rounded(ticks) == CHOOSE r \in (ticks - Step)..(ticks + Step) :
                    r % Step = 0 /\ 2 * (r - ticks) \in -Step..Step

\* The number with no more than so many significant bits that is nearest to n, and
\* of two as near the one with the last bit 0.
Nearest(n, bits) ==
  LET e == CHOOSE e \in 0..Bits64 : n < 2 ^ (bits + e) /\ (e > 0 => n >= 2 ^ (bits + e - 1))
      m == CHOOSE m \in {n \div 2 ^ e, n \div 2 ^ e + 1} :
             LET off == 2 * (m * 2 ^ e - n)
             IN off \in 1 - 2 ^ e..2 ^ e - 1 \/ (off \in {-(2 ^ e), 2 ^ e} /\ m % 2 = 0)
  IN m * 2 ^ e

-------------------------------------------------------------------------------
\* cJSON items; an array or object has members.  bits is valueint and real is
\* valuedouble.
Item(type) == [type |-> type, name |-> <<>>, str |-> <<>>, bits |-> 0, sign |-> 0,
               real |-> 0, members |-> <<>>]

Nothing == Item("nothing")

CreateInt(n, sign) == [Item("int") EXCEPT !.bits = Cast(n, "uint64"), !.sign = sign]
CreateDouble(ticks) == [Item("double") EXCEPT !.real = ticks, !.sign = -1]
CreateString(s) == [Item("string") EXCEPT !.str = s]

\* A token of text: its kind and, of a string or a number, what it says.
Token(t, v) == [t |-> t, v |-> v]
Mark(t) == Token(t, <<>>)

\* Characters and the letters that stand for them after a backslash; those
\* after "u" are taken as one.
Backslash == 92
Quote == 34
LetterU == 117
Letters == {<<8, 98>>, <<12, 102>>, <<10, 110>>, <<13, 114>>, <<9, 116>>,
            <<Quote, Quote>>, <<Backslash, Backslash>>}

\* Faulty variant: a backslash is printed as it is.
EscapeLess(c) ==
  IF \E p \in Letters : p[1] = c /\ c # Backslash
  THEN <<Backslash, (CHOOSE p \in Letters : p[1] = c)[2]>>
  ELSE IF c < 32 THEN <<Backslash, LetterU, c>> ELSE <<c>>

Escape(c) ==
  IF \E p \in Letters : p[1] = c
  THEN <<Backslash, (CHOOSE p \in Letters : p[1] = c)[2]>>
  ELSE IF c < 32 THEN <<Backslash, LetterU, c>> ELSE <<c>>

PrintString(s) == Token("str", FlattenSeq([j \in DOMAIN s |-> Escape(s[j])]))

\* \u0000 is dropped; of an unknown escape the backslash.
RECURSIVE ParseString(_)
ParseString(s) ==
  IF s = <<>> THEN <<>>
  ELSE IF s[1] # Backslash THEN <<s[1]>> \o ParseString(Tail(s))
  ELSE IF s[2] = LetterU
       THEN (IF s[3] = 0 THEN <<>> ELSE <<s[3]>>) \o ParseString(SubSeq(s, 4, Len(s)))
       ELSE LET from == {p \in Letters : p[2] = s[2]}
            IN <<IF from = {} THEN s[2] ELSE (CHOOSE p \in from : TRUE)[1]>>
                 \o ParseString(SubSeq(s, 3, Len(s)))

ParseNumber(token) ==
  LET n == token.v[1]
      sign == IF n < 0 THEN -1 ELSE 1
  IN IF token.t = "int" THEN CreateInt(n, sign)
     ELSE [CreateDouble(n) EXCEPT !.sign = sign]

\* Faulty variant: a signed integer is always printed with %d.
DigitsNarrow(item) ==
  IF item.sign = -1 THEN Cast(item.bits, "int32")
  ELSE IF item.bits \in RangeOf("uint32") THEN Cast(item.bits, "uint32") ELSE item.bits

\* What an integer's text says: with %d or %lld if it is signed, else %u or %llu.
Digits(item) ==
  LET n == Cast(item.bits, "int64")
  IN IF item.sign = -1
     THEN IF n \in RangeOf("int32") THEN Cast(item.bits, "int32") ELSE n
     ELSE IF item.bits \in RangeOf("uint32") THEN Cast(item.bits, "uint32") ELSE item.bits

PrintInt(item) == Token("int", <<Digits(item)>>)

PrintDouble(item) == Token("real", <<Rounded(item.real)>>)

-------------------------------------------------------------------------------
\* print_value

Commas(parts) == FlattenSeq([j \in DOMAIN parts |->
                               IF j = 1 THEN parts[j] ELSE <<Mark(",")>> \o parts[j]])

RECURSIVE PrintValue(_)
PrintArray(item) ==
  <<Mark("[")>> \o Commas([j \in DOMAIN item.members |-> PrintValue(item.members[j])]) \o <<Mark("]")>>

PrintObject(item) ==
  <<Mark("{")>> \o Commas([j \in DOMAIN item.members |->
                             <<PrintString(item.members[j].name), Mark(":")>> \o PrintValue(item.members[j])])
    \o <<Mark("}")>>

PrintValue(item) == CASE item.type = "int"    -> <<PrintInt(item)>>
                      [] item.type = "double" -> <<PrintDouble(item)>>
                      [] item.type = "string" -> <<PrintString(item.str)>>
                      [] item.type = "array"  -> PrintArray(item)
                      [] item.type = "object" -> PrintObject(item)
                      [] OTHER                -> <<Mark(item.type)>>

-------------------------------------------------------------------------------
\* parse_value, parse_array and parse_object of the text x from token i on: at
\* is the token after the value, or 0 and then ep is where it went wrong.  An
\* unterminated string, "open", is taken as if the text went on with a quote.

Tok(x, i) == IF i \in DOMAIN x THEN x[i].t ELSE "end"

Done(i, item) == [at |-> i, item |-> item, ep |-> 0]
Fail(i) == [at |-> 0, item |-> Nothing, ep |-> i]

\* What follows a member.
Rest(x, r, type, close, members, More(_, _, _)) ==
  LET all == Append(members, r.item)
      next == Tok(x, r.at)
  IN CASE r.at = 0     -> Fail(r.ep)
       [] next = ","   -> More(x, r.at + 1, all)
       [] next = close -> Done(r.at + 1, [Item(type) EXCEPT !.members = all])
       [] OTHER        -> Fail(r.at)

RECURSIVE ParseValue(_, _), ParseElements(_, _, _), ParseMembers(_, _, _)

\* Faulty variant: "]" may follow a comma.
ParseElementsLax(x, i, done) ==
  IF Tok(x, i) = "]" THEN Done(i + 1, [Item("array") EXCEPT !.members = done])
  ELSE Rest(x, ParseValue(x, i), "array", "]", done, ParseElements)

ParseElements(x, i, done) == Rest(x, ParseValue(x, i), "array", "]", done, ParseElements)

ParseMembers(x, i, done) ==
  IF Tok(x, i) \notin {"str", "open"} THEN Fail(i)
  ELSE IF Tok(x, i + 1) # ":" THEN Fail(i + 1)
  ELSE LET r == ParseValue(x, i + 2)
           named == [r EXCEPT !.item.name = ParseString(x[i].v)]
       IN Rest(x, named, "object", "}", done, ParseMembers)

ParseValue(x, i) ==
  LET t == Tok(x, i)
  IN CASE t \in {"null", "true", "false"} -> Done(i + 1, Item(t))
       [] t \in {"str", "open"}           -> Done(i + 1, CreateString(ParseString(x[i].v)))
       [] t \in {"int", "real"}           -> Done(i + 1, ParseNumber(x[i]))
       [] t = "[" -> IF Tok(x, i + 1) = "]" THEN Done(i + 2, Item("array"))
                     ELSE ParseElements(x, i + 1, <<>>)
       [] t = "{" -> IF Tok(x, i + 1) = "}" THEN Done(i + 2, Item("object"))
                     ELSE ParseMembers(x, i + 1, <<>>)
       [] OTHER   -> Fail(i)

\* cJSON_Parse; what follows the value is not looked at.
Parse(x) == ParseValue(x, 1)

-------------------------------------------------------------------------------
\* Building an object's value.  A given value is remembered in stored with its
\* kind and whether AddAsFirst took it.

Given(kind, v, first) == [kind |-> kind, v |-> v, first |-> first]

SignOf(kind) == IF Signed(kind) THEN -1 ELSE 1

\* Text, doubles, booleans and null.
Others == {Given("double", <<ticks>>, FALSE) : ticks \in Reals}
            \cup {Given("string", s, FALSE) : s \in Strings}
            \cup {Given(t, <<>>, FALSE) : t \in {"true", "false", "null"}}

CreateOther(g) == CASE g.kind = "double" -> CreateDouble(g.v[1])
                    [] g.kind = "string" -> CreateString(g.v)
                    [] OTHER             -> Item(g.kind)

Opened(type) == IF doc = Nothing THEN Item(type) ELSE doc

\* The positions of the first member with each name.
Firsts == {j \in DOMAIN doc.members : \A h \in 1..j - 1 : doc.members[h].name # doc.members[j].name}

Add(d, item, g) ==
  /\ Len(d.members) < MaxMembers
  /\ doc' = [d EXCEPT !.members = Append(@, item)]
  /\ stored' = Append(stored, g)

AddHead(d, item, g) ==
  /\ Len(d.members) < MaxMembers
  /\ doc' = [d EXCEPT !.members = <<item>> \o @]
  /\ stored' = <<[g EXCEPT !.first = TRUE]>> \o stored

Replace(j, item, g) ==
  /\ doc' = [doc EXCEPT !.members[j] = [item EXCEPT !.name = doc.members[j].name]]
  /\ stored' = [stored EXCEPT ![j] = g]

AddKey(k, item, g) == /\ Opened("object").type = "object"
                      /\ Add(Opened("object"), [item EXCEPT !.name = k], g)

AddKeyInt(k, n, kind) == AddKey(k, CreateInt(n, SignOf(kind)), Given(kind, <<n>>, FALSE))

AddKeyOther(k, g) == AddKey(k, CreateOther(g), g)

ReplaceKey(k, item, g) == /\ doc.type = "object"
                          /\ \E j \in Firsts : doc.members[j].name = k /\ Replace(j, item, g)

ReplaceKeyInt(k, n, kind) == ReplaceKey(k, CreateInt(n, SignOf(kind)), Given(kind, <<n>>, FALSE))

ReplaceKeyOther(k, g) == ReplaceKey(k, CreateOther(g), g)

AppendInt(n, kind) == /\ Opened("array").type = "array"
                      /\ Add(Opened("array"), CreateInt(n, SignOf(kind)), Given(kind, <<n>>, FALSE))

AppendOther(g) == /\ Opened("array").type = "array"
                  /\ Add(Opened("array"), CreateOther(g), g)

\* AddAsFirst gives every integer the sign of a signed one.
FirstInt(n, kind) == /\ Opened("array").type = "array"
                     /\ AddHead(Opened("array"), CreateInt(n, -1), Given(kind, <<n>>, FALSE))

FirstOther(g) == /\ Opened("array").type = "array"
                 /\ AddHead(Opened("array"), CreateOther(g), g)

ReplaceIndexInt(j, n, kind) == /\ doc.type = "array"
                               /\ Replace(j, CreateInt(n, SignOf(kind)), Given(kind, <<n>>, FALSE))

ReplaceIndexOther(j, g) == /\ doc.type = "array"
                           /\ Replace(j, CreateOther(g), g)

-------------------------------------------------------------------------------
\* What Get and operator() make of an item; <<>> if they refuse.

Truncated(ticks) == IF ticks < 0 THEN -((-ticks) \div Unit) ELSE ticks \div Unit

AsInt(item, kind) == CASE item.type = "int"    -> <<Cast(item.bits, kind)>>
                       [] item.type = "double" -> <<Truncated(item.real)>>
                       [] OTHER                -> <<>>

AsReal(item, bits) == CASE item.type = "double" -> <<item.real>>
                        [] item.type = "int"    -> <<Unit * Nearest(item.bits, bits)>>
                        [] OTHER                -> <<>>

AsDouble(item) == AsReal(item, DoubleBits)

AsFloat(item) == AsReal(item, FloatBits)

AsString(item) == IF item.type = "string" THEN <<item.str>> ELSE <<>>

AsBool(item) == IF item.type \in {"true", "false"} THEN <<item.type = "true">> ELSE <<>>

\* operator(): a double is formatted and then not returned.
Shown(item) == IF item.type = "int" THEN <<Digits(item)>> ELSE <<>>

Named(k) == LET at == {j \in Firsts : doc.members[j].name = k}
            IN IF doc.type = "object" /\ at # {} THEN doc.members[CHOOSE j \in at : TRUE] ELSE Nothing

Element(i) == IF doc.type = "array" /\ i + 1 \in DOMAIN doc.members THEN doc.members[i + 1] ELSE Nothing

GetKeyInt(k, kind) == AsInt(Named(k), kind)
GetKeyDouble(k) == AsDouble(Named(k))
GetKeyFloat(k) == AsFloat(Named(k))
GetKeyString(k) == AsString(Named(k))
GetIndexInt(i, kind) == AsInt(Element(i), kind)
GetIndexDouble(i) == AsDouble(Element(i))
GetIndexFloat(i) == AsFloat(Element(i))
GetIndexString(i) == AsString(Element(i))
ShownKey(k) == Shown(Named(k))
ShownIndex(i) == Shown(Element(i))

-------------------------------------------------------------------------------
\* The grammar of RFC 8259 as a machine with a stack: in state top, the token t
\* is allowed and leads on to the states push.

Rule(top, t, push) == [top |-> top, t |-> t, push |-> push]

ValueRules == {Rule("value", t, <<>>) : t \in {"null", "true", "false", "int", "real", "str", "open"}}
                \cup {Rule("value", "[", <<"first element">>), Rule("value", "{", <<"first member">>)}

Rules == ValueRules
           \cup {Rule("first element", r.t, r.push \o <<"elements">>) : r \in ValueRules}
           \cup {Rule("first element", "]", <<>>), Rule("elements", "]", <<>>),
                 Rule("elements", ",", <<"value", "elements">>),
                 Rule("first member", "}", <<>>), Rule("members", "}", <<>>),
                 Rule("members", ",", <<"name", "members">>), Rule("colon", ":", <<>>)}
           \cup {Rule("name", t, <<"colon", "value">>) : t \in {"str", "open"}}
           \cup {Rule("first member", t, <<"colon", "value", "members">>) : t \in {"str", "open"}}

Stuck == <<"stuck">>

\* What is to come after the first n tokens of x.
RECURSIVE Left(_, _)
Left(x, n) ==
  IF n = 0 THEN <<"value">>
  ELSE LET s == Left(x, n - 1)
           allowed == {r \in Rules : s # <<>> /\ r.top = s[1] /\ r.t = x[n].t}
       IN IF s = <<>> THEN <<>>
          ELSE IF allowed = {} THEN Stuck
          ELSE (CHOOSE r \in allowed : TRUE).push \o Tail(s)

\* How many tokens of x the value it starts with has, or could have had.
Taken(x) == Cardinality({n \in DOMAIN x : Left(x, n - 1) # <<>> /\ Left(x, n) # Stuck})

-------------------------------------------------------------------------------
Init == /\ text = <<>>
        /\ doc = Nothing
        /\ stored = <<>>

\* A text goes on until the parser cannot but have decided, and one token more.
\* Nothing follows a string that is not terminated.
Write(token) ==
  /\ doc = Nothing
  /\ Len(text) < MaxText
  /\ text # <<>> => /\ Left(text, Len(text) - 1) \notin {<<>>, Stuck}
                    /\ text[Len(text)].t # "open"
  /\ text' = Append(text, token)
  /\ UNCHANGED <<doc, stored>>

\* Parse of an object that is empty.
ParseText ==
  /\ doc = Nothing /\ text # <<>>
  /\ doc' = Parse(text).item
  /\ UNCHANGED <<text, stored>>

\* operator= and the copy constructor: ToString and Parse.
Copy ==
  /\ doc # Nothing
  /\ doc' = Parse(PrintValue(doc)).item
  /\ UNCHANGED <<text, stored>>

BuildInt(n, kind) ==
  \/ \E k \in Names : AddKeyInt(k, n, kind) \/ ReplaceKeyInt(k, n, kind)
  \/ AppendInt(n, kind)
  \/ FirstInt(n, kind)
  \/ \E j \in DOMAIN stored : ReplaceIndexInt(j, n, kind)

BuildOther(g) ==
  \/ \E k \in Names : AddKeyOther(k, g) \/ ReplaceKeyOther(k, g)
  \/ AppendOther(g)
  \/ FirstOther(g)
  \/ \E j \in DOMAIN stored : ReplaceIndexOther(j, g)

Build ==
  /\ text = <<>> /\ UNCHANGED text
  /\ \/ \E kind \in Kinds : \E n \in Ints \cap RangeOf(kind) : BuildInt(n, kind)
     \/ \E g \in Others : BuildOther(g)

Next == \/ \E token \in Tokens : Write(token)
        \/ ParseText
        \/ Copy
        \/ Build

Spec == Init /\ [][Next]_vars

-------------------------------------------------------------------------------
\* The parser accepts a text exactly if it starts with a value by the grammar,
\* takes that and no more, and reads what it says; otherwise it leaves ep at the
\* first token with which no value can go on (cJSON.c:517 and 628), from which
\* CJsonObject::Parse makes its message.
ParseExact ==
  LET r == Parse(text)
      n == Taken(text)
      Closed(token) == IF token.t = "open" THEN [token EXCEPT !.t = "str"] ELSE token
  IN IF Left(text, n) = <<>>
     THEN /\ r.at = n + 1 /\ r.ep = 0
          /\ PrintValue(r.item) = [j \in 1..n |-> Closed(text[j])]
     ELSE r.at = 0 /\ r.ep = n + 1

\* The item apart from the sign, which only serves printing, and from the part
\* of a double that its text leaves out.
RECURSIVE Kept(_)
Kept(item) == [item EXCEPT !.sign = 0, !.real = Rounded(@),
                           !.members = [j \in DOMAIN @ |-> Kept(@[j])]]

\* A copy is taken by way of text, and is equal to what was copied: every type,
\* name, string and number comes through the escapes (cJSON.c:323) and formats.
\* operator==, which compares texts, says so too.
CopyEqual ==
  doc # Nothing => LET r == Parse(PrintValue(doc))
                   IN /\ r.at # 0
                      /\ Kept(r.item) = Kept(doc)
                      /\ PrintValue(r.item) = PrintValue(doc)

\* r is one of the integers with no more than so many significant bits, and none
\* of them is nearer to n: it is n if that is one of them.
Close(r, n, bits) ==
  LET held == {m * 2 ^ e : m \in 0..2 ^ bits, e \in 0..Bits64 - bits}
  IN \E c \in held : /\ r = <<Unit * c>>
                     /\ \A d \in held : (c - n) * (c - n) <= (d - n) * (d - n)

\* Whatever overload stored a value and however often it was copied, each Get
\* whose type can hold it returns it, and operator() shows an integer as it is
\* (cJSON.c:117 and 182).  Three exceptions the code has: Get into a double or a
\* float rounds an integer of more than 53 or 24 bits (CJsonObject.cpp:829 and
\* 795); neither looks at the sign of an integer; and AddAsFirst stores an
\* unsigned integer as a signed one, so that operator() and the text show a
\* negative number for one of 2^63 or more (CJsonObject.cpp:2791).
ValuesKept ==
  \A j \in DOMAIN stored \cap (IF doc.type = "object" THEN Firsts ELSE DOMAIN doc.members) :
    LET g == stored[j]
        k == doc.members[j].name
        object == doc.type = "object"
        real == IF object THEN GetKeyDouble(k) ELSE GetIndexDouble(j - 1)
        float == IF object THEN GetKeyFloat(k) ELSE GetIndexFloat(j - 1)
        str == IF object THEN GetKeyString(k) ELSE GetIndexString(j - 1)
        shown == IF object THEN ShownKey(k) ELSE ShownIndex(j - 1)
    IN CASE g.kind \in Kinds ->
              /\ \A kind \in Kinds :
                   g.v[1] \in RangeOf(kind) =>
                     g.v = IF object THEN GetKeyInt(k, kind) ELSE GetIndexInt(j - 1, kind)
              /\ g.v[1] >= 0 => Close(real, g.v[1], DoubleBits) /\ Close(float, g.v[1], FloatBits)
              /\ (g.first => g.v[1] \in RangeOf("int64")) => shown = g.v
         [] g.kind = "double" -> real # <<>> /\ 2 * (real[1] - g.v[1]) \in -Step..Step /\ float = real
         [] g.kind = "string" -> str = <<g.v>>
         [] OTHER -> AsBool(doc.members[j]) = IF g.kind = "null" THEN <<>> ELSE <<g.kind = "true">>
=================================================================================
