------------------------------ MODULE MCJsonValue ------------------------------
EXTENDS JsonValue

\* One token of each kind: an integer, a double, a string with an escaped
\* quote, one that is not terminated, a letter that starts no value.  The
\* literals come in with Copy.
MCTokens == {Mark(t) : t \in {"{", "}", "[", "]", ",", ":", "bad"}}
              \cup {Token("int", <<-3>>), Token("real", <<-9>>),
                    Token("str", <<92, 34>>), Token("open", <<98>>)}

\* Values at the ends of the four types and some between.  A double rounds 9 down
\* and 15 up, a float those and 3.
MCInts == {-8, -2, -1, 1, 3, 8, 9, 15}

\* Two doubles that %f rounds, one up and one down.
MCReals == {-7, 5}

\* The empty string; a letter, a control character and a quote; a
\* backslash and a letter that would make a line feed of it.
MCStrings == {<<>>, <<97, 1, 34>>, <<92, 110>>}

\* The same backslash in a name, and another name.
MCNames == {<<92, 110>>, <<98>>}
=================================================================================
