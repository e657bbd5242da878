------------------------------ MODULE MCQuery ------------------------------
(* An instance of Query for TLC. *)
EXTENDS Query

\* The marks, another character, the keywords, names and arguments, and what only
\* Rust reads whole: "\n", "a\"b", r"q", the letter e acute, 1_000
Tokens ==
  {Mark(c) : c \in {"{", "}", "(", ")", ",", ":", "@"}}
    \cup {Word(w) : w \in {"a", "as", "skip", "after"}}
    \cup {<<"alnum", "a1">>, <<"quoted", "q">>, <<"open", "q">>, <<"number", "5">>, <<"huge", "9">>}
    \cup {<<"escaped", "newline", "backslash n">>, <<"inner", "a quote b", "a backslash">>,
          <<"raw", "q", "r">>, <<"foreign", "e acute", "byte 195">>, <<"grouped", "1000", "1">>}

\* Nothing, `{ a`, `{ a as q`, `{ a (skip: 5`, `{ a (skip: 5, after:`, `{ a { a` and
\* `{ a as q { a }`
Starts ==
  LET a == <<Mark("{"), Word("a")>>
      aliased == a \o <<Word("as"), <<"quoted", "q">>>>
      skip == a \o <<Mark("("), Word("skip"), Mark(":"), <<"number", "5">>>>
  IN  {<<>>, a, aliased, skip, skip \o <<Mark(","), Word("after"), Mark(":")>>,
       a \o a, aliased \o a \o <<Mark("}")>>}

=============================================================================
