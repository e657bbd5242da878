------------------------------- MODULE Query -------------------------------
(***************************************************************************)
(* Queries: the recursive-descent parser of src/query/parse.rs and the     *)
(* query! macro of src/query/mod.rs, reading the same text.                *)
(*                                                                         *)
(* The text is a sequence of tokens <<kind, text>>, typed one by one;      *)
(* white space, which skip_ws drops between any two, is left out.  Kinds:  *)
(* "mark" is one of the marks of the grammar or another character, "word"  *)
(* a bare word of letters, "alnum" one with digits in it, "quoted" a       *)
(* quoted string, "open" one whose closing quote is missing, "number"      *)
(* digits, "huge" digits beyond usize::MAX.                                *)
(*                                                                         *)
(* Other tokens of Rust are typed too, which the parser, knowing neither   *)
(* escapes nor Rust's literals, takes for something else.  They carry what *)
(* they mean in Rust and, third, the bytes the parser reads first:         *)
(* "escaped" is a string with an escape, "inner" one with an escaped       *)
(* quote, "raw" is r"...", "foreign" a name outside ASCII, "grouped" a     *)
(* number with an underscore, a suffix or another base.                    *)
(***************************************************************************)
EXTENDS Naturals, SequencesExt

CONSTANTS Token,       \* tokens that are typed
          Start,       \* texts that typing starts from
          MaxTyped     \* bound: tokens typed after one of those

VARIABLE input         \* the text typed so far

Mark(c) == <<"mark", c>>
Word(w) == <<"word", w>>

-----------------------------------------------------------------------------
(* The two readings of a token *)

RustReads(token) ==
  CASE token[1] \in {"escaped", "inner", "raw"} -> <<"quoted", token[2]>>
    [] token[1] = "foreign" -> <<"alnum", token[2]>>
    [] token[1] = "grouped" -> <<"number", token[2]>>
    [] OTHER -> token

\* The tokens that the bytes are to the parser.  parse_quoted_string ends at the
\* first quote, escaped or not, and what the last quote then opens has no end;
\* parse_bare_word and parse_number end at the first byte that is not theirs
ParserReads(token) ==
  CASE token[1] = "escaped" -> <<<<"quoted", token[3]>>>>
    [] token[1] = "inner" -> <<<<"quoted", token[3]>>, Word("rest"), <<"open", "">>>>
    [] token[1] = "raw" -> <<Word(token[3]), <<"quoted", token[2]>>>>
    [] token[1] = "foreign" -> <<Mark(token[3])>>
    [] token[1] = "grouped" -> <<<<"number", token[3]>>, <<"alnum", "rest">>>>
    [] OTHER -> <<token>>

Unclosed(in) == \E i \in DOMAIN in : in[i][1] \in {"inner", "open"}

\* The bytes of a text: a string that is not closed takes up the rest
Scanned(in) ==
  LET end == IF Unclosed(in) THEN SelectInSeq(in, LAMBDA t : t[1] \in {"inner", "open"})
             ELSE Len(in)
  IN  FlattenSeq([i \in 1..end |-> ParserReads(in[i])])

-----------------------------------------------------------------------------
(* Results: a value and the position after it, or an error and its place *)

Ok(value, pos) == [ok |-> TRUE, value |-> value, pos |-> pos]
Err(error, pos) == [ok |-> FALSE, value |-> error, pos |-> pos]

\* The operator `?` of Rust
Then(result, Continue(_, _)) ==
  IF result.ok THEN Continue(result.value, result.pos) ELSE result

\* One error for both
MutantNoEnd(in, pos) == Err("UnexpectedChar", pos)

\* The error of a token that does not belong at its position
Unexpected(in, pos) ==
  IF pos > Len(in) THEN Err("UnexpectedEnd", pos) ELSE Err("UnexpectedChar", pos)

peek(in, pos) == IF pos <= Len(in) THEN in[pos] ELSE <<"end", "">>

\* A missing mark is always reported as the end
MutantExpectsMore(in, pos, mark) ==
  IF peek(in, pos) = Mark(mark) THEN Ok(mark, pos + 1) ELSE Err("UnexpectedEnd", pos)

expect(in, pos, mark) ==
  IF peek(in, pos) = Mark(mark) THEN Ok(mark, pos + 1) ELSE Unexpected(in, pos)

-----------------------------------------------------------------------------
(* The parser *)

Select(name, alias, filters, subselects) ==
  [name |-> name, alias |-> alias, filters |-> filters, subselects |-> subselects]

\* parse_name with parse_quoted_string and parse_bare_word
parse_name(in, pos) ==
  CASE peek(in, pos)[1] \in {"quoted", "word", "alnum"} -> Ok(in[pos][2], pos + 1)
    [] peek(in, pos)[1] = "open" -> Err("UnexpectedEnd", pos + 1)
    [] OTHER -> Unexpected(in, pos)

parse_number(in, pos) ==
  CASE peek(in, pos)[1] = "number" -> Ok(in[pos][2], pos + 1)
    [] peek(in, pos)[1] = "huge" -> Err("UnexpectedChar", pos)
    [] OTHER -> Unexpected(in, pos)

\* parse_filter: the keyword is the letters up to the first other character,
\* perhaps none, and is looked at once the colon is found
parse_filter(in, pos) ==
  LET kw == IF peek(in, pos)[1] = "word" THEN in[pos][2] ELSE ""
  IN  Then(expect(in, IF kw = "" THEN pos ELSE pos + 1, ":"), LAMBDA colon, i :
        Then(CASE kw \in {"skip", "take"} -> parse_number(in, i)
               [] kw \in {"after", "before"} -> parse_name(in, i)
               [] OTHER -> Err("UnknownFilter", pos),
             LAMBDA arg, j : Ok(<<kw, arg>>, j)))

\* try_byte(',')
AfterComma(in, pos) == IF peek(in, pos) = Mark(",") THEN pos + 1 ELSE pos

\* The loops of parse_filters and parse_selects end here
Closes(in, pos, close) == pos > Len(in) \/ in[pos] = Mark(close)

RECURSIVE parse_filters(_, _)
parse_filters(in, pos) ==
  IF Closes(in, pos, ")") THEN Ok(<<>>, pos)
  ELSE Then(parse_filter(in, pos), LAMBDA filter, i :
         Then(parse_filters(in, AfterComma(in, i)), LAMBDA rest, j :
           Ok(<<filter>> \o rest, j)))

\* An alias that must be a bare word
MutantBareAlias(in, pos) ==
  IF peek(in, pos) # Word("as") THEN Ok(<<>>, pos)
  ELSE IF peek(in, pos + 1)[1] = "word" THEN Ok(<<in[pos + 1][2]>>, pos + 2)
  ELSE Unexpected(in, pos + 1)

\* An alias whose keyword may be left out
MutantNoKeyword(in, pos) ==
  IF peek(in, pos) = Word("as") /\ peek(in, pos + 1)[1] \in {"quoted", "word", "alnum"}
  THEN Ok(<<in[pos + 1][2]>>, pos + 2)
  ELSE IF peek(in, pos)[1] = "word" THEN Ok(<<in[pos][2]>>, pos + 1) ELSE Ok(<<>>, pos)

\* The optional parts of parse_select
parse_alias(in, pos) ==
  IF peek(in, pos) # Word("as") THEN Ok(<<>>, pos)
  ELSE Then(parse_name(in, pos + 1), LAMBDA alias, i : Ok(<<alias>>, i))

ParseFilterList(in, pos) ==
  IF peek(in, pos) # Mark("(") THEN Ok(<<>>, pos)
  ELSE Then(parse_filters(in, pos + 1), LAMBDA filters, i :
         Then(expect(in, i, ")"), LAMBDA close, j : Ok(filters, j)))

RECURSIVE parse_select(_, _)
RECURSIVE parse_selects(_, _)
parse_selects(in, pos) ==
  IF Closes(in, pos, "}") THEN Ok(<<>>, pos)
  ELSE Then(parse_select(in, pos), LAMBDA select, i :
         Then(parse_selects(in, AfterComma(in, i)), LAMBDA rest, j :
           Ok(<<select>> \o rest, j)))

Block(in, pos) ==
  Then(parse_selects(in, pos), LAMBDA selects, i :
    Then(expect(in, i, "}"), LAMBDA close, j : Ok(selects, j)))

parse_select(in, pos) ==
  Then(parse_name(in, pos), LAMBDA name, i :
    Then(parse_alias(in, i), LAMBDA alias, j :
      Then(ParseFilterList(in, j), LAMBDA filters, k :
        Then(IF peek(in, k) = Mark("{") THEN Block(in, k + 1) ELSE Ok(<<>>, k),
             LAMBDA subselects, l : Ok(Select(name, alias, filters, subselects), l)))))

parse_query(in) ==
  Then(expect(in, 1, "{"), LAMBDA open, i :
    Then(Block(in, i), LAMBDA selects, j :
      IF j > Len(in) THEN Ok(selects, j) ELSE Err("UnexpectedChar", j)))

\* Query::parse
parse(text) == parse_query(Scanned(text))

-----------------------------------------------------------------------------
(* The macro.  A word or quoted string is matched as $name:ident or as
   $name:literal; a group in brackets is matched as a whole, so its contents
   must be used up.  The argument of a filter is a Rust expression, of which
   the literals of the right type are modelled. *)

Names == {"quoted", "word", "alnum"}

\* @__alias: without a name behind it `as` is no alias and is left over
MacroAlias(in, pos) ==
  IF peek(in, pos) = Word("as") /\ peek(in, pos + 1)[1] \in Names
  THEN Ok(<<in[pos + 1][2]>>, pos + 2) ELSE Ok(<<>>, pos)

\* One filter of @__filter_list
MacroFilter(in, pos) ==
  LET kw == peek(in, pos)
      arg == peek(in, pos + 2)
  IN  CASE kw \notin {Word("skip"), Word("take"), Word("after"), Word("before")} ->
             Unexpected(in, pos)
        [] peek(in, pos + 1) # Mark(":") -> Unexpected(in, pos + 1)
        [] arg[1] # (IF kw[2] \in {"skip", "take"} THEN "number" ELSE "quoted") ->
             Unexpected(in, pos + 2)
        [] OTHER -> Ok(<<kw[2], arg[2]>>, pos + 3)

\* @__filter_list: a comma, or the end of the group, after every filter
RECURSIVE MacroFilters(_, _)
MacroFilters(in, pos) ==
  IF peek(in, pos) = Mark(")") THEN Ok(<<>>, pos + 1)
  ELSE Then(MacroFilter(in, pos), LAMBDA filter, i :
         IF peek(in, i) \notin {Mark(","), Mark(")")} THEN Unexpected(in, i)
         ELSE Then(MacroFilters(in, AfterComma(in, i)), LAMBDA rest, j :
                Ok(<<filter>> \o rest, j)))

\* @__selects, @__filters, @__subselects and @__done
RECURSIVE MacroSelects(_, _)
MacroSelects(in, pos) ==
  IF peek(in, pos) = Mark("}") THEN Ok(<<>>, pos + 1)
  ELSE IF peek(in, pos)[1] \notin Names THEN Unexpected(in, pos)
  ELSE Then(MacroAlias(in, pos + 1), LAMBDA alias, i :
         Then(IF peek(in, i) = Mark("(") THEN MacroFilters(in, i + 1) ELSE Ok(<<>>, i),
              LAMBDA filters, j :
           Then(IF peek(in, j) = Mark("{") THEN MacroSelects(in, j + 1) ELSE Ok(<<>>, j),
                LAMBDA subselects, k :
             IF peek(in, k) \notin {Mark(","), Mark("}")} THEN Unexpected(in, k)
             ELSE Then(MacroSelects(in, AfterComma(in, k)), LAMBDA rest, l :
                    Ok(<<Select(in[pos][2], alias, filters, subselects)>> \o rest, l)))))

\* query!({ ... }), compiled
query(text) ==
  LET in == [i \in DOMAIN text |-> RustReads(text[i])]
  IN  IF peek(in, 1) # Mark("{") THEN Unexpected(in, 1)
      ELSE Then(MacroSelects(in, 2), LAMBDA selects, i :
             IF i > Len(in) THEN Ok(selects, i) ELSE Unexpected(in, i))

-----------------------------------------------------------------------------
\* The text is refused for another reason than its end
Failed(result) == ~result.ok /\ result.value # "UnexpectedEnd"

Init == input \in Start

\* In the rest that a string not closed takes up, no further quote is typed
Typeable(token) ==
  Unclosed(input) => token[1] \notin {"quoted", "open", "escaped", "inner", "raw"}

\* One more token.  In Rust nothing follows a quote that is not closed; a text
\* that parser and macro refuse is not typed on, as ErrorsAreFinal justifies
Next ==
  /\ \E start \in Start : IsPrefix(start, input) /\ Len(input) < Len(start) + MaxTyped
  /\ input # <<>> => Last(input)[1] # "open"
  /\ ~Failed(parse(input)) \/ ~Failed(query(input))
  /\ \E token \in Token : Typeable(token) /\ input' = Append(input, token)

Spec == Init /\ [][Next]_input

-----------------------------------------------------------------------------
\* Every token is the same to Rust and to the parser
CommonLexemes(text) == \A i \in DOMAIN text : ParserReads(text[i]) = <<RustReads(text[i])>>

\* query/mod.rs: the macro builds queries "without the need to parse strings".
\* What it compiles, the parser reads as the same query exactly if the text has
\* only words, numbers and strings that are the same to Rust and to the parser:
\* their grammars agree, their lexers are where they do not
MacroAgreesWithParser ==
  query(input).ok =>
    (CommonLexemes(input) <=> parse(input).ok /\ parse(input).value = query(input).value)

\* parse.rs, parse_selects: "consume optional comma separator".  Without its
\* commas a query means the same, unless the comma stands before a field named
\* as, which then becomes the alias of the field before it
CommasOnlySeparate ==
  LET bare == SelectSeq(input, LAMBDA t : t # Mark(","))
  IN  /\ parse(input).ok
      /\ ~\E i \in 2..Len(input) : input[i - 1] = Mark(",") /\ input[i] = Word("as")
      => parse(bare).ok /\ parse(bare).value = parse(input).value

\* The closing marks that the text lacks, innermost first
RECURSIVE Missing(_)
Missing(in) ==
  IF in = <<>> THEN <<>>
  ELSE LET rest == Missing(Front(in))
       IN  CASE Last(in) = Mark("{") -> <<Mark("}")>> \o rest
             [] Last(in) = Mark("(") -> <<Mark(")")>> \o rest
             [] Last(in) \in {Mark("}"), Mark(")")} /\ rest # <<>> -> Tail(rest)
             [] OTHER -> rest

Ends == {<<>>, <<Mark("{")>>, <<Word("x")>>, <<<<"number", "1">>>>,
         <<Mark(":"), Word("x")>>, <<Mark(":"), <<"number", "1">>>>}

\* An unknown keyword of a filter is only noticed behind its colon
EndsInUnknownFilter(in) ==
  LET r == parse(in \o <<Mark(":")>>) IN ~r.ok /\ r.value = "UnknownFilter"

\* UnexpectedEnd, "Input ended before the query was complete", is the error of
\* the texts that can be completed, and of no other but one that ends in a
\* quote not closed or an unknown keyword
UnexpectedEndCanBeCompleted ==
  /\ ~parse(input).ok /\ ~Failed(parse(input))
  /\ ~Unclosed(input)
  /\ ~EndsInUnknownFilter(input)
  => \E end \in Ends : parse(input \o end \o Missing(input \o end)).ok

\* An error other than UnexpectedEnd is final: whatever is typed after it, the
\* parser reports the same error at the same place
ErrorsAreFinal ==
  LET r == parse(input)
  IN  Failed(r) =>
        \A token \in Token : Typeable(token) => parse(Append(input, token)) = r

=============================================================================
