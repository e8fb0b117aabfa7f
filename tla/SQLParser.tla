------------------------------ MODULE SQLParser ------------------------------
(***************************************************************************)
(* ParseQuery of the SQL parser (src/MiniDB/src/parser/SQLParser.cpp): the *)
(* tokenizer, one step per character, and the parser, one step per token   *)
(* of a list and one per fixed run of keywords and names.                  *)
(*                                                                         *)
(* A text is a sequence of symbols: a symbol is a character, or a word     *)
(* whose letters no step tells apart.  A token is a sequence of symbols,   *)
(* so two words with nothing between them are one longer word.  Error      *)
(* messages are left out.                                                  *)
(***************************************************************************)
EXTENDS Integers, Sequences, SequencesExt, TLC

CONSTANTS
    Statements,   \* the statements of a grammar: type, attributes, tokens
    Texts         \* other texts, in no grammar

\* A token of a statement, like a text, is a sequence of symbols.
ASSUME TextsAssumption ==
    /\ Texts \subseteq Seq(STRING)
    /\ \A s \in Statements : s.tokens \in Seq(Seq(STRING))

VARIABLES
    sql, stmt,                  \* the input, and the statement it was written from
    i, quote_char, current,     \* the tokenizer: position, open quote, token so far
    tokens, pos,                \* the parser: tokens and position, from 0 as in the code
    list,                       \* the columns or values collected so far
    phase, type, success, attributes

lexVars == <<i, quote_char, current>>
resultVars == <<type, success, attributes>>
vars == <<sql, stmt, lexVars, tokens, pos, list, phase, resultVars>>

Quotes == {"'", "\""}
Delimiters == {",", ";", "(", ")", "=", "<", ">", "!"}
NoQuote == "none"
NoStatement == [type |-> "UNKNOWN"]

\* ToUpper, on the words whose case matters here.
UpperOf == [select |-> "SELECT", insert |-> "INSERT", update |-> "UPDATE", delete |-> "DELETE",
            create |-> "CREATE", table |-> "TABLE", from |-> "FROM", into |-> "INTO",
            values |-> "VALUES", set |-> "SET", where |-> "WHERE", varchar |-> "VARCHAR"]
ToUpper(t) == [k \in DOMAIN t |-> IF t[k] \in DOMAIN UpperOf THEN UpperOf[t[k]] ELSE t[k]]

-----------------------------------------------------------------------------
(* Texts to parse *)

Spaced(ts) == FlattenSeq([k \in DOMAIN ts |-> IF k = 1 THEN ts[k] ELSE <<" ">> \o ts[k]])

IsWord(t) == t[1] \notin Quotes \cup Delimiters
\* The fewest spaces that keep two words apart.
Compact(ts) ==
    FlattenSeq([k \in DOMAIN ts |->
        IF k > 1 /\ IsWord(ts[k]) /\ IsWord(ts[k - 1]) THEN <<" ">> \o ts[k] ELSE ts[k]])

Init ==
    /\ \/ \E s \in Statements :
            /\ stmt = s
            /\ \/ sql = Compact(s.tokens)
               \/ \E n \in 1 .. Len(s.tokens) : sql = Spaced(SubSeq(s.tokens, 1, n))
       \/ /\ stmt = NoStatement
          /\ \E s \in Statements : \E n \in 1 .. Len(s.tokens) : sql = Spaced(RemoveAt(s.tokens, n))
       \/ stmt = NoStatement /\ sql \in Texts
    /\ i = 0 /\ quote_char = NoQuote /\ current = <<>>
    /\ tokens = <<>> /\ pos = 0 /\ list = <<>>
    /\ phase = "tokenize"
    /\ type = "UNKNOWN" /\ success = FALSE /\ attributes = <<>>

-----------------------------------------------------------------------------
(* Tokenize *)

Char == sql[i + 1]
Follows(c) == i + 1 < Len(sql) /\ sql[i + 2] = c
\* Mutant: the token before a delimiter, a space or a quote is forgotten.
NotPushed == tokens
Pushed == IF current = <<>> THEN tokens ELSE Append(tokens, current)
Lexing == phase = "tokenize" /\ i < Len(sql)
lexRest == <<sql, stmt, pos, list, phase, resultVars>>

OpenQuote ==
    /\ Lexing /\ quote_char = NoQuote /\ Char \in Quotes
    /\ tokens' = Pushed
    /\ current' = <<Char>>
    /\ quote_char' = Char
    /\ i' = i + 1
    /\ UNCHANGED lexRest

\* Mutant: a doubled quote ends the literal.
NoEscape == FALSE
Escaped == Follows(Char)

QuotedQuote ==
    /\ Lexing /\ quote_char # NoQuote /\ Char = quote_char
    /\ IF Escaped
       THEN /\ current' = current \o <<Char, Char>>
            /\ i' = i + 2
            /\ UNCHANGED <<tokens, quote_char>>
       ELSE /\ tokens' = Append(tokens, Append(current, Char))
            /\ current' = <<>>
            /\ quote_char' = NoQuote
            /\ i' = i + 1
    /\ UNCHANGED lexRest

QuotedChar ==
    /\ Lexing /\ quote_char # NoQuote /\ Char # quote_char
    /\ current' = Append(current, Char)
    /\ i' = i + 1
    /\ UNCHANGED <<tokens, quote_char, lexRest>>

Space ==
    /\ Lexing /\ quote_char = NoQuote /\ Char = " "
    /\ tokens' = Pushed
    /\ current' = <<>>
    /\ i' = i + 1
    /\ UNCHANGED <<quote_char, lexRest>>

Delimiter ==
    LET two == Char \in {"<", ">", "!"} /\ Follows("=") IN
    /\ Lexing /\ quote_char = NoQuote /\ Char \in Delimiters
    /\ tokens' = Append(Pushed, IF two THEN <<Char, "=">> ELSE <<Char>>)
    /\ current' = <<>>
    /\ i' = IF two THEN i + 2 ELSE i + 1
    /\ UNCHANGED <<quote_char, lexRest>>

WordChar ==
    /\ Lexing /\ quote_char = NoQuote /\ Char \notin Quotes \cup Delimiters \cup {" "}
    /\ current' = Append(current, Char)
    /\ i' = i + 1
    /\ UNCHANGED <<tokens, quote_char, lexRest>>

\* The last token, an unfinished literal too.  No token is ever empty, so the
\* removal of empty tokens changes nothing.
TokenizeEnd ==
    /\ phase = "tokenize" /\ i = Len(sql)
    /\ tokens' = Pushed
    /\ current' = <<>>
    /\ phase' = "dispatch"
    /\ UNCHANGED <<sql, stmt, i, quote_char, pos, list, resultVars>>

Tokenize == OpenQuote \/ QuotedQuote \/ QuotedChar \/ Space \/ Delimiter \/ WordChar \/ TokenizeEnd

-----------------------------------------------------------------------------
(* The parser's position, and fixed runs of tokens *)

More == pos < Len(tokens)
Here(words) == More /\ ToUpper(tokens[pos + 1]) \in {<<w>> : w \in words}
parseRest == <<sql, stmt, lexVars, tokens>>

Keyword(w) == [word |-> w, name |-> ""]
Attribute(name) == [word |-> "", name |-> name]

\* How many items of a run the tokens from pos on match: a keyword is that word
\* in any case, an attribute is any token.
Matched(run) ==
    LET fits(k) == /\ pos + k <= Len(tokens)
                   /\ run[k].name = "" => ToUpper(tokens[pos + k]) = <<run[k].word>>
    IN  Max({n \in 0 .. Len(run) : \A k \in 1 .. n : fits(k)})
Taken(run, n) ==
    LET named == {k \in 1 .. n : run[k].name # ""} IN
    [a \in {run[k].name : k \in named} |->
        tokens[pos + (CHOOSE k \in named : run[k].name = a)]]

\* The attributes met are kept even when the statement is then rejected.
Parse(run, next) ==
    LET n == Matched(run) IN
    /\ attributes' = Taken(run, n) @@ attributes
    /\ pos' = pos + n
    /\ success' = (n = Len(run))
    /\ phase' = IF n = Len(run) THEN next ELSE "done"
    /\ UNCHANGED <<parseRest, list, type>>

Reject ==
    /\ phase' = "done" /\ success' = FALSE
    /\ UNCHANGED <<parseRest, pos, list, type, attributes>>

\* A list as one string: its tokens with commas between them.
Joined(ts) == FlattenSeq([k \in DOMAIN ts |-> IF k = 1 THEN ts[k] ELSE <<",">> \o ts[k]])

-----------------------------------------------------------------------------
(* ParseQuery: the first token decides *)

Dispatch(word, t, next) ==
    /\ phase = "dispatch"
    /\ Here({word})
    /\ type' = t
    /\ success' = TRUE
    /\ pos' = 1
    /\ phase' = next
    /\ UNCHANGED <<parseRest, list, attributes>>

IsCreateTable == Len(tokens) > 1 /\ ToUpper(tokens[2]) = <<"TABLE">>

ParseQuery ==
    \/ Dispatch("SELECT", "SELECT", "columns")
    \/ Dispatch("INSERT", "INSERT", "insert")
    \/ Dispatch("UPDATE", "UPDATE", "update")
    \/ Dispatch("DELETE", "DELETE", "delete")
    \/ IsCreateTable /\ Dispatch("CREATE", "CREATE_TABLE", "create")
    \/ /\ phase = "dispatch"
       /\ ~Here({"SELECT", "INSERT", "UPDATE", "DELETE"})
       /\ ~(Here({"CREATE"}) /\ IsCreateTable)
       /\ Reject

-----------------------------------------------------------------------------
(* ParseColumnList and ParseValueList *)

\* "*" alone is a whole list; otherwise an opening parenthesis is skipped.
ColumnListStart ==
    /\ phase = "columns"
    /\ \/ /\ Here({"*"})
          /\ list' = <<tokens[pos + 1]>> /\ pos' = pos + 1
          /\ phase' = "columns_end"
       \/ /\ ~Here({"*"})
          /\ pos' = IF Here({"("}) THEN pos + 1 ELSE pos
          /\ phase' = "column"
          /\ UNCHANGED list
    /\ UNCHANGED <<parseRest, resultVars>>

ListEnd(next) ==
    /\ pos' = IF Here({")"}) THEN pos + 1 ELSE pos
    /\ phase' = next
    /\ UNCHANGED list
\* Mutant: a comma stays where it is.
StuckComma == Here({","}) /\ UNCHANGED <<pos, list, phase>>
ListComma ==
    /\ Here({","})
    /\ pos' = pos + 1
    /\ UNCHANGED <<list, phase>>
ListItem ==
    /\ More
    /\ list' = Append(list, tokens[pos + 1])
    /\ pos' = pos + 1
    /\ UNCHANGED phase

ColumnListWords == {"FROM", "WHERE", "VALUES", "SET"}

ColumnListStep ==
    /\ phase = "column"
    /\ \/ (~More \/ Here(ColumnListWords \cup {")"})) /\ ListEnd("columns_end")
       \/ ListComma
       \/ ~Here(ColumnListWords \cup {")", ","}) /\ ListItem
    /\ UNCHANGED <<parseRest, resultVars>>

\* The word VALUES and the opening parenthesis are both optional.
ValueListStart ==
    LET afterWord == IF Here({"VALUES"}) THEN pos + 1 ELSE pos IN
    /\ phase = "values"
    /\ More
    /\ pos' = IF afterWord < Len(tokens) /\ tokens[afterWord + 1] = <<"(">>
              THEN afterWord + 1 ELSE afterWord
    /\ phase' = "value"
    /\ UNCHANGED <<parseRest, list, resultVars>>

ValueListStep ==
    /\ phase = "value"
    /\ \/ (~More \/ Here({")"})) /\ ListEnd("values_end")
       \/ ListComma
       \/ ~Here({")", ","}) /\ ListItem
    /\ UNCHANGED <<parseRest, resultVars>>

\* The list becomes an attribute.
Keep(name, next) ==
    /\ attributes' = (name :> Joined(list)) @@ attributes
    /\ list' = <<>>
    /\ phase' = next
    /\ UNCHANGED <<parseRest, pos, type, success>>

-----------------------------------------------------------------------------
(* The statements *)

WhereClause == <<Keyword("WHERE"), Attribute("where_column"), Attribute("where_operator"),
                 Attribute("where_value")>>

\* Mutant: a clause that stops short does not reject the statement.
LenientWhere ==
    /\ phase = "where" /\ phase' = "done"
    /\ attributes' = Taken(WhereClause, Matched(WhereClause)) @@ attributes
    /\ UNCHANGED <<parseRest, pos, list, type, success>>

\* Anything but WHERE ends the statement: what follows is not looked at.
ParseWhereClause ==
    /\ phase = "where"
    /\ IF Here({"WHERE"}) THEN Parse(WhereClause, "done")
       ELSE /\ phase' = "done"
            /\ UNCHANGED <<parseRest, pos, list, resultVars>>

ParseSelect ==
    \/ ColumnListStart
    \/ /\ type = "SELECT" /\ phase = "columns_end"
       /\ IF list = <<>> THEN Reject ELSE Keep("columns", "from")
    \/ phase = "from" /\ Parse(<<Keyword("FROM"), Attribute("table")>>, "where")

ParseInsert ==
    \/ phase = "insert" /\ Parse(<<Keyword("INTO"), Attribute("table")>>, "insert_columns")
    \/ /\ phase = "insert_columns"
       /\ phase' = IF Here({"("}) THEN "columns" ELSE "values"
       /\ UNCHANGED <<parseRest, pos, list, resultVars>>
    \/ type = "INSERT" /\ phase = "columns_end" /\ Keep("columns", "values")
    \/ phase = "values" /\ ~More /\ Reject
    \/ ValueListStart
    \/ /\ phase = "values_end"
       /\ IF list = <<>> THEN Reject ELSE Keep("values", "done")

ParseUpdate ==
    /\ phase = "update"
    /\ Parse(<<Attribute("table"), Keyword("SET"), Attribute("set_column"), Keyword("="),
               Attribute("set_value")>>, "where")

\* FROM is optional.
ParseDelete ==
    /\ phase = "delete"
    /\ Parse(IF Here({"FROM"}) THEN <<Keyword("FROM"), Attribute("table")>>
             ELSE <<Attribute("table")>>, "where")

TypeWords == {"INT", "VARCHAR", "TEXT", "CHAR", "INTEGER", "PRIMARY", "KEY", "NOT", "NULL"}

\* The position after a type word's parentheses, when the token at p opens them.
AfterSize(p) ==
    IF p < Len(tokens) /\ tokens[p + 1] = <<"(">>
    THEN Min({q \in p + 1 .. Len(tokens) : q = Len(tokens) \/ tokens[q] = <<")">>})
    ELSE p

DefinitionStep ==
    /\ phase = "definitions"
    /\ \/ (~More \/ Here({")"})) /\ ListEnd("definitions_end")
       \/ ListComma
       \/ /\ Here(TypeWords)
          /\ pos' = AfterSize(pos + 1)
          /\ UNCHANGED <<list, phase>>
       \/ ~Here(TypeWords \cup {")", ","}) /\ ListItem
    /\ UNCHANGED <<parseRest, resultVars>>

ParseCreateTable ==
    \/ /\ phase = "create"
       /\ Parse(<<Keyword("TABLE"), Attribute("table"), Keyword("(")>>, "definitions")
    \/ DefinitionStep
    \/ /\ phase = "definitions_end"
       /\ IF list = <<>> THEN Reject ELSE Keep("columns", "done")

Next ==
    \/ Tokenize
    \/ ParseQuery
    \/ ParseSelect \/ ParseInsert \/ ParseUpdate \/ ParseDelete \/ ParseCreateTable
    \/ ColumnListStep \/ ValueListStep
    \/ ParseWhereClause

\* ParseQuery runs to its end on one thread.
Spec == Init /\ [][Next]_vars /\ WF_vars(Next)

-----------------------------------------------------------------------------
(* Properties *)

IsDone == phase = "done"

\* A token is an operator, a word, or a string literal: a quote, then symbols in
\* which that quote only occurs doubled, then the quote unless the text ended.
IsOperator(t) == \/ Len(t) = 1 /\ t[1] \in Delimiters
                 \/ t \in {<<"<", "=">>, <<">", "=">>, <<"!", "=">>}
\* in a run of quotes after the first, the ones before k
QuotesBefore(t, k) == Max({n \in 0 .. (k - 2) : \A j \in (k - n) .. (k - 1) : t[j] = t[1]})
Closes(t, k) == /\ t[k] = t[1] /\ QuotesBefore(t, k) % 2 = 0
                /\ k = Len(t) \/ t[k + 1] # t[1]
IsLiteral(t, last) ==
    /\ t[1] \in Quotes
    /\ \A k \in 2 .. Len(t) : Closes(t, k) => k = Len(t)
    /\ last \/ (Len(t) > 1 /\ Closes(t, Len(t)))
IsPlainWord(t) == \A k \in DOMAIN t : t[k] \notin Quotes \cup Delimiters \cup {" "}

WithoutSpaces(s) == FlattenSeq([k \in DOMAIN s |-> IF s[k] = " " THEN <<>> ELSE <<s[k]>>])

\* Tokenize loses and adds nothing (SQLParser.cpp:43-117): apart from spaces, the
\* tokens hold the symbols of the text in order, and every token is an operator,
\* a word or one whole literal.
TokensExact ==
    phase # "tokenize" =>
        /\ WithoutSpaces(FlattenSeq(tokens)) = WithoutSpaces(sql)
        /\ \A k \in DOMAIN tokens :
              \/ IsOperator(tokens[k])
              \/ IsLiteral(tokens[k], k = Len(tokens))
              \/ IsPlainWord(tokens[k])

IsWhole == stmt # NoStatement /\ sql \in {Spaced(stmt.tokens), Compact(stmt.tokens)}

\* Every statement of the grammar, spaced or compact, in either case, its literals
\* holding keywords, delimiters and doubled quotes, is accepted with its own type
\* and attributes (SQLParser.cpp:598-640; test/sql_parser_test.cpp:16-86).
RoundTrip ==
    IsDone /\ IsWhole =>
        success /\ tokens = stmt.tokens /\ type = stmt.type /\ attributes = stmt.attributes

\* A statement cut short after any of its tokens is rejected, or means what some
\* whole statement means: and that statement is what is left of it, except that
\* INSERT and CREATE TABLE do not ask for the closing parenthesis
\* (SQLParser.cpp:243-269, 297-316, 374-385, 431-455).
CutIsNoticed ==
    IsDone /\ success /\ stmt # NoStatement =>
        \E s \in Statements :
            /\ s.type = type /\ s.attributes = attributes
            /\ s.tokens = tokens \/ type \in {"INSERT", "CREATE_TABLE"}

\* Every loop of the parser ends on every text (SQLParser.cpp:43, 157, 210, 545, 563).
ParseEnds == <>IsDone
=============================================================================
