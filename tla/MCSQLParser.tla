---------------------------- MODULE MCSQLParser ----------------------------
(***************************************************************************)
(* SQLParser for TLC: a grammar of the five statements, in upper and in    *)
(* lower case, and every text of up to MaxText symbols.                    *)
(***************************************************************************)
EXTENDS SQLParser

CONSTANTS
    MaxText,   \* the length of arbitrary texts
    Names      \* names of columns

\* Words of several symbols and delimiters of one, as tokens.
Tokens(symbols) == [k \in DOMAIN symbols |-> <<symbols[k]>>]

\* The tokens of a list with commas between them.
Listed(ts) == FlattenSeq([k \in DOMAIN ts |-> IF k = 1 THEN <<ts[k]>> ELSE <<<<",">>, ts[k]>>])
Parens(ts) == Tokens(<<"(">>) \o ts \o Tokens(<<")">>)

\* A number, a literal that holds a keyword and delimiters, one that holds a quote.
Literals == {<<"1">>, <<"'", "FROM", ",", ")", "'">>, <<"'", "x", "'", "'", " ", "'">>}

Columns == {<<<<a>>>> : a \in Names} \cup {<<<<a>>, <<b>>>> : a, b \in Names}
Values == {<<v>> : v \in Literals} \cup {<<v, w>> : v, w \in Literals}
Definitions == {<<>>, Tokens(<<"INT", "PRIMARY", "KEY">>), Tokens(<<"VARCHAR", "(", "1", ")">>)}

Statement(t, attrs, ts) == [type |-> t, attributes |-> attrs, tokens |-> ts]

Wheres ==
    {[attributes |-> <<>>, tokens |-> <<>>]} \cup
    {[attributes |-> [where_column |-> <<a>>, where_operator |-> op, where_value |-> v],
      tokens |-> <<<<"WHERE">>, <<a>>, op, v>>] :
        a \in Names, op \in {<<"=">>, <<"<", "=">>}, v \in Literals}

With(s, w) == [s EXCEPT !.attributes = w.attributes @@ @, !.tokens = @ \o w.tokens]

Selects ==
    {With(Statement("SELECT", [columns |-> Joined(cs), table |-> <<"t">>],
          Tokens(<<"SELECT">>) \o Listed(cs) \o Tokens(<<"FROM", "t">>)), w) :
        cs \in Columns \cup {<<<<"*">>>>}, w \in Wheres}
Inserts ==
    {Statement("INSERT", [values |-> Joined(vs), table |-> <<"t">>],
               Tokens(<<"INSERT", "INTO", "t", "VALUES">>) \o Parens(Listed(vs))) : vs \in Values} \cup
    {Statement("INSERT", [columns |-> Joined(cs), values |-> Joined(vs), table |-> <<"t">>],
               Tokens(<<"INSERT", "INTO", "t">>) \o Parens(Listed(cs)) \o
               Tokens(<<"VALUES">>) \o Parens(Listed(vs))) : cs \in Columns, vs \in Values}
Updates ==
    {With(Statement("UPDATE", [table |-> <<"t">>, set_column |-> <<a>>, set_value |-> v],
          <<<<"UPDATE">>, <<"t">>, <<"SET">>, <<a>>, <<"=">>, v>>), w) :
        a \in Names, v \in Literals, w \in Wheres}
Deletes ==
    {With(Statement("DELETE", [table |-> <<"t">>], Tokens(ts)), w) :
        ts \in {<<"DELETE", "t">>, <<"DELETE", "FROM", "t">>}, w \in Wheres}
Creates ==
    {Statement("CREATE_TABLE", [table |-> <<"t">>, columns |-> Joined(<<<<a>>>>)],
               Tokens(<<"CREATE", "TABLE", "t">>) \o Parens(<<<<a>>>> \o d)) :
        a \in Names, d \in Definitions} \cup
    {Statement("CREATE_TABLE", [table |-> <<"t">>, columns |-> Joined(<<<<a>>, <<b>>>>)],
               Tokens(<<"CREATE", "TABLE", "t">>) \o
               Parens(<<<<a>>>> \o d \o <<<<",">>, <<b>>>> \o e)) :
        a, b \in Names, d, e \in Definitions}

\* A statement with its keywords in lower case; its literals stay as they are.
LowerOf == [w \in {UpperOf[l] : l \in DOMAIN UpperOf} |-> CHOOSE l \in DOMAIN UpperOf : UpperOf[l] = w]
Lower(s) ==
    [s EXCEPT !.tokens = [k \in DOMAIN s.tokens |->
        IF Len(s.tokens[k]) = 1 /\ s.tokens[k][1] \in DOMAIN LowerOf
        THEN <<LowerOf[s.tokens[k][1]]>> ELSE s.tokens[k]]]
\* A closing semicolon is not looked at.
Closed(s) == [s EXCEPT !.tokens = Append(@, <<";">>)]

Grammar == Selects \cup Inserts \cup Updates \cup Deletes \cup Creates
MCStatements == Grammar \cup {Lower(s) : s \in Grammar} \cup {Closed(s) : s \in Updates}
TextSymbols == {"'", "\"", " ", ",", "<", "=", "x", "SELECT"}
MCTexts == BoundedSeq(TextSymbols, MaxText)
=============================================================================
