------------------------------ MODULE Lexemes ------------------------------
(***************************************************************************)
(* What nyx text means to its lexical grammar (docs/grammar.ebnf:66-71,    *)
(* and the table of tests/test_scanner.c:29-46): a source is trivia and    *)
(* lexemes in turn, and each token is the longest lexeme where it begins.  *)
(* Nothing here says how the text is read.  Scanner implements it.         *)
(***************************************************************************)
EXTENDS Integers, SequencesExt

VARIABLES
    source,    \* the text
    tokens     \* those that were asked for

vars == <<source, tokens>>

Letters == {"a", "b", "c", "d", "e", "f", "h", "i", "k", "l", "n", "o", "r", "s", "t", "u", "v", "w", "_", "x"}
Digits == {"0", "1"}

(* Keywords and symbols, with the names of tokenTypeName. *)
Keywords ==
    <<"a", "n", "d">> :> "AND" @@ <<"e", "l", "s", "e">> :> "ELSE" @@ <<"f", "a", "l", "s", "e">> :> "FALSE"
    @@ <<"f", "o", "r">> :> "FOR" @@ <<"f", "u", "n">> :> "FUN" @@ <<"i", "f">> :> "IF"
    @@ <<"n", "i", "l">> :> "NIL" @@ <<"o", "r">> :> "OR" @@ <<"t", "r", "u", "e">> :> "TRUE"
    @@ <<"v", "a", "r">> :> "VAR" @@ <<"w", "h", "i", "l", "e">> :> "WHILE"
    @@ <<"r", "e", "t", "u", "r", "n">> :> "RETURN" @@ <<"b", "r", "e", "a", "k">> :> "BREAK"
    @@ <<"c", "o", "n", "t", "i", "n", "u", "e">> :> "CONTINUE"

Symbols ==
    <<"(">> :> "LEFT_PAREN" @@ <<")">> :> "RIGHT_PAREN" @@ <<"{">> :> "LEFT_BRACE" @@ <<"}">> :> "RIGHT_BRACE"
    @@ <<"[">> :> "LEFT_BRACKET" @@ <<"]">> :> "RIGHT_BRACKET" @@ <<",">> :> "COMMA" @@ <<".">> :> "DOT"
    @@ <<"-">> :> "MINUS" @@ <<"+">> :> "PLUS" @@ <<";">> :> "SEMICOLON" @@ <<":">> :> "COLON"
    @@ <<"/">> :> "SLASH" @@ <<"*">> :> "STAR" @@ <<"%">> :> "PERCENT" @@ <<"!">> :> "BANG"
    @@ <<"!", "=">> :> "BANG_EQUAL" @@ <<"=">> :> "EQUAL" @@ <<"=", "=">> :> "EQUAL_EQUAL"
    @@ <<">">> :> "GREATER" @@ <<">", "=">> :> "GREATER_EQUAL" @@ <<"<">> :> "LESS" @@ <<"<", "=">> :> "LESS_EQUAL"

-----------------------------------------------------------------------------
(* Lexemes *)

AllIn(text, set) == \A i \in DOMAIN text : text[i] \in set

IsIdentifier(text) ==
    text # <<>> /\ Head(text) \in Letters /\ AllIn(text, Letters \cup Digits)

IsNumber(text) ==
    /\ text # <<>> /\ Head(text) \in Digits /\ Last(text) \in Digits
    /\ AllIn(text, Digits \cup {"."})
    /\ \A i, j \in DOMAIN text : text[i] = "." /\ text[j] = "." => i = j

(* A string is made of characters, and of backslashes that go with the next one. *)
RECURSIVE Items(_)
Items(text) ==
    IF text = <<>> THEN <<>>
    ELSE LET n == IF Head(text) = "\\" /\ Len(text) > 1 THEN 2 ELSE 1
         IN <<SubSeq(text, 1, n)>> \o Items(SubSeq(text, n + 1, Len(text)))

Inside(text) == SubSeq(text, 2, Len(text) - 1)

IsString(text) ==
    /\ Len(text) >= 2 /\ Head(text) = "\"" /\ Last(text) = "\""
    /\ \A i \in DOMAIN Items(Inside(text)) : Items(Inside(text))[i] \notin {<<"\"">>, <<"\\">>}

IsLexeme(text) ==
    \/ IsIdentifier(text) \/ IsNumber(text) \/ IsString(text) \/ text \in DOMAIN Symbols

TypeOf(text) ==
    CASE text \in DOMAIN Keywords -> Keywords[text]
      [] text \in DOMAIN Symbols  -> Symbols[text]
      [] IsNumber(text)           -> "NUMBER"
      [] IsString(text)           -> "STRING"
      [] OTHER                    -> "IDENTIFIER"

(* Escapes: any other character stands for itself, with its backslash. *)
Escapes == "n" :> "\n" @@ "t" :> "\t" @@ "r" :> "\r" @@ "\\" :> "\\" @@ "\"" :> "\"" @@ "0" :> "NUL"

ItemValue(item) ==
    IF Len(item) = 2 /\ item[2] \in DOMAIN Escapes THEN <<Escapes[item[2]]>> ELSE item

StringValue(text) ==
    FlattenSeq([i \in DOMAIN Items(Inside(text)) |-> ItemValue(Items(Inside(text))[i])])

-----------------------------------------------------------------------------
(* Trivia: blanks, comments to the end of the line, and comments that nest. *)

Opens(text) == IsPrefix(<<"/", "*">>, text)

RECURSIVE IsComment(_), ClosesComment(_)
IsComment(text) == Len(text) >= 4 /\ Opens(text) /\ ClosesComment(SubSeq(text, 3, Len(text)))
ClosesComment(text) ==
    \/ text = <<"*", "/">>
    \/ /\ Opens(text)
       /\ \E n \in 4..Len(text) : IsComment(SubSeq(text, 1, n)) /\ ClosesComment(SubSeq(text, n + 1, Len(text)))
    \/ /\ Len(text) > 2 /\ ~Opens(text) /\ ~IsPrefix(<<"*", "/">>, text)
       /\ ClosesComment(Tail(text))

IsLineComment(text) ==
    /\ IsPrefix(<<"/", "/">>, text)
    /\ ~Contains(text, "\n")

Largest(set) == CHOOSE n \in set : \A m \in set : m <= n

(* The length of what begins the text and means nothing; a comment that is   *)
(* never closed goes to the end.                                             *)
PieceLength(text) ==
    CASE text # <<>> /\ Head(text) \in {" ", "\t", "\r", "\n"} -> 1
      [] IsPrefix(<<"/", "/">>, text) ->
            Largest({n \in 2..Len(text) : IsLineComment(SubSeq(text, 1, n))})
      [] Opens(text) ->
            LET closed == {n \in 4..Len(text) : IsComment(SubSeq(text, 1, n))}
            IN IF closed = {} THEN Len(text) ELSE Largest(closed)
      [] OTHER -> 0

RECURSIVE TriviaLength(_)
TriviaLength(text) ==
    LET n == PieceLength(text)
    IN IF n = 0 THEN 0 ELSE n + TriviaLength(SubSeq(text, n + 1, Len(text)))

-----------------------------------------------------------------------------
(* Tokens *)

(* An error takes the character it is about, or the string that is not closed. *)
LexemeLength(text) ==
    LET lexemes == {n \in 1..Len(text) : IsLexeme(SubSeq(text, 1, n))}
    IN CASE text = <<>>           -> 0
         [] lexemes # {}          -> Largest(lexemes)
         [] Head(text) = "\""     -> Len(text)
         [] OTHER                 -> 1

Newlines(text) == Cardinality({i \in DOMAIN text : text[i] = "\n"})

(* The lines of a lexeme: the scanner skips a newline behind a backslash. *)
LexemeLines(text) ==
    Cardinality({i \in DOMAIN Items(text) : Items(text)[i] = <<"\n">>})

Consumed == IF tokens = <<>> THEN 0 ELSE Last(tokens).to
Line == IF tokens = <<>> THEN 1 ELSE Last(tokens).line

NextToken ==
    LET rest == SubSeq(source, Consumed + 1, Len(source))
        trivia == TriviaLength(rest)
        text == SubSeq(rest, trivia + 1, Len(rest))
        lexeme == SubSeq(text, 1, LexemeLength(text))
    IN [type |-> CASE lexeme = <<>>      -> "EOF"
                   [] IsLexeme(lexeme)   -> TypeOf(lexeme)
                   [] OTHER              -> "ERROR",
        from |-> Consumed + trivia,
        to |-> Consumed + trivia + Len(lexeme),
        line |-> Line + Newlines(SubSeq(rest, 1, trivia)) + LexemeLines(lexeme)]

Init == source \in Seq(STRING) /\ tokens = <<>>

Ended == tokens # <<>> /\ Last(tokens).type = "EOF"

TakeToken ==
    /\ ~Ended
    /\ tokens' = Append(tokens, NextToken)
    /\ UNCHANGED source

(* Every source ends: its tokens are all given. *)
Spec == Init /\ [][TakeToken]_vars /\ <>Ended
=============================================================================
