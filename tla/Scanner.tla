------------------------------ MODULE Scanner ------------------------------
(***************************************************************************)
(* src/lexer/scanner.c: scanToken, which the parser calls until it gets    *)
(* TOKEN_EOF, one turn of a loop per step; and unescapeString of           *)
(* src/compiler/compiler.c, which reads the string that it returns.        *)
(* Characters are strings of one character.  The source ends with a NUL,   *)
(* and offsets count from 0.  A token is given by the characters it was    *)
(* made of; an error's start and length are those of a message instead.    *)
(***************************************************************************)
EXTENDS Integers, SequencesExt

CONSTANT Sources    \* sequences of characters

VARIABLES
    source,     \* the text that was given to initScanner
    start,      \* scanner.start
    current,    \* scanner.current
    line,       \* scanner.line
    loop,       \* the loop that runs: "skip", "line comment", "block comment", "word", ...
    depth,      \* how deep block comments nest
    tokens      \* those that scanToken returned

vars == <<source, start, current, line, loop, depth, tokens>>

(* peek and peekNext *)
CharAt(offset) == IF offset < Len(source) THEN source[offset + 1] ELSE "NUL"
Peek == CharAt(current)
PeekNext == IF Peek = "NUL" THEN "NUL" ELSE CharAt(current + 1)
AtEnd == Peek = "NUL"

(* isAlpha and isDigit, for the characters that Sources has *)
IsAlpha(c) == c \in {"a", "b", "c", "d", "e", "f", "h", "i", "k", "l", "n", "o", "r", "s", "t", "u", "v", "w", "x", "_"}
IsDigit(c) == c \in {"0", "1"}

Init ==
    /\ source \in Sources
    /\ start = 0 /\ current = 0 /\ line = 1
    /\ loop = "skip" /\ depth = 0 /\ tokens = <<>>

(* scanToken is called again unless the last token was TOKEN_EOF. *)
Ended == tokens # <<>> /\ Last(tokens).type = "EOF"
In(name) == loop = name /\ ~Ended

(* A turn of the loop that takes n characters. *)
Take(n) ==
    /\ current' = current + n
    /\ UNCHANGED <<source, start, tokens>>

Lines(n) == line' = line + n

(* makeToken and errorToken, of what ends at the offset *)
MakeToken(type, from, to) ==
    /\ tokens' = Append(tokens, [type |-> type, from |-> from, to |-> to, line |-> line])
    /\ current' = to /\ start' = from
    /\ loop' = "skip"
    /\ UNCHANGED <<source, line, depth>>

-----------------------------------------------------------------------------
(* skipWhitespaceAndComments *)

SkipBlank ==
    /\ In("skip") /\ Peek \in {" ", "\r", "\t"}
    /\ Take(1) /\ UNCHANGED <<line, loop, depth>>

SkipNewline ==
    /\ In("skip") /\ Peek = "\n"
    /\ Take(1) /\ Lines(1) /\ UNCHANGED <<loop, depth>>

LineComment ==
    /\ In("skip") /\ Peek = "/" /\ PeekNext = "/"
    /\ loop' = "line comment"
    /\ Take(0) /\ UNCHANGED <<line, depth>>

SkipLine ==
    /\ In("line comment")
    /\ IF Peek = "\n" \/ AtEnd THEN Take(0) /\ loop' = "skip" ELSE Take(1) /\ UNCHANGED loop
    /\ UNCHANGED <<line, depth>>

BlockComment ==
    /\ In("skip") /\ Peek = "/" /\ PeekNext = "*"
    /\ loop' = "block comment" /\ depth' = 1
    /\ Take(2) /\ UNCHANGED line


NestComment ==
    /\ In("block comment") /\ depth > 0 /\ Peek = "/" /\ PeekNext = "*"
    /\ depth' = depth + 1
    /\ Take(2) /\ UNCHANGED <<line, loop>>

CloseComment ==
    /\ In("block comment") /\ depth > 0 /\ Peek = "*" /\ PeekNext = "/"
    /\ depth' = depth - 1
    /\ Take(2) /\ UNCHANGED <<line, loop>>

SkipComment ==
    /\ In("block comment") /\ depth > 0 /\ ~AtEnd
    /\ <<Peek, PeekNext>> \notin {<<"/", "*">>, <<"*", "/">>}
    /\ Lines(IF Peek = "\n" THEN 1 ELSE 0)
    /\ Take(1) /\ UNCHANGED <<loop, depth>>

EndComment ==
    /\ In("block comment")
    /\ depth = 0 \/ AtEnd
    /\ loop' = "skip" /\ depth' = 0
    /\ Take(0) /\ UNCHANGED line

-----------------------------------------------------------------------------
(* scanToken *)

AtToken ==
    /\ In("skip")
    /\ Peek \notin {" ", "\r", "\t", "\n"}
    /\ Peek = "/" => PeekNext \notin {"/", "*"}

EndOfSource == AtToken /\ AtEnd /\ MakeToken("EOF", current, current)

(* advance(), and the function that reads the rest. *)
Begin(name) ==
    /\ AtToken
    /\ start' = current /\ current' = current + 1
    /\ loop' = name
    /\ UNCHANGED <<source, line, depth, tokens>>

BeginWord == IsAlpha(Peek) /\ Begin("word")
BeginNumber == IsDigit(Peek) /\ Begin("number")
BeginString == Peek = "\"" /\ Begin("string")

(* The symbols of one character, and those that match('=') makes of two. *)
Single ==
    "(" :> "LEFT_PAREN" @@ ")" :> "RIGHT_PAREN" @@ "{" :> "LEFT_BRACE" @@ "}" :> "RIGHT_BRACE"
    @@ "[" :> "LEFT_BRACKET" @@ "]" :> "RIGHT_BRACKET" @@ ";" :> "SEMICOLON" @@ ":" :> "COLON"
    @@ "," :> "COMMA" @@ "." :> "DOT" @@ "-" :> "MINUS" @@ "+" :> "PLUS" @@ "/" :> "SLASH" @@ "*" :> "STAR"
    @@ "%" :> "PERCENT" @@ "!" :> "BANG" @@ "=" :> "EQUAL" @@ "<" :> "LESS" @@ ">" :> "GREATER"
WithEqual ==
    "!" :> "BANG_EQUAL" @@ "=" :> "EQUAL_EQUAL" @@ "<" :> "LESS_EQUAL" @@ ">" :> "GREATER_EQUAL"

Symbol ==
    /\ AtToken /\ Peek \in DOMAIN Single
    /\ IF Peek \in DOMAIN WithEqual /\ PeekNext = "="
         THEN MakeToken(WithEqual[Peek], current, current + 2)
         ELSE MakeToken(Single[Peek], current, current + 1)

UnexpectedCharacter ==
    /\ AtToken /\ ~AtEnd /\ ~IsAlpha(Peek) /\ ~IsDigit(Peek)
    /\ Peek \notin DOMAIN Single \cup {"\""}
    /\ MakeToken("ERROR", current, current + 1)

-----------------------------------------------------------------------------
(* identifier: identifierType goes by the first letter, or the first two. *)

Word == SubSeq(source, start + 1, current)

(* checkKeyword *)
CheckKeyword(from, rest, type) ==
    IF Len(Word) = from + Len(rest) /\ SubSeq(Word, from + 1, Len(Word)) = rest THEN type ELSE "IDENTIFIER"

IdentifierType ==
    CASE Word[1] = "a" -> CheckKeyword(1, <<"n", "d">>, "AND")
      [] Word[1] = "b" -> CheckKeyword(1, <<"r", "e", "a", "k">>, "BREAK")
      [] Word[1] = "c" -> CheckKeyword(1, <<"o", "n", "t", "i", "n", "u", "e">>, "CONTINUE")
      [] Word[1] = "e" -> CheckKeyword(1, <<"l", "s", "e">>, "ELSE")
      [] Word[1] = "f" /\ Len(Word) > 1 ->
            CASE Word[2] = "a" -> CheckKeyword(2, <<"l", "s", "e">>, "FALSE")
              [] Word[2] = "o" -> CheckKeyword(2, <<"r">>, "FOR")
              [] Word[2] = "u" -> CheckKeyword(2, <<"n">>, "FUN")
              [] OTHER -> "IDENTIFIER"
      [] Word[1] = "i" -> CheckKeyword(1, <<"f">>, "IF")
      [] Word[1] = "n" -> CheckKeyword(1, <<"i", "l">>, "NIL")
      [] Word[1] = "o" -> CheckKeyword(1, <<"r">>, "OR")
      [] Word[1] = "r" -> CheckKeyword(1, <<"e", "t", "u", "r", "n">>, "RETURN")
      [] Word[1] = "t" -> CheckKeyword(1, <<"r", "u", "e">>, "TRUE")
      [] Word[1] = "v" -> CheckKeyword(1, <<"a", "r">>, "VAR")
      [] Word[1] = "w" -> CheckKeyword(1, <<"h", "i", "l", "e">>, "WHILE")
      [] OTHER -> "IDENTIFIER"

Identifier ==
    /\ In("word")
    /\ IF IsAlpha(Peek) \/ IsDigit(Peek)
         THEN Take(1) /\ UNCHANGED <<line, loop, depth>>
         ELSE MakeToken(IdentifierType, start, current)

-----------------------------------------------------------------------------
(* number: digits, and a point if a digit is behind it. *)

Number ==
    /\ In("number")
    /\ CASE IsDigit(Peek) -> Take(1) /\ UNCHANGED <<line, loop, depth>>
         [] Peek = "." /\ IsDigit(PeekNext) -> Take(1) /\ loop' = "fraction" /\ UNCHANGED <<line, depth>>
         [] OTHER -> MakeToken("NUMBER", start, current)

Fraction ==
    /\ In("fraction")
    /\ IF IsDigit(Peek)
         THEN Take(1) /\ UNCHANGED <<line, loop, depth>>
         ELSE MakeToken("NUMBER", start, current)

-----------------------------------------------------------------------------
(* string: a backslash takes the next character with it, unless it is the last *)

(* Mutant: the next character is taken even if it is the NUL. *)
SkippedPastEnd == IF Peek = "\\" THEN 2 ELSE 1

Skipped == IF Peek = "\\" /\ PeekNext # "NUL" THEN 2 ELSE 1

String ==
    /\ In("string") /\ Peek # "\"" /\ ~AtEnd
    /\ Lines(IF Peek = "\n" THEN 1 ELSE 0)
    /\ Take(Skipped) /\ UNCHANGED <<loop, depth>>

CloseString == In("string") /\ Peek = "\"" /\ MakeToken("STRING", start, current + 1)

UnterminatedString == In("string") /\ AtEnd /\ MakeToken("ERROR", start, current)

-----------------------------------------------------------------------------
(* unescapeString, of the characters between the quotes *)

Escaped == "n" :> "\n" @@ "t" :> "\t" @@ "r" :> "\r" @@ "\\" :> "\\" @@ "\"" :> "\"" @@ "0" :> "NUL"

(* Mutant: an escaped backslash is not one. *)
EscapesRaw(raw, i) ==
    raw[i] = "\\" /\ i + 1 <= Len(raw) /\ raw[i + 1] \in DOMAIN Escaped \ {"\\"}

EscapesAt(raw, i) == raw[i] = "\\" /\ i + 1 <= Len(raw) /\ raw[i + 1] \in DOMAIN Escaped

RECURSIVE UnescapedFrom(_, _)
UnescapedFrom(raw, i) ==
    IF i > Len(raw) THEN <<>>
    ELSE IF EscapesAt(raw, i) THEN <<Escaped[raw[i + 1]]>> \o UnescapedFrom(raw, i + 2)
    ELSE <<raw[i]>> \o UnescapedFrom(raw, i + 1)

UnescapeString(token) == UnescapedFrom(SubSeq(source, token.from + 2, token.to - 1), 1)

-----------------------------------------------------------------------------

SkipWhitespaceAndComments ==
    \/ SkipBlank \/ SkipNewline \/ LineComment \/ SkipLine
    \/ BlockComment \/ NestComment \/ CloseComment \/ SkipComment \/ EndComment

ScanToken ==
    \/ EndOfSource \/ BeginWord \/ BeginNumber \/ BeginString \/ Symbol \/ UnexpectedCharacter
    \/ Identifier \/ Number \/ Fraction \/ String \/ CloseString \/ UnterminatedString

Next == SkipWhitespaceAndComments \/ ScanToken

(* scanToken is C code without a wait in it, and the parser calls it up to the end. *)
Spec == Init /\ [][Next]_vars /\ WF_vars(Next)

-----------------------------------------------------------------------------
(* Correctness. *)

(* The scanner stays within the text and its NUL: no loop steps over the end, *)
(* whatever it stands on there.                                              *)
TypeOK ==
    /\ start \in 0..current /\ current \in 0..Len(source)
    /\ line \in 1..(Len(source) + 1)
    /\ loop \in {"skip", "line comment", "block comment", "word", "number", "fraction", "string"}
    /\ depth \in Nat /\ (depth > 0 => loop = "block comment")

Lexical == INSTANCE Lexemes


(* What unescapeString makes of a string is what its items stand for: it and    *)
(* string() agree on which backslash takes which character with it.            *)
StringsMean ==
    \A i \in DOMAIN tokens :
        LET token == tokens[i] IN
        token.type = "STRING" =>
            UnescapeString(token) = Lexical!StringValue(SubSeq(source, token.from + 1, token.to))
=============================================================================
