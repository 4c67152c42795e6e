---------------------------- MODULE Expressions ----------------------------
(***************************************************************************)
(* The Pratt parser of src/compiler/compiler.c, its code generation, and   *)
(* its recovery from errors: expressions, expression statements and        *)
(* variable declarations at the top level of a script.  The recursion of   *)
(* the C functions is the sequence `calls' of their activations, and a     *)
(* step is what the last of them does up to its next call, its return, or  *)
(* its next token.                                                         *)
(* The scanner gives any token next, up to the length of the source.  What *)
(* was read and emitted is forgotten after an error: compile() then        *)
(* returns NULL whatever the code is.                                      *)
(***************************************************************************)
EXTENDS Bytecode, Grammar

CONSTANT Sources    \* sources: their tokens, and a bound on their length

ASSUME SourcesAssumption == \A s \in Sources : s.length \in Nat

VARIABLES
    source,      \* the member of Sources that is compiled
    input,       \* the tokens that were scanned
    left,        \* how many more there may be
    current,     \* parser.current.type
    previous,    \* parser.previous.type
    panicMode,   \* parser.panicMode
    verdict,     \* "none" while ~parser.hadError, or what the first error was about
    code,        \* currentChunk()->code
    constants,   \* currentChunk()->constants.count
    calls        \* the activations of the parser's functions, the last one runs

parser == <<input, left, current, previous>>
errors == <<panicMode, verdict>>
chunk == <<code, constants>>
vars == <<source, parser, errors, chunk, calls>>

(* Precedence: PREC_NONE, PREC_ASSIGNMENT ... PREC_PRIMARY *)
PREC_NONE == 0
PREC_ASSIGNMENT == 1
PREC_OR == 2
PREC_AND == 3
PREC_EQUALITY == 4
PREC_COMPARISON == 5
PREC_TERM == 6
PREC_FACTOR == 7
PREC_UNARY == 8
PREC_CALL == 9

(* rules[] *)
HasPrefix(t) == t \in {"(", "{", "["} \cup Unaries \cup {Assignable} \cup Constants \cup Literals

Precedence(t) ==
    CASE t \in {"(", "["}  -> PREC_CALL
      [] t \in Factors     -> PREC_FACTOR
      [] t \in Terms       -> PREC_TERM
      [] t \in Comparisons -> PREC_COMPARISON
      [] t \in Equalities  -> PREC_EQUALITY
      [] t = "and"         -> PREC_AND
      [] t = "or"          -> PREC_OR
      [] OTHER             -> PREC_NONE

(* The instructions of an operator: binary() and unary(). *)
Operators ==
    [binary |-> "!=" :> <<"OP_EQUAL", "OP_NOT">> @@ "==" :> <<"OP_EQUAL">> @@ ">" :> <<"OP_GREATER">>
                @@ ">=" :> <<"OP_LESS", "OP_NOT">> @@ "<" :> <<"OP_LESS">> @@ "<=" :> <<"OP_GREATER", "OP_NOT">>
                @@ "+" :> <<"OP_ADD">> @@ "-" :> <<"OP_SUBTRACT">> @@ "*" :> <<"OP_MULTIPLY">>
                @@ "/" :> <<"OP_DIVIDE">> @@ "%" :> <<"OP_MODULO">>,
     unary |-> "!" :> <<"OP_NOT">> @@ "-" :> <<"OP_NEGATE">>]

LiteralCode == "nil" :> "OP_NIL" @@ "true" :> "OP_TRUE" @@ "false" :> "OP_FALSE"

-----------------------------------------------------------------------------

Running == calls # <<>>
Top == Last(calls)
In(function, step) == Running /\ Top.function = function /\ Top.step = step /\ current # "error"

(* The activation goes on at a step, with other activations over it. *)
Become(frame, over) == calls' = Front(calls) \o <<frame>> \o over
Goto(step, over) == Become([Top EXCEPT !.step = step], over)
Return == calls' = Front(calls)

Parse(precedence) ==
    [function |-> "parsePrecedence", step |-> "start", precedence |-> precedence]
Expression == Parse(PREC_ASSIGNMENT)

(* advanceParser; "error" is a TOKEN_ERROR, which it skips before it returns. *)
Advance ==
    \E t \in IF left = 0 THEN {"EOF"} ELSE source.tokens \cup {"EOF"} :
        /\ t = "{" => current \notin {";", "start"}
        /\ previous' = (IF current = "error" THEN previous ELSE current)
        /\ current' = t
        /\ left' = IF t = "EOF" THEN 0 ELSE left - 1
        /\ input' = IF verdict # "none" THEN <<>>
                    ELSE IF current = "EOF" THEN input ELSE Append(input, t)
Stay == UNCHANGED parser

(* errorAt, with parser.hadError; it says nothing in panic mode. *)
Report(kind) ==
    /\ panicMode' = TRUE
    /\ verdict' = IF verdict = "none" THEN kind ELSE verdict
NoError == UNCHANGED errors

(* emitByte and emitBytes *)
Emitted(bytes) == IF verdict = "none" THEN code \o bytes ELSE <<>>
Emit(bytes) == code' = Emitted(bytes)
NoCode == UNCHANGED code

(* makeConstant: its index, and how it may fail. *)
Constant == IF constants > UINT8_MAX THEN 0 ELSE constants
AddConstant ==
    /\ constants' = IF verdict = "none" THEN constants + 1 ELSE 0
    /\ IF constants > UINT8_MAX THEN Report("limit") ELSE NoError
NoConstant == UNCHANGED constants

-----------------------------------------------------------------------------
(* compile(): advanceParser, then declarations up to the end of the source. *)

Init ==
    /\ source \in Sources
    /\ left = source.length - 1
    /\ current \in source.tokens \ {"{"} /\ previous = "start" /\ input = <<current>>
    /\ panicMode = FALSE /\ verdict = "none"
    /\ code = <<>> /\ constants = 0
    /\ calls = <<[function |-> "compile", step |-> "declarations"]>>

(* advanceParser reports a TOKEN_ERROR, and goes on to the next token. *)
SkipErrorToken ==
    /\ Running /\ current = "error"
    /\ Advance /\ Report("syntax")
    /\ UNCHANGED <<source, chunk, calls>>

BeginVarDeclaration ==
    /\ In("compile", "declarations") /\ current = "var"
    /\ Advance
    /\ Goto("declared", <<[function |-> "varDeclaration", step |-> "name"]>>)
    /\ UNCHANGED <<source, errors, chunk>>

BeginExpressionStatement ==
    /\ In("compile", "declarations") /\ current \notin {"var", "EOF"}
    /\ Goto("declared", <<[function |-> "expressionStatement", step |-> "expression"], Expression>>)
    /\ UNCHANGED <<source, parser, errors, chunk>>

Declared ==
    /\ In("compile", "declared")
    /\ panicMode' = FALSE
    /\ Goto(IF panicMode THEN "synchronize" ELSE "declarations", <<>>)
    /\ UNCHANGED <<source, parser, verdict, chunk>>

(* synchronize(): to behind a semicolon, or to a keyword that begins a statement. *)
Synchronized == current = "EOF" \/ previous = ";" \/ current = "var"

Synchronize ==
    /\ In("compile", "synchronize")
    /\ IF Synchronized
         THEN Goto("declarations", <<>>) /\ Stay
         ELSE Advance /\ UNCHANGED calls
    /\ UNCHANGED <<source, errors, chunk>>

EndCompiler ==
    /\ In("compile", "declarations") /\ current = "EOF"
    /\ Emit(<<"OP_NIL", "OP_RETURN">>)
    /\ Return
    /\ UNCHANGED <<source, parser, errors, constants>>

-----------------------------------------------------------------------------
(* Declarations and statements *)

(* consume(): the token, or an error and no step forward. *)
Consume(token) ==
    IF current = token THEN Advance /\ NoError ELSE Stay /\ Report("syntax")

VariableName ==
    /\ In("varDeclaration", "name")
    /\ Consume(Assignable)
    /\ Goto("constant", <<>>)
    /\ UNCHANGED <<source, chunk>>

(* parseVariable makes a constant of the name even if it was not there. *)
VariableConstant ==
    /\ In("varDeclaration", "constant")
    /\ AddConstant
    /\ Become([Top EXCEPT !.step = "initializer"] @@ [global |-> Constant], <<>>)
    /\ UNCHANGED <<source, parser, code>>

Initializer ==
    /\ In("varDeclaration", "initializer")
    /\ IF current = "="
         THEN Advance /\ Goto("semicolon", <<Expression>>) /\ NoCode
         ELSE Emit(<<"OP_NIL">>) /\ Goto("semicolon", <<>>) /\ Stay
    /\ UNCHANGED <<source, errors, constants>>

EndVarDeclaration ==
    /\ In("varDeclaration", "semicolon")
    /\ Consume(";")
    /\ Emit(<<"OP_DEFINE_GLOBAL", Top.global>>)
    /\ Return
    /\ UNCHANGED <<source, constants>>

EndExpressionStatement ==
    /\ In("expressionStatement", "expression")
    /\ Consume(";")
    /\ Emit(<<"OP_POP">>)
    /\ Return
    /\ UNCHANGED <<source, constants>>

-----------------------------------------------------------------------------
(* parsePrecedence *)

(* Mutant: a token without a prefix rule is left where it is. *)
PrefixUnread ==
    /\ In("parsePrecedence", "start")
    /\ IF HasPrefix(current)
         THEN Advance /\ Goto("prefix", <<>>) /\ NoError
         ELSE Stay /\ Return /\ Report("syntax")
    /\ UNCHANGED <<source, chunk>>

Prefix ==
    /\ In("parsePrecedence", "start")
    /\ Advance /\ Goto("prefix", <<>>) /\ NoError
    /\ UNCHANGED <<source, chunk>>

ExpectExpression ==
    /\ In("parsePrecedence", "prefix") /\ ~HasPrefix(previous)
    /\ Report("syntax") /\ Return
    /\ UNCHANGED <<source, parser, chunk>>


CanAssign == Top.precedence <= PREC_ASSIGNMENT

Literal ==
    /\ In("parsePrecedence", "prefix") /\ previous \in Literals
    /\ Emit(<<LiteralCode[previous]>>) /\ Goto("infix", <<>>)
    /\ UNCHANGED <<source, parser, errors, constants>>

(* number() and string() *)
ConstantExpression ==
    /\ In("parsePrecedence", "prefix") /\ previous \in Constants
    /\ AddConstant /\ Emit(<<"OP_CONSTANT", Constant>>) /\ Goto("infix", <<>>)
    /\ UNCHANGED <<source, parser>>

(* variable(), of a global: namedVariable takes the `=' before the expression. *)
Variable ==
    /\ In("parsePrecedence", "prefix") /\ previous = Assignable
    /\ AddConstant
    /\ IF CanAssign /\ current = "="
         THEN /\ Advance /\ NoCode
              /\ Goto("infix", <<[function |-> "namedVariable", step |-> "value", global |-> Constant],
                                 Expression>>)
         ELSE Emit(<<"OP_GET_GLOBAL", Constant>>) /\ Goto("infix", <<>>) /\ Stay
    /\ UNCHANGED source

EndAssignment ==
    /\ In("namedVariable", "value")
    /\ Emit(<<"OP_SET_GLOBAL", Top.global>>) /\ Return
    /\ UNCHANGED <<source, parser, errors, constants>>

Grouping ==
    /\ In("parsePrecedence", "prefix") /\ previous = "("
    /\ Goto("infix", <<[function |-> "grouping", step |-> "close"], Expression>>)
    /\ UNCHANGED <<source, parser, errors, chunk>>

EndGrouping ==
    /\ In("grouping", "close")
    /\ Consume(")") /\ Return
    /\ UNCHANGED <<source, chunk>>

Unary ==
    /\ In("parsePrecedence", "prefix") /\ previous \in Unaries
    /\ Goto("infix", <<[function |-> "unary", step |-> "emit", operator |-> previous], Parse(PREC_UNARY)>>)
    /\ UNCHANGED <<source, parser, errors, chunk>>

EndUnary ==
    /\ In("unary", "emit")
    /\ Emit(Operators.unary[Top.operator]) /\ Return
    /\ UNCHANGED <<source, parser, errors, constants>>

(* arrayLiteral, mapLiteral and argumentList *)
List(close, instruction) ==
    [function |-> "list", step |-> "start", close |-> close, instruction |-> instruction, count |-> 0]

Display ==
    /\ In("parsePrecedence", "prefix") /\ previous \in {"[", "{"}
    /\ Goto("infix", <<IF previous = "[" THEN List("]", "OP_ARRAY") ELSE List("}", "OP_MAP")>>)
    /\ UNCHANGED <<source, parser, errors, chunk>>

(* The infix operators that bind at least as tight as the precedence asks. *)
Infix(operators) ==
    /\ In("parsePrecedence", "infix")
    /\ Top.precedence <= Precedence(current) /\ current \in operators
    /\ Advance

Binary ==
    /\ Infix(Factors \cup Terms \cup Comparisons \cup Equalities)
    /\ Goto("infix", <<[function |-> "binary", step |-> "emit", operator |-> current],
                       Parse(Precedence(current) + 1)>>)
    /\ UNCHANGED <<source, errors, chunk>>

EndBinary ==
    /\ In("binary", "emit")
    /\ Emit(Operators.binary[Top.operator]) /\ Return
    /\ UNCHANGED <<source, parser, errors, constants>>

(* and_: the left operand stays if it is false, and else gives way to the right. *)
And ==
    /\ Infix({"and"})
    /\ code' = IF verdict = "none" THEN Append(EmitJump(code, "OP_JUMP_IF_FALSE"), "OP_POP") ELSE <<>>
    /\ Goto("infix", <<[function |-> "and", step |-> "patch", jump |-> JumpOffset(code)], Parse(PREC_AND)>>)
    /\ UNCHANGED <<source, errors, constants>>

(* or_: two jumps, of which the first goes to behind the second. *)
Or ==
    /\ Infix({"or"})
    /\ LET jumps == EmitJump(EmitJump(code, "OP_JUMP_IF_FALSE"), "OP_JUMP") IN
       /\ code' = IF verdict = "none" THEN Append(PatchJump(jumps, JumpOffset(code)), "OP_POP") ELSE <<>>
       /\ Goto("infix", <<[function |-> "or", step |-> "patch", jump |-> JumpOffset(code) + 3], Parse(PREC_OR)>>)
    /\ UNCHANGED <<source, errors, constants>>

(* Mutant: patchJump does not look at the limit. *)
EndJumpUnchecked ==
    /\ In("and", "patch") \/ In("or", "patch")
    /\ code' = (IF verdict = "none" THEN PatchJump(code, Top.jump) ELSE <<>>)
    /\ NoError
    /\ Return
    /\ UNCHANGED <<source, parser, constants>>

EndJump ==
    /\ In("and", "patch") \/ In("or", "patch")
    /\ code' = (IF verdict = "none" THEN PatchJump(code, Top.jump) ELSE <<>>)
    /\ IF verdict = "none" /\ TooFar(code, Top.jump) THEN Report("limit") ELSE NoError
    /\ Return
    /\ UNCHANGED <<source, parser, constants>>

Call ==
    /\ Infix({"("})
    /\ Goto("infix", <<List(")", "OP_CALL")>>)
    /\ UNCHANGED <<source, errors, chunk>>

(* index_ assigns if the activation that called it could. *)
Index ==
    /\ Infix({"["})
    /\ Goto("infix", <<[function |-> "index", step |-> "close", canAssign |-> CanAssign], Expression>>)
    /\ UNCHANGED <<source, errors, chunk>>

IndexClose ==
    /\ In("index", "close")
    /\ Consume("]") /\ Goto("assign", <<>>)
    /\ UNCHANGED <<source, chunk>>

IndexAssign ==
    /\ In("index", "assign")
    /\ IF Top.canAssign /\ current = "="
         THEN Advance /\ Goto("emit", <<Expression>>) /\ NoCode
         ELSE Stay /\ Return /\ Emit(<<"OP_GET_INDEX">>)
    /\ UNCHANGED <<source, errors, constants>>

EndIndex ==
    /\ In("index", "emit")
    /\ Emit(<<"OP_SET_INDEX">>) /\ Return
    /\ UNCHANGED <<source, parser, errors, constants>>

(* No operator binds tight enough: parsePrecedence returns, and reports an `=' *)
(* that nothing took.                                                          *)
EndExpression ==
    /\ In("parsePrecedence", "infix") /\ Top.precedence > Precedence(current)
    /\ IF CanAssign /\ current = "=" THEN Advance /\ Report("syntax") ELSE Stay /\ NoError
    /\ Return
    /\ UNCHANGED <<source, chunk>>

-----------------------------------------------------------------------------
(* Lists: `check' for an empty one, then items and commas. *)

ListStart ==
    /\ In("list", "start")
    /\ IF current = Top.close THEN Goto("close", <<>>)
       ELSE Goto(IF Top.instruction = "OP_MAP" THEN "colon" ELSE "item", <<Expression>>)
    /\ UNCHANGED <<source, parser, errors, chunk>>

MapColon ==
    /\ In("list", "colon")
    /\ Consume(":") /\ Goto("item", <<Expression>>)
    /\ UNCHANGED <<source, chunk>>

(* Mutant: the count is wider than the byte that is emitted. *)
CountItemWide ==
    /\ In("list", "item")
    /\ Become([Top EXCEPT !.step = "comma", !.count = @ + 1], <<>>)
    /\ UNCHANGED <<source, parser, errors, chunk>>

(* The count is a uint8_t: it wraps, and the error says so. *)
CountItem ==
    /\ In("list", "item")
    /\ IF Top.count = UINT8_MAX THEN Report("limit") ELSE NoError
    /\ Become([Top EXCEPT !.step = "comma", !.count = (@ + 1) % UINT8_COUNT], <<>>)
    /\ UNCHANGED <<source, parser, chunk>>

ListComma ==
    /\ In("list", "comma")
    /\ IF current = ","
         THEN Advance /\ Goto(IF Top.instruction = "OP_MAP" THEN "colon" ELSE "item", <<Expression>>)
         ELSE Stay /\ Goto("close", <<>>)
    /\ UNCHANGED <<source, errors, chunk>>

ListClose ==
    /\ In("list", "close")
    /\ Consume(Top.close)
    /\ Emit(<<Top.instruction, Top.count>>) /\ Return
    /\ UNCHANGED <<source, constants>>

-----------------------------------------------------------------------------

PrefixRule ==
    \/ ExpectExpression \/ Literal \/ ConstantExpression \/ Variable \/ Grouping \/ Unary \/ Display

InfixRule == Binary \/ And \/ Or \/ Call \/ Index \/ EndExpression

Resume ==
    \/ EndAssignment \/ EndGrouping \/ EndUnary \/ EndBinary \/ EndJump
    \/ IndexClose \/ IndexAssign \/ EndIndex
    \/ ListStart \/ MapColon \/ CountItem \/ ListComma \/ ListClose

Declaration ==
    \/ SkipErrorToken
    \/ BeginVarDeclaration \/ BeginExpressionStatement \/ Declared \/ Synchronize \/ EndCompiler
    \/ VariableName \/ VariableConstant \/ Initializer \/ EndVarDeclaration \/ EndExpressionStatement

Next == Declaration \/ Prefix \/ PrefixRule \/ InfixRule \/ Resume

(* compile() is one call of C code: it goes on until it returns. *)
Spec == Init /\ [][Next]_vars /\ WF_vars(Next)

-----------------------------------------------------------------------------
(* What run() does with the code, and what a tree means.  A value is the      *)
(* number of the event that made it; `events' are the instructions that made  *)
(* or changed one, with their operands; `truths' says which of the values     *)
(* that were asked are true, and both answers are possible.                   *)

Blank == [ip |-> 0, stack |-> <<>>, events |-> <<>>, truths |-> <<>>, constants |-> 0]

(* Pops n values and pushes what the instruction makes of them. *)
Operate(m, instruction, n) ==
    LET rest == Len(m.stack) - n IN
    [m EXCEPT !.events = Append(@, <<instruction>> \o SubSeq(m.stack, rest + 1, Len(m.stack))),
              !.stack = Append(SubSeq(@, 1, rest), Len(m.events) + 1)]

(* An instruction that names a constant, with the n values on top of the stack. *)
Named(m, instruction, constant, n) ==
    [m EXCEPT !.events = Append(@, <<instruction, constant>> \o SubSeq(m.stack, Len(m.stack) + 1 - n, Len(m.stack)))]

Load(m, instruction, constant) ==
    [Named(m, instruction, constant, 0) EXCEPT !.stack = Append(@, Len(m.events) + 1)]

Pop(m) == [m EXCEPT !.stack = Front(@)]

(* The assigned value, and not the assignment, is what it leaves. *)
SetIndex(m) == [Operate(m, "OP_SET_INDEX", 3) EXCEPT !.stack = Append(Front(@), Last(m.stack))]

(* isFalsey(peek(0)): a value that was asked before answers as it did. *)
Asked(m) ==
    LET value == Last(m.stack) IN
    {[m EXCEPT !.truths = (value :> truth) @@ @] :
        truth \in IF value \in DOMAIN m.truths THEN {m.truths[value]} ELSE BOOLEAN}
Holds(m) == m.truths[Last(m.stack)]

Steps(bytes, m) ==
    LET instruction == ByteAt(bytes, m.ip)
        operand == ByteAt(bytes, m.ip + 1)
        Over(n) == [m EXCEPT !.ip = @ + n]
    IN CASE instruction = "OP_JUMP_IF_FALSE" ->
              {[a EXCEPT !.ip = IF Holds(a) THEN @ + 3 ELSE JumpTarget(bytes, @ + 1)] : a \in Asked(m)}
         [] instruction = "OP_JUMP" -> {[m EXCEPT !.ip = JumpTarget(bytes, @ + 1)]}
         [] instruction \in {"OP_NIL", "OP_TRUE", "OP_FALSE"} -> {Operate(Over(1), instruction, 0)}
         [] instruction \in {"OP_CONSTANT", "OP_GET_GLOBAL"} -> {Load(Over(2), instruction, operand)}
         [] instruction = "OP_SET_GLOBAL" -> {Named(Over(2), instruction, operand, 1)}
         [] instruction = "OP_DEFINE_GLOBAL" -> {Pop(Named(Over(2), instruction, operand, 1))}
         [] instruction = "OP_POP" -> {Pop(Over(1))}
         [] instruction \in {"OP_NOT", "OP_NEGATE"} -> {Operate(Over(1), instruction, 1)}
         [] instruction = "OP_SET_INDEX" -> {SetIndex(Over(1))}
         [] instruction = "OP_CALL" -> {Operate(Over(2), instruction, operand + 1)}
         [] instruction = "OP_ARRAY" -> {Operate(Over(2), instruction, operand)}
         [] instruction = "OP_MAP" -> {Operate(Over(2), instruction, 2 * operand)}
         [] OTHER -> {Operate(Over(1), instruction, 2)}

(* The states up to OP_RETURN, along every path.  No instruction jumps back. *)
RECURSIVE Run(_, _)
Run(bytes, m) ==
    IF ByteAt(bytes, m.ip) = "OP_RETURN" THEN {m} ELSE {m} \cup UNION {Run(bytes, n) : n \in Steps(bytes, m)}

(* The tree's operands are evaluated from left to right, and then its own      *)
(* instructions.  The names and constants of the text are numbered from left to *)
(* right, the ones that are skipped included.                                   *)
RECURSIVE Denote(_, _)
Denote(tree, s) ==
    LET label == tree[1]
        below == Tail(tree)
        named == [s EXCEPT !.constants = @ + 1]
        operands == FoldLeft(LAMBDA states, t : UNION {Denote(t, x) : x \in states}, {s}, below)
        Applied(instructions) ==
            {FoldLeft(LAMBDA x, instruction : Operate(x, instruction, 1),
                      Operate(y, Head(instructions), Len(below)), Tail(instructions)) : y \in operands}
        asked == UNION {Asked(x) : x \in Denote(below[1], s)}
        Other(x) == Denote(below[2], Pop(x))
        Skipped(x) == {[x EXCEPT !.constants = (CHOOSE y \in Other(x) : TRUE).constants]}
    IN CASE label \in Literals -> {Operate(s, LiteralCode[label], 0)}
         [] label = Assignable -> {Load(named, "OP_GET_GLOBAL", s.constants)}
         [] label \in Constants -> {Load(named, "OP_CONSTANT", s.constants)}
         [] label = "set" -> {Named(x, "OP_SET_GLOBAL", s.constants, 1) : x \in Denote(below[1], named)}
         [] label = "var" -> {Pop(Named(x, "OP_DEFINE_GLOBAL", s.constants, 1)) : x \in Denote(below[1], named)}
         [] label = "statement" -> {Pop(x) : x \in operands}
         [] label = "and" -> UNION {IF Holds(x) THEN Other(x) ELSE Skipped(x) : x \in asked}
         [] label = "or" -> UNION {IF Holds(x) THEN Skipped(x) ELSE Other(x) : x \in asked}
         [] label = "set index" -> {SetIndex(x) : x \in operands}
         [] label = "index" -> Applied(<<"OP_GET_INDEX">>)
         [] label = "call" -> Applied(<<"OP_CALL">>)
         [] label = "array" -> Applied(<<"OP_ARRAY">>)
         [] label = "map" -> Applied(<<"OP_MAP">>)
         [] OTHER -> Applied(IF Len(below) = 1 THEN Operators.unary[label] ELSE Operators.binary[label])

(* A program, and the nil that a script returns. *)
Performed(program) ==
    {Operate(x, "OP_NIL", 0) :
        x \in FoldLeft(LAMBDA states, d : UNION {Denote(d, x) : x \in states}, {Blank}, program)}

(* What both of them say of an execution. *)
Outcomes(states) == {[events |-> m.events, truths |-> m.truths, stack |-> m.stack] : m \in states}

-----------------------------------------------------------------------------
(* Correctness. *)

Language == [s \in Sources |-> Programs(s.tokens, s.length)]
Begun == [s \in Sources |->
            UNION {{SubSeq(p[1], 1, i) : i \in 0..Len(p[1])} \cup {Append(p[1], "EOF")} : p \in Language[s]}]

Accepted == ~Running /\ verdict = "none"
Sentence == Front(input)

TypeOK ==
    /\ source \in Sources /\ left \in Nat
    /\ {current, previous} \subseteq source.tokens \cup {"EOF", "start"}
    /\ input \in Seq(source.tokens \cup {"EOF"})
    /\ panicMode \in BOOLEAN /\ verdict \in {"none", "syntax", "limit"}
    /\ constants \in Nat
    /\ \A i \in DOMAIN calls : calls[i].function = "list" => calls[i].count \in Byte

(* What compiles is a sentence of the grammar, and its bytecode does what the   *)
(* grammar's tree says, whatever the conditions of and / or turn out to be: the *)
(* same instructions on the same operands in the same order, with nothing left  *)
(* on the stack (docs/grammar.ebnf:1-3, and :42-44 of the precedences).         *)
CodeMeansTree ==
    Accepted =>
        /\ \E p \in Language[source] : p[1] = Sentence
        /\ LET end == {m \in Run(code, Blank) : ByteAt(code, m.ip) = "OP_RETURN"} IN
           \A p \in Language[source] : p[1] = Sentence => Outcomes(end) = Outcomes(Performed(p[2]))


(* The disassembler finds the instructions that run() executes, and no others'   *)
(* bytes: it and run() and the compiler agree on how long each one is, and every *)
(* jump goes to the beginning of one (debug.c:56-104, vm.c:255-287).             *)
InstructionsListed ==
    Accepted =>
        LET executed == {m.ip : m \in Run(code, Blank)} IN
        /\ \A offset \in executed : Disassembled(code, offset) \in executed \cup {Len(code)}
        /\ executed \subseteq Listed(code)

(* compile() returns on every source, the ones it recovers from included: no     *)
(* error leaves the parser on a token that neither it nor synchronize() takes.   *)
CompileReturns == <>(~Running)
=============================================================================
