------------------------------- MODULE Grammar -------------------------------
(***************************************************************************)
(* What the compiler of expressions promises: docs/grammar.ebnf, as the    *)
(* set of its sentences, each with the tree the grammar gives it, and what *)
(* a tree means.  A sentence is here a program of expression statements    *)
(* and variable declarations; Scopes has the other statements.             *)
(* A tree is a tuple: its label and the trees under it.                    *)
(***************************************************************************)
EXTENDS Naturals, SequencesExt

Assignable == "identifier"
Constants == {"number", "string"}
Literals == {"nil", "true", "false"}
Comparisons == {"<", "<=", ">", ">="}
Equalities == {"==", "!="}
Terms == {"+", "-"}
Factors == {"*", "/", "%"}
Unaries == {"!", "-"}

-----------------------------------------------------------------------------
(* The ladder, for sequences of n tokens of the alphabet A, when `shorter'   *)
(* has the phrases of 1, 2, ..., n - 1 tokens.  A phrase is a pair: its      *)
(* tokens, and its tree (of a list: the trees of its items).                 *)

(* The phrases l op r, for an operator of the level and l of the same level. *)
LeftAssociative(below, level, next, operators, shorter, n) ==
    below \cup UNION {{<<l[1] \o <<op>> \o r[1], <<op, l[2], r[2]>>>> :
                          op \in operators, l \in shorter[i][level], r \in shorter[n - 1 - i][next]} :
                      i \in 1..n - 2}

Phrases(A, shorter, n) ==
    LET (* a phrase of m tokens between two more *)
        Within(m, level) == IF m >= 1 THEN shorter[m][level] ELSE {}
        Enclosed(open, close, Node(_)) ==
            {<<<<open>> \o p[1] \o <<close>>, Node(p[2])>> : p \in Within(n - 2, "list")}
        leaves == {<<<<t>>, <<t>>>> : t \in IF n = 1
                                            THEN A \cap ({Assignable} \cup Constants \cup Literals)
                                            ELSE {}}
        primary ==
            leaves
            \cup (IF "(" \in A
                    THEN {<<<<"(">> \o e[1] \o <<")">>, e[2]>> : e \in Within(n - 2, "expression")}
                    ELSE {})
            \cup (IF "[" \in A
                    THEN Enclosed("[", "]", LAMBDA items : <<"array">> \o items)
                         \cup (IF n = 2 THEN {<<<<"[", "]">>, <<"array">>>>} ELSE {})
                    ELSE {})
            \cup (IF "{" \in A
                    THEN {<<<<"{">> \o p[1] \o <<"}">>, <<"map">> \o p[2]>> : p \in Within(n - 2, "pairs")}
                         \cup (IF n = 2 THEN {<<<<"{", "}">>, <<"map">>>>} ELSE {})
                    ELSE {})
        Suffixed(open, close, level, Node(_, _)) ==
            UNION {{<<c[1] \o <<open>> \o a[1] \o <<close>>, Node(c[2], a[2])>> :
                       c \in shorter[i].call, a \in shorter[n - 2 - i][level]} : i \in 1..n - 3}
        call ==
            primary
            \cup (IF "(" \in A
                    THEN Suffixed("(", ")", "list", LAMBDA c, items : <<"call", c>> \o items)
                         \cup {<<c[1] \o <<"(", ")">>, <<"call", c[2]>>>> : c \in Within(n - 2, "call")}
                    ELSE {})
            \cup (IF "[" \in A
                    THEN Suffixed("[", "]", "expression", LAMBDA c, e : <<"index", c, e>>)
                    ELSE {})
        unary ==
            call \cup {<<<<op>> \o u[1], <<op, u[2]>>>> :
                          op \in A \cap Unaries, u \in Within(n - 1, "unary")}
        factor == LeftAssociative(unary, "factor", "unary", A \cap Factors, shorter, n)
        term == LeftAssociative(factor, "term", "factor", A \cap Terms, shorter, n)
        comparison == LeftAssociative(term, "comparison", "term", A \cap Comparisons, shorter, n)
        equality == LeftAssociative(comparison, "equality", "comparison", A \cap Equalities, shorter, n)
        logic_and == LeftAssociative(equality, "logic_and", "equality", A \cap {"and"}, shorter, n)
        logic_or == LeftAssociative(logic_and, "logic_or", "logic_and", A \cap {"or"}, shorter, n)
        Target(i) == {c \in shorter[i].call : c[2][1] = "index" /\ Last(c[1]) = "]"}
        expression ==
            logic_or
            \cup (IF {Assignable, "="} \subseteq A
                    THEN {<<<<Assignable, "=">> \o e[1], <<"set", e[2]>>>> : e \in Within(n - 2, "expression")}
                    ELSE {})
            \cup (IF {"[", "="} \subseteq A
                    THEN UNION {{<<c[1] \o <<"=">> \o e[1], <<"set index", c[2][2], c[2][3], e[2]>>>> :
                                    c \in Target(i), e \in shorter[n - 1 - i].expression} : i \in 1..n - 2}
                    ELSE {})
        list ==
            {<<e[1], <<e[2]>>>> : e \in expression}
            \cup (IF "," \in A
                    THEN UNION {{<<l[1] \o <<",">> \o e[1], Append(l[2], e[2])>> :
                                    l \in shorter[i].list, e \in shorter[n - 1 - i].expression} : i \in 1..n - 2}
                    ELSE {})
        pair ==
            IF ":" \in A
              THEN UNION {{<<k[1] \o <<":">> \o v[1], <<k[2], v[2]>>>> :
                              k \in shorter[i].expression, v \in shorter[n - 1 - i].expression} : i \in 1..n - 2}
              ELSE {}
        pairs ==
            pair
            \cup (IF "," \in A
                    THEN UNION {{<<l[1] \o <<",">> \o p[1], l[2] \o p[2]>> :
                                    l \in shorter[i].pairs, p \in shorter[n - 1 - i].pair} : i \in 1..n - 2}
                    ELSE {})
    IN [call |-> call, unary |-> unary, factor |-> factor, term |-> term, comparison |-> comparison,
        equality |-> equality, logic_and |-> logic_and, logic_or |-> logic_or,
        expression |-> expression, list |-> list, pair |-> pair, pairs |-> pairs]

(* The phrases of 1, 2, ..., n tokens. *)
Ladder(A, n) ==
    FoldLeft(LAMBDA shorter, m : Append(shorter, Phrases(A, shorter, m)), <<>>, [i \in 1..n |-> i])

(* Declarations of at most n tokens: an expression statement, which does not  *)
(* begin like a block, or a variable.                                          *)
Declarations(A, n) ==
    LET ladder == Ladder(A, n - 1)
        Expressions == UNION {ladder[i].expression : i \in 1..n - 1}
    IN  {<<Append(e[1], ";"), <<"statement", e[2]>>>> : e \in {x \in Expressions : x[1][1] # "{"}}
        \cup (IF {"var", Assignable} \subseteq A
                THEN {<<<<"var", Assignable, ";">>, <<"var", <<"nil">>>>>>}
                     \cup (IF "=" \in A
                             THEN {<<<<"var", Assignable, "=">> \o e[1] \o <<";">>, <<"var", e[2]>>>> :
                                      e \in {x \in Expressions : Len(x[1]) + 4 <= n}}
                             ELSE {})
                ELSE {})

(* The programs of at most n tokens, with the sequences of their declarations. *)
Programs(A, n) ==
    LET declarations == Declarations(A, n)
        Longer(programs) ==
            programs \cup UNION {{<<p[1] \o d[1], Append(p[2], d[2])>> :
                                     d \in {x \in declarations : Len(p[1]) + Len(x[1]) <= n}} :
                                 p \in {x \in programs : Len(x[1]) + 2 <= n}}
    IN  FoldLeft(LAMBDA programs, m : Longer(programs), {<<<<>>, <<>>>>}, [i \in 1..n \div 2 |-> i])
=============================================================================
