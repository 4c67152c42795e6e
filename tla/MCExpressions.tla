--------------------------- MODULE MCExpressions ---------------------------
(* Sources for Expressions: each vocabulary with as many tokens as it needs. *)
EXTENDS Expressions

MCSources ==
    {(* calls, indices, assignments and groups *)
     [length |-> 6, tokens |-> {"identifier", "(", ")", "[", "]", ",", "=", "-", ";"}],
     (* every level of precedence *)
     [length |-> 7, tokens |-> {"identifier", "=", "or", "and", "==", "<", "-", "*", ";"}],
     (* declarations, maps, and characters that no token begins with *)
     [length |-> 6, tokens |-> {"var", "identifier", "=", "{", "}", ":", ";", "error"}],
     (* jumps as far as a short goes *)
     [length |-> 12, tokens |-> {"nil", "and", "*", ";"}],
     (* as many constants as a byte indexes *)
     [length |-> 8, tokens |-> {"number", "string", "+", ";"}],
     (* lists as long as a byte counts *)
     [length |-> 9, tokens |-> {"nil", "[", "]", ",", ";"}]}
=============================================================================
