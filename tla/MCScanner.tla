----------------------------- MODULE MCScanner -----------------------------
(* Sources for Scanner: every short text over a few characters that matter   *)
(* to each other, and the keywords with what is one character away from them. *)
EXTENDS Scanner

AlmostKeywords ==
    UNION {{w, Front(w), Tail(w), Append(w, "s"), <<"x">> \o w, [w EXCEPT ![Len(w)] = "_"],
            w \o <<"(">> \o w, w \o <<" ">> \o w} : w \in DOMAIN Lexical!Keywords}

PairsOfSymbols ==
    {<<c, d>> : c, d \in DOMAIN Single}

MCSources ==
    SeqOf({"/", "*", "\n", "x"}, 7)       (* comments *)
    \cup SeqOf({"\"", "\\", "n", "x", "\n"}, 6)     (* strings *)
    \cup SeqOf({"1", ".", "x", "=", "!", "<"}, 5)    (* numbers, names and symbols *)
    \cup SeqOf({"\"", "/", "*", "1", " ", "#"}, 5)      (* one kind inside another *)
    \cup PairsOfSymbols \cup AlmostKeywords
=============================================================================
