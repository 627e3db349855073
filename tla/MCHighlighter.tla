---------------------------- MODULE MCHighlighter ----------------------------
EXTENDS Highlighter, TLC

CONSTANTS at, quote, a, nl

MCChar == {at, quote, a, nl}

(* The states of the machine of C# (csharp_tokens.xml) over these          *)
(* characters: "..." is string2, @"..." string3, a and @a are names, and   *)
(* an @ alone is not known yet.                                            *)
MCState == {0, 10, 12, 13, 14, 15, 16, 20}
MCMove ==
  [s \in MCState |->
     [c \in MCChar |->
        CASE s = 0 -> (at :> 13 @@ quote :> 10 @@ a :> 16 @@ nl :> 20)[c]
          [] s = 10 -> IF c = quote THEN 12 ELSE 10
          [] s = 13 -> IF c = quote THEN 14 ELSE IF c = a THEN 16 ELSE 0
          [] s = 14 -> IF c = quote THEN 15 ELSE 14
          [] s = 15 -> IF c = quote THEN 14 ELSE 0
          [] s = 16 -> IF c = a THEN 16 ELSE 0
          [] s = 20 -> IF c = nl THEN 20 ELSE 0
          [] OTHER -> 0]]
MCAcceptable == {12}
MCSyntaxOf ==
  [s \in MCState |->
     CASE s \in {10, 12, 14, 15} -> "string_literal"
       [] s = 16 -> "identifier"
       [] s = 20 -> "whitespace"
       [] OTHER -> ""]
=============================================================================
