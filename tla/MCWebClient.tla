---------------------------- MODULE MCWebClient ----------------------------
(* Instance of WebClient for TLC: small words and two dictionaries. *)
EXTENDS WebClient

CONSTANTS large, small

\* The bytes of a space, of two capitals and of their small letters.
MCSpace == 0
MCChars == 0..4
MCLower == [c \in MCChars |-> IF c \in {1, 2} THEN c + 2 ELSE c]

\* "Abb" stands before "ab" by its bytes, and behind it in lower case.
SmallA == <<3>>
SmallAB == <<3, 4>>
CapitalABB == <<1, 4, 4>>

MCTyped == {<<>>, SmallAB}
MCDicts == {large, small}
MCEntries ==
  [d \in MCDicts |-> IF d = large THEN {SmallAB, CapitalABB} ELSE {SmallA}]
=============================================================================
