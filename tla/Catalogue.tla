----------------------------- MODULE Catalogue -----------------------------
(***************************************************************************)
(* What the dictionary engine promises those who search: a shelf of        *)
(* dictionaries and a list of suggestions.  A writer keeps readers out     *)
(* while it changes several of them; whenever readers are let in they find *)
(* suggestions that the shelf answers.  What a search finds it finds until *)
(* a request takes it away or the server dies: no load, and no failure of  *)
(* one, disables a dictionary, loses it, or brings an older text back.     *)
(*                                                                         *)
(* There is no table, no directory and no request here.                    *)
(***************************************************************************)
EXTENDS Naturals

CONSTANTS Files, Vocabulary, MaxVersion, NotLoaded

Entry == [enabled : BOOLEAN, content : 1..MaxVersion]

VARIABLES
  shelf,      \* what is read of each file, or NotLoaded
  suggested,  \* the words that are suggested
  busy        \* are readers kept out?

vars == <<shelf, suggested, busy>>

-----------------------------------------------------------------------------
\* The words a search finds on shelf s.
Words(s) ==
  UNION {Vocabulary[<<f, s[f].content>>] :
           f \in {g \in Files : s[g] # NotLoaded /\ s[g].enabled}}

Init ==
  /\ shelf = [f \in Files |-> NotLoaded]
  /\ suggested = {}
  /\ busy = FALSE

Enter ==
  /\ ~busy /\ busy' = TRUE
  /\ UNCHANGED <<shelf, suggested>>

\* Readers come back to new suggestions.
Publish == busy' = FALSE /\ suggested' = Words(shelf')

\* A file is read; what was found of it is found again, or its replacement.
Read(f) ==
  /\ busy
  /\ \E d \in Entry :
       /\ shelf[f] # NotLoaded => /\ shelf[f].enabled => d.enabled
                                  /\ shelf[f].content <= d.content
       /\ shelf' = [shelf EXCEPT ![f] = d]
  /\ Publish \/ UNCHANGED <<suggested, busy>>

\* A request enables or disables a dictionary.
Switch(f) ==
  /\ busy
  /\ \E on \in BOOLEAN :
       shelf' = [shelf EXCEPT ![f] = IF @ = NotLoaded THEN @
                                               ELSE [@ EXCEPT !.enabled = on]]
  /\ Publish

\* The files are read.
Finish == busy /\ UNCHANGED shelf /\ Publish

\* A failure: nothing is suggested that the shelf does not answer.
GiveUp ==
  /\ busy /\ busy' = FALSE
  /\ suggested \subseteq Words(shelf)
  /\ UNCHANGED <<shelf, suggested>>

\* A dictionary is deleted.
Remove(f) ==
  /\ ~busy
  /\ shelf' = [shelf EXCEPT ![f] = NotLoaded]
  /\ Publish

\* The server dies.
Restart ==
  /\ shelf' = [f \in Files |-> NotLoaded]
  /\ suggested' = {}
  /\ busy' = FALSE

Next ==
  \/ Enter \/ Finish \/ GiveUp \/ Restart
  \/ \E f \in Files : Read(f) \/ Switch(f) \/ Remove(f)

Spec == Init /\ [][Next]_vars
=============================================================================
