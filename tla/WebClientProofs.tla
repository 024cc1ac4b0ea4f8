--------------------------- MODULE WebClientProofs ---------------------------
(***************************************************************************)
(* The page shows what belongs to the user who is signed in, for any       *)
(* number of users, dictionaries, words and tokens.                        *)
(*                                                                         *)
(* The promises about sessions, results, the history and the page without  *)
(* a session are inductive together with Asked, which says for whom a call *)
(* under way was made, and Shape, the types.  What a list of suggestions   *)
(* contains is left open in Shape; WebSuggestionsProofs adds it.           *)
(* For the shelf (ShelfInv) the list under way must be one that was asked  *)
(* for with the token the page has, which a refresh meanwhile breaks.      *)
(***************************************************************************)
EXTENDS WebClient, TLAPS

Pages(shown) ==
  [token : Token \cup {None}, user : Users \cup {None}, dicts : SUBSET Dicts,
   dictsError : BOOLEAN, selected : Dicts \cup {None}, word : Inputs,
   composing : BOOLEAN, searched : BOOLEAN, resultWord : Inputs,
   results : Result \cup {None}, suggestions : {shown}, timer : BOOLEAN,
   history : SUBSET Remembered, synced : BOOLEAN]

Calls ==
  [search : SearchCalls \cup {None}, fuzzy : SearchCalls \cup {None},
   list : ListCalls \cup {None}, login : Users \cup {None},
   refresh : [token : Token, session : Token] \cup {None}]

Storage ==
  [token : Token \cup {None}, refresh : Token \cup {None},
   user : Users \cup {None}, history : [Users -> SUBSET Remembered]]

Shape ==
  /\ page \in Pages(page.suggestions)
  /\ calls \in Calls
  /\ stale \subseteq ListCalls
  /\ stored \in Storage
  /\ issued \in 0..MaxTokens

\* A lookup under way was made for the user of the page, a login for a page
\* without one, and a refresh replaces a token of the user whose refresh token
\* it shows.
Asked ==
  /\ calls.search # None => calls.search.token.user = page.user
  /\ calls.fuzzy # None => calls.fuzzy.token.user = page.user
  /\ calls.login # None => page.user = None
  /\ calls.refresh # None =>
       calls.refresh.token.user = calls.refresh.session.user

\* What is suggested was looked up for the user of the page, in its dictionary.
SuggestionsAreOwn ==
  page.suggestions # None =>
    /\ page.suggestions.by = page.user
    /\ page.suggestions.dict = page.selected

IInv ==
  /\ Shape /\ Asked /\ SuggestionsAreOwn
  /\ SessionIsUsers /\ ResultsAreOwn /\ HistoryStaysWithAccount
  /\ SignedOutIsClean

LEMMA Initially == Init => IInv
<1> SUFFICES ASSUME Init PROVE IInv
  OBVIOUS
<1>1. Shape
  BY TypedAssumption, TokensAssumption
     DEF Init, Shape, NoPage, NoCalls, Pages, Calls, Storage, Inputs
<1>2. Asked /\ SuggestionsAreOwn /\ SessionIsUsers /\ ResultsAreOwn
  BY DEF Init, NoPage, NoCalls, Asked, SuggestionsAreOwn, SessionIsUsers,
         ResultsAreOwn
<1>3. HistoryStaysWithAccount /\ SignedOutIsClean
  BY DEF Init, NoPage, NoCalls, HistoryStaysWithAccount, SignedOutIsClean
<1>. QED
  BY <1>1, <1>2, <1>3 DEF IInv

-----------------------------------------------------------------------------
(* What the page calls.                                                     *)

LEMMA ListCallShape ==
  ASSUME NEW s, NEW p \in Pages(s), p.token # None, NEW login \in BOOLEAN
  PROVE  ListCall(p, login) \in ListCalls
BY DEF Pages, ListCall, ListCalls

LEMMA NewTokenShape ==
  ASSUME issued \in 0..MaxTokens, issued < MaxTokens, NEW u \in Users
  PROVE  /\ NewToken(u) \in Token /\ NewToken(u).user = u
         /\ issued + 1 \in 0..MaxTokens
BY TokensAssumption DEF NewToken, Token

\* d are the calls after a page with this token has searched, if they were c:
\* the search carries the token, and the lookup of suggestions may be gone.
Searched(d, c, token) ==
  /\ d \in Calls
  /\ d.list = c.list /\ d.login = c.login /\ d.refresh = c.refresh
  /\ d.fuzzy \in {c.fuzzy, None}
  /\ \/ d.search \in {c.search, None}
     \/ token # None /\ d.search.token = token

\* The search among the calls d, if any, is for what the page p shows.
Wanted(d, p) ==
  d.search # None => d.search.word = p.word /\ d.search.dict = p.selected

LEMMA SearchShape ==
  ASSUME NEW s, NEW p \in Pages(s), NEW c \in Calls, NEW login \in BOOLEAN
  PROVE  /\ Searched(Search(p, c, login), c, p.token)
         /\ p.word # <<>> \/ Wanted(c, p) => Wanted(Search(p, c, login), p)
<1>1. CASE p.word = <<>>
  BY <1>1 DEF Search, Searched
<1>2. CASE p.word # <<>>
  <2> DEFINE k == IF p.token = None THEN None ELSE SearchCall(p, login)
             d == [CancelSuggestions(CancelSearch(c)) EXCEPT !.search = k]
  <2>1. /\ k \in SearchCalls \cup {None}
        /\ IF p.token = None THEN k = None ELSE k.token = p.token
        /\ k # None => k.word = p.word /\ k.dict = p.selected
    BY DEF Pages, SearchCall, SearchCalls
  <2>2. Search(p, c, login) = d
    BY <1>2 DEF Search
  <2> HIDE DEF k
  <2>3. Searched(d, c, p.token) /\ Wanted(d, p)
    BY <2>1 DEF Calls, CancelSuggestions, CancelSearch, Searched, Wanted
  <2>. QED
    BY <2>2, <2>3
<1>. QED
  BY <1>1, <1>2

\* Searching takes the suggestions off the page.
LEMMA SearchPageShape ==
  ASSUME NEW s, NEW p \in Pages(s)
  PROVE  \/ SearchPage(p) = p
         \/ SearchPage(p) = [p EXCEPT !.suggestions = None, !.timer = FALSE]
BY DEF SearchPage, WithoutSuggestions

\* What is wanted of a search is left alone by it.
LEMMA StillWanted ==
  ASSUME NEW s, NEW p \in Pages(s), NEW d, Wanted(d, p)
  PROVE  Wanted(d, SearchPage(p))
BY SearchPageShape DEF Wanted, Pages

\* q is p but for the word, the selection, the suggestions and the error.
SameUser(q, p) ==
  /\ q \in Pages(q.suggestions)
  /\ q.token = p.token /\ q.user = p.user
  /\ q.history = p.history /\ q.synced = p.synced
  /\ q.results = p.results /\ q.resultWord = p.resultWord
  /\ q.searched = p.searched

\* A step that searches, or may, and shows nothing but suggestions of the page.
LEMMA SearchingStep ==
  ASSUME IInv, NEW c \in Calls, SameUser(page', page),
         Searched(calls', c, page.token), Wanted(calls', page'),
         UNCHANGED <<stored, issued>>,
         c.search \in {calls.search, None}, c.fuzzy \in {calls.fuzzy, None},
         c.login = calls.login, c.refresh = calls.refresh,
         c.list \in {calls.list, None}, stale' \subseteq ListCalls,
         page'.timer => page.timer \/ page.token # None,
         \/ page'.suggestions = None
         \/ /\ page'.suggestions = page.suggestions
            /\ page'.selected = page.selected,
         page.token = None => page'.dicts = {} /\ page'.selected = None
  PROVE  IInv'
<1>1. Shape'
  BY DEF IInv, Shape, SameUser, Searched
<1>2. Asked' /\ SuggestionsAreOwn'
  BY DEF IInv, Asked, SuggestionsAreOwn, SessionIsUsers, SignedOutIsClean,
         SameUser, Searched
<1>3. SessionIsUsers' /\ HistoryStaysWithAccount'
  BY DEF IInv, SessionIsUsers, HistoryStaysWithAccount, SameUser
<1>5. ResultsAreOwn'
  BY <1>2 DEF IInv, Asked, ResultsAreOwn, Wanted, SameUser
<1>4. SignedOutIsClean'
  BY DEF IInv, SignedOutIsClean, ResultsAreOwn, SameUser, Searched
<1>. QED
  BY <1>1, <1>2, <1>3, <1>4, <1>5 DEF IInv

-----------------------------------------------------------------------------
(* The user.                                                                *)

\* The page q is p with a history of u: the stored one, or none.
HasHistory(q, p, u) ==
  \E h \in SUBSET Remembered, b \in BOOLEAN :
    /\ q = [p EXCEPT !.history = h, !.synced = b]
    /\ u # None => h \subseteq stored.history[u]
    /\ u # None /\ b => h = stored.history[u]
    /\ u = None => h = {}

\* So is a page that is loaded, or signed in to.
LEMMA WithHistoryShape ==
  ASSUME Shape, NEW p, NEW u \in Users \cup {None}, p.user = u
  PROVE  \A q \in WithHistory(p) : HasHistory(q, p, u)
<1> SUFFICES ASSUME NEW q \in WithHistory(p) PROVE HasHistory(q, p, u)
  OBVIOUS
<1>1. u # None => stored.history[u] \in SUBSET Remembered
  BY DEF Shape, Storage
<1>2. LoadHistory(u) \in SUBSET Remembered
  BY <1>1 DEF LoadHistory
<1> DEFINE read == [p EXCEPT !.history = LoadHistory(u), !.synced = TRUE]
           failed == [p EXCEPT !.history = {}, !.synced = FALSE]
<1>3. q = read \/ q = failed
  BY DEF WithHistory
<1>4. CASE q = read
  BY <1>2, <1>4 DEF LoadHistory, HasHistory
<1>5. CASE q = failed
  BY <1>5 DEF HasHistory
<1>. QED
  BY <1>3, <1>4, <1>5

LEMMA ReloadStep == ASSUME IInv, Reload PROVE IInv'
<1> USE DEF IInv, Shape, Storage
<1> DEFINE q == [NoPage EXCEPT !.token = stored.token, !.user = stored.user]
<1>1. PICK p \in WithHistory(q) :
        page' = p /\ calls' = [NoCalls EXCEPT !.list = FirstList(p)]
  BY DEF Reload
<1>2. stale' = {} /\ UNCHANGED <<stored, issued>>
  BY DEF Reload
<1>3. PICK h \in SUBSET Remembered, b \in BOOLEAN :
        /\ p = [q EXCEPT !.history = h, !.synced = b]
        /\ stored.user # None => h \subseteq stored.history[stored.user]
        /\ stored.user # None /\ b => h = stored.history[stored.user]
        /\ stored.user = None => h = {}
  <2>1. q.user = stored.user
    BY DEF NoPage
  <2> HIDE DEF q
  <2>2. HasHistory(p, q, stored.user)
    BY <2>1, WithHistoryShape
  <2>. QED
    BY <2>2 DEF HasHistory
<1>4. /\ p \in Pages(None) /\ p.suggestions = None /\ p.results = None
      /\ p.dicts = {} /\ p.selected = None /\ ~p.timer /\ ~p.composing
      /\ p.token = stored.token /\ p.user = stored.user
      /\ p.history = h /\ p.synced = b
  <2>1. <<>> \in Inputs
    BY TypedAssumption DEF Inputs
  <2>. QED
    BY <1>3, <2>1 DEF Pages, NoPage
<1> HIDE DEF q
<1>5. /\ FirstList(p) \in ListCalls \cup {None}
      /\ p.token = None => FirstList(p) = None
  BY <1>4, ListCallShape DEF FirstList
<1>6. /\ calls' \in Calls
      /\ calls'.search = None /\ calls'.fuzzy = None /\ calls'.login = None
      /\ calls'.refresh = None /\ calls'.list = FirstList(p)
  BY <1>1, <1>5 DEF NoCalls, Calls
<1>7. Shape'
  BY <1>1, <1>2, <1>4, <1>6 DEF Pages
<1>8. Asked' /\ SuggestionsAreOwn' /\ SessionIsUsers' /\ ResultsAreOwn'
      /\ SignedOutIsClean'
  BY <1>1, <1>2, <1>4, <1>5, <1>6
     DEF Asked, SuggestionsAreOwn, SessionIsUsers, ResultsAreOwn,
         SignedOutIsClean
<1>9. HistoryStaysWithAccount'
  BY <1>1, <1>2, <1>3, <1>4 DEF HistoryStaysWithAccount
<1>. QED
  BY <1>7, <1>8, <1>9

\* An input, a composition or Escape: the suggestions go, and a lookup may be
\* planned.
LEMMA BoxStep ==
  ASSUME IInv, Compose \/ Dismiss \/ \E w \in Typed : Type(w)
  PROVE  IInv'
<1> USE DEF IInv, Shape, Pages, Debounced, CanSuggest, WithoutSuggestions,
            CancelSearch, CancelSuggestions
<1>1. CASE \E w \in Typed : Type(w)
  <2> PICK w \in Typed : Type(w)
    BY <1>1
  <2>1. Shape' /\ Asked'
    <3>1. [page EXCEPT !.word = w] \in Pages(page.suggestions)
      BY DEF Inputs
    <3>2. page' \in Pages(page'.suggestions)
      <4> DEFINE p == [page EXCEPT !.word = w]
      <4>1. \/ page' = p
            \/ page' = [p EXCEPT !.suggestions = None, !.timer = TRUE]
            \/ page' = [p EXCEPT !.suggestions = None, !.timer = FALSE]
        BY DEF Type
      <4>2. p \in Pages(page.suggestions)
        BY <3>1
      <4> HIDE DEF p
      <4>. QED
        BY <4>1, <4>2
    <3>3. /\ calls' \in Calls
          /\ calls'.fuzzy \in {calls.fuzzy, None}
          /\ calls'.search \in {calls.search, None}
          /\ calls'.login = calls.login /\ calls'.refresh = calls.refresh
          /\ page'.user = page.user
      BY DEF Type, Calls
    <3>4. Shape'
      BY <3>2, <3>3 DEF Type
    <3>5. Asked'
      BY <3>3 DEF Asked
    <3>. QED
      BY <3>4, <3>5
  <2>2. SuggestionsAreOwn'
    BY DEF Type, Calls, SuggestionsAreOwn
  <2>3. SessionIsUsers' /\ ResultsAreOwn' /\ HistoryStaysWithAccount'
    BY DEF Type, Calls, SessionIsUsers, ResultsAreOwn, HistoryStaysWithAccount
  <2>4. SignedOutIsClean'
    BY DEF Type, Calls, SignedOutIsClean
  <2>. QED
    BY <2>1, <2>2, <2>3, <2>4
<1>2. CASE Compose
  <2>1. Shape' /\ Asked'
    BY <1>2 DEF Compose, Calls, Asked
  <2>2. SuggestionsAreOwn' /\ SignedOutIsClean'
    BY <1>2 DEF Compose, Calls, SuggestionsAreOwn, SignedOutIsClean
  <2>3. SessionIsUsers' /\ ResultsAreOwn' /\ HistoryStaysWithAccount'
    BY <1>2 DEF Compose, Calls, SessionIsUsers, ResultsAreOwn,
                HistoryStaysWithAccount
  <2>. QED
    BY <2>1, <2>2, <2>3
<1>3. CASE Dismiss
  <2>1. Shape' /\ Asked'
    BY <1>3 DEF Dismiss, Calls, Asked
  <2>2. SuggestionsAreOwn' /\ SignedOutIsClean'
    BY <1>3 DEF Dismiss, Calls, SuggestionsAreOwn, SignedOutIsClean
  <2>3. SessionIsUsers' /\ ResultsAreOwn' /\ HistoryStaysWithAccount'
    BY <1>3 DEF Dismiss, Calls, SessionIsUsers, ResultsAreOwn,
                HistoryStaysWithAccount
  <2>. QED
    BY <2>1, <2>2, <2>3
<1>. QED
  BY <1>1, <1>2, <1>3

\* Enter, or a word that is chosen.
LEMMA LookupStep ==
  ASSUME IInv, Submit \/ \E w \in Inputs \ {<<>>} : Select(w)
  PROVE  IInv'
<1>1. PICK w \in Inputs :
        /\ w # <<>> \/ w = page.word
        /\ page' = SearchPage([page EXCEPT !.word = w])
        /\ calls' = Search([page EXCEPT !.word = w], calls, FALSE)
        /\ UNCHANGED <<stale, stored, issued>>
  <2>1. CASE Submit
    <3>1. page = [page EXCEPT !.word = page.word] /\ page.word \in Inputs
      BY DEF IInv, Shape, Pages
    <3>. QED
      BY <2>1, <3>1 DEF Submit
  <2>2. CASE \E w \in Inputs \ {<<>>} : Select(w)
    BY <2>2 DEF Select
  <2>. QED
    BY <2>1, <2>2
<1> DEFINE p == [page EXCEPT !.word = w]
<1>2. /\ p \in Pages(page.suggestions) /\ p.token = page.token
      /\ p.word = w /\ p.selected = page.selected
      /\ calls \in Calls /\ stale \subseteq ListCalls
  BY DEF IInv, Shape, Pages
<1>3. \/ page' = p
      \/ page' = [p EXCEPT !.suggestions = None, !.timer = FALSE]
  BY <1>1, <1>2, SearchPageShape
<1>4. /\ SameUser(page', page)
      /\ page'.timer => page.timer
      /\ page'.suggestions \in {page.suggestions, None}
      /\ page'.dicts = page.dicts /\ page'.selected = page.selected
  BY <1>3 DEF IInv, Shape, Pages, SameUser
<1>5. Searched(calls', calls, page.token) /\ Wanted(calls', page')
  <2>1. w # <<>> \/ Wanted(calls, p)
    BY <1>1, <1>2 DEF IInv, ResultsAreOwn, Wanted
  <2>2. page' = SearchPage(p) /\ calls' = Search(p, calls, FALSE)
    BY <1>1
  <2> HIDE DEF p
  <2>. QED
    BY <1>2, <2>1, <2>2, SearchShape, StillWanted
<1>6. page.token = None => page'.dicts = {} /\ page'.selected = None
  BY <1>4 DEF IInv, SignedOutIsClean
<1>. QED
  BY <1>1, <1>2, <1>4, <1>5, <1>6, SearchingStep

LEMMA ChooseDictStep ==
  ASSUME IInv, NEW d \in Dicts \cup {None}, ChooseDict(d)
  PROVE  IInv'
<1> DEFINE lookup == (page.searched \/ Loading) /\ page.word # <<>>
           p == [page EXCEPT !.selected = d]
           c == CancelSearch(CancelSuggestions(calls))
<1>1. /\ p \in Pages(page.suggestions)
      /\ c \in Calls /\ c.search = None /\ c.fuzzy = None
      /\ c.list = calls.list /\ c.login = calls.login
      /\ c.refresh = calls.refresh
      /\ p.token = page.token
  BY DEF IInv, Shape, Pages, Calls, CancelSearch, CancelSuggestions
<1>2. /\ d \in page.dicts \cup {None}
      /\ page' = IF lookup THEN SearchPage(p) ELSE Debounced(p)
      /\ calls' = IF lookup THEN Search(p, c, FALSE) ELSE c
      /\ UNCHANGED <<stale, stored, issued>>
  BY DEF ChooseDict
<1>3. /\ page' = [page EXCEPT !.selected = d, !.suggestions = None,
                              !.timer = page'.timer]
      /\ page'.timer \in BOOLEAN
      /\ page'.timer => page.token # None
  BY <1>2 DEF IInv, Shape, Pages, SearchPage, Debounced, CanSuggest,
              WithoutSuggestions
<1> HIDE DEF p, c, lookup
<1>4. SameUser(page', page) /\ page'.suggestions = None
      /\ page'.dicts = page.dicts /\ page'.selected = d
  BY <1>3 DEF IInv, Shape, Pages, SameUser
<1>5. Searched(calls', c, page.token) /\ Wanted(calls', page')
  <2>1. Wanted(c, p) /\ Wanted(c, page')
    BY <1>1 DEF Wanted
  <2>2. CASE lookup
    BY <1>1, <1>2, <2>1, <2>2, SearchShape, StillWanted
  <2>3. CASE ~lookup
    BY <1>1, <1>2, <2>1, <2>3 DEF Searched
  <2>. QED
    BY <2>2, <2>3
<1>6. page.token = None => page'.dicts = {} /\ page'.selected = None
  BY <1>2, <1>4 DEF IInv, SignedOutIsClean
<1>. QED
  BY <1>1, <1>2, <1>3, <1>4, <1>5, <1>6, SearchingStep DEF IInv, Shape

\* A word of the history, or all, is forgotten.
LEMMA ForgetStep ==
  ASSUME IInv, RemoveFromHistory \/ ClearHistory
  PROVE  IInv'
<1>1. PICK gone \in SUBSET page.history : ForgetHistory(gone)
  BY DEF RemoveFromHistory, ClearHistory
<1> DEFINE h == page.history \ gone
<1>2. UNCHANGED <<calls, stale, issued>>
  BY <1>1 DEF ForgetHistory
<1>3. PICK b \in BOOLEAN :
        /\ page' = [page EXCEPT !.history = h, !.synced = b]
        /\ \/ stored' = stored /\ (page.user # None => ~b)
           \/ page.user # None /\ stored' = [stored EXCEPT !.history[page.user] = h]
  BY <1>1 DEF ForgetHistory, StoreHistory, IInv, Shape, Pages
<1>4. h \in SUBSET Remembered /\ \A x \in h : x.by = page.user
  BY DEF IInv, Shape, Pages, HistoryStaysWithAccount
<1> HIDE DEF h
<1>5. /\ page' \in Pages(page.suggestions)
      /\ page'.history = h /\ page'.synced = b
      /\ page'.token = page.token /\ page'.user = page.user
      /\ page'.suggestions = page.suggestions /\ page'.timer = page.timer
      /\ page'.dicts = page.dicts /\ page'.selected = page.selected
      /\ page'.word = page.word /\ page'.results = page.results
      /\ page'.resultWord = page.resultWord
  BY <1>3, <1>4 DEF IInv, Shape, Pages
<1>6. /\ stored' \in Storage
      /\ stored'.token = stored.token /\ stored'.user = stored.user
      /\ stored'.refresh = stored.refresh
      /\ \/ stored'.history = stored.history /\ (page.user # None => ~b)
         \/ /\ page.user # None
            /\ stored'.history = [stored.history EXCEPT ![page.user] = h]
  BY <1>3, <1>4 DEF IInv, Shape, Pages, Storage
<1>7. Shape' /\ Asked'
  BY <1>2, <1>5, <1>6 DEF IInv, Shape, Asked
<1>8. SuggestionsAreOwn' /\ SignedOutIsClean' /\ SessionIsUsers'
      /\ ResultsAreOwn'
  BY <1>2, <1>5, <1>6 DEF IInv, SuggestionsAreOwn, SignedOutIsClean,
                          SessionIsUsers, ResultsAreOwn
<1>9. HistoryStaysWithAccount'
  BY <1>4, <1>5, <1>6
     DEF IInv, Shape, Pages, Storage, HistoryStaysWithAccount
<1>. QED
  BY <1>7, <1>8, <1>9 DEF IInv

LEMMA LoginStep == ASSUME IInv, NEW u \in Users, Login(u) PROVE IInv'
<1>1. Shape' /\ Asked'
  BY DEF Login, IInv, Shape, Calls, Asked
<1>2. SuggestionsAreOwn' /\ SignedOutIsClean' /\ SessionIsUsers'
      /\ ResultsAreOwn' /\ HistoryStaysWithAccount'
  BY DEF Login, IInv, Shape, Calls, SuggestionsAreOwn, SignedOutIsClean,
         SessionIsUsers, ResultsAreOwn, HistoryStaysWithAccount
<1>. QED
  BY <1>1, <1>2 DEF IInv

\* What a logout and a failed refresh do to the page, storage and calls.
LEMMA SignOutStep ==
  ASSUME IInv, page' = SignedOut(page), stored' = ForgetSession(stored),
         calls' \in {WithoutSession(calls),
                     [WithoutSession(calls) EXCEPT !.refresh = None]},
         stale' \subseteq ListCalls, UNCHANGED issued
  PROVE  IInv'
<1>1. /\ calls' \in Calls
      /\ calls'.search = None /\ calls'.fuzzy = None /\ calls'.list = None
      /\ calls'.login = calls.login
      /\ calls'.refresh \in {calls.refresh, None}
  BY DEF IInv, Shape, Calls, WithoutSession, CancelSearch, CancelSuggestions
<1>2. /\ page' \in Pages(None)
      /\ page'.token = None /\ page'.user = None /\ page'.history = {}
      /\ page'.results = None /\ page'.suggestions = None
      /\ page'.dicts = {} /\ page'.selected = None /\ ~page'.timer
  BY DEF IInv, Shape, Pages, SignedOut, WithoutSuggestions
<1>3. /\ stored' \in Storage /\ stored'.history = stored.history
      /\ stored'.token = None /\ stored'.user = None /\ stored'.refresh = None
  BY DEF IInv, Shape, Storage, ForgetSession
<1>4. Shape' /\ Asked'
  BY <1>1, <1>2, <1>3 DEF IInv, Shape, Asked
<1>5. SuggestionsAreOwn' /\ SignedOutIsClean' /\ SessionIsUsers'
      /\ ResultsAreOwn' /\ HistoryStaysWithAccount'
  BY <1>1, <1>2, <1>3
     DEF IInv, SuggestionsAreOwn, SignedOutIsClean, SessionIsUsers,
         ResultsAreOwn, HistoryStaysWithAccount
<1>. QED
  BY <1>4, <1>5 DEF IInv

LEMMA NewestShape == IInv => Newest(calls) \subseteq ListCalls
BY DEF IInv, Shape, Calls, Newest

LEMMA LogoutStep == ASSUME IInv, Logout PROVE IInv'
<1>1. stale' \subseteq ListCalls
  BY NewestShape DEF Logout, IInv, Shape
<1>. QED
  BY <1>1, SignOutStep DEF Logout

LEMMA FuzzySearchStartsStep == ASSUME IInv, FuzzySearchStarts PROVE IInv'
<1>1. /\ calls' \in Calls
      /\ \/ calls'.fuzzy = calls.fuzzy
         \/ page.token # None /\ calls'.fuzzy.token = page.token
      /\ calls'.search = calls.search /\ calls'.list = calls.list
      /\ calls'.login = calls.login /\ calls'.refresh = calls.refresh
  <2>1. CASE CanSuggest(page)
    <3>1. page.token # None
      BY <2>1 DEF CanSuggest
    <3>2. /\ SearchCall(page, FALSE) \in SearchCalls
          /\ SearchCall(page, FALSE).token = page.token
      BY <3>1 DEF IInv, Shape, Pages, SearchCall, SearchCalls
    <3>3. calls' = [calls EXCEPT !.fuzzy = SearchCall(page, FALSE)]
      BY <2>1 DEF FuzzySearchStarts
    <3>. QED
      BY <3>1, <3>2, <3>3 DEF IInv, Shape, Calls
  <2>2. CASE ~CanSuggest(page)
    BY <2>2 DEF FuzzySearchStarts, IInv, Shape, Calls
  <2>. QED
    BY <2>1, <2>2
<1>2. /\ page' \in Pages(page.suggestions)
      /\ page' = [page EXCEPT !.timer = FALSE] /\ page.token # None
      /\ UNCHANGED <<stale, stored, issued>>
  BY DEF FuzzySearchStarts, IInv, Shape, Pages, SignedOutIsClean
<1>3. Shape' /\ Asked'
  BY <1>1, <1>2 DEF IInv, Shape, Pages, Asked, SessionIsUsers
<1>4. SuggestionsAreOwn' /\ SignedOutIsClean' /\ SessionIsUsers'
      /\ ResultsAreOwn' /\ HistoryStaysWithAccount'
  BY <1>1, <1>2
     DEF IInv, Shape, Pages, SuggestionsAreOwn, SignedOutIsClean,
         SessionIsUsers, ResultsAreOwn, HistoryStaysWithAccount
<1>. QED
  BY <1>3, <1>4 DEF IInv

-----------------------------------------------------------------------------
(* What is delivered.                                                       *)

\* The token a refresh replaces is of the user whose refresh token it shows.
LEMMA RefreshingShape ==
  ASSUME IInv, page.token # None
  PROVE  /\ Refreshing \in [token : Token, session : Token] \cup {None}
         /\ Refreshing # None => Refreshing.token.user = Refreshing.session.user
<1>1. CASE calls.refresh # None
  BY <1>1 DEF IInv, Shape, Calls, Asked, Refreshing
<1>2. CASE calls.refresh = None
  <2>1. stored.refresh \in Token /\ page.token \in Token
    BY NoneAssumption DEF IInv, Shape, Pages, Storage, SessionIsUsers, Token
  <2>2. stored.refresh.user = page.token.user
    BY DEF IInv, SessionIsUsers
  <2>3. Refreshing = [token |-> page.token, session |-> stored.refresh]
    BY <1>2 DEF Refreshing
  <2>. QED
    BY <2>1, <2>2, <2>3
<1>. QED
  BY <1>1, <1>2

LEMMA AwaitRefreshStep ==
  ASSUME IInv, NEW k \in Authorized, AwaitRefresh(k)
  PROVE  IInv'
<1>1. page.token # None /\ calls[k] # None
  BY DEF AwaitRefresh, Refused, Delivered
<1> DEFINE r == Refreshing
<1>2. calls' = [calls EXCEPT ![k].waiting = TRUE, !.refresh = r]
      /\ UNCHANGED <<page, stale, stored, issued>>
  BY DEF AwaitRefresh
<1>3. /\ r \in [token : Token, session : Token] \cup {None}
      /\ r # None => r.token.user = r.session.user
  BY <1>1, RefreshingShape
<1> HIDE DEF r
<1>4. /\ calls' \in Calls /\ calls'.refresh = r /\ calls'.login = calls.login
      /\ calls'.search # None =>
           /\ calls.search # None /\ calls'.search.token = calls.search.token
           /\ calls'.search.word = calls.search.word
           /\ calls'.search.dict = calls.search.dict
      /\ calls'.fuzzy # None =>
           calls.fuzzy # None /\ calls'.fuzzy.token = calls.fuzzy.token
  <2>1. CASE k = "search"
    BY <1>1, <1>2, <1>3, <2>1 DEF IInv, Shape, Calls, SearchCalls
  <2>2. CASE k = "fuzzy"
    BY <1>1, <1>2, <1>3, <2>2 DEF IInv, Shape, Calls, SearchCalls
  <2>3. CASE k = "list"
    BY <1>1, <1>2, <1>3, <2>3 DEF IInv, Shape, Calls, ListCalls
  <2>. QED
    BY <2>1, <2>2, <2>3 DEF Authorized
<1>5. Shape' /\ Asked'
  BY <1>2, <1>3, <1>4 DEF IInv, Shape, Asked
<1>6. SuggestionsAreOwn' /\ SignedOutIsClean' /\ SessionIsUsers'
      /\ ResultsAreOwn' /\ HistoryStaysWithAccount'
  BY <1>1, <1>2, <1>4
     DEF IInv, SuggestionsAreOwn, SignedOutIsClean, SessionIsUsers,
         ResultsAreOwn, HistoryStaysWithAccount
<1>. QED
  BY <1>5, <1>6 DEF IInv

LEMMA AwaitRefreshStaleStep == ASSUME IInv, AwaitRefreshStale PROVE IInv'
<1>1. PICK c \in stale :
        /\ page.token # None
        /\ stale' = (stale \ {c}) \cup {[c EXCEPT !.waiting = TRUE]}
        /\ calls' = [calls EXCEPT !.refresh = Refreshing]
        /\ UNCHANGED <<page, stored, issued>>
  BY DEF AwaitRefreshStale, Refused
<1>2. /\ Refreshing \in [token : Token, session : Token] \cup {None}
      /\ Refreshing # None => Refreshing.token.user = Refreshing.session.user
  BY <1>1, RefreshingShape
<1>3. stale' \subseteq ListCalls
  BY <1>1 DEF IInv, Shape, ListCalls
<1>4. Shape' /\ Asked'
  BY <1>1, <1>2, <1>3 DEF IInv, Shape, Calls, Asked
<1>5. SuggestionsAreOwn' /\ SignedOutIsClean' /\ SessionIsUsers'
      /\ ResultsAreOwn' /\ HistoryStaysWithAccount'
  BY <1>1
     DEF IInv, Shape, Calls, SuggestionsAreOwn, SignedOutIsClean,
         SessionIsUsers, ResultsAreOwn, HistoryStaysWithAccount
<1>. QED
  BY <1>4, <1>5 DEF IInv

\* The result is shown to the user who asked, and remembered for him.
LEMMA SearchDoneStep == ASSUME IInv, SearchDone PROVE IInv'
<1> DEFINE c == calls.search
           u == page.user
           result == [word |-> c.word, dict |-> c.dict, by |-> u]
           h == Remember(page.history, [word |-> c.word, by |-> u])
<1>1. /\ c \in SearchCalls /\ c.token.user = u /\ u \in Users
      /\ page.token # None
  <2>1. c # None
    BY DEF SearchDone, Delivered
  <2>. QED
    BY <2>1 DEF IInv, Shape, Calls, SearchCalls, Asked, Token, SignedOutIsClean
<1>2. /\ calls' = [calls EXCEPT !.search = None] /\ UNCHANGED <<stale, issued>>
      /\ \/ /\ page' = [page EXCEPT !.searched = TRUE, !.resultWord = c.word,
                                    !.results = None]
            /\ UNCHANGED stored
         \/ \E b \in BOOLEAN :
              /\ page' = [page EXCEPT !.searched = TRUE, !.resultWord = c.word,
                                      !.results = result, !.history = h,
                                      !.synced = b]
              /\ \/ stored' = stored /\ ~b
                 \/ stored' = [stored EXCEPT !.history[u] = h]
  <2> DEFINE shown == [page EXCEPT !.searched = TRUE, !.resultWord = c.word,
                                   !.results = None]
             found == [page EXCEPT !.searched = TRUE, !.resultWord = c.word,
                                   !.results = result, !.history = h]
  <2>1. found = [shown EXCEPT !.results = result,
                              !.history = Remember(@, [word |-> c.word,
                                                       by |-> u])]
    BY DEF IInv, Shape, Pages
  <2>2. /\ \/ page' = shown /\ UNCHANGED stored
           \/ StoreHistory(found)
        /\ calls' = [calls EXCEPT !.search = None] /\ UNCHANGED <<stale, issued>>
    BY <1>1, <2>1 DEF SearchDone
  <2>3. found.user = u /\ found.history = h /\ u # None
    BY <1>1, NoneAssumption DEF IInv, Shape, Pages
  <2>4. \A b : [found EXCEPT !.synced = b]
               = [page EXCEPT !.searched = TRUE, !.resultWord = c.word,
                              !.results = result, !.history = h, !.synced = b]
    BY DEF IInv, Shape, Pages
  <2> HIDE DEF found, shown, h, result, c, u
  <2>5. ASSUME StoreHistory(found)
        PROVE  \E b \in BOOLEAN :
                 /\ page' = [found EXCEPT !.synced = b]
                 /\ \/ stored' = stored /\ ~b
                    \/ stored' = [stored EXCEPT !.history[u] = h]
    BY <2>3, <2>5 DEF StoreHistory
  <2>. QED
    BY <2>2, <2>4, <2>5 DEF shown
<1>3. result \in Result /\ h \in SUBSET Remembered
  BY <1>1 DEF IInv, Shape, Pages, SearchCalls, Result, Remembered, Remember
<1>4. \A x \in h : x.by = u
  BY DEF IInv, HistoryStaysWithAccount, Remember
<1>5. /\ calls' \in Calls /\ calls'.search = None
      /\ calls'.fuzzy = calls.fuzzy /\ calls'.list = calls.list
      /\ calls'.login = calls.login /\ calls'.refresh = calls.refresh
  BY <1>2 DEF IInv, Shape, Calls
<1>6. /\ page' \in Pages(page.suggestions)
      /\ page'.token = page.token /\ page'.user = u
      /\ page'.suggestions = page.suggestions /\ page'.timer = page.timer
      /\ page'.dicts = page.dicts /\ page'.selected = page.selected
      /\ page'.searched = TRUE /\ page'.resultWord = c.word
      /\ \/ /\ page'.results = None /\ page'.history = page.history
            /\ page'.synced = page.synced /\ stored' = stored
         \/ /\ page'.results = result /\ page'.history = h
            /\ \/ stored' = stored /\ ~page'.synced
               \/ stored' = [stored EXCEPT !.history[u] = h]
  BY <1>1, <1>2, <1>3 DEF IInv, Shape, Pages, SearchCalls
<1> HIDE DEF h, c
<1>7. /\ stored' \in Storage
      /\ stored'.token = stored.token /\ stored'.user = stored.user
      /\ stored'.refresh = stored.refresh
      /\ \/ /\ stored'.history = stored.history
            /\ \/ page'.history = page.history /\ page'.synced = page.synced
               \/ page'.history = h /\ ~page'.synced
         \/ /\ stored'.history = [stored.history EXCEPT ![u] = h]
            /\ page'.history = h
  BY <1>1, <1>3, <1>6 DEF IInv, Shape, Storage
<1>8. Shape' /\ Asked'
  BY <1>2, <1>5, <1>6, <1>7 DEF IInv, Shape, Asked
<1>9. SuggestionsAreOwn' /\ SignedOutIsClean' /\ SessionIsUsers'
  BY <1>1, <1>5, <1>6, <1>7
     DEF IInv, SuggestionsAreOwn, SignedOutIsClean, SessionIsUsers
<1>10. ResultsAreOwn'
  BY <1>5, <1>6 DEF ResultsAreOwn
<1>11. HistoryStaysWithAccount'
  <2>1. \A v \in Users : \A x \in stored'.history[v] : x.by = v
    BY <1>1, <1>4, <1>7 DEF IInv, Shape, Storage, HistoryStaysWithAccount
  <2>2. \A x \in page'.history : x.by = u
    BY <1>4, <1>7 DEF IInv, HistoryStaysWithAccount
  <2>3. page'.synced => page'.history = stored'.history[u]
    BY <1>1, <1>7, NoneAssumption
       DEF IInv, Shape, Storage, HistoryStaysWithAccount
  <2>. QED
    BY <1>6, <2>1, <2>2, <2>3 DEF HistoryStaysWithAccount
<1>. QED
  BY <1>8, <1>9, <1>10, <1>11 DEF IInv

LEMMA FuzzySearchDoneStep == ASSUME IInv, FuzzySearchDone PROVE IInv'
<1>1. /\ calls.fuzzy # None
      /\ calls' = [calls EXCEPT !.fuzzy = None]
      /\ UNCHANGED <<stale, stored, issued>>
  BY DEF FuzzySearchDone, Delivered
<1>2. \/ UNCHANGED page
      \/ \E s :
           /\ s.by = page.user /\ s.dict = page.selected
           /\ page' = [page EXCEPT !.suggestions = s]
  BY <1>1 DEF FuzzySearchDone, IInv, Asked
<1>3. Shape' /\ Asked'
  BY <1>1, <1>2 DEF IInv, Shape, Pages, Calls, Asked
<1>4. SuggestionsAreOwn' /\ SignedOutIsClean'
  BY <1>1, <1>2 DEF IInv, Shape, Pages, Calls, SuggestionsAreOwn,
                    SignedOutIsClean
<1>5. SessionIsUsers' /\ ResultsAreOwn' /\ HistoryStaysWithAccount'
  BY <1>1, <1>2 DEF IInv, Shape, Pages, SessionIsUsers, ResultsAreOwn,
                    HistoryStaysWithAccount
<1>. QED
  BY <1>3, <1>4, <1>5 DEF IInv

\* A list arrives, current or stale; p is the page that shows it, and c the
\* calls without it.
LEMMA ListOverStep ==
  ASSUME IInv, NEW p, NEW c \in Calls, NEW login \in BOOLEAN,
         ListOver(p, c, login), SameUser(p, page),
         p.suggestions = page.suggestions, p.selected = page.selected,
         p.timer = page.timer, p.word = page.word,
         page.token = None => p.dicts = {},
         c.search = calls.search, c.fuzzy = calls.fuzzy, c.login = calls.login,
         c.refresh = calls.refresh, c.list \in {calls.list, None},
         stale' \subseteq ListCalls, UNCHANGED <<stored, issued>>
  PROVE  IInv'
<1>1. p \in Pages(p.suggestions) /\ p.token = page.token
  BY DEF SameUser
<1>2. /\ SameUser(page', page)
      /\ page'.suggestions \in {page.suggestions, None}
      /\ page'.timer => page.timer
      /\ page'.dicts = p.dicts /\ page'.selected = page.selected
  <2>1. page' = p \/ page' = [p EXCEPT !.suggestions = None, !.timer = FALSE]
    BY <1>1, SearchPageShape DEF ListOver
  <2>. QED
    BY <1>1, <2>1 DEF SameUser, Pages
<1>3. Searched(calls', c, page.token) /\ Wanted(calls', page')
  <2>1. Wanted(c, p)
    BY DEF IInv, ResultsAreOwn, Wanted
  <2>2. CASE login
    BY <1>1, <2>1, <2>2, SearchShape, StillWanted DEF ListOver
  <2>3. CASE ~login
    BY <1>1, <2>1, <2>3 DEF ListOver, Searched
  <2>. QED
    BY <2>2, <2>3
<1>4. page.token = None => page'.dicts = {} /\ page'.selected = None
  BY <1>2 DEF IInv, SignedOutIsClean
<1>. QED
  BY <1>2, <1>3, <1>4, SearchingStep

LEMMA ListDoneStep == ASSUME IInv, ListDone PROVE IInv'
<1> DEFINE c == [calls EXCEPT !.list = None]
           listed == [page EXCEPT !.dicts = Dicts,
                                  !.selected = IF @ \in Dicts THEN @ ELSE None]
           failed == [page EXCEPT !.dictsError = TRUE]
<1>1. calls.list # None /\ UNCHANGED <<stale, stored, issued>>
  BY DEF ListDone, Delivered
<1>2. page.token # None /\ calls.list.login \in BOOLEAN
  BY <1>1 DEF IInv, Shape, Calls, ListCalls, SignedOutIsClean
<1>3. PICK p \in {page, listed, failed} : ListOver(p, c, calls.list.login)
  BY DEF ListDone, Answers
<1>4. /\ SameUser(p, page)
      /\ p.suggestions = page.suggestions /\ p.selected = page.selected
      /\ p.timer = page.timer /\ p.word = page.word
  BY <1>3 DEF IInv, Shape, Pages, SameUser
<1>5. /\ c \in Calls /\ c.list = None
      /\ c.search = calls.search /\ c.fuzzy = calls.fuzzy
      /\ c.login = calls.login /\ c.refresh = calls.refresh
  BY DEF IInv, Shape, Calls
<1>6. stale' \subseteq ListCalls
  BY <1>1 DEF IInv, Shape
<1> HIDE DEF c
<1>. QED
  BY <1>1, <1>2, <1>3, <1>4, <1>5, <1>6, ListOverStep

LEMMA StaleListDoneStep == ASSUME IInv, StaleListDone PROVE IInv'
<1>1. PICK c \in stale, failed \in BOOLEAN :
        /\ ListOver([page EXCEPT !.dictsError = @ \/ failed], calls, c.login)
        /\ stale' = stale \ {c}
        /\ UNCHANGED <<stored, issued>>
  BY DEF StaleListDone
<1> DEFINE p == [page EXCEPT !.dictsError = @ \/ failed]
<1>2. c.login \in BOOLEAN /\ stale' \subseteq ListCalls
  BY <1>1 DEF IInv, Shape, ListCalls
<1>3. /\ SameUser(p, page)
      /\ p.suggestions = page.suggestions /\ p.selected = page.selected
      /\ p.timer = page.timer /\ p.dicts = page.dicts /\ p.word = page.word
  BY DEF IInv, Shape, Pages, SameUser
<1>4. calls \in Calls /\ (page.token = None => page.dicts = {})
  BY DEF IInv, Shape, SignedOutIsClean
<1> HIDE DEF p
<1>. QED
  BY <1>1, <1>2, <1>3, <1>4, ListOverStep DEF p

\* A page without a user is signed in: there is nothing on it yet.
LEMMA LoginDoneStep == ASSUME IInv, LoginDone PROVE IInv'
<1> DEFINE u == calls.login
           token == NewToken(u)
           q == [page EXCEPT !.token = token, !.user = u]
<1>1. PICK p \in WithHistory(q) :
        /\ u # None /\ issued < MaxTokens /\ issued' = issued + 1
        /\ page' = [p EXCEPT !.dictsError = FALSE]
        /\ calls' = [calls EXCEPT !.list = ListCall(p, TRUE), !.login = None]
        /\ stale' = stale \cup Newest(calls)
        /\ stored' = [stored EXCEPT !.token = token, !.refresh = token,
                                    !.user = u]
  BY DEF LoginDone, LoadDicts
<1>2. u \in Users /\ page.user = None /\ page.token = None
  BY <1>1, NoneAssumption
     DEF IInv, Shape, Pages, Calls, Asked, SessionIsUsers, Token
<1>3. /\ page.results = None /\ page.suggestions = None
      /\ calls.search = None /\ calls.fuzzy = None
  BY <1>2 DEF IInv, SignedOutIsClean
<1>4. token \in Token /\ token.user = u /\ issued' \in 0..MaxTokens
  BY <1>1, <1>2, NewTokenShape DEF IInv, Shape
<1>5. PICK h \in SUBSET Remembered, b \in BOOLEAN :
        /\ p = [q EXCEPT !.history = h, !.synced = b]
        /\ h \subseteq stored.history[u]
        /\ b => h = stored.history[u]
  <2>1. q.user = u
    BY DEF IInv, Shape, Pages
  <2>2. Shape /\ u # None /\ u \in Users /\ p \in WithHistory(q)
    BY <1>1, <1>2 DEF IInv
  <2> HIDE DEF q, u
  <2>3. HasHistory(p, q, u)
    BY <2>1, <2>2, WithHistoryShape
  <2>. QED
    BY <2>2, <2>3 DEF HasHistory
<1>6. token # None
  BY <1>4, NoneAssumption
<1> HIDE DEF token
<1>7. /\ p \in Pages(None) /\ p.token = token /\ p.user = u
      /\ p.history = h /\ p.synced = b
      /\ p.results = None /\ p.suggestions = None
  BY <1>2, <1>3, <1>4, <1>5 DEF IInv, Shape, Pages
<1>8. /\ page' \in Pages(None)
      /\ page'.token = token /\ page'.user = u
      /\ page'.history = h /\ page'.synced = b
      /\ page'.results = None /\ page'.suggestions = None
  BY <1>1, <1>7 DEF Pages
<1>9. ListCall(p, TRUE) \in ListCalls
  BY <1>6, <1>7, ListCallShape
<1> HIDE DEF q, u
<1>10. /\ calls' \in Calls
       /\ calls'.search = None /\ calls'.fuzzy = None /\ calls'.login = None
       /\ calls'.refresh = calls.refresh
  BY <1>1, <1>3, <1>9 DEF IInv, Shape, Calls
<1>11. /\ stored' \in Storage /\ stored'.history = stored.history
       /\ stored'.token = token /\ stored'.refresh = token /\ stored'.user = u
  BY <1>1, <1>2, <1>4 DEF IInv, Shape, Storage
<1>12. Shape' /\ Asked'
  BY <1>1, <1>4, <1>8, <1>10, <1>11, NewestShape DEF IInv, Shape, Asked
<1>13. SuggestionsAreOwn' /\ SignedOutIsClean' /\ ResultsAreOwn'
  BY <1>6, <1>8, <1>10 DEF SuggestionsAreOwn, SignedOutIsClean, ResultsAreOwn
<1>14. SessionIsUsers' /\ HistoryStaysWithAccount'
  BY <1>2, <1>4, <1>5, <1>6, <1>8, <1>11, NoneAssumption
     DEF IInv, SessionIsUsers, HistoryStaysWithAccount
<1>. QED
  BY <1>12, <1>13, <1>14 DEF IInv

LEMMA LoginFailedStep == ASSUME IInv, LoginFailed PROVE IInv'
<1>1. Shape' /\ Asked'
  BY DEF LoginFailed, IInv, Shape, Calls, Asked
<1>2. SuggestionsAreOwn' /\ SignedOutIsClean' /\ SessionIsUsers'
      /\ ResultsAreOwn' /\ HistoryStaysWithAccount'
  BY DEF LoginFailed, IInv, Shape, Calls, SuggestionsAreOwn, SignedOutIsClean,
         SessionIsUsers, ResultsAreOwn, HistoryStaysWithAccount
<1>. QED
  BY <1>1, <1>2 DEF IInv

\* A call that is sent again carries the new token of the same user.
LEMMA AgainShape ==
  ASSUME NEW token \in Token
  PROVE  /\ \A c \in SearchCalls : /\ Again(c, token) \in SearchCalls
                                   /\ Again(c, token).token = token
                                   /\ Again(c, token).word = c.word
                                   /\ Again(c, token).dict = c.dict
         /\ \A c \in ListCalls : Again(c, token) \in ListCalls
BY DEF Again, SearchCalls, ListCalls

\* The answer counts only if the page still has the token it replaces; so it is
\* of the user of the page, and of all calls that wait.
LEMMA RefreshDoneStep == ASSUME IInv, RefreshDone PROVE IInv'
<1> DEFINE r == calls.refresh
           u == r.session.user
           token == NewToken(u)
           sent(k) == IF k \in Waiters THEN Again(calls[k], token) ELSE calls[k]
<1>1. /\ r # None /\ issued < MaxTokens /\ r.token = page.token
      /\ page' = [page EXCEPT !.token = token]
      /\ stored' = [stored EXCEPT !.token = token]
      /\ calls' = [k \in DOMAIN calls |->
                     CASE k = "refresh" -> None
                       [] k \in Waiters -> Again(calls[k], token)
                       [] OTHER -> calls[k]]
      /\ stale' = (stale \ StaleWaiters) \cup
                    {Again(c, token) : c \in StaleWaiters}
      /\ issued' = issued + 1
  BY DEF RefreshDone, Refreshed
<1>2. r.token \in Token /\ r.session \in Token /\ r.token.user = u
  BY <1>1 DEF IInv, Shape, Calls, Asked
<1>3. page.token # None /\ u \in Users /\ page.user = u
  BY <1>1, <1>2, NoneAssumption DEF IInv, SessionIsUsers, Token
<1>4. token \in Token /\ token.user = u /\ issued' \in 0..MaxTokens
  BY <1>1, <1>3, NewTokenShape DEF IInv, Shape
<1>5. token # None
  BY <1>4, NoneAssumption
<1> HIDE DEF token, u
<1>6. DOMAIN calls = {"search", "fuzzy", "list", "login", "refresh"}
      /\ "refresh" \notin Waiters /\ "login" \notin Waiters
  BY DEF IInv, Shape, Calls, Waiters, Authorized
<1>7. calls' = [search |-> sent("search"), fuzzy |-> sent("fuzzy"),
                list |-> sent("list"), login |-> calls.login, refresh |-> None]
  BY <1>1, <1>6
<1>8. /\ sent("search") \in SearchCalls \cup {None}
      /\ calls.search = None => sent("search") = None
      /\ sent("search") = calls.search \/ sent("search").token = token
      /\ sent("search") # None =>
           /\ sent("search").word = calls.search.word
           /\ sent("search").dict = calls.search.dict
  BY <1>4, AgainShape DEF IInv, Shape, Calls, Waiters
<1>9. /\ sent("fuzzy") \in SearchCalls \cup {None}
      /\ calls.fuzzy = None => sent("fuzzy") = None
      /\ sent("fuzzy") = calls.fuzzy \/ sent("fuzzy").token = token
  BY <1>4, AgainShape DEF IInv, Shape, Calls, Waiters
<1>10. sent("list") \in ListCalls \cup {None}
  BY <1>4, AgainShape DEF IInv, Shape, Calls, Waiters
<1>11. stale' \subseteq ListCalls
  BY <1>1, <1>4, AgainShape DEF IInv, Shape, StaleWaiters
<1>12. /\ page' \in Pages(page'.suggestions)
       /\ page'.token = token /\ page'.user = page.user
       /\ page'.suggestions = page.suggestions
       /\ page'.selected = page.selected /\ page'.results = page.results
       /\ page'.resultWord = page.resultWord /\ page'.searched = page.searched
       /\ page'.history = page.history /\ page'.synced = page.synced
       /\ page'.word = page.word
  BY <1>1, <1>4 DEF IInv, Shape, Pages
<1>13. /\ stored' \in Storage
       /\ stored'.token = token /\ stored'.refresh = stored.refresh
       /\ stored'.user = stored.user /\ stored'.history = stored.history
  BY <1>1, <1>4 DEF IInv, Shape, Storage
<1> HIDE DEF sent
<1>14. /\ calls' \in Calls
       /\ calls'.search = sent("search") /\ calls'.fuzzy = sent("fuzzy")
       /\ calls'.login = calls.login /\ calls'.refresh = None
  BY <1>7, <1>8, <1>9, <1>10 DEF IInv, Shape, Calls
<1>15. Shape' /\ Asked'
  BY <1>3, <1>4, <1>8, <1>9, <1>11, <1>12, <1>13, <1>14 DEF IInv, Shape, Asked
<1>16. SuggestionsAreOwn' /\ SignedOutIsClean' /\ ResultsAreOwn'
  BY <1>3, <1>4, <1>5, <1>8, <1>12, <1>14
     DEF IInv, SuggestionsAreOwn, SignedOutIsClean, ResultsAreOwn
<1>17. SessionIsUsers' /\ HistoryStaysWithAccount'
  BY <1>3, <1>4, <1>5, <1>12, <1>13
     DEF IInv, SessionIsUsers, HistoryStaysWithAccount
<1>. QED
  BY <1>15, <1>16, <1>17 DEF IInv

LEMMA RefreshFailedStep == ASSUME IInv, RefreshFailed PROVE IInv'
<1> DEFINE wanted == Waiters # {} \/ StaleWaiters # {}
<1>1. CASE wanted
  <2>1. /\ page' = SignedOut(page) /\ stored' = ForgetSession(stored)
        /\ calls' = [WithoutSession(calls) EXCEPT !.refresh = None]
        /\ stale' = {c \in stale \cup Newest(calls) : ~c.waiting}
        /\ UNCHANGED issued
    BY <1>1 DEF RefreshFailed
  <2>2. stale' \subseteq ListCalls
    BY <2>1, NewestShape DEF IInv, Shape
  <2>. QED
    BY <2>1, <2>2, SignOutStep
<1>2. CASE ~wanted
  <2>1. /\ calls' = [calls EXCEPT !.refresh = None]
        /\ UNCHANGED <<page, stored, stale, issued>>
    BY <1>2 DEF RefreshFailed
  <2>2. Shape' /\ Asked'
    BY <2>1 DEF IInv, Shape, Calls, Asked
  <2>3. SuggestionsAreOwn' /\ SignedOutIsClean' /\ SessionIsUsers'
        /\ ResultsAreOwn' /\ HistoryStaysWithAccount'
    BY <2>1 DEF IInv, Shape, Calls, SuggestionsAreOwn, SignedOutIsClean,
                SessionIsUsers, ResultsAreOwn, HistoryStaysWithAccount
  <2>. QED
    BY <2>2, <2>3 DEF IInv
<1>. QED
  BY <1>1, <1>2

-----------------------------------------------------------------------------
(* The theorems.                                                            *)

LEMMA NextStep == IInv /\ [Next]_vars => IInv'
<1> SUFFICES ASSUME IInv, [Next]_vars PROVE IInv'
  OBVIOUS
<1>1. CASE User
  BY <1>1, ReloadStep, BoxStep, LookupStep, ChooseDictStep, ForgetStep,
     LoginStep, LogoutStep
     DEF User
<1>2. CASE FuzzySearchStarts
  BY <1>2, FuzzySearchStartsStep
<1>3. CASE Deliver
  BY <1>3, AwaitRefreshStep, AwaitRefreshStaleStep, SearchDoneStep,
     FuzzySearchDoneStep, ListDoneStep, StaleListDoneStep, LoginDoneStep,
     LoginFailedStep, RefreshDoneStep, RefreshFailedStep
     DEF Deliver
<1>4. CASE UNCHANGED vars
  BY <1>4 DEF vars, IInv, Shape, Asked, SuggestionsAreOwn, SignedOutIsClean,
              SessionIsUsers, ResultsAreOwn, HistoryStaysWithAccount
<1>. QED
  BY <1>1, <1>2, <1>3, <1>4 DEF Next

LEMMA Invariance == Spec => []IInv
BY Initially, NextStep, PTL DEF Spec

\* The tokens of the page and of localStorage are those of the user who is
\* signed in, whatever logins, logouts and refreshes overtake each other: what
\* performTokenRefresh compares before it takes an answer.
THEOREM SessionsAreUsers == Spec => []SessionIsUsers
<1>1. IInv => SessionIsUsers
  BY DEF IInv
<1>. QED
  BY <1>1, Invariance, PTL

\* A search under way is for the word in the box, the chosen dictionary and the
\* user who is signed in, so that no other answer is ever shown: cancelSearch on
\* every input, choice and logout.  What is shown stands under its word, and the
\* user who is signed in asked for it.
THEOREM OwnResults == Spec => []ResultsAreOwn
<1>1. IInv => ResultsAreOwn
  BY DEF IInv
<1>. QED
  BY <1>1, Invariance, PTL

\* No user sees or gets an entry of the history of another: addToHistory stores
\* under the user of the page, whom a late answer of another never meets.  The
\* page shows the stored history, unless persistHistory or loadHistory caught a
\* failure of localStorage since.
THEOREM OwnHistory == Spec => []HistoryStaysWithAccount
<1>1. IInv => HistoryStaysWithAccount
  BY DEF IInv
<1>. QED
  BY <1>1, Invariance, PTL

\* Nothing of a session outlives it, on the screen or under way: logout takes it
\* down, and nothing that arrives later brings it back.
THEOREM CleanLogout == Spec => []SignedOutIsClean
<1>1. IInv => SignedOutIsClean
  BY DEF IInv
<1>. QED
  BY <1>1, Invariance, PTL

-----------------------------------------------------------------------------
(* The shelf.                                                               *)

\* The list under way was asked for with the token the page has.
ShelfInv ==
  /\ calls.list # None => calls.list.asked = page.token
  /\ EmptyShelfIsEmpty

SameShelf ==
  /\ page'.token = page.token /\ page'.user = page.user
  /\ page'.dicts = page.dicts /\ page'.dictsError = page.dictsError
  /\ calls'.list = calls.list

LEMMA ShelfFrame == ShelfInv /\ SameShelf => ShelfInv'
BY DEF ShelfInv, SameShelf, EmptyShelfIsEmpty

\* A list that is sent is under way, and asked for with the token of the page.
LEMMA ListSent ==
  ASSUME NEW s, NEW p \in Pages(s), p.token # None, NEW login \in BOOLEAN
  PROVE  ListCall(p, login) # None /\ ListCall(p, login).asked = p.token
<1>1. ListCall(p, login) \in ListCalls
  BY ListCallShape
<1>. QED
  BY <1>1, NoneAssumption DEF ListCall

\* What the user does, but for logging in and out, leaves the shelf alone.
LEMMA ShelfUserStep ==
  ASSUME IInv, ShelfInv, User
  PROVE  ShelfInv'
<1>0. page \in Pages(page.suggestions) /\ calls \in Calls
  BY DEF IInv, Shape
<1>1. CASE Reload
  <2> DEFINE q == [NoPage EXCEPT !.token = stored.token, !.user = stored.user]
  <2>1. PICK p \in WithHistory(q) :
          page' = p /\ calls' = [NoCalls EXCEPT !.list = FirstList(p)]
    BY <1>1 DEF Reload
  <2>2. p.token = page.token /\ p.user = page.user /\ (p.token = None => p.user = None)
    BY <2>1 DEF WithHistory, IInv, SessionIsUsers, NoPage
  <2>3. calls'.list = FirstList(p)
    BY <2>1 DEF NoCalls
  <2>4. CASE p.token = None
    BY <2>1, <2>2, <2>3, <2>4 DEF FirstList, ShelfInv, EmptyShelfIsEmpty
  <2>5. CASE p.token # None
    <3>1. IInv'
      BY <1>1, ReloadStep
    <3>2. p \in Pages(p.suggestions)
      BY <2>1, <3>1 DEF IInv, Shape
    <3>. QED
      BY <2>1, <2>3, <2>5, <3>2, ListSent DEF FirstList, ShelfInv, EmptyShelfIsEmpty
  <2>. QED
    BY <2>4, <2>5
<1>2. ASSUME NEW w, Type(w)
      PROVE  SameShelf
  BY <1>0, <1>2 DEF Type, Debounced, WithoutSuggestions, CancelSearch,
     CancelSuggestions, SameShelf, Pages, Calls
<1>3. CASE Compose \/ Dismiss
  <2> DEFINE p == [page EXCEPT !.composing = ~@]
  <2>1. calls'.list = calls.list
    BY <1>0, <1>3 DEF Compose, Dismiss, CancelSuggestions, Calls
  <2>2. page' \in {WithoutSuggestions(p), Debounced(p), WithoutSuggestions(page)}
    BY <1>3 DEF Compose, Dismiss
  <2>3. /\ p.token = page.token /\ p.user = page.user
        /\ p.dicts = page.dicts /\ p.dictsError = page.dictsError
        /\ p \in Pages(page.suggestions)
    BY <1>0 DEF Pages
  <2> HIDE DEF p
  <2>. QED
    BY <1>0, <2>1, <2>2, <2>3, ShelfFrame
       DEF Debounced, WithoutSuggestions, SameShelf, Pages
<1>4. ASSUME NEW p, NEW q, NEW c \in Calls, p \in Pages(q),
             page' = SearchPage(p), calls' = Search(p, c, FALSE),
             p.token = page.token, p.user = page.user, p.dicts = page.dicts,
             p.dictsError = page.dictsError, c.list = calls.list
      PROVE  SameShelf
  BY <1>4, SearchShape, SearchPageShape DEF Searched, SameShelf, Pages
<1>5. CASE Submit
  <2>1. page' = SearchPage(page) /\ calls' = Search(page, calls, FALSE)
    BY <1>5 DEF Submit
  <2>. QED
    BY <1>0, <1>4, <2>1, ShelfFrame
<1>6. ASSUME NEW w \in Inputs \ {<<>>}, Select(w)
      PROVE  SameShelf
  <2>1. [page EXCEPT !.word = w] \in Pages(page.suggestions)
    BY <1>0 DEF Pages
  <2>. QED
    BY <1>0, <1>4, <1>6, <2>1 DEF Select, Pages
<1>7. ASSUME NEW d \in Dicts \cup {None}, ChooseDict(d)
      PROVE  SameShelf
  <2> DEFINE p == [page EXCEPT !.selected = d]
             c == CancelSearch(CancelSuggestions(calls))
  <2>1. /\ p \in Pages(page.suggestions) /\ c \in Calls /\ c.list = calls.list
        /\ p.token = page.token /\ p.user = page.user /\ p.dicts = page.dicts
        /\ p.dictsError = page.dictsError
    BY <1>0 DEF Pages, Calls, CancelSearch, CancelSuggestions
  <2>2. \/ page' = SearchPage(p) /\ calls' = Search(p, c, FALSE)
        \/ page' = Debounced(p) /\ calls' = c
    BY <1>7 DEF ChooseDict
  <2>3. CASE page' = Debounced(p) /\ calls' = c
    <3> HIDE DEF c
    <3>. QED
      BY <2>1, <2>3 DEF Debounced, WithoutSuggestions, SameShelf, Pages
  <2>. QED
    BY <1>4, <2>1, <2>2, <2>3
<1>8. CASE RemoveFromHistory \/ ClearHistory
  <2>1. PICK gone : ForgetHistory(gone)
    BY <1>8 DEF RemoveFromHistory, ClearHistory
  <2>. QED
    BY <1>0, <2>1, ShelfFrame DEF ForgetHistory, StoreHistory, SameShelf, Pages
<1>9. ASSUME NEW u \in Users, Login(u)
      PROVE  SameShelf
  BY <1>0, <1>9 DEF Login, SameShelf, Calls
<1>10. CASE Logout
  BY <1>0, <1>10 DEF Logout, SignedOut, WithoutSuggestions, WithoutSession,
     CancelSearch, CancelSuggestions, ShelfInv, EmptyShelfIsEmpty, Pages, Calls
<1>. QED
  BY <1>1, <1>2, <1>3, <1>5, <1>6, <1>7, <1>8, <1>9, <1>10, ShelfFrame DEF User

\* loadDicts() is over: the page and the list are what they were, for login(), too.
LEMMA ListOverShelf ==
  ASSUME NEW s, NEW p \in Pages(s), NEW c \in Calls, NEW login \in BOOLEAN,
         ListOver(p, c, login)
  PROVE  /\ page'.token = p.token /\ page'.user = p.user
         /\ page'.dicts = p.dicts /\ page'.dictsError = p.dictsError
         /\ calls'.list = c.list
<1>1. CASE login
  <2>1. page' = SearchPage(p) /\ calls' = Search(p, c, TRUE)
    BY <1>1 DEF ListOver
  <2>2. calls'.list = c.list
    BY <2>1, SearchShape DEF Searched
  <2>. QED
    BY <2>1, <2>2, SearchPageShape DEF Pages
<1>2. CASE ~login
  BY <1>2 DEF ListOver
<1>. QED
  BY <1>1, <1>2

\* An answer fills the shelf or says why not, if the token it was asked with is
\* still the one of the page.
LEMMA ShelfDeliverStep ==
  ASSUME IInv, ShelfInv, Deliver, RefreshDone => calls.list = None
  PROVE  ShelfInv'
<1>0. page \in Pages(page.suggestions) /\ calls \in Calls
  BY DEF IInv, Shape
<1>1. CASE SearchDone \/ FuzzySearchDone
  BY <1>0, <1>1 DEF SearchDone, FuzzySearchDone, StoreHistory, ShelfInv,
     EmptyShelfIsEmpty, Pages, Calls
<1>2. ASSUME NEW k \in Authorized, AwaitRefresh(k)
      PROVE  ShelfInv'
  <2>1. UNCHANGED page
    BY <1>2 DEF AwaitRefresh
  <2>2. CASE k = "list"
    <3>1. calls.list \in ListCalls
      BY <1>0, <1>2, <2>2 DEF AwaitRefresh, Refused, Delivered, Calls
    <3>2. calls'.list = [calls.list EXCEPT !.waiting = TRUE]
      BY <1>0, <1>2, <2>2 DEF AwaitRefresh, Calls
    <3>3. calls'.list \in ListCalls /\ calls'.list.asked = calls.list.asked
      BY <3>1, <3>2 DEF ListCalls
    <3>. QED
      BY <2>1, <3>1, <3>3, NoneAssumption DEF ShelfInv, EmptyShelfIsEmpty
  <2>3. CASE k # "list"
    <3>1. calls'.list = calls.list
      BY <1>0, <1>2, <2>3 DEF AwaitRefresh, Calls, Authorized
    <3>. QED
      BY <2>1, <3>1, ShelfFrame DEF SameShelf
  <2>. QED
    BY <2>2, <2>3
<1>3. CASE AwaitRefreshStale \/ LoginFailed
  BY <1>0, <1>3, ShelfFrame DEF AwaitRefreshStale, LoginFailed, SameShelf, Calls
<1>4. CASE ListDone
  <2>1. calls.list \in ListCalls /\ calls.list.asked = page.token
    BY <1>0, <1>4 DEF ListDone, Delivered, ShelfInv, Calls
  <2> DEFINE listed == [page EXCEPT !.dicts = Dicts,
                                    !.selected = IF @ \in Dicts THEN @ ELSE None]
             failed == [page EXCEPT !.dictsError = TRUE]
             c == [calls EXCEPT !.list = None]
  <2>2. PICK p \in {listed, failed} : ListOver(p, c, calls.list.login)
    BY <1>4, <2>1 DEF ListDone, Answers
  <2>3. p \in Pages(page.suggestions) /\ c \in Calls /\ c.list = None
    BY <1>0 DEF Pages, Calls
  <2>4. p.dicts = Dicts \/ p.dictsError
    BY <1>0 DEF Pages
  <2> HIDE DEF c
  <2>5. /\ page'.dicts = p.dicts /\ page'.dictsError = p.dictsError
        /\ calls'.list = None
    BY <2>1, <2>2, <2>3, ListOverShelf DEF ListCalls
  <2>. QED
    BY <2>4, <2>5 DEF ShelfInv, EmptyShelfIsEmpty
<1>5. CASE StaleListDone
  <2>1. PICK answer \in Answers, login \in BOOLEAN :
          ListOver([page EXCEPT !.dictsError = @ \/ answer = "broken"], calls, login)
    BY <1>5 DEF StaleListDone, IInv, Shape, ListCalls
  <2> DEFINE p == [page EXCEPT !.dictsError = @ \/ answer = "broken"]
  <2>2. /\ p \in Pages(page.suggestions)
        /\ p.token = page.token /\ p.user = page.user /\ p.dicts = page.dicts
        /\ page.dictsError => p.dictsError
    BY <1>0 DEF Pages
  <2>3. /\ page'.token = p.token /\ page'.user = p.user
        /\ page'.dicts = p.dicts /\ page'.dictsError = p.dictsError
        /\ calls'.list = calls.list
    BY <1>0, <2>1, <2>2, ListOverShelf DEF p
  <2>. QED
    BY <2>2, <2>3 DEF ShelfInv, EmptyShelfIsEmpty
<1>6. CASE LoginDone
  <2> DEFINE u == calls.login
             q == [page EXCEPT !.token = NewToken(u), !.user = u]
  <2>1. PICK p \in WithHistory(q) :
          /\ page' = [p EXCEPT !.dictsError = FALSE]
          /\ calls' = [calls EXCEPT !.list = ListCall(p, TRUE), !.login = None]
    BY <1>6 DEF LoginDone, LoadDicts
  <2>2. calls'.list = ListCall(p, TRUE)
    BY <1>0, <2>1 DEF Calls
  <2>3. page'.token = NewToken(u) /\ p.token = NewToken(u)
    BY <1>0, <2>1 DEF WithHistory, Pages
  <2>4. calls'.list.asked = NewToken(u)
    BY <2>2, <2>3 DEF ListCall
  <2>5. NewToken(u) \in Token
    BY <1>0, <1>6, NewTokenShape DEF LoginDone, IInv, Shape, Calls
  <2>6. calls'.list \in ListCalls
    BY <2>2, <2>3, <2>5 DEF ListCall, ListCalls
  <2>. QED
    BY <2>3, <2>4, <2>6, NoneAssumption DEF ShelfInv, EmptyShelfIsEmpty
<1>7. CASE RefreshDone
  <2>1. calls.list = None
    BY <1>7
  <2>2. calls'.list = None
    BY <1>0, <1>7, <2>1 DEF RefreshDone, Waiters, Calls
  <2>3. /\ page'.user = page.user /\ page'.dicts = page.dicts
        /\ page'.dictsError = page.dictsError
    BY <1>0, <1>7 DEF RefreshDone, Pages
  <2>. QED
    BY <2>1, <2>2, <2>3 DEF ShelfInv, EmptyShelfIsEmpty
<1>8. CASE RefreshFailed
  <2>1. CASE page' = SignedOut(page)
             /\ calls' = [WithoutSession(calls) EXCEPT !.refresh = None]
    BY <1>0, <2>1 DEF SignedOut, WithoutSuggestions, WithoutSession, CancelSearch,
       CancelSuggestions, ShelfInv, EmptyShelfIsEmpty, Pages, Calls
  <2>2. CASE page' = page /\ calls' = [calls EXCEPT !.refresh = None]
    BY <1>0, <2>2, ShelfFrame DEF SameShelf, Calls
  <2>. QED
    BY <1>8, <2>1, <2>2 DEF RefreshFailed
<1>. QED
  BY <1>1, <1>2, <1>3, <1>4, <1>5, <1>6, <1>7, <1>8 DEF Deliver

\* Nothing but a refresh while the list is under way makes the page say that the
\* shelf is empty when it is not: whoever is signed in, and whatever is lost,
\* refused or overtaken, else sees the list, its failure, or that it is coming
\* (loadDicts in app.js, index.html:45).
THEOREM ShelfIsShown ==
  Spec /\ [][RefreshDone => calls.list = None]_vars => []EmptyShelfIsEmpty
<1>1. Init => ShelfInv
  BY DEF Init, NoPage, NoCalls, ShelfInv, EmptyShelfIsEmpty
<1>2. IInv /\ ShelfInv /\ [Next]_vars /\ [RefreshDone => calls.list = None]_vars
        => ShelfInv'
  <2> SUFFICES ASSUME IInv, ShelfInv, [Next]_vars,
                      [RefreshDone => calls.list = None]_vars
               PROVE  ShelfInv'
    OBVIOUS
  <2>1. CASE UNCHANGED vars
    BY <2>1 DEF vars, ShelfInv, EmptyShelfIsEmpty
  <2>2. CASE FuzzySearchStarts
    <3>1. page \in Pages(page.suggestions) /\ calls \in Calls
      BY DEF IInv, Shape
    <3>. QED
      BY <2>2, <3>1, ShelfFrame DEF FuzzySearchStarts, SameShelf, Pages, Calls
  <2>. QED
    BY <2>1, <2>2, ShelfUserStep, ShelfDeliverStep DEF Next
<1>3. ShelfInv => EmptyShelfIsEmpty
  BY DEF ShelfInv
<1>. QED
  BY <1>1, <1>2, <1>3, Invariance, PTL DEF Spec

=============================================================================
