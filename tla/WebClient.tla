------------------------------ MODULE WebClient ------------------------------
(***************************************************************************)
(* The search page of mdict-server (templates/assets/app.js) in one tab of *)
(* a browser, with the server as the page meets it: the check of access    *)
(* tokens (internal/auth), login and refresh (internal/handlers/auth.go),  *)
(* the searches (internal/handlers/search.go) and the list of dictionaries.*)
(*                                                                         *)
(* The page runs one handler at a time, from one await to the next.  A     *)
(* call is answered, or breaks, at any time in between; what the answer is *)
(* is chosen when it is delivered, for a token may run out, a user be      *)
(* disabled, the database be busy or the rate limiter refuse at any time.  *)
(* A search that is aborted is forgotten at once; a list of dictionaries   *)
(* cannot be aborted and is ignored when it is stale.                      *)
(*                                                                         *)
(* Loading and login in progress are told by the calls under way.  What a  *)
(* result, a suggestion or an entry of the history shows is who asked for  *)
(* it.  Panels, error messages and media are left out.                     *)
(*                                                                         *)
(* The list of the enabled dictionaries stays the same while the page is    *)
(* open.  localStorage may fail to keep or to give back a history, but the  *)
(* three small items of the session are kept.                              *)
(***************************************************************************)
EXTENDS WordIndex

CONSTANTS
  Users,
  Dicts,        \* the dictionaries in memory, all enabled
  Entries,      \* Entries[d]: the headwords of dictionary d, as its index holds them
  Typed,        \* what the user may type, without the spaces around it
  SuggestSize,  \* page_size of the suggestions
  MaxTokens,    \* bound: logins and refreshes
  None

Token == [user : Users, n : 1..MaxTokens]
Vocabulary == UNION {Entries[d] : d \in Dicts}
Inputs == Typed \cup Vocabulary
Remembered == [word : Inputs, by : Users]
SearchCalls ==
  [word : Inputs, dict : Dicts \cup {None}, token : Token, retried : BOOLEAN,
   waiting : BOOLEAN, login : BOOLEAN]
ListCalls ==
  [asked : Token, token : Token, retried : BOOLEAN, waiting : BOOLEAN,
   login : BOOLEAN]

ASSUME NoneAssumption ==
  None \notin Users \cup Dicts \cup Token \cup Inputs \cup ListCalls
\* The box may be emptied.
ASSUME TypedAssumption ==
  /\ <<>> \in Typed
  /\ \A w \in Typed : w \in Words /\ TrimSpace(w) = w
\* newWordIndex keeps no empty word and none with spaces around it.
ASSUME EntriesAssumption ==
  /\ IsFiniteSet(Dicts)
  /\ Entries \in [Dicts -> SUBSET Words]
  /\ \A d \in Dicts : /\ IsFiniteSet(Entries[d])
                      /\ \A w \in Entries[d] : w # <<>> /\ TrimSpace(w) = w
\* fuzzySearch asks for 10, of at most 100.
ASSUME SuggestAssumption == SuggestSize \in 1..MaxPageSize
ASSUME TokensAssumption == MaxTokens \in Nat

VARIABLES
  page,    \* the fields of app() that are not about calls; page.synced is
           \* history: the last access to the stored history succeeded
  calls,   \* the call of each kind that is current
  stale,   \* lists of dictionaries that are under way but no longer wanted
  stored,  \* localStorage
  issued   \* the number of access tokens the server has issued

vars == <<page, calls, stale, stored, issued>>

-----------------------------------------------------------------------------
NoPage == [token |-> None, user |-> None, dicts |-> {}, dictsError |-> FALSE,
           selected |-> None, word |-> <<>>, composing |-> FALSE,
           searched |-> FALSE, resultWord |-> <<>>, results |-> None,
           suggestions |-> None, timer |-> FALSE, history |-> {},
           synced |-> TRUE]

\* The calls that carry an access token.
Authorized == {"search", "fuzzy", "list"}

NoCalls == [search |-> None, fuzzy |-> None, list |-> None, login |-> None,
            refresh |-> None]

Init ==
  /\ page = NoPage
  /\ calls = NoCalls
  /\ stale = {}
  /\ stored = [token |-> None, refresh |-> None, user |-> None,
               history |-> [u \in Users |-> {}]]
  /\ issued = 0

Loading == calls.search # None

\* The calls of fetchWithAuth, with the header they carry and what the handler
\* noted: a search its word and its dictionary, a list the token.
SearchCall(p, login) ==
  [word |-> p.word, dict |-> p.selected, token |-> p.token, retried |-> FALSE,
   waiting |-> FALSE, login |-> login]
ListCall(p, login) ==
  [asked |-> p.token, token |-> p.token, retried |-> FALSE, waiting |-> FALSE,
   login |-> login]

LoggingIn ==
  \/ calls.login # None
  \/ \E k \in {"search", "list"} : calls[k] # None /\ calls[k].login
  \/ \E c \in stale : c.login

-----------------------------------------------------------------------------
(* What the handlers of the page share.                                     *)

WithoutSuggestions(p) == [p EXCEPT !.suggestions = None, !.timer = FALSE]

\* Faulty variant: the lookup that is under way goes on.
ForgetNothing(c) == c

CancelSuggestions(c) == [c EXCEPT !.fuzzy = None]
CancelSearch(c) == [c EXCEPT !.search = None]

CanSuggest(p) == p.token # None /\ LongEnough(p.word)

Debounced(p) ==
  [WithoutSuggestions(p) EXCEPT !.timer = CanSuggest(p) /\ ~p.composing]

\* search(): the calls when the page is p.
Search(p, c, login) ==
  IF p.word = <<>>
    THEN c
    ELSE [CancelSuggestions(CancelSearch(c)) EXCEPT
            !.search = IF p.token = None THEN None ELSE SearchCall(p, login)]

SearchPage(p) == IF p.word = <<>> THEN p ELSE WithoutSuggestions(p)

Newest(c) == IF c.list = None THEN {} ELSE {c.list}

\* loadDicts(): an earlier list is stale from now on.
LoadDicts(p, login) ==
  /\ page' = [p EXCEPT !.dictsError = FALSE]
  /\ calls' = [calls EXCEPT !.list = ListCall(p, login), !.login = None]
  /\ stale' = stale \cup Newest(calls)

\* logout()
SignedOut(p) ==
  [WithoutSuggestions(p) EXCEPT
     !.token = None, !.user = None, !.dicts = {}, !.selected = None,
     !.results = None, !.searched = FALSE, !.history = {}, !.synced = TRUE]

ForgetSession(s) ==
  [s EXCEPT !.token = None, !.refresh = None, !.user = None]

WithoutSession(c) == [CancelSuggestions(CancelSearch(c)) EXCEPT !.list = None]

\* addToHistory()
Remember(h, entry) ==
  {x \in h : ToLower(x.word) # ToLower(entry.word)} \cup {entry}

\* Faulty variant: one history for all accounts, as older pages kept it.
SharedHistory(u) == UNION {stored.history[v] : v \in Users}

LoadHistory(u) == IF u = None THEN {} ELSE stored.history[u]

\* loadHistory(): a history that cannot be read counts as empty.
WithHistory(p) ==
  LET read == [p EXCEPT !.history = LoadHistory(p.user), !.synced = TRUE]
      failed == [p EXCEPT !.history = {}, !.synced = FALSE]
  IN  IF read.history = {} THEN {read} ELSE {read, failed}

\* persistHistory(), when the page becomes p: that the browser does not store a
\* new history is ignored.
StoreHistory(p) ==
  \/ /\ page' = [p EXCEPT !.synced = TRUE]
     /\ stored' = IF p.user = None THEN stored
                                   ELSE [stored EXCEPT !.history[p.user] = p.history]
  \/ /\ p.user # None /\ p.history # stored.history[p.user]
     /\ page' = [p EXCEPT !.synced = FALSE]
     /\ UNCHANGED stored

-----------------------------------------------------------------------------
(* The user.                                                                *)

\* Faulty variant: the list is loaded by a page without a token, too.
ListAnyway(p) == ListCall(p, FALSE)

\* init()
FirstList(p) == IF p.token = None THEN None ELSE ListCall(p, FALSE)

\* The page is loaded again; calls under way are lost.
Reload ==
  /\ \E p \in WithHistory([NoPage EXCEPT !.token = stored.token,
                                         !.user = stored.user]) :
       /\ page' = p
       /\ calls' = [NoCalls EXCEPT !.list = FirstList(p)]
  /\ stale' = {}
  /\ UNCHANGED <<stored, issued>>

\* Faulty variant: a search that is under way goes on.
TypeKeepsSearch(w) ==
  LET p == [page EXCEPT !.word = w]
  IN  /\ w # page.word
      /\ page' = IF p.composing THEN p ELSE Debounced(p)
      /\ calls' = IF p.composing THEN calls ELSE CancelSuggestions(calls)
      /\ UNCHANGED <<stale, stored, issued>>

\* An input event, also while an input method composes.
Type(w) ==
  LET p == [page EXCEPT !.word = w]
      c == CancelSearch(calls)
  IN  /\ w # page.word
      /\ page' = IF p.composing THEN p ELSE Debounced(p)
      /\ calls' = IF p.composing THEN c ELSE CancelSuggestions(c)
      /\ UNCHANGED <<stale, stored, issued>>

\* The beginning and the end of a composition.
Compose ==
  LET p == [page EXCEPT !.composing = ~@]
  IN  /\ page' = IF p.composing THEN WithoutSuggestions(p) ELSE Debounced(p)
      /\ calls' = CancelSuggestions(calls)
      /\ UNCHANGED <<stale, stored, issued>>

\* Escape, or a click outside the box.
Dismiss ==
  /\ page' = WithoutSuggestions(page)
  /\ calls' = CancelSuggestions(calls)
  /\ UNCHANGED <<stale, stored, issued>>

\* Enter, with no suggestion marked.
Submit ==
  /\ ~page.composing
  /\ page' = SearchPage(page)
  /\ calls' = Search(page, calls, FALSE)
  /\ UNCHANGED <<stale, stored, issued>>

\* A suggestion or a word of the history is chosen; neither is ever empty.
Select(w) ==
  LET p == [page EXCEPT !.word = w]
  IN  /\ \/ page.suggestions # None
            /\ \E i \in DOMAIN page.suggestions.items :
                 page.suggestions.items[i] = w
         \/ \E x \in page.history : x.word = w
      /\ page' = SearchPage(p)
      /\ calls' = Search(p, calls, FALSE)
      /\ UNCHANGED <<stale, stored, issued>>

\* The selection of another dictionary, or of all.
ChooseDict(d) ==
  LET lookup == (page.searched \/ Loading) /\ page.word # <<>>
      p == [page EXCEPT !.selected = d]
      c == CancelSearch(CancelSuggestions(calls))
  IN  /\ d \in page.dicts \cup {None}
      /\ page' = IF lookup THEN SearchPage(p) ELSE Debounced(p)
      /\ calls' = IF lookup THEN Search(p, c, FALSE) ELSE c
      /\ UNCHANGED <<stale, stored, issued>>

ForgetHistory(gone) ==
  /\ StoreHistory([page EXCEPT !.history = @ \ gone])
  /\ UNCHANGED <<calls, stale, issued>>

RemoveFromHistory == \E x \in page.history : ForgetHistory({x})
ClearHistory == page.history # {} /\ ForgetHistory(page.history)

\* The login form: shown to a page without a user.
Login(u) ==
  /\ page.user = None /\ ~LoggingIn
  /\ calls' = [calls EXCEPT !.login = u]
  /\ UNCHANGED <<page, stale, stored, issued>>

Logout ==
  /\ page.user # None
  /\ page' = SignedOut(page)
  /\ calls' = WithoutSession(calls)
  /\ stale' = stale \cup Newest(calls)
  /\ stored' = ForgetSession(stored)
  /\ UNCHANGED issued

\* The 150 milliseconds since the last key are over.
FuzzySearchStarts ==
  /\ page.timer
  /\ page' = [page EXCEPT !.timer = FALSE]
  /\ calls' = [calls EXCEPT !.fuzzy =
                  IF CanSuggest(page) THEN SearchCall(page, FALSE) ELSE @]
  /\ UNCHANGED <<stale, stored, issued>>

-----------------------------------------------------------------------------
(* What is delivered: the page goes on after an await.                      *)

\* What an answer may be besides a 401 that leads to a refresh: the page gets
\* what it asked for, reads a failure, or the connection is broken.
Answers == {"ok", "error", "broken"}

Delivered(c) == c # None /\ ~c.waiting

\* fetchWithAuth refreshes once, on a page with a token.
Refused(c) == Delivered(c) /\ ~c.retried /\ page.token # None

\* refreshToken(): one refresh serves all who wait.
Refreshing ==
  IF calls.refresh # None
    THEN calls.refresh
    ELSE [token |-> page.token, session |-> stored.refresh]

AwaitRefresh(k) ==
  /\ Refused(calls[k])
  /\ calls' = [calls EXCEPT ![k].waiting = TRUE, !.refresh = Refreshing]
  /\ UNCHANGED <<page, stale, stored, issued>>

AwaitRefreshStale ==
  \E c \in stale :
    /\ Refused(c)
    /\ stale' = (stale \ {c}) \cup {[c EXCEPT !.waiting = TRUE]}
    /\ calls' = [calls EXCEPT !.refresh = Refreshing]
    /\ UNCHANGED <<page, stored, issued>>

\* Dictionaries that answer an exact search, and the suggestions for a keyword.
Hits(c) == {d \in IF c.dict = None THEN Dicts ELSE {c.dict} : c.word \in Entries[d]}

WordIndexes ==
  [d \in Dicts \cup {None} |->
     NewWordIndex(IF d = None THEN Vocabulary ELSE Entries[d])]

Suggestions(c) ==
  FuzzySearch(WordIndexes[c.dict], c.word, 1, SuggestSize).items

SearchDone ==
  LET c == calls.search
      by == c.token.user
      shown == [page EXCEPT !.searched = TRUE, !.resultWord = c.word,
                            !.results = None]
      found == [shown EXCEPT
                  !.results = [word |-> c.word, dict |-> c.dict, by |-> by],
                  !.history = Remember(@, [word |-> c.word, by |-> by])]
  IN  /\ Delivered(c)
      /\ \/ page' = shown /\ UNCHANGED stored
         \/ Hits(c) # {} /\ StoreHistory(found)
      /\ calls' = [calls EXCEPT !.search = None]
      /\ UNCHANGED <<stale, issued>>

FuzzySearchDone ==
  LET c == calls.fuzzy
      found == [word |-> c.word, dict |-> c.dict, by |-> c.token.user,
                items |-> Suggestions(c)]
  IN  /\ Delivered(c)
      /\ \/ UNCHANGED page
         \/ /\ c.word = page.word /\ c.dict = page.selected
            /\ page' = [page EXCEPT !.suggestions = found]
      /\ calls' = [calls EXCEPT !.fuzzy = None]
      /\ UNCHANGED <<stale, stored, issued>>

\* loadDicts() is over; login(), if it waits for it, goes on with the search.
ListOver(p, c, login) ==
  /\ page' = IF login THEN SearchPage(p) ELSE p
  /\ calls' = IF login THEN Search(p, c, TRUE) ELSE c

\* The list is shown if the page has the token that loadDicts() noted; a broken
\* connection shows in any case.
ListDone ==
  LET c == calls.list
      listed == [page EXCEPT !.dicts = Dicts,
                             !.selected = IF @ \in Dicts THEN @ ELSE None]
      failed == [page EXCEPT !.dictsError = TRUE]
      after(answer) ==
        CASE answer = "broken" -> failed
          [] answer # "broken" /\ c.asked # page.token -> page
          [] answer = "ok" /\ c.asked = page.token -> listed
          [] answer = "error" /\ c.asked = page.token -> failed
  IN  /\ Delivered(c)
      /\ \E answer \in Answers :
           ListOver(after(answer), [calls EXCEPT !.list = None], c.login)
      /\ UNCHANGED <<stale, stored, issued>>

StaleListDone ==
  \E c \in stale : \E answer \in Answers :
    /\ Delivered(c)
    /\ ListOver([page EXCEPT !.dictsError = @ \/ answer = "broken"], calls,
                c.login)
    /\ stale' = stale \ {c}
    /\ UNCHANGED <<stored, issued>>

NewToken(u) == [user |-> u, n |-> issued + 1]

LoginDone ==
  LET u == calls.login
      token == NewToken(u)
  IN  /\ u # None /\ issued < MaxTokens
      /\ \E p \in WithHistory([page EXCEPT !.token = token, !.user = u]) :
           LoadDicts(p, TRUE)
      /\ stored' = [stored EXCEPT !.token = token, !.refresh = token, !.user = u]
      /\ issued' = issued + 1

LoginFailed ==
  /\ calls.login # None
  /\ calls' = [calls EXCEPT !.login = None]
  /\ UNCHANGED <<page, stale, stored, issued>>

\* Faulty variant: of the calls that wait, the search is remembered.
WaitingSearch == {k \in {"search"} : calls[k] # None /\ calls[k].waiting}

Waiters == {k \in Authorized : calls[k] # None /\ calls[k].waiting}
StaleWaiters == {c \in stale : c.waiting}

\* Faulty variant: the session may have changed while the refresh was under way.
IsRefreshed(r) == r.session # None

\* The answer to a refresh counts if the page still has the token it replaces.
Refreshed(r) == r.session # None /\ r.token = page.token

Again(c, token) ==
  [c EXCEPT !.waiting = FALSE, !.retried = TRUE, !.token = token]

\* All who wait send their request again, with the new token.
RefreshDone ==
  LET r == calls.refresh
      token == NewToken(r.session.user)
  IN  /\ r # None /\ issued < MaxTokens /\ Refreshed(r)
      /\ page' = [page EXCEPT !.token = token]
      /\ stored' = [stored EXCEPT !.token = token]
      /\ calls' = [k \in DOMAIN calls |->
                     CASE k = "refresh" -> None
                       [] k \in Waiters -> Again(calls[k], token)
                       [] OTHER -> calls[k]]
      /\ stale' = (stale \ StaleWaiters) \cup {Again(c, token) : c \in StaleWaiters}
      /\ issued' = issued + 1

\* No answer, a refusal, or one that no longer counts.  The first who waits signs
\* the page out; with that all of them are over.
RefreshFailed ==
  LET wanted == Waiters # {} \/ StaleWaiters # {}
  IN  /\ calls.refresh # None
      /\ page' = IF wanted THEN SignedOut(page) ELSE page
      /\ stored' = IF wanted THEN ForgetSession(stored) ELSE stored
      /\ calls' = IF wanted THEN [WithoutSession(calls) EXCEPT !.refresh = None]
                            ELSE [calls EXCEPT !.refresh = None]
      /\ stale' = IF wanted THEN {c \in stale \cup Newest(calls) : ~c.waiting}
                            ELSE stale
      /\ UNCHANGED issued

-----------------------------------------------------------------------------

User ==
  \/ Reload \/ Compose \/ Dismiss \/ Submit \/ Logout
  \/ RemoveFromHistory \/ ClearHistory
  \/ \E w \in Typed : Type(w)
  \/ \E w \in Inputs \ {<<>>} : Select(w)
  \/ \E d \in Dicts \cup {None} : ChooseDict(d)
  \/ \E u \in Users : Login(u)

Deliver ==
  \/ AwaitRefreshStale \/ SearchDone \/ FuzzySearchDone \/ ListDone
  \/ StaleListDone \/ LoginDone \/ LoginFailed \/ RefreshDone \/ RefreshFailed
  \/ \E k \in Authorized : AwaitRefresh(k)

Next == User \/ FuzzySearchStarts \/ Deliver

Spec == Init /\ [][Next]_vars

\* Every request is answered or breaks, and the browser runs what has arrived.
FairSpec ==
  /\ Spec
  /\ WF_vars(SearchDone) /\ WF_vars(ListDone) /\ WF_vars(StaleListDone)
  /\ WF_vars(LoginDone \/ LoginFailed) /\ WF_vars(RefreshDone \/ RefreshFailed)

-----------------------------------------------------------------------------
(* What the page promises.                                                  *)

Result == [word : Inputs, dict : Dicts \cup {None}, by : Users]
Suggested == [word : Inputs, dict : Dicts \cup {None}, by : Users,
              items : Seq(Vocabulary)]

\* Every variable keeps to its type.
TypeOK ==
  /\ page \in [token : Token \cup {None}, user : Users \cup {None},
               dicts : SUBSET Dicts, dictsError : BOOLEAN,
               selected : Dicts \cup {None}, word : Inputs, composing : BOOLEAN,
               searched : BOOLEAN, resultWord : Inputs,
               results : Result \cup {None}, suggestions : Suggested \cup {None},
               timer : BOOLEAN, history : SUBSET Remembered,
               synced : BOOLEAN]
  /\ calls.search \in SearchCalls \cup {None}
  /\ calls.fuzzy \in SearchCalls \cup {None}
  /\ calls.list \in ListCalls \cup {None}
  /\ calls.login \in Users \cup {None}
  /\ calls.refresh \in [token : Token, session : Token] \cup {None}
  /\ stale \subseteq ListCalls
  /\ stored \in [token : Token \cup {None}, refresh : Token \cup {None},
                 user : Users \cup {None},
                 history : [Users -> SUBSET Remembered]]
  /\ issued \in 0..MaxTokens

\* The page and localStorage agree on who is signed in, and the token and the
\* refresh token are those of that user: a token that arrives after the page was
\* signed out, or signed in as someone else, is not taken (performTokenRefresh).
SessionIsUsers ==
  /\ stored.token = page.token /\ stored.user = page.user
  /\ IF page.token = None
       THEN page.user = None /\ stored.refresh = None
       ELSE /\ page.user = page.token.user
            /\ stored.refresh # None /\ page.user = stored.refresh.user

\* A search under way is for what stands in the box now, in the dictionary that
\* is chosen now, and for the user who is signed in: the answer to one that was
\* given up by an input, a choice or a logout is never shown or remembered.  What
\* is shown stands under its own word and is gone when another user is here
\* (cancelSearch, search; "late exact searches do not overwrite results or search
\* history", test/ui/app.test.cjs).
ResultsAreOwn ==
  /\ calls.search # None =>
       /\ calls.search.word = page.word /\ calls.search.dict = page.selected
       /\ calls.search.token.user = page.user
  /\ page.results # None =>
       page.results.by = page.user /\ page.results.word = page.resultWord

Starting(dict, keyword) ==
  {w \in IF dict = None THEN Vocabulary ELSE Entries[dict] :
     HasPrefix(ToLower(w), ToLower(keyword))}
Alphabetical(u, v) ==
  \/ Less(ToLower(u), ToLower(v))
  \/ ToLower(u) = ToLower(v) /\ Less(u, v)

\* The suggestions shown are the first, in alphabetical order, of the words in
\* the chosen dictionary that start with what stands in the box now, and were
\* looked up for the user who is signed in (fuzzySearch, prefixMatches).
SuggestionsAreCurrent ==
  page.suggestions # None =>
    LET shown == page.suggestions
        words == Starting(page.selected, page.word)
    IN  /\ shown.by = page.user
        /\ shown.word = page.word /\ shown.dict = page.selected
        /\ \/ Len(shown.items) = SuggestSize
           \/ Len(shown.items) = Cardinality(words)
        /\ \A i \in DOMAIN shown.items :
             /\ shown.items[i] \in words
             /\ Cardinality({w \in words : Alphabetical(w, shown.items[i])}) = i - 1

\* A history holds what its own user found, and the page shows nothing of another
\* user: "search history stays with the account and is hidden after logout"
\* (test/ui/app.test.cjs).  It shows the stored history of its user, unless the
\* browser failed to give it back or to store it (app.js:183, 188).
HistoryStaysWithAccount ==
  /\ \A u \in Users : \A x \in stored.history[u] : x.by = u
  /\ \A x \in page.history : x.by = page.user
  /\ page.user # None /\ page.synced =>
       page.history = stored.history[page.user]

\* On a page without a session no content of one is left and no call that could
\* bring any: "signing out cancels searches and clears dictionary content"
\* (test/ui/app.test.cjs).  The word stays in the box, and a list that cannot be
\* aborted may still be answered, but is ignored.
SignedOutIsClean ==
  page.token = None =>
    /\ page.dicts = {} /\ page.selected = None
    /\ page.results = None /\ page.suggestions = None /\ ~page.timer
    /\ calls.search = None /\ calls.fuzzy = None /\ calls.list = None

\* A login ends: the form is not blocked for ever, whatever is lost, refused or
\* waits for a refresh, since login() waits for the list and the search.
LoginEnds == LoggingIn ~> ~LoggingIn

\* The page says "the shelf is still empty, add dictionaries" to a user whose
\* list is neither under way nor failed only if no dictionary is enabled
\* (templates/index.html).
EmptyShelfIsEmpty ==
  page.user # None /\ page.dicts = {} /\ ~page.dictsError =>
    calls.list # None \/ Dicts = {}

=============================================================================
