------------------------ MODULE WebSuggestionsProofs ------------------------
(***************************************************************************)
(* What the page suggests is the beginning of the words that start with    *)
(* what stands in the box, whatever was typed, chosen and answered before. *)
(*                                                                         *)
(* Suggestions on the page are the answer to a lookup of the very word,    *)
(* dictionary and user it shows (SuggestionsAreAnswer); that needs the     *)
(* page to be quiet while an input method composes (ComposingIsQuiet), and *)
(* nothing to be looked up or remembered for an empty box (WordsAreAsked). *)
(* What such an answer contains is FuzzySearchExact of WordIndexProofs.    *)
(***************************************************************************)
EXTENDS WebClientProofs, WordIndexProofs

\* What fuzzySearch shows when it is answered for the page p.
Answer(p) ==
  [word |-> p.word, dict |-> p.selected, by |-> p.user,
   items |-> FuzzySearch(WordIndexes[p.selected], p.word, 1, SuggestSize).items]

SuggestionsAreAnswer == page.suggestions \in {None, Answer(page)}

\* While an input method composes nothing is suggested, planned or looked up.
ComposingIsQuiet ==
  page.composing => page.suggestions = None /\ ~page.timer /\ calls.fuzzy = None

WordsAreAsked ==
  /\ calls.search # None => calls.search.word # <<>>
  /\ \A x \in page.history : x.word # <<>>
  /\ \A u \in Users : \A x \in stored.history[u] : x.word # <<>>

BoxInv == SuggestionsAreAnswer /\ ComposingIsQuiet /\ WordsAreAsked

-----------------------------------------------------------------------------
(* What an answer contains.                                                 *)

\* The words of a dictionary, or of all.
Shelf(d) == IF d = None THEN Vocabulary ELSE Entries[d]

\* The shelves hold finitely many words, as they are.
LEMMA ShelfShape ==
  ASSUME NEW d \in Dicts \cup {None}
  PROVE  /\ Shelf(d) \in SUBSET Words /\ IsFiniteSet(Shelf(d))
         /\ Shelf(d) \subseteq Vocabulary
         /\ Kept(Shelf(d)) = Shelf(d)
         /\ WordIndexes[d] = NewWordIndex(Shelf(d))
<1> DEFINE all == {Entries[e] : e \in Dicts}
<1>1. IsFiniteSet(Vocabulary)
  <2>1. IsFiniteSet(all)
    <3> DEFINE f == [e \in Dicts |-> Entries[e]]
    <3>1. f \in Surjection(Dicts, all)
      BY DEF Surjection
    <3> HIDE DEF f, all
    <3>. QED
      BY <3>1, EntriesAssumption, FS_Surjection
  <2>2. \A T \in all : IsFiniteSet(T)
    BY EntriesAssumption
  <2> HIDE DEF all
  <2>3. IsFiniteSet(UNION all)
    BY <2>1, <2>2, FS_UNION
  <2>. QED
    BY <2>3 DEF all, Vocabulary
<1>2. \A w \in Vocabulary : w \in Words /\ w # <<>> /\ TrimSpace(w) = w
  BY EntriesAssumption DEF Vocabulary
<1>3. Shelf(d) \subseteq Vocabulary /\ IsFiniteSet(Shelf(d))
  BY <1>1, EntriesAssumption DEF Shelf, Vocabulary
<1>4. Kept(Shelf(d)) = Shelf(d)
  BY <1>2, <1>3 DEF Kept
<1>5. WordIndexes[d] = NewWordIndex(Shelf(d))
  BY DEF WordIndexes, Shelf
<1>. QED
  BY <1>2, <1>3, <1>4, <1>5

\* What may stand in the box is a word without spaces around it.
LEMMA InputShape ==
  ASSUME NEW w \in Inputs
  PROVE  w \in Words /\ TrimSpace(w) = w
BY TypedAssumption, EntriesAssumption DEF Inputs, Vocabulary

\* Neither has its lower case.
LEMMA TrimmedLower ==
  ASSUME NEW w \in Words, TrimSpace(w) = w
  PROVE  TrimSpace(ToLower(w)) = ToLower(w)
<1> DEFINE v == ToLower(w)
           Ink(u) == {i \in DOMAIN u : u[i] # Space}
           FirstOf(ink) == CHOOSE i \in ink : \A j \in ink : i <= j
           LastOf(ink) == CHOOSE i \in ink : \A j \in ink : j <= i
           ink == Ink(w)
           first == FirstOf(ink)
           last == LastOf(ink)
<1>1. /\ Len(w) \in Nat /\ DOMAIN w = 1..Len(w)
      /\ \A i \in 1..Len(w) : w[i] \in Chars
  BY DEF Words
<1>2. v \in Words /\ Len(v) = Len(w) /\ DOMAIN v = 1..Len(w)
  BY ToLowerShape DEF Words
<1>3. \A i \in 1..Len(w) : v[i] # Space <=> w[i] # Space
  BY <1>1, CharsAssumption DEF ToLower
<1> HIDE DEF v
<1>4. Ink(v) = ink
  BY <1>1, <1>2, <1>3
<1>5. \A u : TrimSpace(u) = IF Ink(u) = {}
                              THEN <<>>
                              ELSE SubSeq(u, FirstOf(Ink(u)), LastOf(Ink(u)))
  BY DEF TrimSpace
<1>6. \/ first \in 1..Len(w) /\ last \in 1..Len(w)
      \/ ink = {}
  BY TrimBounds
<1> HIDE DEF Ink, FirstOf, LastOf
<1>7. /\ w = IF ink = {} THEN <<>> ELSE SubSeq(w, first, last)
      /\ TrimSpace(v) = IF ink = {} THEN <<>> ELSE SubSeq(v, first, last)
  BY <1>4, <1>5
<1> HIDE DEF ink, first, last
<1>8. CASE ink = {}
  <2>1. Len(w) = 0
    BY <1>7, <1>8
  <2>2. v = <<>>
    BY <1>2, <2>1 DEF Words
  <2>. QED
    BY <1>7, <1>8, <2>2 DEF v
<1>9. CASE ink # {}
  <2>1. w = SubSeq(w, first, last) /\ TrimSpace(v) = SubSeq(v, first, last)
    BY <1>7, <1>9
  <2>2. first \in 1..Len(w) /\ last \in 1..Len(w)
    BY <1>6, <1>9
  <2>3. Len(SubSeq(w, first, last)) =
          IF first <= last THEN last - first + 1 ELSE 0
    <3>1. \A i \in first..last : w[i] \in Chars
      BY <1>1, <2>2
    <3>. QED
      BY <2>2, <3>1, SubSeqProperties
  <2>4. first = 1 /\ last = Len(w)
    <3>1. Len(w) = IF first <= last THEN last - first + 1 ELSE 0
      BY <2>1, <2>3
    <3>. QED
      BY <1>1, <2>2, <3>1
  <2>5. SubSeq(v, 1, Len(v)) = v
    BY <1>2, SubSeqFull DEF Words
  <2>. QED
    BY <1>2, <2>1, <2>4, <2>5 DEF v
<1>. QED
  BY <1>8, <1>9

\* A lookup answers with the first words that start with the keyword.
LEMMA AnswerIsBeginning ==
  ASSUME NEW d \in Dicts \cup {None}, NEW word \in Inputs
  PROVE  LET items == FuzzySearch(WordIndexes[d], word, 1, SuggestSize).items
             words == Starting(d, word)
         IN  /\ items \in Seq(Vocabulary)
             /\ Len(items) = SuggestSize \/ Len(items) = Cardinality(words)
             /\ \A i \in DOMAIN items :
                  /\ items[i] # <<>> /\ items[i] \in words
                  /\ Cardinality({w \in words : Alphabetical(w, items[i])})
                       = i - 1
<1> DEFINE hits == Matching(Shelf(d), TrimSpace(ToLower(word)))
           answer == FuzzySearch(NewWordIndex(Shelf(d)), word, 1, SuggestSize)
           items == answer.items
           start == PageStart(answer.total, Page(1), PageSize(SuggestSize))
           end == PageEnd(answer.total, Page(1), PageSize(SuggestSize))
<1>1. /\ Shelf(d) \in SUBSET Words /\ IsFiniteSet(Shelf(d))
      /\ Shelf(d) \subseteq Vocabulary /\ Kept(Shelf(d)) = Shelf(d)
      /\ WordIndexes[d] = NewWordIndex(Shelf(d))
  BY ShelfShape
<1>2. word \in Words /\ TrimSpace(ToLower(word)) = ToLower(word)
  BY InputShape, TrimmedLower
<1>3. hits = Starting(d, word)
  BY <1>1, <1>2 DEF Matching, Starting, Shelf
<1>4. Page(1) = 1 /\ PageSize(SuggestSize) = SuggestSize
      /\ SuggestSize \in Nat \ {0}
  BY PageSizeAssumption, SuggestAssumption DEF Page, PageSize
<1>5. /\ answer.total = Cardinality(hits)
      /\ items \in Seq(hits) /\ Len(items) = end - start
      /\ \A i \in 1..Len(items) :
           WordsBefore(items[i], hits) = start + i - 1
  <2>1. SuggestSize \in Int
    BY <1>4
  <2>2. Shelf(d) \in SUBSET Words /\ IsFiniteSet(Shelf(d)) /\ word \in Words
    BY <1>1, <1>2
  <2>3. IsPageOf(answer, Shelf(d), word, 1, SuggestSize)
    BY <2>1, <2>2, FuzzySearchExact
  <2>. QED
    BY <2>3 DEF IsPageOf
<1>6. Cardinality(hits) \in Nat
  <2>1. hits \in SUBSET Shelf(d)
    BY <1>1 DEF Matching
  <2> HIDE DEF hits
  <2>. QED
    BY <1>1, <2>1, FS_Subset, FS_CardinalityType
<1> HIDE DEF answer
<1>7. start = 0 /\ end \in {SuggestSize, Cardinality(hits)}
  <2>1. TotalPages(answer.total, SuggestSize) \in Nat \ {0}
    BY <1>4, <1>5, <1>6, TotalPagesHoldAll
  <2>2. start = 0
    BY <1>4, <2>1 DEF PageStart
  <2>. QED
    BY <1>4, <1>5, <1>6, <2>2 DEF PageEnd
<1>8. \A i \in 1..Len(items) : items[i] \in hits
  <2> HIDE DEF items, hits
  <2>. QED
    BY <1>5
<1>9. hits \subseteq Vocabulary /\ <<>> \notin hits
  BY <1>1 DEF Matching, Kept
<1>10. DOMAIN items = 1..Len(items) /\ items \in Seq(Vocabulary)
  <2> HIDE DEF items, hits
  <2>. QED
    BY <1>5, <1>9
<1>11. Len(items) = SuggestSize \/ Len(items) = Cardinality(hits)
  <2> HIDE DEF items, hits
  <2>. QED
    BY <1>4, <1>5, <1>6, <1>7
<1>12. \A i \in 1..Len(items) :
         Cardinality({w \in hits : Alphabetical(w, items[i])}) = i - 1
  <2> TAKE i \in 1..Len(items)
  <2>1. \A w : Alphabetical(w, items[i])
               <=> Before(IndexedWord(w), IndexedWord(items[i]))
    BY DEF Alphabetical, Before, IndexedWord
  <2>2. {w \in hits : Alphabetical(w, items[i])}
          = {w \in hits : Before(IndexedWord(w), IndexedWord(items[i]))}
    BY <2>1
  <2>3. start + i - 1 = i - 1
    <3>1. Len(items) \in Nat
      <4> HIDE DEF items, hits
      <4>. QED
        BY <1>5
    <3>. QED
      BY <1>7, <3>1
  <2>. QED
    BY <1>5, <2>2, <2>3 DEF WordsBefore
<1> HIDE DEF hits
<1>. QED
  BY <1>1, <1>3, <1>8, <1>9, <1>10, <1>11, <1>12 DEF answer

-----------------------------------------------------------------------------
(* The steps.                                                               *)

\* Suggestions that stay on a page whose word, dictionary and user stay are
\* still its answer.
LEMMA AnswerStays ==
  ASSUME SuggestionsAreAnswer,
         \/ page'.suggestions = None
         \/ /\ page'.suggestions = page.suggestions
            /\ page'.word = page.word /\ page'.selected = page.selected
            /\ page'.user = page.user
  PROVE  SuggestionsAreAnswer'
BY DEF SuggestionsAreAnswer, Answer

\* A page that searches does so for the word in its box.
LEMMA SearchAsks ==
  ASSUME NEW s, NEW p \in Pages(s), NEW c \in Calls, NEW login \in BOOLEAN,
         c.search # None => c.search.word # <<>>
  PROVE  LET d == Search(p, c, login)
         IN  /\ d.search # None => d.search.word # <<>>
             /\ c.fuzzy = None => d.fuzzy = None
<1>1. CASE p.word = <<>>
  BY <1>1 DEF Search
<1>2. CASE p.word # <<>>
  BY <1>2 DEF Search, SearchCall, Calls, CancelSuggestions, CancelSearch
<1>. QED
  BY <1>1, <1>2

\* An input, a composition, Escape, or the end of the pause after the last key.
LEMMA BoxKeptByTyping ==
  ASSUME IInv, BoxInv,
         \/ Compose \/ Dismiss \/ FuzzySearchStarts
         \/ \E w \in Typed : Type(w)
  PROVE  BoxInv'
<1> USE DEF IInv, Shape, Pages, Calls, BoxInv, ComposingIsQuiet, WordsAreAsked
<1>1. CASE Compose
  BY <1>1, AnswerStays
     DEF Compose, WithoutSuggestions, Debounced, CancelSuggestions
<1>2. CASE Dismiss
  BY <1>2, AnswerStays DEF Dismiss, WithoutSuggestions, CancelSuggestions
<1>3. CASE FuzzySearchStarts
  BY <1>3, AnswerStays DEF FuzzySearchStarts
<1>4. CASE \E w \in Typed : Type(w)
  BY <1>4, AnswerStays
     DEF Type, WithoutSuggestions, Debounced, CancelSuggestions, CancelSearch
<1>. QED
  BY <1>1, <1>2, <1>3, <1>4

LEMMA BoxKeptByLookup ==
  ASSUME IInv, BoxInv, Submit \/ \E w \in Inputs \ {<<>>} : Select(w)
  PROVE  BoxInv'
<1>1. PICK w \in Inputs :
        /\ w = page.word \/ w # <<>>
        /\ page' = SearchPage([page EXCEPT !.word = w])
        /\ calls' = Search([page EXCEPT !.word = w], calls, FALSE)
        /\ UNCHANGED stored
  <2>1. CASE Submit
    <3>1. page = [page EXCEPT !.word = page.word] /\ page.word \in Inputs
      BY DEF IInv, Shape, Pages
    <3>. QED
      BY <2>1, <3>1 DEF Submit
  <2>2. CASE \E w \in Inputs \ {<<>>} : Select(w)
    BY <2>2 DEF Select
  <2>. QED
    BY <2>1, <2>2
<1> DEFINE p == [page EXCEPT !.word = w]
<1>2. /\ p \in Pages(page.suggestions) /\ p.word = w /\ calls \in Calls
      /\ calls.search # None => calls.search.word # <<>>
  BY DEF IInv, Shape, Pages, BoxInv, WordsAreAsked
<1>3. /\ page'.suggestions = None \/ /\ page'.suggestions = page.suggestions
                                     /\ w = page.word
      /\ page'.word = w /\ page'.selected = page.selected
      /\ page'.user = page.user /\ page'.history = page.history
      /\ page'.composing = page.composing
      /\ page'.timer => page.timer
  BY <1>1, <1>2 DEF IInv, Shape, Pages, SearchPage, WithoutSuggestions
<1>4. /\ calls'.search # None => calls'.search.word # <<>>
      /\ calls.fuzzy = None => calls'.fuzzy = None
  <2> HIDE DEF p
  <2>. QED
    BY <1>1, <1>2, SearchAsks DEF p
<1>5. SuggestionsAreAnswer'
  BY <1>3, AnswerStays DEF BoxInv
<1>6. ComposingIsQuiet'
  BY <1>1, <1>3, <1>4 DEF BoxInv, ComposingIsQuiet
<1>7. WordsAreAsked'
  BY <1>1, <1>3, <1>4 DEF BoxInv, WordsAreAsked
<1>. QED
  BY <1>5, <1>6, <1>7 DEF BoxInv

LEMMA BoxKeptByChoice ==
  ASSUME IInv, BoxInv, NEW d \in Dicts \cup {None}, ChooseDict(d)
  PROVE  BoxInv'
<1> DEFINE lookup == (page.searched \/ Loading) /\ page.word # <<>>
           p == [page EXCEPT !.selected = d]
           c == CancelSearch(CancelSuggestions(calls))
<1>1. /\ p \in Pages(page.suggestions) /\ c \in Calls
      /\ c.search = None /\ c.fuzzy = None
  BY DEF IInv, Shape, Pages, Calls, CancelSearch, CancelSuggestions
<1>2. /\ page' = IF lookup THEN SearchPage(p) ELSE Debounced(p)
      /\ calls' = IF lookup THEN Search(p, c, FALSE) ELSE c
      /\ UNCHANGED stored
  BY DEF ChooseDict
<1>3. /\ page'.suggestions = None /\ page'.history = page.history
      /\ page'.composing = page.composing
      /\ page'.composing => ~page'.timer
  BY <1>2 DEF IInv, Shape, Pages, BoxInv, ComposingIsQuiet, SearchPage,
              Debounced, WithoutSuggestions
<1> HIDE DEF p, c, lookup
<1>4. /\ calls'.search # None => calls'.search.word # <<>>
      /\ calls'.fuzzy = None
  BY <1>1, <1>2, SearchAsks
<1>5. SuggestionsAreAnswer'
  BY <1>3, AnswerStays DEF BoxInv
<1>6. ComposingIsQuiet'
  BY <1>2, <1>3, <1>4 DEF BoxInv, ComposingIsQuiet
<1>7. WordsAreAsked'
  BY <1>2, <1>3, <1>4 DEF BoxInv, WordsAreAsked
<1>. QED
  BY <1>5, <1>6, <1>7 DEF BoxInv

\* The page is signed in or out, or loaded again: it suggests nothing.
LEMMA BoxKeptBySession ==
  ASSUME IInv, BoxInv, Reload \/ Logout \/ LoginDone \/ RefreshFailed
  PROVE  BoxInv'
<1> USE DEF IInv, Shape, Pages, Calls, Storage, BoxInv, ComposingIsQuiet,
            WordsAreAsked
<1>1. CASE Reload
  <2> DEFINE q == [NoPage EXCEPT !.token = stored.token, !.user = stored.user]
  <2>1. PICK p \in WithHistory(q) :
          page' = p /\ calls' = [NoCalls EXCEPT !.list = FirstList(p)]
    BY <1>1 DEF Reload
  <2>2. q.user = stored.user /\ stored.user \in Users \cup {None}
    BY DEF NoPage
  <2> HIDE DEF q
  <2>3. PICK h \in SUBSET Remembered, b \in BOOLEAN :
          /\ p = [q EXCEPT !.history = h, !.synced = b]
          /\ stored.user # None => h \subseteq stored.history[stored.user]
          /\ stored.user = None => h = {}
    <3>1. HasHistory(p, q, stored.user)
      BY <2>1, <2>2, WithHistoryShape
    <3>. QED
      BY <3>1 DEF HasHistory
  <2>4. /\ p.suggestions = None /\ ~p.composing /\ ~p.timer
        /\ p.history = h
    BY <2>3 DEF NoPage, q
  <2>5. \A x \in h : x.word # <<>>
    BY <2>2, <2>3
  <2>6. stored' = stored /\ calls'.search = None /\ calls'.fuzzy = None
    BY <1>1, <2>1 DEF Reload, NoCalls
  <2>7. SuggestionsAreAnswer'
    BY <2>1, <2>4, AnswerStays
  <2>. QED
    BY <2>1, <2>4, <2>5, <2>6, <2>7
<1>2. ASSUME page' = SignedOut(page), stored' = ForgetSession(stored),
             calls' \in {WithoutSession(calls),
                         [WithoutSession(calls) EXCEPT !.refresh = None]}
      PROVE  BoxInv'
  BY <1>2, AnswerStays
     DEF SignedOut, WithoutSuggestions, ForgetSession, WithoutSession,
         CancelSearch, CancelSuggestions
<1>3. CASE Logout
  BY <1>2, <1>3 DEF Logout
<1>4. CASE LoginDone
  <2> DEFINE u == calls.login
             q == [page EXCEPT !.token = NewToken(u), !.user = u]
  <2>1. PICK p \in WithHistory(q) :
          /\ u # None /\ page' = [p EXCEPT !.dictsError = FALSE]
          /\ calls' = [calls EXCEPT !.list = ListCall(p, TRUE), !.login = None]
          /\ stored'.history = stored.history
    BY <1>4 DEF LoginDone, LoadDicts
  <2>2. page.suggestions = None /\ u \in Users
    BY <2>1, NoneAssumption DEF Asked, SessionIsUsers, SignedOutIsClean, Token
  <2>3. q.user = u
    OBVIOUS
  <2> HIDE DEF q
  <2>4. PICK h \in SUBSET Remembered, b \in BOOLEAN :
          /\ p = [q EXCEPT !.history = h, !.synced = b]
          /\ u # None => h \subseteq stored.history[u]
    <3>1. p \in WithHistory(q) /\ u \in Users \cup {None}
      BY <2>1, <2>2
    <3> HIDE DEF u
    <3>2. HasHistory(p, q, u)
      BY <2>3, <3>1, WithHistoryShape
    <3>. QED
      BY <3>2 DEF HasHistory
  <2>5. /\ p.suggestions = page.suggestions /\ p.composing = page.composing
        /\ p.timer = page.timer /\ p.history = h
    BY <2>4 DEF q
  <2>6. /\ page'.suggestions = None /\ page'.composing = page.composing
        /\ page'.timer = page.timer /\ page'.history = h
    BY <2>1, <2>2, <2>4, <2>5 DEF q
  <2>7. calls'.search = calls.search /\ calls'.fuzzy = calls.fuzzy
    BY <2>1
  <2>8. \A x \in h : x.word # <<>>
    BY <2>1, <2>2, <2>4
  <2>9. SuggestionsAreAnswer'
    BY <2>6, AnswerStays
  <2>. QED
    BY <2>1, <2>6, <2>7, <2>8, <2>9
<1>5. CASE RefreshFailed
  <2>1. CASE Waiters # {} \/ StaleWaiters # {}
    BY <1>2, <1>5, <2>1 DEF RefreshFailed
  <2>2. CASE ~(Waiters # {} \/ StaleWaiters # {})
    <3>1. /\ calls' = [calls EXCEPT !.refresh = None]
          /\ UNCHANGED <<page, stored>>
      BY <1>5, <2>2 DEF RefreshFailed
    <3>. QED
      BY <3>1, AnswerStays
  <2>. QED
    BY <2>1, <2>2
<1>. QED
  BY <1>1, <1>3, <1>4, <1>5

\* An entry of the history is removed, or all, or the form is sent: the box is
\* as it was.
LEMMA BoxKeptByHistory ==
  ASSUME IInv, BoxInv,
         \/ RemoveFromHistory \/ ClearHistory
         \/ \E u \in Users : Login(u)
  PROVE  BoxInv'
<1> USE DEF IInv, Shape, Pages, Calls, Storage, BoxInv, ComposingIsQuiet,
            WordsAreAsked
<1>1. ASSUME NEW gone, ForgetHistory(gone)
      PROVE  BoxInv'
  <2> DEFINE h == page.history \ gone
             p == [page EXCEPT !.history = h]
  <2>1. /\ p.suggestions = page.suggestions /\ p.composing = page.composing
        /\ p.timer = page.timer /\ p.word = page.word
        /\ p.selected = page.selected /\ p.user = page.user /\ p.history = h
    OBVIOUS
  <2>2. StoreHistory(p) /\ UNCHANGED calls
    BY <1>1 DEF ForgetHistory
  <2>3. \A x \in h : x.word # <<>>
    OBVIOUS
  <2>4. \E b \in BOOLEAN : page' = [p EXCEPT !.synced = b]
    <3> HIDE DEF p
    <3>. QED
      BY <2>2 DEF StoreHistory
  <2>5. /\ page'.suggestions = page.suggestions
        /\ page'.composing = page.composing
        /\ page'.timer = page.timer /\ page'.word = page.word
        /\ page'.selected = page.selected /\ page'.user = page.user
        /\ page'.history = h
    BY <2>4
  <2>6. \/ stored' = stored
        \/ stored' = [stored EXCEPT !.history[page.user] = h]
    <3> HIDE DEF p, h
    <3>. QED
      BY <2>1, <2>2 DEF StoreHistory
  <2> HIDE DEF h
  <2>7. \A v \in Users : stored'.history[v] \in {stored.history[v], h}
    BY <2>6
  <2>8. SuggestionsAreAnswer'
    BY <2>5, AnswerStays
  <2>9. ComposingIsQuiet'
    BY <2>2, <2>5
  <2>10. WordsAreAsked'
    BY <2>2, <2>3, <2>5, <2>7
  <2>. QED
    BY <2>8, <2>9, <2>10
<1>2. CASE \E u \in Users : Login(u)
  BY <1>2, AnswerStays DEF Login
<1>. QED
  BY <1>1, <1>2 DEF RemoveFromHistory, ClearHistory

\* A call waits for a refresh, or is sent again: it asks for the same word.
LEMMA BoxKeptByRefresh ==
  ASSUME IInv, BoxInv,
         \/ AwaitRefreshStale \/ RefreshDone \/ LoginFailed
         \/ \E k \in Authorized : AwaitRefresh(k)
  PROVE  BoxInv'
<1> USE DEF IInv, Shape, Calls, BoxInv, ComposingIsQuiet, WordsAreAsked
<1>1. ASSUME /\ calls'.search # None =>
                  calls.search # None /\ calls'.search.word = calls.search.word
             /\ calls.fuzzy = None => calls'.fuzzy = None,
             stored'.history = stored.history,
             \/ UNCHANGED page
             \/ \E token : page' = [page EXCEPT !.token = token]
      PROVE  BoxInv'
  BY <1>1, AnswerStays DEF Pages
<1>2. CASE AwaitRefreshStale \/ LoginFailed
  BY <1>1, <1>2 DEF AwaitRefreshStale, LoginFailed
<1>3. CASE \E k \in Authorized : AwaitRefresh(k)
  <2>1. PICK k \in Authorized : AwaitRefresh(k)
    BY <1>3
  <2>2. k \in {"search", "fuzzy", "list"} /\ calls[k] # None
    BY <2>1 DEF AwaitRefresh, Refused, Delivered, Authorized
  <2>3. calls' = [calls EXCEPT ![k].waiting = TRUE, !.refresh = Refreshing]
        /\ UNCHANGED <<page, stored>>
    BY <2>1 DEF AwaitRefresh
  <2>4. /\ calls'.search # None =>
             calls.search # None /\ calls'.search.word = calls.search.word
        /\ calls.fuzzy = None => calls'.fuzzy = None
    BY <2>2, <2>3 DEF SearchCalls
  <2>. QED
    BY <1>1, <2>3, <2>4
<1>4. CASE RefreshDone
  <2> DEFINE token == NewToken(calls.refresh.session.user)
  <2>1. /\ page' = [page EXCEPT !.token = token]
        /\ stored' = [stored EXCEPT !.token = token]
        /\ calls' = [k \in DOMAIN calls |->
                       CASE k = "refresh" -> None
                         [] k \in Waiters -> Again(calls[k], token)
                         [] OTHER -> calls[k]]
    BY <1>4 DEF RefreshDone
  <2> HIDE DEF token
  <2>2. \A k \in {"search", "fuzzy"} :
          /\ calls[k] = None => calls'[k] = None
          /\ calls[k] # None => calls'[k].word = calls[k].word
    BY <2>1 DEF Waiters, Again, SearchCalls
  <2>3. stored'.history = stored.history
    BY <2>1 DEF Storage
  <2>. QED
    BY <1>1, <2>1, <2>2, <2>3
<1>. QED
  BY <1>2, <1>3, <1>4

\* What was found is remembered; the suggestions stay with their word.
LEMMA BoxKeptBySearchDone ==
  ASSUME IInv, BoxInv, SearchDone
  PROVE  BoxInv'
<1> USE DEF IInv, Shape, Pages, Calls, BoxInv, ComposingIsQuiet, WordsAreAsked
<1> DEFINE c == calls.search
           h == Remember(page.history, [word |-> c.word, by |-> c.token.user])
<1>1. /\ c # None /\ calls' = [calls EXCEPT !.search = None]
      /\ page'.suggestions = page.suggestions /\ page'.word = page.word
      /\ page'.selected = page.selected /\ page'.user = page.user
      /\ page'.composing = page.composing /\ page'.timer = page.timer
      /\ \/ page'.history = page.history /\ stored' = stored
         \/ /\ page'.history = h
            /\ stored'.history \in
                 {stored.history, [stored.history EXCEPT ![page.user] = h]}
  <2> DEFINE shown == [page EXCEPT !.searched = TRUE, !.resultWord = c.word,
                                   !.results = None]
             result == [word |-> c.word, dict |-> c.dict, by |-> c.token.user]
             found == [shown EXCEPT !.results = result,
                                    !.history = Remember(@, [word |-> c.word,
                                                  by |-> c.token.user])]
             Same(p) == /\ p.suggestions = page.suggestions
                        /\ p.word = page.word /\ p.selected = page.selected
                        /\ p.user = page.user /\ p.composing = page.composing
                        /\ p.timer = page.timer
  <2>1. /\ c # None /\ calls' = [calls EXCEPT !.search = None]
        /\ \/ page' = shown /\ UNCHANGED stored
           \/ StoreHistory(found)
    BY DEF SearchDone, Delivered
  <2>2. Same(shown) /\ shown.history = page.history
    OBVIOUS
  <2>3. Same(found) /\ found.history = h
    OBVIOUS
  <2>4. \A b : Same([found EXCEPT !.synced = b])
              /\ [found EXCEPT !.synced = b].history = h
    OBVIOUS
  <2>5. ASSUME StoreHistory(found)
        PROVE  /\ \E b : page' = [found EXCEPT !.synced = b]
               /\ stored' \in
                    {stored, [stored EXCEPT !.history[page.user] = h]}
    <3>1. found.user = page.user /\ found.history = h
      BY <2>3
    <3> HIDE DEF found, h
    <3>. QED
      BY <2>5, <3>1 DEF StoreHistory
  <2> HIDE DEF shown, found, h
  <2>6. CASE page' = shown /\ UNCHANGED stored
    BY <2>1, <2>2, <2>6
  <2>7. CASE StoreHistory(found)
    <3>1. Same(page') /\ page'.history = h
      BY <2>4, <2>5, <2>7
    <3>2. stored'.history \in
            {stored.history, [stored.history EXCEPT ![page.user] = h]}
      BY <2>5, <2>7 DEF Storage
    <3>. QED
      BY <2>1, <3>1, <3>2
  <2>. QED
    BY <2>1, <2>6, <2>7
<1>2. \A x \in h : x.word # <<>>
  BY <1>1 DEF Remember
<1> HIDE DEF h
<1>3. SuggestionsAreAnswer' /\ ComposingIsQuiet'
  BY <1>1, AnswerStays
<1>4. WordsAreAsked'
  BY <1>1, <1>2 DEF Storage
<1>. QED
  BY <1>3, <1>4

\* The answer to a lookup is shown if the box and the choice are as they were.
LEMMA BoxKeptByFuzzySearchDone ==
  ASSUME IInv, BoxInv, FuzzySearchDone
  PROVE  BoxInv'
<1> DEFINE c == calls.fuzzy
           found == [word |-> c.word, dict |-> c.dict, by |-> c.token.user,
                     items |-> Suggestions(c)]
<1>1. /\ c # None /\ calls' = [calls EXCEPT !.fuzzy = None]
      /\ UNCHANGED stored
      /\ \/ UNCHANGED page
         \/ /\ c.word = page.word /\ c.dict = page.selected
            /\ page' = [page EXCEPT !.suggestions = found]
  BY DEF FuzzySearchDone, Delivered
<1>2. ~page.composing /\ c.token.user = page.user
  BY <1>1 DEF IInv, Asked, BoxInv, ComposingIsQuiet
<1>3. SuggestionsAreAnswer'
  <2>1. CASE UNCHANGED page
    BY <2>1, AnswerStays DEF BoxInv
  <2>2. CASE /\ c.word = page.word /\ c.dict = page.selected
             /\ page' = [page EXCEPT !.suggestions = found]
    <3>1. found = Answer(page)
      BY <1>2, <2>2 DEF Suggestions, Answer
    <3>2. /\ page'.suggestions = found /\ page'.word = page.word
          /\ page'.selected = page.selected /\ page'.user = page.user
      BY <2>2 DEF IInv, Shape, Pages
    <3>. QED
      BY <3>1, <3>2 DEF SuggestionsAreAnswer, Answer
  <2>. QED
    BY <1>1, <2>1, <2>2
<1>4. ComposingIsQuiet' /\ WordsAreAsked'
  <2> HIDE DEF found
  <2>. QED
    BY <1>1, <1>2 DEF IInv, Shape, Pages, Calls, BoxInv, ComposingIsQuiet,
                      WordsAreAsked
<1>. QED
  BY <1>3, <1>4 DEF BoxInv

\* A list arrives, and the login that waits for it goes on with a search.
LEMMA BoxKeptByList ==
  ASSUME IInv, BoxInv, ListDone \/ StaleListDone
  PROVE  BoxInv'
<1>1. PICK p \in Pages(page.suggestions), c \in Calls, login \in BOOLEAN :
        /\ ListOver(p, c, login) /\ UNCHANGED stored
        /\ p.suggestions = page.suggestions /\ p.word = page.word
        /\ p.selected = page.selected /\ p.user = page.user
        /\ p.history = page.history /\ p.composing = page.composing
        /\ p.timer = page.timer
        /\ c.search = calls.search /\ c.fuzzy = calls.fuzzy
  <2>1. CASE ListDone
    <3> DEFINE c == [calls EXCEPT !.list = None]
               listed == [page EXCEPT !.dicts = Dicts,
                            !.selected = IF @ \in Dicts THEN @ ELSE None]
               failed == [page EXCEPT !.dictsError = TRUE]
    <3>1. PICK p \in {page, listed, failed} : ListOver(p, c, calls.list.login)
      BY <2>1 DEF ListDone, Answers
    <3>2. calls.list.login \in BOOLEAN /\ UNCHANGED stored
      BY <2>1 DEF ListDone, Delivered, IInv, Shape, Calls, ListCalls
    <3>3. c \in Calls /\ c.search = calls.search /\ c.fuzzy = calls.fuzzy
      BY DEF IInv, Shape, Calls
    <3>4. /\ p \in Pages(page.suggestions)
          /\ p.suggestions = page.suggestions /\ p.word = page.word
          /\ p.selected = page.selected /\ p.user = page.user
          /\ p.history = page.history /\ p.composing = page.composing
          /\ p.timer = page.timer
      BY <3>1 DEF IInv, Shape, Pages
    <3> HIDE DEF c
    <3>. QED
      BY <3>1, <3>2, <3>3, <3>4
  <2>2. CASE StaleListDone
    <3>1. PICK c \in stale, failed \in BOOLEAN :
            /\ ListOver([page EXCEPT !.dictsError = @ \/ failed], calls,
                        c.login)
            /\ UNCHANGED stored
      BY <2>2 DEF StaleListDone
    <3> DEFINE p == [page EXCEPT !.dictsError = @ \/ failed]
    <3>2. c.login \in BOOLEAN /\ calls \in Calls
      BY DEF IInv, Shape, ListCalls
    <3>3. /\ p \in Pages(page.suggestions)
          /\ p.suggestions = page.suggestions /\ p.word = page.word
          /\ p.selected = page.selected /\ p.user = page.user
          /\ p.history = page.history /\ p.composing = page.composing
          /\ p.timer = page.timer
      BY DEF IInv, Shape, Pages
    <3> HIDE DEF p
    <3>. QED
      BY <3>1, <3>2, <3>3 DEF p
  <2>. QED
    BY <2>1, <2>2
<1>2. /\ \/ page'.suggestions = None
         \/ page'.suggestions = page.suggestions
      /\ page'.word = page.word /\ page'.selected = page.selected
      /\ page'.user = page.user /\ page'.history = page.history
      /\ page'.composing = page.composing
      /\ page'.timer => page.timer
  <2>1. page' = p \/ page' = [p EXCEPT !.suggestions = None, !.timer = FALSE]
    BY <1>1, SearchPageShape DEF ListOver
  <2>. QED
    BY <1>1, <2>1 DEF Pages
<1>3. /\ calls'.search # None => calls'.search.word # <<>>
      /\ calls.fuzzy = None => calls'.fuzzy = None
  <2>1. calls' = c \/ calls' = Search(p, c, TRUE)
    BY <1>1 DEF ListOver
  <2>2. c.search # None => c.search.word # <<>>
    BY <1>1 DEF BoxInv, WordsAreAsked
  <2> DEFINE d == Search(p, c, TRUE)
  <2>3. /\ d.search # None => d.search.word # <<>>
        /\ c.fuzzy = None => d.fuzzy = None
    BY <1>1, <2>2, SearchAsks
  <2> HIDE DEF d
  <2>4. calls' = c \/ calls' = d
    BY <2>1 DEF d
  <2>. QED
    BY <1>1, <2>2, <2>3, <2>4
<1>4. SuggestionsAreAnswer'
  BY <1>2, AnswerStays DEF BoxInv
<1>5. ComposingIsQuiet'
  BY <1>2, <1>3 DEF BoxInv, ComposingIsQuiet
<1>6. WordsAreAsked'
  BY <1>1, <1>2, <1>3 DEF BoxInv, WordsAreAsked
<1>. QED
  BY <1>4, <1>5, <1>6 DEF BoxInv

-----------------------------------------------------------------------------
(* The theorems.                                                            *)

LEMMA BoxKept == IInv /\ BoxInv /\ [Next]_vars => BoxInv'
<1> SUFFICES ASSUME IInv, BoxInv, [Next]_vars PROVE BoxInv'
  OBVIOUS
<1>1. CASE User
  BY <1>1, BoxKeptByTyping, BoxKeptByLookup, BoxKeptByChoice,
     BoxKeptBySession, BoxKeptByHistory
     DEF User
<1>2. CASE FuzzySearchStarts
  BY <1>2, BoxKeptByTyping
<1>3. CASE Deliver
  BY <1>3, BoxKeptBySession, BoxKeptByRefresh, BoxKeptBySearchDone,
     BoxKeptByFuzzySearchDone, BoxKeptByList
     DEF Deliver
<1>4. CASE UNCHANGED vars
  BY <1>4 DEF vars, BoxInv, SuggestionsAreAnswer, Answer, ComposingIsQuiet,
              WordsAreAsked
<1>. QED
  BY <1>1, <1>2, <1>3, <1>4 DEF Next

LEMMA BoxInvariance == Spec => [](IInv /\ BoxInv)
<1>1. Init => BoxInv
  BY DEF Init, NoPage, NoCalls, BoxInv, SuggestionsAreAnswer,
         ComposingIsQuiet, WordsAreAsked
<1>. QED
  BY <1>1, Initially, NextStep, BoxKept, PTL DEF Spec

\* Every variable keeps to its type, and with it the list of suggestions: what
\* FuzzySearch cuts out of an index is words of the shelf.
THEOREM TypeCorrect == Spec => []TypeOK
<1>1. IInv /\ BoxInv => TypeOK
  <2> SUFFICES ASSUME IInv, BoxInv PROVE TypeOK
    OBVIOUS
  <2>1. page.suggestions \in Suggested \cup {None}
    <3>1. CASE page.suggestions = None
      BY <3>1
    <3>2. CASE page.suggestions # None
      <4> DEFINE items == FuzzySearch(WordIndexes[page.selected], page.word,
                                      1, SuggestSize).items
      <4>1. page.suggestions = [word |-> page.word, dict |-> page.selected,
                                by |-> page.user, items |-> items]
        BY <3>2 DEF BoxInv, SuggestionsAreAnswer, Answer
      <4>2. page.word \in Inputs /\ page.selected \in Dicts \cup {None}
        BY DEF IInv, Shape, Pages
      <4>3. page.user \in Users
        BY <3>2 DEF IInv, Shape, Pages, SessionIsUsers, SignedOutIsClean, Token
      <4>4. items \in Seq(Vocabulary)
        BY <4>2, AnswerIsBeginning
      <4> HIDE DEF items
      <4>. QED
        BY <4>1, <4>2, <4>3, <4>4 DEF Suggested
    <3>. QED
      BY <3>1, <3>2
  <2>2. page \in Pages(page.suggestions)
    BY DEF IInv, Shape
  <2>. QED
    BY <2>1, <2>2 DEF IInv, Shape, Pages, Calls, Storage, TypeOK
<1>. QED
  BY <1>1, BoxInvariance, PTL

\* Whatever was typed, composed, chosen, answered, refreshed or signed out in
\* between, what is suggested is the beginning, in alphabetical order, of the
\* words of the chosen dictionary that start with what stands in the box: an
\* answer is compared with the box before it is shown (fuzzySearch), everything
\* that changes the box takes it away (cancelSuggestions), and the handler cuts
\* it out of a sorted index (prefixMatches).
THEOREM CurrentSuggestions == Spec => []SuggestionsAreCurrent
<1>1. IInv /\ BoxInv => SuggestionsAreCurrent
  <2> SUFFICES ASSUME IInv, BoxInv, page.suggestions # None
               PROVE  SuggestionsAreCurrent
    BY DEF SuggestionsAreCurrent
  <2> DEFINE items == FuzzySearch(WordIndexes[page.selected], page.word,
                                  1, SuggestSize).items
             words == Starting(page.selected, page.word)
  <2>1. page.suggestions = [word |-> page.word, dict |-> page.selected,
                            by |-> page.user, items |-> items]
    BY DEF BoxInv, SuggestionsAreAnswer, Answer
  <2>2. page.word \in Inputs /\ page.selected \in Dicts \cup {None}
    BY DEF IInv, Shape, Pages
  <2>3. /\ Len(items) = SuggestSize \/ Len(items) = Cardinality(words)
        /\ \A i \in DOMAIN items :
             /\ items[i] \in words
             /\ Cardinality({w \in words : Alphabetical(w, items[i])}) = i - 1
    BY <2>2, AnswerIsBeginning
  <2> HIDE DEF items, words
  <2>4. /\ page.suggestions.word = page.word
        /\ page.suggestions.dict = page.selected
        /\ page.suggestions.by = page.user /\ page.suggestions.items = items
    BY <2>1
  <2>. QED
    BY <2>3, <2>4 DEF SuggestionsAreCurrent, words
<1>. QED
  BY <1>1, BoxInvariance, PTL
=============================================================================
