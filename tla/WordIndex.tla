------------------------------ MODULE WordIndex ------------------------------
(***************************************************************************)
(* The sorted index of headwords and the search by prefix: pure functions  *)
(* of internal/dict/word_index.go, Engine.FuzzySearch and the handlers in  *)
(* internal/handlers/search.go.                                            *)
(*                                                                         *)
(* A word is a sequence of characters, a character its place in the order  *)
(* of the bytes that encode it.  One of them is a space.                   *)
(***************************************************************************)
EXTENDS Integers, Sequences, FiniteSets

CONSTANTS
  Chars,            \* the characters of this instance
  Space,            \* the one strings.TrimSpace removes
  Lower,            \* Lower[c]: the lower case of c
  DefaultPageSize,  \* 20
  MaxPageSize       \* 100

ASSUME CharsAssumption == /\ Chars \subseteq Nat
                          /\ Space \in Chars
                          /\ Lower \in [Chars -> Chars]
                          /\ \A c \in Chars : Lower[c] = Space <=> c = Space
ASSUME PageSizeAssumption == /\ DefaultPageSize \in Nat \ {0}
                             /\ MaxPageSize \in Nat

Words == Seq(Chars)

-----------------------------------------------------------------------------
TrimSpace(w) ==
  LET ink == {i \in DOMAIN w : w[i] # Space}
  IN  IF ink = {}
        THEN <<>>
        ELSE SubSeq(w, CHOOSE i \in ink : \A j \in ink : i <= j,
                       CHOOSE i \in ink : \A j \in ink : j <= i)

ToLower(w) == [i \in DOMAIN w |-> Lower[w[i]]]

\* The order of strings in Go: the first difference decides, and a prefix comes
\* first.
Less(u, v) ==
  \E i \in 1..Len(v) :
    /\ i - 1 <= Len(u)
    /\ \A j \in 1..i - 1 : u[j] = v[j]
    /\ i > Len(u) \/ u[i] < v[i]

HasPrefix(w, k) == Len(k) <= Len(w) /\ \A i \in 1..Len(k) : w[i] = k[i]

-----------------------------------------------------------------------------
(* The index: [word, normalized] pairs, sorted.                             *)

IndexedWord(w) == [word |-> w, normalized |-> ToLower(w)]

\* Faulty variant: the spelling decides before the lower case does.
BeforeBySpelling(x, y) == Less(x.word, y.word)

Before(x, y) ==
  \/ Less(x.normalized, y.normalized)
  \/ x.normalized = y.normalized /\ Less(x.word, y.word)

\* sortWordIndex: an entry stands behind those that come before it.
Sorted(entries) ==
  [i \in 1..Cardinality(entries) |->
     CHOOSE x \in entries : Cardinality({y \in entries : Before(y, x)}) = i - 1]

NewWordIndex(words) ==
  Sorted({IndexedWord(w) : w \in {TrimSpace(v) : v \in words} \ {<<>>}})

\* What sort.Search finds among the places up to n: the first of S, or the place
\* after the last.  (It bisects, which comes to the same because S is closed
\* upwards whenever it is asked: see WordIndexProofs.)
First(S, n) == IF S = {} THEN n + 1 ELSE CHOOSE i \in S : \A j \in S : i <= j

MatchStart(index, keyword) ==
  First({i \in 1..Len(index) : ~Less(index[i].normalized, keyword)}, Len(index))

\* The first place after start that does not match.
MatchEnd(index, keyword, start) ==
  First({i \in start..Len(index) : ~HasPrefix(index[i].normalized, keyword)},
        Len(index))

PrefixMatches(index, keyword) ==
  LET start == MatchStart(index, keyword)
  IN  SubSeq(index, start, MatchEnd(index, keyword, start) - 1)

-----------------------------------------------------------------------------
(* The pages of an answer.                                                  *)

TotalPages(total, pageSize) ==
  LET full == total \div pageSize
      all == IF total % pageSize # 0 THEN full + 1 ELSE full
  IN  IF all = 0 THEN 1 ELSE all

\* Faulty variant: pages are counted from zero.
PageStartFromZero(total, page, pageSize) ==
  IF page < TotalPages(total, pageSize) THEN page * pageSize ELSE total

PageStart(total, page, pageSize) ==
  IF page <= TotalPages(total, pageSize) THEN (page - 1) * pageSize ELSE total

PageEnd(total, page, pageSize) ==
  LET start == PageStart(total, page, pageSize)
      left == total - start
  IN  start + (IF pageSize < left THEN pageSize ELSE left)

\* The parameters a request may leave out, get wrong, or ask too much with.
Page(page) == IF page < 1 THEN 1 ELSE page
PageSize(size) ==
  IF size < 1 \/ size > MaxPageSize THEN DefaultPageSize ELSE size

LongEnough(keyword) == Len(TrimSpace(keyword)) >= 2

\* GET /search/fuzzy, for a keyword that is long enough.
FuzzySearch(index, keyword, page, pageSize) ==
  LET matches == PrefixMatches(index, TrimSpace(ToLower(keyword)))
      total == Len(matches)
      size == PageSize(pageSize)
      start == PageStart(total, Page(page), size)
      end == PageEnd(total, Page(page), size)
  IN  [items |-> [i \in 1..end - start |-> matches[start + i].word],
       total |-> total,
       totalPages |-> TotalPages(total, size)]
=============================================================================
