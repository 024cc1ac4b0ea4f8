---------------------------- MODULE MCDictEngine ----------------------------
(* Instances of DictEngine for TLC. *)
EXTENDS DictEngine, TLC

CONSTANTS f1, f2

\* Every version has a word of its own; all share one.
MCVocabulary ==
  [x \in Files \X Versions |-> {<<"shared", 0>>, x}]

\* One file in one form, a pair in another.
MCBatches == {{<<f, "mdx">>} : f \in Files}
               \cup {{<<f, "mdx">>, <<f, "mdd">>} : f \in Files}

\* One unreadable .mdx: the second version of the last file.
MCCorrupt == {<<IF Files = {f1} THEN f1 ELSE f2, 2>>}

MddBatches == {{<<f, "mdd">>} : f \in Files} \cup MCBatches

\* With two files: a resource file on its own or in a pair for one of them.
PairBatches == {{<<f1, "mdx">>}, {<<f1, "mdd">>},
                {<<f1, "mdx">>, <<f1, "mdd">>}, {<<f2, "mdx">>}}

HandlerSymmetry == Permutations(Handlers)
=============================================================================
