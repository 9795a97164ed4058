--------------------------- MODULE MCCorpusStore ---------------------------
(* Two editions of one guideline; the first is registered with its index.  *)
EXTENDS CorpusStore, TLC

CONSTANTS p, q

\* Updaters are alike.
Alike == Permutations(Updater)

MCDoc == 1 .. 2
MCFamily == <<"engineering", "engineering">>
MCIndexPath == {p, q}

\* One index exists already and the current edition is registered with it.
MCFirstIndexes == (p :> [doc |-> 1, hash |-> 1, rows |-> 1]) @@ (q :> NoIndex)
MCFirstManifest == <<[rev |-> 1, path |-> p], NotRegistered>>

Asked(action, doc, path, old) ==
  [action |-> action, doc |-> doc, path |-> path, target |-> old]

\* The edition is succeeded by the next one, or the next one is added.
MCRequests == {Asked("replace", 2, q, 1), Asked("add", 2, NoPath, 2)}

MCSelections == {[docs |-> {1, 2}, classes |-> {"active"}, many |-> TRUE],
                 [docs |-> {1, 2}, classes |-> {"historical"}, many |-> FALSE]}

MCPolicies == {<<"active", "unlisted">>, <<"historical", "active">>}
=============================================================================
