---------------------------- MODULE CorpusStore ----------------------------
(***************************************************************************)
(* The corpus on disk and the processes that share it without a lock:      *)
(* knowledge bases (KB files) rewritten in place by the builder, index     *)
(* directories published by a rename, one manifest replaced by a rename,   *)
(* one version policy edited by hand, and requests that read all of them.  *)
(* corpus.py, retrieval/local_index.py, corpus_selection.py,               *)
(* corpus_search.py.                                                       *)
(*                                                                         *)
(* Nothing keeps a KB from changing under a reader.  What the code does    *)
(* instead is hash what it reads and compare, several times.  Revisions    *)
(* number the contents a KB file takes; a hash is the revision it is of.   *)
(* A document has one KB path, and contents do not come back.              *)
(***************************************************************************)
EXTENDS Integers, FiniteSets, FiniteSetsExt

CONSTANTS Doc,          \* document identifiers, in their sorting order
          Family,       \* [Doc -> its document family]
          IndexPath, NoPath,
          Updater, Indexer, Reader,   \* processes
          Requests,     \* the updates asked for
          Selections,   \* the selections readers ask for
          Policies,     \* the version policies an operator puts in place
          FirstIndexes, FirstManifest,   \* a corpus built before
          MaxRev        \* bound: contents a KB file takes

Class == {"active", "historical", "unlisted"}

Request == [action : {"add", "replace"}, doc : Doc, path : IndexPath \cup {NoPath},
            target : Doc]
Selection == [docs : SUBSET Doc, classes : SUBSET Class, many : BOOLEAN]

\* A family has at most one active document (CorpusFamilyVersionPolicy).
ReviewedPolicy(p) ==
  \A d, e \in Doc : p[d] = "active" /\ p[e] = "active" /\ Family[d] = Family[e] => d = e

ASSUME CorpusAssumption ==
  /\ Doc \subseteq Nat /\ Doc # {} /\ IsFiniteSet(Doc)
  /\ NoPath \notin IndexPath /\ IndexPath # {} /\ Updater \cap Reader = {}
  /\ MaxRev \in Nat \ {0}
  /\ Requests \subseteq Request /\ Requests # {}
  /\ Selections \subseteq Selection /\ Selections # {}
  /\ Policies \subseteq [Doc -> Class] /\ Policies # {}
  /\ \A p \in Policies : ReviewedPolicy(p)

Rev == 1 .. MaxRev
Path == IndexPath \cup {NoPath}

\* What a manifest says of a document: the hash of its KB and its index.
Entry == [rev : Rev, path : Path]
NotRegistered == [rev |-> 0, path |-> NoPath]
Manifest == [Doc -> Entry \cup {NotRegistered}]

\* hash: the KB the index says it was built from; rows: the one it was.
Index == [doc : Doc, hash : Rev, rows : Rev]
NoIndex == [doc |-> 0, hash |-> 0, rows |-> 0]

VARIABLES
  kb, torn,     \* revision of each KB file; the files a writer is in the middle of
  index,        \* [IndexPath -> Index or NoIndex]
  manifest, policy,
  upc, request, base, proposed,   \* updaters; proposed is their stage file
  ipc, draft, target,             \* indexers: the staged index, its path
  rpc, selection, mine, selected, rows,   \* readers: manifest read, context built
  todo,         \* documents an updater or a reader has still to check
  seen, alone   \* history: kb at the stage or at the load; no commit since compare

kbVars == <<kb, torn>>
updaterVars == <<upc, request, base, proposed, alone>>
indexerVars == <<ipc, draft, target>>
readerVars == <<rpc, selection, mine, selected, rows>>
vars == <<kbVars, index, manifest, policy, updaterVars, indexerVars, readerVars, todo, seen>>

TypeOK ==
  /\ kb \in [Doc -> Rev] /\ torn \subseteq {d \in Doc : kb[d] < MaxRev}
  /\ index \in [IndexPath -> Index \cup {NoIndex}]
  /\ manifest \in Manifest
  /\ policy \in Policies
  /\ upc \in [Updater -> {"idle", "audit", "reaudit", "replace"}]
  /\ request \in [Updater -> Request]
  /\ base \in [Updater -> Manifest] /\ proposed \in [Updater -> Manifest]
  /\ alone \in [Updater -> BOOLEAN]
  /\ ipc \in [Indexer -> {"idle", "read", "publish"}]
  /\ draft \in [Indexer -> Index] /\ target \in [Indexer -> IndexPath]
  /\ rpc \in [Reader -> {"idle", "select", "audit", "prepare", "ready"}]
  /\ selection \in [Reader -> Selection]
  /\ mine \in [Reader -> Manifest]
  /\ selected \in [Reader -> SUBSET Doc]
  /\ rows \in [Reader -> [Doc -> 0 .. MaxRev]]
  /\ todo \in [Updater \cup Reader -> SUBSET Doc]
  /\ seen \in [Updater \cup Reader -> [Doc -> Rev]]

-----------------------------------------------------------------------------
(* Manifests and what they are checked against.                            *)

Registered(m) == {d \in Doc : m[d] # NotRegistered}
Nobody == [d \in Doc |-> NotRegistered]

\* Mutant: the index is not compared with the KB as it is now.
BuildableUnbound(d, p) == d \notin torn /\ (p # NoPath => index[p].doc = d)

\* _build_entry succeeds: the KB parses, and the index, if any, is of this
\* document and of these very bytes.  An index never changes once published,
\* so loading it and reading the KB beside it is one step.
Buildable(d, p) ==
  /\ d \notin torn
  /\ p # NoPath => index[p].doc = d /\ index[p].hash = kb[d]

\* audit_corpus_manifest rebuilds the entry and finds the one listed.
Exact(m, d) == Buildable(d, m[d].path) /\ m[d].rev = kb[d]

\* _derive_updated_manifest and the validator of CorpusManifest.
Allowed(m, r, e) ==
  /\ \/ r.action = "add" /\ m[r.doc] = NotRegistered
     \/ /\ r.action = "replace" /\ m[r.target] # NotRegistered
        /\ IF r.doc = r.target THEN e # m[r.doc]
           ELSE Family[r.doc] = Family[r.target] /\ m[r.doc] = NotRegistered
  /\ \A d \in Registered(m) \ {r.doc, r.target} : e.path # NoPath => m[d].path # e.path

Derived(m, r, e) ==
  [d \in Doc |-> IF d = r.doc THEN e
                 ELSE IF r.action = "replace" /\ d = r.target THEN NotRegistered
                 ELSE m[d]]

\* The next document of an audit or of a preparation, in sorting order.
NextDoc(p) == {d \in todo[p] : \A e \in todo[p] : d <= e}

Start == [d \in Doc |-> 1]
FirstRequest == CHOOSE r \in Requests : TRUE
FirstSelection == CHOOSE s \in Selections : TRUE
FirstDraft == [doc |-> CHOOSE d \in Doc : TRUE, hash |-> 1, rows |-> 1]

\* build_corpus_manifest made the first manifest from the files as they were.
ASSUME FirstAssumption ==
  /\ FirstIndexes \in [IndexPath -> {NoIndex} \cup {x \in Index : x.hash = 1 /\ x.rows = 1}]
  /\ FirstManifest \in [Doc -> {NotRegistered} \cup {e \in Entry : e.rev = 1}]
  /\ \A d \in Registered(FirstManifest) :
       FirstManifest[d].path # NoPath =>
         FirstIndexes[FirstManifest[d].path] = [doc |-> d, hash |-> 1, rows |-> 1]

Init ==
  /\ kb = Start /\ torn = {}
  /\ index = FirstIndexes /\ manifest = FirstManifest /\ policy \in Policies
  /\ upc = [u \in Updater |-> "idle"] /\ request = [u \in Updater |-> FirstRequest]
  /\ base = [u \in Updater |-> Nobody] /\ proposed = [u \in Updater |-> Nobody]
  /\ alone = [u \in Updater |-> FALSE]
  /\ ipc = [i \in Indexer |-> "idle"] /\ draft = [i \in Indexer |-> FirstDraft]
  /\ target = [i \in Indexer |-> CHOOSE p \in IndexPath : TRUE]
  /\ rpc = [r \in Reader |-> "idle"] /\ selection = [r \in Reader |-> FirstSelection]
  /\ mine = [r \in Reader |-> Nobody] /\ selected = [r \in Reader |-> {}]
  /\ rows = [r \in Reader |-> [d \in Doc |-> 0]]
  /\ todo = [p \in Updater \cup Reader |-> {}]
  /\ seen = [p \in Updater \cup Reader |-> Start]

-----------------------------------------------------------------------------
(* The builder rewrites a KB file in place: readers may meet half of it.   *)

BeginWrite(d) ==
  /\ d \notin torn /\ kb[d] < MaxRev
  /\ torn' = torn \cup {d}
  /\ UNCHANGED <<kb, index, manifest, policy, updaterVars, indexerVars, readerVars, todo, seen>>

EndWrite(d) ==
  /\ d \in torn
  /\ torn' = torn \ {d} /\ kb' = [kb EXCEPT ![d] = @ + 1]
  /\ UNCHANGED <<index, manifest, policy, updaterVars, indexerVars, readerVars, todo, seen>>

\* An operator edits the policy, independently of the manifest.
Review(p) ==
  /\ p # policy /\ policy' = p
  /\ UNCHANGED <<kbVars, index, manifest, updaterVars, indexerVars, readerVars, todo, seen>>

-----------------------------------------------------------------------------
(* build_local_index.                                                      *)

StartIndex(i, d, p) ==
  /\ ipc[i] = "idle" /\ index[p] = NoIndex
  /\ ipc' = [ipc EXCEPT ![i] = "read"]
  /\ draft' = [draft EXCEPT ![i] = [@ EXCEPT !.doc = d]]
  /\ target' = [target EXCEPT ![i] = p]
  /\ UNCHANGED <<kbVars, index, manifest, policy, updaterVars, readerVars, todo, seen>>

\* One read of the file gives both the contents and their hash.
ReadKb(i) ==
  LET d == draft[i].doc IN
  /\ ipc[i] = "read" /\ d \notin torn
  /\ ipc' = [ipc EXCEPT ![i] = "publish"]
  /\ draft' = [draft EXCEPT ![i] = [doc |-> d, hash |-> kb[d], rows |-> kb[d]]]
  /\ UNCHANGED <<kbVars, index, manifest, policy, updaterVars, target, readerVars, todo, seen>>

ForgetIndex(i) ==
  /\ ipc' = [ipc EXCEPT ![i] = "idle"] /\ draft' = [draft EXCEPT ![i] = FirstDraft]
  /\ target' = [target EXCEPT ![i] = CHOOSE p \in IndexPath : TRUE]

\* The directory was staged, loaded once and is renamed; a rename onto a
\* directory with files in it fails.
Publish(i) ==
  /\ ipc[i] = "publish" /\ index[target[i]] = NoIndex
  /\ index' = [index EXCEPT ![target[i]] = draft[i]] /\ ForgetIndex(i)
  /\ UNCHANGED <<kbVars, manifest, policy, updaterVars, readerVars, todo, seen>>

\* A check or an I/O error refuses the build, or the process dies; a stage
\* left behind has a name of its own and is never read.
AbandonIndex(i) ==
  /\ ipc[i] # "idle" /\ ForgetIndex(i)
  /\ UNCHANGED <<kbVars, index, manifest, policy, updaterVars, readerVars, todo, seen>>

-----------------------------------------------------------------------------
(* update_corpus_manifest.                                                 *)

\* What the call held is gone with it.
ForgetUpdate(u) ==
  /\ upc' = [upc EXCEPT ![u] = "idle"] /\ request' = [request EXCEPT ![u] = FirstRequest]
  /\ base' = [base EXCEPT ![u] = Nobody] /\ proposed' = [proposed EXCEPT ![u] = Nobody]
  /\ todo' = [todo EXCEPT ![u] = {}] /\ seen' = [seen EXCEPT ![u] = Start]

ReadManifest(u, r) ==
  /\ upc[u] = "idle"
  /\ upc' = [upc EXCEPT ![u] = "audit"]
  /\ request' = [request EXCEPT ![u] = r]
  /\ base' = [base EXCEPT ![u] = manifest]
  /\ todo' = [todo EXCEPT ![u] = Registered(manifest)]
  /\ UNCHANGED <<kbVars, index, manifest, policy, proposed, alone, indexerVars, readerVars, seen>>

\* The manifest it audits: the current one, then its own stage file.
Audited(u) == IF upc[u] = "audit" THEN base[u] ELSE proposed[u]

Audit(u) ==
  /\ upc[u] \in {"audit", "reaudit"}
  /\ \E d \in NextDoc(u) : Exact(Audited(u), d) /\ todo' = [todo EXCEPT ![u] = @ \ {d}]
  /\ UNCHANGED <<kbVars, index, manifest, policy, updaterVars, indexerVars, readerVars, seen>>

\* The candidate is read, the new manifest derived and written to a stage file.
Stage(u) ==
  LET r == request[u]
      e == [rev |-> kb[r.doc], path |-> r.path] IN
  /\ upc[u] = "audit" /\ todo[u] = {}
  /\ Buildable(r.doc, r.path) /\ Allowed(base[u], r, e)
  /\ proposed' = [proposed EXCEPT ![u] = Derived(base[u], r, e)]
  /\ todo' = [todo EXCEPT ![u] = Registered(proposed'[u])]
  /\ seen' = [seen EXCEPT ![u] = kb]
  /\ upc' = [upc EXCEPT ![u] = "reaudit"]
  /\ UNCHANGED <<kbVars, index, manifest, policy, request, base, alone, indexerVars, readerVars>>

\* Mutant: activates without the second audit.
CompareUnaudited(u) ==
  /\ upc[u] = "reaudit" /\ manifest = base[u]
  /\ upc' = [upc EXCEPT ![u] = "replace"] /\ alone' = [alone EXCEPT ![u] = TRUE]
  /\ UNCHANGED <<kbVars, index, manifest, policy, request, base, proposed, indexerVars, readerVars, todo, seen>>

\* Mutant: activates whatever the current manifest is.
CompareNothing(u) ==
  /\ upc[u] = "reaudit" /\ todo[u] = {}
  /\ upc' = [upc EXCEPT ![u] = "replace"] /\ alone' = [alone EXCEPT ![u] = TRUE]
  /\ UNCHANGED <<kbVars, index, manifest, policy, request, base, proposed, indexerVars, readerVars, todo, seen>>

Compare(u) ==
  /\ upc[u] = "reaudit" /\ todo[u] = {} /\ manifest = base[u]
  /\ upc' = [upc EXCEPT ![u] = "replace"] /\ alone' = [alone EXCEPT ![u] = TRUE]
  /\ UNCHANGED <<kbVars, index, manifest, policy, request, base, proposed, indexerVars, readerVars, todo, seen>>

\* os.replace.  The verification that follows chooses between two answers to
\* the caller and leaves the disk alone.
Replace(u) ==
  /\ upc[u] = "replace"
  /\ manifest' = proposed[u] /\ ForgetUpdate(u)
  /\ alone' = [v \in Updater |-> FALSE]
  /\ UNCHANGED <<kbVars, index, policy, indexerVars, readerVars>>

\* An audit, a check, the comparison or an I/O error refuses the update, or
\* the process dies.
RefuseUpdate(u) ==
  /\ upc[u] # "idle" /\ ForgetUpdate(u)
  /\ alone' = [alone EXCEPT ![u] = FALSE]
  /\ UNCHANGED <<kbVars, index, manifest, policy, indexerVars, readerVars>>

-----------------------------------------------------------------------------
(* A query: load, select, audit, prepare.                                  *)

Load(r, s) ==
  /\ rpc[r] = "idle"
  /\ rpc' = [rpc EXCEPT ![r] = "select"]
  /\ selection' = [selection EXCEPT ![r] = s]
  /\ mine' = [mine EXCEPT ![r] = manifest]
  /\ seen' = [seen EXCEPT ![r] = kb]
  /\ UNCHANGED <<kbVars, index, manifest, policy, updaterVars, indexerVars, selected, rows, todo>>

\* validate_corpus_version_policy: exactly the documents listed are classified.
Covers(p, m) == \A d \in Doc : p[d] # "unlisted" <=> m[d] # NotRegistered

\* select_corpus_documents.
Matches(s, p, m) == {d \in Registered(m) \cap s.docs : p[d] \in s.classes}

Select(r) ==
  LET m == mine[r]
      chosen == Matches(selection[r], policy, m) IN
  /\ rpc[r] = "select" /\ Covers(policy, m)
  /\ chosen # {}
  /\ \A d \in chosen : m[d].path # NoPath
  /\ Cardinality(chosen) > 1 => selection[r].many
  /\ selected' = [selected EXCEPT ![r] = chosen]
  /\ todo' = [todo EXCEPT ![r] = Registered(m)]
  /\ rpc' = [rpc EXCEPT ![r] = "audit"]
  /\ UNCHANGED <<kbVars, index, manifest, policy, updaterVars, indexerVars, selection, mine, rows, seen>>

\* Mutant: opens the indexes that were selected, audits nothing else.
AuditNothing(r) ==
  /\ rpc[r] = "audit"
  /\ rpc' = [rpc EXCEPT ![r] = "prepare"] /\ todo' = [todo EXCEPT ![r] = selected[r]]
  /\ UNCHANGED <<kbVars, index, manifest, policy, updaterVars, indexerVars, selection, mine, selected, rows, seen>>

AuditAll(r) ==
  /\ rpc[r] = "audit"
  /\ IF todo[r] = {}
     THEN /\ rpc' = [rpc EXCEPT ![r] = "prepare"]
          /\ todo' = [todo EXCEPT ![r] = selected[r]]
     ELSE /\ \E d \in NextDoc(r) : Exact(mine[r], d) /\ todo' = [todo EXCEPT ![r] = @ \ {d}]
          /\ UNCHANGED rpc
  /\ UNCHANGED <<kbVars, index, manifest, policy, updaterVars, indexerVars, selection, mine, selected, rows, seen>>

\* The rows of a selected document are taken from its index and compared
\* with the payloads derived from its KB, read once more.
Prepare(r) ==
  /\ rpc[r] = "prepare"
  /\ IF todo[r] = {}
     THEN rpc' = [rpc EXCEPT ![r] = "ready"] /\ UNCHANGED <<rows, todo>>
     ELSE /\ \E d \in NextDoc(r) :
               LET found == index[mine[r][d].path] IN
               /\ Exact(mine[r], d) /\ found.rows = kb[d]
               /\ rows' = [rows EXCEPT ![r][d] = found.rows]
               /\ todo' = [todo EXCEPT ![r] = @ \ {d}]
          /\ UNCHANGED rpc
  /\ UNCHANGED <<kbVars, index, manifest, policy, updaterVars, indexerVars, selection, mine, selected, seen>>

\* Answered from the frozen context, or refused at any step.
Leave(r) ==
  /\ rpc[r] # "idle"
  /\ rpc' = [rpc EXCEPT ![r] = "idle"] /\ selection' = [selection EXCEPT ![r] = FirstSelection]
  /\ mine' = [mine EXCEPT ![r] = Nobody] /\ selected' = [selected EXCEPT ![r] = {}]
  /\ rows' = [rows EXCEPT ![r] = [d \in Doc |-> 0]]
  /\ todo' = [todo EXCEPT ![r] = {}] /\ seen' = [seen EXCEPT ![r] = Start]
  /\ UNCHANGED <<kbVars, index, manifest, policy, updaterVars, indexerVars>>

-----------------------------------------------------------------------------
Next ==
  \/ \E d \in Doc : BeginWrite(d) \/ EndWrite(d)
  \/ \E p \in Policies : Review(p)
  \/ \E i \in Indexer :
       \/ \E d \in Doc, p \in IndexPath : StartIndex(i, d, p)
       \/ ReadKb(i) \/ Publish(i) \/ AbandonIndex(i)
  \/ \E u \in Updater :
       \/ \E r \in Requests : ReadManifest(u, r)
       \/ Audit(u) \/ Stage(u) \/ Compare(u) \/ Replace(u) \/ RefuseUpdate(u)
  \/ \E r \in Reader :
       \/ \E s \in Selections : Load(r, s)
       \/ Select(r) \/ AuditAll(r) \/ Prepare(r) \/ Leave(r)

Spec == Init /\ [][Next]_vars

-----------------------------------------------------------------------------
\* An index the manifest lists stays what it was when it was registered: of
\* that document, of the KB listed, with rows made from that KB.  Indexers race
\* for one path, and the KB may change between the reads of a build.
\* (_publish_staged_directory, read_source_kb_exact, audit_corpus_manifest)
EntriesBound ==
  \A d \in Registered(manifest) : manifest[d].path # NoPath =>
    index[manifest[d].path] = [doc |-> d, hash |-> manifest[d].rev, rows |-> manifest[d].rev]

\* A manifest about to be activated was true as a whole at one moment: when it
\* was staged, every KB had the contents it lists, although they are read one
\* by one while they may be rewritten.  (the audits around _stage_manifest)
TrueWhenStaged ==
  \A u \in Updater : upc[u] = "replace" =>
    \A d \in Registered(proposed[u]) : proposed[u][d].rev = seen[u][d]

\* An activation that no other one came between (since it compared) changes
\* the documents its request names and keeps every other entry.  Between the
\* comparison and the rename another may come, as the decision record on
\* activation admits.  (_current_manifest_unchanged, _derive_updated_manifest)
UpdatesApplyToCurrent ==
  [][\A u \in Updater : Replace(u) /\ alone[u] =>
       \A d \in Doc \ {request[u].doc, request[u].target} : manifest'[d] = manifest[d]]_vars

\* A context ready to be searched is the corpus at one moment, that at which
\* the manifest was loaded: every KB listed had the contents listed, and the
\* rows of the documents selected were made from them.  Manifest, policy,
\* indexes and KBs are read one by one and may all change in between.
\* (audit_corpus_manifest, prepare_corpus_search_context)
SnapshotConsistent ==
  \A r \in Reader : rpc[r] = "ready" =>
    /\ \A d \in Registered(mine[r]) : mine[r][d].rev = seen[r][d]
    /\ \A d \in selected[r] : d \in Registered(mine[r]) /\ rows[r][d] = seen[r][d]

=============================================================================
