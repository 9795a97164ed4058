------------------------ MODULE CorpusStoreProofs ------------------------
(***************************************************************************)
(* A query is answered from one moment of the corpus, and a manifest is    *)
(* activated that was true at one moment, for any number of documents,     *)
(* paths, processes and revisions.                                         *)
(*                                                                         *)
(* The argument is about order, not about locks.  Revisions only grow, and *)
(* nothing ever lists a revision ahead of its file: a manifest is behind   *)
(* the files when it is loaded, and those are behind the files that are    *)
(* read later.  A later read that finds the revision listed squeezes all   *)
(* three together, so each check on its own pins one document to the same  *)
(* moment, and the checks need no moment in common.                        *)
(***************************************************************************)
EXTENDS CorpusStore, TLAPS

\* What an index directory holds is what it says it holds.
IndexesSound ==
  /\ \A p \in IndexPath : index[p].hash = index[p].rows
  /\ \A i \in Indexer : draft[i].hash = draft[i].rows

BoundIn(m, ix) ==
  \A d \in Registered(m) : m[d].path # NoPath =>
    ix[m[d].path] = [doc |-> d, hash |-> m[d].rev, rows |-> m[d].rev]

Behind(m, k) == \A d \in Registered(m) : m[d].rev <= k[d]
Agree(m, k, D) == \A d \in Registered(m) \ D : m[d].rev = k[d]
Later(k, l) == \A d \in Doc : k[d] <= l[d]
Kept(ix, jx) == \A p \in IndexPath : ix[p] # NoIndex => jx[p] = ix[p]

DiskInv == IndexesSound /\ BoundIn(manifest, index) /\ Behind(manifest, kb)

UpdaterInv(u) ==
  /\ BoundIn(base[u], index) /\ Behind(base[u], kb)
  /\ BoundIn(proposed[u], index) /\ Behind(proposed[u], seen[u]) /\ Later(seen[u], kb)
  /\ upc[u] \in {"reaudit", "replace"} =>
       /\ Agree(proposed[u], seen[u], todo[u])
       /\ \A d \in Doc \ {request[u].doc, request[u].target} : proposed[u][d] = base[u][d]
  /\ upc[u] = "replace" => todo[u] = {}
  /\ alone[u] => manifest = base[u]

ReaderInv(r) ==
  /\ BoundIn(mine[r], index) /\ Behind(mine[r], seen[r]) /\ Later(seen[r], kb)
  /\ rpc[r] \in {"audit", "prepare", "ready"} => selected[r] \subseteq Registered(mine[r])
  /\ rpc[r] = "audit" => Agree(mine[r], seen[r], todo[r])
  /\ rpc[r] \in {"prepare", "ready"} => Agree(mine[r], seen[r], {})
  /\ rpc[r] = "prepare" => \A d \in selected[r] \ todo[r] : rows[r][d] = seen[r][d]
  /\ rpc[r] = "ready" => \A d \in selected[r] : rows[r][d] = seen[r][d]

CorpusInv ==
  /\ TypeOK /\ DiskInv
  /\ \A u \in Updater : UpdaterInv(u)
  /\ \A r \in Reader : ReaderInv(r)

-----------------------------------------------------------------------------
(* Manifests, revisions and indexes.                                       *)

LEMMA Values ==
  /\ Nobody \in Manifest /\ Registered(Nobody) = {}
  /\ Start \in [Doc -> Rev]
  /\ FirstRequest \in Request /\ FirstSelection \in Selection
  /\ FirstDraft \in Index /\ FirstDraft.hash = FirstDraft.rows
  /\ (CHOOSE p \in IndexPath : TRUE) \in IndexPath
  /\ \A e \in Entry : e # NotRegistered
  /\ \A x \in Index : x # NoIndex
<1>1. 1 \in Rev /\ 0 \notin Rev
  BY CorpusAssumption DEF Rev
<1>2. (CHOOSE d \in Doc : TRUE) \in Doc
  BY CorpusAssumption
<1>3. FirstRequest \in Requests /\ FirstSelection \in Selections
  BY CorpusAssumption DEF FirstRequest, FirstSelection
<1>4. FirstDraft \in Index /\ FirstDraft.hash = FirstDraft.rows
  BY <1>1, <1>2 DEF FirstDraft, Index
<1>5. (CHOOSE p \in IndexPath : TRUE) \in IndexPath
  BY CorpusAssumption
<1>6. \A e \in Entry : e # NotRegistered
  BY <1>1 DEF Entry, NotRegistered
<1>7. \A x \in Index : x # NoIndex
  BY <1>1 DEF Index, NoIndex
<1>8. Nobody \in Manifest /\ Registered(Nobody) = {}
  BY DEF Nobody, Manifest, Registered
<1>9. Start \in [Doc -> Rev]
  BY <1>1 DEF Start
<1> QED
  BY <1>3, <1>4, <1>5, <1>6, <1>7, <1>8, <1>9, CorpusAssumption

\* What is registered has an entry.
LEMMA EntryOf ==
  ASSUME NEW m \in Manifest, NEW d \in Registered(m)
  PROVE  d \in Doc /\ m[d] \in Entry /\ m[d].rev \in Rev /\ m[d].rev \in Nat
         /\ m[d].path \in Path
<1>1. d \in Doc /\ m[d] \in Entry
  BY DEF Registered, Manifest
<1> QED
  BY <1>1, CorpusAssumption DEF Entry, Rev

\* Indexes that stay keep what is bound to them.
LEMMA BoundKept ==
  ASSUME NEW m \in Manifest, NEW ix, NEW jx, Kept(ix, jx), BoundIn(m, ix)
  PROVE  BoundIn(m, jx)
<1> SUFFICES ASSUME NEW d \in Registered(m), m[d].path # NoPath
             PROVE  jx[m[d].path] = [doc |-> d, hash |-> m[d].rev, rows |-> m[d].rev]
  BY DEF BoundIn
<1>1. m[d].path \in IndexPath /\ m[d].rev \in Rev /\ d \in Doc
  BY EntryOf DEF Path
<1>2. ix[m[d].path] = [doc |-> d, hash |-> m[d].rev, rows |-> m[d].rev]
  BY DEF BoundIn
<1>3. [doc |-> d, hash |-> m[d].rev, rows |-> m[d].rev] \in Index
  BY <1>1 DEF Index
<1>4. ix[m[d].path] # NoIndex
  BY <1>2, <1>3, Values
<1> QED
  BY <1>1, <1>2, <1>4 DEF Kept

LEMMA LaterTransitive ==
  ASSUME NEW k \in [Doc -> Rev], NEW l \in [Doc -> Rev], NEW n \in [Doc -> Rev],
         Later(k, l), Later(l, n)
  PROVE  Later(k, n)
<1> SUFFICES ASSUME NEW d \in Doc PROVE k[d] <= n[d]
  BY DEF Later
<1>1. k[d] \in Nat /\ l[d] \in Nat /\ n[d] \in Nat
  BY CorpusAssumption DEF Rev
<1> QED
  BY <1>1 DEF Later

LEMMA BehindLater ==
  ASSUME NEW m \in Manifest, NEW k \in [Doc -> Rev], NEW l \in [Doc -> Rev],
         Behind(m, k), Later(k, l)
  PROVE  Behind(m, l)
<1> SUFFICES ASSUME NEW d \in Registered(m) PROVE m[d].rev <= l[d]
  BY DEF Behind
<1>1. d \in Doc /\ m[d].rev \in Nat
  BY EntryOf
<1>2. k[d] \in Nat /\ l[d] \in Nat
  BY <1>1, CorpusAssumption DEF Rev
<1> QED
  BY <1>1, <1>2 DEF Behind, Later

\* The squeeze: what is behind k, and found exact at a later l, is exact at k.
LEMMA Squeeze ==
  ASSUME NEW m \in Manifest, NEW k \in [Doc -> Rev], NEW l \in [Doc -> Rev],
         Behind(m, k), Later(k, l), NEW d \in Registered(m), m[d].rev = l[d]
  PROVE  m[d].rev = k[d]
<1>1. d \in Doc /\ m[d].rev \in Nat
  BY EntryOf
<1>2. k[d] \in Nat /\ l[d] \in Nat
  BY <1>1, CorpusAssumption DEF Rev
<1> QED
  BY <1>1, <1>2 DEF Behind, Later

-----------------------------------------------------------------------------
(* Types.                                                                  *)

LEMMA InitType == Init => TypeOK
<1> SUFFICES ASSUME Init PROVE TypeOK
  OBVIOUS
<1>1. FirstIndexes \in [IndexPath -> Index \cup {NoIndex}]
  BY FirstAssumption
<1>2. FirstManifest \in Manifest
  BY FirstAssumption DEF Manifest
<1>3. 1 .. MaxRev \subseteq 0 .. MaxRev /\ 0 \in 0 .. MaxRev
  BY CorpusAssumption
<1> QED
  BY <1>1, <1>2, <1>3, Values DEF Init, TypeOK

\* A new manifest is one.
LEMMA DerivedType ==
  ASSUME NEW m \in Manifest, NEW r \in Request, NEW e \in Entry
  PROVE  Derived(m, r, e) \in Manifest
<1>1. NotRegistered \in Entry \cup {NotRegistered}
  OBVIOUS
<1> QED
  BY <1>1 DEF Derived, Manifest

LEMMA FilesType ==
  ASSUME TypeOK,
         \/ \E d \in Doc : BeginWrite(d) \/ EndWrite(d)
         \/ \E p \in Policies : Review(p)
  PROVE  TypeOK'
<1> USE DEF TypeOK, kbVars, updaterVars, indexerVars, readerVars
<1>1. ASSUME NEW d \in Doc, BeginWrite(d) PROVE TypeOK'
  BY <1>1 DEF BeginWrite
<1>2. ASSUME NEW d \in Doc, EndWrite(d) PROVE TypeOK'
  <2>1. kb[d] + 1 \in Rev
    BY <1>2, CorpusAssumption DEF EndWrite, Rev
  <2>2. kb' \in [Doc -> Rev]
    BY <1>2, <2>1 DEF EndWrite
  <2>3. torn' \subseteq {x \in Doc : kb'[x] < MaxRev}
    BY <1>2 DEF EndWrite
  <2> QED
    BY <1>2, <2>2, <2>3 DEF EndWrite
<1>3. ASSUME NEW p \in Policies, Review(p) PROVE TypeOK'
  BY <1>3 DEF Review
<1> QED
  BY <1>1, <1>2, <1>3

LEMMA IndexerType ==
  ASSUME TypeOK, NEW i \in Indexer,
         \/ \E d \in Doc, p \in IndexPath : StartIndex(i, d, p)
         \/ ReadKb(i) \/ Publish(i) \/ AbandonIndex(i)
  PROVE  TypeOK'
<1> USE DEF TypeOK, kbVars, updaterVars, indexerVars, readerVars
<1>1. ASSUME NEW d \in Doc, NEW p \in IndexPath, StartIndex(i, d, p) PROVE TypeOK'
  <2>1. [draft[i] EXCEPT !.doc = d] \in Index
    <3>1. draft[i] \in Index
      OBVIOUS
    <3> QED
      BY <3>1 DEF Index
  <2> QED
    BY <1>1, <2>1 DEF StartIndex
<1>2. ASSUME ReadKb(i) PROVE TypeOK'
  <2>1. [doc |-> draft[i].doc, hash |-> kb[draft[i].doc], rows |-> kb[draft[i].doc]] \in Index
    BY DEF Index
  <2> QED
    BY <1>2, <2>1 DEF ReadKb
<1>3. ASSUME Publish(i) PROVE TypeOK'
  BY <1>3, Values DEF Publish, ForgetIndex
<1>4. ASSUME AbandonIndex(i) PROVE TypeOK'
  BY <1>4, Values DEF AbandonIndex, ForgetIndex
<1> QED
  BY <1>1, <1>2, <1>3, <1>4

LEMMA UpdaterType ==
  ASSUME TypeOK, NEW u \in Updater,
         \/ \E r \in Requests : ReadManifest(u, r)
         \/ Audit(u) \/ Stage(u) \/ Compare(u) \/ Replace(u) \/ RefuseUpdate(u)
  PROVE  TypeOK'
<1> USE DEF TypeOK, kbVars, updaterVars, indexerVars, readerVars
<1>0. \A m : Registered(m) \subseteq Doc
  BY DEF Registered
<1>1. ASSUME NEW r \in Requests, ReadManifest(u, r) PROVE TypeOK'
  BY <1>1, <1>0, CorpusAssumption DEF ReadManifest
<1>2. ASSUME Audit(u) PROVE TypeOK'
  <2> PICK d : todo' = [todo EXCEPT ![u] = @ \ {d}]
    BY <1>2 DEF Audit
  <2> QED
    BY <1>2 DEF Audit
<1>3. ASSUME Stage(u) PROVE TypeOK'
  <2> DEFINE e == [rev |-> kb[request[u].doc], path |-> request[u].path]
             new == Derived(base[u], request[u], e)
  <2>1. request[u] \in Request /\ base[u] \in Manifest
    OBVIOUS
  <2>2. e \in Entry
    BY <2>1 DEF Entry, Request, Path
  <2>3. new \in Manifest
    BY <2>1, <2>2, DerivedType
  <2> HIDE DEF new
  <2>4. proposed' = [proposed EXCEPT ![u] = new]
    BY <1>3 DEF Stage, new
  <2>5. todo' = [todo EXCEPT ![u] = Registered(proposed'[u])] /\ seen' = [seen EXCEPT ![u] = kb]
    BY <1>3 DEF Stage
  <2> QED
    BY <1>3, <1>0, <2>3, <2>4, <2>5 DEF Stage
<1>4. ASSUME Compare(u) PROVE TypeOK'
  BY <1>4 DEF Compare
<1>5. ASSUME Replace(u) PROVE TypeOK'
  BY <1>5, Values DEF Replace, ForgetUpdate
<1>6. ASSUME RefuseUpdate(u) PROVE TypeOK'
  BY <1>6, Values DEF RefuseUpdate, ForgetUpdate
<1> QED
  BY <1>1, <1>2, <1>3, <1>4, <1>5, <1>6

LEMMA ReaderType ==
  ASSUME TypeOK, NEW r \in Reader,
         \/ \E s \in Selections : Load(r, s)
         \/ Select(r) \/ AuditAll(r) \/ Prepare(r) \/ Leave(r)
  PROVE  TypeOK'
<1> USE DEF TypeOK, kbVars, updaterVars, indexerVars, readerVars
<1>0. \A m : Registered(m) \subseteq Doc
  BY DEF Registered
<1>1. ASSUME NEW s \in Selections, Load(r, s) PROVE TypeOK'
  BY <1>1, CorpusAssumption DEF Load
<1>2. ASSUME Select(r) PROVE TypeOK'
  <2> DEFINE chosen == Matches(selection[r], policy, mine[r])
  <2>1. chosen \subseteq Doc
    BY <1>0 DEF Matches
  <2> HIDE DEF chosen
  <2>2. /\ selected' = [selected EXCEPT ![r] = chosen]
        /\ todo' = [todo EXCEPT ![r] = Registered(mine[r])]
        /\ rpc' = [rpc EXCEPT ![r] = "audit"]
    BY <1>2 DEF Select, chosen
  <2> QED
    BY <1>2, <1>0, <2>1, <2>2 DEF Select
<1>3. ASSUME AuditAll(r) PROVE TypeOK'
  <2>1. CASE todo[r] = {}
    <3>1. /\ rpc' = [rpc EXCEPT ![r] = "prepare"]
          /\ todo' = [todo EXCEPT ![r] = selected[r]]
      BY <1>3, <2>1 DEF AuditAll
    <3> QED
      BY <1>3, <3>1 DEF AuditAll
  <2>2. CASE todo[r] # {}
    <3> PICK d : todo' = [todo EXCEPT ![r] = @ \ {d}]
      BY <1>3, <2>2 DEF AuditAll
    <3> QED
      BY <1>3, <2>2 DEF AuditAll
  <2> QED
    BY <2>1, <2>2
<1>4. ASSUME Prepare(r) PROVE TypeOK'
  <2>1. CASE todo[r] = {}
    BY <1>4, <2>1 DEF Prepare
  <2>2. CASE todo[r] # {}
    <3> PICK d \in Doc : /\ todo' = [todo EXCEPT ![r] = @ \ {d}]
                          /\ index[mine[r][d].path].rows = kb[d]
                          /\ rows' = [rows EXCEPT ![r][d] = index[mine[r][d].path].rows]
      BY <1>4, <2>2 DEF Prepare, NextDoc
    <3>1. kb[d] \in 0 .. MaxRev
      BY CorpusAssumption DEF Rev
    <3> QED
      BY <1>4, <2>2, <3>1 DEF Prepare
  <2> QED
    BY <2>1, <2>2
<1>5. ASSUME Leave(r) PROVE TypeOK'
  <2>1. [d \in Doc |-> 0] \in [Doc -> 0 .. MaxRev]
    BY CorpusAssumption
  <2> QED
    BY <1>5, <2>1, Values DEF Leave
<1> QED
  BY <1>1, <1>2, <1>3, <1>4, <1>5

LEMMA NextType == TypeOK /\ [Next]_vars => TypeOK'
<1> SUFFICES ASSUME TypeOK, [Next]_vars PROVE TypeOK'
  OBVIOUS
<1>1. CASE UNCHANGED vars
  BY <1>1 DEF TypeOK, vars, kbVars, updaterVars, indexerVars, readerVars
<1>2. CASE Next
  BY <1>2, FilesType, IndexerType, UpdaterType, ReaderType DEF Next
<1> QED
  BY <1>1, <1>2

\* Every reachable state is well typed: of the disk, of every process, and of
\* the manifests and the entries they hold.
THEOREM Typed == Spec => []TypeOK
BY InitType, NextType, PTL DEF Spec

-----------------------------------------------------------------------------
(* Frames: what a step of another process leaves of an invariant.          *)

\* Revisions grow and indexes stay.
LEMMA Growth == TypeOK /\ Next => Later(kb, kb') /\ Kept(index, index')
<1> SUFFICES ASSUME TypeOK, Next PROVE Later(kb, kb') /\ Kept(index, index')
  OBVIOUS
<1> USE DEF kbVars, updaterVars, indexerVars, readerVars
<1>0. \A d \in Doc : kb[d] \in Nat
  BY CorpusAssumption DEF TypeOK, Rev
<1>1. ASSUME UNCHANGED <<kb, index>> PROVE Later(kb, kb') /\ Kept(index, index')
  BY <1>0, <1>1 DEF Later, Kept
<1>2. ASSUME NEW d \in Doc, BeginWrite(d) PROVE UNCHANGED <<kb, index>>
  BY <1>2 DEF BeginWrite
<1>3. ASSUME NEW d \in Doc, EndWrite(d) PROVE Later(kb, kb') /\ Kept(index, index')
  BY <1>0, <1>3 DEF EndWrite, Later, Kept, TypeOK
<1>4. ASSUME NEW p \in Policies, Review(p) PROVE UNCHANGED <<kb, index>>
  BY <1>4 DEF Review
<1>5. ASSUME NEW i \in Indexer, Publish(i) PROVE Later(kb, kb') /\ Kept(index, index')
  BY <1>0, <1>5 DEF Publish, Later, Kept, TypeOK
<1>6. ASSUME NEW i \in Indexer,
             (\E d \in Doc, p \in IndexPath : StartIndex(i, d, p)) \/ ReadKb(i) \/ AbandonIndex(i)
      PROVE  UNCHANGED <<kb, index>>
  BY <1>6 DEF StartIndex, ReadKb, AbandonIndex
<1>7. ASSUME NEW u \in Updater,
             \/ \E r \in Requests : ReadManifest(u, r)
             \/ Audit(u) \/ Stage(u) \/ Compare(u) \/ Replace(u) \/ RefuseUpdate(u)
      PROVE  UNCHANGED <<kb, index>>
  BY <1>7 DEF ReadManifest, Audit, Stage, Compare, Replace, RefuseUpdate
<1>8. ASSUME NEW r \in Reader,
             \/ \E s \in Selections : Load(r, s)
             \/ Select(r) \/ AuditAll(r) \/ Prepare(r) \/ Leave(r)
      PROVE  UNCHANGED <<kb, index>>
  BY <1>8 DEF Load, Select, AuditAll, Prepare, Leave
<1> QED
  BY <1>1, <1>2, <1>3, <1>4, <1>5, <1>6, <1>7, <1>8 DEF Next

LEMMA DiskFrame ==
  ASSUME TypeOK, TypeOK', DiskInv, IndexesSound', Later(kb, kb'), Kept(index, index'),
         UNCHANGED manifest
  PROVE  DiskInv'
<1>1. manifest \in Manifest /\ kb \in [Doc -> Rev] /\ kb' \in [Doc -> Rev]
  BY DEF TypeOK
<1>2. BoundIn(manifest, index')
  BY <1>1, BoundKept DEF DiskInv
<1>3. Behind(manifest, kb')
  BY <1>1, BehindLater DEF DiskInv
<1> QED
  BY <1>2, <1>3 DEF DiskInv

LEMMA UpdaterFrame ==
  ASSUME TypeOK, TypeOK', NEW u \in Updater, UpdaterInv(u),
         Later(kb, kb'), Kept(index, index'),
         upc'[u] = upc[u], request'[u] = request[u], base'[u] = base[u],
         proposed'[u] = proposed[u], todo'[u] = todo[u], seen'[u] = seen[u],
         alone'[u] => alone[u] /\ UNCHANGED manifest
  PROVE  UpdaterInv(u)'
<1>1. /\ base[u] \in Manifest /\ proposed[u] \in Manifest /\ seen[u] \in [Doc -> Rev]
      /\ kb \in [Doc -> Rev] /\ kb' \in [Doc -> Rev]
  BY DEF TypeOK
<1>2. BoundIn(base[u], index') /\ BoundIn(proposed[u], index')
  BY <1>1, BoundKept DEF UpdaterInv
<1>3. Behind(base[u], kb')
  BY <1>1, BehindLater DEF UpdaterInv
<1>4. Later(seen[u], kb')
  BY <1>1, LaterTransitive DEF UpdaterInv
<1> QED
  BY <1>2, <1>3, <1>4 DEF UpdaterInv

LEMMA ReaderFrame ==
  ASSUME TypeOK, TypeOK', NEW r \in Reader, ReaderInv(r),
         Later(kb, kb'), Kept(index, index'),
         rpc'[r] = rpc[r], mine'[r] = mine[r], selected'[r] = selected[r],
         rows'[r] = rows[r], todo'[r] = todo[r], seen'[r] = seen[r]
  PROVE  ReaderInv(r)'
<1>1. /\ mine[r] \in Manifest /\ seen[r] \in [Doc -> Rev]
      /\ kb \in [Doc -> Rev] /\ kb' \in [Doc -> Rev]
  BY DEF TypeOK
<1>2. BoundIn(mine[r], index')
  BY <1>1, BoundKept DEF ReaderInv
<1>3. Later(seen[r], kb')
  BY <1>1, LaterTransitive DEF ReaderInv
<1> QED
  BY <1>2, <1>3 DEF ReaderInv

-----------------------------------------------------------------------------
(* The invariant, process by process.                                      *)

LEMMA Empty ==
  \A ix, k : BoundIn(Nobody, ix) /\ Behind(Nobody, k)
BY Values DEF BoundIn, Behind

LEMMA StartIsFirst == \A k \in [Doc -> Rev] : Later(Start, k)
BY CorpusAssumption DEF Later, Start, Rev

LEMMA InitCorpusInv == Init => CorpusInv
<1> SUFFICES ASSUME Init PROVE CorpusInv
  OBVIOUS
<1>1. TypeOK
  BY InitType
<1>2. BoundIn(manifest, index)
  BY FirstAssumption DEF Init, BoundIn, Registered
<1>3. Behind(manifest, kb)
  BY FirstAssumption DEF Init, Behind, Start, Registered
<1>4. IndexesSound
  <2>1. ASSUME NEW p \in IndexPath PROVE FirstIndexes[p].hash = FirstIndexes[p].rows
    <3>1. FirstIndexes[p] \in {NoIndex} \cup {x \in Index : x.hash = 1 /\ x.rows = 1}
      BY FirstAssumption
    <3>2. NoIndex.hash = 0 /\ NoIndex.rows = 0
      BY DEF NoIndex
    <3> QED
      BY <3>1, <3>2
  <2>2. ASSUME NEW i \in Indexer PROVE draft[i].hash = draft[i].rows
    BY Values DEF Init
  <2> QED
    BY <2>1, <2>2 DEF Init, IndexesSound
<1>5. ASSUME NEW u \in Updater PROVE UpdaterInv(u)
  BY <1>1, Empty, StartIsFirst, Values DEF Init, UpdaterInv, TypeOK
<1>6. ASSUME NEW r \in Reader PROVE ReaderInv(r)
  BY <1>1, Empty, StartIsFirst, Values DEF Init, ReaderInv, TypeOK
<1> QED
  BY <1>1, <1>2, <1>3, <1>4, <1>5, <1>6 DEF CorpusInv, DiskInv

-----------------------------------------------------------------------------
(* Steps.  Each lemma says what a step of one kind leaves of everything.   *)

\* Files, policy and indexes change under the other processes.
LEMMA FilesInv ==
  ASSUME CorpusInv, TypeOK', Later(kb, kb'), Kept(index, index'),
         \/ \E d \in Doc : BeginWrite(d) \/ EndWrite(d)
         \/ \E p \in Policies : Review(p)
  PROVE  CorpusInv'
<1>1. UNCHANGED <<index, manifest, updaterVars, indexerVars, readerVars, todo, seen>>
  BY DEF BeginWrite, EndWrite, Review
<1>2. IndexesSound'
  BY <1>1 DEF CorpusInv, DiskInv, IndexesSound, indexerVars
<1>3. DiskInv'
  BY <1>1, <1>2, DiskFrame DEF CorpusInv
<1>4. ASSUME NEW u \in Updater PROVE UpdaterInv(u)'
  BY <1>1, UpdaterFrame DEF CorpusInv, updaterVars
<1>5. ASSUME NEW r \in Reader PROVE ReaderInv(r)'
  BY <1>1, ReaderFrame DEF CorpusInv, readerVars
<1> QED
  BY <1>3, <1>4, <1>5 DEF CorpusInv

LEMMA IndexerInv ==
  ASSUME CorpusInv, TypeOK', Later(kb, kb'), Kept(index, index'), NEW i \in Indexer,
         \/ \E d \in Doc, p \in IndexPath : StartIndex(i, d, p)
         \/ ReadKb(i) \/ Publish(i) \/ AbandonIndex(i)
  PROVE  CorpusInv'
<1>1. UNCHANGED <<manifest, updaterVars, readerVars, todo, seen>>
  BY DEF StartIndex, ReadKb, Publish, AbandonIndex
<1>2. IndexesSound'
  <2> USE DEF CorpusInv, DiskInv, IndexesSound, TypeOK, indexerVars, ForgetIndex
  <2>1. ASSUME NEW d \in Doc, NEW p \in IndexPath, StartIndex(i, d, p) PROVE IndexesSound'
    <3>1. draft[i] \in Index
      OBVIOUS
    <3>2. /\ [draft[i] EXCEPT !.doc = d].hash = draft[i].hash
          /\ [draft[i] EXCEPT !.doc = d].rows = draft[i].rows
      BY <3>1 DEF Index
    <3> QED
      BY <2>1, <3>2 DEF StartIndex
  <2>2. ASSUME ReadKb(i) PROVE IndexesSound'
    BY <2>2 DEF ReadKb
  <2>3. ASSUME Publish(i) PROVE IndexesSound'
    BY <2>3, Values DEF Publish
  <2>4. ASSUME AbandonIndex(i) PROVE IndexesSound'
    BY <2>4, Values DEF AbandonIndex
  <2> QED
    BY <2>1, <2>2, <2>3, <2>4
<1>3. DiskInv'
  BY <1>1, <1>2, DiskFrame DEF CorpusInv
<1>4. ASSUME NEW u \in Updater PROVE UpdaterInv(u)'
  BY <1>1, UpdaterFrame DEF CorpusInv, updaterVars
<1>5. ASSUME NEW r \in Reader PROVE ReaderInv(r)'
  BY <1>1, ReaderFrame DEF CorpusInv, readerVars
<1> QED
  BY <1>3, <1>4, <1>5 DEF CorpusInv

\* A stage file lists the candidate as it was read, and the rest as in base.
LEMMA StageInv ==
  ASSUME CorpusInv, TypeOK', NEW u \in Updater, Stage(u), Later(kb, kb'), Kept(index, index')
  PROVE  UpdaterInv(u)'
<1> DEFINE r == request[u]
           e == [rev |-> kb[r.doc], path |-> r.path]
           new == Derived(base[u], r, e)
<1>1. /\ r \in Request /\ r.doc \in Doc /\ r.path \in Path /\ base[u] \in Manifest
      /\ kb \in [Doc -> Rev] /\ index \in [IndexPath -> Index \cup {NoIndex}]
  BY DEF CorpusInv, TypeOK, Request, Path
<1>2. /\ proposed'[u] = new /\ seen'[u] = kb /\ todo'[u] = Registered(new)
      /\ upc'[u] = "reaudit"
      /\ UNCHANGED <<kb, index, manifest, request, base, alone>>
  BY DEF Stage, CorpusInv, TypeOK, kbVars
<1>3. Buildable(r.doc, r.path)
  BY DEF Stage
<1>4. kb[r.doc] \in Nat \ {0}
  <2>1. \A d \in Doc : kb[d] \in Nat \ {0}
    BY <1>1, CorpusAssumption DEF Rev
  <2> QED
    BY <1>1, <2>1
<1>5. e \in Entry /\ e.rev = kb[r.doc] /\ e.path = r.path
  BY <1>1 DEF Entry
<1>6. new \in Manifest
  BY <1>1, <1>5, DerivedType
<1>7. \A d \in Doc \ {r.doc, r.target} : new[d] = base[u][d]
  BY DEF Derived
<1>8. \A d \in Registered(new) : (d = r.doc /\ new[d] = e) \/ (d \in Registered(base[u]) /\ new[d] = base[u][d])
  BY DEF Derived, Registered
<1>9. BoundIn(base[u], index) /\ Behind(base[u], kb) /\ IndexesSound
  BY DEF CorpusInv, UpdaterInv, DiskInv
<1>10. r.path # NoPath => index[r.path] = [doc |-> r.doc, hash |-> e.rev, rows |-> e.rev]
  <2> SUFFICES ASSUME r.path # NoPath
               PROVE  index[r.path] = [doc |-> r.doc, hash |-> e.rev, rows |-> e.rev]
    OBVIOUS
  <2>1. r.path \in IndexPath /\ index[r.path].doc = r.doc /\ index[r.path].hash = kb[r.doc]
    BY <1>1, <1>3 DEF Path, Buildable
  <2>2. index[r.path].rows = kb[r.doc]
    BY <2>1, <1>9 DEF IndexesSound
  <2>3. kb[r.doc] # 0
    BY <1>4
  <2>4. index[r.path] \in Index
    BY <1>1, <2>1, <2>3 DEF NoIndex
  <2> QED
    BY <1>5, <2>1, <2>2, <2>4 DEF Index
<1>11. BoundIn(new, index)
  BY <1>5, <1>8, <1>9, <1>10 DEF BoundIn
<1>12. Behind(new, kb)
  <2>1. kb[r.doc] <= kb[r.doc]
    <3> HIDE DEF r
    <3> QED
      BY <1>4
  <2> QED
    BY <2>1, <1>5, <1>8, <1>9 DEF Behind
<1>13. Later(kb, kb)
  BY <1>1, CorpusAssumption DEF Later, Rev
<1>14. Agree(new, kb, Registered(new))
  BY DEF Agree
<1> HIDE DEF new
<1> QED
  BY <1>2, <1>7, <1>9, <1>11, <1>12, <1>13, <1>14 DEF UpdaterInv, CorpusInv

LEMMA UpdaterStepInv ==
  ASSUME CorpusInv, TypeOK', Later(kb, kb'), Kept(index, index'), NEW u \in Updater,
         \/ \E r \in Requests : ReadManifest(u, r)
         \/ Audit(u) \/ Stage(u) \/ Compare(u) \/ Replace(u) \/ RefuseUpdate(u)
  PROVE  CorpusInv'
<1> USE DEF CorpusInv, kbVars, indexerVars, readerVars
<1>1. UNCHANGED <<kb, index, policy, indexerVars, readerVars>>
  BY DEF ReadManifest, Audit, Stage, Compare, Replace, RefuseUpdate
<1>2. IndexesSound'
  BY <1>1 DEF DiskInv, IndexesSound
<1>3. ASSUME NEW r \in Reader PROVE todo'[r] = todo[r] /\ seen'[r] = seen[r]
  <2>1. r # u
    BY CorpusAssumption
  <2> QED
    BY <2>1 DEF ReadManifest, Audit, Stage, Compare, Replace, RefuseUpdate, ForgetUpdate,
                TypeOK
<1>4. ASSUME NEW r \in Reader PROVE ReaderInv(r)'
  BY <1>1, <1>3, ReaderFrame
<1>5. ASSUME NEW v \in Updater, v # u PROVE UpdaterInv(v)'
  <2>1. /\ upc'[v] = upc[v] /\ request'[v] = request[v] /\ base'[v] = base[v]
        /\ proposed'[v] = proposed[v] /\ todo'[v] = todo[v] /\ seen'[v] = seen[v]
        /\ alone'[v] => alone[v] /\ UNCHANGED manifest
    BY <1>5 DEF ReadManifest, Audit, Stage, Compare, Replace, RefuseUpdate, ForgetUpdate,
                TypeOK, updaterVars
  <2> QED
    BY <2>1, UpdaterFrame
<1>6. manifest \in Manifest /\ kb \in [Doc -> Rev] /\ proposed[u] \in Manifest /\ seen[u] \in [Doc -> Rev]
  BY DEF TypeOK
<1>7. DiskInv'
  <2>1. CASE Replace(u)
    <3>1. manifest' = proposed[u]
      BY <2>1 DEF Replace
    <3>2. BoundIn(proposed[u], index)
      BY DEF UpdaterInv
    <3>3. Behind(proposed[u], kb)
      BY <1>6, BehindLater DEF UpdaterInv
    <3> QED
      BY <1>1, <1>2, <3>1, <3>2, <3>3 DEF DiskInv
  <2>2. CASE ~ Replace(u)
    <3>1. UNCHANGED manifest
      BY <2>2 DEF ReadManifest, Audit, Stage, Compare, RefuseUpdate
    <3> QED
      BY <1>2, <3>1, DiskFrame
  <2> QED
    BY <2>1, <2>2
<1>8. UpdaterInv(u)'
  <2>0. UpdaterInv(u) /\ DiskInv
    OBVIOUS
  <2>1. ASSUME NEW r \in Requests, ReadManifest(u, r) PROVE UpdaterInv(u)'
    <3>1. /\ base'[u] = manifest /\ upc'[u] = "audit"
          /\ UNCHANGED <<kb, index, manifest, proposed, seen, alone>>
      BY <2>1 DEF ReadManifest, TypeOK
    <3> QED
      BY <2>0, <3>1 DEF UpdaterInv, DiskInv
  <2>2. ASSUME Audit(u) PROVE UpdaterInv(u)'
    <3> PICK d \in NextDoc(u) : Exact(Audited(u), d) /\ todo' = [todo EXCEPT ![u] = @ \ {d}]
      BY <2>2 DEF Audit
    <3>1. todo'[u] = todo[u] \ {d} /\ UNCHANGED <<kb, index, manifest, updaterVars, seen>>
      BY <2>2 DEF Audit, TypeOK
    <3>2. upc[u] \in {"audit", "reaudit"}
      BY <2>2 DEF Audit
    <3>3. upc[u] = "reaudit" /\ d \in Registered(proposed[u]) => proposed[u][d].rev = seen[u][d]
      BY <1>6, <2>0, Squeeze DEF UpdaterInv, Exact, Audited
    <3> QED
      BY <2>0, <3>1, <3>2, <3>3 DEF UpdaterInv, Agree, updaterVars
  <2>3. ASSUME Stage(u) PROVE UpdaterInv(u)'
    BY <2>3, StageInv
  <2>4. ASSUME Compare(u) PROVE UpdaterInv(u)'
    <3>1. /\ upc[u] = "reaudit" /\ todo[u] = {} /\ manifest = base[u] /\ upc'[u] = "replace"
          /\ UNCHANGED <<kb, index, manifest, request, base, proposed, todo, seen>>
      BY <2>4 DEF Compare, TypeOK
    <3> QED
      BY <2>0, <3>1 DEF UpdaterInv
  <2>5. ASSUME Replace(u) \/ RefuseUpdate(u) PROVE UpdaterInv(u)'
    <3>1. /\ upc'[u] = "idle" /\ base'[u] = Nobody /\ proposed'[u] = Nobody
          /\ seen'[u] = Start /\ ~ alone'[u] /\ kb' \in [Doc -> Rev]
      BY <2>5 DEF Replace, RefuseUpdate, ForgetUpdate, TypeOK
    <3> QED
      BY <3>1, Empty, StartIsFirst DEF UpdaterInv
  <2> QED
    BY <2>1, <2>2, <2>3, <2>4, <2>5
<1> QED
  BY <1>4, <1>5, <1>7, <1>8

LEMMA ReaderStepInv ==
  ASSUME CorpusInv, TypeOK', Later(kb, kb'), Kept(index, index'), NEW r \in Reader,
         \/ \E s \in Selections : Load(r, s)
         \/ Select(r) \/ AuditAll(r) \/ Prepare(r) \/ Leave(r)
  PROVE  CorpusInv'
<1> USE DEF CorpusInv, kbVars, indexerVars, updaterVars
<1>1. UNCHANGED <<kb, index, manifest, updaterVars, indexerVars>>
  BY DEF Load, Select, AuditAll, Prepare, Leave
<1>2. IndexesSound'
  BY <1>1 DEF DiskInv, IndexesSound
<1>3. DiskInv'
  BY <1>1, <1>2, DiskFrame
<1>4. ASSUME NEW u \in Updater PROVE UpdaterInv(u)'
  <2>1. u # r
    BY CorpusAssumption
  <2>2. todo'[u] = todo[u] /\ seen'[u] = seen[u]
    BY <2>1 DEF Load, Select, AuditAll, Prepare, Leave, TypeOK
  <2> QED
    BY <1>1, <2>2, UpdaterFrame
<1>5. ASSUME NEW q \in Reader, q # r PROVE ReaderInv(q)'
  <2>1. /\ rpc'[q] = rpc[q] /\ mine'[q] = mine[q] /\ selected'[q] = selected[q]
        /\ rows'[q] = rows[q] /\ todo'[q] = todo[q] /\ seen'[q] = seen[q]
    BY <1>5 DEF Load, Select, AuditAll, Prepare, Leave, TypeOK
  <2> QED
    BY <2>1, ReaderFrame
<1>6. /\ mine[r] \in Manifest /\ kb \in [Doc -> Rev] /\ seen[r] \in [Doc -> Rev]
      /\ Later(kb, kb) /\ ReaderInv(r)
  BY CorpusAssumption DEF TypeOK, Later, Rev
<1>7. ReaderInv(r)'
  <2>1. ASSUME NEW s \in Selections, Load(r, s) PROVE ReaderInv(r)'
    <3>1. mine'[r] = manifest /\ seen'[r] = kb /\ rpc'[r] = "select"
      BY <2>1 DEF Load, TypeOK
    <3> QED
      BY <1>1, <1>6, <3>1 DEF ReaderInv, DiskInv
  <2>2. ASSUME Select(r) PROVE ReaderInv(r)'
    <3> DEFINE chosen == Matches(selection[r], policy, mine[r])
    <3>1. chosen \subseteq Registered(mine[r])
      BY DEF Matches
    <3> HIDE DEF chosen
    <3>2. /\ selected' = [selected EXCEPT ![r] = chosen] /\ UNCHANGED <<mine, rows, seen>>
          /\ todo' = [todo EXCEPT ![r] = Registered(mine[r])]
          /\ rpc' = [rpc EXCEPT ![r] = "audit"]
      BY <2>2 DEF Select, chosen
    <3>3. selected'[r] = chosen /\ todo'[r] = Registered(mine[r]) /\ rpc'[r] = "audit"
      BY <3>2 DEF TypeOK
    <3> QED
      BY <1>1, <1>6, <3>1, <3>2, <3>3 DEF ReaderInv, Agree
  <2>3. ASSUME AuditAll(r) PROVE ReaderInv(r)'
    <3>0. rpc[r] = "audit" /\ UNCHANGED <<mine, selected, rows, seen>>
      BY <2>3 DEF AuditAll
    <3>1. CASE todo[r] = {}
      <4>1. rpc' = [rpc EXCEPT ![r] = "prepare"] /\ todo' = [todo EXCEPT ![r] = selected[r]]
        BY <2>3, <3>1 DEF AuditAll
      <4>2. rpc'[r] = "prepare" /\ todo'[r] = selected[r]
        BY <4>1 DEF TypeOK
      <4> QED
        BY <1>1, <1>6, <3>0, <3>1, <4>2 DEF ReaderInv
    <3>2. CASE todo[r] # {}
      <4> PICK d \in NextDoc(r) : Exact(mine[r], d) /\ todo' = [todo EXCEPT ![r] = @ \ {d}]
        BY <2>3, <3>2 DEF AuditAll
      <4>1. todo'[r] = todo[r] \ {d} /\ UNCHANGED rpc
        BY <2>3, <3>2 DEF AuditAll, TypeOK
      <4>2. d \in Registered(mine[r]) => mine[r][d].rev = seen[r][d]
        BY <1>6, Squeeze DEF ReaderInv, Exact
      <4> QED
        BY <1>1, <1>6, <3>0, <4>1, <4>2 DEF ReaderInv, Agree
    <3> QED
      BY <3>1, <3>2
  <2>4. ASSUME Prepare(r) PROVE ReaderInv(r)'
    <3>0. rpc[r] = "prepare" /\ UNCHANGED <<mine, selected, seen>>
      BY <2>4 DEF Prepare
    <3>1. CASE todo[r] = {}
      <4>1. rpc'[r] = "ready" /\ UNCHANGED <<rows, todo>>
        BY <2>4, <3>1 DEF Prepare, TypeOK
      <4> QED
        BY <1>1, <1>6, <3>0, <3>1, <4>1 DEF ReaderInv
    <3>2. CASE todo[r] # {}
      <4> PICK d \in NextDoc(r) :
             LET found == index[mine[r][d].path] IN
             /\ Exact(mine[r], d) /\ found.rows = kb[d]
             /\ rows' = [rows EXCEPT ![r][d] = found.rows]
             /\ todo' = [todo EXCEPT ![r] = @ \ {d}]
        BY <2>4, <3>2 DEF Prepare
      <4>1. todo'[r] = todo[r] \ {d} /\ UNCHANGED rpc
        BY <2>4, <3>2 DEF Prepare, TypeOK
      <4>2. d \in Registered(mine[r]) => mine[r][d].rev = seen[r][d] /\ kb[d] = mine[r][d].rev
        BY <1>6, Squeeze DEF ReaderInv, Exact
      <4>3. rows'[r][d] = kb[d] /\ \A c \in Doc \ {d} : rows'[r][c] = rows[r][c]
        BY DEF TypeOK, NextDoc
      <4>4. selected[r] \subseteq Registered(mine[r]) /\ selected[r] \subseteq Doc
        BY <1>6, <3>0 DEF ReaderInv, TypeOK
      <4>5. \A c \in selected[r] \ todo'[r] : rows'[r][c] = seen[r][c]
        BY <1>6, <3>0, <4>1, <4>2, <4>3, <4>4 DEF ReaderInv
      <4> QED
        BY <1>1, <1>6, <3>0, <4>1, <4>5 DEF ReaderInv
    <3> QED
      BY <3>1, <3>2
  <2>5. ASSUME Leave(r) PROVE ReaderInv(r)'
    <3>1. /\ rpc'[r] = "idle" /\ mine'[r] = Nobody /\ seen'[r] = Start /\ kb' \in [Doc -> Rev]
      BY <2>5 DEF Leave, TypeOK
    <3> QED
      BY <3>1, Empty, StartIsFirst DEF ReaderInv
  <2> QED
    BY <2>1, <2>2, <2>3, <2>4, <2>5
<1> QED
  BY <1>3, <1>4, <1>5, <1>7

LEMMA NextCorpusInv == CorpusInv /\ [Next]_vars => CorpusInv'
<1> SUFFICES ASSUME CorpusInv, [Next]_vars PROVE CorpusInv'
  OBVIOUS
<1>1. CASE UNCHANGED vars
  BY <1>1 DEF vars, kbVars, updaterVars, indexerVars, readerVars, CorpusInv, TypeOK,
              DiskInv, IndexesSound, BoundIn, Behind, UpdaterInv, ReaderInv, Later, Agree
<1>2. CASE Next
  <2>1. TypeOK' /\ Later(kb, kb') /\ Kept(index, index')
    BY <1>2, NextType, Growth DEF CorpusInv
  <2> QED
    BY <1>2, <2>1, FilesInv, IndexerInv, UpdaterStepInv, ReaderStepInv DEF Next
<1> QED
  BY <1>1, <1>2

-----------------------------------------------------------------------------
(* What follows.                                                           *)

LEMMA CorpusInvariant == Spec => []CorpusInv
BY InitCorpusInv, NextCorpusInv, PTL DEF Spec

\* An index the manifest lists is of the document and the KB listed with it,
\* whatever indexers and writers do meanwhile.
THEOREM RegisteredIndexesBound == Spec => []EntriesBound
<1>1. CorpusInv => EntriesBound
  BY DEF CorpusInv, DiskInv, BoundIn, EntriesBound
<1> QED
  BY <1>1, CorpusInvariant, PTL

\* A manifest about to be activated was true as a whole when it was staged.
THEOREM ActivatedWasTrue == Spec => []TrueWhenStaged
<1>1. CorpusInv => TrueWhenStaged
  BY DEF CorpusInv, UpdaterInv, Agree, TrueWhenStaged
<1> QED
  BY <1>1, CorpusInvariant, PTL

\* A query that comes to search does so over the corpus of one moment.
THEOREM QueriesSeeOneMoment == Spec => []SnapshotConsistent
<1>1. CorpusInv => SnapshotConsistent
  BY DEF CorpusInv, ReaderInv, Agree, SnapshotConsistent
<1> QED
  BY <1>1, CorpusInvariant, PTL

\* An activation no other one came between changes what its request names.
THEOREM UpdatesCompose == Spec => UpdatesApplyToCurrent
<1> DEFINE Kind == \A u \in Updater : Replace(u) /\ alone[u] =>
             \A d \in Doc \ {request[u].doc, request[u].target} : manifest'[d] = manifest[d]
<1>1. CorpusInv /\ [Next]_vars => [Kind]_vars
  BY DEF CorpusInv, UpdaterInv, Replace
<1> QED
  BY <1>1, CorpusInvariant, PTL DEF Spec, UpdatesApplyToCurrent

=============================================================================
