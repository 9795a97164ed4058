--------------------------- MODULE ReviewedImport ---------------------------
(***************************************************************************)
(* reviewed_source_evidence.py and reviewed_fragment_import.py: a seed of  *)
(* hand-made transcriptions, bound to the official PDFs, is mapped to a    *)
(* candidate: one KB per source, the lineage of every fact, a manifest.    *)
(* Candidates are directories named by what they were built from; several  *)
(* publishers put them in place by one rename and reuse what is there.     *)
(*                                                                         *)
(* A reviewed file has a name that stands for its digest: files of         *)
(* different names have different bytes.  A generated file is its value.   *)
(* Lists keyed by an ID are functions here; a list that repeats an ID is   *)
(* refused before anything else happens.                                   *)
(***************************************************************************)
EXTENDS Naturals, FiniteSets, Sequences, Functions

CONSTANTS
  Seeds, Manifests, Contracts, Configs,  \* [name -> content] of the reviewed files
  Inputs,        \* [seed, manifest, contract, config, trust] to build from
  PdfPages,      \* [PDF -> its number of pages; 0: not a readable PDF]
  PdfAt,         \* [source -> PDFs that may lie under its name]
  Publisher,
  MaxPublishes, MaxDamages,   \* bounds: calls of publish_candidate, files replaced by hand
  Absent

-----------------------------------------------------------------------------
(* Loading.                                                                *)

\* Bundle.check_graph: topics partition the records, a record requires each
\* of its fragments, and relations stay within a topic.
SeedOk(b) ==
  LET Rec == DOMAIN b.records
  IN /\ \A t \in DOMAIN b.topics : \A r \in Range(b.topics[t]) : r \in Rec /\ b.records[r].topic = t
     /\ \A r \in Rec :
          LET record == b.records[r]
          IN /\ record.topic \in DOMAIN b.topics /\ r \in Range(b.topics[record.topic])
             /\ record.source \in b.required /\ record.review \in b.reviews
             /\ Range(record.required) = DOMAIN record.fragments /\ IsInjective(record.required)
     /\ \A r, s \in Rec : r # s => DOMAIN b.records[r].fragments \cap DOMAIN b.records[s].fragments = {}
     /\ \A x \in b.relations : /\ {x.from, x.to} \subseteq Rec
                               /\ b.records[x.from].topic = b.records[x.to].topic

\* load_evidence_bytes: the seed is the pinned one, and agrees with the
\* manifest of the sources and with the contract of the target.
LoadEvidence(i) ==
  \E b \in {Seeds[i.seed]}, m \in {Manifests[i.manifest]}, c \in {Contracts[i.contract]} :
     /\ i.seed = i.trust.seed /\ SeedOk(b)
     /\ b.id = i.trust.id /\ b.revision = i.trust.revision
     /\ b.manifest = i.manifest /\ b.contract = i.contract
     /\ c.target = b.target /\ c.sourceSet = b.sourceSet
     /\ DOMAIN c.members = DOMAIN m
     /\ \A s \in DOMAIN m : c.members[s].pdf = m[s].pdf /\ c.members[s].pages = m[s].pages
     /\ b.required = {s \in DOMAIN m : c.members[s].core}
     /\ \A r \in DOMAIN b.records :
          LET record == b.records[r]
          IN record.pdf = m[record.source].pdf /\ record.page <= m[record.source].pages

\* load_inputs: so do the identities that the KBs will carry.
LoadInputs(i) ==
  \E b \in {Seeds[i.seed]}, c \in {Contracts[i.contract]}, g \in {Configs[i.config]} :
     /\ i.config = i.trust.config /\ LoadEvidence(i)
     /\ g.id = b.id /\ g.revision = b.revision /\ g.seed = i.seed
     /\ g.target = b.target /\ g.sourceSet = b.sourceSet
     /\ DOMAIN g.documents = b.required
     /\ \A s \in b.required :
          LET identity == g.documents[s]
          IN /\ identity.document = s /\ identity.institution = b.target.institution
             /\ identity.pdf = Manifests[i.manifest][s].pdf
             /\ identity.edition = c.members[s].edition

\* inspect_evidence, of one topic: its records, with the relations that leave them.
Preview(b, t) ==
  [records |-> Range(b.topics[t]), relations |-> {x \in b.relations : x.from \in Range(b.topics[t])}]

-----------------------------------------------------------------------------
(* map_candidate: the files are a function of the inputs.                  *)

\* input_descriptor, whose digest is the build ID.
Build(i) == [seed |-> i.seed, manifest |-> i.manifest, contract |-> i.contract, config |-> i.config]
Builds == {Build(i) : i \in Inputs}

FragmentsOf(b, s) ==
  UNION {{<<r, f>> : f \in DOMAIN b.records[r].fragments} : r \in {r \in DOMAIN b.records : b.records[r].source = s}}
FactId(b, s, r, f) == <<s, r, b.records[r].revision, f>>

Facts(b, s) ==
  [id \in {FactId(b, s, x[1], x[2]) : x \in FragmentsOf(b, s)} |->
     LET record == b.records[id[2]]  fragment == record.fragments[id[4]]
     IN [text |-> fragment.text, role |-> fragment.role, fragment |-> id[4],
         record |-> id[2], revision |-> id[3], pages |-> <<record.page>>]]

Kb(build, s) ==
  [identity |-> Configs[build.config].documents[s], facts |-> Facts(Seeds[build.seed], s)]
Qualified(build, s, r, f) ==
  [document |-> s, kb |-> Kb(build, s), fact |-> FactId(Seeds[build.seed], s, r, f)]

LineageRecord(build, r, record) ==
  [topic |-> record.topic, source |-> record.source, revision |-> record.revision,
   pdf |-> record.pdf, page |-> record.page, anchor |-> record.anchor,
   review |-> record.review, required |-> record.required,
   fragments |-> [f \in DOMAIN record.fragments |->
      [role |-> record.fragments[f].role, fact |-> Qualified(build, record.source, r, f)]]]

Required(records, r) ==
  [k \in DOMAIN records[r].required |-> records[r].fragments[records[r].required[k]].fact]

LineageRelations(b, rows) ==
  {[from |-> x.from, kind |-> x.kind, to |-> x.to,
    fromFacts |-> Required(rows, x.from), toFacts |-> Required(rows, x.to)] : x \in b.relations}

LineageWith(build, b, g, rows) ==
  [build |-> build, target |-> g.target, sourceSet |-> g.sourceSet,
   documents |-> [s \in DOMAIN g.documents |->
      [identity |-> g.documents[s], kb |-> Kb(build, s), count |-> Cardinality(DOMAIN Facts(b, s))]],
   records |-> rows, relations |-> LineageRelations(b, rows)]
Lineage(build) ==
  LET b == Seeds[build.seed]
  IN LineageWith(build, b, Configs[build.config], [r \in DOMAIN b.records |-> LineageRecord(build, r, b.records[r])])

\* Lineage.check_ids_and_context
LineageOk(l) ==
  /\ \A r \in DOMAIN l.records :
       LET row == l.records[r]  document == l.documents[row.source]
       IN /\ row.source \in DOMAIN l.documents /\ row.pdf = document.identity.pdf
          /\ Range(row.required) = DOMAIN row.fragments /\ IsInjective(row.required)
          /\ \A f \in DOMAIN row.fragments :
               LET fact == row.fragments[f].fact
               IN /\ fact.document = document.identity.document /\ fact.kb = document.kb
                  /\ fact.fact = <<row.source, r, row.revision, f>>
  /\ \A x \in l.relations :
       /\ {x.from, x.to} \subseteq DOMAIN l.records
       /\ l.records[x.from].topic = l.records[x.to].topic
       /\ x.fromFacts = Required(l.records, x.from) /\ x.toFacts = Required(l.records, x.to)

\* No fragment is blank, and no KB passes the gates of a production KB: one
\* without any fact would, so that each source must have a record.
Mappable(build) ==
  /\ \E b \in {Seeds[build.seed]} :
       /\ \A s \in b.required : FragmentsOf(b, s) # {}
       /\ \A r \in DOMAIN b.records : \A f \in DOMAIN b.records[r].fragments :
            b.records[r].fragments[f].text # "blank"
  /\ LineageOk(Lineage(build))

CandidateManifest(build) ==
  [build |-> build, lineage |-> Lineage(build),
   documents |-> [s \in Seeds[build.seed].required |-> Kb(build, s)]]

File(build) == {"candidate.json", "lineage.json"} \cup Seeds[build.seed].required
MapCandidate(build) ==
  [f \in File(build) |-> IF f = "candidate.json" THEN CandidateManifest(build)
                         ELSE IF f = "lineage.json" THEN Lineage(build) ELSE Kb(build, f)]

\* What can be built at all, and its files, computed once.
Good == {b \in Builds : (\E i \in Inputs : Build(i) = b /\ LoadInputs(i)) /\ Mappable(b)}
Generated == [b \in Good |-> MapCandidate(b)]

\* read_context: the facts of a record and of all that relations lead to,
\* in either direction.
Linked(l, r) ==
  LET closed == {S \in SUBSET DOMAIN l.records :
                   r \in S /\ \A x \in l.relations : x.from \in S <=> x.to \in S}
  IN {s \in DOMAIN l.records : \A S \in closed : s \in S}
Context(l, r) == UNION {Range(Required(l.records, s)) : s \in Linked(l, r)}

-----------------------------------------------------------------------------
(* Publishing.                                                             *)

VARIABLES
  published,   \* [build -> directory: [file -> build whose bytes it has], or Absent]
  publishing,  \* [publisher -> what it is doing]
  pdfs,        \* [source -> the PDF under its name]
  publishes, damages,
  damaged      \* history: builds of which a file was replaced by hand

importVars == <<published, publishing, pdfs, publishes, damages, damaged>>

NotPublishing == [pc |-> "idle", build |-> Absent, staged |-> {}]

ImportInit ==
  /\ published = [b \in Good |-> Absent]
  /\ publishing = [p \in Publisher |-> NotPublishing]
  /\ pdfs \in [DOMAIN PdfAt -> UNION Range(PdfAt)] /\ \A s \in DOMAIN PdfAt : pdfs[s] \in PdfAt[s]
  /\ publishes = 0 /\ damages = 0 /\ damaged = {}

\* audit_sources: the bytes under each name are the reviewed PDF.
Audited(b, m) == \A s \in b.required : pdfs[s] = m[s].pdf /\ PdfPages[pdfs[s]] = m[s].pages

\* publish_candidate, up to the existence check: refused inputs leave nothing.
BeginPublish(p) ==
  /\ publishing[p].pc \in {"idle", "done", "failed"} /\ publishes < MaxPublishes /\ publishes' = publishes + 1
  /\ \E i \in Inputs :
       /\ Build(i) \in Good /\ LoadInputs(i) /\ Audited(Seeds[i.seed], Manifests[i.manifest])
       /\ publishing' = [publishing EXCEPT ![p] =
            [pc |-> IF published[Build(i)] # Absent THEN "validate" ELSE "stage",
             build |-> Build(i), staged |-> {}]]
  /\ UNCHANGED <<published, pdfs, damages, damaged>>

StageFile(p) ==
  /\ publishing[p].pc = "stage"
  /\ \E f \in File(publishing[p].build) \ publishing[p].staged :
       publishing' = [publishing EXCEPT ![p].staged = @ \cup {f}]
  /\ UNCHANGED <<published, pdfs, publishes, damages, damaged>>

\* The rename fails where a directory is: that of another publisher is used.
PutInPlace(p) ==
  LET b == publishing[p].build
  IN /\ published' = IF published[b] # Absent THEN published
                     ELSE [published EXCEPT ![b] = [f \in publishing[p].staged |-> b]]
     /\ publishing' = [publishing EXCEPT ![p].pc = "validate", ![p].staged = {}]
     /\ UNCHANGED <<pdfs, publishes, damages, damaged>>

\* Mutant: the staged tree is not read again before it is put in place.
RenameUnread(p) == publishing[p].pc = "stage" /\ publishing[p].staged # {} /\ PutInPlace(p)

Rename(p) ==
  /\ publishing[p].pc = "stage" /\ publishing[p].staged = File(publishing[p].build)
  /\ PutInPlace(p)

\* _read_exact_tree: exactly the files of the mapping, with their bytes.
ExactTree(tree, b) ==
  /\ DOMAIN tree = File(b)
  /\ \A f \in File(b) : Generated[tree[f]][f] = Generated[b][f]

Validate(p) ==
  /\ publishing[p].pc = "validate"
  /\ publishing' = [publishing EXCEPT ![p].pc =
       IF ExactTree(published[publishing[p].build], publishing[p].build) THEN "done" ELSE "failed"]
  /\ UNCHANGED <<published, pdfs, publishes, damages, damaged>>

\* A write is refused or the process dies: what was staged is nobody's.
StagingEnds(p) ==
  /\ publishing[p].pc = "stage" /\ publishing' = [publishing EXCEPT ![p] = [NotPublishing EXCEPT !.pc = "failed"]]
  /\ UNCHANGED <<published, pdfs, publishes, damages, damaged>>

\* By hand: a file of a candidate is replaced by that of another, or removed.
Damage(b, f) ==
  /\ damages < MaxDamages /\ damages' = damages + 1
  /\ published[b] # Absent /\ f \in DOMAIN published[b]
  /\ \/ \E c \in Good \ {b} : f \in File(c) /\ published' = [published EXCEPT ![b][f] = c]
     \/ published' = [published EXCEPT ![b] = Restrict(@, DOMAIN @ \ {f})]
  /\ damaged' = damaged \cup {b}
  /\ UNCHANGED <<publishing, pdfs, publishes>>

\* By hand: another edition of a PDF is put under the name.
ReplacePdf(s) ==
  /\ damages < MaxDamages /\ damages' = damages + 1
  /\ \E d \in PdfAt[s] \ {pdfs[s]} : pdfs' = [pdfs EXCEPT ![s] = d]
  /\ UNCHANGED <<published, publishing, publishes, damaged>>

ImportNext ==
  \/ \E p \in Publisher : BeginPublish(p) \/ StageFile(p) \/ Rename(p) \/ Validate(p) \/ StagingEnds(p)
  \/ \E b \in Good : published[b] # Absent /\ \E f \in File(b) : Damage(b, f)
  \/ \E s \in DOMAIN PdfAt : ReplacePdf(s)

-----------------------------------------------------------------------------
(* Properties.                                                             *)

\* Candidates whose previews show both ends of every relation, and in which
\* records linked by relations have one and the same context.
WellLinked ==
  {b \in Good :
     \E l \in {Generated[b]["lineage.json"]}, seed \in {Seeds[b.seed]} :
        /\ \A t \in DOMAIN seed.topics : \A x \in Preview(seed, t).relations :
             x.to \in Preview(seed, t).records
        /\ \A x \in l.relations : Context(l, x.from) = Context(l, x.to)
        /\ \A r \in DOMAIN l.records : \A f \in DOMAIN seed.records[r].fragments :
             \E q \in Context(l, r) : q.kb.facts[q.fact].text = seed.records[r].fragments[f].text}

\* A candidate is either absent or whole, whoever staged, died or raced for
\* it, unless somebody replaced its files; and what is read of it is never
\* a part of what belongs together (publish_candidate 656-680, check_graph
\* 186-195, read_context 722-739).
CandidatesAreWhole ==
  \A b \in Good : published[b] # Absent /\ b \notin damaged => b \in WellLinked /\ ExactTree(published[b], b)
=============================================================================
