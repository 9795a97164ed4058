--------------------------- MODULE EvidenceSearch ---------------------------
(***************************************************************************)
(* From the chunks of a PDF to an evidence pack: the knowledge-base        *)
(* builder (builder/chunk_filter.py, legacy_isct_v1.py,                    *)
(* reference_resolver.py, kb_builder.py) writes a KB per document, the     *)
(* indexer derives its rows, and a search loads index and KB, ranks the    *)
(* rows over both channels, follows references one hop and packs what it   *)
(* found (corpus_search.py, retrieval/*.py, schemas/evidence_pack.py).     *)
(* KBs and indexes may be rebuilt while a search is under way.             *)
(*                                                                         *)
(* Data kept: the parts of a chunk that decide something.  Text is a name, *)
(* similarity a number, BM25 a weight that falls with the rows that hold   *)
(* the term; scores of references are counted in sixtieths.                *)
(***************************************************************************)
EXTENDS Integers, Sequences, FiniteSets, SequencesExt, FiniteSetsExt

CONSTANTS
  Pdfs,       \* possible inputs of a build: names
  Chunks,     \* [Pdfs -> sequence of chunks]
  Requests,   \* searches; `docs` are numbers in the sorted order of their ids
  Providers,  \* embedding identities
  Margin,     \* ambiguity margin, in sixtieths
  Limits,     \* quality thresholds: how many facts of each defect are let through
  DefaultCandidates, \* candidate depth when a request names none
  RrfK, Scale,       \* RRF constant; scores are integers of Scale
  None        \* nothing there: no KB, no index, no target, no context

-----------------------------------------------------------------------------
(* Builder: filter, context, references, quality gate.                     *)

\* The members of S in the order Ahead, a strict total order on S.  (Where
\* SetToSortSeq chooses among all sequences, this counts.)
InOrder(S, Ahead(_, _)) ==
  [k \in 1..Cardinality(S) |->
     CHOOSE x \in S : Cardinality({y \in S : Ahead(y, x)}) = k - 1]

\* Where a chunk that is only a heading goes: the next chunk, else the one
\* before, if it is informative and of the same title and path; else it is dropped.
MergeTarget(cs, i) ==
  LET Takes(j) == /\ j \in DOMAIN cs
                  /\ cs[j].class = "informative"
                  /\ cs[j].title = cs[i].title /\ cs[j].path = cs[i].path
  IN IF Takes(i + 1) THEN i + 1 ELSE IF Takes(i - 1) THEN i - 1 ELSE 0

Headings(cs) == {i \in DOMAIN cs : cs[i].class = "heading_only"}
Merged(cs) == {i \in Headings(cs) : MergeTarget(cs, i) # 0}
Informative(cs) == {i \in DOMAIN cs : cs[i].class = "informative"}

\* The informative chunks in order, each with the pages of its headings.
FilterChunks(cs) ==
  LET kept == InOrder(Informative(cs), <)
  IN [k \in 1..Len(kept) |->
        [cs[kept[k]] EXCEPT !.pages =
           @ \cup UNION {cs[i].pages : i \in {x \in Merged(cs) : MergeTarget(cs, x) = kept[k]}}]]

Dropped(cs) == DOMAIN cs \ (Informative(cs) \cup Merged(cs))

\* The banner in force at each chunk: of a department (or of a program that is
\* one), or the cover of the joint program, which is of no college.  A chunk
\* that ends the context and announces none is outside; one of its own goes first.
ActiveContext(cs) ==
  LET After(active, c) ==
        IF c.banner # None THEN c.banner ELSE IF c.ends THEN None ELSE active
  IN [i \in DOMAIN cs |-> FoldLeft(After, None, SubSeq(cs, 1, i))]

Global == [type |-> "global", targets |-> {}, college |-> None]

\* The joint program goes before everything.  Certain sections and the conversion
\* appendices are for all, whatever department's banner they are under; then the
\* banner goes before what the text names, if the catalogue has its unit.
InferScope(c, context) ==
  LET joint == context # None /\ context.college = None
      banner == [type |-> context.type, targets |-> {context.unit}, college |-> context.college]
  IN IF joint THEN banner
     ELSE IF c.forAll THEN Global
     ELSE IF context # None /\ context.catalogued THEN banner ELSE c.scope

\* A fact is under the headings of its chunk and the banner in force.
PathOf(c, context) == c.path \cup (IF context = None THEN {} ELSE {context.unit})

DirectionOk(i, j, direction) ==
  (direction = "forward" => j > i) /\ (direction = "backward" => j < i)

\* Sixtieths: 1/(distance+1), 0.4 same title, 0.3 a common page, 0.2 same
\* category, 0.5 or -1 for the direction, 0.2 when the title holds the anchor.
CandidateScore(cs, i, j, ref, anchor) ==
  LET Add(condition, points) == IF condition THEN points ELSE 0
      distance == IF i < j THEN j - i ELSE i - j
  IN 60 \div (distance + 1)
     + Add(cs[i].title # None /\ cs[i].title = cs[j].title, 24)
     + Add(cs[i].pages \cap cs[j].pages # {}, 18)
     + Add(cs[i].category = cs[j].category, 12)
     + Add(DirectionOk(i, j, ref.direction), 90) - 60
     + Add(anchor.inTitle, 12)

ScoredTargets(cs, i, ref) ==
  LET Entry(j, a) == [target |-> j, label |-> a.label, score |-> CandidateScore(cs, i, j, ref, a)]
      Named(j) == {a \in cs[j].anchors : a.key = ref.key}
  IN {e \in UNION {{Entry(j, a) : a \in Named(j)} : j \in DOMAIN cs \ {i}} : e.score > 0}

\* Mutant: the candidate that sorts first is taken, however close the next is.
ClaimFirst(cs, i, ref) ==
  LET scored == ScoredTargets(cs, i, ref)
  IN [source |-> i, label |-> ref.label, key |-> ref.key, direction |-> ref.direction,
      candidates |-> {e.target : e \in scored},
      status |-> IF scored = {} THEN "unresolved" ELSE "resolved",
      target |-> IF scored = {} THEN None
                 ELSE (CHOOSE e \in scored : \A f \in scored : e.score >= f.score).target]

\* A reference is resolved when its best candidate beats the next one, of
\* whatever anchor, by more than the margin.
Claim(cs, i, ref) ==
  LET scored == ScoredTargets(cs, i, ref)
      top == IF scored = {} THEN 0 ELSE Max({e.score : e \in scored})
      best == {e \in scored : e.score = top}
      clear == \A e \in scored : \A b \in best : e # b => top - e.score > Margin
  IN [source |-> i, label |-> ref.label, key |-> ref.key, direction |-> ref.direction,
      candidates |-> {e.target : e \in scored},
      status |-> IF scored = {} THEN "unresolved" ELSE IF clear THEN "resolved" ELSE "ambiguous",
      target |-> IF scored # {} /\ clear THEN (CHOOSE e \in best : TRUE).target ELSE None]

\* Claims of each chunk, every distinct reference once, in order of the text.
ClassifyReferenceClaims(cs) ==
  [i \in DOMAIN cs |->
     LET refs == cs[i].refs
         first == InOrder({k \in DOMAIN refs : \A h \in 1..(k - 1) : refs[h] # refs[k]}, <)
     IN [k \in 1..Len(first) |-> Claim(cs, i, refs[first[k]])]]

Fact(c, context) ==
  [text |-> c.text, pages |-> c.pages, path |-> PathOf(c, context), type |-> c.category,
   scope |-> InferScope(c, context), class |-> c.asFact, oversized |-> c.oversized,
   near |-> c.near, terms |-> c.terms]

ClaimsWith(claims, status) ==
  {c \in UNION {{i} \X DOMAIN claims[i] : i \in DOMAIN claims} : claims[c[1]][c[2]].status = status}

\* A limit of None lets any number through.
Within(n, limit) == limit = None \/ n <= limit

\* The facts are classified once more, under a title even where the chunk had
\* none.  A fact over the size limit is explained if it is one table.
QualityGate(facts, claims) ==
  LET Few(Defect(_), limit) == Within(Cardinality({i \in DOMAIN facts : Defect(facts[i])}), limit)
      NoPages(f) == f.pages = {}
      NoPath(f) == f.path = {}
      Noninformative(f) == f.class # "informative"
      Unexplained(f) == f.oversized
      UnknownScope(f) == f.scope.type = "unknown"
  IN /\ Few(NoPages, Limits.pages)
     /\ Few(NoPath, Limits.paths)
     /\ Few(Noninformative, Limits.noninformative)
     /\ Few(Unexplained, Limits.oversized)
     /\ Few(UnknownScope, Limits.unknown)
     /\ Within(Cardinality(ClaimsWith(claims, "unresolved")), Limits.unresolved)
     /\ Within(Cardinality(ClaimsWith(claims, "ambiguous")), Limits.ambiguous)

BuildDocumentKb(pdf) ==
  LET raw == Chunks[pdf]
      cs == FilterChunks(raw)
      context == ActiveContext(cs)
      facts == [i \in DOMAIN cs |-> Fact(cs[i], context[i])]
      claims == ClassifyReferenceClaims(cs)
  IN [facts |-> facts, claims |-> claims, passed |-> QualityGate(facts, claims),
      input |-> Len(raw), dropped |-> Cardinality(Dropped(raw)),
      merged |-> Cardinality(Merged(raw)),
      links |-> Cardinality(ClaimsWith(claims, "resolved"))]

\* The build stops at a chunk that is over the limit and is not one table.
SizesExplained(k) == \A i \in DOMAIN k.facts : ~k.facts[i].oversized

DiagnosticsReconcile(k) ==
  /\ k.input = Len(k.facts) + k.dropped + k.merged
  /\ k.links = Cardinality(ClaimsWith(k.claims, "resolved"))

Kb == [p \in Pdfs |-> BuildDocumentKb(p)]

-----------------------------------------------------------------------------
(* Search: rows <<document, position>> with their facts.                   *)

VARIABLES
  kb,       \* [document -> Pdfs \cup {None}]: the KB files the search may read
  index,    \* [document -> [kb, provider] or None]: their published indexes
  request, stage, refusal,  \* the search
  loaded,   \* [document -> index], loaded so far
  context,  \* [document -> KB], checked against its index so far
  scores,   \* [eligible row -> [near, lexical, boost]]
  result,   \* what the ranking found
  expansion, pack

searchVars == <<kb, index, request, stage, refusal, loaded, context, scores, result, expansion, pack>>

Payload(r) == Kb[loaded[r[1]].kb].facts[r[2]]
Rows == UNION {{d} \X DOMAIN Kb[loaded[d].kb].facts : d \in request.docs}

Before(r, s) == r[1] < s[1] \/ (r[1] = s[1] /\ r[2] < s[2])

\* The best rows that have a score, at most depth of them: higher score first,
\* then row order.
Ranked(score, depth) ==
  LET Ahead(r, s) == score[r] > score[s] \/ (score[r] = score[s] /\ Before(r, s))
      sorted == InOrder(DOMAIN score, Ahead)
  IN SubSeq(sorted, 1, Min({depth, Len(sorted)}))

RankIn(seq, r) == IF \E k \in DOMAIN seq : seq[k] = r
                  THEN CHOOSE k \in DOMAIN seq : seq[k] = r ELSE 0

Matches(f, filter) ==
  /\ filter.types = {} \/ f.type \in filter.types
  /\ filter.scopes = {} \/ f.scope.type \in filter.scopes
  /\ filter.targets = {} \/ f.scope.targets \cap filter.targets # {}
  /\ filter.colleges = {} \/ f.scope.college \in filter.colleges

EligibleRows == {r \in Rows : Matches(Payload(r), request.filter)}

ResolveCandidateDepth(rq) ==
  IF rq.candidates = 0 THEN Max({rq.top, DefaultCandidates}) ELSE rq.candidates

SearchInputAccepted(rq) == rq.candidates = 0 \/ rq.candidates >= rq.top

\* Chunks and requests as the schemas have them (a search of one index names
\* one document), no margin below zero, the gate's default that no fact lacks
\* its pages or its path, a scale fine enough to tell the ranks within the depth
\* apart, as the reciprocals the code adds up do; an informative chunk has text.
ASSUME SearchAssumption ==
  /\ RrfK \in Nat /\ Scale \in Nat /\ DefaultCandidates \in Nat /\ Margin \in Nat
  /\ Limits.pages = 0 /\ Limits.paths = 0 /\ None \notin Nat
  /\ \A p \in Pdfs :
       /\ Chunks[p] \in Seq(Range(Chunks[p]))
       /\ \A c \in Range(Chunks[p]) :
            /\ {"class", "text", "refs", "near", "terms"} \subseteq DOMAIN c
            /\ c.class = "informative" => c.text # ""
            /\ c.refs \in Seq(Range(c.refs))
            /\ \A ref \in Range(c.refs) :
                 ref = [label |-> ref.label, key |-> ref.key, direction |-> ref.direction]
            /\ IsFiniteSet(DOMAIN c.terms) /\ \A t \in DOMAIN c.terms : c.terms[t] \in Nat
            /\ \A rq \in Requests : c.near[rq.query] \in Int
  /\ \A rq \in Requests :
       /\ IsFiniteSet(rq.docs) /\ rq.docs \subseteq Nat
       /\ rq.mode = "corpus" \/ Cardinality(rq.docs) = 1
       /\ rq.top \in Nat /\ rq.candidates \in Nat
       /\ \A n \in 1..ResolveCandidateDepth(rq) : \A m \in 1..(n - 1) :
            Scale \div (RrfK + n) < Scale \div (RrfK + m)

\* Occurrences of the terms of the query, each counted once and once more for
\* every row without the term.  A search of one index counts all its rows, a
\* search of the corpus only the eligible ones.
LexicalScore(r) ==
  LET population == IF request.mode = "corpus" THEN EligibleRows ELSE Rows
      Rarity(t) == Cardinality({s \in population : t \notin DOMAIN Payload(s).terms})
      Counted(t) == {t} \X ((1 .. Payload(r).terms[t]) \X (0 .. Rarity(t)))
  IN Cardinality(UNION {Counted(t) : t \in request.terms \cap DOMAIN Payload(r).terms})

ScopeBoost(f) ==
  (IF f.scope.targets \cap request.prefer.targets # {} THEN Scale \div (RrfK + 1) ELSE 0)
  + (IF f.scope.college \in request.prefer.colleges THEN Scale \div (2 * (RrfK + 1)) ELSE 0)

Scores(eligible) ==
  [r \in eligible |-> [near |-> Payload(r).near[request.query], lexical |-> LexicalScore(r),
                       boost |-> ScopeBoost(Payload(r))]]

VectorCandidates ==
  Ranked([r \in DOMAIN scores |-> scores[r].near], ResolveCandidateDepth(request))

LexicalCandidates ==
  LET matching == {r \in DOMAIN scores : scores[r].lexical > 0}
  IN Ranked([r \in matching |-> scores[r].lexical], ResolveCandidateDepth(request))

\* Mutant: the rank is subtracted from the constant.
RankScoreSwapped(rank) == IF rank = 0 THEN 0 ELSE Scale \div (RrfK - rank)

RankScore(rank) == IF rank = 0 THEN 0 ELSE Scale \div (RrfK + rank)

Fused(r, vector, lexical) ==
  RankScore(RankIn(vector, r)) + RankScore(RankIn(lexical, r)) + scores[r].boost

SearchResult(vector, lexical) ==
  LET candidates == Range(vector) \cup Range(lexical)
      hits == Ranked([r \in candidates |-> Fused(r, vector, lexical)], request.top)
  IN [vector |-> vector, lexical |-> lexical,
      hits |-> [k \in DOMAIN hits |->
                  [row |-> hits[k], score |-> Fused(hits[k], vector, lexical)]],
      counts |-> [d \in request.docs |->
                    Cardinality({k \in DOMAIN hits : hits[k][1] = d})]]

\* What the result checks of itself: both channels are ranked, within the
\* depth and eligible; every hit satisfies the filter and has the score that
\* its ranks and its scope give; the hits fill the requested depth in order.
ChannelAccepted(channel) ==
  /\ IsInjective(channel) /\ Range(channel) \subseteq EligibleRows
  /\ Len(channel) <= ResolveCandidateDepth(request)

HitAccepted(r, res) == RankIn(res.vector, r) # 0 \/ RankIn(res.lexical, r) # 0

ResultReconciles(res) ==
  LET rows == [k \in DOMAIN res.hits |-> res.hits[k].row]
      union == Range(res.vector) \cup Range(res.lexical)
  IN /\ ChannelAccepted(res.vector) /\ ChannelAccepted(res.lexical)
     /\ IsInjective(rows) /\ \A r \in Range(rows) : HitAccepted(r, res)
     /\ Len(rows) = Min({request.top, Cardinality(union)})
     /\ \A k \in DOMAIN rows :
          /\ Matches(Payload(rows[k]), request.filter)
          /\ res.hits[k].score = Fused(rows[k], res.vector, res.lexical)
          /\ k > 1 => \/ res.hits[k].score < res.hits[k - 1].score
                      \/ res.hits[k].score = res.hits[k - 1].score /\ Before(rows[k - 1], rows[k])
     /\ \A d \in request.docs :
          res.counts[d] = Cardinality({k \in DOMAIN rows : rows[k][1] = d})

-----------------------------------------------------------------------------
(* References of the hits, one hop, and the pack.  Only for one document:  *)
(* a fact is its position.                                                 *)

Primaries == [k \in DOMAIN result.hits |-> result.hits[k].row[2]]

\* Mutant: a target that is already a result is attached once more.
DispositionAlways(claim, primaries) ==
  IF claim.status # "resolved" THEN claim.status ELSE "attached_target"

Disposition(claim, primaries) ==
  IF claim.status # "resolved" THEN claim.status
  ELSE IF claim.target \in Range(primaries) THEN "already_primary" ELSE "attached_target"

\* The members of seq at some of its places.
Part(seq, places) ==
  LET kept == InOrder(places, <)
  IN [k \in DOMAIN kept |-> seq[kept[k]]]

\* The claims of the hits in order of rank, each with its place and what
\* becomes of it; targets in the order they are first met.
ExpandReferences(claims, primaries) ==
  LET View(k, c) == [rank |-> k, place |-> c, claim |-> claims[primaries[k]][c],
                     disposition |-> Disposition(claims[primaries[k]][c], primaries),
                     at |-> RankIn(primaries, claims[primaries[k]][c].target)]
      cited == InOrder(UNION {{k} \X DOMAIN claims[primaries[k]] : k \in DOMAIN primaries}, Before)
      views == [n \in DOMAIN cited |-> View(cited[n][1], cited[n][2])]
      attached == {n \in DOMAIN views : views[n].disposition = "attached_target"}
      Leads(n) == views[n].claim.target
      first == InOrder({n \in attached : \A m \in attached : m < n => Leads(m) # Leads(n)}, <)
  IN [views |-> views,
      targets |-> [k \in DOMAIN first |->
                     [fact |-> Leads(first[k]),
                      incoming |-> Part(views, {n \in attached : Leads(n) = Leads(first[k])})]]]

\* Expansion trusts the claims of the KB only when its facts are the rows of
\* the index and each claim names facts, itself not, and its own candidate.
Aligned(d) ==
  LET k == Kb[context[d]]
  IN /\ k.facts = Kb[loaded[d].kb].facts
     /\ \A i \in DOMAIN k.claims : \A c \in Range(k.claims[i]) :
          /\ c.candidates \subseteq DOMAIN k.facts
          /\ IF c.status = "resolved" THEN c.target \in c.candidates \ {i} ELSE c.target = None
     /\ DiagnosticsReconcile(k)

Document == CHOOSE d \in request.docs : TRUE

\* What a result was found by, and what its scope added.
Provenance(r) ==
  [vector |-> RankIn(result.vector, r), lexical |-> RankIn(result.lexical, r), boost |-> scores[r].boost]

\* How much was searched.
Runtime == [rows |-> Cardinality(Rows), eligible |-> Cardinality(DOMAIN scores),
            vector |-> Len(result.vector), lexical |-> Len(result.lexical)]

EvidencePack(primaries, ex) ==
  [runtime |-> Runtime, primary |-> primaries, attached |-> ex.targets,
   found |-> [k \in DOMAIN primaries |-> Provenance(result.hits[k].row)],
   relations |-> Part(ex.views, {n \in DOMAIN ex.views : ex.views[n].claim.status = "resolved"}),
   warnings |-> Part(ex.views, {n \in DOMAIN ex.views : ex.views[n].claim.status # "resolved"})]

Identity(v) == [rank |-> v.rank, label |-> v.claim.label, key |-> v.claim.key,
                direction |-> v.claim.direction]

\* References are packed only with the results they were followed from.
ExpansionBound(ex) ==
  /\ \A v \in Range(ex.views) : v.rank \in DOMAIN Primaries /\ v.claim.source = Primaries[v.rank]
  /\ Kb[context[Document]].facts = Kb[loaded[Document].kb].facts
  /\ \A v \in Range(ex.views) :
       v.claim.status = "resolved" <=> v.disposition \in {"attached_target", "already_primary"}

\* What the parts of a pack check of themselves.
DepthAccepted ==
  /\ ResolveCandidateDepth(request) >= request.top
  /\ request.candidates \in {0, ResolveCandidateDepth(request)}

RuntimeAccepted(n) == n.eligible <= n.rows /\ n.vector <= n.eligible /\ n.lexical <= n.eligible

RecordAccepted(f) == f.pages # {} /\ f.path # {} /\ f.text # ""

PrimaryAccepted(f, found, n) ==
  /\ found.vector # 0 \/ found.lexical # 0
  /\ found.vector <= n.vector /\ found.lexical <= n.lexical
  /\ Matches(f, request.filter) /\ found.boost = ScopeBoost(f)

AttachedAccepted(t) == t.incoming # <<>> /\ IsInjective([n \in DOMAIN t.incoming |-> Identity(t.incoming[n])])

RelationAccepted(v) ==
  /\ v.claim.target \in v.claim.candidates
  /\ v.disposition = "attached_target" <=> v.at = 0

\* What the pack checks of itself.
PackReconciles(p) ==
  LET attached == [k \in DOMAIN p.attached |-> p.attached[k].fact]
      claims == p.relations \o p.warnings
      facts == Kb[loaded[Document].kb].facts
  IN /\ DepthAccepted /\ RuntimeAccepted(p.runtime)
     /\ \A i \in Range(p.primary) \cup Range(attached) : RecordAccepted(facts[i])
     /\ \A k \in DOMAIN p.primary : PrimaryAccepted(facts[p.primary[k]], p.found[k], p.runtime)
     /\ \A t \in Range(p.attached) : AttachedAccepted(t)
     /\ \A v \in Range(p.relations) : RelationAccepted(v)
     /\ IsInjective(p.primary \o attached)
     /\ Len(p.primary) <= request.top /\ Len(p.primary) <= p.runtime.eligible
     /\ IsInjective([k \in DOMAIN claims |-> Identity(claims[k])])
     /\ \A v \in Range(claims) : p.primary[v.rank] = v.claim.source
     /\ \A k \in DOMAIN p.primary :
          LET places == {v.place : v \in {x \in Range(claims) : x.rank = k}}
          IN places = 1..Cardinality(places)
     /\ \A v \in Range(p.relations) :
          IF v.disposition = "attached_target" THEN v.claim.target \in Range(attached)
          ELSE v.at \in DOMAIN p.primary /\ p.primary[v.at] = v.claim.target
     /\ \A k \in DOMAIN p.attached :
          p.attached[k].incoming =
            Part(p.relations, {n \in DOMAIN p.relations :
                                 /\ p.relations[n].disposition = "attached_target"
                                 /\ p.relations[n].claim.target = p.attached[k].fact})

-----------------------------------------------------------------------------
(* Behaviour.                                                              *)

Refuse(reason) ==
  /\ stage' = "refused" /\ refusal' = reason
  /\ UNCHANGED <<kb, index, request, loaded, context, scores, result, expansion, pack>>

SearchInit ==
  /\ request \in Requests
  /\ kb \in [request.docs -> {p \in Pdfs : SizesExplained(Kb[p])} \cup {None}]
  /\ index = [d \in request.docs |-> None]
  /\ stage = "asked" /\ refusal = "none"
  /\ loaded = <<>> /\ context = <<>> /\ scores = <<>> /\ result = None /\ expansion = None /\ pack = None

\* Only while it matters to the search: a search that ended reads no file.
Reading == stage \in {"asked", "loading"}

WriteKb(d) ==
  /\ Reading
  /\ \E p \in Pdfs \ {kb[d]} :
       /\ SizesExplained(Kb[p]) /\ DiagnosticsReconcile(Kb[p])
       /\ kb' = [kb EXCEPT ![d] = p]
  /\ UNCHANGED <<index, request, stage, refusal, loaded, context, scores, result, expansion, pack>>

\* An index is published only for a KB that passed its quality gate (where
\* there was one, it has been moved away first: the builder wants no target).
BuildIndex(d) ==
  /\ Reading /\ kb[d] # None /\ Kb[kb[d]].passed
  /\ \E p \in Providers : index' = [index EXCEPT ![d] = [kb |-> kb[d], provider |-> p]]
  /\ UNCHANGED <<kb, request, stage, refusal, loaded, context, scores, result, expansion, pack>>

Ask ==
  /\ stage = "asked"
  /\ IF SearchInputAccepted(request)
     THEN /\ stage' = "loading"
          /\ UNCHANGED <<kb, index, request, refusal, loaded, context, scores, result, expansion, pack>>
     ELSE Refuse("input")

\* Documents are taken in order, the index of each before its KB.
Turn(d, done) == d \in request.docs \ DOMAIN done /\ \A e \in request.docs : e < d => e \in DOMAIN done

LoadIndex(d) ==
  /\ stage = "loading" /\ Turn(d, loaded) /\ DOMAIN loaded = DOMAIN context
  /\ IF index[d] = None THEN Refuse("no index")
     ELSE /\ loaded' = [e \in DOMAIN loaded \cup {d} |-> IF e = d THEN index[d] ELSE loaded[e]]
          /\ UNCHANGED <<kb, index, request, stage, refusal, context, scores, result, expansion, pack>>

\* The KB is read once; what was compared with the index is what is kept.  A
\* corpus wants one provider for all its documents, a single index that of the
\* request.
ProviderFits(d) ==
  loaded[d].provider = IF request.mode = "corpus" THEN loaded[Min(request.docs)].provider
                       ELSE request.provider

\* Mutant: the KB is read again, whatever it is by now.
LoadContextUnchecked(d) ==
  /\ stage = "loading" /\ Turn(d, context) /\ d \in DOMAIN loaded
  /\ IF kb[d] = None \/ ~Kb[kb[d]].passed THEN Refuse("kb")
     ELSE /\ context' = [e \in DOMAIN context \cup {d} |-> IF e = d THEN kb[d] ELSE context[e]]
          /\ stage' = IF DOMAIN context' = request.docs THEN "loaded" ELSE "loading"
          /\ UNCHANGED <<kb, index, request, refusal, loaded, scores, result, expansion, pack>>

LoadFreshIndexContext(d) ==
  /\ stage = "loading" /\ Turn(d, context) /\ d \in DOMAIN loaded
  /\ IF kb[d] = None \/ ~Kb[kb[d]].passed THEN Refuse("kb")
     ELSE IF kb[d] # loaded[d].kb \/ ~ProviderFits(d) THEN Refuse("stale")
     ELSE /\ context' = [e \in DOMAIN context \cup {d} |-> IF e = d THEN kb[d] ELSE context[e]]
          /\ stage' = IF DOMAIN context' = request.docs THEN "loaded" ELSE "loading"
          /\ UNCHANGED <<kb, index, request, refusal, loaded, scores, result, expansion, pack>>

ScoreRows ==
  /\ stage = "loaded"
  /\ IF \E d \in request.docs : loaded[d].provider # request.provider THEN Refuse("provider")
     ELSE /\ scores' = Scores(EligibleRows) /\ stage' = "scored"
          /\ UNCHANGED <<kb, index, request, refusal, loaded, context, result, expansion, pack>>

\* Both channels, the fusion of them, and the self-audit of the result.
Search ==
  /\ stage = "scored"
  /\ LET res == SearchResult(VectorCandidates, LexicalCandidates)
     IN IF ~ResultReconciles(res) THEN Refuse("contract")
        ELSE /\ result' = res
             /\ stage' = IF request.mode = "corpus" THEN "searched" ELSE "ranked"
             /\ UNCHANGED <<kb, index, request, refusal, loaded, context, scores, expansion, pack>>

Expand ==
  /\ stage = "ranked"
  /\ IF ~Aligned(Document) THEN Refuse("contract")
     ELSE /\ expansion' = ExpandReferences(Kb[context[Document]].claims, Primaries)
          /\ stage' = "expanded"
          /\ UNCHANGED <<kb, index, request, refusal, loaded, context, scores, result, pack>>

NoReferences == [views |-> <<>>, targets |-> <<>>]

\* A corpus search of one document is packed without its references.
Pack ==
  /\ stage = "expanded" \/ (stage = "searched" /\ Cardinality(request.docs) = 1)
  /\ LET ex == IF stage = "expanded" THEN expansion ELSE NoReferences
         p == EvidencePack(Primaries, ex)
     IN IF ~ExpansionBound(ex) \/ ~PackReconciles(p) THEN Refuse("contract")
        ELSE /\ pack' = p /\ stage' = "packed"
             /\ UNCHANGED <<kb, index, request, refusal, loaded, context, scores, result, expansion>>

SearchNext ==
  \/ \E d \in request.docs : WriteKb(d) \/ BuildIndex(d) \/ LoadIndex(d) \/ LoadFreshIndexContext(d)
  \/ Ask \/ ScoreRows \/ Search \/ Expand \/ Pack

SearchSpec == SearchInit /\ [][SearchNext]_searchVars

-----------------------------------------------------------------------------
(* Properties.                                                             *)

\* What one step derives, no later step refuses: the diagnostics of a build,
\* the alignment of index and KB, the self-audits of the search result and of
\* the pack agree with what was computed, whatever is rewritten meanwhile.
PipelineReconciles == refusal # "contract"

\* Filters, two truncated channels, rank fusion and scope boosts never turn an
\* order around on which all of them agree: an eligible row that is ahead of a
\* hit in both channels and is boosted as much is a hit too, and a better one.
AgreedOrderKept ==
  result # None =>
    \A k \in DOMAIN result.hits : \A a \in DOMAIN scores :
      LET b == result.hits[k].row
          Ahead(x, y) == x > y \/ (x = y /\ Before(a, b))
      IN /\ a # b
         /\ Ahead(scores[a].near, scores[b].near)
         /\ scores[b].lexical = 0 \/ Ahead(scores[a].lexical, scores[b].lexical)
         /\ scores[a].boost >= scores[b].boost
         => \E h \in 1..(k - 1) : result.hits[h].row = a

\* No guess is hidden in a pack: a followed reference leads to the chunk that
\* beats every other one by more than the margin, it is followed once, from a
\* result, and to no result; and no reference of a result is left out.
UncertaintyVisible ==
  pack # None /\ expansion # None =>
    LET cs == FilterChunks(Chunks[context[Document]])
        BestOf(c, j) == LET own == {e \in ScoredTargets(cs, c.source, c) : e.target = j}
                        IN IF own = {} THEN 0 ELSE Max({e.score : e \in own})
    IN /\ \A v \in Range(pack.relations) : \A j \in DOMAIN cs \ {v.claim.target} :
            BestOf(v.claim, v.claim.target) > BestOf(v.claim, j) + (IF BestOf(v.claim, j) = 0 THEN 0 ELSE Margin)
       /\ \A k \in DOMAIN pack.attached :
            /\ pack.attached[k].fact \notin Range(pack.primary)
            /\ \E v \in Range(pack.relations) : v.claim.target = pack.attached[k].fact
       /\ \A k \in DOMAIN pack.primary : \A ref \in Range(cs[pack.primary[k]].refs) :
            Cardinality({n \in DOMAIN (pack.relations \o pack.warnings) :
               LET v == (pack.relations \o pack.warnings)[n]
               IN v.rank = k /\ <<v.claim.label, v.claim.key, v.claim.direction>>
                                = <<ref.label, ref.key, ref.direction>>}) = 1

\* The rows that were ranked and the references that were followed are of one
\* KB, which passed its quality gate, and were embedded by the provider that
\* embedded the query, although KBs and indexes are replaced in between.
EvidenceOfOneKb ==
  result # None =>
    /\ \A d \in request.docs : /\ Kb[context[d]].facts = Kb[loaded[d].kb].facts
                              /\ Kb[context[d]].passed
                              /\ loaded[d].provider = request.provider
    /\ pack # None => \A v \in Range(pack.relations \o pack.warnings) :
         Kb[loaded[Document].kb].claims[pack.primary[v.rank]][v.place] = v.claim

=============================================================================
