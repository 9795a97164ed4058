# TLA+ models of the J-Grad admission RAG service

This directory holds TLA+ specifications of J-Grad Admission RAG
(`src/jgrad_admission_rag`), from the chunks of a PDF to what a page in the
browser displays: the durable jobs and their worker, the corpus files, retrieval,
the reasoning about reviewed rules, the answers in words, the demo form, the
reviewed imports and material slices, the start of the service, and the two
pages. TLC checks the models on small instances; TLAPS proves, for every value of
the constants, every safety property the runs check. Liveness is only
model-checked; see the end of section 4.

## 1. The system

| Part | Source | State | Operations | Hard behaviour |
|---|---|---|---|---|
| Job contracts | `service/jobs/contracts.py` | a job row: state, parent, attempt, diagnostic | legal transitions, row validator | – |
| Job repository | `service/jobs/repository.py` | SQLite table; `jobs/<id>/`; `.staging/`; pending markers; OS lock | `open` (with recovery), `close`, `create`, `create_retry`, `claim_next_queued`, `request_cancel`, `finish_*`, `publish_result`, `delete_terminal`, `get` | two stores without a common transaction; death between any two system calls; rollback that may fail half way; recovery that may itself die |
| Build worker | `service/jobs/worker.py` | status, wake and stopped events, claim-loop tasks | `start`, `stop`, `wake`, `_claim_loop`, `_run_job` | every repository call is an await; cancellation races; lost wakeups; detached threads; concurrent `stop` |
| Job routes | `service/app.py` 700–905 | none of their own | submit, status, result, cancel, retry, delete | run beside the worker on one repository |
| Response cache | `service/response_cache.py` | LRU dictionary with expiry, table of flights | `get_or_compute` | threads that race for a key, failures, expiry and eviction while others wait |
| Natural answers | `service/app.py` 1662–2260, `generation/question_analysis.py`, `adaptive_qa.py` | two provider locks | plan, search, select, word | the files are read once for the key and again for the answer; each call may fail |
| Corpus and index files | `corpus.py`, `schemas/corpus_*.py`, `retrieval/local_index.py`, `index_freshness.py` | `corpus.json`, KB files, index directories | `update_corpus_manifest`, audits, `build_local_index` | compare-and-replace without a lock; files rewritten beside readers |
| Builder and retrieval | `builder/*`, `retrieval/*`, `corpus_search.py`, `schemas/evidence_pack.py` | immutable snapshots | filter, resolve references, rank, fuse, expand, pack | ties, truncation, guessed references; KBs replaced during a search |
| Reasoning | `reasoning/*` | – | three-valued evaluation, overrides, interactions, trace, cited answer, report | unknown facts, missing evidence; every stage validates the stage before |
| Grounded answers | `generation/grounded_rag.py`, `provider.py`, `contracts.py` | – | project, pose, draft, check, bind | the model is not trusted |
| Demo form | `service/demo_requirements.py` | – | base requirements, comparison, preparation checks | verdicts from single conditions of rules that are still open |
| Reviewed import | `reviewed_*.py` | candidate directories | preview, publish, validate, read context | publishers race for one rename; files changed by hand |
| Material slices | `reasoning/material_*.py`, `service/reference_*.py` | captured bytes | load, evidence, report | files of a slice exchanged while they are read |
| Service start | `service/app.py` lifespan, `date_presentation.py`, `exam_presentation*.py` | what was loaded, flags of what failed | load part by part, base requirements | corpus published between two parts |
| Demo runtime | `demo.py` | the active directory, stages, backups | `prepare_demo` | activation by two renames |
| Pages | `service/static/app.js`, `unified.js`, `unified-core.mjs` | form, results, requests under way | select, load, compare, report, ask | late answers; a server that comes back with other data |
| Embedding, extraction, PDF pilot, evaluation, CLIs | see PROJECT.json | – | batch runs | not modelled |

How they interact: a route creates a row and its directory through the
repository and calls `worker.wake()`; a claim loop takes the oldest queued row,
runs the builder in a thread, reads the row again and publishes; clients may
cancel, retry and delete at any of these moments. A search takes no lock: it
reads manifest, policy, index and KB one after another. A report audits the
corpus, reads the KB again and runs through the stages of the reasoning; a
grounded answer cuts the report down to what a search found and lets a model word
it; the form of the demo reads its checks off a report. A page sends one request
of each kind at a time and aborts it when its target or its form changes.

What makes the parts correct: the repository must look like one atomic ledger
whatever dies or raises; the worker must serve every queued job, never let a
result overtake a cancellation and be quiet after `stop()`; the cache must
compute once per key and release everyone; a search and a report must be of one
reviewed state of the corpus, whatever is rewritten beside them; an answer that
says it is complete must never have to be taken back, and one that does not must
say what it waits for; a draft may not add to or drop from what was reviewed; a
page must show what belongs to what is selected. PROJECT.json lists the hazards
behind these properties, each at its line.

## 2. Modules

| Module | Models | Built on |
|---|---|---|
| `JobContracts` | `contracts.py`, row operations shared in `repository.py` | – |
| `JobLedger` | what the repository promises: one atomic step per operation | `JobContracts` |
| `JobRepository` | `repository.py`, one action per system call | implements `JobLedger` |
| `JobWorker` | `worker.py` and the job routes | `JobLedger`: a repository call that returns is a ledger step |
| `ResponseCache` | `response_cache.py` as `app.py` uses it | – |
| `NaturalAnswer` | what the leader of a flight computes | `ResponseCache`, whose specification it implements |
| `CorpusStore` | `corpus.py`, `local_index.py`, `corpus_selection.py`, the query context | – |
| `EvidenceSearch` | builder and retrieval, from chunks to an evidence pack | – |
| `RuleDecisions` | `applicability.py` to `cited_answer.py`: operators | – |
| `ApplicantReport` | one report, stage by stage, beside a KB that is rewritten | `RuleDecisions` |
| `QueryIntent` | `query_intent.py`: what a question is read to ask for, and its validators | – |
| `GroundedAnswer` | a question answered from a report | `ApplicantReport`, `QueryIntent` |
| `DemoRequirements` | the form of the demo | `ApplicantReport` |
| `Decisions` | the two callers of one report builder side by side | `GroundedAnswer`, `DemoRequirements` |
| `DemoRuntime` | `prepare_demo` | – |
| `ReviewedImport` | seeds, candidates, publication | – |
| `MaterialSlices` | plans and policies of slices, loading, reports | `ReviewedImport` |
| `ReferenceService` | the routes that send them | `MaterialSlices`, `BrowserPage` |
| `BrowserPage`, `AdvancedPage`, `UnifiedPage` | adapter and shared state; `app.js`; `unified.js` | – |
| `ServiceStart` | what is read at the start and shown since | – |
| `MC…` | instances | see section 3 |
| `…Proofs` | theorems | see section 4 |

`JobWorker` uses the ledger and not the repository because `JobRepository` is
shown to implement the ledger. `Decisions` joins reports, questions and forms, and
`MCDecisions` gives it its requests; `MCWorkspaces` sets five scenarios that share nothing side by side.

### JobRepository and the code

`rows` is the committed table. `dir`, `createStage`, `resultStage`, `tomb`,
`createMark`, `resultMark` are the entries a job may have under `jobs/` and
`.staging/`; blobs are abstracted to what recovery tells apart (absent, the three
inputs, inputs with an accepted or rejected result; a marker is absent, torn or
valid). The mutex admits one call and the OS lock one process, so `pc`, `cur`,
`par` and `verdict` describe the one call in progress. `Handler` gives for every
step the `except` or `finally` branch an exception takes (`StepRaises`); `Crash`
may strike at any step of a call or of recovery and leaves both stores as they
are. Loops over directory entries take the entries in any order. `Close` happens
between calls. A `refused` owner is an `open()` that raised because it did not
trust what it found; it may be called again, with the same outcome.

### JobWorker and the code

`pc[s]` is the next step of claim loop `s`. A repository call runs in a thread
and is one step; what follows an await and only looks at the answer belongs to
that step, except around `_wake_event`, where clear, claim and wait are steps of
their own. A build returns a verdict, a result that does not match its inputs, or
an exception. The creation of a job may raise after its commit, and then the route
answers an error and calls no `wake()` (`CreationRaises`): such a job is `silent`
until the next one. `start()` may be cancelled while it opens, and `close()` may
raise in `stop()`; the cancellation of a caller of `stop()` is left out. `orphans` are calls that were in their thread when the grace period
ended: they take effect only if they get the mutex before `close()`. A second
publication of a published job, which the repository would reject, is never
asked for by a single worker; it appears in `JobRepository` only.

### ResponseCache, NaturalAnswer and the code

`sources` numbers the contents of the manifest and policy files. `Request` makes
the key from them, `Compute` reads them again. `entries` is the `OrderedDict`;
each entry holds its remaining time. An entry that expires while it is waited
for, or is evicted before the next lookup, behaves as in the code because waiters
hold the flight, not the entry. `project` and `should_cache` are total on what
the service passes, so they do not raise in the model. `NaturalAnswer` replaces
`Compute` by the steps of `_run_natural_qa`: a model drafts an answer and plans
searches (or fails, or none is configured: then the local decomposition of the
question says what to search), the document is searched under the lock of the
embedder, the evidence is chosen in turns, the model words it under its own lock.
Each failure leads to the weaker answer the code makes, or ends the request.

### CorpusStore and the code

`kb[d]` numbers the contents the KB file of `d` takes; a SHA-256 is the number it
is of, so comparing hashes is comparing numbers. `torn` holds the files a writer
is in the middle of (`write_json` truncates and writes); they do not parse. An
index records the KB it says it was built from (`hash`) and the one its payloads
were derived from (`rows`). An entry of the manifest holds a KB hash and an index
path. Every process reads one document per step, in sorting order; loading an
index and reading the KB beside it is one step because a published index never
changes. A process that fails a check, meets an I/O error or dies is one action
per kind of process (`RefuseUpdate`, `AbandonIndex`, `Leave`). The verification
after `os.replace` chooses between two answers and changes nothing. `seen` (the
KBs when a manifest was staged or loaded) and `alone` (no activation since the
comparison) are history: no guard reads them. Two assumptions are named there: a
document has one KB path, and the contents of a KB file do not come back. With
contents that return, each document would still be as listed when it was read,
but not all at one moment.

### EvidenceSearch and the code

A chunk keeps what decides something: its class, section, pages, banner, anchors,
references and terms. What the regular expressions find in a text is given by the
instance. `BuildDocumentKb` filters, carries the department context forward,
resolves the references (scores in sixtieths, the margin a constant), and applies
the quality gate with its seven limits (`Limits`; those on facts without pages or
without a path are 0 unless the builder is called otherwise); `WriteKb` and `BuildIndex` put the outcome on disk while a
search is under way. `LoadIndex` and `LoadFreshIndexContext` are the two reads of
a search; `ScoreRows`, `Search`, `Expand`, `Pack` its stages, each of which
repeats its self-audit (`ResultReconciles`, `Aligned`, `PackReconciles`) and would
end in the refusal "contract". A sorting is `InOrder`, which gives everyone the
place after those who are ahead of him. Cosine similarity is a number per fact and query;
BM25 is a weight that falls with the number of rows that hold a term.

### RuleDecisions, ApplicantReport, GroundedAnswer and the code

`RuleDecisions` gives the operators: `Compare` and `Combine` (condition_core),
`Decision` (applicability), `Resolution` (overrides), `Analysis` (relations of
the rules in force), the trace and `CitedAnswer`, and beside each the validator
that the next stage runs. `ApplicantReport` runs them as one state machine:
`stage` names what was completed, `refusal` why a request ended. The KB file may
be rewritten between the audit and the reading; `Contents` says what each
revision holds of a fact, `KbDefect` what its gates refuse, `PageRoutes` for which
programmes the pages of a fact were reviewed. Tables of scores are reduced to which entry is found;
what is modelled of the policies is when they refuse a plan or a request.

`GroundedAnswer` adds the search of the KB as it is by then, the projection to
the findings all of whose citations were found, the request for the model, and a
draft: `Generate` chooses any claims over findings, evidence and fields that were
named and one that never was. `GenerateChecked` is the server's check; `Ground`
and `Present` bind the claims to the sources again.

`DemoRequirements` puts a form through the same report. `BaseRequirements` is
what everybody is shown, `ComparisonItems` what is compared, `PreparationChecks`
the checks of English and submission, which read single outcomes off the trace.
Its own reading of a rule's target (`RuleMatchesTarget`) is modelled beside the
evaluator's, because the two must agree. `DemoApplicantProfile` is the profile made
of a form, the route included.

`QueryIntent` reads a question against a reviewed catalogue: normalisation with
offsets, the mentions of names, years, months and degrees, the longest of those
that overlap, and the categories and scope they give. A text is a sequence of
segments (a character with its combining marks), so the spans it reports can be
checked as the validators of the code check them.

### Imports, slices, start, demo runtime and the code

In `ReviewedImport` and `MaterialSlices` a reviewed file has a name that stands
for its digest, and a generated file is its value. `BeginPublish`, `StageFile`,
`Rename`, `Validate`, `StagingEnds` are `publish_candidate` by any number of
publishers, of which each may die; `Damage` and `ReplacePdf` are files changed by
hand, each within a bound. `MaterialSlices` reads the metadata of a slice file by
file (`ReadMetadata`), then candidate and PDFs (`LoadSlice`), while reviewers
replace files (`Edit`); the service then answers from `captured`.

`ServiceStart` goes through the parts of the lifespan in their order (`Parts`);
each audits (`AuditPart`) and then reads (`ReadPart`), and the corpus, the KB file
or the PDF may be exchanged between the two and afterwards. `state` is what was
loaded, `failed` the initialization-failed flags. `moved` is history.

`DemoRuntime` has one action per rename or removal of `prepare_demo`; `litter` is
what no process will look at again.

### The pages and the code

A handler runs to its next await in one step. `fetches[k]` is the one request of
kind `k` under way: a new one and every clearing abort the old, and what the
aborted handler still does in its `finally` belongs to the step that aborts it.
`status[k]` is the message of a panel, `loaded`, `comparison`, `shown`, `report`,
`answer` are what is displayed. `MapsLegacyBase`, `MapsSliceEvidence`,
`ValidateExamInformation` and their like are the adapter `unified-core.mjs`, which
takes an answer whole or not at all. `Restart` lets the server come back with
another release. The request
counters of the pages change exactly where a request is aborted and are not kept.

## 3. Runs

| Run | Shows | Bounds |
|---|---|---|
| `repo_store` | durability of what was acknowledged, clean store between calls and after recovery, named damage, sound retry chains, refinement of the ledger, termination of recovery | 2 jobs, 2 crashes (so recovery itself dies), 1 raised step; 3 jobs with 1 crash and no raised step |
| `repo_torn_marker` | **violated**: a crash between creating a marker and writing it makes the root unusable | 1 job suffices |
| `worker_safety` | ownership, wakeups, cancellation, quiet after stop | 2 slots, 2 jobs, 1 stopper, 1 storage fault |
| `worker_live` | every queued job and every cancellation is served, every `stop()` returns | 1 slot, 2 jobs, 2 stoppers, 2 starts |
| `worker_fail_race` | **violated**: a cancellation between `get` and `finish_failed` takes the worker down | 1 slot, 1 job |
| `worker_double_stop` | **violated**: a failing slot makes a second `stop()` an owner, which closes the repository of the next start | 2 stoppers, 2 starts |
| `corpus` | activations were true and compose, listed indexes stay bound, a query sees one moment | 2 editions of one document, 2 index paths, 2 updaters (symmetric), 1 builder, 1 reader, 2 contents per KB, 2 policies, 2 selections |
| `questions` | answers: one computation per key, nothing older than its key and nothing partial is kept, the detailed computation refines the abstract one, every request returns; searches: every self-audit accepts what was derived, agreed order survives fusion, no guess is followed, one KB per pack | two scenarios apart: 2 threads, 2 questions, 2 versions, capacity 1, time to live 1, 1 planned search; 2 documents, 4 possible PDFs, 2 embedding identities |
| `decisions` | stages agree, complete answers are final, open ones are explained, checks of the form stand, drafts add and drop nothing | 7531 requests over a dozen plans, 3 revisions of the KB |
| `grounded_partial` | **violated**: a finding whose citation was not retrieved is left out and the provider is called | two plans |
| `workspaces` | pages show what is current and of one release, runtime and candidates are whole, slices are the reviewed ones, their conclusions stand, presentations are of the document beside them, a page that says it is working waits for something | see below |
| `page_loads_forever` | **violated**: the advanced page goes on saying that it is working after it dropped a late answer | as `workspaces` |

Each bound is the smallest at which the cases happen. Two crashes let recovery be
interrupted and run again; two jobs let one job's files be mistaken for another's;
three make a second retry of one parent and a retry of a retry, which are a matter
of the rows, so that one death and no raised step (`FewJobs`) will do; two slots and two jobs let loops race for a job and for
the wake event; capacity one forces an eviction on every second key. Two editions
let an audit be overtaken between its reads, and two contents make a file stale
once, which is all a comparison can notice. The PDFs of `questions` hold a clear,
an ambiguous and a dangling reference, a heading to merge, a banner, a chunk that
cites a result, a chunk that is for all under a banner, and one PDF whose quality gate fails. The plans of `decisions` hold a
chain of overrides from programme to global, two rivals for one rule, all
policies, and one plan for each reason to refuse; facts take a value below, at
and beyond what a condition names, or are unknown. `workspaces` has two targets of
each kind or one, two form contents, three questions and one restart for the
pages; two processes, four calls and two failures for the runtime; two publishers,
two calls and one damage for the import; one edit and one start for the slices;
five setups, three extractions of two PDFs and two changes for the start.

Fairness. `RecoveryTerminates` assumes only that a running `open()` goes on.
`StopReturns` assumes that threads, callbacks and timers run; not that builds
return. `WorkIsServed` assumes in addition that builds return, which the code
cannot enforce. `QuietRequestsReturn` assumes that a thread that is not blocked
runs and that a provider call ends (the clients have timeouts); nothing is assumed
of who gets a lock next, so it speaks of the time after the clients have stopped
asking. Deadlock is not checked where the system may stop: all bounds used up,
nobody calling, a request answered or refused.

### Disagreements found

* **Torn marker.** `_write_file_exclusive` creates the marker and then writes
  it; recovery refuses any other content than `1`, on this and every later open.
* **Failure against cancellation.** `_finish_after_build_failure` decides in one
  call and acts in another. The conflict leaves `_run_job` and stops the worker.
* **Two owners of stop.** `_mark_unhealthy` overwrites `STOPPING`.
* **Partial retrieval.** `_project_reviewed_answer_to_records` drops the findings
  whose citations were not retrieved, where the document says the request is
  refused.
* **A page that loads forever.** If the question is edited
  while a grounded request is under way, `app.js` 435 drops the late answer and
  leaves the status "loading" with nothing under way, where
  `docs/natural-language-grounded-rag-v1.md` 44 says that an unresolved fetch or
  lock wait cannot leave the page loading forever (`page_loads_forever`). For every
  other panel of both pages `LoadingIsHeardOf` holds.
* **A creation that raises after its commit.** When the marker cannot be removed
  (`repository.py` 470) or the trailing `get` fails (198, 383), the route answers an
  error without `wake()` (`app.py` 801–810, 880–882) although the job is queued. No
  sentence of the repository is contradicted, so it has no run: `NoLostWakeup` and
  `WorkIsServed` speak of the jobs whose creation was answered, and of the others
  from the next `wake()` on.

What the models contain, or what was met on the way, and no property is spent on:

* Jobs: a job deleted between a slot's call and its trailing `get` takes the
  worker down (`TailFindsNothing`); a claim that started before `stop()` leaves
  its job running until the next start; the rollback of a publication drops the
  marker before the result (`RollbackMark`; `OnlyNamedDamage` lists it among the
  damages that make `open()` refuse); builds that were detached still occupy
  threads beside new ones.
* Cache and answers: storing does not expire first (`response_cache.py` 103–111),
  so an expired entry that was used recently may push out a live one; an entry may answer for files that changed and changed back;
  an answer is labelled with the KB of the plan loaded at the start while its
  evidence is read from the current manifest (`app.py` 1939); the time limit
  handed to a page leaves out the wait for the provider locks; TOEFL iBT with a
  word of conversion drops out of the local decomposition when another exam is
  named; a question only about what TOEIC means has no local search; an accepted
  claim on a retrieved fact outside the reviewed bundle ends in HTTP 500; nothing in the service calls
  `_consolidate_natural_answer` (`app.py` 2265).
* Questions: `parse_query_intent` sorts years and months as strings and the
  validator of `QueryIntent` as numbers, so a question that names 2027 in ASCII and
  2026 in full-width digits, or the months 4 and 10, is refused (503 on the parse
  route, 422 on the grounded one).
* Grounded answers offline: a question that names another target than the form
  leaves the form's rules "not applicable" and the report "needs review"
  (`app.py` 3223), while the offline provider asks for a review only when a finding
  is pending (`provider.py` 309). The state check refuses its draft
  (`grounded_rag.py` 399): HTTP 409, which the document allows. `StagesReconcile`
  admits this refusal and no other.
* Retrieval: a reference whose only target carries two anchor labels of one key is
  "ambiguous" (`reference_resolver.py` 90–148). A builder who raises
  `max_missing_source_pages` (`kb_builder.py` 199) gets KBs with facts that have no
  page, and a search that finds one ends in the refusal of `EvidenceRecord`.
  A proof attempt showed that the model had read the
  bonus for a title (`reference_resolver.py` 75–83) into a branch that skipped it
  in some cases; `CandidateScore` was corrected, and no run changed its outcome.
* Form: the form never asks for the country of a degree, so the direct paths stay
  pending and checks quote single conditions; `_rule_matches_target` would drop a
  rule of a college with explicit targets, which the evaluator applies (no
  reviewed plan has one); materials are "required" in the base view for intakes
  the list is not reviewed for; `ApplicantReportError` is not caught by the
  comparison handler. `_TARGET_FIELDS` (`demo_requirements.py` 472) names
  `target_application.graduate_school`, a field no rule and no profile has (it is
  `graduate_school_or_college`), so the form never reads a rule's condition on the
  college; the eight rules of the reviewed plan that have one name the department
  as well, which decides the same.
* Start: dates are checked against the KB registered at the start, the evidence
  beside them is of the KB the plan names. If the corpus moves to the plan's
  extraction only afterwards, a highlight may misquote; both pages check
  (`app.js` 1673, `unified-core.mjs` 225), the server does not. Readiness ignores
  examination maps that failed to load.
* Demo runtime: a process that dies between the renames leaves no active runtime
  until the next call; of two racing rebuilds one may return a description of a
  stage that is not active any more.
* Reference service: the lock of the report is held through the upload, so one
  stalled upload makes every other report 429 (`reference_app.py` 309–335). A seed
  with a core source without records previews but can never be imported
  (`reviewed_fragment_import.py` 426).
* Pages: on the unified page a comparison asked for while a report waits for one
  aborts that report, answers are not tied to the question in the box, a question
  has no time limit, and a displayed comparison is not checked as the one in a
  report is; requirements and comparison of a legacy report may be of two releases.

## 4. Proofs

All from the named assumptions on the constants, which TLC evaluates on every run:
`BoundsAssumption`, `MaxJobsAssumption`, `WorkerAssumption`, `CacheAssumption`,
`NaturalAssumption`, `CorpusAssumption`, `FirstAssumption`, `DemoAssumption`,
`StartAssumption`, `SliceAssumption`, `PageAssumption`, `QuestionAssumption` and `SearchAssumption` say
that the constants are numbers and sets of the right kind, that a spare value is
no member of the set it is spare to, that the first corpus was built from its
files, that chunks and requests are as their schemas have them (a search of one index
names one document, an informative chunk has text), that the resolver's margin is
not negative, that the facts of a KB must not lack pages or a path (the default), and that the reciprocals of ranks are told apart as far
as the candidates reach; `ReleasesAssumption` says which releases of a slice count as put together
rightly (any others may be released too), and that a presentation is generated of
the snapshot it is kept under; `DecisionsAssumption` says what the contracts of a plan and a profile check
before any stage runs; `MentionsAssumption` that reading a question gives finitely
many ranges of it, numbers where a year or month was read (the scan is a fold over
the text, out of the provers' reach, so its outcome is assumed of the questions and
checked by TLC on those of the instance); `FormsAssumption` what a form tells (its
target in full) and what the reviewed plan of the detailed document holds; see
`ChecksStandAlways` below. The worker's theorems about `stop()` have
the hypothesis `OneStopper`, because `worker_double_stop` shows them false of two.

* `JobLedgerProofs!LedgerSound`: `LedgerSpec => []LedgerInv`. The invariant joins
  the type, `RowsLoad` (every row passes its validator and every retry finds its
  parent), `OneRetryChild` and `ResultMatchesState`. `MoveKeepsRows` is the
  central lemma: a legal move only ever leaves an active state, and an active row
  is nobody's parent.
* `JobRepositoryProofs!StoreInvariant`: `Spec => []StoreInv`. `RowsBacked` is not
  inductive: a step of a call preserves it only because of what the earlier steps
  of that call have established. `CallInv` says this for each value of `pc` (a
  creating call has no row yet; a publishing call works on a running row and, once
  past the replace, its result is in place; a deleting call has a terminal row
  without children and its directory in the tombstone). `FreshIds` keeps new ids
  apart from what crashed calls left behind, and `TombstoneReplacesDir` says that
  a job with a tombstone and a row has no directory. `AcknowledgedJobsSurvive`
  follows.
* `JobRepositoryProofs!RepositoryImplementsLedger`: under the mapping that
  shows a result as soon as the row says so, every step is a ledger step or a
  stutter. The commit points are the three single transactions, `CreateInsert`,
  `PublishCommit`, `DeleteCommit` and `RecoverCommit`; the proof has one step per
  action and uses `StoreInv`. `RetryChainsStaySound` carries `RowsLoad` and
  `OneRetryChild` over to the repository.
* `JobRepositoryProofs!DamageIsNamed` needs `DamageInv`, that a directory without
  a row is vouched for by its create marker until recovery is past it, and
  `QuietInv`, which says for every job what calls, crashes and recoveries leave of it
  as long as no step has raised since `open()` last succeeded (`QuietJob`, with the
  history variable `history`), and that a refused `open()` has one of the four causes
  `OnlyNamedDamage` names. A root that opened is as good as new: whatever raised
  before, the argument begins again.
* `JobWorkerProofs`: `WorkerTypesHold`; `WorkerLeavesSoundLedger` (every step of
  slot, route or orphan is a ledger step, so `LedgerSound` carries over);
  `CancellationAlwaysWins` (only `FinishCancelled` and `Interrupt` touch a row that
  waits for its cancellation); and with one stopper `HealthyHasItsRepository`,
  `NothingWritesAfterStop`, `EveryActiveJobHasOneOwner` and `NoWakeupIsLost`, from
  `LifeInv`, which says for every status where slots, stopper and orphans are.
* `NaturalAnswerProofs!OneComputationPerKey`: `SingleFlight`
  for any number of threads, keys and versions, by `FlightInv` (flights and
  working threads name each other; a waiter's flight is at work on its key).
  `CacheNeverOlderThanKey` adds that what is about to be stored was read after its
  key was made (`AnswersFit`), and that looking up, inserting, expiring and
  evicting keep the dictionary without duplicates and within its capacity; the
  selection of a subsequence is done by hand from cardinalities.
* `NaturalAnswerProofs!NaturalImplementsCache`: `NaturalSpec` implements `Spec` of
  `ResponseCache`, with no mapping but the one by name. All steps of a computation
  but its last leave the variables of the cache alone; that the last is a `Compute`
  needs `ReadsFresh`: what was read of the sources lies between the key and now.
  `OnlyWholeAnswersKept` follows a computation by its aim: on the way to a live
  answer no call has failed (`WorkWhole`).
* `CorpusStoreProofs!QueriesSeeOneMoment`, `ActivatedWasTrue`,
  `RegisteredIndexesBound`, `UpdatesCompose`, `Typed`: every property of
  `CorpusStore`, from one invariant, `CorpusInv`. The argument is about order:
  revisions only grow, and no manifest anywhere (on disk, in an updater, in a
  reader) is ahead of the files, nor ahead of the files at the moment it was
  loaded or staged. A read that later finds the revision listed squeezes listed,
  seen and current together (lemma `Squeeze`), so each of the separate checks
  speaks about the same earlier moment. That indexes are never replaced
  (`Kept`) carries the bindings of every manifest over every step. `UpdaterFrame`
  and `ReaderFrame` say once what the steps of others leave alone.
* `EvidenceSearchProofs!EvidenceIsOfOneKb`, `AgreedOrderIsKept`, `DerivedIsAccepted`,
  `UncertaintyStaysVisible`: every property of `EvidenceSearch`. No induction over
  data is needed: who is at a place of a sorted list is said by counting who is
  ahead (`PlacesRise`), and that every place is taken is a count too
  (`PlacesFilled`). `SearchInv` says for every stage what the search has at hand, of
  which KB, while files are rewritten; the evidence of one KB follows, and the
  agreed order from the monotony of the reciprocals that are fused
  (`FusionFollowsBoth`). `ReconcileInv` rides on it and takes the audits one by one:
  the hits (`ResultHolds`), the one document (`DocumentAligned`), the references
  that were followed (`ReferencesReconcile`) and the pack (`PackIsAccepted`), whose
  views are in order, without repetition and of the targets the claims name
  (`ViewsCover`, `IdentitiesDiffer`). `ClaimsFollow` ties every claim of a KB to the
  chunk that made it, so that a target is followed only if it beats all others by
  the margin (`ClaimBeatsOthers`) and every other claim stays in the pack unresolved.
* `DecisionsProofs!ReportInvariant` and `GroundedInvariant`: what each stage handed
  on is still what it would derive again, evidence is of the KB the plan is bound
  to, and projection, request, draft and answer are of the report they were made
  from, also after a refusal. From these:
  `EvidenceStaysReviewed`; `NoRuleIsEverLost` (from an overridden rule the chain of
  overriders climbs in specificity and ends at an active rule; the rules refused
  for contradicting themselves are unsatisfiable ones); `AnswersSayWhatStaysOpen`
  and `SettledStaysFinal` (three-valued evaluation is monotone: what is decided
  with some facts unknown stays decided whatever they turn out to be, through
  conditions, scopes, overrides and interactions); `AnswersStayReviewed` (whatever
  is drafted, what is bound is what was reviewed and retrieved; the choice of the
  longest mentions that do not overlap exists by a well-founded argument).
* `DecisionsProofs!StagesAlwaysReconcile`: no stage refuses what the one before it
  made. The validators of the code are run again on what the stages derive, and
  each is shown to accept: for the report from `StagesHold`, for the form from
  `FormHeld`, for the offline provider from `OfflineHeld`, for the question from
  `IntentHeld`. The attempt corrected the property twice: see the observations on
  the offline provider and on years and months in section 3.
* `DecisionsProofs!ChecksStandAlways`: `DecisionsSpec => []ChecksStand`. It is not a
  property of every plan: a check of the form quotes single conditions, and only
  for plans like the one it was written for does its verdict survive whatever the
  applicant tells later. `FormsAssumption` says which: of
  `demo_config/reviewed_report_plan.json`, the plan `demo.py` 86 loads, it states
  that every rule (there are 300) demands all its conditions, none is of a whole
  college or compares a target's fields otherwise than for equality, no two are of
  one subject, no override or interaction is listed, mathematics is told by the
  target alone, and two kinds of rules name a date of graduation. The code compares
  a plan with its KB and demands none of this, so the theorem is about that plan
  (with any forms, KBs and searches) and not about one that may replace it: a new
  detailed plan has to be read against `DetailedPlanReviewed` first. Plans of other
  documents stay arbitrary, for no check is made of them.
  `ComparedInv` says that what is displayed was read off the report of the form.
  `FilledIn` relates a profile to any that knows more; `KeptOf` and `OutcomesKept`
  carry binding, scope, status and outcome over it (for profiles and for forms
  alike, so `SettledStaysFinal` rests on the same lemmas), and each check has its
  own lemma on top. `OneRuleOfTheDate` shows that the rule which the graduation
  check does not read is never the one that confirms the date, `ConfirmedMatches`
  that the form's own reading of a target agrees with the evaluator's, and
  `CommonMaterialsApply` that required materials are compared.
* `WorkspacesProofs!PagesInvariant`: `PageInv` joins the three properties of the
  pages with what makes them inductive: whatever is under way is for what the page
  holds (`WorkIsCurrent`), and what each page does on its own (`PageItself`).
  `PagesShowWhatIsCurrent`, `SlicesOfOneSnapshot` and `LoadingHasARequest` follow,
  for any targets, snapshots and answers; the last leaves out the question box of
  the advanced page, of which it is false.
* `WorkspacesProofs!RuntimeStaysWhole`: `DemoSpec => []RuntimeKept`. To be
  inductive it must not count the backups that their processes remove next
  (`WholeOnDisk`), and has to say who brings a runtime back as long as nothing has
  failed (`SomeoneReturnsIt`). `StartInvariant` and `PresentationsStandAlways`:
  each part of the lifespan keeps what it checked, and what is presented passed
  those checks or is marked unavailable. `CandidatesStayWhole`: what a publisher
  renames is all of what it built, and only `Damage` changes it afterwards.
  `ConclusionsStandAlways`: a slice's conclusions stand whatever else is told, and
  where there is none the facts asked for are enough to decide.
* `WorkspacesProofs!SlicesStayReviewed`: `SliceSpec => []SlicesAreReviewed`.
  `CaptureInv` says that what is read so far is what was released, and of one state
  of the files unless something was replaced meanwhile, and that all that is loaded
  was verified on files of candidates (`Verified`). The rest is of the checks alone:
  `QuotedAsSeeded` leads a quotation from the plan's binding over the fact's ID and
  the KB to the fragment of the seed; `ReportOfVerified` shows that no check of
  `assemble_report` can fail where the load succeeded; `EvidenceAccepted` and
  `ReportAccepted` that the page's validators take what is sent; `ReviewedLoads`
  that a whole candidate and reviewed PDFs pass every check of the load. The proof
  needed two facts the model had left out, that a topic list and a record's bindings
  are not empty (`material_slice_report.py` 168, 226): without them the page would
  have refused an empty topic.

Only model-checked: liveness (`WorkIsServed`, `StopReturns`, `RecoveryTerminates`,
`QuietRequestsReturn`). Fairness and ENABLED are out of the provers' reach.

Sets of the form `UNION {…}` and `SUBSET …` stand in parentheses in front of an
infix operator, since SANY and tlapm bind them differently.

## 5. What is left out

* Power loss: only the process dies; renames that happened stay.
* A wall clock that steps back: ids are allocated in the order of `created_at`.
* A thread that sleeps across close and the next open inside one repository call.
* `StartBegin` waits for the slots of the last start: a bound, since after the
  grace period the code's tasks are gone as well.
* Request parsing, response layout, hashing, logging, the wording of anything.
* Symbolic links, path safety and schema migration of KBs: each only adds reasons
  to refuse, which any step may do.
* More than one material slice at a time: uniqueness of targets over several.
* The tables of score conversion: which entry is found is modelled, its numbers
  are not.
* Numerical embedding, text extraction and chunking, the PDF pilot, evaluation and
  command lines, for the reasons given in PROJECT.json.

## 6. Plan

The model is as wide as planned; what remains outside it is listed above. Every
safety property and action property that a passing run checks is proved; liveness
stays with TLC. When the detailed plan is revised, `FormsAssumption` is what has to
be compared with it.
