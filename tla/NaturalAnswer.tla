---------------------------- MODULE NaturalAnswer ----------------------------
(***************************************************************************)
(* What the computation of ResponseCache does on the natural-language route*)
(* (POST /v1/natural-language-answers; service/app.py): a model drafts an  *)
(* answer and plans searches, the chosen document is searched, the model   *)
(* words what was found.  A call that fails leads to a weaker answer made  *)
(* locally.  Neither provider is thread-safe: each is called under a lock   *)
(* of its own (service/runtime.py), by one request at a time.               *)
(***************************************************************************)
EXTENDS ResponseCache

CONSTANTS
  Words,        \* [Question -> the aliases and key words in it]
  Packs,        \* what a search may return: sequences of records
  MaxQueries,   \* searches a model may plan
  MaxRecords, MaxSize   \* bounds of the evidence handed to the model

\* A record: a `fact`, whether its scope `fits` the target, and its `size`.
ASSUME NaturalAssumption ==
  /\ \A pack \in Packs : \A n \in DOMAIN pack : pack[n].size \in Nat
  /\ MaxQueries \in Nat \ {0} /\ MaxRecords \in Nat \ {0} /\ MaxSize \in Nat

VARIABLES
  online,      \* settings: a model is configured
  at,          \* per thread: where its computation is
  work,        \* per thread: what it has gathered
  evidence,    \* per thread: the records chosen for the model, each <<search, rank>>
  generator, embedder   \* who holds the lock of the provider

naturalVars == <<online, at, work, evidence, generator, embedder>>
allVars == <<vars, naturalVars>>

Stage == {"none", "plan", "planning", "retrieve", "search", "searching", "select",
          "final", "finalizing"}

\* `aim`: what is made if nothing else fails; `calls`: how the model calls went.
NoWork == [aim |-> "none", left |-> 0, read |-> 0, packs |-> <<>>, calls |-> <<>>]

-----------------------------------------------------------------------------
(* The local analysis of a question (generation/question_analysis.py): the *)
(* exams it names, the narrower alias hiding the general one, and the parts *)
(* it has.                                                                 *)

Exams(q) ==
  LET words == Words[q] \cap {"TOEIC IP", "TOEIC L&R", "Home Edition", "TOEFL ITP", "TOEFL iBT",
                              "JLPT", "J.TEST"}
  IN words \ ((IF "TOEIC IP" \in words THEN {"TOEIC L&R"} ELSE {})
              \cup (IF words \cap {"Home Edition", "TOEFL ITP"} # {} THEN {"TOEFL iBT"} ELSE {}))

Subquestions(q) ==
  LET exams == Exams(q)
      converts == "conversion" \in Words[q]
      identity == {<<"exam_identity", x>> : x \in exams \cap {"TOEIC L&R"}}
      conversion == {<<"language_score_conversion", x>> : x \in {y \in exams \cap {"TOEIC L&R"} : converts}}
      accepted == {x \in exams \ {"TOEIC L&R"} : x = "TOEFL iBT" => ~converts}
      acceptance == {<<"language_test_acceptance", x>> : x \in accepted}
      eligible == {<<"eligibility", w>> : w \in Words[q] \cap {"eligibility"}}
      parts == identity \cup conversion \cup acceptance \cup eligible
  IN IF parts # {} THEN parts
     ELSE {<<IF exams = {} THEN "general" ELSE "language_tests", "whole">>}

\* Without a plan every part is searched for, but what an exam's name means.
LocalQueries(q) == Cardinality({s \in Subquestions(q) : s[1] # "exam_identity"})

-----------------------------------------------------------------------------
(* The evidence handed on: in turns from every search, what fits the       *)
(* target, each fact once, whatever still has room.                        *)

Offers(packs) == UNION {{i} \X DOMAIN packs[i] : i \in DOMAIN packs}
InTurns(a, b) == \/ a[2] < b[2]
                 \/ a[2] = b[2] /\ a[1] < b[1]
Size(packs, chosen) == SumFunction([o \in chosen |-> packs[o[1]][o[2]].size])

Room(packs, chosen, r) ==
  /\ r.fits /\ \A o \in chosen : packs[o[1]][o[2]].fact # r.fact
  /\ Cardinality(chosen) < MaxRecords
  /\ Size(packs, chosen) + r.size <= MaxSize

SelectEvidence(packs, chosen) ==
  \A o \in Offers(packs) :
    o \in chosen <=> Room(packs, {c \in chosen : InTurns(c, o)}, packs[o[1]][o[2]])

-----------------------------------------------------------------------------
(* The computation of a thread that leads a flight.                        *)

Goes(t, next) == at' = [at EXCEPT ![t] = next]
Gathers(t, w) == work' = [work EXCEPT ![t] = w]
Inside == UNCHANGED <<vars, online, evidence>>

\* The answer is made, of a version of the sources: what was read, or what the
\* key was made from if nothing was.  Only a live answer is for the cache.
Ends(t, o) ==
  /\ value' = [value EXCEPT ![t] =
                 [question |-> key[t].question,
                  version |-> IF work[t].read = 0 THEN key[t].version ELSE work[t].read]]
  /\ outcome' = [outcome EXCEPT ![t] = o]
  /\ pc' = [pc EXCEPT ![t] = "store"]
  /\ Goes(t, "none")
  /\ UNCHANGED <<sources, entries, flights, key, awaited, online>>

Delivers(t, delivery) == Ends(t, IF delivery = "live" THEN "cacheable" ELSE "transient")

Begin(t) ==
  /\ pc[t] = "compute" /\ at[t] = "none"
  /\ IF online THEN Goes(t, "plan") /\ Gathers(t, [NoWork EXCEPT !.aim = "live"])
     ELSE Goes(t, "retrieve") /\ Gathers(t, [NoWork EXCEPT !.aim = "offline", !.left = LocalQueries(key[t].question)])
  /\ Inside /\ UNCHANGED <<generator, embedder>>

CallGenerator(t) ==
  /\ at[t] \in {"plan", "final"} /\ generator = NoThread
  /\ generator' = t
  /\ Goes(t, IF at[t] = "plan" THEN "planning" ELSE "finalizing")
  /\ Inside /\ UNCHANGED <<work, embedder>>

\* Mutant: a failed plan keeps the lock.
PlanFailsLocked(t) ==
  /\ at[t] = "planning" /\ Goes(t, "retrieve")
  /\ Gathers(t, [work[t] EXCEPT !.aim = "fallback", !.left = LocalQueries(key[t].question), !.calls = <<"failed">>])
  /\ Inside /\ UNCHANGED <<generator, embedder>>

PlanFails(t) ==
  /\ at[t] = "planning" /\ generator' = NoThread /\ Goes(t, "retrieve")
  /\ Gathers(t, [work[t] EXCEPT !.aim = "fallback", !.left = LocalQueries(key[t].question), !.calls = <<"failed">>])
  /\ Inside /\ UNCHANGED embedder

\* A plan says that nothing is to be looked up: its draft is the answer.
PlanAnswers(t) ==
  /\ at[t] = "planning" /\ generator' = NoThread
  /\ Gathers(t, [work[t] EXCEPT !.calls = <<"answered">>])
  /\ Delivers(t, "live") /\ UNCHANGED <<evidence, embedder>>

PlanSearches(t) ==
  /\ at[t] = "planning" /\ generator' = NoThread /\ Goes(t, "retrieve")
  /\ \E n \in 1 .. MaxQueries : Gathers(t, [work[t] EXCEPT !.left = n, !.calls = <<"answered">>])
  /\ Inside /\ UNCHANGED embedder

\* Mutant: the sources are read once for all requests.
ReadSourcesOnce(t) ==
  /\ at[t] = "retrieve" /\ work[t].left > 0
  /\ Gathers(t, [work[t] EXCEPT !.read = 1])
  /\ Goes(t, "search")
  /\ Inside /\ UNCHANGED <<generator, embedder>>

\* The manifest and the policy are read and the index is loaded once for all
\* the searches of a request.
ReadSources(t) ==
  /\ at[t] = "retrieve" /\ work[t].left > 0
  /\ Gathers(t, [work[t] EXCEPT !.read = sources])
  /\ Goes(t, "search")
  /\ Inside /\ UNCHANGED <<generator, embedder>>

\* No query, or a document without rows.
FindsNothing(t) ==
  /\ at[t] = "retrieve"
  /\ \E version \in {0, sources} :
       /\ version = 0 <=> work[t].left = 0
       /\ Gathers(t, [work[t] EXCEPT !.left = 0, !.read = version])
  /\ Goes(t, "select")
  /\ Inside /\ UNCHANGED <<generator, embedder>>

\* Unreadable or refused sources end the request with a problem.
SourcesRefused(t) ==
  /\ at[t] = "retrieve" /\ work[t].left > 0
  /\ Gathers(t, [work[t] EXCEPT !.read = sources])
  /\ Ends(t, "error") /\ UNCHANGED <<evidence, generator, embedder>>

CallEmbedder(t) ==
  /\ at[t] = "search" /\ embedder = NoThread
  /\ embedder' = t /\ Goes(t, "searching")
  /\ Inside /\ UNCHANGED <<work, generator>>

SearchReturns(t) ==
  /\ at[t] = "searching" /\ embedder' = NoThread
  /\ \E pack \in Packs : Gathers(t, [work[t] EXCEPT !.left = @ - 1, !.packs = Append(@, pack)])
  /\ Goes(t, IF work[t].left > 1 THEN "search" ELSE "select")
  /\ Inside /\ UNCHANGED generator

SearchFails(t) ==
  /\ at[t] = "searching" /\ embedder' = NoThread
  /\ Ends(t, "error") /\ UNCHANGED <<work, evidence, generator>>

Selects(t) ==
  /\ at[t] = "select"
  /\ \E chosen \in SUBSET Offers(work[t].packs) :
       SelectEvidence(work[t].packs, chosen) /\ evidence' = [evidence EXCEPT ![t] = chosen]
  /\ IF work[t].aim = "live" THEN Goes(t, "final") /\ UNCHANGED <<vars, online>>
     ELSE Delivers(t, work[t].aim)
  /\ UNCHANGED <<work, generator, embedder>>

FinalAnswers(t) ==
  /\ at[t] = "finalizing" /\ generator' = NoThread
  /\ Gathers(t, [work[t] EXCEPT !.calls = Append(@, "answered")])
  /\ Delivers(t, "live") /\ UNCHANGED <<evidence, embedder>>

\* Mutant: what could not be worded is kept as if it were.
FinalFailsLive(t) ==
  /\ at[t] = "finalizing" /\ generator' = NoThread
  /\ Gathers(t, [work[t] EXCEPT !.calls = Append(@, "failed")])
  /\ Delivers(t, "live") /\ UNCHANGED <<evidence, embedder>>

FinalFails(t) ==
  /\ at[t] = "finalizing" /\ generator' = NoThread
  /\ Gathers(t, [work[t] EXCEPT !.calls = Append(@, "failed")])
  /\ Delivers(t, "fallback") /\ UNCHANGED <<evidence, embedder>>

Computing(t) ==
  \/ Begin(t) \/ CallGenerator(t) \/ PlanFails(t) \/ PlanAnswers(t) \/ PlanSearches(t)
  \/ ReadSources(t) \/ FindsNothing(t) \/ SourcesRefused(t)
  \/ CallEmbedder(t) \/ SearchReturns(t) \/ SearchFails(t)
  \/ Selects(t) \/ FinalAnswers(t) \/ FinalFails(t)

\* The thread returns: what it gathered is gone.
Stores(t) ==
  /\ Store(t) /\ Gathers(t, NoWork) /\ evidence' = [evidence EXCEPT ![t] = {}]
  /\ UNCHANGED <<online, at, generator, embedder>>
Serves(t) == (Hit(t) \/ Join(t) \/ Lead(t)) /\ UNCHANGED naturalVars
Asks(t) == Request(t) /\ UNCHANGED naturalVars

-----------------------------------------------------------------------------

NaturalInit ==
  /\ Init /\ online \in BOOLEAN
  /\ at = [t \in Thread |-> "none"] /\ work = [t \in Thread |-> NoWork]
  /\ evidence = [t \in Thread |-> {}]
  /\ generator = NoThread /\ embedder = NoThread

NaturalNext ==
  \/ \E t \in Thread : Asks(t) \/ Serves(t) \/ Computing(t) \/ Stores(t)
  \/ (Tick \/ Activate) /\ UNCHANGED naturalVars

\* A thread that is not blocked runs; a provider call returns (the client of
\* the SDK gives up after its timeout).  Nothing is assumed of who gets a lock.
NaturalSpec ==
  /\ NaturalInit /\ [][NaturalNext]_allVars
  /\ \A t \in Thread : WF_allVars(Serves(t) \/ Computing(t) \/ Stores(t))

-----------------------------------------------------------------------------
(* Properties.                                                             *)

\* The cache cannot tell this computation from one that takes a moment.
ImplementsCache == Spec

\* Only an answer all of whose model calls were answered is kept.  If the model
\* wanted something looked up, it was, and that nothing was found is only said
\* when no search returned a record of the target that has room: every answer
\* made from less is for those who waited for it only.
KeptIsWhole ==
  \A t \in Thread : pc[t] = "store" /\ outcome[t] = "cacheable" =>
    /\ online /\ work[t].calls \in {<<"answered">>, <<"answered", "answered">>}
    /\ Len(work[t].calls) = 1 <=> work[t].read = 0
    /\ evidence[t] = {} => \A i \in DOMAIN work[t].packs : \A n \in DOMAIN work[t].packs[i] :
         LET found == work[t].packs[i][n] IN found.fits => found.size > MaxSize

\* When the clients stop asking, every request that is under way returns,
\* whatever fails in it and whoever holds the locks.
QuietRequestsReturn ==
  <>[][\A t \in Thread : ~Request(t)]_allVars => <>[](\A t \in Thread : pc[t] = "idle")
=============================================================================
