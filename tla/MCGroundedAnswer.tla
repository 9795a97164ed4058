-------------------------- MODULE MCGroundedAnswer ---------------------------
(***************************************************************************)
(* A small instance of GroundedAnswer: college A with department d and a   *)
(* programme in it, and college B.  Plans: a chain of overrides from        *)
(* programme to global, two rivals that override the same rule, one with    *)
(* all policies, and plans that must be refused.                            *)
(***************************************************************************)
EXTENDS GroundedAnswer

MCFields == {"score", "degree", "year", "docs"}
MCBoundedFields == {"score", "year"}
MCScopeFields == [college |-> "which college", department |-> "which target",
                  program |-> "which target"]
MCFacts == {"f1", "f2", "f3", "f4", "f5", "f6"}
MCFamily == [s \in {"english", "documents"} |-> s]

-----------------------------------------------------------------------------
(* Names and words.  Department d is called INKO, e is called INKOS, both   *)
(* are known as KEI, and d also as INK; letters may be wide, and INKO one   *)
(* ligature.  English, documents and fees are asked for by a letter each.   *)

Narrow == {"I", "N", "K", "O", "S", "E", "D", "F", "M", "R", "kei", "col", "gak", "nendo", "master",
           "0", "1", "2", "4", "6", "7", "language_tests", "eligibility", "fees"}
Wide == [w \in {"w0", "w2", "w6", "wI"} |->
           [w0 |-> <<"0">>, w2 |-> <<"2">>, w6 |-> <<"6">>, wI |-> <<"I">>][w]]
MCNormalForm ==
  [s \in Narrow \cup DOMAIN Wide \cup {"INKO"} |->
     IF s = "INKO" THEN <<"I", "N", "K", "O">> ELSE IF s \in Narrow THEN <<s>> ELSE Wide[s]]
MCDigits == <<"0", "1", "2", "3", "4", "5", "6", "7", "8", "9">>
MCYearSuffix == <<"nendo">>
MCScopeWords == {<<"gak">>}
\* As strings are sorted: digits, then letters, then wide ones.
MCSegments ==
  <<"0", "1", "2", "4", "6", "7", "D", "E", "F", "I", "INKO", "K", "M", "N", "O", "R", "S", "col", "eligibility", "fees",
    "gak", "kei", "language_tests", "master", "nendo", "w0", "w2", "w6", "wI">>
MCCode == [s \in DOMAIN MCNormalForm |-> CHOOSE i \in DOMAIN MCSegments : MCSegments[i] = s]

Entity(kind, value, aliases) == [kind |-> kind, value |-> value, aliases |-> aliases]
MCCatalog ==
  [entities |-> {Entity("scope_target", <<"I", "N", "K", "O">>, {<<"kei">>, <<"I", "N", "K">>}),
                 Entity("scope_target", <<"I", "N", "K", "O", "S">>, {<<"kei">>}),
                 Entity("parent_college", <<"col">>, {}),
                 Entity("degree_level", <<"master">>, {}),
                 Entity("intake_month", <<"4">>, {}), Entity("intake_month", <<"1", "0">>, {<<"O">>})},
   lexicon |-> {[category |-> <<"language_tests">>, aliases |-> {<<"E">>}],
                [category |-> <<"eligibility">>, aliases |-> {<<"D">>, <<"D", "D">>}],
                [category |-> <<"fees">>, aliases |-> {<<"F">>}]},
   ambiguous |-> {[kind |-> "scope_target", surface |-> <<"kei">>,
                   values |-> {<<"I", "N", "K", "O">>, <<"I", "N", "K", "O", "S">>}]}]

MCTextOf ==
  [x \in {"d", "e", "A", "language_tests", "eligibility", "fees"} |->
     CASE x = "d" -> <<"I", "N", "K", "O">> [] x = "e" -> <<"I", "N", "K", "O", "S">>
       [] x = "A" -> <<"col">> [] OTHER -> <<x>>]
MCSubjectsOf ==
  [language_tests |-> {"english"}, eligibility |-> {"documents"}, fees |-> {}]
MCFragments == [english |-> {<<"R">>}, documents |-> {}]

-----------------------------------------------------------------------------

MCKnown ==
  {[score |-> s, degree |-> d, year |-> y, docs |-> x] :
     s \in {0, 2, Unknown}, d \in {0, 1, Unknown}, y \in {0, 1, Unknown},
     x \in {{}, {1}, Unknown}}
MCFactChoices == [asked \in {MCFields} |-> MCKnown]

P(field, op, value) == [field |-> field, op |-> op, value |-> value]
Rule(mode, predicates, scope, bindings) ==
  [mode |-> mode, predicates |-> predicates, scope |-> scope, bindings |-> bindings]
Scope(type, targets, parent) == [type |-> type, targets |-> targets, parent |-> parent]

Global == Scope("global", {}, NoName)
ChainRules ==
  [g |-> Rule("all", {P("year", "minimum", 1), P("year", "maximum", 1)}, Global, {"f1"}),
   c |-> Rule("any", {P("degree", "equals", 1), P("year", "not_equals", 0)},
              Scope("college", {"A"}, NoName), {"f1", "f2"}),
   d |-> Rule("all", {P("score", "on_or_after", 1), P("year", "equals", 1)},
              Scope("department", {"d"}, "A"), {"f2"}),
   p |-> Rule("any", {P("docs", "contains", 1), P("docs", "is_empty", 0)},
              Scope("program", {"d"}, "A"), {"f3"})]

Plan(rule, edges, reviewed) ==
  [rule |-> rule, subject |-> [r \in DOMAIN rule |-> IF r = "p" THEN "documents" ELSE "english"],
   edges |-> edges, reviewed |-> reviewed, kb |-> 1, covers |-> {"language_tests", "eligibility"},
   conversion |-> NoName, materials |-> NoName,
   allocation |-> {}, evaluation |-> {}, program |-> {}]

NoReview == [pair \in {} |-> "compatible"]
Chain == Plan(ChainRules, {<<"d", "c">>, <<"c", "g">>},
              [pair \in {{"g", "d"}, {"c", "d"}, {"c", "g"}} |->
                 IF pair = {"c", "d"} THEN "conflict" ELSE "compatible"])
Rivals == Plan(ChainRules, {<<"d", "g">>, <<"c", "g">>}, NoReview)
WithPolicies ==
  [Plan([g |-> ChainRules.g], {}, NoReview) EXCEPT
     !.conversion = "f1", !.materials = "f4",
     !.allocation = {[target |-> "d", parent |-> "A", fact |-> "f2"]},
     !.evaluation = {[target |-> "d", parent |-> "A", route |-> "x", fact |-> "f2"],
                     [target |-> "e", parent |-> "B", route |-> NoName, fact |-> "f4"]},
     !.program = {[route |-> r, term |-> 9, fact |-> "f6"] : r \in {"x", "y"}}]

One(predicates) == Plan([g |-> Rule("all", predicates, Global, {"f1"})], {}, NoReview)
\* (Not refused: bounds that exclude each other of a field whose are not compared.)
RefusedPlans ==
  {One({P("year", "minimum", 1), P("year", "maximum", 0)}),
   One({P("year", "minimum", 1), P("year", "equals", 0)}),
   One({P("year", "equals", 1), P("year", "equals", 0)}),
   One({P("degree", "minimum", 1), P("degree", "maximum", 0)}),
   [One({P("year", "equals", 1)}) EXCEPT !.conversion = "f6"],
   One({P("docs", "is_empty", 0), P("docs", "contains", 1)}),
   Plan([g |-> ChainRules.g, c |-> [ChainRules.g EXCEPT !.bindings = {"f2"}]],
        {<<"c", "g">>}, NoReview),
   Plan(ChainRules, {<<"c", "d">>}, NoReview),
   Plan(ChainRules, {<<"p", "g">>}, NoReview),
   Plan(ChainRules, {}, [pair \in {{"p", "g"}} |-> "compatible"]),
   [Plan([g |-> ChainRules.g], {}, NoReview) EXCEPT
      !.evaluation = {[target |-> "d", parent |-> "A", route |-> r, fact |-> "f2"] :
                        r \in {"x", NoName}}]}

Applicant == [facts |-> [score |-> 2, degree |-> 1, year |-> 1, docs |-> {1}],
              credentials |-> 1, basis |-> "direct", languages |-> <<"yes">>,
              target |-> "d", college |-> "A", route |-> "x", term |-> 9,
              scoreless |-> FALSE, score |-> "converted"]
NoQuery == [targets |-> {}, colleges |-> {}, categories |-> {"language_tests"}]
Retrieved == [f \in MCFacts |-> "primary"]
Ask(plan0, applicant) ==
  [via |-> "corpus", plan |-> plan0, profile |-> applicant, query |-> NoQuery,
   of |-> "this question", roles |-> Retrieved, registered |-> 1,
   selects |-> <<1, 1, 1>>, retrieves |-> {}, question |-> <<>>, provider |-> "offline"]

\* What the applicant says of the conditions.
FactRequests ==
  {Ask(Chain, [Applicant EXCEPT !.facts = g, !.credentials = c, !.languages = l]) :
     g \in MCKnown, c \in 0..2,
     l \in {<<>>, <<"yes">>, <<"no">>, <<"unsaid">>, <<"unsaid", "unsaid">>, <<"no", "yes">>}}
\* What the applicant and the question say of the target.
ScopeRequests ==
  {[Ask(q, [Applicant EXCEPT !.target = t, !.college = c]) EXCEPT
      !.query.targets = qt, !.query.colleges = qc] :
     q \in {Chain, Rivals}, t \in {"d", "e", NoName}, c \in {"A", "B", NoName},
     qt \in {{}, {"d"}, {"d", "e"}}, qc \in {{}, {"A"}, {"B"}}}
\* What was retrieved.
PackRequests ==
  {[Ask(Chain, [Applicant EXCEPT !.facts.degree = y]) EXCEPT !.via = "pack", !.of = o, !.roles = k] :
     y \in {1, Unknown}, o \in {"this question", "another question"},
     k \in {[f \in MCFacts |-> IF f = "f6" THEN "absent" ELSE x[f]] :
              x \in [MCFacts \ {"f6"} -> {"primary", "attached", "absent", "different"}]}}
\* What the policies are asked, and what the KB holds.
PolicyRequests ==
  {[Ask(WithPolicies, [Applicant EXCEPT !.target = t, !.college = c, !.route = r, !.term = m,
                         !.basis = b, !.languages = l]) EXCEPT !.registered = v] :
     t \in {"d", "e", NoName}, c \in {"A", "B"}, r \in {"x", "z", NoName},
     m \in {9, 10, NoName}, b \in {"direct", "review", "none"},
     l \in {<<>>, <<"yes">>}, v \in {1, 2}}
RefusedRequests ==
  {Ask(q, Applicant) : q \in RefusedPlans}
    \cup {[Ask([Chain EXCEPT !.kb = 3], Applicant) EXCEPT !.registered = v] : v \in {1, 3}}
    \cup {[Ask(Chain, Applicant) EXCEPT !.selects = n] : n \in {<<2, 1, 1>>, <<1, 0, 1>>, <<1, 1, 2>>}}
    \cup {[Ask(Chain, Applicant) EXCEPT !.query.categories = g] : g \in {{}, {"language_tests", "fees"}}}

\* A question in words, and what it is understood to ask of the plan.  Fact f5
\* is of no rule.
Asking(question) ==
  LET i == ParseQueryIntent(question, MCCatalog)
      Meant(texts) == {x \in DOMAIN MCTextOf : MCTextOf[x] \in texts}
  IN [question |-> question,
      query |-> [targets |-> Meant(i.targets), colleges |-> Meant(i.colleges),
                 categories |-> Meant(i.categories)]]
Questions(questions, plan0, applicants, retrieves, provider) ==
  {[Ask(plan0, a) EXCEPT !.question = q.question, !.query = q.query, !.retrieves = retrieves,
                         !.provider = provider] :
     a \in applicants, q \in {Asking(x) : x \in questions}}

PlainQuestions == {<<"E">>, <<"E", "D">>, <<"E", "R">>, <<"E", "D", "R">>, <<"R">>}
\* Names that are wide, in one ligature, cut short or both meant; two
\* departments; another one than the applicant's, and English by name; years and
\* months of two widths and lengths; a year with a month in it; nothing that is
\* known; what no rule is about.
HardQuestions ==
  {Append(q, "E") : q \in
     {<<"I", "N", "K", "O">>, <<"I", "N", "K", "O", "S">>, <<"wI", "N", "K">>, <<"INKO", "S">>, <<"INKO">>,
      <<"I", "N", "K", "E", "col">>, <<"kei">>, <<"I", "N", "K", "kei">>, <<"I", "N", "K", "I", "N", "K", "O", "S">>,
      <<"gak">>, <<"col", "master">>, <<"D", "D">>, <<"F">>, <<"I", "N", "K", "O", "S", "R">>,
      <<"4", "1", "0">>, <<"4">>, <<"1", "0">>, <<"2", "0", "2", "4", "nendo">>,
      <<"2", "0", "2", "7", "nendo", "w2", "w0", "w2", "w6", "nendo">>,
      <<"2", "0", "2", "6", "nendo", "w2", "w0", "w2", "w6", "nendo">>, <<"1", "2", "0", "2", "6", "nendo">>}}

Reviewed == [pair \in {{"g", "d"}, {"c", "d"}, {"c", "g"}} |->
               IF pair = {"c", "d"} THEN "conflict" ELSE "compatible"]
Unedged == Plan(ChainRules, {}, Reviewed)
GroundedRequests ==
  Questions(PlainQuestions, Chain, {[Applicant EXCEPT !.facts = g] : g \in MCKnown},
            SUBSET {"f1", "f2", "f3"}, "offline")
  \cup Questions(PlainQuestions, Unedged, {[Applicant EXCEPT !.facts.degree = x] : x \in {1, Unknown}},
                 {{"f1", "f2"}, {"f1", "f2", "f5"}, {"f2"}}, "deepseek")
  \cup Questions(PlainQuestions, Chain, {Applicant, [Applicant EXCEPT !.facts.docs = Unknown]},
                 {{"f1", "f2", "f3"}, {}}, "openai")
  \cup Questions(HardQuestions, Chain,
                 {[Applicant EXCEPT !.target = t[1], !.college = t[2], !.facts.year = y, !.facts.degree = y] :
                    t \in {<<"d", "A">>, <<"e", "B">>}, y \in {0, 1}},
                 {{"f1", "f2", "f3"}, {"f1"}}, "offline")

MCRequests == FactRequests \cup ScopeRequests \cup PackRequests \cup PolicyRequests
                \cup RefusedRequests \cup GroundedRequests
\* Revision 2 has pages that were not reviewed, revision 3 differs in a fact.
MCKbDefect == <<"none", "page_scope", "none">>
MCPageRoutes == [f \in MCFacts |-> IF f = "f6" THEN {"x", "y"} ELSE {}]
MCContents == [v \in 1..3 |-> [f \in MCFacts |->
                 IF v = 3 /\ f = "f2" THEN "changed" ELSE "reviewed"]]
=============================================================================
