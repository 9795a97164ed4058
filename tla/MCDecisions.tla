----------------------------- MODULE MCDecisions -----------------------------
(***************************************************************************)
(* The requests of MCGroundedAnswer and the forms of the demo, for a plan   *)
(* of two terms whose English and graduation rules are those of the demo's  *)
(* document, with dates as days: graduate by day 1, or ask first on days 2  *)
(* and 3 of the autumn term; materials arrive on day 1 or 2.                *)
(***************************************************************************)
EXTENDS MCGroundedAnswer, Decisions, TLC

\* A rule of the term, at any target or only outside mathematics.
Of(month, predicates, fact) ==
  Rule("all", {P("month", "equals", month)} \cup predicates, Global, {fact})
English(month, predicates, fact) == Of(month, {P("dept", "not_equals", "math")} \cup predicates, fact)
PathRule(state, predicates) ==
  Of(9, {P("country", "equals", "JP"), P("basis", "equals", "graduation"), P("state", "equals", state)}
        \cup predicates, "f2")
Proof(field) == P(field, "equals", TRUE)
Kind(k) == P("kind", "equals", k)

DemoRules ==
  (<<"application-window", "sep">> :> Of(9, {}, "f1"))
  @@ (<<"application-window", "apr">> :> Of(4, {}, "f1"))
  @@ (<<"materials-arrival-window", "sep">> :>
        Of(9, {P("arrival", "on_or_after", 1), P("arrival", "on_or_before", 2)}, "f1"))
  @@ (<<"materials-arrival-window", "apr">> :>
        Of(4, {P("arrival", "on_or_after", 2), P("arrival", "on_or_before", 3)}, "f1"))
  @@ (<<"online-steps", "sep">> :> Of(9, {Proof("online")}, "f1"))
  @@ (<<"direct-path-1", "completed", "sep">> :> PathRule("completed", {P("completed", "on_or_before", 1)}))
  @@ (<<"direct-path-1", "expected", "sep">> :> PathRule("expected", {P("expected", "on_or_before", 1)}))
  @@ (<<"direct-path-1", "special-contact", "sep">> :>
        PathRule("expected", {P("expected", "on_or_after", 2), P("expected", "on_or_before", 3)}))
  @@ (<<"review-process", "sep">> :> Of(9, {P("basis", "equals", "fifteen years")}, "f3"))
  @@ (<<"candidate", "sep">> :>
        Of(9, {P("basis", "equals", "fifteen years"), P("state", "equals", "completed")}, "f3"))
  @@ (<<"external-score-required", "sep">> :> English(9, {}, "f4"))
  @@ (<<"approved-kind", "toeic", "sep">> :> English(9, {Kind("toeic")}, "f4"))
  @@ (<<"approved-kind", "toefl", "sep">> :> English(9, {Kind("toefl")}, "f4"))
  @@ (<<"unapproved-kind", "toeic_ip", "sep">> :> English(9, {Kind("toeic_ip")}, "f5"))
  @@ (<<"test-date", "sep">> :> English(9, {P("taken", "on_or_after", 1)}, "f5"))
  @@ (<<"online-pdf", "sep">> :> English(9, {Proof("pdf")}, "f5"))
  @@ (<<"toeic-qr", "sep">> :> English(9, {Kind("toeic"), Proof("qr")}, "f4"))
  @@ (<<"toeic-certificate", "sep">> :> English(9, {Kind("toeic"), Proof("certificate")}, "f4"))
  @@ (<<"report", "toefl", "sep">> :> English(9, {Kind("toefl"), Proof("report")}, "f4"))
  @@ (<<"g179", "toefl", "sep">> :> English(9, {Kind("toefl"), Proof("g179")}, "f4"))
  @@ (<<"math-written-exam", "sep">> :> Of(9, {P("dept", "equals", "math")}, "f3"))
  @@ (<<"english-submission", "sep">> :>
        Rule("all", {P("month", "equals", 9), P("method", "equals", "with application")},
             Scope("department", {"d"}, "A"), {"f4"}))

DemoPlan(document) ==
  [rule |-> DemoRules, subject |-> [r \in DOMAIN DemoRules |-> r], edges |-> {}, reviewed |-> NoReview,
   kb |-> 1, covers |-> {"language_tests"}, conversion |-> NoName, materials |-> "f1",
   allocation |-> {[target |-> "d", parent |-> "A", fact |-> "f2"]},
   evaluation |-> {[target |-> "e", parent |-> "B", route |-> r, fact |-> "f3"] : r \in {"x", "y"}}
                  \cup {[target |-> "math", parent |-> "B", route |-> NoName, fact |-> "f3"]},
   program |-> {}, document |-> document, months |-> {4, 9},
   order |-> <<<<"english-submission", "sep">>, <<"external-score-required", "sep">>>>]

MCGuideFacts == [math |-> {"f3"}, external |-> {"f4", "f5"}]

-----------------------------------------------------------------------------
(* Forms: blank ones at every target, those that ask for the English checks *)
(* and those that ask for the application checks.                          *)

Blank ==
  [document |-> "detailed", month |-> 9, college |-> "A", dept |-> "d", route |-> NoName,
   basis |-> Unknown, state |-> Unknown, completed |-> Unknown, expected |-> Unknown, review |-> Unknown,
   dispatched |-> Unknown, arrival |-> Unknown, online |-> Unknown,
   kind |-> Unknown, score |-> Unknown, taken |-> Unknown, pdf |-> Unknown, qr |-> Unknown,
   certificate |-> Unknown, report |-> Unknown, g179 |-> Unknown, japanese |-> Unknown,
   materials |-> [common \in BOOLEAN |-> "unknown"], english |-> FALSE, application |-> FALSE]

MaybeTrue == {TRUE, FALSE, Unknown}
TargetForms ==
  {[Blank EXCEPT !.document = x, !.month = m, !.college = t[1], !.dept = t[2], !.route = t[3],
                 !.english = asks, !.application = asks, !.materials = k, !.basis = b] :
     x \in {"detailed", "other"}, m \in {4, 9, 10},
     t \in {<<"A", "d", NoName>>, <<"A", "d", "x">>, <<"B", "e", "x">>, <<"B", "e", NoName>>,
            <<"B", "math", NoName>>, <<"A", "math", NoName>>},
     asks \in BOOLEAN, b \in {Unknown, "graduation"},
     k \in {[common \in BOOLEAN |-> "available"], Blank.materials}}
EnglishForms ==
  {[Blank EXCEPT !.english = TRUE, !.kind = k, !.taken = w[1], !.pdf = w[2], !.score = w[3],
                 !.qr = v[1], !.certificate = v[2], !.report = v[3], !.g179 = v[4]] :
     k \in {"toeic", "toefl", "toeic_ip", "other", Unknown},
     w \in {<<d, p, Unknown>> : d \in {0, 1, Unknown}, p \in MaybeTrue} \cup {<<1, TRUE, 7>>},
     v \in {<<a, b, Unknown, Unknown>> : a \in MaybeTrue, b \in {TRUE, Unknown}}
           \cup {<<Unknown, Unknown, a, TRUE>> : a \in MaybeTrue}}
GraduationForms ==
  {[Blank EXCEPT !.application = TRUE, !.basis = b, !.state = s, !.completed = c, !.expected = e, !.review = v] :
     b \in {"graduation", "sixteen years", "fifteen years", "award", Unknown},
     s \in {"completed", "expected", "not_completed", Unknown},
     c \in {0, 2, Unknown}, e \in {1, 2, 4, Unknown}, v \in {"not_requested", "requested", Unknown}}
DispatchForms ==
  {[Blank EXCEPT !.application = TRUE, !.month = m, !.dispatched = d, !.arrival = a, !.online = o, !.japanese = o] :
     m \in {4, 9}, d \in {1, 2, Unknown}, a \in {0, 1, 2, 3, Unknown}, o \in MaybeTrue}

\* Of those that are refused, only the ones about dates.
MCForms ==
  {f \in TargetForms \cup EnglishForms \cup GraduationForms \cup DispatchForms :
     FormAccepted(f) \/ (f.application /\ f.review = Unknown /\ f.basis \in {Unknown, "graduation"})}

AllBoundedFields == MCBoundedFields \cup {"month", "arrival", "completed", "expected", "taken"}
DemoFields == DOMAIN DemoApplicantProfile(Blank).facts
AllFields == MCFields \cup DemoFields
\* What else the form may learn: a graduate of day 1 with a TOEIC result, from Japan.
Told == [DemoApplicantProfile([Blank EXCEPT
           !.basis = "graduation", !.state = "expected", !.expected = 1, !.kind = "toeic", !.taken = 1,
           !.pdf = TRUE, !.qr = TRUE, !.certificate = TRUE, !.arrival = 1, !.online = TRUE]).facts
         EXCEPT !.country = "JP"]
AllFactChoices ==
  [asked \in {MCFields, DemoFields} |->
     IF asked = MCFields THEN MCKnown ELSE {Told, [Told EXCEPT !.method = "with application"]}]

FormRequests ==
  {[via |-> "corpus", plan |-> DemoPlan(f.document), profile |-> DemoApplicantProfile(f), query |-> NoQuery,
    of |-> "this question", roles |-> Retrieved, registered |-> 1,
    selects |-> <<1, 1, 1>>, retrieves |-> {}, question |-> <<>>, provider |-> "offline", form |-> f] :
     f \in MCForms}
AllRequests == MCRequests \cup FormRequests
=============================================================================
