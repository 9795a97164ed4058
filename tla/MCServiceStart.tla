---------------------------- MODULE MCServiceStart ----------------------------
(* One document in two extractions of one PDF and one of a revised PDF.  The *)
(* revised plan waits for a corpus that is not there yet.                    *)
EXTENDS ServiceStart

CONSTANTS pdf1, pdf2,           \* PDFs
          cs, bio, geo,     \* departments
          earth             \* a course of another booklet

MCFact(text, covers) == [text |-> text, covers |-> covers]
MCKbs ==
  LET first == [day |-> MCFact("day", {}), year |-> MCFact("2026", {}),
                exam |-> MCFact("held", {cs}), life |-> MCFact("oral", {bio})]
  IN [k1 |-> [pdf |-> pdf1, pages |-> 2, facts |-> first],
      k2 |-> [pdf |-> pdf1, pages |-> 2, facts |-> [first EXCEPT !.day.text = "days", !.exam.text = "cancelled"]],
      k3 |-> [pdf |-> pdf2, pages |-> 2, facts |-> [first EXCEPT !.life.covers = {cs}]]]

MCEntries == {[pdf |-> MCKbs[k].pdf, kb |-> k, ready |-> r] : k \in DOMAIN MCKbs, r \in {TRUE}}
             \cup {[pdf |-> pdf1, kb |-> "k1", ready |-> FALSE]}

MCExamMaps ==
  LET texts == MCKbs["k1"].facts
  IN [v1 |-> [pdf |-> pdf1, kb |-> "k1", months |-> {4, 9}, shown |-> {"exam"},
              records |-> [year |-> texts.year, exam |-> texts.exam],
              departments |-> [d \in {cs} |-> [route |-> "b"]]],
      v2 |-> [pdf |-> pdf1, kb |-> "k1", months |-> {4, 9}, shown |-> {}, records |-> texts,
              departments |-> [d \in {cs, bio, geo} |->
                [route |-> IF d = cs THEN "b" ELSE Unset, courses |-> IF d = bio THEN {"bio"} ELSE {},
                 written |-> IF d = geo THEN Unset ELSE "held",
                 fields |-> [year |-> {"year"}, oral |-> IF d = cs THEN {"exam"} ELSE IF d = bio THEN {"life"} ELSE {}]]]]]

MCStartPlan(k) == [pdf |-> MCKbs[k].pdf, kb |-> k, facts |-> {"day"}]
MCDates(p) == [pdf |-> p, quotes |-> [m \in {9} |-> [day |-> "day"]]]
MCSetup(k, pages, dated, exams) ==
  LET p == IF k = "k3" THEN pdf2 ELSE pdf1
  IN [plans |-> MCStartPlan(k), scopes |-> [pdf |-> p, pages |-> pages], dates |-> IF dated THEN MCDates(p) ELSE Unset,
      source |-> IF dated THEN p ELSE Unset, v1 |-> exams, v2 |-> IF exams = Unset THEN Unset ELSE "reviewed"]
MCSetups ==
  {MCSetup(k, 2, TRUE, "reviewed") : k \in DOMAIN MCKbs}
  \cup {MCSetup("k1", 3, FALSE, "edited"), MCSetup("k1", 2, FALSE, Unset)}
  \cup {[MCSetup("k1", 2, FALSE, "reviewed") EXCEPT !.plans = Unset, !.scopes = Unset]}

MCBaseQuery(m, d, x, c) ==
  [month |-> m, dept |-> d, route |-> IF d = cs THEN "b" ELSE Unset, exam |-> x, course |-> c]
MCBaseQueries ==
  {MCBaseQuery(9, d, x, Unset) : d \in {cs, bio}, x \in {"v1", "v2"}}
  \cup {MCBaseQuery(10, cs, "v2", Unset), MCBaseQuery(9, geo, "v2", Unset), MCBaseQuery(9, bio, "v2", earth), MCBaseQuery(9, cs, "none", earth)}
=============================================================================
