-------------------------- MODULE MCEvidenceSearch --------------------------
(***************************************************************************)
(* A small instance of EvidenceSearch: two documents, four possible PDFs   *)
(* (one with headings, a department banner, a clear, an ambiguous and a    *)
(* dangling reference; one where a chunk cites a result and is cited; one  *)
(* that fails its quality gate; one with a chunk that stops the build) and  *)
(* searches of one index or the corpus.                                    *)
(***************************************************************************)
EXTENDS EvidenceSearch

Ref(label, key, direction) == [label |-> label, key |-> key, direction |-> direction]
Anchor(key, label) == [key |-> key, label |-> label, inTitle |-> FALSE]

Chunk(text, title, page, near, terms) ==
  [class |-> "informative", asFact |-> "informative", text |-> text, title |-> title,
   path |-> {title} \ {None}, pages |-> {page}, category |-> "exam", oversized |-> FALSE,
   banner |-> None, ends |-> FALSE, forAll |-> FALSE, scope |-> Global,
   anchors |-> {}, refs |-> <<>>, near |-> near, terms |-> terms]

\* A banner names a department of college A that the catalogue has or lacks, or
\* is the cover of the joint program.
Department(unit, known) == [type |-> "department", unit |-> unit, college |-> "A", catalogued |-> known]
JointProgram == [type |-> "program", unit |-> "j", college |-> None, catalogued |-> TRUE]

Near(x, y) == [one |-> x, two |-> y]
Said(w, n) == [t \in {w} |-> n]

MCChunks ==
  [a |-> <<[Chunk("h", "s1", 1, Near(0, 0), Said("u", 1)) EXCEPT !.class = "heading_only"],
           [Chunk("a1", "s1", 2, Near(3, 1), Said("u", 2)) EXCEPT
              !.refs = <<Ref("below 3", "item3", "forward"), Ref("below 3", "item3", "forward"),
                         Ref("annex 1", "annex1", "any")>>],
           [Chunk("a2", "s2", 2, Near(1, 3), Said("v", 1)) EXCEPT
              !.banner = Department("d", TRUE),
              !.anchors = {Anchor("item3", "(3)")},
              !.refs = <<Ref("above 1", "item1", "backward"), Ref("item 1", "item1", "any")>>],
           [Chunk("p", "s2", 3, Near(0, 0), Said("u", 1)) EXCEPT !.class = "page_only"],
           [Chunk("a3", "s3", 4, Near(2, 2), [t \in {"u", "v"} |-> 1]) EXCEPT
              !.forAll = TRUE,
              !.anchors = {[Anchor("item3", "(3)") EXCEPT !.inTitle = TRUE], Anchor("item1", "(1)")}],
           [Chunk("a4", "s4", 5, Near(2, 3), Said("v", 2)) EXCEPT
              !.ends = TRUE, !.refs = <<Ref("item 1", "item1", "any")>>]>>,
   b |-> <<[Chunk("b1", "t1", 1, Near(1, 2), Said("u", 1)) EXCEPT
              !.anchors = {Anchor("item1", "1."), Anchor("item1", "(1)")},
              !.refs = <<Ref("table 2", "item2", "any")>>],
           [Chunk("b2", "t2", 1, Near(2, 2), Said("v", 1)) EXCEPT
              !.category = "fee", !.banner = Department("z", FALSE), !.scope = [type |-> "college", targets |-> {"A"}, college |-> None],
              !.anchors = {Anchor("item2", "(2)")},
              !.refs = <<Ref("above 1", "item1", "backward"), Ref("table 2", "item2", "any")>>],
           [Chunk("b3", None, 1, Near(3, 0), Said("u", 3)) EXCEPT
              !.banner = JointProgram, !.anchors = {Anchor("item2", "(2)")}]>>,
   c |-> <<[Chunk("c1", "x", 1, Near(3, 3), Said("u", 1)) EXCEPT !.scope.type = "unknown"],
           Chunk("c2", None, 1, Near(3, 3), Said("v", 1))>>,
   d |-> <<[Chunk("d1", "y", 1, Near(3, 3), Said("u", 1)) EXCEPT !.oversized = TRUE]>>]

NoFilter == [types |-> {}, scopes |-> {}, targets |-> {}, colleges |-> {}]
NoPreference == [targets |-> {}, colleges |-> {}]
Ask1(mode, docs, query, terms, top, candidates, filter, prefer) ==
  [mode |-> mode, docs |-> docs, query |-> query, terms |-> terms, provider |-> "e1",
   top |-> top, candidates |-> candidates, filter |-> filter, prefer |-> prefer]

MCRequests ==
  {Ask1("metadata", {1}, q, w, top, k, NoFilter, prefer) :
     q \in {"one", "two"}, w \in {{"u"}, {"v"}, {"u", "v"}}, top \in {1, 2}, k \in {0, 3},
     prefer \in {NoPreference, [targets |-> {"d"}, colleges |-> {"A"}]}}
  \cup {Ask1("metadata", {1}, "one", {"u"}, 2, 2, 
             [NoFilter EXCEPT !.types = {"exam"}, !.scopes = {"global", "department"}], NoPreference),
        Ask1("metadata", {1}, "two", {"v"}, 3, 2, NoFilter, NoPreference),
        Ask1("corpus", {2}, "two", {"u"}, 2, 0, NoFilter, NoPreference),
        Ask1("corpus", {1, 2}, "one", {"u", "v"}, 3, 3, [NoFilter EXCEPT !.targets = {"d", "A"}],
             NoPreference),
        Ask1("corpus", {1, 2}, "two", {"u", "v"}, 3, 4, NoFilter,
             [targets |-> {"A"}, colleges |-> {"A"}]),
        Ask1("corpus", {1, 2}, "one", {"u"}, 2, 2, [NoFilter EXCEPT !.colleges = {"A"}],
             NoPreference)}

MCLimits == [pages |-> 0, paths |-> 0, noninformative |-> 0, oversized |-> 0,
             unknown |-> None, unresolved |-> 2, ambiguous |-> 2]
=============================================================================
