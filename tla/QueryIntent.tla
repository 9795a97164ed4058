----------------------------- MODULE QueryIntent -----------------------------
(***************************************************************************)
(* What a question asks for (reasoning/query_intent.py).  The names and    *)
(* aliases of a reviewed catalog are looked for in the normalised          *)
(* question; of those that overlap the first and longest is kept, kind by  *)
(* kind; what is kept gives the categories and the scope of the question.  *)
(*                                                                         *)
(* A text is a sequence of segments, each a character with its combining   *)
(* marks.  Normalisation makes one or several characters of a segment, so  *)
(* that what is found always covers whole segments of the question.        *)
(*                                                                         *)
(* A catalog is [entities, lexicon, ambiguous]: sets of [kind, value,      *)
(* aliases], of [category, aliases] and of [kind, surface, values], where  *)
(* values, categories, aliases and surfaces are texts.                     *)
(***************************************************************************)
EXTENDS Integers, Sequences, FiniteSets
LOCAL Seqs == INSTANCE SequencesExt

CONSTANTS
  NormalForm,  \* [segments -> sequences of characters]
  Code,        \* [segments -> Nat]: how strings are sorted
  Digits,      \* the ten digits among the characters, from zero
  YearSuffix,  \* characters that make four digits a year of entry
  ScopeWords   \* texts that sound like the name of a department

-----------------------------------------------------------------------------
(* Texts.                                                                  *)

\* The characters of a text in normal form, each with its segment.
NormalizeWithOffsets(text) ==
  Seqs!FlattenSeq([i \in DOMAIN text |->
                [k \in DOMAIN NormalForm[text[i]] |-> [char |-> NormalForm[text[i]][k], at |-> i]]])

SpellsAt(n, k, chars) ==
  /\ k + Len(chars) - 1 <= Len(n)
  /\ \A h \in DOMAIN chars : n[k + h - 1].char = chars[h]

\* The segments under `length` characters from the k-th.
OriginalRange(n, k, length) == [from |-> n[k].at, to |-> n[k + length - 1].at + 1]

\* Where a surface occurs, overlapping occurrences included.
FindNormalized(text, surface) ==
  LET n == NormalizeWithOffsets(text)
      s == NormalizeWithOffsets(surface)
      chars == [h \in DOMAIN s |-> s[h].char]
  IN {OriginalRange(n, k, Len(s)) : k \in {x \in DOMAIN n : SpellsAt(n, x, chars)}}

Occurs(word, text) ==
  \E k \in DOMAIN text : k + Len(word) - 1 <= Len(text) /\ SubSeq(text, k, k + Len(word) - 1) = word

TextBefore(a, b) ==
  \E k \in DOMAIN b :
    /\ k <= Len(a) + 1 /\ SubSeq(a, 1, k - 1) = SubSeq(b, 1, k - 1)
    /\ k = Len(a) + 1 \/ Code[a[k]] < Code[b[k]]

\* The first of some texts, if there is one.
FirstText(texts) == {x \in texts : \A y \in texts \ {x} : TextBefore(x, y)}

DigitChars == {Digits[i] : i \in DOMAIN Digits}
Number(text) ==
  Seqs!FoldLeft(LAMBDA value, x : 10 * value + (CHOOSE i \in DOMAIN Digits : Digits[i] = x.char) - 1,
           0, NormalizeWithOffsets(text))
Least(numbers) == {x \in numbers : \A y \in numbers : x <= y}

-----------------------------------------------------------------------------
(* The catalog.  An alias of several values has to be declared ambiguous.  *)

CatalogAccepted(c) ==
  LET Meant(kind, alias) == {e.value : e \in {x \in c.entities : x.kind = kind /\ alias \in x.aliases}}
  IN /\ \A e, f \in c.entities : <<e.kind, e.value>> = <<f.kind, f.value>> => e = f
     /\ \A e, f \in c.lexicon : e # f => e.category # f.category /\ e.aliases \cap f.aliases = {}
     /\ \A a, b \in c.ambiguous : <<a.kind, a.surface>> = <<b.kind, b.surface>> => a = b
     /\ \A a \in c.ambiguous : Cardinality(a.values) > 1 /\ Meant(a.kind, a.surface) = a.values
     /\ \A e \in c.entities : \A alias \in e.aliases :
          /\ \A f \in c.entities : f.kind = e.kind => f.value # alias
          /\ Cardinality(Meant(e.kind, alias)) > 1 =>
               \E a \in c.ambiguous : a.kind = e.kind /\ a.surface = alias

-----------------------------------------------------------------------------
(* Candidates and which of them are kept.                                  *)

Mention(range, kind, value) == [from |-> range.from, to |-> range.to, kind |-> kind, value |-> value]
Overlap(a, b) == a.from < b.to /\ b.from < a.to

AmbiguousRanges(text, c) == UNION {FindNormalized(text, a.surface) : a \in c.ambiguous}

Names(text, e) == UNION {FindNormalized(text, s) : s \in {e.value} \cup e.aliases}

YearRanges(text) ==
  LET n == NormalizeWithOffsets(text)
      IsDigit(k) == k \in DOMAIN n /\ n[k].char \in DigitChars
  IN {OriginalRange(n, k, 4) : k \in {x \in DOMAIN n :
        /\ ~IsDigit(x - 1) /\ IsDigit(x + 2) /\ IsDigit(x + 3)
        /\ SpellsAt(n, x, <<Digits[3], Digits[1]>>) /\ SpellsAt(n, x + 4, YearSuffix)}}

MentionCandidates(text, c) ==
  LET ambiguous == AmbiguousRanges(text, c)
  IN (UNION {{Mention(r, e.kind, e.value) : r \in Names(text, e) \ ambiguous} : e \in c.entities})
     \cup (UNION {{Mention(r, "intent", l.category) :
                     r \in UNION {FindNormalized(text, s) : s \in l.aliases}} : l \in c.lexicon})
     \cup {Mention(r, "intake_year", SubSeq(text, r.from, r.to - 1)) : r \in YearRanges(text)}

SortsBefore(a, b) ==
  \/ a.from < b.from
  \/ a.from = b.from /\ a.to > b.to
  \/ a.from = b.from /\ a.to = b.to /\ TextBefore(a.value, b.value)

\* In the order of SortsBefore, whatever overlaps nothing kept of its kind.
SelectLongestNonOverlapping(candidates) ==
  CHOOSE kept \in SUBSET candidates : \A c \in candidates :
    c \in kept <=> \A s \in kept : s.kind = c.kind /\ SortsBefore(s, c) => ~Overlap(s, c)

Values(mentions, kind) == {m.value : m \in {x \in mentions : x.kind = kind}}

IntentDiagnostics(text, c, candidates, mentions) ==
  LET D(name, condition) == IF condition THEN {name} ELSE {}
      ambiguous == AmbiguousRanges(text, c) # {}
      Said(kind) == Values(mentions, kind) # {}
  IN D("ambiguous_alias", ambiguous)
     \cup D("overlapping_match",
            \E a, b \in candidates : Overlap(a, b) /\ <<a.kind, a.value>> # <<b.kind, b.value>>)
     \cup D("no_recognized_intent", ~Said("intent"))
     \cup D("unmapped_retrieval_context", Said("degree_level") \/ Said("intake_year") \/ Said("intake_month"))
     \cup D("unknown_scope_entity",
            /\ \E w \in ScopeWords : Occurs(w, text)
            /\ ~Said("scope_target") /\ ~Said("parent_college") /\ ~ambiguous)

ParseQueryIntent(text, c) ==
  LET candidates == MentionCandidates(text, c)
      mentions == SelectLongestNonOverlapping(candidates)
  IN [query |-> text, mentions |-> mentions,
      categories |-> Values(mentions, "intent"),
      targets |-> Values(mentions, "scope_target"),
      colleges |-> Values(mentions, "parent_college"),
      degree |-> FirstText(Values(mentions, "degree_level")),
      year |-> {Number(y) : y \in FirstText(Values(mentions, "intake_year"))},
      month |-> {Number(m) : m \in FirstText(Values(mentions, "intake_month"))},
      diagnostics |-> IntentDiagnostics(text, c, candidates, mentions)]

\* The contract of an intent: its fields are those its mentions give again.
IntentReconciles(i) ==
  LET Numbers(kind) == {Number(x) : x \in Values(i.mentions, kind)}
  IN /\ \A m \in i.mentions : 1 <= m.from /\ m.from < m.to /\ m.to <= Len(i.query) + 1
     /\ i.categories = Values(i.mentions, "intent")
     /\ i.targets = Values(i.mentions, "scope_target")
     /\ i.colleges = Values(i.mentions, "parent_college")
     /\ i.degree = FirstText(Values(i.mentions, "degree_level"))
     /\ i.year = Least(Numbers("intake_year"))
     /\ i.month = Least(Numbers("intake_month"))

\* What the routes refuse to go on with.
QuestionRefused(i) == i.diagnostics \cap {"no_recognized_intent", "ambiguous_alias"} # {}

\* Of two years, or two months, one comes first as a string and the other as a
\* number: the one case in which an intent is refused by its own contract.
SpelledOutOfOrder(i) ==
  \E kind \in {"intake_year", "intake_month"} : \E x, y \in Values(i.mentions, kind) :
    TextBefore(x, y) /\ Number(y) < Number(x)

\* A target that the question names by a name no other candidate reaches out of.
PlainlyNamed(text, c) ==
  LET candidates == MentionCandidates(text, c)
      Within(d, r) == r.from <= d.from /\ d.to <= r.to /\ <<d.from, d.to>> # <<r.from, r.to>>
  IN {e.value : e \in {x \in c.entities :
        /\ x.kind = "scope_target"
        /\ \E r \in Names(text, x) \ AmbiguousRanges(text, c) : \A d \in candidates :
             d.kind = x.kind /\ Overlap(r, d) => d.value = x.value \/ Within(d, r)}}
=============================================================================
