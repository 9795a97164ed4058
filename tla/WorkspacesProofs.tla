-------------------------- MODULE WorkspacesProofs --------------------------
(***************************************************************************)
(* What stands in the workspaces a browser shows, for every value of the   *)
(* constants: the runtime of the demo, the presentations the service has   *)
(* loaded at its start, the candidates of the reviewed import, the         *)
(* conclusions of the material slices, what the pages are sent of them and *)
(* what the pages show.  Each part has an inductive invariant of its own.  *)
(***************************************************************************)
EXTENDS DemoRuntime, ServiceStart, ReferenceService, AdvancedPage, UnifiedPage, TLAPS

(***************************************************************************)
(* Demo runtime.  A workspace keeps a whole runtime, for any number of     *)
(* processes that prepare it, configurations and failures.  Two things     *)
(* make it inductive: a backup that is about to be removed is never the    *)
(* only whole runtime, and while no runtime is active and nothing has      *)
(* failed, some process between the two renames holds the former one.      *)
(***************************************************************************)

DemoStep == {"idle", "auditing", "building", "built", "staged", "activating", "placing",
             "placed", "restoring", "failed"}

DemoTypeOK ==
  /\ runtime \in Bundle \cup {NoRuntime}
  /\ stage \in [Preparer -> Runtime]
  /\ backup \in [Preparer -> Bundle \cup {NoRuntime}]
  /\ pc \in [Preparer -> DemoStep]
  /\ bundle \in [Preparer -> Bundle \cup {NoRuntime}]
  /\ failures \in Nat

\* A process builds what it was asked for and puts in place what it has built.
StagesWhole ==
  \A p \in Preparer :
    /\ pc[p] \in {"building", "built", "staged"} => bundle[p] \in Bundle
    /\ pc[p] \in {"activating", "placing"} => stage[p] \in Bundle

\* Not counting the backups that their processes remove next.
WholeOnDisk ==
  activated =>
    \/ runtime \in Bundle
    \/ \E x \in litter : x \in Bundle
    \/ \E p \in Preparer : pc[p] # "placed" /\ backup[p] \in Bundle

SomeoneReturnsIt ==
  activated =>
    \/ runtime # NoRuntime
    \/ failures > 0
    \/ \E p \in Preparer : pc[p] \in {"placing", "restoring"} /\ backup[p] # NoRuntime

KeptInv == DemoTypeOK /\ StagesWhole /\ WholeOnDisk /\ SomeoneReturnsIt

-----------------------------------------------------------------------------
LEMMA InitKeptInv == DemoInit => KeptInv
BY DemoAssumption
   DEF DemoInit, KeptInv, DemoTypeOK, DemoStep, Runtime, StagesWhole, WholeOnDisk, SomeoneReturnsIt

LEMMA NextKeptInv == KeptInv /\ [DemoNext]_demoVars => KeptInv'
<1> SUFFICES ASSUME KeptInv, [DemoNext]_demoVars PROVE KeptInv'
  OBVIOUS
<1> USE DemoAssumption DEF KeptInv, DemoTypeOK, DemoStep, Runtime, At, Go
<1>1. ASSUME NEW p \in Preparer, NEW b \in Bundle, NEW r \in BOOLEAN, Prepare(p, b, r)
      PROVE KeptInv'
  BY <1>1 DEF Prepare, StagesWhole, WholeOnDisk, SomeoneReturnsIt
<1>2. ASSUME NEW p \in Preparer, Reuse(p) PROVE KeptInv'
  BY <1>2 DEF Reuse, StagesWhole, WholeOnDisk, SomeoneReturnsIt
<1>3. ASSUME NEW p \in Preparer, BuildRuntime(p) PROVE KeptInv'
  BY <1>3 DEF BuildRuntime, StagesWhole, WholeOnDisk, SomeoneReturnsIt
<1>4. ASSUME NEW p \in Preparer, FinishStage(p) PROVE KeptInv'
  BY <1>4 DEF FinishStage, Fails, StagesWhole, WholeOnDisk, SomeoneReturnsIt
<1>5. ASSUME NEW p \in Preparer, ValidateStage(p) PROVE KeptInv'
  BY <1>5 DEF ValidateStage, StagesWhole, WholeOnDisk, SomeoneReturnsIt
<1>6. ASSUME NEW p \in Preparer, SetAside(p) PROVE KeptInv'
  <2>1. DemoTypeOK' /\ StagesWhole'
    BY <1>6 DEF SetAside, Fails, StagesWhole
  <2>2. WholeOnDisk'
    BY <1>6 DEF SetAside, Fails, WholeOnDisk
  <2>3. SomeoneReturnsIt'
    BY <1>6 DEF SetAside, Fails, SomeoneReturnsIt
  <2> QED
    BY <2>1, <2>2, <2>3
<1>7. ASSUME NEW p \in Preparer, Place(p) PROVE KeptInv'
  <2>1. DemoTypeOK' /\ StagesWhole'
    BY <1>7 DEF Place, Fails, StagesWhole
  <2>2. WholeOnDisk'
    BY <1>7 DEF Place, Fails, WholeOnDisk, StagesWhole
  <2>3. stage[p] # NoRuntime
    BY <1>7 DEF Place, StagesWhole
  <2>4. SomeoneReturnsIt'
    <3>1. CASE runtime' = stage[p]
      BY <2>3, <3>1 DEF SomeoneReturnsIt
    <3>2. CASE runtime = NoRuntime /\ Fails
      BY <3>2 DEF Fails, SomeoneReturnsIt
    <3>3. CASE runtime # NoRuntime /\ UNCHANGED runtime
      BY <3>3 DEF SomeoneReturnsIt
    <3> QED
      BY <1>7, <3>1, <3>2, <3>3 DEF Place
  <2> QED
    BY <2>1, <2>2, <2>4
<1>8. ASSUME NEW p \in Preparer, Restore(p) PROVE KeptInv'
  <2>1. DemoTypeOK' /\ StagesWhole'
    BY <1>8 DEF Restore, Fails, StagesWhole
  <2>2. WholeOnDisk'
    BY <1>8 DEF Restore, Fails, WholeOnDisk
  <2>3. SomeoneReturnsIt'
    BY <1>8 DEF Restore, Fails, SomeoneReturnsIt
  <2> QED
    BY <2>1, <2>2, <2>3
<1>9. ASSUME NEW p \in Preparer, RemoveBackup(p) PROVE KeptInv'
  BY <1>9 DEF RemoveBackup, Fails, StagesWhole, WholeOnDisk, SomeoneReturnsIt
<1>10. ASSUME NEW p \in Preparer, RemoveOwnedStage(p) PROVE KeptInv'
  BY <1>10 DEF RemoveOwnedStage, StagesWhole, WholeOnDisk, SomeoneReturnsIt
<1>11. ASSUME NEW p \in Preparer, Die(p) PROVE KeptInv'
  <2>1. DemoTypeOK' /\ StagesWhole' /\ SomeoneReturnsIt'
    BY <1>11 DEF Die, Fails, StagesWhole, SomeoneReturnsIt
  <2>2. WholeOnDisk'
    BY <1>11 DEF Die, Fails, WholeOnDisk
  <2> QED
    BY <2>1, <2>2
<1>12. CASE UNCHANGED demoVars
  BY <1>12 DEF demoVars, StagesWhole, WholeOnDisk, SomeoneReturnsIt
<1> QED
  BY <1>1, <1>2, <1>3, <1>4, <1>5, <1>6, <1>7, <1>8, <1>9, <1>10, <1>11, <1>12 DEF DemoNext

\* Once a workspace had a runtime it has a whole one, however many processes
\* prepare it at once, die or are refused a rename; and it is the active one as
\* long as nothing failed and nobody is between the two renames
\* (_activate_runtime, demo.py 689-716).
THEOREM RuntimeStaysWhole == DemoSpec => []RuntimeKept
<1>1. KeptInv => RuntimeKept
  BY DemoAssumption
     DEF KeptInv, DemoTypeOK, WholeOnDisk, SomeoneReturnsIt, RuntimeKept
<1> QED
  BY <1>1, InitKeptInv, NextKeptInv, PTL DEF DemoSpec

(***************************************************************************)
(* Service start.  A part is loaded only after the comparison its phase    *)
(* makes with the KB file of that moment; so what is shown later needs no  *)
(* more than the part and the entry the answer is about.                   *)
(***************************************************************************)

StartSpec == StartInit /\ [][StartNext]_startVars

LoadedPart == ReportParts \cup ExamParts \cup {"source"}

\* A part that is loaded was compared with the files of the moment it was read at.
PartsReviewed ==
  /\ state.v1 # Unset => \E k \in DOMAIN Kbs :
       state.v1 = Kbs[k].facts /\ ExamRecordsMatch(ExamMaps["v1"], Kbs[k])
  /\ state.v2 # Unset => \E k \in DOMAIN Kbs :
       state.v2 = Kbs[k].facts /\ ExamFieldsMatch(ExamMaps["v2"], Kbs[k])
  /\ state.source # Unset => state.plans # Unset /\ state.plans.pdf = state.source
  /\ state.dates # Unset /\ ~moved => HighlightsMatch(state.dates, Kbs[kbFile])

\* The parts come one after another, and nothing is loaded once the service serves.
OneAfterAnother ==
  /\ phase \in {"plans", "scopes", "dates", "source", "v1", "v2", "serving"}
  /\ audited => phase \in {"scopes", "dates", "v1", "v2"}
  /\ state.source # Unset => phase \in {"v1", "v2", "serving"}
  /\ delivered # Unset => phase = "serving"

StartInv ==
  /\ entry \in Entries /\ kbFile \in DOMAIN Kbs
  /\ state = [p \in LoadedPart |-> state[p]]
  /\ OneAfterAnother /\ PartsReviewed /\ PresentationsStand

-----------------------------------------------------------------------------
LEMMA PartsInOrder ==
  /\ DOMAIN Parts = 1..7
  /\ Parts[1] = "plans" /\ Parts[2] = "scopes" /\ Parts[3] = "dates" /\ Parts[4] = "source"
  /\ Parts[5] = "v1" /\ Parts[6] = "v2" /\ Parts[7] = "serving"
  /\ \A i \in 1..7 : Position(Parts[i]) = i
<1>1. /\ DOMAIN Parts = 1..7
      /\ Parts[1] = "plans" /\ Parts[2] = "scopes" /\ Parts[3] = "dates" /\ Parts[4] = "source"
      /\ Parts[5] = "v1" /\ Parts[6] = "v2" /\ Parts[7] = "serving"
  BY DEF Parts
<1>2. \A i, j \in 1..7 : Parts[i] = Parts[j] => i = j
  BY <1>1
<1>3. \A i \in 1..7 : Position(Parts[i]) = i
  BY <1>1, <1>2 DEF Position
<1> QED
  BY <1>1, <1>3

LEMMA LaterPart ==
  ASSUME NEW i \in 1..6 PROVE \E j \in i + 1 .. 7 : PhaseAfter(Parts[i]) = Parts[j]
<1> DEFINE Named(j) == j > i /\ (Parts[j] = "serving" \/ settings[Parts[j]] # Unset)
           Least(n) == Named(n) /\ \A j \in 1..7 : Named(j) => n <= j
<1>1. Named(7)
  BY PartsInOrder
<1>2. \E n \in 1..7 : Least(n)
  <2> HIDE DEF Named
  <2>1. CASE Named(1)
    BY <2>1
  <2>2. CASE ~Named(1) /\ Named(2)
    BY <2>2
  <2>3. CASE ~Named(1) /\ ~Named(2) /\ Named(3)
    BY <2>3
  <2>4. CASE ~Named(1) /\ ~Named(2) /\ ~Named(3) /\ Named(4)
    BY <2>4
  <2>5. CASE ~Named(1) /\ ~Named(2) /\ ~Named(3) /\ ~Named(4) /\ Named(5)
    BY <2>5
  <2>6. CASE ~Named(1) /\ ~Named(2) /\ ~Named(3) /\ ~Named(4) /\ ~Named(5) /\ Named(6)
    BY <2>6
  <2>7. CASE ~Named(1) /\ ~Named(2) /\ ~Named(3) /\ ~Named(4) /\ ~Named(5) /\ ~Named(6)
    BY <2>7, <1>1
  <2> QED
    BY <2>1, <2>2, <2>3, <2>4, <2>5, <2>6, <2>7
<1>3. PhaseAfter(Parts[i]) = Parts[CHOOSE n \in 1..7 : Least(n)]
  BY PartsInOrder DEF PhaseAfter
<1>4. Least(CHOOSE n \in 1..7 : Least(n)) /\ (CHOOSE n \in 1..7 : Least(n)) \in 1..7
  <2> HIDE DEF Least
  <2> QED
    BY <1>2
<1> QED
  <2> DEFINE c == CHOOSE n \in 1..7 : Least(n)
  <2>1. c > i /\ c \in 1..7
    BY <1>4
  <2>2. c \in i + 1 .. 7
    <3> HIDE DEF c
    <3> QED
      BY <2>1
  <2> QED
    BY <1>3, <2>2

LEMMA LaterPhase ==
  /\ \A p \in {"plans", "scopes", "dates", "source", "v1", "v2"} :
       PhaseAfter(p) \in {"scopes", "dates", "source", "v1", "v2", "serving"}
  /\ PhaseAfter("dates") \in {"source", "v1", "v2", "serving"}
  /\ \A p \in {"source", "v1", "v2"} : PhaseAfter(p) \in {"v1", "v2", "serving"}
<1>1. \A i \in 1..6 : \E j \in i + 1 .. 7 : PhaseAfter(Parts[i]) = Parts[j]
  BY LaterPart
<1> QED
  BY <1>1, PartsInOrder

-----------------------------------------------------------------------------
LEMMA StartInitInv == StartInit => StartInv
<1> SUFFICES ASSUME StartInit PROVE StartInv
  OBVIOUS
<1>1. entry \in Entries /\ kbFile \in DOMAIN Kbs /\ state = [p \in LoadedPart |-> Unset]
  BY StartAssumption DEF StartInit, LoadedPart
<1>2. phase \in {"plans", "scopes", "dates", "source", "v1", "v2", "serving"}
  BY LaterPhase DEF StartInit
<1>3. OneAfterAnother
  BY <1>1, <1>2 DEF StartInit, OneAfterAnother, LoadedPart, ReportParts, ExamParts
<1>4. PartsReviewed
  BY <1>1 DEF PartsReviewed, LoadedPart, ReportParts, ExamParts
<1>5. PresentationsStand
  BY DEF StartInit, PresentationsStand
<1> QED
  BY <1>1, <1>3, <1>4, <1>5 DEF StartInv

\* The corpus and the PDF file may change at any time: what is loaded stays.
LEMMA TouchesKeep ==
  StartInv /\ (PublishCorpus \/ RewriteKbFile \/ RewritePdfFile) => StartInv'
<1> SUFFICES ASSUME StartInv, PublishCorpus \/ RewriteKbFile \/ RewritePdfFile PROVE StartInv'
  OBVIOUS
<1> USE DEF StartInv, Touches
<1>1. /\ moved' = TRUE
      /\ UNCHANGED <<settings, phase, audited, state, failed, delivered>>
      /\ entry' \in Entries /\ kbFile' \in DOMAIN Kbs
  BY StartAssumption DEF PublishCorpus, RewriteKbFile, RewritePdfFile
<1>2. OneAfterAnother'
  BY <1>1 DEF OneAfterAnother
<1>3. PartsReviewed'
  BY <1>1 DEF PartsReviewed
<1>4. PresentationsStand'
  BY <1>1 DEF PresentationsStand, ExamMapOf
<1> QED
  BY <1>1, <1>2, <1>3, <1>4

LEMMA FailureKeeps ==
  ASSUME StartInv, PartFails, phase # "serving",
         UNCHANGED <<settings, entry, kbFile, pdfFile, delivered, changes, moved>>
  PROVE  StartInv'
<1> USE DEF StartInv
<1>1. audited' = FALSE /\ phase' \in {"scopes", "dates", "source", "v1", "v2", "serving"}
  BY LaterPhase DEF PartFails, OneAfterAnother, ReportParts
<1>2. state' = [p \in LoadedPart |-> state'[p]]
  BY DEF PartFails
<1>3. \A p \in LoadedPart : state'[p] = state[p] \/ (p \in ReportParts /\ state'[p] = Unset)
  BY DEF PartFails
<1>4. phase \in ReportParts => state.source = Unset
  BY DEF OneAfterAnother, ReportParts
<1>5. phase \notin ReportParts => state' = state /\ phase' \in {"v1", "v2", "serving"}
  BY LaterPhase DEF PartFails, OneAfterAnother, ReportParts
<1>6. /\ state'.v1 = state.v1 /\ state'.v2 = state.v2 /\ state'.source = state.source
      /\ state'.dates \in {state.dates, Unset}
  BY <1>3 DEF LoadedPart, ReportParts, ExamParts
<1>7. OneAfterAnother'
  BY <1>1, <1>4, <1>5, <1>6 DEF OneAfterAnother
<1>8. PartsReviewed'
  BY <1>4, <1>5, <1>6 DEF PartsReviewed
<1>9. PresentationsStand'
  BY <1>6 DEF PresentationsStand, OneAfterAnother
<1> QED
  BY <1>2, <1>7, <1>8, <1>9

\* A part that is loaded is the one its phase is of, and meets what is said of it.
LEMMA LoadingKeeps ==
  ASSUME StartInv, NEW value, PartLoads(value), phase # "serving",
         phase = "v1" => \E k \in DOMAIN Kbs :
           value = Kbs[k].facts /\ ExamRecordsMatch(ExamMaps["v1"], Kbs[k]),
         phase = "v2" => \E k \in DOMAIN Kbs :
           value = Kbs[k].facts /\ ExamFieldsMatch(ExamMaps["v2"], Kbs[k]),
         phase = "source" => state.plans # Unset /\ state.plans.pdf = value,
         phase = "dates" => HighlightsMatch(value, Kbs[kbFile]),
         UNCHANGED <<settings, entry, kbFile, pdfFile, delivered, changes, moved>>
  PROVE  StartInv'
<1> USE DEF StartInv
<1>1. audited' = FALSE /\ phase' \in {"scopes", "dates", "source", "v1", "v2", "serving"}
  BY LaterPhase DEF PartLoads, OneAfterAnother
<1>2. state' = [p \in LoadedPart |-> state'[p]]
  BY DEF PartLoads
<1>3. \A p \in LoadedPart : state'[p] = IF p = phase THEN value ELSE state[p]
  BY DEF PartLoads
<1>4. phase \in {"source", "v1", "v2"} => phase' \in {"v1", "v2", "serving"}
  BY LaterPhase DEF PartLoads
<1>5. phase \in {"plans", "scopes", "dates"} => state.source = Unset
  BY DEF OneAfterAnother
<1>6. /\ state'.v1 = IF phase = "v1" THEN value ELSE state.v1
      /\ state'.v2 = IF phase = "v2" THEN value ELSE state.v2
      /\ state'.source = IF phase = "source" THEN value ELSE state.source
      /\ state'.plans = IF phase = "plans" THEN value ELSE state.plans
      /\ state'.dates = IF phase = "dates" THEN value ELSE state.dates
  BY <1>3 DEF LoadedPart, ReportParts, ExamParts
<1>7. delivered = Unset
  BY DEF OneAfterAnother
<1>8. OneAfterAnother'
  BY <1>1, <1>4, <1>5, <1>6, <1>7 DEF OneAfterAnother
<1>9. PartsReviewed'
  <2>1. (state.v1 # Unset => \E k \in DOMAIN Kbs :
           state.v1 = Kbs[k].facts /\ ExamRecordsMatch(ExamMaps["v1"], Kbs[k]))'
    BY <1>6 DEF PartsReviewed
  <2>2. (state.v2 # Unset => \E k \in DOMAIN Kbs :
           state.v2 = Kbs[k].facts /\ ExamFieldsMatch(ExamMaps["v2"], Kbs[k]))'
    BY <1>6 DEF PartsReviewed
  <2>3. (state.source # Unset => state.plans # Unset /\ state.plans.pdf = state.source)'
    BY <1>5, <1>6 DEF PartsReviewed
  <2>4. (state.dates # Unset /\ ~moved => HighlightsMatch(state.dates, Kbs[kbFile]))'
    <3>1. CASE phase = "dates"
      BY <3>1, <1>6
    <3>2. CASE phase # "dates"
      BY <3>2, <1>6 DEF PartsReviewed
    <3> QED
      BY <3>1, <3>2
  <2> QED
    BY <2>1, <2>2, <2>3, <2>4 DEF PartsReviewed
<1>10. PresentationsStand'
  BY <1>7 DEF PresentationsStand
<1> QED
  BY <1>2, <1>8, <1>9, <1>10

LEMMA PartsKeep ==
  StartInv /\ (LoadReportPlans \/ AuditPart \/ ReadPart \/ LoadSourceDocument) => StartInv'
<1> SUFFICES ASSUME StartInv PROVE (LoadReportPlans \/ AuditPart \/ ReadPart \/ LoadSourceDocument) => StartInv'
  OBVIOUS
<1>1. ASSUME LoadReportPlans PROVE StartInv'
  <2>1. PartLoads(settings.plans) \/ PartFails
    BY <1>1 DEF LoadReportPlans
  <2>2. CASE PartFails
    BY <1>1, <2>2, FailureKeeps DEF LoadReportPlans
  <2>3. CASE PartLoads(settings.plans)
    BY <1>1, <2>3, LoadingKeeps DEF LoadReportPlans
  <2> QED
    BY <2>1, <2>2, <2>3
<1>2. ASSUME AuditPart PROVE StartInv'
  <2>1. CASE PartFails
    BY <1>2, <2>1, FailureKeeps DEF AuditPart
  <2>2. CASE audited' = TRUE /\ UNCHANGED <<phase, state, failed>>
    BY <1>2, <2>2 DEF AuditPart, StartInv, OneAfterAnother, PartsReviewed, PresentationsStand, ExamMapOf
  <2> QED
    BY <1>2, <2>1, <2>2 DEF AuditPart
<1>3. ASSUME ReadPart PROVE StartInv'
  <2> DEFINE kb == Kbs[kbFile]
             value == IF phase \in ExamParts THEN kb.facts ELSE settings[phase]
  <2>1. phase \in {"scopes", "dates", "v1", "v2"} /\ kbFile \in DOMAIN Kbs
    BY <1>3 DEF ReadPart, StartInv, OneAfterAnother
  <2>2. CASE PartFails
    BY <1>3, <2>1, <2>2, FailureKeeps DEF ReadPart
  <2>3. CASE ReadAccepts(phase, kb) /\ PartLoads(value)
    <3>1. phase = "dates" => HighlightsMatch(value, kb)
      BY <2>3 DEF ReadAccepts, ExamParts
    <3>2. phase = "v1" => value = kb.facts /\ ExamRecordsMatch(ExamMaps["v1"], kb)
      BY <2>3 DEF ReadAccepts, ExamParts
    <3>3. phase = "v2" => value = kb.facts /\ ExamFieldsMatch(ExamMaps["v2"], kb)
      BY <2>3 DEF ReadAccepts, ExamParts
    <3>4. UNCHANGED <<settings, entry, kbFile, pdfFile, delivered, changes, moved>>
      BY <1>3 DEF ReadPart
    <3> HIDE DEF value
    <3> QED
      BY <2>1, <2>3, <3>1, <3>2, <3>3, <3>4, LoadingKeeps
  <2> QED
    BY <1>3, <2>2, <2>3 DEF ReadPart
<1>4. ASSUME LoadSourceDocument PROVE StartInv'
  <2>1. CASE PartFails
    BY <1>4, <2>1, FailureKeeps DEF LoadSourceDocument
  <2>2. CASE PartLoads(pdfFile) /\ state.plans # Unset /\ state.plans.pdf = settings.source
             /\ pdfFile = settings.source
    BY <1>4, <2>2, LoadingKeeps DEF LoadSourceDocument
  <2> QED
    BY <1>4, <2>1, <2>2 DEF LoadSourceDocument
<1> QED
  BY <1>1, <1>2, <1>3, <1>4

\* What both presentations show is reviewed text, about the department asked for.
LEMMA FirstExams ==
  ASSUME StartInv, NEW q, RequirementsServed(q), ExamResponse(q).status = "available"
  PROVE  LET exam == ExamResponse(q) IN
         /\ ExamMaps["v1"].pdf = state.plans.pdf
         /\ \A e \in exam.evidence : e.text = ExamMaps["v1"].records[e.fact].text /\ q.dept \in e.covers
<1> DEFINE map == ExamMaps["v1"]
<1>1. /\ TargetReviewed(map, q) /\ state.v1 # Unset /\ state.plans.pdf = map.pdf
      /\ ExamResponse(q) = Exam("available", ExamEvidence("v1", map.shown), ExamLink("v1"))
  BY DEF ExamResponse, Exam, ExamOnly
<1>2. PICK k \in DOMAIN Kbs : state.v1 = Kbs[k].facts /\ ExamRecordsMatch(map, Kbs[k])
  BY <1>1 DEF StartInv, PartsReviewed
<1>3. ASSUME NEW f \in map.shown
      PROVE  state.v1[f] = map.records[f] /\ q.dept \in map.records[f].covers
  BY <1>1, <1>2, <1>3, StartAssumption DEF ExamRecordsMatch, TargetReviewed
<1>4. \A e \in ExamEvidence("v1", map.shown) : e.text = map.records[e.fact].text /\ q.dept \in e.covers
  BY <1>3 DEF ExamEvidence
<1> QED
  BY <1>1, <1>4 DEF Exam

LEMMA SecondExams ==
  ASSUME StartInv, NEW q, RequirementsServed(q), ExamResponseV2(q).status = "available"
  PROVE  LET exam == ExamResponseV2(q) IN
         /\ ExamMaps["v2"].pdf = state.plans.pdf
         /\ \A e \in exam.evidence : e.text = ExamMaps["v2"].records[e.fact].text /\ q.dept \in e.covers
<1> DEFINE map == ExamMaps["v2"]
           fields == map.departments[q.dept].fields
           fieldsShown == (UNION {fields[x] : x \in DOMAIN fields}) \ {YearFact}
<1>1. /\ TargetReviewed(map, q) /\ state.v2 # Unset /\ state.plans.pdf = map.pdf
      /\ ExamResponseV2(q) = Exam("available", ExamEvidence("v2", fieldsShown), ExamLink("v2"))
  BY DEF ExamResponseV2, Exam, ExamOnly
<1>2. PICK k \in DOMAIN Kbs : state.v2 = Kbs[k].facts /\ ExamFieldsMatch(map, Kbs[k])
  BY <1>1 DEF StartInv, PartsReviewed
<1>3. ASSUME NEW f \in fieldsShown
      PROVE  state.v2[f].text = map.records[f].text /\ q.dept \in state.v2[f].covers
  <2>1. PICK x \in DOMAIN fields : f \in fields[x] /\ f # YearFact
    BY <1>3
  <2>2. /\ q.dept \in DOMAIN map.departments /\ state.v2 = Kbs[k].facts
        /\ Kbs[k].facts[f].text = map.records[f].text
        /\ IF f = YearFact /\ x = "year" THEN Kbs[k].facts[f].covers = {} ELSE q.dept \in Kbs[k].facts[f].covers
    BY <1>1, <1>2, <2>1 DEF ExamFieldsMatch, TargetReviewed
  <2> QED
    BY <2>1, <2>2
<1>4. \A e \in ExamEvidence("v2", fieldsShown) : e.text = map.records[e.fact].text /\ q.dept \in e.covers
  BY <1>3 DEF ExamEvidence
<1> QED
  BY <1>1, <1>4 DEF Exam

LEMMA RouteKeeps ==
  ASSUME StartInv, NEW q \in BaseQueries, BaseRequirementsRoute(q) PROVE StartInv'
<1> DEFINE exam == IF q.exam = "v1" THEN ExamResponse(q)
                   ELSE IF q.exam = "v2" THEN ExamResponseV2(q) ELSE ExamOnly("none")
<1>1. UNCHANGED <<settings, entry, kbFile, pdfFile, phase, audited, state, failed, changes, moved>>
      /\ phase = "serving"
  BY DEF BaseRequirementsRoute
<1>2. PartsReviewed' /\ OneAfterAnother'
  BY <1>1 DEF StartInv, PartsReviewed, OneAfterAnother
<1>3. CASE ~RequirementsServed(q)
  <2>1. PresentationsStand'
    BY <1>3 DEF BaseRequirementsRoute, PresentationsStand
  <2> QED
    BY <1>1, <1>2, <2>1 DEF StartInv
<1>4. CASE RequirementsServed(q)
  <2>1. delivered' = [query |-> q, served |-> TRUE, pdf |-> Kbs[kbFile].pdf,
                      dates |-> DateEvidence(q), exam |-> exam]
    BY <1>4 DEF BaseRequirementsRoute
  <2>2. state.plans.pdf = Kbs[kbFile].pdf
    BY <1>4, StartAssumption DEF RequirementsServed, DemoContext, AuditPasses, StartInv
  <2>3. exam.status = "available" =>
          /\ ExamMapOf(q).pdf = Kbs[kbFile].pdf
          /\ \A e \in exam.evidence : e.text = ExamMapOf(q).records[e.fact].text /\ q.dept \in e.covers
    <3>1. CASE q.exam = "v1"
      BY <1>4, <2>2, <3>1, FirstExams DEF ExamMapOf
    <3>2. CASE q.exam = "v2"
      BY <1>4, <2>2, <3>2, SecondExams DEF ExamMapOf
    <3>3. CASE q.exam \notin {"v1", "v2"}
      BY <3>3 DEF ExamOnly, Exam
    <3> QED
      BY <3>1, <3>2, <3>3
  <2>4. exam.link => state.source = Kbs[kbFile].pdf
    <3>1. CASE q.exam = "v1" /\ exam.link
      BY <2>2, <3>1 DEF ExamResponse, Exam, ExamOnly, ExamLink
    <3>2. CASE q.exam = "v2" /\ exam.link
      BY <2>2, <3>2 DEF ExamResponseV2, Exam, ExamOnly, ExamLink
    <3>3. CASE q.exam \notin {"v1", "v2"}
      BY <3>3 DEF ExamOnly, Exam
    <3> QED
      BY <3>1, <3>2, <3>3
  <2>5. (\E e \in DateEvidence(q) : e.link) => state.source = Kbs[kbFile].pdf
    <3>1. \A e \in DateEvidence(q) : e.link = (state.source # Unset)
      BY DEF DateEvidence
    <3> QED
      BY <2>2, <3>1 DEF StartInv, PartsReviewed
  <2>6. ~moved => \A e \in DateEvidence(q) : e.quote = e.text
    BY DEF DateEvidence, DateFacts, StartInv, PartsReviewed, HighlightsMatch
  <2> HIDE DEF exam
  <2>7. PresentationsStand'
    BY <1>1, <2>1, <2>3, <2>4, <2>5, <2>6 DEF PresentationsStand, ExamMapOf
  <2> QED
    BY <1>1, <1>2, <2>7 DEF StartInv
<1> QED
  BY <1>3, <1>4

LEMMA StartKeeps == StartInv /\ [StartNext]_startVars => StartInv'
<1> SUFFICES ASSUME StartInv, [StartNext]_startVars PROVE StartInv'
  OBVIOUS
<1>1. CASE UNCHANGED startVars
  BY <1>1 DEF startVars, StartInv, OneAfterAnother, PartsReviewed, PresentationsStand, ExamMapOf
<1>2. CASE StartNext
  BY <1>2, TouchesKeep, PartsKeep, RouteKeeps DEF StartNext
<1> QED
  BY <1>1, <1>2

\* A part that was loaded stands beside the files it was compared with, in the
\* order lifespan loads the parts (service/app.py, lifespan).
THEOREM StartInvariant == StartSpec => []StartInv
BY StartInitInv, StartKeeps, PTL DEF StartSpec

\* Whatever was published or rewritten while the service read its parts and since:
\* the examinations an answer shows are the reviewed ones, of the department asked
\* for and from the document of the answer; a link to the local PDF leads to that
\* document; and a date is a quotation of its text while the corpus is untouched
\* (lifespan, the base requirements route, load_exam_presentation).
THEOREM PresentationsStandAlways == StartSpec => []PresentationsStand
<1>1. StartInv => PresentationsStand
  BY DEF StartInv
<1> QED
  BY <1>1, StartInvariant, PTL

(***************************************************************************)
(* Reviewed import.  A candidate is put in place by one rename of a whole  *)
(* stage; that its closed sets are whole follows from what a seed must     *)
(* satisfy before anything is built of it.                                 *)
(***************************************************************************)

ImportSpec == ImportInit /\ [][ImportNext]_importVars

\* What nobody touched by hand is the whole tree, and what is staged belongs to it.
ImportInv ==
  /\ DOMAIN published = Good /\ DOMAIN publishing = Publisher
  /\ \A b \in Good \ damaged : published[b] \in {Absent, [f \in File(b) |-> b]}
  /\ \A p \in Publisher : publishing[p].pc = "stage" => publishing[p].build \in Good

-----------------------------------------------------------------------------
(* The lineage of a candidate that can be built.                           *)

\* What a seed that is accepted guarantees of a build.
LEMMA GoodSeed ==
  ASSUME NEW b \in Good PROVE SeedOk(Seeds[b.seed])
<1>1. PICK i \in Inputs : Build(i) = b /\ LoadInputs(i)
  BY DEF Good
<1>2. SeedOk(Seeds[i.seed])
  BY <1>1 DEF LoadInputs, LoadEvidence
<1>3. b.seed = i.seed
  BY <1>1 DEF Build
<1> QED
  BY <1>2, <1>3

LEMMA PreviewsComplete ==
  ASSUME NEW seed, SeedOk(seed), NEW t \in DOMAIN seed.topics, NEW x \in Preview(seed, t).relations
  PROVE  x.to \in Preview(seed, t).records
<1>1. x \in seed.relations /\ x.from \in Range(seed.topics[t])
  BY DEF Preview
<1>2. seed.records[x.from].topic = t /\ x.to \in DOMAIN seed.records
      /\ seed.records[x.to].topic = t
  BY <1>1 DEF SeedOk
<1>3. x.to \in Range(seed.topics[t])
  BY <1>2 DEF SeedOk
<1> QED
  BY <1>3 DEF Preview

\* Both ends of a relation belong to the same closed sets.
LEMMA OneContext ==
  ASSUME NEW l, NEW x \in l.relations PROVE Context(l, x.from) = Context(l, x.to)
<1>1. Linked(l, x.from) = Linked(l, x.to)
  BY DEF Linked
<1> QED
  BY <1>1 DEF Context

LEMMA FactOfFragment ==
  ASSUME NEW b, NEW r \in DOMAIN Seeds[b.seed].records,
         NEW f \in DOMAIN Seeds[b.seed].records[r].fragments
  PROVE  LET record == Seeds[b.seed].records[r]
             q == Qualified(b, record.source, r, f)
         IN q.kb.facts[q.fact].text = record.fragments[f].text
<1> DEFINE seed == Seeds[b.seed]
           s == seed.records[r].source
           id == FactId(seed, s, r, f)
           q == Qualified(b, s, r, f)
<1>1. <<r, f>> \in FragmentsOf(seed, s)
  BY DEF FragmentsOf
<1>2. id \in {FactId(seed, s, x[1], x[2]) : x \in FragmentsOf(seed, s)}
  BY <1>1
<1>3. id[2] = r /\ id[4] = f
  BY DEF FactId
<1>4. Facts(seed, s)[id].text = seed.records[r].fragments[f].text
  BY <1>2, <1>3 DEF Facts
<1>5. q.fact = id /\ q.kb.facts = Facts(seed, s)
  BY DEF Qualified, Kb
<1> QED
  BY <1>4, <1>5

LEMMA ContextHoldsRecord ==
  ASSUME NEW b \in Good, NEW r \in DOMAIN Seeds[b.seed].records,
         NEW f \in DOMAIN Seeds[b.seed].records[r].fragments
  PROVE  Qualified(b, Seeds[b.seed].records[r].source, r, f) \in Context(Lineage(b), r)
<1> DEFINE seed == Seeds[b.seed]
           record == seed.records[r]
           l == Lineage(b)
<1>1. l.records = [x \in DOMAIN seed.records |-> LineageRecord(b, x, seed.records[x])]
  BY DEF Lineage, LineageWith
<1>a. l.records[r] = LineageRecord(b, r, record)
  BY <1>1
<1>2. LineageRecord(b, r, record).required = record.required
  BY DEF LineageRecord
<1>3. LineageRecord(b, r, record).fragments[f].fact = Qualified(b, record.source, r, f)
  <2>1. LineageRecord(b, r, record).fragments =
          [g \in DOMAIN record.fragments |->
             [role |-> record.fragments[g].role, fact |-> Qualified(b, record.source, r, g)]]
    BY DEF LineageRecord
  <2>2. LineageRecord(b, r, record).fragments[f] =
          [role |-> record.fragments[f].role, fact |-> Qualified(b, record.source, r, f)]
    BY <2>1
  <2> QED
    BY <2>2
<1>4. PICK k \in DOMAIN record.required : record.required[k] = f
  <2>1. Range(record.required) = DOMAIN record.fragments
    BY GoodSeed DEF SeedOk
  <2> QED
    BY <2>1 DEF Range
<1>5. Required(l.records, r)[k] = Qualified(b, record.source, r, f)
      /\ k \in DOMAIN Required(l.records, r)
  <2> HIDE DEF l
  <2> QED
    BY <1>2, <1>3, <1>4, <1>a DEF Required
<1>6. r \in Linked(l, r)
  BY <1>1 DEF Linked
<1> QED
  <2>1. Range(Required(l.records, r)) \subseteq Context(l, r)
    BY <1>6 DEF Context
  <2>2. Qualified(b, record.source, r, f) \in Range(Required(l.records, r))
    BY <1>5 DEF Range
  <2> QED
    BY <2>1, <2>2

LEMMA GoodIsWellLinked == Good \subseteq WellLinked
<1> SUFFICES ASSUME NEW b \in Good PROVE b \in WellLinked
  OBVIOUS
<1> DEFINE seed == Seeds[b.seed]
           l == Lineage(b)
<1>1. Generated[b]["lineage.json"] = l
  BY DEF Generated, MapCandidate, File
<1>2. \A t \in DOMAIN seed.topics : \A x \in Preview(seed, t).relations : x.to \in Preview(seed, t).records
  BY GoodSeed, PreviewsComplete
<1>3. \A x \in l.relations : Context(l, x.from) = Context(l, x.to)
  BY OneContext
<1>4. DOMAIN l.records = DOMAIN seed.records
  BY DEF Lineage, LineageWith
<1>5. \A r \in DOMAIN l.records : \A f \in DOMAIN seed.records[r].fragments :
        \E q \in Context(l, r) : q.kb.facts[q.fact].text = seed.records[r].fragments[f].text
  <2> SUFFICES ASSUME NEW r \in DOMAIN seed.records, NEW f \in DOMAIN seed.records[r].fragments
               PROVE  \E q \in Context(l, r) : q.kb.facts[q.fact].text = seed.records[r].fragments[f].text
    BY <1>4
  <2> DEFINE q == Qualified(b, seed.records[r].source, r, f)
  <2>1. q \in Context(l, r)
    BY ContextHoldsRecord
  <2>2. q.kb.facts[q.fact].text = seed.records[r].fragments[f].text
    BY FactOfFragment
  <2> HIDE DEF q
  <2> QED
    BY <2>1, <2>2
<1> HIDE DEF l
<1> QED
  BY <1>1, <1>2, <1>3, <1>5 DEF WellLinked

-----------------------------------------------------------------------------
LEMMA ImportInitInv == ImportInit => ImportInv
BY DEF ImportInit, ImportInv, NotPublishing

LEMMA ImportKeeps == ImportInv /\ [ImportNext]_importVars => ImportInv'
<1> SUFFICES ASSUME ImportInv, [ImportNext]_importVars PROVE ImportInv'
  OBVIOUS
<1> USE DEF ImportInv
<1>1. ASSUME NEW p \in Publisher, BeginPublish(p) PROVE ImportInv'
  BY <1>1 DEF BeginPublish
<1>2. ASSUME NEW p \in Publisher, StageFile(p) PROVE ImportInv'
  BY <1>2 DEF StageFile
<1>3. ASSUME NEW p \in Publisher, Rename(p) PROVE ImportInv'
  BY <1>3 DEF Rename, PutInPlace
<1>4. ASSUME NEW p \in Publisher, Validate(p) PROVE ImportInv'
  BY <1>4 DEF Validate
<1>5. ASSUME NEW p \in Publisher, StagingEnds(p) PROVE ImportInv'
  BY <1>5 DEF StagingEnds, NotPublishing
<1>6. ASSUME NEW b \in Good, NEW f \in File(b), Damage(b, f) PROVE ImportInv'
  BY <1>6 DEF Damage
<1>7. ASSUME NEW s \in DOMAIN PdfAt, ReplacePdf(s) PROVE ImportInv'
  BY <1>7 DEF ReplacePdf
<1>8. CASE UNCHANGED importVars
  BY <1>8 DEF importVars
<1> QED
  BY <1>1, <1>2, <1>3, <1>4, <1>5, <1>6, <1>7, <1>8 DEF ImportNext

\* For any number of publishers that stage, die and race for a name: a candidate
\* is absent or the whole tree it is named for, unless somebody replaced its
\* files; and no closed set read of it is part of another (publish_candidate,
\* read_context).
THEOREM CandidatesStayWhole == ImportSpec => []CandidatesAreWhole
<1>1. ASSUME ImportInv, NEW b \in Good, published[b] # Absent, b \notin damaged
      PROVE  ExactTree(published[b], b)
  BY <1>1 DEF ImportInv, ExactTree
<1>2. ImportInv => CandidatesAreWhole
  BY <1>1, GoodIsWellLinked DEF CandidatesAreWhole
<1> QED
  BY <1>2, ImportInitInv, ImportKeeps, PTL DEF ImportSpec

(***************************************************************************)
(* Material slices.  A reply is made of the captured bytes alone, and a    *)
(* condition over facts that are not told yet is monotone in them.         *)
(***************************************************************************)

SliceSpec == SliceInit /\ ImportInit /\ [][SlicesNext]_<<sliceVars, importVars>>

\* A reply is made of what is captured, and kept no longer.
CapturedPolicy ==
  /\ "policy" \in DOMAIN disk /\ disk.policy \in DOMAIN Policies
  /\ "policy" \in DOMAIN captured => captured.policy \in DOMAIN Policies
  /\ service = "reading" =>
       /\ todo \in Seq(Range(Metadata))
       /\ "policy" \in Range(todo) \cup DOMAIN captured
  /\ service = "loaded" => "policy" \in DOMAIN captured

ReplyInv ==
  /\ CapturedPolicy
  /\ reporting => service = "loaded" /\ reply = Absent
  /\ reply # Absent =>
       /\ service = "loaded"
       /\ reply \in {[request |-> q, report |-> AssembleReport(captured, q)] : q \in SliceRequests}

-----------------------------------------------------------------------------
(* A condition's outcome, and what is still to be told.                    *)

Tells(told, e) == \A f \in EmploymentFacts : told[f] # Absent => e[f] = told[f]

LEMMA OutcomeKept ==
  ASSUME NEW told, NEW e, Tells(told, e), NEW p, p.field \in EmploymentFacts,
         Outcome(told, p) # "needs_information"
  PROVE  Outcome(e, p) = Outcome(told, p)
BY DEF Outcome, Tells

LEMMA OutcomeTold ==
  ASSUME NEW told, NEW p
  PROVE  /\ Outcome(told, p) \in {"matched", "not_matched", "needs_information"}
         /\ Outcome(told, p) = "needs_information" <=> told[p.field] = Absent
BY DEF Outcome

LEMMA ConclusionKept ==
  ASSUME NEW told, NEW e, Tells(told, e), NEW rule,
         \A j \in DOMAIN rule.predicates : rule.predicates[j].field \in EmploymentFacts,
         Entry(rule, told).status # "needs_information"
  PROVE  Entry(rule, e).status = Entry(rule, told).status
<1> DEFINE P == Range(rule.predicates)
           Before == {Outcome(told, p) : p \in P}
           After == {Outcome(e, p) : p \in P}
<1>1. \A p \in P : p.field \in EmploymentFacts
  BY DEF Range
<1>2. \A p \in P : Outcome(told, p) # "needs_information" => Outcome(e, p) = Outcome(told, p)
  BY <1>1, OutcomeKept
<1>3. Before \ {"needs_information"} \subseteq After
  BY <1>2
<1>4. "needs_information" \notin Before => After = Before
  BY <1>2
<1>5. /\ Entry(rule, told).status = CombineOutcomes(rule.mode, Before)
      /\ Entry(rule, e).status = CombineOutcomes(rule.mode, After)
  BY DEF Entry
<1> HIDE DEF Before, After
<1> QED
  BY <1>3, <1>4, <1>5 DEF CombineOutcomes

LEMMA AskedForIsEnough ==
  ASSUME NEW told, NEW e, Tells(told, e), NEW rule,
         \A j \in DOMAIN rule.predicates : rule.predicates[j].field \in EmploymentFacts,
         \A f \in Entry(rule, told).missing : e[f] # Absent
  PROVE  Entry(rule, e).status # "needs_information"
<1> DEFINE P == Range(rule.predicates)
           After == {Outcome(e, p) : p \in P}
<1>1. \A p \in P : p.field \in EmploymentFacts
  BY DEF Range
<1>2. ASSUME NEW p \in P PROVE Outcome(e, p) \in {"matched", "not_matched"}
  <2>1. CASE Outcome(told, p) # "needs_information"
    BY <1>1, <2>1, OutcomeKept, OutcomeTold
  <2>2. CASE Outcome(told, p) = "needs_information"
    <3>1. p.field \in Entry(rule, told).missing
      BY <2>2 DEF Entry
    <3> QED
      BY <3>1, OutcomeTold
  <2> QED
    BY <2>1, <2>2
<1>3. After \subseteq {"matched", "not_matched"}
  BY <1>2
<1>4. Entry(rule, e).status = CombineOutcomes(rule.mode, After)
  BY DEF Entry
<1> HIDE DEF After
<1> QED
  BY <1>3, <1>4 DEF CombineOutcomes

LEMMA OpenAsksForSomething ==
  ASSUME NEW told, NEW rule, Entry(rule, told).status = "needs_information"
  PROVE  Entry(rule, told).missing # {}
<1> DEFINE P == Range(rule.predicates)
           Before == {Outcome(told, p) : p \in P}
<1>1. Entry(rule, told).status = CombineOutcomes(rule.mode, Before)
  BY DEF Entry
<1>2. Before \subseteq {"matched", "not_matched", "needs_information"}
  BY OutcomeTold
<1>3. "needs_information" \in Before
  <2> HIDE DEF Before
  <2> QED
    BY <1>1, <1>2 DEF CombineOutcomes
<1>4. PICK p \in P : Outcome(told, p) = "needs_information"
  BY <1>3
<1>5. p.field \in Entry(rule, told).missing
  BY <1>4 DEF Entry
<1> QED
  BY <1>5

-----------------------------------------------------------------------------
LEMMA MetadataNames == Metadata \in Seq(Range(Metadata)) /\ "policy" \in Range(Metadata)
<1>1. Metadata[4] = "policy" /\ 4 \in DOMAIN Metadata
  BY DEF Metadata
<1>2. Metadata \in Seq(Range(Metadata))
  BY DEF Metadata, Range
<1> QED
  BY <1>1, <1>2 DEF Range

LEMMA OneOfTheRest ==
  ASSUME NEW S, NEW s \in Seq(S), s # <<>>, NEW x \in Range(s)
  PROVE  /\ x = Head(s) \/ x \in Range(Tail(s))
         /\ Head(s) \in S /\ Tail(s) \in Seq(S)
<1>1. PICK k \in 1..Len(s) : s[k] = x
  BY DEF Range
<1>2. CASE k = 1
  BY <1>1, <1>2
<1>3. CASE k > 1
  <2>1. k - 1 \in 1..Len(Tail(s)) /\ Tail(s)[k - 1] = x
    BY <1>1, <1>3
  <2>2. DOMAIN Tail(s) = 1..Len(Tail(s))
    OBVIOUS
  <2>3. x \in Range(Tail(s))
    BY <2>1, <2>2 DEF Range
  <2> QED
    BY <2>3
<1> QED
  BY <1>1, <1>2, <1>3

LEMMA ReadKeepsPolicy ==
  ASSUME CapturedPolicy, ReadMetadata PROVE CapturedPolicy'
<1> USE DEF CapturedPolicy, ReadMetadata
<1>1. Head(todo) \in Range(Metadata) /\ Tail(todo) \in Seq(Range(Metadata))
  OBVIOUS
<1>2. DOMAIN captured' = DOMAIN captured \cup {Head(todo)}
  OBVIOUS
<1>3. "policy" \in Range(todo') \cup DOMAIN captured'
  BY <1>2, OneOfTheRest
<1>4. "policy" \in DOMAIN captured' => captured'.policy \in DOMAIN Policies
  OBVIOUS
<1> QED
  BY <1>1, <1>3, <1>4

LEMMA ReplyInitInv == SliceInit => ReplyInv
BY SliceAssumption, MetadataNames DEF SliceInit, ReplyInv, CapturedPolicy

LEMMA ReplyKeeps == ReplyInv /\ [SlicesNext]_<<sliceVars, importVars>> => ReplyInv'
<1> SUFFICES ASSUME ReplyInv, [SlicesNext]_<<sliceVars, importVars>> PROVE ReplyInv'
  OBVIOUS
<1> USE DEF ReplyInv, CapturedPolicy
<1>1. CASE StartService
  BY <1>1, MetadataNames DEF StartService
<1>2. CASE ReadMetadata
  <2>1. CapturedPolicy'
    BY <1>2, ReadKeepsPolicy
  <2>2. service' = "reading" /\ service = "reading" /\ UNCHANGED <<reporting, reply>>
    BY <1>2 DEF ReadMetadata
  <2> QED
    BY <2>1, <2>2
<1>3. CASE LoadSlice
  <2>1. service = "reading" /\ todo = <<>> /\ "policy" \in DOMAIN captured
    BY <1>3 DEF LoadSlice, Range
  <2>2. "policy" \in DOMAIN captured' /\ captured'.policy = captured.policy
    BY <1>3, <2>1 DEF LoadSlice, CapturedWith
  <2> QED
    BY <1>3, <2>1, <2>2 DEF LoadSlice
<1>4. CASE LoadRefused
  BY <1>4 DEF LoadRefused
<1>5. CASE StopService
  BY <1>5 DEF StopService
<1>6. CASE BeginReport
  BY <1>6 DEF BeginReport
<1>7. CASE EndReport
  BY <1>7 DEF EndReport
<1>8. CASE ReportAborted
  BY <1>8 DEF ReportAborted
<1>9. ASSUME NEW f \in Range(Metadata), Edit(f) PROVE ReplyInv'
  BY <1>9, SliceAssumption DEF Edit
<1>10. CASE FilesMove
  BY <1>10 DEF FilesMove
<1>11. CASE UNCHANGED <<sliceVars, importVars>>
  BY <1>11 DEF sliceVars
<1> QED
  BY <1>1, <1>2, <1>3, <1>4, <1>5, <1>6, <1>7, <1>8, <1>9, <1>10, <1>11 DEF SlicesNext

\* A report with conclusions is of a request that could be evaluated, topic by topic.
LEMMA ConclusionsAssembled ==
  ASSUME NEW plan, NEW policy, NEW c, NEW request, NEW made,
         made = Assembled(plan, policy, c, request), made.status = "evaluated"
  PROVE  LET preview == Evaluate(policy, request) IN
         /\ preview.status = "evaluated"
         /\ made.inventory = Inventoried(plan, c.files)
         /\ made.results = [k \in DOMAIN plan.topics |->
                              TopicResult(plan, c.files, plan.topics[k], preview.entries[k])]
<1> DEFINE preview == Evaluate(policy, request)
<1> HIDE DEF preview
<1>1. Assembled(plan, policy, c, request) =
        IF preview.status # "evaluated"
        THEN [status |-> preview.status, conflicts |-> preview.conflicts, results |-> <<>>, inventory |-> {}]
        ELSE IF ~VerifyEvidence(plan, policy, Seeds[c.seed], c.files, c.pdfs) THEN NoReport
        ELSE IF \E k \in DOMAIN plan.topics : plan.topics[k].rule # preview.entries[k].rule THEN NoReport
        ELSE [status |-> preview.status, conflicts |-> preview.conflicts,
              results |-> [k \in DOMAIN plan.topics |->
                             TopicResult(plan, c.files, plan.topics[k], preview.entries[k])],
              inventory |-> Inventoried(plan, c.files)]
  BY DEF Assembled, preview
<1>2. NoReport.status # "evaluated"
  BY DEF NoReport
<1>3. made.status = "evaluated" /\ made = Assembled(plan, policy, c, request)
  OBVIOUS
<1>4. CASE preview.status # "evaluated"
  BY <1>1, <1>3, <1>4
<1>5. CASE preview.status = "evaluated"
  <2>1. made = [status |-> preview.status, conflicts |-> preview.conflicts,
                results |-> [k \in DOMAIN plan.topics |->
                               TopicResult(plan, c.files, plan.topics[k], preview.entries[k])],
                inventory |-> Inventoried(plan, c.files)]
    BY <1>1, <1>2, <1>3, <1>5
  <2> QED
    BY <1>5, <2>1 DEF preview
<1> QED
  BY <1>4, <1>5

LEMMA ResultsAreEntries ==
  ASSUME NEW c, NEW request, NEW made, made = AssembleReport(c, request),
         made.status = "evaluated"
  PROVE  /\ DOMAIN made.results = DOMAIN Policies[c.policy].rules
         /\ \A k \in DOMAIN made.results :
              LET told == Entry(Policies[c.policy].rules[k], request.employment)
              IN made.results[k].status = told.status /\ made.results[k].missing = told.missing
<1> DEFINE plan == Plans[c.plan]
           policy == Policies[c.policy]
           preview == Evaluate(policy, request)
<1>1. LoadPlan(c) /\ made = Assembled(plan, policy, c, request)
  BY DEF AssembleReport, NoReport
<1>2. DOMAIN plan.topics = DOMAIN policy.rules
  BY <1>1 DEF LoadPlan, TopicsFitRules
<1>3. /\ preview.status = "evaluated"
      /\ made.results = [k \in DOMAIN plan.topics |->
                           TopicResult(plan, c.files, plan.topics[k], preview.entries[k])]
  <2> HIDE DEF plan, policy
  <2> QED
    BY <1>1, ConclusionsAssembled
<1>4. preview.entries = [k \in DOMAIN policy.rules |-> Entry(policy.rules[k], request.employment)]
  BY <1>3 DEF Evaluate
<1>5. made.results = [k \in DOMAIN plan.topics |-> TopicResult(plan, c.files, plan.topics[k], preview.entries[k])]
  BY <1>3
<1> HIDE DEF preview
<1>6. \A k \in DOMAIN made.results : made.results[k] = TopicResult(plan, c.files, plan.topics[k], preview.entries[k])
  BY <1>5
<1>7. \A topic, condition : /\ TopicResult(plan, c.files, topic, condition).status = condition.status
                            /\ TopicResult(plan, c.files, topic, condition).missing = condition.missing
  BY DEF TopicResult
<1>8. DOMAIN made.results = DOMAIN policy.rules
  BY <1>2, <1>5
<1>9. ASSUME NEW k \in DOMAIN made.results
      PROVE  LET told == Entry(policy.rules[k], request.employment)
             IN made.results[k].status = told.status /\ made.results[k].missing = told.missing
  <2>1. preview.entries[k] = Entry(policy.rules[k], request.employment)
    BY <1>4, <1>8
  <2> QED
    BY <1>6, <1>7, <2>1
<1> QED
  BY <1>8, <1>9

\* What a report says of a material on some facts of employment stays true however
\* the open ones are told, and the facts it asks for are enough to decide, for any
\* policy, any edit of the files and any start (combine, evaluate).
THEOREM ConclusionsStandAlways == SliceSpec => []ConclusionsStand
<1>1. ReplyInv => ConclusionsStand
  <2> SUFFICES ASSUME ReplyInv, reply # Absent, reply.report.status = "evaluated"
               PROVE  ConclusionsStand
    BY DEF ConclusionsStand
  <2> DEFINE policy == Policies[captured.policy]
             told == reply.request.employment
             said == reply.report.results
  <2>1. reply.report = AssembleReport(captured, reply.request) /\ captured.policy \in DOMAIN Policies
    BY DEF ReplyInv, CapturedPolicy
  <2>2. /\ DOMAIN said = DOMAIN policy.rules
        /\ \A k \in DOMAIN said :
              /\ said[k].status = Entry(policy.rules[k], told).status
              /\ said[k].missing = Entry(policy.rules[k], told).missing
    BY <2>1, ResultsAreEntries
  <2>3. \A k \in DOMAIN said : \A j \in DOMAIN policy.rules[k].predicates :
          policy.rules[k].predicates[j].field \in EmploymentFacts
    BY <2>1, <2>2, SliceAssumption
  <2> HIDE DEF policy, told, said
  <2> DEFINE Final(e, fields) == \A f \in EmploymentFacts :
               IF told[f] # Absent THEN e[f] = told[f] ELSE f \in fields => e[f] # Absent
  <2>5. ASSUME NEW k \in DOMAIN said, NEW e, said[k].status # "needs_information", Final(e, {})
        PROVE  Entry(policy.rules[k], e).status = said[k].status
    <3>1. Tells(told, e)
      BY <2>5 DEF Tells
    <3>2. Entry(policy.rules[k], told).status # "needs_information"
      BY <2>2, <2>5
    <3> QED
      BY <2>2, <2>3, <3>1, <3>2, ConclusionKept
  <2>6. ASSUME NEW k \in DOMAIN said, said[k].status = "needs_information"
        PROVE  said[k].missing # {}
    BY <2>2, <2>6, OpenAsksForSomething
  <2>7. ASSUME NEW k \in DOMAIN said, NEW e, Final(e, said[k].missing)
        PROVE  Entry(policy.rules[k], e).status # "needs_information"
    <3> DEFINE missing == Entry(policy.rules[k], told).missing
    <3>1. Tells(told, e)
      BY <2>7 DEF Tells
    <3>2. missing \subseteq EmploymentFacts
      BY <2>3 DEF Entry, Range
    <3>3. missing = said[k].missing
      BY <2>2
    <3> HIDE DEF missing
    <3>4. \A f \in missing : e[f] # Absent
      BY <2>7, <3>2, <3>3
    <3> QED
      BY <2>3, <3>1, <3>4, AskedForIsEnough DEF missing
  <2> QED
    BY <2>5, <2>6, <2>7 DEF ConclusionsStand, policy, told, said
<1> QED
  BY <1>1, ReplyInitInv, ReplyKeeps, PTL DEF SliceSpec

(***************************************************************************)
(* What is sent of a slice.  All that is loaded was verified, whatever was *)
(* replaced while it was read; what is verified says, quotation by         *)
(* quotation and topic by topic, what seed, plan and policy say, and is    *)
(* what the page expects.                                                  *)
(***************************************************************************)

\* What is loaded passed every check, and its files are files of candidates.
Genuine(files, plan) == \A s \in DOMAIN plan.sources : \E b \in Good : s \in File(b) /\ files[s] = Generated[b][s]

Verified(c) ==
  /\ c.plan \in DOMAIN Plans /\ c.policy \in DOMAIN Policies /\ c.seed \in DOMAIN Seeds
  /\ LoadPlan(c) /\ VerifyEvidence(Plans[c.plan], Policies[c.policy], Seeds[c.seed], c.files, c.pdfs)
  /\ Genuine(c.files, Plans[c.plan])
  /\ \E found : c.pdfs = Restrict(found, DOMAIN Plans[c.plan].sources)

\* What SliceLoads asks, of any names of files.
Loads(c) ==
  /\ LoadPlan(c) /\ CandidateReadable(Plans[c.plan], c.root)
  /\ VerifyEvidence(Plans[c.plan], Policies[c.policy], Seeds[c.seed], FilesOf(c.root),
                    Restrict(pdfs, DOMAIN Plans[c.plan].sources))

FilesKnown ==
  \A b \in Good : published[b] # Absent =>
    \A f \in DOMAIN published[b] : published[b][f] \in Good /\ f \in File(published[b][f])

Released(f) == {r[f] : r \in Releases}

CaptureInv ==
  /\ ImportInv /\ FilesKnown
  /\ DOMAIN disk = Range(Metadata) /\ \A f \in Range(Metadata) : disk[f] \in Released(f)
  /\ service = "reading" =>
       /\ todo \in Seq(Range(Metadata))
       /\ DOMAIN captured \subseteq Range(Metadata)
       /\ Range(Metadata) \subseteq Range(todo) \cup DOMAIN captured
       /\ \A f \in DOMAIN captured : captured[f] \in Released(f) /\ (steady => captured[f] = disk[f])
  /\ service = "loaded" => Verified(captured)
  /\ service = "refused" /\ steady => ~Loads(disk)

LEMMA MetadataSet == Range(Metadata) = {"root", "plan", "trust", "policy", "policyTrust", "seed"}
<1> DEFINE names == {"root", "plan", "trust", "policy", "policyTrust", "seed"}
<1>1. DOMAIN Metadata = 1 .. 6
  BY DEF Metadata
<1>2. Metadata[1] = "root" /\ Metadata[2] = "plan" /\ Metadata[3] = "trust" /\ Metadata[4] = "policy"
      /\ Metadata[5] = "policyTrust" /\ Metadata[6] = "seed"
  BY DEF Metadata
<1>3. Range(Metadata) \subseteq names
  <2> SUFFICES ASSUME NEW k \in 1 .. 6 PROVE Metadata[k] \in names
    BY <1>1 DEF Range
  <2>1. k = 1 \/ k = 2 \/ k = 3 \/ k = 4 \/ k = 5 \/ k = 6
    OBVIOUS
  <2> QED
    BY <1>2, <2>1
<1>4. names \subseteq Range(Metadata)
  <2>1. \A k \in 1 .. 6 : Metadata[k] \in Range(Metadata)
    BY <1>1 DEF Range
  <2> QED
    BY <1>2, <2>1
<1> QED
  BY <1>3, <1>4

\* What is read of the files' names does not depend on where they are kept.
LEMMA SameNames ==
  ASSUME NEW c, NEW d, c.plan = d.plan, c.trust = d.trust, c.policy = d.policy,
         c.policyTrust = d.policyTrust, c.seed = d.seed
  PROVE  LoadPlan(c) = LoadPlan(d)
BY DEF LoadPlan

LEMMA CandidateFilesGenuine ==
  ASSUME ImportInv, FilesKnown, NEW c, c.root \in Good, Loads(c)
  PROVE  Genuine(FilesOf(c.root), Plans[c.plan])
<1> DEFINE plan == Plans[c.plan]
           tree == published[c.root]
<1>1. published[c.root] # Absent /\ DOMAIN tree = DOMAIN plan.candidate.files
  BY DEF Loads, CandidateReadable
<1>2. DOMAIN plan.sources \subseteq DOMAIN tree
  BY <1>1 DEF Loads, LoadPlan
<1>3. ASSUME NEW s \in DOMAIN plan.sources
      PROVE  tree[s] \in Good /\ s \in File(tree[s]) /\ FilesOf(c.root)[s] = Generated[tree[s]][s]
  BY <1>1, <1>2, <1>3 DEF FilesKnown, FilesOf
<1> QED
  BY <1>3 DEF Genuine

LEMMA LoadedIsVerified ==
  ASSUME ImportInv, FilesKnown, NEW c, c.root \in Good, Loads(c), NEW d,
         d.plan = c.plan, d.trust = c.trust, d.policy = c.policy, d.policyTrust = c.policyTrust,
         d.seed = c.seed, c.plan \in DOMAIN Plans, c.policy \in DOMAIN Policies, c.seed \in DOMAIN Seeds,
         d.files = FilesOf(c.root), d.pdfs = Restrict(pdfs, DOMAIN Plans[c.plan].sources)
  PROVE  Verified(d)
<1>1. LoadPlan(d)
  BY SameNames DEF Loads
<1> QED
  BY <1>1, CandidateFilesGenuine DEF Loads, Verified

LEMMA FilesStayKnown == ImportInv /\ FilesKnown /\ [ImportNext]_importVars => FilesKnown'
<1> SUFFICES ASSUME ImportInv, FilesKnown, [ImportNext]_importVars PROVE FilesKnown'
  OBVIOUS
<1>1. ASSUME UNCHANGED published PROVE FilesKnown'
  BY <1>1 DEF FilesKnown
<1>2. ASSUME NEW p \in Publisher, Rename(p) PROVE FilesKnown'
  <2> DEFINE b == publishing[p].build
  <2>1. b \in Good /\ publishing[p].staged = File(b)
    BY <1>2 DEF ImportInv, Rename
  <2>2. CASE published[b] # Absent
    BY <1>1, <1>2, <2>2 DEF Rename, PutInPlace
  <2>3. CASE published[b] = Absent
    <3>1. published' = [published EXCEPT ![b] = [f \in File(b) |-> b]]
      BY <1>2, <2>1, <2>3 DEF Rename, PutInPlace
    <3> HIDE DEF b
    <3>2. published'[b] = [f \in File(b) |-> b] /\ \A c \in Good \ {b} : published'[c] = published[c]
      BY <2>1, <3>1 DEF ImportInv
    <3> QED
      BY <2>1, <3>2 DEF FilesKnown
  <2> QED
    BY <2>2, <2>3
<1>3. ASSUME NEW b \in Good, NEW f \in File(b), Damage(b, f) PROVE FilesKnown'
  <2>1. published[b] # Absent /\ f \in DOMAIN published[b]
    BY <1>3 DEF Damage
  <2>2. ASSUME NEW c \in Good \ {b}, f \in File(c), published' = [published EXCEPT ![b][f] = c]
        PROVE  FilesKnown'
    <3>1. /\ DOMAIN published'[b] = DOMAIN published[b] /\ published'[b][f] = c
          /\ \A g \in DOMAIN published[b] \ {f} : published'[b][g] = published[b][g]
          /\ \A d \in Good \ {b} : published'[d] = published[d]
      BY <2>1, <2>2 DEF ImportInv
    <3> QED
      BY <2>1, <2>2, <3>1 DEF FilesKnown
  <2>3. ASSUME published' = [published EXCEPT ![b] = Restrict(@, DOMAIN @ \ {f})]
        PROVE  FilesKnown'
    <3>1. /\ published'[b] = [g \in DOMAIN published[b] \ {f} |-> published[b][g]]
          /\ \A d \in Good \ {b} : published'[d] = published[d]
      BY <2>3 DEF ImportInv, Restrict
    <3> QED
      BY <2>1, <3>1 DEF FilesKnown
  <2> QED
    BY <1>3, <2>2, <2>3 DEF Damage
<1> QED
  BY <1>1, <1>2, <1>3 DEF ImportNext, importVars, BeginPublish, StageFile, Validate, StagingEnds, ReplacePdf

LEMMA CaptureInitInv == SliceInit /\ ImportInit => CaptureInv
<1> SUFFICES ASSUME SliceInit, ImportInit PROVE CaptureInv
  OBVIOUS
<1>1. ImportInv /\ FilesKnown
  BY ImportInitInv DEF ImportInit, FilesKnown
<1>2. DOMAIN disk = Range(Metadata) /\ \A f \in Range(Metadata) : disk[f] \in Released(f)
  BY SliceAssumption DEF SliceInit, Released
<1>3. service = "down"
  BY DEF SliceInit
<1> QED
  BY <1>1, <1>2, <1>3 DEF CaptureInv

LEMMA ReadKeepsCapture ==
  ASSUME CaptureInv, ReadMetadata PROVE CaptureInv'
<1> USE DEF CaptureInv, ReadMetadata
<1>1. Head(todo) \in Range(Metadata) /\ todo' \in Seq(Range(Metadata))
  OBVIOUS
<1>2. /\ DOMAIN captured' = DOMAIN captured \cup {Head(todo)}
      /\ captured'[Head(todo)] = disk[Head(todo)]
      /\ \A f \in DOMAIN captured \ {Head(todo)} : captured'[f] = captured[f]
  OBVIOUS
<1>3. Range(Metadata) \subseteq Range(todo') \cup DOMAIN captured'
  <2> SUFFICES ASSUME NEW x \in Range(Metadata) PROVE x \in Range(todo') \cup DOMAIN captured'
    OBVIOUS
  <2>1. CASE x \in Range(todo)
    <3>1. x = Head(todo) \/ x \in Range(Tail(todo))
      BY <2>1, OneOfTheRest
    <3> QED
      BY <1>2, <3>1
  <2>2. CASE x \in DOMAIN captured
    BY <1>2, <2>2
  <2> QED
    BY <2>1, <2>2
<1>4. (ImportInv /\ FilesKnown)'
  BY DEF ImportInv, FilesKnown, importVars
<1>5. service' = "reading" /\ service = "reading" /\ UNCHANGED <<disk, steady>>
  OBVIOUS
<1>6. \A f \in Range(Metadata) : disk'[f] \in Released(f)'
  BY <1>5 DEF Released
<1>7. \A f \in DOMAIN captured' : captured'[f] \in Released(f)' /\ (steady' => captured'[f] = disk'[f])
  BY <1>1, <1>2, <1>5 DEF Released
<1> HIDE DEF ReadMetadata
<1> QED
  BY <1>1, <1>2, <1>3, <1>4, <1>5, <1>6, <1>7

LEMMA AllIsCaptured ==
  ASSUME CaptureInv, service = "reading", todo = <<>>
  PROVE  \A f \in Range(Metadata) :
           f \in DOMAIN captured /\ captured[f] \in Released(f) /\ (steady => captured[f] = disk[f])
<1>1. Range(todo) = {}
  BY DEF Range
<1> QED
  BY <1>1 DEF CaptureInv

LEMMA NamesReleased ==
  ASSUME NEW c, \A f \in Range(Metadata) : c[f] \in Released(f)
  PROVE  c.root \in Good /\ c.plan \in DOMAIN Plans /\ c.policy \in DOMAIN Policies /\ c.seed \in DOMAIN Seeds
<1>1. /\ c.root \in Released("root") /\ c.plan \in Released("plan")
      /\ c.policy \in Released("policy") /\ c.seed \in Released("seed")
  BY MetadataSet
<1> QED
  BY <1>1, SliceAssumption, ReleasesAssumption DEF Released

LEMMA CaptureKeeps == CaptureInv /\ [SlicesNext]_<<sliceVars, importVars>> => CaptureInv'
<1> SUFFICES ASSUME CaptureInv, [SlicesNext]_<<sliceVars, importVars>> PROVE CaptureInv'
  OBVIOUS
<1>0. ASSUME UNCHANGED importVars PROVE (ImportInv /\ FilesKnown)'
  BY <1>0 DEF CaptureInv, ImportInv, FilesKnown, importVars
<1>a. ASSUME UNCHANGED disk
      PROVE  DOMAIN disk' = Range(Metadata) /\ \A f \in Range(Metadata) : disk'[f] \in Released(f)'
  BY <1>a DEF CaptureInv, Released
<1>b. ASSUME UNCHANGED <<disk, published, pdfs>> PROVE Loads(disk)' = Loads(disk)
  BY <1>b DEF Loads, CandidateReadable, FilesOf
<1>c. ASSUME UNCHANGED captured PROVE Verified(captured)' = Verified(captured)
  BY <1>c DEF Verified
<1>1. CASE StartService
  <2>1. service' = "reading" /\ todo' = Metadata /\ captured' = <<>>
    BY <1>1 DEF StartService
  <2>2. UNCHANGED importVars /\ UNCHANGED disk
    BY <1>1 DEF StartService
  <2> QED
    BY <1>0, <1>a, <2>1, <2>2, MetadataNames DEF CaptureInv
<1>2. CASE ReadMetadata
  BY <1>2, ReadKeepsCapture
<1>3. CASE LoadSlice
  <2>1. service = "reading" /\ todo = <<>> /\ service' = "loaded" /\ UNCHANGED importVars /\ UNCHANGED disk
    BY <1>3 DEF LoadSlice
  <2>2. Loads(captured)
    BY <1>3 DEF LoadSlice, SliceLoads, PdfsFound, Loads
  <2>3. captured' = CapturedWith(FilesOf(captured.root), PdfsFound)
    BY <1>3 DEF LoadSlice
  <2>4. /\ captured'.files = FilesOf(captured.root)
        /\ captured'.pdfs = Restrict(pdfs, DOMAIN Plans[captured.plan].sources)
        /\ \A f \in DOMAIN captured \ {"files", "pdfs"} : captured'[f] = captured[f]
    BY <2>3 DEF CapturedWith, PdfsFound
  <2>5. {"root", "plan", "trust", "policy", "policyTrust", "seed"} \subseteq DOMAIN captured
        /\ \A f \in Range(Metadata) : captured[f] \in Released(f)
    BY <2>1, MetadataSet, AllIsCaptured
  <2>6. /\ captured'.plan = captured.plan /\ captured'.trust = captured.trust /\ captured'.policy = captured.policy
        /\ captured'.policyTrust = captured.policyTrust /\ captured'.seed = captured.seed
    BY <2>4, <2>5
  <2>7. Verified(captured')
    BY <2>2, <2>4, <2>5, <2>6, LoadedIsVerified, NamesReleased DEF CaptureInv
  <2>8. Verified(captured)'
    BY <2>7 DEF Verified
  <2> QED
    BY <1>0, <1>a, <2>1, <2>8 DEF CaptureInv
<1>4. CASE LoadRefused
  <2>1. service = "reading" /\ service' = "refused" /\ UNCHANGED importVars /\ UNCHANGED <<disk, steady>>
    BY <1>4 DEF LoadRefused
  <2>2. ASSUME steady PROVE ~Loads(disk)
    <3>1. todo = <<>> /\ ~SliceLoads
      BY <1>4, <2>2 DEF LoadRefused
    <3>2. ~Loads(captured)
      BY <3>1 DEF SliceLoads, PdfsFound, Loads
    <3>3. /\ captured.root = disk.root /\ captured.plan = disk.plan /\ captured.trust = disk.trust
          /\ captured.policy = disk.policy /\ captured.policyTrust = disk.policyTrust /\ captured.seed = disk.seed
      BY <2>1, <2>2, <3>1, AllIsCaptured, MetadataSet
    <3>4. LoadPlan(captured) = LoadPlan(disk)
      BY <3>3, SameNames
    <3> QED
      BY <3>2, <3>3, <3>4 DEF Loads
  <2>3. steady' => ~Loads(disk)'
    BY <1>b, <2>1, <2>2 DEF importVars
  <2> QED
    BY <1>0, <1>a, <2>1, <2>3 DEF CaptureInv
<1>5. CASE StopService
  BY <1>5, <1>0, <1>a DEF StopService, CaptureInv
<1>6. ASSUME UNCHANGED <<disk, service, captured, todo, steady, importVars>> PROVE CaptureInv'
  BY <1>6, <1>0, <1>a, <1>b, <1>c DEF CaptureInv, importVars
<1>7. ASSUME NEW f \in Range(Metadata), Edit(f) PROVE CaptureInv'
  <2>1. ~steady' /\ UNCHANGED <<service, captured, todo>> /\ UNCHANGED importVars
    BY <1>7 DEF Edit
  <2>2. PICK r \in Releases : disk' = [disk EXCEPT ![f] = r[f]]
    BY <1>7 DEF Edit
  <2>3. DOMAIN disk' = Range(Metadata) /\ \A g \in Range(Metadata) : disk'[g] \in Released(g)'
    BY <2>2 DEF CaptureInv, Released
  <2> QED
    BY <1>0, <1>c, <2>1, <2>3 DEF CaptureInv, Released
<1>8. CASE FilesMove
  <2>1. ImportNext /\ UNCHANGED <<disk, service, captured, todo>> /\ steady' = (steady /\ UNCHANGED <<published, pdfs>>)
    BY <1>8 DEF FilesMove
  <2>2. (ImportInv /\ FilesKnown)'
    BY <2>1, ImportKeeps, FilesStayKnown DEF CaptureInv
  <2>3. ASSUME steady' PROVE steady /\ Loads(disk)' = Loads(disk)
    BY <1>b, <2>1, <2>3
  <2> QED
    BY <1>a, <1>c, <2>1, <2>2, <2>3 DEF CaptureInv, Released
<1>9. CASE UNCHANGED <<sliceVars, importVars>>
  BY <1>6, <1>9 DEF sliceVars
<1> QED
  BY <1>1, <1>2, <1>3, <1>4, <1>5, <1>6, <1>7, <1>8, <1>9
     DEF SlicesNext, BeginReport, EndReport, ReportAborted

LEMMA VerifiedSays ==
  ASSUME NEW c, Verified(c)
  PROVE  LET plan == Plans[c.plan]  b == Seeds[c.seed] IN
         /\ PlanOk(plan) /\ TopicsFitRules(plan, Policies[c.policy])
         /\ DOMAIN plan.sources = b.required
         /\ c.files = plan.candidate.files
         /\ DOMAIN c.pdfs = DOMAIN plan.sources
         /\ \A s \in DOMAIN plan.sources :
              c.pdfs[s] = plan.sources[s].identity.pdf /\ plan.sources[s].identity.document = s
         /\ \A r \in DOMAIN plan.reviews :
              RecordVerified(plan, b, c.files["lineage.json"], [s \in DOMAIN plan.sources |-> c.files[s]], r)
<1> DEFINE plan == Plans[c.plan]
           b == Seeds[c.seed]
<1>1. PlanOk(plan) /\ TopicsFitRules(plan, Policies[c.policy]) /\ b.required = DOMAIN plan.sources
  BY DEF Verified, LoadPlan
<1>2. VerifyEvidence(plan, Policies[c.policy], b, c.files, c.pdfs)
  BY DEF Verified
<1> HIDE DEF plan, b
<1>3. /\ c.files = plan.candidate.files /\ DOMAIN c.pdfs = DOMAIN plan.sources
      /\ \A s \in DOMAIN plan.sources :
              c.pdfs[s] = plan.sources[s].identity.pdf /\ plan.sources[s].identity.document = s
  BY <1>2 DEF VerifyEvidence
<1>4. \A r \in DOMAIN plan.reviews :
        RecordVerified(plan, b, c.files["lineage.json"], [s \in DOMAIN plan.sources |-> c.files[s]], r)
  BY <1>2 DEF VerifyEvidence
<1> QED
  BY <1>1, <1>3, <1>4 DEF plan, b

\* The facts of a candidate's KB are about the fragments their IDs name.
LEMMA FactNamesFragment ==
  ASSUME NEW b \in Good, NEW s \in File(b), s \notin {"candidate.json", "lineage.json"},
         NEW id \in DOMAIN Generated[b][s].facts
  PROVE  Generated[b][s].facts[id].fragment = id[4]
<1>1. Generated[b][s] = Kb(b, s)
  BY DEF Generated, MapCandidate
<1>2. Kb(b, s).facts = Facts(Seeds[b.seed], s)
  BY DEF Kb
<1> DEFINE D == {FactId(Seeds[b.seed], s, y[1], y[2]) : y \in FragmentsOf(Seeds[b.seed], s)}
           G(i) == LET record == Seeds[b.seed].records[i[2]]  fragment == record.fragments[i[4]]
                   IN [text |-> fragment.text, role |-> fragment.role, fragment |-> i[4],
                       record |-> i[2], revision |-> i[3], pages |-> <<record.page>>]
<1>3. Facts(Seeds[b.seed], s) = [i \in D |-> G(i)]
  BY DEF Facts
<1>4. G(id).fragment = id[4]
  OBVIOUS
<1> HIDE DEF D, G
<1>5. id \in D
  BY <1>1, <1>2, <1>3
<1>6. Generated[b][s].facts[id] = G(id)
  BY <1>1, <1>2, <1>3, <1>5
<1> QED
  BY <1>4, <1>6

\* Each quotation is the seed's.
LEMMA QuotedAsSeeded ==
  ASSUME NEW c, Verified(c), NEW r \in DOMAIN Plans[c.plan].reviews,
         NEW x \in RecordFacts(Plans[c.plan], c.files, r)
  PROVE  /\ x.record = r /\ x.stage = Plans[c.plan].reviews[r].stage
         /\ x.text = Seeds[c.seed].records[r].fragments[x.fact[4]].text
<1> DEFINE plan == Plans[c.plan]
           b == Seeds[c.seed]
           row == plan.reviews[r]
           s == row.source
           kbs == [t \in DOMAIN plan.sources |-> c.files[t]]
<1>1. PICK k \in DOMAIN row.facts :
        x = [record |-> r, fact |-> row.facts[k].fact, stage |-> row.stage,
             text |-> TextOf(plan, c.files, row.facts[k])]
  BY DEF RecordFacts
<1> DEFINE id == row.facts[k].fact
           f == b.records[r].required[k]
<1>2. s \in DOMAIN plan.sources /\ row.facts[k].document = plan.sources[s].identity.document
  <2>1. PlanOk(plan) /\ r \in DOMAIN plan.reviews
    BY VerifiedSays
  <2>2. \A q \in DOMAIN plan.reviews :
          /\ plan.reviews[q].source \in DOMAIN plan.sources
          /\ \A j \in DOMAIN plan.reviews[q].facts :
               plan.reviews[q].facts[j].document = plan.sources[plan.reviews[q].source].identity.document
    <3> HIDE DEF plan
    <3> QED
      BY <2>1 DEF PlanOk
  <2> QED
    BY <1>1, <2>1, <2>2
<1>3. /\ plan.sources[s].identity.document = s /\ s \in b.required
      /\ RecordVerified(plan, b, c.files["lineage.json"], kbs, r)
  <2>1. DOMAIN plan.sources = b.required
    BY VerifiedSays
  <2>2. \A t \in DOMAIN plan.sources : plan.sources[t].identity.document = t
    BY VerifiedSays
  <2>3. RecordVerified(plan, b, c.files["lineage.json"], kbs, r)
    BY VerifiedSays
  <2> HIDE DEF s, plan
  <2> QED
    BY <1>2, <2>1, <2>2, <2>3
<1>4. kbs[s] = c.files[s]
  BY <1>2
<1>5. s \notin {"candidate.json", "lineage.json"}
  BY <1>3, ReleasesAssumption DEF Verified
<1>6. PICK g \in Good : s \in File(g) /\ c.files[s] = Generated[g][s]
  BY <1>2 DEF Verified, Genuine
<1> HIDE DEF kbs, b
<1>7. /\ id \in DOMAIN kbs[s].facts /\ kbs[s].facts[id].fragment = f
      /\ kbs[s].facts[id].text = b.records[r].fragments[f].text
  BY <1>1, <1>3 DEF RecordVerified
<1>8. f = id[4]
  <2>1. id \in DOMAIN Generated[g][s].facts /\ Generated[g][s].facts[id].fragment = f
    BY <1>4, <1>6, <1>7
  <2> HIDE DEF id, f, s
  <2>2. Generated[g][s].facts[id].fragment = id[4]
    BY <1>5, <1>6, <2>1, FactNamesFragment
  <2> QED
    BY <2>1, <2>2
<1>9. TextOf(plan, c.files, row.facts[k]) = c.files[s].facts[id].text
  BY <1>2, <1>3 DEF TextOf
<1> QED
  BY <1>1, <1>4, <1>7, <1>8, <1>9 DEF b

\* Topics cite reviewed records, each of them some fact, and rest on some.
LEMMA TopicsCite ==
  ASSUME NEW c, Verified(c)
  PROVE  LET plan == Plans[c.plan] IN
         /\ DOMAIN plan.topics # {}
         /\ \A k \in DOMAIN plan.topics :
              /\ plan.topics[k].basis # {} /\ plan.topics[k].basis \subseteq Range(plan.topics[k].context)
              /\ Range(plan.topics[k].context) \subseteq DOMAIN plan.reviews
              /\ \A r \in plan.topics[k].basis : plan.reviews[r].stage = "application"
         /\ \A r \in DOMAIN plan.reviews : RecordFacts(plan, c.files, r) # {}
<1> DEFINE plan == Plans[c.plan]
<1>1. PlanOk(plan)
  BY VerifiedSays
<1> HIDE DEF plan
<1>2. DOMAIN plan.topics # {}
  BY <1>1 DEF PlanOk
<1>3. \A k \in DOMAIN plan.topics : Range(plan.topics[k].context) \subseteq DOMAIN plan.reviews
  BY <1>1 DEF PlanOk
<1>4. \A k \in DOMAIN plan.topics :
        /\ plan.topics[k].basis # {} /\ plan.topics[k].basis \subseteq Range(plan.topics[k].context)
        /\ \A r \in plan.topics[k].basis : plan.reviews[r].stage = "application"
  BY <1>1 DEF PlanOk
<1>5. ASSUME NEW r \in DOMAIN plan.reviews PROVE RecordFacts(plan, c.files, r) # {}
  <2>1. DOMAIN plan.reviews[r].facts # {}
    BY <1>1 DEF PlanOk
  <2> QED
    BY <2>1 DEF RecordFacts
<1> QED
  BY <1>2, <1>3, <1>4, <1>5 DEF plan

Cites(plan, files, R) == UNION {RecordFacts(plan, files, r) : r \in R}

LEMMA EvidenceOfTopics ==
  ASSUME NEW c
  PROVE  LET plan == Plans[c.plan]  evidence == EvidenceAnswer(c, "slice") IN
         /\ evidence.target = "slice" /\ evidence.snapshot = SnapshotId(c)
         /\ evidence.topics = EvidenceShown(Presented(plan, c.files))
         /\ DOMAIN evidence.topics = DOMAIN plan.topics
         /\ \A k \in DOMAIN plan.topics :
              LET topic == plan.topics[k]
              IN evidence.topics[k] = Cites(plan, c.files, topic.basis)
                                        \cup Cites(plan, c.files, Range(topic.context) \ topic.basis)
<1> DEFINE plan == Plans[c.plan]
           evidence == EvidenceAnswer(c, "slice")
           presented == Presented(plan, c.files)
<1>1. /\ evidence.target = "slice" /\ evidence.snapshot = SnapshotId(c)
      /\ evidence.topics = EvidenceShown(presented)
  BY DEF EvidenceAnswer
<1>2. /\ DOMAIN presented = DOMAIN plan.topics
      /\ \A k \in DOMAIN plan.topics :
           /\ presented[k].basis = Cites(plan, c.files, plan.topics[k].basis)
           /\ presented[k].context = Cites(plan, c.files, Range(plan.topics[k].context) \ plan.topics[k].basis)
  BY DEF Presented, Cites
<1> HIDE DEF presented, evidence, plan
<1>3. EvidenceShown(presented) = [k \in DOMAIN presented |-> presented[k].basis \cup presented[k].context]
  BY DEF EvidenceShown
<1>4. \A k \in DOMAIN presented : evidence.topics[k] = presented[k].basis \cup presented[k].context
  BY <1>1, <1>3
<1>5. DOMAIN evidence.topics = DOMAIN plan.topics
  BY <1>1, <1>2, <1>3
<1> QED
  BY <1>1, <1>2, <1>4, <1>5 DEF plan, presented, evidence

\* What a report says of topic k: what the rule of this very topic says.
SaysOfTopic(c, request, result, k) ==
  \E topic \in {Plans[c.plan].topics[k]}, rule \in {Policies[c.policy].rules[k]} :
    /\ result.material = rule.material
    /\ result.disposition = Disposition(Entry(rule, request.employment).status, rule.effect)
    /\ result.basis = Cites(Plans[c.plan], c.files, topic.basis)
    /\ result.context = Cites(Plans[c.plan], c.files, Range(topic.context) \ topic.basis)

\* A report of what was verified is never refused, and has a conclusion on each topic.
LEMMA ReportOfVerified ==
  ASSUME NEW c, Verified(c), NEW request, NEW made, made = AssembleReport(c, request)
  PROVE  LET plan == Plans[c.plan]  policy == Policies[c.policy] IN
         /\ made.status # "refused"
         /\ made.status = "evaluated" =>
              /\ made.inventory = Cites(plan, c.files, DOMAIN plan.reviews)
              /\ DOMAIN made.results = DOMAIN plan.topics
              /\ DOMAIN plan.topics = DOMAIN policy.rules
              /\ \A k \in DOMAIN plan.topics : SaysOfTopic(c, request, made.results[k], k)
<1> DEFINE plan == Plans[c.plan]
           policy == Policies[c.policy]
           preview == Evaluate(policy, request)
<1>1. LoadPlan(c) /\ VerifyEvidence(plan, policy, Seeds[c.seed], c.files, c.pdfs)
  BY DEF Verified
<1>2. made = Assembled(plan, policy, c, request)
  BY <1>1 DEF AssembleReport
<1>3. /\ DOMAIN plan.topics = DOMAIN policy.rules
      /\ \A k \in DOMAIN plan.topics :
           /\ plan.topics[k].rule = policy.rules[k].id /\ plan.topics[k].material = policy.rules[k].material
           /\ plan.topics[k].effect = policy.rules[k].effect
  <2>1. TopicsFitRules(plan, policy)
    BY VerifiedSays
  <2> QED
    BY <2>1 DEF TopicsFitRules
<1>4. preview.status \in {"not_covered", "target_mismatch", "evaluated"}
  BY DEF Evaluate
<1>5. ASSUME preview.status = "evaluated"
      PROVE  \A k \in DOMAIN policy.rules : preview.entries[k] = Entry(policy.rules[k], request.employment)
  BY <1>5 DEF Evaluate
<1>6. \A rule, told : Entry(rule, told).rule = rule.id
  BY DEF Entry
<1> HIDE DEF plan, policy, preview
<1>7. preview.status = "evaluated" => ~ \E k \in DOMAIN plan.topics : plan.topics[k].rule # preview.entries[k].rule
  BY <1>3, <1>5, <1>6
<1>8. made.status = preview.status
  BY <1>1, <1>2, <1>7 DEF Assembled, preview
<1>9. ASSUME made.status = "evaluated"
      PROVE  /\ made.inventory = Inventoried(plan, c.files)
             /\ made.results = [k \in DOMAIN plan.topics |->
                                  TopicResult(plan, c.files, plan.topics[k], preview.entries[k])]
  BY <1>2, <1>9, ConclusionsAssembled DEF preview
<1>10. ASSUME made.status = "evaluated", NEW k \in DOMAIN plan.topics
       PROVE  LET topic == plan.topics[k]  rule == policy.rules[k]  result == made.results[k]
              IN /\ result.material = rule.material
                 /\ result.disposition = Disposition(Entry(rule, request.employment).status, rule.effect)
                 /\ result.basis = Cites(plan, c.files, topic.basis)
                 /\ result.context = Cites(plan, c.files, Range(topic.context) \ topic.basis)
  <2>1. made.results[k] = TopicResult(plan, c.files, plan.topics[k], preview.entries[k])
    BY <1>9, <1>10
  <2>2. preview.entries[k] = Entry(policy.rules[k], request.employment)
    BY <1>3, <1>5, <1>8, <1>10
  <2>3. \A topic, condition :
          LET result == TopicResult(plan, c.files, topic, condition)
          IN /\ result.material = topic.material
             /\ result.disposition = Disposition(condition.status, topic.effect)
             /\ result.basis = Cites(plan, c.files, topic.basis)
             /\ result.context = Cites(plan, c.files, Range(topic.context) \ topic.basis)
    BY DEF TopicResult, Cites
  <2> QED
    BY <1>3, <1>10, <2>1, <2>2, <2>3
<1>11. made.status # "refused"
  BY <1>4, <1>8
<1>12. ASSUME made.status = "evaluated"
       PROVE  made.inventory = Cites(plan, c.files, DOMAIN plan.reviews) /\ DOMAIN made.results = DOMAIN plan.topics
  BY <1>9, <1>12 DEF Inventoried, Cites
<1>13. ASSUME made.status = "evaluated", NEW k \in DOMAIN plan.topics
       PROVE  SaysOfTopic(c, request, made.results[k], k)
  BY <1>10, <1>13 DEF SaysOfTopic, plan, policy
<1> QED
  BY <1>3, <1>11, <1>12, <1>13 DEF plan, policy

\* The PDFs that were verified are those the plan is about.
LEMMA PlannedPdfsCaptured ==
  ASSUME NEW c, Verified(c) PROVE c.pdfs = PlannedPdfs(Plans[c.plan])
<1>1. PICK found : c.pdfs = Restrict(found, DOMAIN Plans[c.plan].sources)
  BY DEF Verified
<1>2. c.pdfs = [s \in DOMAIN Plans[c.plan].sources |-> found[s]]
  BY <1>1 DEF Restrict
<1>3. \A s \in DOMAIN Plans[c.plan].sources : found[s] = Plans[c.plan].sources[s].identity.pdf
  BY <1>2, VerifiedSays
<1> QED
  BY <1>2, <1>3 DEF PlannedPdfs

LEMMA PresentedAsGenerated ==
  ASSUME NEW c, Verified(c), SnapshotId(c) \in DOMAIN Presentation
  PROVE  EvidenceAnswer(c, "slice").topics = Presentation[SnapshotId(c)]
<1> DEFINE id == [plan |-> c.plan, policy |-> c.policy, seed |-> c.seed, files |-> Plans[c.plan].candidate.files,
                  pdfs |-> PlannedPdfs(Plans[c.plan])]
<1>1. c.files = Plans[c.plan].candidate.files
  BY VerifiedSays
<1>2. SnapshotId(c) = id
  BY <1>1, PlannedPdfsCaptured DEF SnapshotId
<1>3. c.plan \in DOMAIN Plans /\ c.policy \in DOMAIN Policies /\ c.seed \in DOMAIN Seeds
  BY DEF Verified
<1>4. id \in DOMAIN Presentation =>
        Presentation[id] = EvidenceShown(Presented(Plans[c.plan], Plans[c.plan].candidate.files))
  BY <1>3, ReleasesAssumption
<1> QED
  BY <1>1, <1>2, <1>4 DEF EvidenceAnswer

\* The page accepts what it is sent of a verified slice.
LEMMA EvidenceAccepted ==
  ASSUME NEW c, Verified(c)
  PROVE  MapsSliceEvidence([target |-> "slice", snapshot |-> SnapshotId(c)], EvidenceAnswer(c, "slice"))
<1> DEFINE plan == Plans[c.plan]
           evidence == EvidenceAnswer(c, "slice")
<1>1. /\ evidence.target = "slice" /\ evidence.snapshot = SnapshotId(c)
      /\ DOMAIN evidence.topics = DOMAIN plan.topics
      /\ \A k \in DOMAIN plan.topics :
           Cites(plan, c.files, plan.topics[k].basis) \subseteq evidence.topics[k]
  BY EvidenceOfTopics, Zenon
<1>2. SnapshotId(c) \in DOMAIN Presentation => evidence.topics = Presentation[SnapshotId(c)]
  BY PresentedAsGenerated
<1>3. DOMAIN plan.topics # {} /\ \A k \in DOMAIN plan.topics : Cites(plan, c.files, plan.topics[k].basis) # {}
  <2>1. /\ DOMAIN plan.topics # {}
        /\ \A k \in DOMAIN plan.topics :
              plan.topics[k].basis # {} /\ plan.topics[k].basis \subseteq DOMAIN plan.reviews
        /\ \A r \in DOMAIN plan.reviews : RecordFacts(plan, c.files, r) # {}
    BY TopicsCite
  <2> HIDE DEF plan
  <2> QED
    BY <2>1 DEF Cites
<1> HIDE DEF plan, evidence
<1> QED
  BY <1>1, <1>2, <1>3 DEF MapsSliceEvidence, evidence

LEMMA ReportAccepted ==
  ASSUME NEW c, Verified(c), NEW request, NEW made, made = AssembleReport(c, request), made.status = "evaluated"
  PROVE  LET evidence == EvidenceAnswer(c, "slice") IN
         SliceReportOk([target |-> "slice", snapshot |-> SnapshotId(c)],
                       [snapshot |-> evidence.snapshot, topics |-> evidence.topics],
                       ReportAnswer(c, "slice", made))
<1> DEFINE plan == Plans[c.plan]
           evidence == EvidenceAnswer(c, "slice")
           mapped == [snapshot |-> evidence.snapshot, topics |-> evidence.topics]
           payload == ReportAnswer(c, "slice", made)
           Basis(k) == Cites(plan, c.files, plan.topics[k].basis)
           Rest(k) == Cites(plan, c.files, Range(plan.topics[k].context) \ plan.topics[k].basis)
<1>1. /\ evidence.snapshot = SnapshotId(c) /\ DOMAIN evidence.topics = DOMAIN plan.topics
      /\ \A k \in DOMAIN plan.topics : evidence.topics[k] = Basis(k) \cup Rest(k)
  BY EvidenceOfTopics, Zenon
<1>2. /\ made.inventory = Cites(plan, c.files, DOMAIN plan.reviews)
      /\ DOMAIN made.results = DOMAIN plan.topics
      /\ \A k \in DOMAIN plan.topics : made.results[k].basis = Basis(k) /\ made.results[k].context = Rest(k)
  <2>1. /\ made.inventory = Cites(plan, c.files, DOMAIN plan.reviews)
        /\ DOMAIN made.results = DOMAIN plan.topics
    BY ReportOfVerified
  <2>2. ASSUME NEW k \in DOMAIN plan.topics
        PROVE  made.results[k].basis = Basis(k) /\ made.results[k].context = Rest(k)
    <3>1. SaysOfTopic(c, request, made.results[k], k)
      BY <2>2, ReportOfVerified
    <3> QED
      BY <3>1 DEF SaysOfTopic
  <2> QED
    BY <2>1, <2>2
<1>3. ASSUME NEW k \in DOMAIN plan.topics
      PROVE  Basis(k) # {} /\ Basis(k) \cup Rest(k) \subseteq Cites(plan, c.files, DOMAIN plan.reviews)
  <2>1. /\ plan.topics[k].basis # {} /\ plan.topics[k].basis \subseteq DOMAIN plan.reviews
        /\ Range(plan.topics[k].context) \subseteq DOMAIN plan.reviews
        /\ \A r \in DOMAIN plan.reviews : RecordFacts(plan, c.files, r) # {}
    BY TopicsCite
  <2>2. \A R, S : R \subseteq S => Cites(plan, c.files, R) \subseteq Cites(plan, c.files, S)
    BY DEF Cites
  <2>3. Basis(k) # {}
    <3> PICK r \in plan.topics[k].basis : TRUE
      BY <2>1
    <3>1. RecordFacts(plan, c.files, r) # {} /\ RecordFacts(plan, c.files, r) \subseteq Basis(k)
      BY <2>1 DEF Cites
    <3> QED
      BY <3>1
  <2>4. Basis(k) \subseteq Cites(plan, c.files, DOMAIN plan.reviews)
    BY <2>1, <2>2
  <2>5. Range(plan.topics[k].context) \ plan.topics[k].basis \subseteq DOMAIN plan.reviews
    BY <2>1
  <2>6. Rest(k) \subseteq Cites(plan, c.files, DOMAIN plan.reviews)
    BY <2>2, <2>5
  <2> QED
    BY <2>3, <2>4, <2>6
<1>4. /\ payload.target = "slice" /\ payload.snapshot = SnapshotId(c) /\ payload.inventory = made.inventory
      /\ payload.topics = [k \in DOMAIN made.results |->
                             [basis |-> made.results[k].basis, context |-> made.results[k].context]]
  BY DEF ReportAnswer
<1> HIDE DEF payload, plan, evidence, Basis, Rest
<1>5. /\ DOMAIN payload.topics = DOMAIN plan.topics
      /\ \A k \in DOMAIN plan.topics : payload.topics[k].basis = Basis(k) /\ payload.topics[k].context = Rest(k)
  BY <1>2, <1>4
<1>6. \A k \in DOMAIN plan.topics : evidence.topics[k] \subseteq LoadedRecords(mapped)
  BY <1>1 DEF LoadedRecords, Range
<1> HIDE DEF mapped
<1>7. ASSUME NEW k \in DOMAIN payload.topics
      PROVE  LET result == payload.topics[k]
             IN /\ result.basis # {}
                /\ result.basis \cup result.context \subseteq payload.inventory
                /\ result.basis \cup result.context \subseteq LoadedRecords(mapped)
  BY <1>1, <1>2, <1>3, <1>4, <1>5, <1>6
<1>8. DOMAIN payload.topics = DOMAIN mapped.topics /\ mapped.snapshot = SnapshotId(c)
  BY <1>1, <1>5 DEF mapped
<1> QED
  BY <1>4, <1>7, <1>8 DEF SliceReportOk, payload, mapped, evidence

\* The record a quotation names is the one its text is of.
LEMMA AllQuotedAsSeeded ==
  ASSUME NEW c, Verified(c), NEW R, R \subseteq DOMAIN Plans[c.plan].reviews,
         NEW x \in Cites(Plans[c.plan], c.files, R)
  PROVE  /\ x.record \in R /\ x.stage = Plans[c.plan].reviews[x.record].stage
         /\ x.text = Seeds[c.seed].records[x.record].fragments[x.fact[4]].text
<1>1. PICK r \in R : x \in RecordFacts(Plans[c.plan], c.files, r)
  BY DEF Cites
<1>2. r \in DOMAIN Plans[c.plan].reviews
  OBVIOUS
<1>3. /\ x.record = r /\ x.stage = Plans[c.plan].reviews[r].stage
      /\ x.text = Seeds[c.seed].records[r].fragments[x.fact[4]].text
  BY <1>1, <1>2, QuotedAsSeeded
<1> QED
  BY <1>3

LEMMA ReportReviewed ==
  ASSUME NEW c, Verified(c), NEW request, NEW made, made = AssembleReport(c, request), made.status = "evaluated"
  PROVE  LET evidence == EvidenceAnswer(c, "slice")  policy == Policies[c.policy] IN
         /\ \A x \in (UNION Range(evidence.topics)) \cup made.inventory :
              x.text = Seeds[c.seed].records[x.record].fragments[x.fact[4]].text
         /\ \A k \in DOMAIN made.results :
              LET result == made.results[k]
              IN /\ \A x \in result.basis : x.stage = "application"
                 /\ k \in DOMAIN policy.rules /\ policy.rules[k].material = result.material
                 /\ result.disposition =
                      Disposition(Entry(policy.rules[k], request.employment).status, policy.rules[k].effect)
<1> DEFINE plan == Plans[c.plan]
           policy == Policies[c.policy]
           evidence == EvidenceAnswer(c, "slice")
           Rest(k) == Range(plan.topics[k].context) \ plan.topics[k].basis
<1>1. \A k \in DOMAIN plan.topics :
        /\ plan.topics[k].basis \subseteq DOMAIN plan.reviews /\ Rest(k) \subseteq DOMAIN plan.reviews
        /\ \A r \in plan.topics[k].basis : plan.reviews[r].stage = "application"
  BY TopicsCite
<1>2. /\ DOMAIN evidence.topics = DOMAIN plan.topics
      /\ \A k \in DOMAIN plan.topics :
           evidence.topics[k] = Cites(plan, c.files, plan.topics[k].basis) \cup Cites(plan, c.files, Rest(k))
  BY EvidenceOfTopics, Zenon
<1>3. /\ made.inventory = Cites(plan, c.files, DOMAIN plan.reviews)
      /\ DOMAIN made.results = DOMAIN plan.topics /\ DOMAIN plan.topics = DOMAIN policy.rules
      /\ \A k \in DOMAIN plan.topics :
           /\ made.results[k].material = policy.rules[k].material
           /\ made.results[k].disposition =
                Disposition(Entry(policy.rules[k], request.employment).status, policy.rules[k].effect)
           /\ made.results[k].basis = Cites(plan, c.files, plan.topics[k].basis)
  <2>1. /\ made.inventory = Cites(plan, c.files, DOMAIN plan.reviews)
        /\ DOMAIN made.results = DOMAIN plan.topics /\ DOMAIN plan.topics = DOMAIN policy.rules
    BY ReportOfVerified
  <2>2. ASSUME NEW k \in DOMAIN plan.topics
        PROVE  /\ made.results[k].material = policy.rules[k].material
               /\ made.results[k].disposition =
                Disposition(Entry(policy.rules[k], request.employment).status, policy.rules[k].effect)
               /\ made.results[k].basis = Cites(plan, c.files, plan.topics[k].basis)
    <3>1. SaysOfTopic(c, request, made.results[k], k)
      BY <2>2, ReportOfVerified
    <3> QED
      BY <3>1 DEF SaysOfTopic
  <2> QED
    BY <2>1, <2>2
<1>4. ASSUME NEW R, R \subseteq DOMAIN plan.reviews, NEW x \in Cites(plan, c.files, R)
      PROVE  /\ x.record \in R /\ x.stage = plan.reviews[x.record].stage
             /\ x.text = Seeds[c.seed].records[x.record].fragments[x.fact[4]].text
  BY <1>4, AllQuotedAsSeeded
<1> HIDE DEF plan, evidence, policy, Rest
<1>5. ASSUME NEW x \in UNION Range(evidence.topics)
      PROVE  x.text = Seeds[c.seed].records[x.record].fragments[x.fact[4]].text
  <2>1. PICK k \in DOMAIN evidence.topics : x \in evidence.topics[k]
    BY DEF Range
  <2>2. x \in Cites(plan, c.files, plan.topics[k].basis) \/ x \in Cites(plan, c.files, Rest(k))
    BY <1>2, <2>1
  <2> QED
    BY <1>1, <1>2, <1>4, <2>2
<1>6. ASSUME NEW x \in made.inventory
      PROVE  x.text = Seeds[c.seed].records[x.record].fragments[x.fact[4]].text
  BY <1>3, <1>4
<1>7. ASSUME NEW k \in DOMAIN made.results, NEW x \in made.results[k].basis
      PROVE  x.stage = "application"
  BY <1>1, <1>3, <1>4
<1>8. \A k \in DOMAIN made.results :
        /\ k \in DOMAIN policy.rules /\ policy.rules[k].material = made.results[k].material
        /\ made.results[k].disposition =
             Disposition(Entry(policy.rules[k], request.employment).status, policy.rules[k].effect)
  BY <1>3
<1> QED
  BY <1>5, <1>6, <1>7, <1>8 DEF policy, evidence

\* A release that was put together rightly loads from its whole candidate and
\* the reviewed PDFs.
LEMMA ReviewedLoads ==
  ASSUME ImportInv, NEW r \in Reviewed, published[r.root] # Absent, r.root \notin damaged,
         Audited(Seeds[r.seed], Manifests[r.root.manifest])
  PROVE  Loads(r)
<1> DEFINE plan == Plans[r.plan]
           root == r.root
           files == Generated[root]
<1>1. /\ root \in Good /\ LoadPlan(r) /\ plan.candidate.files = files
      /\ VerifyEvidence(plan, Policies[r.policy], Seeds[r.seed], files, PlannedPdfs(plan))
  BY ReleasesAssumption
<1>2. published[root] = [f \in File(root) |-> root]
  BY <1>1 DEF ImportInv
<1>3. files = MapCandidate(root) /\ DOMAIN files = File(root)
  BY <1>1 DEF Generated, MapCandidate
<1>4. CandidateReadable(plan, root)
  BY <1>1, <1>2, <1>3 DEF CandidateReadable
<1>5. FilesOf(root) = files
  <2>1. FilesOf(root) = [f \in File(root) |-> files[f]]
    BY <1>2 DEF FilesOf
  <2>2. files = [f \in File(root) |-> files[f]]
    BY <1>1, <1>3 DEF MapCandidate
  <2> QED
    BY <2>1, <2>2
<1>6. files["candidate.json"].build = root
  <2>1. "candidate.json" \in File(root)
    BY DEF File
  <2> QED
    BY <1>3, <2>1 DEF MapCandidate, CandidateManifest
<1>7. /\ DOMAIN plan.sources = Seeds[r.seed].required /\ plan.seed = r.seed
  BY <1>1 DEF LoadPlan
<1>8. root.seed = plan.seed /\ Configs[root.config].documents = [s \in DOMAIN plan.sources |-> plan.sources[s].identity]
  <2> HIDE DEF plan, files, root
  <2> QED
    BY <1>1, <1>6 DEF VerifyEvidence
<1>9. PICK i \in Inputs : Build(i) = root /\ LoadInputs(i)
  BY <1>1 DEF Good
<1>10. i.seed = root.seed /\ i.manifest = root.manifest /\ i.config = root.config
  BY <1>9 DEF Build
<1>11. \A s \in Seeds[r.seed].required : Configs[root.config].documents[s].pdf = Manifests[root.manifest][s].pdf
  <2>1. \A s \in Seeds[i.seed].required : Configs[i.config].documents[s].pdf = Manifests[i.manifest][s].pdf
    BY <1>9 DEF LoadInputs
  <2> QED
    BY <1>7, <1>8, <1>10, <2>1
<1>12. ASSUME NEW s \in DOMAIN plan.sources PROVE pdfs[s] = plan.sources[s].identity.pdf
  <2>1. pdfs[s] = Manifests[root.manifest][s].pdf
    BY <1>7 DEF Audited
  <2>2. Configs[root.config].documents[s].pdf = Manifests[root.manifest][s].pdf
    BY <1>7, <1>11
  <2>3. Configs[root.config].documents[s] = plan.sources[s].identity
    BY <1>8
  <2> QED
    BY <2>1, <2>2, <2>3
<1>13. Restrict(pdfs, DOMAIN plan.sources) = PlannedPdfs(plan)
  BY <1>12 DEF Restrict, PlannedPdfs
<1> HIDE DEF plan, files
<1> QED
  BY <1>1, <1>4, <1>5, <1>13 DEF Loads, plan

\* What is sent of a slice is what was reviewed, no report of it is refused, the
\* page takes every report, and a release that was put together rightly loads:
\* whatever reviewers, publishers and damage do to the files beside the service
\* (load_plan, verify_evidence_bytes, _assemble_report, load_reference_config).
THEOREM SlicesStayReviewed == SliceSpec => []SlicesAreReviewed
<1>1. ReplyInv /\ CaptureInv => SlicesAreReviewed
  <2> SUFFICES ASSUME ReplyInv, CaptureInv PROVE SlicesAreReviewed
    OBVIOUS
  <2>1. ASSUME reply # Absent
        PROVE  Verified(captured) /\ reply.report = AssembleReport(captured, reply.request)
    BY <2>1 DEF ReplyInv, CaptureInv
  <2>2. ASSUME reply # Absent PROVE reply.report.status # "refused"
    BY <2>1, <2>2, ReportOfVerified
  <2>3. ASSUME reply # Absent, reply.report.status = "evaluated"
        PROVE  LET evidence == EvidenceAnswer(captured, "slice")
                   policy == Policies[captured.policy]
                   made == reply.report
                   scope == [target |-> "slice", snapshot |-> SnapshotId(captured)]
               IN /\ \A x \in (UNION Range(evidence.topics)) \cup made.inventory :
                       x.text = Seeds[captured.seed].records[x.record].fragments[x.fact[4]].text
                  /\ \A k \in DOMAIN made.results :
                       LET result == made.results[k]
                       IN /\ \A x \in result.basis : x.stage = "application"
                          /\ \E j \in DOMAIN policy.rules :
                               LET rule == policy.rules[j]
                                   status0 == Entry(rule, reply.request.employment).status
                               IN /\ rule.material = result.material
                                  /\ result.disposition = Disposition(status0, rule.effect)
                  /\ MapsSliceEvidence(scope, evidence)
                  /\ SliceReportOk(scope, [snapshot |-> evidence.snapshot, topics |-> evidence.topics],
                                   ReportAnswer(captured, "slice", made))
    <3> DEFINE evidence == EvidenceAnswer(captured, "slice")
               policy == Policies[captured.policy]
               made == reply.report
               scope == [target |-> "slice", snapshot |-> SnapshotId(captured)]
    <3>1. \A x \in (UNION Range(evidence.topics)) \cup made.inventory :
            x.text = Seeds[captured.seed].records[x.record].fragments[x.fact[4]].text
      BY <2>1, <2>3, ReportReviewed
    <3>2. ASSUME NEW k \in DOMAIN made.results
          PROVE  /\ \A x \in made.results[k].basis : x.stage = "application"
                 /\ k \in DOMAIN policy.rules /\ policy.rules[k].material = made.results[k].material
                 /\ made.results[k].disposition =
                      Disposition(Entry(policy.rules[k], reply.request.employment).status, policy.rules[k].effect)
      BY <2>1, <2>3, ReportReviewed
    <3>3. MapsSliceEvidence(scope, evidence)
      BY <2>1, <2>3, EvidenceAccepted
    <3>4. SliceReportOk(scope, [snapshot |-> evidence.snapshot, topics |-> evidence.topics],
                        ReportAnswer(captured, "slice", made))
      BY <2>1, <2>3, ReportAccepted
    <3> HIDE DEF evidence, policy, made, scope
    <3> QED
      BY <3>1, <3>2, <3>3, <3>4 DEF evidence, policy, made, scope
  <2>4. ASSUME service = "refused", steady, disk \in Reviewed
        PROVE  \/ published[disk.root] = Absent \/ disk.root \in damaged
               \/ ~Audited(Seeds[disk.seed], Manifests[disk.root.manifest])
    BY <2>4, ReviewedLoads DEF CaptureInv
  <2> QED
    BY <2>2, <2>3, <2>4 DEF SlicesAreReviewed
<1> QED
  BY <1>1, ReplyInitInv, ReplyKeeps, CaptureInitInv, CaptureKeeps, PTL DEF SliceSpec

-----------------------------------------------------------------------------
(***************************************************************************)
(* What the two pages show, for any targets, answers, releases and forms.  *)
(* The properties become inductive with three things: what is under way is *)
(* for what the page holds now, nothing is under way for requirements that *)
(* are not there, and the report dialog of the advanced page is open only  *)
(* over a report.                                                          *)
(***************************************************************************)

\* The two pages with their server.
PagesNext == CatalogArrives \/ Restart \/ AdvancedNext \/ UnifiedNext
PagesSpec == PageInit /\ [][PagesNext]_pageVars

\* The types of what the page keeps.
PageTypeOK ==
  /\ open \in {"advanced", "unified"} /\ release \in Snapshots
  /\ catalog \in Snapshots \cup {None} /\ target \in Target \cup {None}
  /\ profile \in Profiles /\ preparation \in Preparations /\ question \in Questions
  /\ loaded \in Requirements \cup {None} /\ comparison \in Comparison \cup {None}
  /\ shown \in Result \cup {None} /\ report \in Result \cup {None}
  /\ answer \in Request \cup {None}
  /\ fetches \in [Kind -> Request \cup {None}] /\ status \in [Kind -> Status]
  /\ step \in 1..4

\* What is under way is for what the page holds.
WorkIsCurrent ==
  /\ fetches["catalog"] # None => catalog = None
  /\ catalog = None => target = None /\ loaded = None /\ fetches["requirements"] = None
  /\ fetches["requirements"] # None => loaded = None
  /\ loaded = None => \A k \in {"comparison", "report", "answer"} : fetches[k] = None
  /\ fetches["answer"] # None => fetches["answer"].target = target /\ fetches["answer"].profile = profile

\* Each page alone.
PageItself ==
  /\ open = "advanced" /\ fetches["comparison"] # None => step # 4
  /\ open = "advanced" /\ dialog => report # None /\ status["report"] # "loading"
  /\ open = "advanced" /\ shown # None /\ target \in Slices => report # None
  /\ open = "unified" => step = 1 /\ status["comparison"] # "loading"

\* The inductive invariant.
PageInv ==
  /\ PageTypeOK /\ WorkIsCurrent /\ PageItself
  /\ ShownIsCurrent /\ SliceOfOneSnapshot /\ LoadingIsHeardOf

-----------------------------------------------------------------------------
\* What a page sends is a request, and no request is None.
LEMMA NewRequests ==
  /\ [kind |-> "catalog"] \in Request
  /\ \A t \in Target : [target |-> t] \in Request
  /\ \A p \in Profiles : [profile |-> p] \in Request
  /\ \A t \in Target, p \in Profiles : [target |-> t, profile |-> p] \in Request
  /\ \A p \in Profiles, w \in {"compare", "report"} : [profile |-> p, waiter |-> w] \in Request
  /\ \A t \in Target, p \in Profiles, q \in Questions :
       [target |-> t, profile |-> p, question |-> q] \in Request
  /\ None \notin Request
BY PageAssumption DEF Request

\* What is left after requests are aborted; the two pages do it alike.
LEMMA AbortedKinds ==
  ASSUME PageTypeOK, NEW ks
  PROVE  /\ Aborted(ks) \in [Kind -> Request \cup {None}] /\ Abort(ks) = Aborted(ks)
         /\ Reset(ks) \in [Kind -> Status] /\ Quiet(ks) = Reset(ks)
         /\ \A k \in Kind : Aborted(ks)[k] = IF k \in ks THEN None ELSE fetches[k]
         /\ \A k \in Kind : Reset(ks)[k] = IF k \in ks THEN "initial" ELSE status[k]
BY DEF PageTypeOK, Aborted, Reset, Abort, Quiet, Status

\* A result whose materials are brought up to date.
LEMMA PreparationChanged ==
  ASSUME NEW r \in Result, NEW p \in Preparations, NEW new, new = [r EXCEPT !.preparation = p]
  PROVE  /\ new \in Result /\ new # None /\ new.target = r.target /\ new.profile = r.profile
         /\ new.preparation = p /\ new.snapshot = r.snapshot /\ new.cited = r.cited
BY PageAssumption DEF Result

\* An empty form, no materials and no question can be on the page.
LEMMA EmptyForm == 0 \in Profiles /\ 0 \in Preparations /\ 0 \in Questions
BY PageAssumption

\* A target is legacy or a slice, never both.
LEMMA Targets == Target = Legacy \cup Slices /\ Legacy \cap Slices = {} /\ None \notin Target \cup Snapshots
BY PageAssumption DEF Target

\* What the page holds is of a target.
LEMMA HeldTarget ==
  ASSUME PageInv
  PROVE  /\ loaded # None => target \in Target /\ loaded \in Requirements /\ loaded.target = target
         /\ comparison # None => comparison \in Comparison /\ comparison.answer \in ComparisonAnswers
         /\ report # None => report \in Result
  BY Targets DEF PageInv, PageTypeOK, ShownIsCurrent, Requirements, Comparison

\* What the pages make of a comparison.
LEMMA LegacyResultFits ==
  ASSUME PageTypeOK, target \in Legacy, NEW c \in BOOLEAN
  PROVE  /\ LegacyResult(c) \in Result /\ LegacyResult(c) # None
         /\ LegacyResult(c).target = target /\ LegacyResult(c).profile = profile
         /\ ReportOf(None, c) = LegacyResult(c)
  BY PageAssumption DEF LegacyResult, ReportOf, Result, PageTypeOK, Target

\* What the pages make of a slice report they accept.
LEMMA SliceResultFits ==
  ASSUME PageTypeOK, NEW payload \in OfRelease(ReportAnswers, target),
         SliceReportOk(Scope(target, catalog), loaded, payload)
  PROVE  /\ target \in Slices
         /\ \A r \in {SliceResult(payload), ReportOf(payload, TRUE)} :
              /\ r \in Result /\ r # None /\ r.target = target /\ r.profile = profile
              /\ r.snapshot = loaded.snapshot /\ r.cited \subseteq LoadedRecords(loaded)
         /\ SliceResult(payload).preparation = preparation
  <1>1. payload \in ReportAnswers /\ payload.target = target /\ payload.snapshot = release /\ payload # None
     BY PageAssumption DEF OfRelease
  <1>2. target \in Slices BY <1>1, PageAssumption
  <1>3. Cited(payload) \subseteq UNION {Cited(a) : a \in ReportAnswers}
     BY <1>1
  <1>4. Cited(payload) \subseteq LoadedRecords(loaded)
     BY DEF SliceReportOk, Cited
  <1>5. payload.snapshot = loaded.snapshot BY DEF SliceReportOk
  <1>6. SliceResult(payload) \in Result
     BY <1>1, <1>2, <1>3, PageAssumption DEF SliceResult, Result, PageTypeOK, Target
  <1>7. ReportOf(payload, TRUE) \in Result
     BY <1>1, <1>2, <1>3, PageAssumption DEF ReportOf, Result, PageTypeOK, Target
  <1>8. None \notin Result BY PageAssumption
  <1>9. ASSUME NEW r, r = SliceResult(payload) \/ r = ReportOf(payload, TRUE)
        PROVE  /\ r.target = target /\ r.profile = profile
               /\ r.snapshot = payload.snapshot /\ r.cited = Cited(payload)
    BY <1>1, <1>9 DEF SliceResult, ReportOf
  <1>10. SliceResult(payload).preparation = preparation BY DEF SliceResult
  <1>11. QED BY <1>2, <1>4, <1>5, <1>6, <1>7, <1>8, <1>9, <1>10

\* What the pages make of requirements they accept.
LEMMA MappedFits ==
  ASSUME PageTypeOK,
         NEW mapped,
         \/ \E base \in OfTarget(BaseAnswers, target) :
              mapped \in {LegacyMapped(target, base), Mapped(target, base)}
         \/ \E evidence \in OfRelease(EvidenceAnswers, target) :
              /\ MapsSliceEvidence(Scope(target, catalog), evidence)
              /\ mapped \in {SliceMapped(target, evidence), Mapped(target, evidence)}
  PROVE  /\ mapped \in Requirements /\ mapped # None /\ mapped.target = target
         /\ target \in Slices => mapped.snapshot = catalog
  <1>0. None \notin Requirements BY PageAssumption
  <1>1. ASSUME NEW base \in OfTarget(BaseAnswers, target),
              mapped \in {LegacyMapped(target, base), Mapped(target, base)}
        PROVE /\ mapped \in Requirements /\ mapped.target = target /\ target \notin Slices
    <2>1. base \in BaseAnswers /\ target \in Legacy /\ target \notin Slices
      BY <1>1, PageAssumption DEF OfTarget
    <2>2. ValidateExamInformation(Scope(target, catalog), base.exam) \in {b.exam : b \in BaseAnswers} \cup {None}
      BY <2>1 DEF ValidateExamInformation
    <2>3. QED BY <1>1, <2>1, <2>2 DEF LegacyMapped, Mapped, Requirements, Target
  <1>2. ASSUME NEW evidence \in OfRelease(EvidenceAnswers, target),
               MapsSliceEvidence(Scope(target, catalog), evidence),
               mapped \in {SliceMapped(target, evidence), Mapped(target, evidence)}
        PROVE mapped \in Requirements /\ mapped.target = target /\ mapped.snapshot = catalog
    <2>1. evidence \in EvidenceAnswers /\ evidence.snapshot = release /\ target \in Slices /\ target \notin Legacy
      BY <1>2, PageAssumption DEF OfRelease
    <2>2. evidence.snapshot = catalog
      BY <1>2, <2>1 DEF MapsSliceEvidence, Scope
    <2>3. QED BY <1>2, <2>1, <2>2 DEF SliceMapped, Mapped, Requirements, Target, PageTypeOK
  <1> QED BY <1>0, <1>1, <1>2

LEMMA PageInitInv == PageInit => PageInv
<1> SUFFICES ASSUME PageInit PROVE PageInv
  OBVIOUS
<1> USE DEF PageInit
<1>1. fetches \in [Kind -> Request \cup {None}] /\ status \in [Kind -> Status]
  BY NewRequests DEF Status
<1>2. /\ \A k \in Kind : k # "catalog" => fetches[k] = None /\ status[k] = "initial"
      /\ fetches["catalog"] # None
  BY NewRequests DEF Kind
<1>3. step \in 1..4
  OBVIOUS
<1>4. PageTypeOK
  BY <1>1, <1>3, PageAssumption DEF PageTypeOK
<1>5. WorkIsCurrent /\ PageItself
  BY <1>2 DEF WorkIsCurrent, PageItself, Kind
<1>6. ShownIsCurrent /\ SliceOfOneSnapshot
  BY DEF ShownIsCurrent, SliceOfOneSnapshot
<1>7. LoadingIsHeardOf
  BY <1>2 DEF LoadingIsHeardOf, HearsOf, Kind
<1> QED
  BY <1>4, <1>5, <1>6, <1>7 DEF PageInv

\* The handlers of app.js.
LEMMA AdvancedKeeps == PageInv /\ AdvancedNext => PageInv'
<1> SUFFICES ASSUME PageInv, AdvancedNext PROVE PageInv'
  OBVIOUS
<1>0. /\ PageTypeOK
      /\ loaded # None => target \in Target /\ loaded \in Requirements /\ loaded.target = target
      /\ comparison # None => comparison \in Comparison /\ comparison.answer \in ComparisonAnswers
      /\ report # None => report \in Result
  BY HeldTarget DEF PageInv
<1> USE <1>0, AbortedKinds, NewRequests, Targets, EmptyForm
    DEF PageInv, PageTypeOK, Kind, Status, HearsOf, Usable, Unified, Free, Idle, Ended, Says, AnswerCleared,
        ReportCleared, ComparisonCleared, ClearAnswer, ClearReport, ClearComparison, ReportButton,
        QuestionBox, CompareButton, GenerateButton, Questionable, WaitsFor, Kept, server, entered, results
<1>1. ASSUME NEW t \in Target \cup {None}, HandleDemoTargetChange(t) PROVE PageInv'
  BY <1>1
     DEF HandleDemoTargetChange, WorkIsCurrent, PageItself, ShownIsCurrent, SliceOfOneSnapshot, LoadingIsHeardOf
<1>2. CASE SubmitBaseRequirements
  BY <1>2
     DEF SubmitBaseRequirements, WorkIsCurrent, PageItself, ShownIsCurrent, SliceOfOneSnapshot, LoadingIsHeardOf
<1>3. CASE RequirementsArrive
  <2>1. ASSUME NEW mapped, RequirementsLoaded(mapped), open = "advanced", fetches["requirements"] # None,
            mapped \in Requirements, mapped # None, mapped.target = target,
            target \in Slices => mapped.snapshot = catalog
       PROVE  PageInv'
    <3> USE <2>1 DEF RequirementsLoaded
    <3>1. loaded = None /\ comparison = None /\ report = None
      BY DEF WorkIsCurrent, ShownIsCurrent
    <3> QED
      BY <3>1 DEF WorkIsCurrent, PageItself, ShownIsCurrent, SliceOfOneSnapshot, LoadingIsHeardOf
  <2>2. ASSUME NEW base \in OfTarget(BaseAnswers, target), RequirementsLoaded(LegacyMapped(target, base))
       PROVE  PageInv'
    BY <1>3, <2>1, <2>2, MappedFits DEF RequirementsArrive
  <2>3. ASSUME NEW evidence \in OfRelease(EvidenceAnswers, target),
            MapsSliceEvidence(Scope(target, catalog), evidence),
            RequirementsLoaded(SliceMapped(target, evidence))
       PROVE  PageInv'
    BY <1>3, <2>1, <2>3, MappedFits DEF RequirementsArrive
  <2>4. CASE RequirementsFail
    <3> USE <2>4 DEF RequirementsFail
    <3>1. loaded = None /\ comparison = None /\ shown = None
      BY <1>3 DEF RequirementsArrive, WorkIsCurrent, ShownIsCurrent
    <3> QED
      BY <3>1 DEF WorkIsCurrent, PageItself, ShownIsCurrent, SliceOfOneSnapshot, LoadingIsHeardOf
  <2> QED
    BY <1>3, <2>1, <2>2, <2>3, <2>4 DEF RequirementsArrive
<1>4. CASE EditApplicant
  BY <1>4
     DEF EditApplicant, WorkIsCurrent, PageItself, ShownIsCurrent, SliceOfOneSnapshot, LoadingIsHeardOf
<1>5. ASSUME NEW p \in Preparations, RefreshSlicePreparation(p) PROVE PageInv'
  <2> USE <1>5 DEF RefreshSlicePreparation
  <2>1. report # None =>
         /\ report' \in Result /\ report' # None /\ report'.target = report.target
         /\ report'.profile = report.profile /\ report'.snapshot = report.snapshot
         /\ report'.cited = report.cited /\ report'.preparation = preparation'
    BY PreparationChanged
  <2>2. comparison = None /\ (report = None => shown = None)
    BY DEF PageItself, ShownIsCurrent, Comparison
  <2> QED
    BY <2>1, <2>2 DEF WorkIsCurrent, PageItself, ShownIsCurrent, SliceOfOneSnapshot, LoadingIsHeardOf
<1>6. CASE ReuseReport
  <2> USE <1>6 DEF ReuseReport
  <2>1. report # None =>
         /\ report' \in Result /\ report' # None /\ report'.target = report.target
         /\ report'.profile = report.profile /\ report'.snapshot = report.snapshot
         /\ report'.cited = report.cited /\ report'.preparation = preparation'
    BY PreparationChanged
  <2> QED
    BY <2>1 DEF WorkIsCurrent, PageItself, ShownIsCurrent, SliceOfOneSnapshot, LoadingIsHeardOf
<1>7. CASE SubmitApplicantComparison
  <2> USE <1>7 DEF SubmitApplicantComparison
  <2>1. loaded # None /\ target \in Target
    BY DEF PageItself, ShownIsCurrent, WorkIsCurrent
  <2> QED
    BY <2>1 DEF WorkIsCurrent, PageItself, ShownIsCurrent, SliceOfOneSnapshot, LoadingIsHeardOf
<1>8. CASE ComparisonArrives
  <2>1. ASSUME NEW c \in OfTarget(ComparisonAnswers, target), LegacyComparisonArrives(c), open = "advanced",
            fetches["comparison"] # None
       PROVE  PageInv'
    <3> USE <2>1 DEF LegacyComparisonArrives
    <3>1. c \in ComparisonAnswers /\ target \in Legacy
      BY PageAssumption DEF OfTarget
    <3>2. /\ target \in Legacy /\ target \notin Slices
          /\ LegacyResult(TRUE) \in Result /\ LegacyResult(TRUE) # None
          /\ LegacyResult(TRUE).target = target /\ LegacyResult(TRUE).profile = profile
           /\ ReportOf(None, TRUE) = LegacyResult(TRUE)
      BY <3>1, LegacyResultFits
    <3>3. /\ comparison' \in Comparison /\ comparison' # None
           /\ comparison'.target = target /\ comparison'.profile = profile
      BY <3>1, PageAssumption DEF Comparison
    <3>4. loaded # None /\ target \in Target
      BY DEF PageItself, ShownIsCurrent, WorkIsCurrent
    <3>5. PageTypeOK'
      <4>1. comparison' \in Comparison \cup {None} /\ shown' \in Result \cup {None} /\ report' \in Result \cup {None}
        BY <3>1, <3>2, <3>3, <3>4
      <4>2. fetches' \in [Kind -> Request \cup {None}]
        OBVIOUS
      <4>3. status' \in [Kind -> Status]
        OBVIOUS
      <4>4. step' \in 1..4
        OBVIOUS
      <4> QED
        BY <4>1, <4>2, <4>3, <4>4
    <3>6. WorkIsCurrent' /\ PageItself'
      BY <3>1, <3>2, <3>3, <3>4 DEF WorkIsCurrent, PageItself
    <3>7. ShownIsCurrent' /\ SliceOfOneSnapshot'
      BY <3>1, <3>2, <3>3, <3>4 DEF PageItself, ShownIsCurrent, SliceOfOneSnapshot
    <3>8. LoadingIsHeardOf'
      BY <3>1, <3>2, <3>3, <3>4 DEF PageItself, LoadingIsHeardOf
    <3> QED
      BY <3>5, <3>6, <3>7, <3>8
  <2>2. ASSUME NEW payload \in OfRelease(ReportAnswers, target), SliceComparisonArrives(payload), open = "advanced",
            fetches["comparison"] # None
       PROVE  PageInv'
    <3> USE <2>2 DEF SliceComparisonArrives
    <3>1. /\ target \in Slices /\ SliceResult(payload).preparation = preparation
           /\ \A r \in {SliceResult(payload), ReportOf(payload, TRUE)} :
                /\ r \in Result /\ r # None /\ r.target = target /\ r.profile = profile
                /\ r.snapshot = loaded.snapshot /\ r.cited \subseteq LoadedRecords(loaded)
      BY SliceResultFits
    <3>2. loaded # None /\ target \in Target
      BY DEF PageItself, ShownIsCurrent, WorkIsCurrent
    <3> QED
      BY <3>1, <3>2
         DEF WorkIsCurrent, PageItself, ShownIsCurrent, SliceOfOneSnapshot, LoadingIsHeardOf
  <2>3. ASSUME ComparisonFails, open = "advanced", fetches["comparison"] # None PROVE PageInv'
    BY <2>3
       DEF ComparisonFails, WorkIsCurrent, PageItself, ShownIsCurrent, SliceOfOneSnapshot, LoadingIsHeardOf
  <2> QED
    BY <1>8, <2>1, <2>2, <2>3 DEF ComparisonArrives
<1>9. CASE OpenReport
  BY <1>9
     DEF OpenReport, WorkIsCurrent, PageItself, ShownIsCurrent, SliceOfOneSnapshot, LoadingIsHeardOf
<1>10. CASE GenerateLegacyReport
  <2>1. ASSUME NEW c \in BOOLEAN, report' = LegacyResult(c), GenerateLegacyReport,
            status' = Says("report", "success")
       PROVE  PageInv'
    <3>1. target \in Legacy
      BY <2>1 DEF GenerateLegacyReport
    <3>2. /\ target \notin Slices /\ report' \in Result /\ report' # None
           /\ report'.target = target /\ report'.profile = profile
      BY <2>1, <3>1, LegacyResultFits
    <3> USE <2>1 DEF GenerateLegacyReport
    <3>3. loaded # None /\ target \in Target
      BY DEF PageItself, ShownIsCurrent, WorkIsCurrent
    <3> QED
      BY <3>1, <3>2, <3>3
         DEF WorkIsCurrent, PageItself, ShownIsCurrent, SliceOfOneSnapshot, LoadingIsHeardOf
  <2>2. ASSUME GenerateLegacyReport, status' = Says("report", "error"), UNCHANGED <<report, dialog>>
       PROVE  PageInv'
    <3> USE <2>2 DEF GenerateLegacyReport
    <3>1. loaded # None /\ target \in Target
      BY DEF PageItself, ShownIsCurrent, WorkIsCurrent
    <3> QED
      BY <3>1 DEF WorkIsCurrent, PageItself, ShownIsCurrent, SliceOfOneSnapshot, LoadingIsHeardOf
  <2>3. CASE profile # 0 /\ comparison # None
    BY <1>10, <2>1, <2>2, <2>3 DEF GenerateLegacyReport
  <2>4. CASE ~(profile # 0 /\ comparison # None)
    BY <1>10, <2>1, <2>2, <2>4 DEF GenerateLegacyReport
  <2> QED
    BY <1>10, <2>1, <2>2, <2>3, <2>4
<1>11. CASE GenerateReferenceReport
  <2> USE <1>11 DEF GenerateReferenceReport
  <2>1. loaded # None /\ target \in Target
    BY DEF PageItself, ShownIsCurrent, WorkIsCurrent
  <2> QED
    BY <2>1 DEF WorkIsCurrent, PageItself, ShownIsCurrent, SliceOfOneSnapshot, LoadingIsHeardOf
<1>12. CASE ReportArrives
  <2>1. ASSUME NEW payload \in OfRelease(ReportAnswers, target), ReportArrives,
            SliceReportOk(Scope(target, catalog), loaded, payload), report' = SliceResult(payload),
            dialog' = TRUE, status' = Says("report", "success")
       PROVE  PageInv'
    <3> USE <2>1 DEF ReportArrives
    <3>1. /\ target \in Slices /\ SliceResult(payload).preparation = preparation
           /\ \A r \in {SliceResult(payload), ReportOf(payload, TRUE)} :
                /\ r \in Result /\ r # None /\ r.target = target /\ r.profile = profile
                /\ r.snapshot = loaded.snapshot /\ r.cited \subseteq LoadedRecords(loaded)
      BY SliceResultFits
    <3>2. loaded # None /\ target \in Target
      BY DEF PageItself, ShownIsCurrent, WorkIsCurrent
    <3> QED
      BY <3>1, <3>2
         DEF WorkIsCurrent, PageItself, ShownIsCurrent, SliceOfOneSnapshot, LoadingIsHeardOf
  <2>2. ASSUME ReportArrives, status' = Says("report", "error"), UNCHANGED <<report, dialog>>
       PROVE  PageInv'
    BY <2>2
       DEF ReportArrives, WorkIsCurrent, PageItself, ShownIsCurrent, SliceOfOneSnapshot, LoadingIsHeardOf
  <2> QED
    BY <1>12, <2>1, <2>2 DEF ReportArrives
<1>13. CASE CompareInReport
  <2> USE <1>13 DEF CompareInReport
  <2>1. loaded # None /\ target \in Target
    BY DEF PageItself, ShownIsCurrent, WorkIsCurrent
  <2> QED
    BY <2>1 DEF WorkIsCurrent, PageItself, ShownIsCurrent, SliceOfOneSnapshot, LoadingIsHeardOf
<1>14. CASE ReportComparisonArrives
  <2>1. ASSUME NEW c \in OfTarget(ComparisonAnswers, target), ReportComparisonArrives,
            report' = LegacyResult(TRUE)
       PROVE  PageInv'
    <3> USE <2>1 DEF ReportComparisonArrives
    <3>1. c \in ComparisonAnswers /\ target \in Legacy
      BY PageAssumption DEF OfTarget
    <3>2. /\ target \in Legacy /\ target \notin Slices
          /\ LegacyResult(TRUE) \in Result /\ LegacyResult(TRUE) # None
          /\ LegacyResult(TRUE).target = target /\ LegacyResult(TRUE).profile = profile
           /\ ReportOf(None, TRUE) = LegacyResult(TRUE)
      BY <3>1, LegacyResultFits
    <3>3. loaded # None /\ target \in Target
      BY DEF PageItself, ShownIsCurrent, WorkIsCurrent
    <3>9. PageTypeOK'
      <4>1. comparison' \in Comparison \cup {None} /\ shown' \in Result \cup {None} /\ report' \in Result \cup {None}
        BY <3>1, <3>2, <3>3
      <4>2. fetches' \in [Kind -> Request \cup {None}]
        OBVIOUS
      <4>3. status' \in [Kind -> Status]
        OBVIOUS
      <4>4. step' \in 1..4
        OBVIOUS
      <4> QED
        BY <4>1, <4>2, <4>3, <4>4
    <3>4. WorkIsCurrent'
      BY <3>1, <3>2, <3>3 DEF WorkIsCurrent
    <3>5. PageItself'
      BY <3>1, <3>2, <3>3 DEF PageItself
    <3>6. ShownIsCurrent'
      BY <3>1, <3>2, <3>3 DEF ShownIsCurrent, WorkIsCurrent
    <3>7. SliceOfOneSnapshot'
      BY <3>1, <3>2, <3>3 DEF SliceOfOneSnapshot
    <3>8. LoadingIsHeardOf'
      BY <3>1, <3>2, <3>3 DEF LoadingIsHeardOf, PageItself
    <3> QED
      BY <3>4, <3>5, <3>6, <3>7, <3>8, <3>9
  <2>2. ASSUME ReportComparisonArrives, UNCHANGED report PROVE PageInv'
    BY <2>2
       DEF ReportComparisonArrives, WorkIsCurrent, PageItself, ShownIsCurrent, SliceOfOneSnapshot, LoadingIsHeardOf
  <2> QED
    BY <1>14, <2>1, <2>2 DEF ReportComparisonArrives
<1>15. CASE CloseReport
  BY <1>15
     DEF CloseReport, WorkIsCurrent, PageItself, ShownIsCurrent, SliceOfOneSnapshot, LoadingIsHeardOf
<1>16. CASE EditQuestion
  BY <1>16
     DEF EditQuestion, WorkIsCurrent, PageItself, ShownIsCurrent, SliceOfOneSnapshot, LoadingIsHeardOf
<1>17. CASE LoadGenerationStatus
  BY <1>17
     DEF LoadGenerationStatus, WorkIsCurrent, PageItself, ShownIsCurrent, SliceOfOneSnapshot, LoadingIsHeardOf
<1>18. CASE SubmitGroundedAnswer
  <2> USE <1>18 DEF SubmitGroundedAnswer
  <2>1. LET new == [target |-> target, profile |-> profile, question |-> question]
       IN new \in Request /\ new # None /\ new.target = target /\ new.profile = profile
    OBVIOUS
  <2> QED
    BY <2>1 DEF WorkIsCurrent, PageItself, ShownIsCurrent, SliceOfOneSnapshot, LoadingIsHeardOf
<1>19. CASE AnswerArrives
  <2> USE <1>19 DEF AnswerArrives
  <2>1. answer' # None => answer' \in Request /\ answer'.target = target
                              /\ answer'.profile = profile /\ loaded # None
    BY DEF WorkIsCurrent, ShownIsCurrent
  <2> QED
    BY <2>1 DEF WorkIsCurrent, PageItself, ShownIsCurrent, SliceOfOneSnapshot, LoadingIsHeardOf
<1>20. CASE AnswerFails
  BY <1>20
     DEF AnswerFails, WorkIsCurrent, PageItself, ShownIsCurrent, SliceOfOneSnapshot, LoadingIsHeardOf
<1>21. ASSUME NEW n \in 1..3, ActivateStep(n) PROVE PageInv'
  BY <1>21
     DEF ActivateStep, WorkIsCurrent, PageItself, ShownIsCurrent, SliceOfOneSnapshot, LoadingIsHeardOf
<1>22. CASE RetryCatalog
  BY <1>22
     DEF RetryCatalog, WorkIsCurrent, PageItself, ShownIsCurrent, SliceOfOneSnapshot, LoadingIsHeardOf
<1> QED
  BY <1>1, <1>2, <1>3, <1>4, <1>5, <1>6, <1>7, <1>8, <1>9, <1>10, <1>11, <1>12, <1>13, <1>14, <1>15, <1>16, <1>17, <1>18, <1>19, <1>20, <1>21, <1>22 DEF AdvancedNext

\* The handlers of unified.js.
LEMMA UnifiedKeeps == PageInv /\ UnifiedNext => PageInv'
<1> SUFFICES ASSUME PageInv, UnifiedNext PROVE PageInv'
  OBVIOUS
<1>0. /\ PageTypeOK
      /\ loaded # None => target \in Target /\ loaded \in Requirements /\ loaded.target = target
      /\ comparison # None => comparison \in Comparison /\ comparison.answer \in ComparisonAnswers
      /\ report # None => report \in Result
  BY HeldTarget DEF PageInv
<1> USE <1>0, AbortedKinds, NewRequests, Targets, EmptyForm
    DEF PageInv, PageTypeOK, Kind, Status, HearsOf, Usable, Unified, Free, Idle, Ended, Says, AnswerCleared,
        ReportCleared, ComparisonCleared, ClearAnswer, ClearReport, ClearComparison, ReportButton,
        QuestionBox, CompareButton, GenerateButton, Questionable, WaitsFor, Kept, server, entered, results
<1>1. ASSUME NEW t \in Target, ChooseTarget(t) PROVE PageInv'
  BY <1>1
     DEF ChooseTarget, WorkIsCurrent, PageItself, ShownIsCurrent, SliceOfOneSnapshot, LoadingIsHeardOf
<1>2. CASE LoadRequirements
  BY <1>2
     DEF LoadRequirements, WorkIsCurrent, PageItself, ShownIsCurrent, SliceOfOneSnapshot, LoadingIsHeardOf
<1>3. CASE LoadedRequirementsArrive
  <2>1. ASSUME LoadedRequirementsArrive, NEW mapped, loaded' = mapped, status' = Says("requirements", "success"),
            mapped \in Requirements, mapped # None, mapped.target = target,
            target \in Slices => mapped.snapshot = catalog
       PROVE  PageInv'
    <3> USE <2>1 DEF LoadedRequirementsArrive
    <3>1. loaded = None /\ comparison = None /\ shown = None /\ report = None /\ answer = None
      BY DEF WorkIsCurrent, ShownIsCurrent
    <3> QED
      BY <3>1 DEF WorkIsCurrent, PageItself, ShownIsCurrent, SliceOfOneSnapshot, LoadingIsHeardOf
  <2>2. ASSUME NEW base \in OfTarget(BaseAnswers, target), loaded' = Mapped(target, base),
            status' = Says("requirements", "success")
       PROVE  PageInv'
    BY <1>3, <2>1, <2>2, MappedFits
  <2>3. ASSUME NEW evidence \in OfRelease(EvidenceAnswers, target),
            MapsSliceEvidence(Scope(target, catalog), evidence), loaded' = Mapped(target, evidence),
            status' = Says("requirements", "success")
       PROVE  PageInv'
    BY <1>3, <2>1, <2>3, MappedFits
  <2>4. ASSUME LoadedRequirementsArrive, status' = Says("requirements", "error"), UNCHANGED loaded
       PROVE  PageInv'
    BY <2>4
       DEF LoadedRequirementsArrive, WorkIsCurrent, PageItself, ShownIsCurrent, SliceOfOneSnapshot, LoadingIsHeardOf
  <2> QED
    BY <1>3, <2>1, <2>2, <2>3, <2>4 DEF LoadedRequirementsArrive
<1>4. CASE ChangeProfile
  BY <1>4
     DEF ChangeProfile, WorkIsCurrent, PageItself, ShownIsCurrent, SliceOfOneSnapshot, LoadingIsHeardOf
<1>5. CASE CompareOnly
  <2>1. ASSUME CompareOnly, comparison # None PROVE PageInv'
    BY <2>1
       DEF CompareOnly, WorkIsCurrent, PageItself, ShownIsCurrent, SliceOfOneSnapshot, LoadingIsHeardOf
  <2>2. ASSUME CompareOnly, comparison = None PROVE PageInv'
    <3> USE <2>2 DEF CompareOnly
    <3>1. [profile |-> profile, waiter |-> "compare"] \in Request
      OBVIOUS
    <3>2. loaded # None /\ target \in Target
      BY DEF PageItself, ShownIsCurrent, WorkIsCurrent
    <3> QED
      BY <3>1, <3>2
         DEF WorkIsCurrent, PageItself, ShownIsCurrent, SliceOfOneSnapshot, LoadingIsHeardOf
  <2> QED
    BY <1>5, <2>1, <2>2
<1>6. CASE GenerateReportAtOnce
  <2> USE <1>6 DEF GenerateReportAtOnce
  <2>1. target \in Legacy /\ target \notin Slices
    OBVIOUS
  <2>2. \E c \in BOOLEAN : report' \in {None, ReportOf(None, c)}
    OBVIOUS
  <2>3. report' # None =>
         /\ report' \in Result /\ report'.target = target /\ report'.profile = profile
    BY <2>2, LegacyResultFits
  <2> QED
    BY <2>1, <2>2, <2>3
       DEF WorkIsCurrent, PageItself, ShownIsCurrent, SliceOfOneSnapshot, LoadingIsHeardOf
<1>7. CASE GenerateReport
  <2> USE <1>7 DEF GenerateReport
  <2>1. loaded # None /\ target \in Target
    BY DEF PageItself, ShownIsCurrent, WorkIsCurrent
  <2>2. [profile |-> profile, waiter |-> "report"] \in Request /\ [profile |-> profile] \in Request
    OBVIOUS
  <2> QED
    BY <2>1, <2>2 DEF WorkIsCurrent, PageItself, ShownIsCurrent, SliceOfOneSnapshot, LoadingIsHeardOf
<1>8. CASE ObtainComparison
  <2>1. ASSUME NEW c \in OfTarget(ComparisonAnswers, target), ObtainComparison,
            comparison' = [target |-> target, profile |-> profile, answer |-> c],
            shown' = ReportOf(None, TRUE), report' \in {report, ReportOf(None, TRUE)},
            \E w \in {"error", "success"} : status' = Says("report", w)
       PROVE  PageInv'
    <3>1. c \in ComparisonAnswers /\ target \in Legacy
      BY <2>1, PageAssumption DEF OfTarget
    <3>2. /\ target \in Legacy /\ target \notin Slices
          /\ LegacyResult(TRUE) \in Result /\ LegacyResult(TRUE) # None
          /\ LegacyResult(TRUE).target = target /\ LegacyResult(TRUE).profile = profile
           /\ ReportOf(None, TRUE) = LegacyResult(TRUE)
      BY <3>1, LegacyResultFits
    <3>3. ReportOf(None, TRUE) \in Result
      BY <3>2
    <3>4. shown' \in Result /\ report' \in Result \cup {None}
      BY <2>1, <3>3
    <3>5. shown'.target \notin Slices /\ (report' = report \/ report'.target \notin Slices)
      BY <2>1, <3>2
    <3> USE <2>1 DEF ObtainComparison
    <3>6. /\ comparison' \in Comparison /\ comparison' # None
           /\ comparison'.target = target /\ comparison'.profile = profile
      BY <3>1, PageAssumption DEF Comparison
    <3>7. loaded # None /\ target \in Target
      BY DEF PageItself, ShownIsCurrent, WorkIsCurrent
    <3>8. PageTypeOK'
      <4>1. comparison' \in Comparison \cup {None} /\ shown' \in Result \cup {None} /\ report' \in Result \cup {None}
        BY <3>1, <3>2, <3>3, <3>4, <3>5, <3>6, <3>7
      <4>2. fetches' \in [Kind -> Request \cup {None}]
        OBVIOUS
      <4>3. status' \in [Kind -> Status]
        OBVIOUS
      <4>4. step' \in 1..4
        OBVIOUS
      <4> QED
        BY <4>1, <4>2, <4>3, <4>4
    <3>9. WorkIsCurrent' /\ PageItself'
      BY <3>1, <3>2, <3>3, <3>4, <3>5, <3>6, <3>7 DEF WorkIsCurrent, PageItself
    <3>10. ShownIsCurrent'
      BY <3>2, <3>4, <3>5, <3>6, <3>7 DEF PageItself, ShownIsCurrent
    <3>11. SliceOfOneSnapshot'
      BY <3>2, <3>4, <3>5, <3>6, <3>7 DEF SliceOfOneSnapshot
    <3>12. LoadingIsHeardOf'
      BY <3>1, <3>2, <3>3, <3>4, <3>5, <3>6, <3>7 DEF PageItself, LoadingIsHeardOf
    <3> QED
      BY <3>8, <3>9, <3>10, <3>11, <3>12
  <2>2. ASSUME ObtainComparison, status' = Says("report", "error"),
            UNCHANGED <<comparison, shown, report, dialog>>
       PROVE  PageInv'
    BY <2>2
       DEF ObtainComparison, WorkIsCurrent, PageItself, ShownIsCurrent, SliceOfOneSnapshot, LoadingIsHeardOf
  <2> QED
    BY <1>8, <2>1, <2>2 DEF ObtainComparison
<1>9. CASE SliceReportArrives
  <2>1. ASSUME NEW payload \in OfRelease(ReportAnswers, target), SliceReportArrives,
            SliceReportOk(Scope(target, catalog), loaded, payload), report' = ReportOf(payload, TRUE),
            status' = Says("report", "success")
       PROVE  PageInv'
    <3> USE <2>1 DEF SliceReportArrives
    <3>1. /\ target \in Slices /\ SliceResult(payload).preparation = preparation
           /\ \A r \in {SliceResult(payload), ReportOf(payload, TRUE)} :
                /\ r \in Result /\ r # None /\ r.target = target /\ r.profile = profile
                /\ r.snapshot = loaded.snapshot /\ r.cited \subseteq LoadedRecords(loaded)
      BY SliceResultFits
    <3>2. loaded # None /\ target \in Target
      BY DEF PageItself, ShownIsCurrent, WorkIsCurrent
    <3>3. PageTypeOK' /\ WorkIsCurrent' /\ PageItself'
      BY <3>1, <3>2 DEF WorkIsCurrent, PageItself
    <3>4. ShownIsCurrent' /\ SliceOfOneSnapshot'
      BY <3>1, <3>2 DEF PageItself, ShownIsCurrent, SliceOfOneSnapshot
    <3>5. LoadingIsHeardOf'
      BY DEF PageItself, LoadingIsHeardOf
    <3> QED
      BY <3>3, <3>4, <3>5
  <2>2. ASSUME SliceReportArrives, report' = None, status' = Says("report", "error") PROVE PageInv'
    BY <2>2
       DEF SliceReportArrives, WorkIsCurrent, PageItself, ShownIsCurrent, SliceOfOneSnapshot, LoadingIsHeardOf
  <2> QED
    BY <1>9, <2>1, <2>2 DEF SliceReportArrives
<1>10. CASE CloseDialog
  BY <1>10
     DEF CloseDialog, WorkIsCurrent, PageItself, ShownIsCurrent, SliceOfOneSnapshot, LoadingIsHeardOf
<1>11. CASE TypeQuestion
  BY <1>11
     DEF TypeQuestion, WorkIsCurrent, PageItself, ShownIsCurrent, SliceOfOneSnapshot, LoadingIsHeardOf
<1>12. CASE AskQuestion
  <2> USE <1>12 DEF AskQuestion
  <2>1. LET new == [target |-> target, profile |-> profile, question |-> question]
       IN new \in Request /\ new # None /\ new.target = target /\ new.profile = profile
    OBVIOUS
  <2> QED
    BY <2>1 DEF WorkIsCurrent, PageItself, ShownIsCurrent, SliceOfOneSnapshot, LoadingIsHeardOf
<1>13. CASE QuestionAnswered
  BY <1>13
     DEF QuestionAnswered, WorkIsCurrent, PageItself, ShownIsCurrent, SliceOfOneSnapshot, LoadingIsHeardOf
<1> QED
  BY <1>1, <1>2, <1>3, <1>4, <1>5, <1>6, <1>7, <1>8, <1>9, <1>10, <1>11, <1>12, <1>13 DEF UnifiedNext

\* Either page, its catalog and its server.
LEMMA PagesKeep == PageInv /\ [PagesNext]_pageVars => PageInv'
<1> SUFFICES ASSUME PageInv, [PagesNext]_pageVars PROVE PageInv'
  OBVIOUS
<1>0. /\ PageTypeOK
      /\ loaded # None => target \in Target /\ loaded \in Requirements /\ loaded.target = target
      /\ comparison # None => comparison \in Comparison /\ comparison.answer \in ComparisonAnswers
      /\ report # None => report \in Result
  BY HeldTarget DEF PageInv
<1> USE <1>0, AbortedKinds, NewRequests, Targets, EmptyForm
    DEF PageInv, PageTypeOK, Kind, Status, HearsOf, Usable, Unified, Free, Idle, Ended, Says, AnswerCleared,
        ReportCleared, ComparisonCleared, ClearAnswer, ClearReport, ClearComparison, ReportButton,
        QuestionBox, CompareButton, GenerateButton, Questionable, WaitsFor, Kept, server, entered, results
<1>1. CASE CatalogArrives
  <2> USE <1>1 DEF CatalogArrives
  <2>1. /\ loaded = None /\ comparison = None /\ shown = None /\ report = None /\ answer = None
       /\ fetches["answer"] = None /\ fetches["requirements"] = None
    BY DEF WorkIsCurrent, ShownIsCurrent
  <2> QED
    BY <2>1 DEF WorkIsCurrent, PageItself, ShownIsCurrent, SliceOfOneSnapshot, LoadingIsHeardOf
<1>2. CASE Restart
  BY <1>2
     DEF Restart, WorkIsCurrent, PageItself, ShownIsCurrent, SliceOfOneSnapshot, LoadingIsHeardOf
<1>3. CASE UNCHANGED pageVars
  BY <1>3
     DEF pageVars, WorkIsCurrent, PageItself, ShownIsCurrent, SliceOfOneSnapshot, LoadingIsHeardOf
<1> QED
  BY <1>1, <1>2, <1>3, AdvancedKeeps, UnifiedKeeps DEF PagesNext

\* The inductive invariant holds of both pages.
THEOREM PagesInvariant == PagesSpec => []PageInv
BY PageInitInv, PagesKeep, PTL DEF PagesSpec

\* Whatever arrives late, is aborted or fails, what either page shows is of the
\* target and the form on it (app.js, unified.js: the checks after each await).
THEOREM PagesShowWhatIsCurrent == PagesSpec => []ShownIsCurrent
<1>1. PageInv => ShownIsCurrent
  BY DEF PageInv
<1> QED
  BY <1>1, PagesInvariant, PTL

\* What a slice page shows is of one release of the data, though the server may
\* come back with another between two requests (unified-core.mjs).
THEOREM SlicesOfOneSnapshot == PagesSpec => []SliceOfOneSnapshot
<1>1. PageInv => SliceOfOneSnapshot
  BY DEF PageInv
<1> QED
  BY <1>1, PagesInvariant, PTL

\* Where a page says it is working there is a request whose end will be heard of;
\* the question box of the advanced page is left out (app.js, unified.js).
THEOREM LoadingHasARequest == PagesSpec => []LoadingIsHeardOf
<1>1. PageInv => LoadingIsHeardOf
  BY DEF PageInv
<1> QED
  BY <1>1, PagesInvariant, PTL
=============================================================================
