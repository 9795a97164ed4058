----------------------------- MODULE MCWorkspaces -----------------------------
(* The two pages on one small catalog, the preparation of a workspace, the   *)
(* import of reviewed sources, the slices made of them, and what the service *)
(* reads when it starts.  They are apart: a behaviour is of one scenario.    *)
EXTENDS AdvancedPage, UnifiedPage, DemoRuntime, MCReferenceService, MCServiceStart

VARIABLE scenario

PageFinding == {[asserts |-> a, evidence |-> e] : a \in BOOLEAN, e \in {{}, {"isct"}, {"utokyo"}}}
MCBaseAnswers == {[target |-> "isct", findings |-> {f}, exam |-> x] : f \in PageFinding,
                    x \in {None,
                           [target |-> "isct", fields |-> [day |-> [known |-> TRUE, sources |-> {1}]],
                            evidence |-> {1}, personal |-> TRUE, route |-> FALSE],
                           [target |-> "isct", fields |-> [day |-> [known |-> FALSE, sources |-> {}]],
                            evidence |-> {1}, personal |-> FALSE, route |-> FALSE]}}
MCComparisonAnswers == {[target |-> "isct", findings |-> {f}, checks |-> c] :
                          f \in PageFinding, c \in {None, {[asserts |-> TRUE, evidence |-> {}]}}}
MCTopics(s) == [forms |-> {<<s, 1>>}, degree |-> {<<s, 2>>}]
MCEvidenceAnswers == {[target |-> "utokyo", snapshot |-> s, topics |-> t] : s \in Snapshots,
                        t \in {MCTopics(x) : x \in Snapshots} \cup {[forms |-> {}, degree |-> {<<2, 2>>}]}}
MCReportAnswers == {[target |-> "utokyo", snapshot |-> s, inventory |-> {<<s, 1>>, <<s, 2>>},
                     topics |-> [forms |-> [basis |-> b, context |-> {}],
                                 degree |-> [basis |-> {<<s, 2>>}, context |-> {<<s, 1>>}]]] :
                      s \in Snapshots, b \in {{}} \cup {{<<x, 1>>} : x \in Snapshots}}
CONSTANT Known        \* the snapshot the generated presentation is of
MCPresentation == [s \in {Known} |-> MCTopics(s)]

PageIdle ==
  /\ open = "advanced" /\ release = 1 /\ restarts = 0 /\ catalog = None
  /\ target = None /\ profile = 0 /\ preparation = 0 /\ question = 0
  /\ loaded = None /\ comparison = None /\ shown = None /\ report = None /\ answer = None
  /\ fetches = [k \in Kind |-> None] /\ status = [k \in Kind |-> "initial"]
  /\ step = 1 /\ dialog = FALSE /\ configured = "no"

SlicesIdle == OldReleaseServed /\ disk = MCRelease("s1", "p1", "q1")

StartIdle ==
  /\ settings = MCSetup("k1", 3, FALSE, "edited")
  /\ entry = [pdf |-> pdf1, kb |-> "k1", ready |-> TRUE] /\ pdfFile = pdf1
  /\ StartInit

OtherInit ==
  \/ scenario = "page" /\ PageInit /\ SlicesIdle
  \/ scenario = "demo" /\ PageIdle /\ SlicesIdle
  \/ scenario = "import" /\ PageIdle /\ PublishersRace
  \/ scenario = "slices" /\ PageIdle /\ OldReleaseServed

WorkspacesInit ==
  /\ DemoInit
  /\ \/ scenario = "service" /\ PageIdle /\ SlicesIdle /\ StartInit
     \/ StartIdle /\ OtherInit

WorkspacesNext ==
  \/ /\ scenario = "page" /\ UNCHANGED <<scenario, demoVars, importVars, sliceVars, startVars>>
     /\ CatalogArrives \/ Restart \/ AdvancedNext \/ UnifiedNext
  \/ scenario = "demo" /\ UNCHANGED <<scenario, pageVars, importVars, sliceVars, startVars>> /\ DemoNext
  \/ scenario = "import" /\ UNCHANGED <<scenario, pageVars, demoVars, sliceVars, startVars>> /\ ImportNext
  \/ scenario = "slices" /\ UNCHANGED <<scenario, pageVars, demoVars, startVars>> /\ SlicesNext
  \/ scenario = "service" /\ UNCHANGED <<scenario, pageVars, demoVars, importVars, sliceVars>> /\ StartNext

WorkspacesSpec ==
  WorkspacesInit
  /\ [][WorkspacesNext]_<<pageVars, demoVars, importVars, sliceVars, startVars, scenario>>
=============================================================================
