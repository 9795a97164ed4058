----------------------------- MODULE MCQuestions -----------------------------
(* Two parts of the path of a question, each on its small instance: the       *)
(* answer in words with its cache, and the search of an index or the corpus.  *)
(* They are apart: a behaviour is of one scenario.                            *)
EXTENDS MCNaturalAnswer, MCEvidenceSearch

VARIABLE scenario

SearchIdle ==
  /\ request = CHOOSE r \in Requests : TRUE
  /\ kb = [d \in request.docs |-> None]
  /\ SearchInit

AnswersIdle == online = TRUE /\ NaturalInit

QuestionsInit ==
  \/ scenario = "answers" /\ SearchIdle /\ NaturalInit
  \/ scenario = "search" /\ AnswersIdle /\ SearchInit

QuestionsNext ==
  \/ scenario = "answers" /\ NaturalNext /\ UNCHANGED <<scenario, searchVars>>
  \/ scenario = "search" /\ SearchNext /\ UNCHANGED <<scenario, allVars>>

\* The fairness of NaturalSpec.
QuestionsSpec ==
  /\ QuestionsInit /\ [][QuestionsNext]_<<allVars, searchVars, scenario>>
  /\ \A t \in Thread : WF_allVars(Serves(t) \/ Computing(t) \/ Stores(t))
=============================================================================
