----------------------------- MODULE DemoRuntime -----------------------------
(***************************************************************************)
(* demo.py: one workspace holds one runtime, the directory the service is  *)
(* started from.  prepare_demo builds a new one beside it, audits it there *)
(* and puts it in place by two renames; processes do so at the same time,  *)
(* die at any point, and renames may be refused.                           *)
(*                                                                         *)
(* A runtime is the reviewed configuration it was built for, or "partial". *)
(***************************************************************************)
EXTENDS Naturals, FiniteSets

CONSTANTS
  Preparer,      \* processes that prepare the workspace
  Bundle,        \* reviewed configurations
  MaxPrepares,   \* bound: calls of prepare_demo
  MaxFailures,   \* bound: renames refused, removals refused, processes that die
  NoRuntime

\* A configuration is neither of the two words, and the bound is a number.
ASSUME DemoAssumption ==
  /\ MaxFailures \in Nat /\ {NoRuntime, "partial"} \cap Bundle = {} /\ NoRuntime # "partial"

VARIABLES
  runtime,       \* the active directory
  stage,         \* [process -> directory it builds]
  backup,        \* [process -> former runtime it set aside]
  litter,        \* directories no process will look at again
  pc, bundle, replace,
  prepares, failures,
  activated      \* history: a runtime was put in place once

demoVars == <<runtime, stage, backup, litter, pc, bundle, replace, prepares, failures, activated>>

Runtime == Bundle \cup {"partial", NoRuntime}

DemoInit ==
  /\ runtime = NoRuntime /\ litter = {}
  /\ stage = [p \in Preparer |-> NoRuntime] /\ backup = [p \in Preparer |-> NoRuntime]
  /\ pc = [p \in Preparer |-> "idle"] /\ bundle = [p \in Preparer |-> NoRuntime]
  /\ replace = [p \in Preparer |-> FALSE]
  /\ prepares = 0 /\ failures = 0 /\ activated = FALSE

At(p, l) == pc[p] = l
Go(p, l) == pc' = [pc EXCEPT ![p] = l]
Fails == failures < MaxFailures /\ failures' = failures + 1

\* prepare_demo, to its first use of the workspace.  Without --rebuild the
\* runtime there is audited and used; with it, it must be one of ours.
Prepare(p, b, rebuild) ==
  /\ At(p, "idle") /\ prepares < MaxPrepares /\ prepares' = prepares + 1
  /\ bundle' = [bundle EXCEPT ![p] = b]
  /\ replace' = [replace EXCEPT ![p] = runtime # NoRuntime]
  /\ Go(p, IF runtime # NoRuntime /\ ~rebuild THEN "auditing" ELSE "building")
  /\ UNCHANGED <<runtime, stage, backup, litter, failures, activated>>

\* _validate_runtime on the active directory, whether the files it reads are
\* of one runtime or of two.
Reuse(p) ==
  /\ At(p, "auditing") /\ Go(p, "idle")
  /\ UNCHANGED <<runtime, stage, backup, litter, bundle, replace, prepares, failures, activated>>

BuildRuntime(p) ==
  /\ At(p, "building") /\ Go(p, "built")
  /\ stage' = [stage EXCEPT ![p] = "partial"]
  /\ UNCHANGED <<runtime, backup, litter, bundle, replace, prepares, failures, activated>>

\* The last file is written, or the build stops where it is.
FinishStage(p) ==
  /\ At(p, "built") /\ Go(p, "staged")
  /\ \/ stage' = [stage EXCEPT ![p] = bundle[p]] /\ UNCHANGED failures
     \/ Fails /\ UNCHANGED stage
  /\ UNCHANGED <<runtime, backup, litter, bundle, replace, prepares, activated>>

\* _validate_runtime on the stage; what does not pass is removed.
ValidateStage(p) ==
  /\ At(p, "staged") /\ Go(p, IF stage[p] = bundle[p] THEN "activating" ELSE "failed")
  /\ UNCHANGED <<runtime, stage, backup, litter, bundle, replace, prepares, failures, activated>>

\* Mutant: the former runtime is removed to make room.
SetAsideGone(p) ==
  /\ At(p, "activating")
  /\ \/ ~replace[p] /\ Go(p, "placing") /\ UNCHANGED <<runtime, backup, failures>>
     \/ /\ replace[p] /\ runtime # NoRuntime /\ Go(p, "placing")
        /\ runtime' = NoRuntime /\ UNCHANGED <<backup, failures>>
  /\ UNCHANGED <<stage, litter, bundle, replace, prepares, activated>>

\* _activate_runtime: the former runtime gets another name ...
SetAside(p) ==
  /\ At(p, "activating")
  /\ \/ ~replace[p] /\ Go(p, "placing") /\ UNCHANGED <<runtime, backup, failures>>
     \/ /\ replace[p] /\ runtime # NoRuntime /\ Go(p, "placing")
        /\ backup' = [backup EXCEPT ![p] = runtime] /\ runtime' = NoRuntime
        /\ UNCHANGED failures
     \/ replace[p] /\ Go(p, "failed") /\ UNCHANGED <<runtime, backup>>
        /\ IF runtime = NoRuntime THEN UNCHANGED failures ELSE Fails
  /\ UNCHANGED <<stage, litter, bundle, replace, prepares, activated>>

\* ... and the stage gets its name, unless another process was faster.
Place(p) ==
  /\ At(p, "placing")
  /\ \/ /\ runtime = NoRuntime /\ runtime' = stage[p] /\ activated' = TRUE
        /\ stage' = [stage EXCEPT ![p] = NoRuntime] /\ Go(p, "placed") /\ UNCHANGED failures
     \/ /\ IF runtime = NoRuntime THEN Fails ELSE UNCHANGED failures
        /\ Go(p, "restoring") /\ UNCHANGED <<runtime, stage, activated>>
  /\ UNCHANGED <<backup, litter, bundle, replace, prepares>>

\* A backup that cannot go back stays where it is.
Restore(p) ==
  /\ At(p, "restoring") /\ Go(p, "failed")
  /\ backup' = [backup EXCEPT ![p] = NoRuntime]
  /\ \/ /\ backup[p] # NoRuntime /\ runtime = NoRuntime
        /\ runtime' = backup[p] /\ UNCHANGED <<litter, failures>>
     \/ /\ UNCHANGED runtime /\ litter' = litter \cup ({backup[p]} \ {NoRuntime})
        /\ IF backup[p] # NoRuntime /\ runtime = NoRuntime THEN Fails ELSE UNCHANGED failures
  /\ UNCHANGED <<stage, bundle, replace, prepares, activated>>

\* The backup is removed, or what is left of it stays.
RemoveBackup(p) ==
  /\ At(p, "placed") /\ Go(p, "idle")
  /\ backup' = [backup EXCEPT ![p] = NoRuntime]
  /\ \/ UNCHANGED <<litter, failures>>
     \/ Fails /\ backup[p] # NoRuntime /\ litter' = litter \cup {"partial"}
  /\ UNCHANGED <<runtime, stage, bundle, replace, prepares, activated>>

RemoveOwnedStage(p) ==
  /\ At(p, "failed") /\ Go(p, "idle") /\ stage' = [stage EXCEPT ![p] = NoRuntime]
  /\ UNCHANGED <<runtime, backup, litter, bundle, replace, prepares, failures, activated>>

Die(p) ==
  /\ ~At(p, "idle") /\ Go(p, "idle") /\ Fails
  /\ litter' = litter \cup ({stage[p], backup[p]} \ {NoRuntime})
  /\ stage' = [stage EXCEPT ![p] = NoRuntime] /\ backup' = [backup EXCEPT ![p] = NoRuntime]
  /\ UNCHANGED <<runtime, bundle, replace, prepares, activated>>

DemoNext ==
  \E p \in Preparer :
    \/ \E b \in Bundle, rebuild \in BOOLEAN : Prepare(p, b, rebuild)
    \/ Reuse(p) \/ BuildRuntime(p) \/ FinishStage(p) \/ ValidateStage(p)
    \/ SetAside(p) \/ Place(p) \/ Restore(p) \/ RemoveBackup(p) \/ RemoveOwnedStage(p) \/ Die(p)

DemoSpec == DemoInit /\ [][DemoNext]_demoVars

-----------------------------------------------------------------------------
(* Properties.                                                             *)

\* Once the workspace had a runtime, a whole one is on its disk whatever
\* processes did at the same time, died or were refused; and it is the active
\* one as long as nothing went wrong and nobody is between the two renames.
\* Never is one in place that was not built to its end (demo.py 689-716).
RuntimeKept ==
  /\ runtime # "partial"
  /\ activated =>
       /\ ({runtime} \cup litter \cup {backup[p] : p \in Preparer}) \cap Bundle # {}
       /\ \/ runtime # NoRuntime
          \/ failures > 0
          \/ \E p \in Preparer : pc[p] \in {"placing", "restoring"}
=============================================================================
