--------------------------- MODULE MCPlanJournal ---------------------------
(***************************************************************************)
(* What nclr itself keeps in files, on small instances: the journal of a   *)
(* run (Journal) with two overlapping commands and a plan that repeats an  *)
(* action id, as the plans of level C1 do; and the plan file (Planning).   *)
(* This module extends both.  A behaviour is about one of them, named by   *)
(* which; the other stands at its start meanwhile.                         *)
(***************************************************************************)
EXTENDS Journal, Planning, PlanSamples, TLC

VARIABLE which

MCPlan == << "flush", "flush" >>
Symmetric == Permutations(Procs)

ASSUME PlanJournalAssumption == JournalAssumption

PlanJournalInit ==
    \/ which = "journal" /\ Init /\ PlanInit /\ site = Lax
    \/ which = "plan" /\ Init /\ PlanInit

JournalStep == which = "journal" /\ Next /\ UNCHANGED <<which, planVars>>
PlanStep == which = "plan" /\ PlanNext /\ UNCHANGED <<which, vars>>

PlanJournalSpec ==
    PlanJournalInit /\ [][JournalStep \/ PlanStep]_<<which, vars, planVars>>
=============================================================================
