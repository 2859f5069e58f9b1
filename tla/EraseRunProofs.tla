--------------------------- MODULE EraseRunProofs ---------------------------
(***************************************************************************)
(* Proofs about EraseRun, for every value of its constants, in three       *)
(* parts: no write while an erase runs, what erase evidence is worth and   *)
(* that no erase is repeated blindly, and what the result "ok" asserts of  *)
(* the medium.                                                             *)
(***************************************************************************)
EXTENDS EraseRun, TLAPS

-----------------------------------------------------------------------------
(* Lemmas about the recipes and the evidence. *)

\* Every entry of a recipe is an action id (plan.rs, expected_recipe).
LEMMA RecipeType ==
    ASSUME NEW l \in Levels, NEW a \in BOOLEAN
    PROVE  /\ Len(Recipe(l, a)) \in Nat
           /\ \A i \in Nat : i >= 1 /\ i <= Len(Recipe(l, a)) =>
                 Recipe(l, a)[i] \in ActionIds
<1>1. CASE l = "C2"
  BY <1>1 DEF Recipe, C2Recipe, ActionIds, Erase
<1>2. CASE l = "C1" /\ a
  BY <1>2 DEF Recipe, L1Recipe, ActionIds, PatternWrites, PatternReads,
              PrbsWrites, PrbsReads
<1>3. CASE l = "C1" /\ ~a
  BY <1>3 DEF Recipe, L1Recipe, ActionIds, PatternWrites, PatternReads,
              PrbsWrites, PrbsReads
<1> QED  BY <1>1, <1>2, <1>3 DEF Levels

\* The erase is the second action of a C2 plan and of no C1 plan.
LEMMA ErasePlace ==
    ASSUME NEW l \in Levels, NEW a \in BOOLEAN,
           NEW i \in Nat, i >= 1, i <= Len(Recipe(l, a))
    PROVE  Recipe(l, a)[i] = Erase <=> (l = "C2" /\ i = 2)
<1>1. CASE l = "C2"
  BY <1>1 DEF Recipe, C2Recipe, Erase
<1>2. CASE l = "C1"
  BY <1>2 DEF Recipe, L1Recipe, Erase
<1> QED  BY <1>1, <1>2 DEF Levels

\* The evidence stays well formed whatever outcome it counts.
LEMMA ApplyType ==
    ASSUME NEW ev \in Evidence, NEW id, NEW o \in Outcomes,
           NEW cycled \in BOOLEAN
    PROVE  ApplyOutcome(ev, id, o, cycled) \in Evidence
  BY DEF ApplyOutcome, Evidence, Outcomes

LEMMA FreshType == FreshEvidence \in Evidence
  BY DEF FreshEvidence, Evidence

LEMMA OutcomeTypes == OkOutcome \in Outcomes /\ ErrorOutcome \in Outcomes
  BY DEF OkOutcome, ErrorOutcome, Outcomes, Statuses

-----------------------------------------------------------------------------
(* Type correctness: first the helpers the actions are built from. *)

LEMMA UsedType == ASSUME TypeOK, NoFault \/ Fault PROVE used' \in Counters
  BY BoundAssumption DEF TypeOK, NoFault, Fault, Counters

LEMMA GotoType ==
    ASSUME TypeOK, NEW pc \in PCs, Goto(pc) PROVE run' \in Runs
  BY DEF TypeOK, Goto, Runs

LEMMA StopType ==
    ASSUME TypeOK, NEW st \in {"ok", "interrupted", "failed"}, Stop(st)
    PROVE  run' \in Runs
  BY DEF TypeOK, Stop, Runs, PCs

LEMMA SettleType ==
    ASSUME TypeOK, NEW o \in Outcomes, SettleWith(o) PROVE run' \in Runs
  BY DEF TypeOK, SettleWith, Runs, PCs

LEMMA CycledType ==
    ASSUME TypeOK, NEW f \in BOOLEAN, NEW o \in Outcomes, Cycled(f, o)
    PROVE  run' \in Runs
  BY DEF TypeOK, Cycled, Runs, PCs

LEMMA CutType ==
    ASSUME TypeOK, PowerCut PROVE dev' \in Devices /\ hist' \in Histories
<1>1. [erase |-> "idle", view |-> "mixed", stable |-> "mixed"] \in Devices
  BY DEF Devices, EraseStates, Media
<1>2. [dev EXCEPT !.view = dev.stable] \in Devices
  BY DEF TypeOK, Devices
<1>3. hist' \in Histories
  BY DEF TypeOK, PowerCut, Histories
<1> QED  BY <1>1, <1>2, <1>3 DEF PowerCut

LEMMA WrittenType ==
    ASSUME TypeOK, NEW m \in Media, Written(m)
    PROVE  dev' \in Devices /\ hist' \in Histories
  BY DEF TypeOK, Written, Devices, Histories, Media

LEMMA AcceptType ==
    ASSUME TypeOK, Accept PROVE dev' \in Devices /\ hist' \in Histories
  BY DEF TypeOK, Accept, Devices, EraseStates, Histories, EraseKnown

LEMMA QueryErrorType == ASSUME TypeOK, QueryError PROVE run' \in Runs
  BY DEF TypeOK, QueryError, Runs, PCs

LEMMA FallbackType == ASSUME TypeOK, FallbackOrFatal PROVE run' \in Runs
  BY StopType, GotoType DEF FallbackOrFatal, PCs

\* What becomes of a monitor that failed, and the only note taken of it.
BlindOrNot == UNCHANGED hist \/ hist' = [hist EXCEPT !.blind = TRUE]
FallbackKinds == BlindFallback \/ Failed

LEMMA FallbackKindsEffect ==
    ASSUME FallbackKinds PROVE FallbackOrFatal /\ BlindOrNot
  BY DEF FallbackKinds, BlindFallback, Failed, BlindOrNot

LEMMA MonitorErrEffect ==
    ASSUME TypeOK, MonitorErr(BlindFallback) \/ MonitorErr(Failed)
    PROVE  /\ QueryError \/ Stop("failed") \/ FallbackOrFatal
           /\ BlindOrNot
<1>1. run.ctx \in {"live", "resume", "error"}
  BY DEF TypeOK, Runs
<1>2. CASE run.ctx = "live"
  BY <1>2 DEF MonitorErr, BlindOrNot
<1>3. CASE run.ctx = "resume"
  BY <1>3 DEF MonitorErr, BlindOrNot
<1>4. CASE run.ctx = "error"
  BY <1>4, FallbackKindsEffect DEF MonitorErr, FallbackKinds
<1> QED  BY <1>1, <1>2, <1>3, <1>4

LEMMA BlindType == ASSUME TypeOK, BlindOrNot PROVE hist' \in Histories
  BY DEF TypeOK, BlindOrNot, Histories

-----------------------------------------------------------------------------
(* Every action preserves the types. *)

LEMMA BeginActionType == TypeOK /\ BeginAction => TypeOK'
<1> SUFFICES ASSUME TypeOK, BeginAction PROVE TypeOK'
  OBVIOUS
<1>1. used' \in Counters
  BY UsedType DEF BeginAction
<1>2. run' \in Runs
  BY StopType, GotoType, ZenonT(40) DEF BeginAction, TypeOK, Runs, PCs
<1> QED  BY <1>1, <1>2 DEF BeginAction, TypeOK

LEMMA PowerCycleType == TypeOK /\ PowerCycle => TypeOK'
<1> SUFFICES ASSUME TypeOK, PowerCycle PROVE TypeOK'
  OBVIOUS
<1>1. used' \in Counters
  BY UsedType DEF PowerCycle
<1>2. [st |-> "skipped", err |-> FALSE] \in Outcomes
  BY DEF Outcomes, Statuses
<1>3. run' \in Runs
  BY <1>2, StopType, CycledType, SettleType, OutcomeTypes
     DEF PowerCycle, SkipCycle
<1>4. dev' \in Devices /\ hist' \in Histories
  BY CutType DEF PowerCycle, TypeOK
<1> QED  BY <1>1, <1>3, <1>4 DEF PowerCycle, TypeOK

LEMMA ReadOutcomesType ==
    ASSUME NEW id, NEW o \in ReadOutcomes(id) PROVE o \in Outcomes
<1>1. ReadStatuses(id) \subseteq Statuses
  BY DEF ReadStatuses, Matches, Statuses
<1>2. PICK s \in ReadStatuses(id) : o = [st |-> s, err |-> s = "error"]
  BY DEF ReadOutcomes
<1>3. (s = "error") \in BOOLEAN
  OBVIOUS
<1> DEFINE e == s = "error"
<1> HIDE DEF e
<1>4. [st |-> s, err |-> e] \in Outcomes
  BY <1>1, <1>3 DEF Outcomes, e
<1> QED  BY <1>2, <1>4 DEF e

LEMMA DeviceCallType == TypeOK /\ DeviceCall => TypeOK'
<1> SUFFICES ASSUME TypeOK, DeviceCall PROVE TypeOK'
  OBVIOUS
<1>1. used' \in Counters
  BY UsedType DEF DeviceCall
<1>2. CASE CurrentId \in PatternWrites
  <2>1. run' \in Runs
    BY <1>2, SettleType, OutcomeTypes DEF DeviceCall
  <2>2. dev' \in Devices /\ hist' \in Histories
    BY <1>2, WrittenType DEF DeviceCall, Media
  <2> QED  BY <1>1, <2>1, <2>2 DEF DeviceCall, TypeOK
<1>3. CASE CurrentId \notin PatternWrites
  <2> PICK o \in ReadOutcomes(CurrentId) :
        /\ SettleWith(o)
        /\ dev' = IF CurrentId \in {"flush", "postcheck-p2"} /\ ~cfg.lying
                  THEN [dev EXCEPT !.stable = dev.view] ELSE dev
        /\ hist' = [hist EXCEPT
              !.prbs = @ \/ (CurrentId \in PrbsReads /\ o.st = "ok"
                               /\ hist.cut),
              !.zero = @ \/ (CurrentId = "lba-zero-verify" /\ o.st = "ok"
                               /\ hist.cut)]
    BY <1>3 DEF DeviceCall
  <2>1. run' \in Runs
    BY SettleType, ReadOutcomesType
  <2>2. dev' \in Devices
    BY DEF TypeOK, Devices
  <2>3. hist' \in Histories
    BY DEF TypeOK, Histories
  <2> QED  BY <1>1, <2>1, <2>2, <2>3 DEF DeviceCall, TypeOK
<1> QED  BY <1>2, <1>3

LEMMA CallFaultType == TypeOK /\ CallFault => TypeOK'
<1> SUFFICES ASSUME TypeOK, CallFault PROVE TypeOK'
  OBVIOUS
<1>1. used' \in Counters
  BY UsedType DEF CallFault
<1>2. /\ [st |-> "partial", err |-> TRUE] \in Outcomes
      /\ [st |-> "fallback", err |-> TRUE] \in Outcomes
  BY DEF Outcomes, Statuses
<1>3. run' \in Runs
  BY <1>2, SettleType, StopType, OutcomeTypes DEF CallFault
<1>4. dev' \in Devices
  BY DEF CallFault, TypeOK, Devices, Media
<1>5. hist' \in Histories
  BY DEF CallFault, TypeOK, Histories
<1> QED  BY <1>1, <1>3, <1>4, <1>5 DEF CallFault, TypeOK

LEMMA IssueEraseType == TypeOK /\ IssueErase => TypeOK'
<1> SUFFICES ASSUME TypeOK, IssueErase PROVE TypeOK'
  OBVIOUS
<1>1. used' \in Counters
  BY UsedType DEF IssueErase
<1>2. [st |-> "interrupted", err |-> TRUE] \in Outcomes
  BY DEF Outcomes, Statuses
<1>3. ASSUME run' = [run EXCEPT !.pc = "monitor", !.ctx = "live"]
      PROVE  run' \in Runs
  BY <1>3 DEF TypeOK, Runs, PCs
<1>4. ASSUME Goto("blocking") PROVE run' \in Runs
  BY <1>4, GotoType DEF PCs
<1>5. run' \in Runs
  BY <1>2, <1>3, <1>4, SettleType, StopType, QueryErrorType DEF IssueErase
<1>6. dev' \in Devices /\ hist' \in Histories
  BY AcceptType DEF IssueErase, TypeOK
<1> QED  BY <1>1, <1>5, <1>6 DEF IssueErase, TypeOK

LEMMA BlockingReturnsType == TypeOK /\ BlockingReturns => TypeOK'
<1> SUFFICES ASSUME TypeOK, BlockingReturns PROVE TypeOK'
  OBVIOUS
<1>1. [st |-> "interrupted", err |-> TRUE] \in Outcomes
  BY DEF Outcomes, Statuses
<1>2. run' \in Runs
  BY <1>1, SettleType, StopType, QueryErrorType, OutcomeTypes
     DEF BlockingReturns
<1> QED  BY <1>2, UsedType DEF BlockingReturns, TypeOK

LEMMA MonitorPollEffect ==
    ASSUME TypeOK, MonitorPoll
    PROVE  /\ BlindOrNot
           /\ \/ QueryError
              \/ Stop("failed")
              \/ Stop("interrupted")
              \/ FallbackOrFatal
              \/ SettleWith(OkOutcome)
  BY MonitorErrEffect DEF MonitorPoll, BlindOrNot

LEMMA MonitorPollType == TypeOK /\ MonitorPoll => TypeOK'
<1> SUFFICES ASSUME TypeOK, MonitorPoll PROVE TypeOK'
  OBVIOUS
<1>1. run' \in Runs
  BY MonitorPollEffect, SettleType, StopType, QueryErrorType, FallbackType,
     OutcomeTypes
<1>2. hist' \in Histories
  BY MonitorPollEffect, BlindType
<1>3. used' \in Counters
  BY UsedType DEF MonitorPoll
<1> QED  BY <1>1, <1>2, <1>3 DEF MonitorPoll, TypeOK

LEMMA QueryEraseEffect ==
    ASSUME TypeOK, QueryErase
    PROVE  /\ BlindOrNot
           /\ \/ Stop("failed")
              \/ FallbackOrFatal
              \/ Goto("issue")
              \/ Goto("monitor")
              \/ SettleWith(OkOutcome)
              \/ SettleWith(ErrorOutcome)
  BY DEF QueryErase, BlindFallback, Failed, BlindOrNot

LEMMA QueryEraseType == TypeOK /\ QueryErase => TypeOK'
<1> SUFFICES ASSUME TypeOK, QueryErase PROVE TypeOK'
  OBVIOUS
<1>1. run' \in Runs
  BY QueryEraseEffect, SettleType, StopType, GotoType, FallbackType,
     OutcomeTypes DEF PCs
<1>2. hist' \in Histories
  BY QueryEraseEffect, BlindType
<1>3. used' \in Counters
  BY UsedType DEF QueryErase
<1> QED  BY <1>1, <1>2, <1>3 DEF QueryErase, TypeOK

\* The record Settle writes names an action of the plan: that needs the
\* position of the process to be inside the recipe.
LEMMA SettleTypeOK == TypeOK /\ PositionOK /\ Settle => TypeOK'
<1> SUFFICES ASSUME TypeOK, PositionOK, Settle PROVE TypeOK'
  OBVIOUS
<1>1. CurrentId \in ActionIds
  BY RecipeType DEF Settle, PositionOK, TypeOK, Runs, Config, CurrentId,
     CurrentRecipe
<1>2. /\ run.out \in Outcomes /\ run.ev \in Evidence
      /\ run.cycled \in BOOLEAN /\ run.plan \in Levels
  BY DEF TypeOK, Runs
<1> DEFINE rec == Completed(CurrentId, run.out)
           ev  == ApplyOutcome(run.ev, CurrentId, run.out, run.cycled)
<1>3. rec \in DoneRecord
  BY <1>1, <1>2 DEF Completed, DoneRecord, Outcomes
<1>4. AppendDone(rec) \in Journals
  <2>1. Append(journal.done[run.plan], rec) \in Seq(DoneRecord)
    BY <1>2, <1>3 DEF TypeOK, Journals
  <2> HIDE DEF rec
  <2> QED  BY <1>2, <2>1 DEF AppendDone, TypeOK, Journals
<1>5. ev \in Evidence
  BY <1>2, ApplyType
<1> HIDE DEF rec, ev
<1>6. journal' \in Journals
  BY <1>4 DEF Settle, TypeOK, rec
<1>7. run' \in Runs
  <2>1. ASSUME run' = [run EXCEPT !.pc = "next", !.idx = @ + 1, !.ev = ev]
        PROVE  run' \in Runs
    <3> DEFINE n == run.idx + 1
    <3>1. n \in Nat
      BY DEF TypeOK, Runs
    <3>2. run' = [run EXCEPT !.pc = "next", !.idx = n, !.ev = ev]
      BY <2>1
    <3> HIDE DEF n
    <3> QED  BY <1>5, <3>1, <3>2 DEF TypeOK, Runs, PCs
  <2>2. ASSUME run' = [run EXCEPT !.pc = "report", !.ev = ev,
                                  !.status = "failed"]
        PROVE  run' \in Runs
    BY <1>5, <2>2 DEF TypeOK, Runs, PCs
  <2> QED  BY <2>1, <2>2, StopType, FallbackType DEF Settle, ev
<1> QED  BY <1>6, <1>7, UsedType DEF Settle, TypeOK

LEMMA SwitchPlanType == TypeOK /\ SwitchPlan => TypeOK'
<1> SUFFICES ASSUME TypeOK, SwitchPlan PROVE TypeOK'
  OBVIOUS
<1>1. journal' \in Journals
  BY DEF SwitchPlan, TypeOK, Journals
<1>2. ASSUME run' = [run EXCEPT !.pc = "next", !.plan = "C1",
                                !.idx = run.skipTo + 1, !.ev = FreshEvidence]
      PROVE  run' \in Runs
  <2> DEFINE n == run.skipTo + 1
  <2>1. n \in Nat
    BY DEF TypeOK, Runs
  <2>2. run' = [run EXCEPT !.pc = "next", !.plan = "C1", !.idx = n,
                           !.ev = FreshEvidence]
    BY <1>2
  <2> HIDE DEF n
  <2> QED  BY <2>1, <2>2, FreshType DEF TypeOK, Runs, PCs, Levels
<1>3. run' \in Runs
  BY <1>2, StopType DEF SwitchPlan
<1> QED  BY <1>1, <1>3, UsedType DEF SwitchPlan, TypeOK

LEMMA ReportType == TypeOK /\ Report => TypeOK'
<1> SUFFICES ASSUME TypeOK, Report PROVE TypeOK'
  OBVIOUS
<1>1. Compute(run.plan, run.ev).grade \in Grades
  BY DEF Compute, DeviceC2, LbaC1, Verdict, Grades
<1>2. report' \in Reports
  BY <1>1 DEF Report, TypeOK, Runs, Reports, Results
<1>3. run' \in Runs
  BY GotoType DEF Report, PCs
<1> QED  BY <1>2, <1>3 DEF Report, TypeOK

LEMMA ReplayType == TypeOK /\ PositionOK /\ Replay => TypeOK'
<1> SUFFICES ASSUME TypeOK, PositionOK, Replay PROVE TypeOK'
  OBVIOUS
<1> DEFINE done == journal.done[run.plan]
<1>1. done \in Seq(DoneRecord) /\ Len(done) \in Nat /\ run.idx \in Nat
  BY DEF TypeOK, Journals, Runs
<1>2. CASE run.idx <= Len(done) /\ run.idx >= 1
  <2> DEFINE rec == done[run.idx]
             o == [st |-> rec.st, err |-> rec.err]
             ev == ApplyOutcome(run.ev, rec.id, o, ReplayCycled(rec))
  <2>1. rec \in DoneRecord
    BY <1>1, <1>2
  <2>2. o \in Outcomes /\ ReplayCycled(rec) \in BOOLEAN
    BY <2>1 DEF DoneRecord, Outcomes, ReplayCycled, TypeOK, Runs
  <2>3. ev \in Evidence
    BY <2>2, ApplyType DEF TypeOK, Runs
  <2> DEFINE n == run.idx + 1
             c == ReplayCycled(rec)
  <2>4. run' = [run EXCEPT !.idx = n, !.cycled = c, !.ev = ev]
    BY <1>2 DEF Replay
  <2>5. n \in Nat /\ c \in BOOLEAN
    BY <1>1, <2>2
  <2> HIDE DEF rec, ev, n, c
  <2>6. run' \in Runs
    BY <2>3, <2>4, <2>5 DEF TypeOK, Runs
  <2> QED  BY <2>6 DEF Replay, TypeOK
<1>3. CASE ~(run.idx <= Len(done))
  <2> DEFINE n == Len(done)
             k == n + 1
             c == run.ev.cycled
  <2>1. run' = [run EXCEPT !.pc = "next", !.idx = k, !.skipTo = n,
                           !.cycled = c]
    BY <1>3 DEF Replay, FirstAfter, ResumeSkip
  <2>2. c \in BOOLEAN /\ n \in Nat /\ k \in Nat
    BY <1>1 DEF TypeOK, Runs, Evidence
  <2> HIDE DEF done, n, k, c
  <2>3. run' \in Runs
    BY <2>1, <2>2 DEF TypeOK, Runs, PCs
  <2> QED  BY <2>3 DEF Replay, TypeOK
<1> QED  BY <1>1, <1>2, <1>3 DEF PositionOK

LEMMA SignalType == TypeOK /\ Signal => TypeOK'
<1> SUFFICES ASSUME TypeOK, Signal PROVE TypeOK'
  OBVIOUS
<1>1. used' \in Counters
  BY BoundAssumption DEF Signal, TypeOK, Counters
<1>2. run' \in Runs
  BY DEF Signal, TypeOK, Runs
<1> QED  BY <1>1, <1>2 DEF Signal, TypeOK

LEMMA CrashType == TypeOK /\ Crash => TypeOK'
<1> SUFFICES ASSUME TypeOK, Crash PROVE TypeOK'
  OBVIOUS
<1>1. used' \in Counters
  BY BoundAssumption DEF Crash, TypeOK, Counters
<1>2. run' \in Runs
  BY GotoType DEF Crash, PCs
<1>3. dev' \in Devices /\ hist' \in Histories
  BY CutType DEF Crash, TypeOK
<1> QED  BY <1>1, <1>2, <1>3 DEF Crash, TypeOK

LEMMA ResumeType == TypeOK /\ Resume => TypeOK'
<1> SUFFICES ASSUME TypeOK, Resume PROVE TypeOK'
  OBVIOUS
<1>1. used' \in Counters
  BY BoundAssumption DEF Resume, TypeOK, Counters
<1>2. ResumePlan \in Levels
  BY DEF ResumePlan, TypeOK, Config, Levels
<1>3. run' \in Runs
  BY <1>2, FreshType, OutcomeTypes DEF Resume, Runs, PCs
<1>4. report' \in Reports
  BY DEF Resume, NoReport, Reports, Results, Grades
<1> QED  BY <1>1, <1>3, <1>4 DEF Resume, TypeOK

LEMMA EraseProgressType == TypeOK /\ EraseProgress => TypeOK'
<1> SUFFICES ASSUME TypeOK, EraseProgress PROVE TypeOK'
  OBVIOUS
<1>1. dev' \in Devices
  BY DEF EraseProgress, TypeOK, Devices, EraseStates, Media
<1>2. hist' \in Histories
  BY DEF EraseProgress, TypeOK, Histories
<1> QED  BY <1>1, <1>2, UsedType DEF EraseProgress, TypeOK

LEMMA DrainType == TypeOK /\ Drain => TypeOK'
  BY DEF TypeOK, Drain, Devices

LEMMA InitType == Init => TypeOK
<1> SUFFICES ASSUME Init PROVE TypeOK
  OBVIOUS
<1>1. journal \in Journals
  BY DEF Init, Journals
<1>2. dev \in Devices
  BY StaleAssumption DEF Init, Devices, EraseStates, Media
<1>3. run \in Runs
  BY FreshType, OutcomeTypes DEF Init, Runs, PCs, Config
<1>4. hist \in Histories /\ report \in Reports
  BY DEF Init, Histories, NoReport, Reports, Results, Grades
<1>5. used \in Counters
  BY BoundAssumption DEF Init, Counters
<1> QED  BY <1>1, <1>2, <1>3, <1>4, <1>5 DEF Init, TypeOK

-----------------------------------------------------------------------------
(* The position of the process and the journal it has written. *)

BaseInv == TypeOK /\ PositionOK /\ JournalOK

LEMMA InitBase == Init => BaseInv
<1> SUFFICES ASSUME Init PROVE BaseInv
  OBVIOUS
<1>1. TypeOK
  BY InitType
<1>2. PositionOK
  BY DEF Init, PositionOK, AtErase
<1>3. JournalOK
  BY <1>1 DEF Init, JournalOK, Active, AtErase, Levels
<1> QED  BY <1>1, <1>2, <1>3 DEF BaseInv

LEMMA BeginActionBase == BaseInv /\ BeginAction => BaseInv'
<1> SUFFICES ASSUME BaseInv, BeginAction PROVE BaseInv'
  OBVIOUS
<1>1. TypeOK'
  BY BeginActionType DEF BaseInv
<1>2. PositionOK'
  BY DEF BaseInv, TypeOK, Runs, PositionOK, BeginAction, Stop, Goto, AtErase,
         CurrentId, CurrentRecipe
<1>3. JournalOK'
  BY DEF BaseInv, TypeOK, Runs, JournalOK, BeginAction, Stop, Goto, Active,
         AtErase
<1> QED  BY <1>1, <1>2, <1>3 DEF BaseInv

LEMMA PowerCycleBase == BaseInv /\ PowerCycle => BaseInv'
<1> SUFFICES ASSUME BaseInv, PowerCycle PROVE BaseInv'
  OBVIOUS
<1>1. TypeOK'
  BY PowerCycleType DEF BaseInv
<1>2. PositionOK'
  BY ZenonT(40) DEF BaseInv, TypeOK, Runs, PositionOK, AtErase, CurrentId,
         CurrentRecipe, PowerCycle, Stop, Cycled, SkipCycle, SettleWith
<1>3. JournalOK'
  BY DEF BaseInv, TypeOK, Runs, JournalOK, Active, AtErase,
         PowerCycle, Stop, Cycled, SkipCycle, SettleWith
<1> QED  BY <1>1, <1>2, <1>3 DEF BaseInv

LEMMA DeviceCallBase == BaseInv /\ DeviceCall => BaseInv'
<1> SUFFICES ASSUME BaseInv, DeviceCall PROVE BaseInv'
  OBVIOUS
<1>1. TypeOK'
  BY DeviceCallType DEF BaseInv
<1>2. PositionOK'
  BY DEF BaseInv, TypeOK, Runs, PositionOK, AtErase, CurrentId,
         CurrentRecipe, DeviceCall, SettleWith
<1>3. JournalOK'
  BY DEF BaseInv, TypeOK, Runs, JournalOK, Active, AtErase,
         DeviceCall, SettleWith
<1> QED  BY <1>1, <1>2, <1>3 DEF BaseInv

LEMMA CallFaultBase == BaseInv /\ CallFault => BaseInv'
<1> SUFFICES ASSUME BaseInv, CallFault PROVE BaseInv'
  OBVIOUS
<1>1. TypeOK'
  BY CallFaultType DEF BaseInv
<1>2. PositionOK'
  BY ZenonT(40) DEF BaseInv, TypeOK, Runs, PositionOK, AtErase, CurrentId,
         CurrentRecipe, CallFault, SettleWith, Stop
<1>3. JournalOK'
  BY ZenonT(40) DEF BaseInv, TypeOK, Runs, JournalOK, Active, AtErase,
         CallFault, SettleWith, Stop
<1> QED  BY <1>1, <1>2, <1>3 DEF BaseInv

LEMMA IssueEraseBase == BaseInv /\ IssueErase => BaseInv'
<1> SUFFICES ASSUME BaseInv, IssueErase PROVE BaseInv'
  OBVIOUS
<1>1. TypeOK'
  BY IssueEraseType DEF BaseInv
<1>2. PositionOK'
  BY DEF BaseInv, TypeOK, Runs, PositionOK, AtErase, CurrentId,
         CurrentRecipe, IssueErase, SettleWith, Stop,
         Goto, QueryError, EraseKnown
<1>3. JournalOK'
  BY DEF BaseInv, TypeOK, Runs, JournalOK, Active, AtErase,
         IssueErase, SettleWith, Stop,
         Goto, QueryError, EraseKnown
<1> QED  BY <1>1, <1>2, <1>3 DEF BaseInv

LEMMA BlockingReturnsBase == BaseInv /\ BlockingReturns => BaseInv'
<1> SUFFICES ASSUME BaseInv, BlockingReturns PROVE BaseInv'
  OBVIOUS
<1>1. TypeOK'
  BY BlockingReturnsType DEF BaseInv
<1>2. PositionOK'
  BY DEF BaseInv, TypeOK, Runs, PositionOK, AtErase, CurrentId,
         CurrentRecipe, BlockingReturns, SettleWith,
         Stop, QueryError
<1>3. JournalOK'
  BY DEF BaseInv, TypeOK, Runs, JournalOK, Active, AtErase,
         BlockingReturns, SettleWith,
         Stop, QueryError
<1> QED  BY <1>1, <1>2, <1>3 DEF BaseInv

LEMMA MonitorPollBase == BaseInv /\ MonitorPoll => BaseInv'
<1> SUFFICES ASSUME BaseInv, MonitorPoll PROVE BaseInv'
  OBVIOUS
<1>1. TypeOK'
  BY MonitorPollType DEF BaseInv
<1>2. /\ run'.pc \in {"query", "report", "switch", "settle"}
      /\ run'.plan = run.plan /\ run'.idx = run.idx
      /\ run'.pc = "query" => run'.ctx = "error"
      /\ UNCHANGED <<cfg, journal>> /\ run.pc = "monitor"
  <2>1. UNCHANGED <<cfg, journal>> /\ run.pc = "monitor"
    BY DEF MonitorPoll
  <2> QED  BY <2>1, MonitorPollEffect DEF BaseInv, TypeOK, Runs, SettleWith,
              Stop, Goto, QueryError, FallbackOrFatal
<1>3. PositionOK'
  BY <1>2 DEF BaseInv, TypeOK, Runs, PositionOK, AtErase, CurrentId,
              CurrentRecipe
<1>4. JournalOK'
  BY <1>2 DEF BaseInv, JournalOK, Active, AtErase
<1> QED  BY <1>1, <1>3, <1>4 DEF BaseInv

LEMMA QueryEraseBase == BaseInv /\ QueryErase => BaseInv'
<1> SUFFICES ASSUME BaseInv, QueryErase PROVE BaseInv'
  OBVIOUS
<1>1. TypeOK'
  BY QueryEraseType DEF BaseInv
<1>2. /\ run'.pc \in {"issue", "monitor", "report", "switch", "settle"}
      /\ run'.plan = run.plan /\ run'.idx = run.idx
      /\ UNCHANGED <<cfg, journal>> /\ run.pc = "query"
  <2>1. UNCHANGED <<cfg, journal>> /\ run.pc = "query"
    BY DEF QueryErase
  <2> QED  BY <2>1, QueryEraseEffect DEF BaseInv, TypeOK, Runs, SettleWith,
              Stop, Goto, FallbackOrFatal
<1>3. run'.pc = "monitor" => EraseKnown
  BY DEF QueryErase, BaseInv, TypeOK, Runs, StatusAnswers, EraseKnown,
         BlindFallback, Failed, FallbackOrFatal, Stop, Goto, SettleWith
<1>4. PositionOK'
  BY <1>2, <1>3 DEF BaseInv, TypeOK, Runs, PositionOK, AtErase, CurrentId,
                    CurrentRecipe, EraseKnown
<1>5. JournalOK'
  BY <1>2 DEF BaseInv, JournalOK, Active, AtErase
<1> QED  BY <1>1, <1>4, <1>5 DEF BaseInv

LEMMA SettleBase == BaseInv /\ Settle => BaseInv'
<1> SUFFICES ASSUME BaseInv, Settle PROVE BaseInv'
  OBVIOUS
<1>1. TypeOK'
  BY SettleTypeOK DEF BaseInv
<1>2. PositionOK'
  <2>1. \/ run'.pc \in {"report", "next"} /\ run'.idx \in {run.idx, run.idx + 1}
        \/ /\ run'.pc = "switch"
           /\ UNCHANGED <<cfg, run.idx, run.plan>>
    BY DEF BaseInv, TypeOK, Runs, Settle, Stop, Goto, FallbackOrFatal
  <2>2. run.idx \in Nat /\ run.idx >= 1 /\ run.idx <= Len(CurrentRecipe)
    BY DEF BaseInv, TypeOK, Runs, PositionOK, Settle
  <2> QED  BY <2>1, <2>2 DEF PositionOK, AtErase, CurrentRecipe
<1>3. JournalOK'
  <2>1. CASE run'.pc = "next"
    <3>1. /\ run'.plan = run.plan /\ run'.idx = run.idx + 1
          /\ \E rec : journal' = AppendDone(rec)
      BY <2>1 DEF BaseInv, TypeOK, Runs, Settle, Stop, Goto, FallbackOrFatal
    <3>2. CASE run.plan = "C2"
      <4>1. PICK rec : journal' = AppendDone(rec)
        BY <3>1
      <4>2. /\ journal'.done["C2"] = Append(journal.done["C2"], rec)
            /\ journal'.fb = journal.fb
        BY <3>2, <4>1 DEF AppendDone, BaseInv, TypeOK, Journals, Levels
      <4>3. Len(journal'.done["C2"]) = Len(journal.done["C2"]) + 1
        BY <4>2 DEF BaseInv, TypeOK, Journals, Levels
      <4> QED  BY <2>1, <3>1, <3>2, <4>2, <4>3
               DEF BaseInv, JournalOK, Active, Settle
    <3> QED  BY <3>1, <3>2 DEF JournalOK
  <2>2. CASE run'.pc = "switch"
    BY <2>2 DEF BaseInv, TypeOK, Runs, JournalOK, Active, Settle, Stop, Goto,
                FallbackOrFatal
  <2>3. CASE run'.pc = "report"
    BY <2>3 DEF JournalOK, Active, AtErase
  <2>4. run'.pc \in {"next", "switch", "report"}
    BY DEF BaseInv, TypeOK, Runs, Settle, Stop, Goto, FallbackOrFatal
  <2> QED  BY <2>1, <2>2, <2>3, <2>4
<1> QED  BY <1>1, <1>2, <1>3 DEF BaseInv

LEMMA SwitchPlanBase == BaseInv /\ SwitchPlan => BaseInv'
<1> SUFFICES ASSUME BaseInv, SwitchPlan PROVE BaseInv'
  OBVIOUS
<1>1. TypeOK'
  BY SwitchPlanType DEF BaseInv
<1>2. PositionOK'
  <2>1. run.skipTo \in Nat /\ run.idx \in Nat
    BY DEF BaseInv, TypeOK, Runs
  <2>2. CASE Stop("failed")
    BY <2>1, <2>2 DEF BaseInv, TypeOK, Runs, PositionOK, AtErase, Stop
  <2>3. CASE run' = [run EXCEPT !.pc = "next", !.plan = "C1",
                                !.idx = run.skipTo + 1, !.ev = FreshEvidence]
    <3>1. run'.pc = "next" /\ run'.idx = run.skipTo + 1
      BY <2>3 DEF BaseInv, TypeOK, Runs
    <3> QED  BY <2>1, <3>1 DEF PositionOK, AtErase
  <2> QED  BY <2>2, <2>3 DEF SwitchPlan
<1>3. JournalOK'
  BY DEF BaseInv, TypeOK, Runs, JournalOK, Active, AtErase,
         SwitchPlan, Stop
<1> QED  BY <1>1, <1>2, <1>3 DEF BaseInv

LEMMA ReportBase == BaseInv /\ Report => BaseInv'
<1> SUFFICES ASSUME BaseInv, Report PROVE BaseInv'
  OBVIOUS
<1>1. TypeOK'
  BY ReportType DEF BaseInv
<1>2. PositionOK'
  BY DEF BaseInv, TypeOK, Runs, PositionOK, AtErase, CurrentId,
         CurrentRecipe, Report, Goto
<1>3. JournalOK'
  BY DEF BaseInv, TypeOK, Runs, JournalOK, Active, AtErase,
         Report, Goto
<1> QED  BY <1>1, <1>2, <1>3 DEF BaseInv

LEMMA ReplayBase == BaseInv /\ Replay => BaseInv'
<1> SUFFICES ASSUME BaseInv, Replay PROVE BaseInv'
  OBVIOUS
<1>1. TypeOK'
  BY ReplayType DEF BaseInv
<1> DEFINE n == Len(journal.done[run.plan])
<1>2. n \in Nat /\ run.idx \in Nat /\ run.idx >= 1
  BY DEF BaseInv, TypeOK, Journals, Runs, PositionOK
<1>3. \/ run.idx <= n /\ run'.pc = "replay" /\ run'.idx = run.idx + 1
      \/ run'.pc = "next" /\ run'.idx = n + 1
  BY DEF Replay, FirstAfter, ResumeSkip, BaseInv, TypeOK, Runs
<1>4. run'.plan = run.plan /\ UNCHANGED <<cfg, journal>>
  BY DEF Replay, BaseInv, TypeOK, Runs
<1>5. PositionOK'
  BY <1>2, <1>3 DEF PositionOK, AtErase
<1>6. JournalOK'
  BY <1>2, <1>3, <1>4 DEF BaseInv, JournalOK, Active, Replay
<1> QED  BY <1>1, <1>5, <1>6 DEF BaseInv

LEMMA SignalBase == BaseInv /\ Signal => BaseInv'
<1> SUFFICES ASSUME BaseInv, Signal PROVE BaseInv'
  OBVIOUS
<1>1. TypeOK'
  BY SignalType DEF BaseInv
<1>2. PositionOK'
  BY DEF BaseInv, TypeOK, Runs, PositionOK, AtErase, CurrentId,
         CurrentRecipe, EraseKnown, Signal
<1>3. JournalOK'
  BY DEF BaseInv, TypeOK, Runs, JournalOK, Active, AtErase,
         Signal
<1> QED  BY <1>1, <1>2, <1>3 DEF BaseInv

LEMMA CrashBase == BaseInv /\ Crash => BaseInv'
<1> SUFFICES ASSUME BaseInv, Crash PROVE BaseInv'
  OBVIOUS
<1>1. TypeOK'
  BY CrashType DEF BaseInv
<1>2. PositionOK'
  BY DEF BaseInv, TypeOK, Runs, PositionOK, AtErase, CurrentId,
         CurrentRecipe, Crash, Goto
<1>3. JournalOK'
  BY DEF BaseInv, TypeOK, Runs, JournalOK, Active, AtErase,
         Crash, Goto
<1> QED  BY <1>1, <1>2, <1>3 DEF BaseInv

LEMMA ResumeBase == BaseInv /\ Resume => BaseInv'
<1> SUFFICES ASSUME BaseInv, Resume PROVE BaseInv'
  OBVIOUS
<1>1. TypeOK'
  BY ResumeType DEF BaseInv
<1>2. PositionOK'
  BY DEF BaseInv, TypeOK, Runs, PositionOK, AtErase, CurrentId,
         CurrentRecipe, Resume, ResumePlan
<1>3. JournalOK'
  BY DEF BaseInv, TypeOK, Runs, JournalOK, Active, AtErase,
         Resume, ResumePlan
<1> QED  BY <1>1, <1>2, <1>3 DEF BaseInv

LEMMA EraseProgressBase == BaseInv /\ EraseProgress => BaseInv'
<1> SUFFICES ASSUME BaseInv, EraseProgress PROVE BaseInv'
  OBVIOUS
<1>1. TypeOK'
  BY EraseProgressType DEF BaseInv
<1>2. PositionOK'
  BY DEF BaseInv, TypeOK, Runs, PositionOK, AtErase, CurrentId,
         CurrentRecipe, EraseKnown, EraseProgress
<1>3. JournalOK'
  BY DEF BaseInv, TypeOK, Runs, JournalOK, Active, AtErase,
         EraseProgress
<1> QED  BY <1>1, <1>2, <1>3 DEF BaseInv

LEMMA DrainBase == BaseInv /\ Drain => BaseInv'
<1> SUFFICES ASSUME BaseInv, Drain PROVE BaseInv'
  OBVIOUS
<1>1. TypeOK'
  BY DrainType DEF BaseInv
<1>2. PositionOK'
  BY DEF BaseInv, TypeOK, Runs, PositionOK, AtErase, CurrentId,
         CurrentRecipe, EraseKnown, Drain
<1>3. JournalOK'
  BY DEF BaseInv, TypeOK, Runs, JournalOK, Active, AtErase,
         Drain
<1> QED  BY <1>1, <1>2, <1>3 DEF BaseInv

LEMMA NextBase == BaseInv /\ [Next]_vars => BaseInv'
<1> SUFFICES ASSUME BaseInv, [Next]_vars PROVE BaseInv'
  OBVIOUS
<1>1. CASE UNCHANGED vars
  BY <1>1 DEF vars, BaseInv, TypeOK, PositionOK, JournalOK, CurrentId,
              CurrentRecipe, EraseKnown
<1>2. CASE ProcessStep
  BY <1>2, BeginActionBase, PowerCycleBase, DeviceCallBase, CallFaultBase,
     IssueEraseBase, BlockingReturnsBase, MonitorPollBase, QueryEraseBase,
     SettleBase, SwitchPlanBase, ReportBase, ReplayBase DEF ProcessStep, OwnStep, StatusCall, RunCall
<1> QED  BY <1>1, <1>2, SignalBase, CrashBase, ResumeBase, EraseProgressBase,
            DrainBase DEF Next

\* The state of a run, its journal and its device is well formed, for every
\* mix of backends, options and faults.
THEOREM TypeCorrect == Spec => []TypeOK
<1>1. BaseInv => TypeOK
  BY DEF BaseInv
<1> QED  BY <1>1, InitBase, NextBase, PTL DEF Spec

\* The position and the journal of a live process fit together.
THEOREM BaseCorrect == Spec => []BaseInv
  BY InitBase, NextBase, PTL DEF Spec

-----------------------------------------------------------------------------
(* A running erase excludes every write, until nclr falls back from it      *)
(* without a verdict.                                                       *)

\* An erase that an earlier workflow left running is met by C2 plans only.
Quiet == "running" \in StaleErase => Plan0 \subseteq {"C2"}

\* Only a status call falls back without a verdict; that is not forgotten.
LEMMA BlindStep ==
    ASSUME BaseInv, Next
    PROVE  (hist'.blind = hist.blind) \/ (StatusCall /\ hist'.blind)
<1>1. CASE StatusCall
  BY <1>1, MonitorPollEffect, QueryEraseEffect
     DEF StatusCall, BlindOrNot, BaseInv, TypeOK, Histories
<1>2. CASE OwnStep \/ RunCall
  BY <1>2 DEF OwnStep, RunCall, BeginAction, Settle, SwitchPlan, Report,
              Replay, PowerCycle, PowerCut, DeviceCall, CallFault, Written,
              IssueErase, Accept, BlockingReturns, BaseInv, TypeOK, Histories
<1>3. CASE Signal \/ Crash \/ Resume \/ EraseProgress \/ Drain
  BY <1>3 DEF Signal, Crash, PowerCut, Resume, EraseProgress, Drain, BaseInv,
              TypeOK, Histories
<1> QED  BY <1>1, <1>2, <1>3 DEF Next, ProcessStep

LEMMA BlindKept ==
    ASSUME BaseInv, Next, ~StatusCall PROVE hist'.blind = hist.blind
  BY BlindStep

\* Within the plan, the erase is at position 2 of the C2 recipe.
LEMMA EraseIdx ==
    ASSUME BaseInv, run.pc \in {"call", "settle", "switch"} \cup AtErase
    PROVE  CurrentId = Erase <=> (run.plan = "C2" /\ run.idx = 2)
  BY ErasePlace DEF BaseInv, TypeOK, Runs, Config, PositionOK, CurrentId,
                    CurrentRecipe

\* Where the helpers leave the process.
LEMMA StopEffect ==
    ASSUME TypeOK, NEW st, Stop(st)
    PROVE  run'.pc = "report" /\ run'.plan = run.plan /\ run'.idx = run.idx
  BY DEF TypeOK, Runs, Stop

LEMMA SettleEffect ==
    ASSUME TypeOK, NEW o, SettleWith(o)
    PROVE  /\ run'.pc = "settle" /\ run'.out = o
           /\ run'.plan = run.plan /\ run'.idx = run.idx
  BY DEF TypeOK, Runs, SettleWith

LEMMA GotoEffect ==
    ASSUME TypeOK, NEW pc, Goto(pc)
    PROVE  /\ run'.pc = pc /\ run'.ctx = run.ctx
           /\ run'.plan = run.plan /\ run'.idx = run.idx
  BY DEF TypeOK, Runs, Goto

LEMMA QueryErrorEffect ==
    ASSUME TypeOK, QueryError
    PROVE  run'.pc = "query" /\ run'.plan = run.plan /\ run'.idx = run.idx
  BY DEF TypeOK, Runs, QueryError

LEMMA FallbackEffect ==
    ASSUME TypeOK, FallbackOrFatal
    PROVE  /\ run'.pc \in {"report", "switch"}
           /\ run'.plan = run.plan /\ run'.idx = run.idx
  BY StopEffect, GotoEffect DEF FallbackOrFatal

LEMMA InitRunning == ASSUME Quiet PROVE Init => RunningOK
<1> SUFFICES ASSUME Init, dev.erase = "running" PROVE RunningOK
  BY DEF RunningOK
<1>1. cfg.level = "C2"
  BY StaleAssumption DEF Quiet, Init
<1> QED  BY <1>1 DEF Init, RunningOK, Levels

LEMMA BeginActionRunning ==
    ASSUME BaseInv, RunningOK, hist'.blind = hist.blind,
           BeginAction
    PROVE  RunningOK'
  BY DEF BaseInv, TypeOK, Runs, PositionOK, JournalOK, RunningOK, Active,
         AtErase, EraseKnown, BeginAction, Stop, Goto

LEMMA PowerCycleRunning ==
    ASSUME BaseInv, RunningOK, hist'.blind = hist.blind,
           PowerCycle
    PROVE  RunningOK'
<1>1. run.pc = "call" /\ CurrentId # Erase /\ ~(run.plan = "C2" /\ run.idx = 2)
  BY EraseIdx DEF BaseInv, PositionOK, PowerCycle
<1>2. (dev'.erase = "running" => dev.erase = "running")
      /\ UNCHANGED <<cfg, journal>>
  BY DEF BaseInv, TypeOK, Devices, PowerCycle, PowerCut
<1>3. /\ run'.plan = run.plan /\ run'.idx = run.idx
      /\ run'.pc \in {"settle", "report"}
  BY DEF BaseInv, TypeOK, Runs, PowerCycle, Stop, Cycled,
         SkipCycle, SettleWith
<1> QED  BY <1>1, <1>2, <1>3 DEF RunningOK, Active, AtErase

LEMMA DeviceCallRunning ==
    ASSUME BaseInv, RunningOK, hist'.blind = hist.blind,
           DeviceCall
    PROVE  RunningOK'
<1>1. run.pc = "call" /\ CurrentId # Erase /\ ~(run.plan = "C2" /\ run.idx = 2)
  BY EraseIdx DEF BaseInv, PositionOK, DeviceCall
<1>2. dev'.erase = dev.erase /\ UNCHANGED <<cfg, journal>>
  BY DEF BaseInv, TypeOK, Devices, DeviceCall, Written
<1>3. /\ run'.plan = run.plan /\ run'.idx = run.idx
      /\ run'.pc \in {"settle", "report"}
  BY DEF BaseInv, TypeOK, Runs, DeviceCall, SettleWith
<1> QED  BY <1>1, <1>2, <1>3 DEF RunningOK, Active, AtErase

LEMMA CallFaultRunning ==
    ASSUME BaseInv, RunningOK, hist'.blind = hist.blind,
           CallFault
    PROVE  RunningOK'
<1>1. run.pc = "call" /\ CurrentId # Erase /\ ~(run.plan = "C2" /\ run.idx = 2)
  BY EraseIdx DEF BaseInv, PositionOK, CallFault
<1>2. dev'.erase = dev.erase /\ UNCHANGED <<cfg, journal>>
  BY DEF BaseInv, TypeOK, Devices, CallFault
<1>3. /\ run'.plan = run.plan /\ run'.idx = run.idx
      /\ run'.pc \in {"settle", "report"}
  BY DEF BaseInv, TypeOK, Runs, CallFault, SettleWith, Stop
<1> QED  BY <1>1, <1>2, <1>3 DEF RunningOK, Active, AtErase

LEMMA IssueEraseRunning ==
    ASSUME BaseInv, RunningOK, hist'.blind = hist.blind,
           IssueErase
    PROVE  RunningOK'
<1>1. /\ run.pc = "issue" /\ run.plan = "C2" /\ run.idx = 2
      /\ UNCHANGED <<cfg, journal>> /\ TypeOK
  BY EraseIdx DEF BaseInv, PositionOK, AtErase, IssueErase
<1> DEFINE n == Len(journal.done["C2"])
<1>2. ~journal.fb /\ cfg.level = "C2" /\ run.idx = n + 1
  BY <1>1 DEF BaseInv, JournalOK, Active, AtErase
<1>3. n \in Nat
  BY DEF BaseInv, TypeOK, Journals, Levels
<1>4. n <= 1
  <2> HIDE DEF n
  <2> QED  BY <1>1, <1>2, <1>3
<1>5. \/ run'.pc = "monitor" /\ run'.plan = run.plan /\ run'.idx = run.idx
      \/ Goto("blocking")
      \/ SettleWith([st |-> "interrupted", err |-> TRUE])
      \/ QueryError
      \/ Stop("interrupted")
  <2>1. ASSUME run' = [run EXCEPT !.pc = "monitor", !.ctx = "live"]
        PROVE  /\ run'.pc = "monitor" /\ run'.plan = run.plan
               /\ run'.idx = run.idx
    BY <1>1, <2>1 DEF TypeOK, Runs
  <2> QED  BY <2>1 DEF IssueErase
<1>6. /\ run'.plan = run.plan /\ run'.idx = run.idx
      /\ \/ run'.pc \in {"monitor", "blocking", "report"}
         \/ run'.pc = "settle" /\ run'.out.st = "interrupted"
         \/ run'.pc = "query"
  BY <1>1, <1>5, GotoEffect, SettleEffect, QueryErrorEffect, StopEffect
<1> QED  BY <1>1, <1>2, <1>4, <1>6 DEF RunningOK, Active, AtErase

LEMMA BlockingReturnsRunning ==
    ASSUME BaseInv, RunningOK, hist'.blind = hist.blind,
           BlockingReturns
    PROVE  RunningOK'
<1>1. run.pc = "blocking" /\ UNCHANGED <<cfg, journal, dev>> /\ TypeOK
  BY DEF BlockingReturns, BaseInv
<1>2. \/ SettleWith(OkOutcome) /\ dev.erase # "running"
      \/ QueryError
      \/ SettleWith([st |-> "interrupted", err |-> TRUE])
      \/ Stop("interrupted")
  BY DEF BlockingReturns
<1>3. /\ run'.plan = run.plan /\ run'.idx = run.idx
      /\ \/ run'.pc = "settle" /\ dev.erase # "running"
         \/ run'.pc = "settle" /\ run'.out.st = "interrupted"
         \/ run'.pc = "query"
         \/ run'.pc = "report"
  BY <1>1, <1>2, SettleEffect, QueryErrorEffect, StopEffect
<1> QED  BY <1>1, <1>3 DEF RunningOK, Active, AtErase

LEMMA MonitorPollRunning ==
    ASSUME BaseInv, RunningOK, MonitorPoll PROVE RunningOK'
<1>1. run.pc = "monitor" /\ UNCHANGED <<cfg, journal, dev>> /\ TypeOK
  BY DEF MonitorPoll, BaseInv
<1> SUFFICES ASSUME dev.erase = "running", ~hist'.blind PROVE RunningOK'
  BY <1>1 DEF RunningOK
<1>2. run.ctx \in {"live", "resume", "error"}
  BY DEF BaseInv, TypeOK, Runs
<1>3. ~hist.blind
  BY MonitorPollEffect DEF BlindOrNot, BaseInv, TypeOK, Histories
<1>4. ~BlindFallback
  BY DEF BlindFallback, BaseInv, TypeOK, Histories
<1>5. QueryError \/ Stop("failed") \/ Stop("interrupted")
  BY <1>2, <1>4 DEF MonitorPoll, MonitorErr
<1>6. /\ run'.pc \in {"query", "report"}
      /\ run'.plan = run.plan /\ run'.idx = run.idx
  BY <1>1, <1>5, QueryErrorEffect, StopEffect
<1> QED  BY <1>1, <1>3, <1>6 DEF RunningOK, Active, AtErase

LEMMA QueryEraseRunning ==
    ASSUME BaseInv, RunningOK, QueryErase PROVE RunningOK'
<1>1. run.pc = "query" /\ UNCHANGED <<cfg, journal, dev>> /\ TypeOK
  BY DEF QueryErase, BaseInv
<1> SUFFICES ASSUME dev.erase = "running", ~hist'.blind PROVE RunningOK'
  BY <1>1 DEF RunningOK
<1>2. ~hist.blind
  BY QueryEraseEffect DEF BlindOrNot, BaseInv, TypeOK, Histories
<1>3. ~BlindFallback
  BY DEF BlindFallback, BaseInv, TypeOK, Histories
<1>4. /\ "completed" \notin StatusAnswers /\ "failed" \notin StatusAnswers
      /\ "none" \in StatusAnswers => ~EraseKnown
  BY DEF StatusAnswers, EraseKnown, BaseInv, TypeOK, Config
<1>5. Stop("failed") \/ Goto("issue") \/ Goto("monitor")
  BY <1>3, <1>4 DEF QueryErase
<1>6. /\ run'.plan = run.plan /\ run'.idx = run.idx
      /\ run'.pc \in {"issue", "monitor", "report"}
  BY <1>1, <1>5, GotoEffect, StopEffect
<1> QED  BY <1>1, <1>2, <1>6 DEF RunningOK, Active, AtErase

LEMMA SettleRunning ==
    ASSUME BaseInv, RunningOK, hist'.blind = hist.blind,
           Settle
    PROVE  RunningOK'
<1>1. run.pc = "settle" /\ UNCHANGED <<cfg, dev>>
  BY DEF Settle
<1> SUFFICES ASSUME dev.erase = "running", ~hist.blind PROVE RunningOK'
  BY <1>1 DEF RunningOK
<1>2. run.plan = "C2" /\ run.idx = Len(journal.done["C2"]) + 1
  BY <1>1 DEF BaseInv, JournalOK, RunningOK, Active
<1>3. Len(journal.done["C2"]) \in Nat /\ run.idx \in Nat
  BY DEF BaseInv, TypeOK, Journals, Levels, Runs
<1>4. run.idx = 1 \/ (run.idx = 2 /\ run.out.st = "interrupted")
  BY <1>1, <1>2, <1>3 DEF RunningOK
<1>5. CASE run.out.st = "interrupted"
  BY <1>1, <1>5 DEF BaseInv, TypeOK, Runs, Settle, Stop, RunningOK, Active,
                    AtErase
<1>6. CASE run.idx = 1 /\ run.out.st # "interrupted"
  <2>1. ~Listed
    BY <1>1, <1>2, <1>6, EraseIdx DEF Listed, FallbackFrom
  <2>2. /\ run'.plan = "C2" /\ run'.idx \in {1, 2}
        /\ run'.pc \in {"next", "report"}
    <3> DEFINE ev == ApplyOutcome(run.ev, CurrentId, run.out, run.cycled)
    <3>1. \/ run' = [run EXCEPT !.pc = "next", !.idx = @ + 1, !.ev = ev]
          \/ run' = [run EXCEPT !.pc = "report", !.ev = ev,
                                !.status = "failed"]
      BY <1>6, <2>1 DEF Settle
    <3> HIDE DEF ev
    <3>2. /\ run'.plan = run.plan /\ run'.idx \in {run.idx, run.idx + 1}
          /\ run'.pc \in {"next", "report"}
      BY <3>1 DEF BaseInv, TypeOK, Runs
    <3> QED  BY <1>2, <1>6, <3>2
  <2>3. \/ journal' = journal
        \/ \E rec : journal' = AppendDone(rec)
    BY <1>6, <2>1 DEF Settle
  <2>4. journal'.fb = journal.fb /\ Len(journal'.done["C2"]) <= 1
    <3>1. CASE journal' = journal
      BY <3>1 DEF RunningOK
    <3>2. CASE \E rec : journal' = AppendDone(rec)
      <4>1. PICK rec : journal' = AppendDone(rec)
        BY <3>2
      <4>2. /\ journal'.done["C2"] = Append(journal.done["C2"], rec)
            /\ journal'.fb = journal.fb
        BY <1>2, <4>1 DEF AppendDone, BaseInv, TypeOK, Journals, Levels
      <4>3. Len(journal'.done["C2"]) = Len(journal.done["C2"]) + 1
        BY <4>2 DEF BaseInv, TypeOK, Journals, Levels
      <4> QED  BY <1>2, <1>3, <1>6, <4>2, <4>3
    <3> QED  BY <2>3, <3>1, <3>2
  <2> QED  BY <1>1, <2>2, <2>4 DEF RunningOK, Active, AtErase
<1> QED  BY <1>4, <1>5, <1>6

LEMMA SwitchPlanRunning ==
    ASSUME BaseInv, RunningOK, hist'.blind = hist.blind,
           SwitchPlan
    PROVE  RunningOK'
  BY DEF BaseInv, TypeOK, Runs, Devices, PositionOK, JournalOK,
         RunningOK, Active, AtErase, EraseKnown, SwitchPlan, Stop

LEMMA ReportRunning ==
    ASSUME BaseInv, RunningOK, hist'.blind = hist.blind,
           Report
    PROVE  RunningOK'
  BY DEF BaseInv, TypeOK, Runs, Devices, PositionOK, JournalOK,
         RunningOK, Active, AtErase, EraseKnown, Report, Goto

LEMMA ReplayRunning ==
    ASSUME BaseInv, RunningOK, hist'.blind = hist.blind,
           Replay
    PROVE  RunningOK'
  BY ZenonT(40) DEF BaseInv, TypeOK, Runs, Devices, PositionOK, JournalOK,
         RunningOK, Active, AtErase, EraseKnown, Replay, FirstAfter, ResumeSkip

LEMMA SignalRunning ==
    ASSUME BaseInv, RunningOK, hist'.blind = hist.blind,
           Signal
    PROVE  RunningOK'
  BY DEF BaseInv, TypeOK, Runs, Devices, PositionOK, JournalOK,
         RunningOK, Active, AtErase, EraseKnown, Signal

LEMMA CrashRunning ==
    ASSUME BaseInv, RunningOK, hist'.blind = hist.blind,
           Crash
    PROVE  RunningOK'
<1>1. dev'.erase = "running" => dev.erase = "running"
  BY DEF BaseInv, TypeOK, Devices, Crash, PowerCut
<1>2. run'.pc = "idle" /\ UNCHANGED <<cfg, journal>>
  BY DEF BaseInv, TypeOK, Runs, Crash, Goto
<1> QED  BY <1>1, <1>2 DEF RunningOK, Active, AtErase

LEMMA ResumeRunning ==
    ASSUME BaseInv, RunningOK, hist'.blind = hist.blind,
           Resume
    PROVE  RunningOK'
  BY DEF BaseInv, TypeOK, Runs, Devices, PositionOK, JournalOK,
         RunningOK, Active, AtErase, EraseKnown, Resume, ResumePlan

LEMMA EraseProgressRunning ==
    ASSUME BaseInv, RunningOK, hist'.blind = hist.blind,
           EraseProgress
    PROVE  RunningOK'
  BY DEF BaseInv, TypeOK, Runs, Devices, PositionOK, JournalOK,
         RunningOK, Active, AtErase, EraseKnown, EraseProgress

LEMMA DrainRunning ==
    ASSUME BaseInv, RunningOK, hist'.blind = hist.blind,
           Drain
    PROVE  RunningOK'
  BY DEF BaseInv, TypeOK, Runs, Devices, PositionOK, JournalOK,
         RunningOK, Active, AtErase, EraseKnown, Drain

LEMMA NextRunning == BaseInv /\ RunningOK /\ [Next]_vars => RunningOK'
<1> SUFFICES ASSUME BaseInv, RunningOK, [Next]_vars PROVE RunningOK'
  OBVIOUS
<1>1. CASE UNCHANGED vars
  BY <1>1 DEF vars, RunningOK
<1>2. CASE StatusCall
  BY <1>2, MonitorPollRunning, QueryEraseRunning DEF StatusCall
<1>3. CASE Next /\ ~StatusCall
  BY <1>3, BlindKept, BeginActionRunning, PowerCycleRunning, DeviceCallRunning,
     CallFaultRunning, IssueEraseRunning, BlockingReturnsRunning,
     SettleRunning, SwitchPlanRunning, ReportRunning, ReplayRunning,
     SignalRunning, CrashRunning, ResumeRunning, EraseProgressRunning,
     DrainRunning DEF Next, ProcessStep, OwnStep, RunCall
<1> QED  BY <1>1, <1>2, <1>3

\* A fallback without a verdict needs a backend that cannot answer, or a
\* status that failed.
LEMMA NextBlind == BaseInv /\ BlindOK /\ [Next]_vars => BlindOK'
<1> SUFFICES ASSUME BaseInv, BlindOK, [Next]_vars PROVE BlindOK'
  OBVIOUS
<1>1. CASE UNCHANGED vars
  BY <1>1 DEF vars, BlindOK, EraseKnown
<1>2. cfg' = cfg
  BY <1>1 DEF Next, ProcessStep, OwnStep, StatusCall, RunCall, BeginAction,
      Settle, SwitchPlan, Report, Replay, MonitorPoll, QueryErase, PowerCycle,
      DeviceCall, CallFault, IssueErase, BlockingReturns, Signal, Crash,
      Resume, EraseProgress, Drain, vars
<1>3. CASE Next /\ ~StatusCall
  BY <1>2, <1>3, BlindKept DEF BlindOK, EraseKnown
<1>4. CASE StatusCall
  <2>1. MonitorPoll \/ QueryErase
    BY <1>4 DEF StatusCall
  <2>2. UNCHANGED hist \/ ~EraseKnown \/ StatusMayFail
    <3>1. MonitorErr(Failed) => UNCHANGED hist
      BY DEF MonitorErr, Failed, BaseInv, TypeOK, Runs
    <3> QED  BY <2>1, <3>1 DEF MonitorPoll, QueryErase, Failed
  <2> QED  BY <1>2, <2>2 DEF BlindOK, EraseKnown
<1> QED  BY <1>1, <1>3, <1>4

LEMMA RunningMeansNoWrite == BaseInv /\ RunningOK => NoWriteDuringErase
<1> SUFFICES ASSUME BaseInv, RunningOK, run.pc = "call",
                    CurrentId \in PatternWrites, dev.erase = "running",
                    ~hist.blind
             PROVE  FALSE
  BY DEF NoWriteDuringErase
<1> DEFINE n == Len(journal.done["C2"])
<1>1. run.plan = "C2" /\ run.idx = n + 1 /\ n <= 1 /\ run.idx <= 6
  BY DEF RunningOK, BaseInv, JournalOK, PositionOK, Active, AtErase,
         CurrentRecipe, Recipe, C2Recipe
<1>2. n \in Nat
  BY DEF BaseInv, TypeOK, Journals, Levels
<1>3. run.idx \in {1, 2}
  <2> HIDE DEF n
  <2> QED  BY <1>1, <1>2
<1>4. CurrentId \in {"inventory", Erase}
  BY <1>1, <1>3 DEF CurrentId, CurrentRecipe, Recipe, C2Recipe
<1> QED  BY <1>4 DEF PatternWrites, PrbsWrites, Erase

\* While the device erases, the process and the journal are where only a
\* verdict of the device, an interruption or a fallback without a verdict
\* leads on (execute_plan_actions, query_erase_state), provided an erase left
\* running by an earlier workflow meets C2 plans only; status may fail.
THEOREM EraseCorrect == ASSUME Quiet PROVE Spec => []EraseInv
<1>1. Init => BaseInv /\ RunningOK /\ BlindOK
  <2>1. Init => BlindOK
    BY DEF Init, BlindOK
  <2> QED  BY <2>1, InitBase, InitRunning
<1>2. BaseInv /\ RunningOK /\ BlindOK /\ [Next]_vars
         => (BaseInv /\ RunningOK /\ BlindOK)'
  BY NextBase, NextRunning, NextBlind
<1>3. BaseInv /\ RunningOK /\ BlindOK => EraseInv
  BY DEF BaseInv, EraseInv
<1> QED  BY <1>1, <1>2, <1>3, PTL DEF Spec

\* No process writes the medium while the erase may be running inside the
\* device, but after a fallback without a verdict: on a card, which cannot be
\* asked, or when the status operation itself failed.  Every other way from a
\* failed, lost or interrupted erase to an overwrite (execute_plan_actions,
\* query_erase_state) passes the end of the erase.
THEOREM WriteSafety == ASSUME Quiet PROVE Spec => []NoWriteDuringErase
<1>1. EraseInv => NoWriteDuringErase
  BY RunningMeansNoWrite DEF BaseInv, EraseInv
<1> QED  BY <1>1, EraseCorrect, PTL

-----------------------------------------------------------------------------
(***************************************************************************)
(* Proof that the evidence "erase completed" is never invented, whatever   *)
(* processes ran, resumed and replayed the journal, for a device that does *)
(* not come with a completed erase of an earlier workflow; and that no     *)
(* process sends a second erase to a device it could have asked about the  *)
(* first.                                                                  *)
(***************************************************************************)

Fresh == "completed" \notin StaleErase

(* The inductive invariant: until the device completes an erase, nothing in *)
(* the device, the process or the journal says that it did.                 *)
NotErased ==
    /\ dev.erase # "completed"
    /\ ~run.ev.erased
    /\ run.pc = "settle" /\ CurrentId = Erase => run.out.st # "ok"
    /\ \A l \in Levels : \A i \in 1..Len(journal.done[l]) :
          journal.done[l][i].id = Erase => journal.done[l][i].st # "ok"
EvidenceInv == ~hist.erased => NotErased

-----------------------------------------------------------------------------
(* What does not concern the erase keeps it. *)

\* A process that keeps its evidence and does not settle an erase with "ok".
LEMMA Unclaimed ==
  ASSUME NotErased, UNCHANGED journal,
         run'.ev = run.ev \/ run'.ev = FreshEvidence,
         dev'.erase = dev.erase \/ dev'.erase # "completed",
         run'.pc = "settle" /\ CurrentId' = Erase => run'.out.st # "ok"
  PROVE  NotErased'
<1>1. ~run'.ev.erased
  BY DEF NotErased, FreshEvidence
<1> QED BY <1>1 DEF NotErased

\* An action other than the erase settles.
LEMMA OtherAction ==
  ASSUME BaseInv, run.pc = "call",
         run'.pc \in {"settle", "report"}, run'.plan = run.plan,
         run'.idx = run.idx, UNCHANGED cfg
  PROVE  CurrentId' # Erase
<1>1. CurrentId # Erase
  BY DEF BaseInv, PositionOK
<1> QED BY <1>1 DEF CurrentId, CurrentRecipe

\* An outcome that is no completed erase adds no evidence of one.
LEMMA NoEvidence ==
  ASSUME NEW ev, ~ev.erased, NEW id, NEW o, id = Erase => o.st # "ok", NEW c
  PROVE  ~ApplyOutcome(ev, id, o, c).erased
  BY DEF ApplyOutcome

-----------------------------------------------------------------------------
(* One lemma per action that could claim an erase. *)

LEMMA CallEvidence ==
  ASSUME BaseInv, NotErased, PowerCycle \/ DeviceCall \/ CallFault
  PROVE  NotErased'
<1>1. /\ run.pc = "call" /\ UNCHANGED <<cfg, journal>>
      /\ run'.pc \in {"settle", "report"} /\ run'.plan = run.plan
      /\ run'.idx = run.idx /\ run'.ev = run.ev
  BY DEF BaseInv, TypeOK, Runs, PowerCycle, DeviceCall, CallFault, Cycled,
         SkipCycle, SettleWith, Stop
<1>2. dev'.erase = dev.erase \/ dev'.erase # "completed"
  <2>1. PowerCut => dev'.erase \in {"idle", dev.erase}
    BY DEF BaseInv, TypeOK, Devices, PowerCut
  <2>2. CASE PowerCycle
    BY <2>1, <2>2 DEF PowerCycle
  <2>3. CASE DeviceCall \/ CallFault
    BY <2>3 DEF BaseInv, TypeOK, Devices, DeviceCall, CallFault, Written
  <2> QED BY <2>2, <2>3
<1>3. CurrentId' # Erase
  BY <1>1, OtherAction
<1> QED BY <1>1, <1>2, <1>3, Unclaimed

LEMMA EraseEvidence ==
  ASSUME BaseInv, NotErased,
         IssueErase \/ BlockingReturns \/ MonitorPoll \/ QueryErase
  PROVE  NotErased'
<1>1. dev'.erase = dev.erase \/ dev'.erase # "completed"
  BY DEF BaseInv, TypeOK, Devices, IssueErase, BlockingReturns, MonitorPoll,
         QueryErase, Accept
<1>2. run'.ev = run.ev /\ UNCHANGED journal
  <2>1. UNCHANGED journal
    BY DEF IssueErase, BlockingReturns, MonitorPoll, QueryErase
  <2>2. CASE IssueErase \/ BlockingReturns
    BY <2>1, <2>2 DEF BaseInv, TypeOK, Runs, IssueErase, BlockingReturns,
       SettleWith, Stop, Goto, QueryError
  <2>3. CASE MonitorPoll \/ QueryErase
    BY <2>1, <2>3, MonitorPollEffect, QueryEraseEffect DEF BaseInv, TypeOK,
       Runs, SettleWith, Stop, Goto, QueryError, FallbackOrFatal
  <2> QED BY <2>2, <2>3
<1>3. dev.erase # "completed" /\ "completed" \notin StatusAnswers
  BY DEF BaseInv, TypeOK, Config, NotErased, StatusAnswers
<1>4. run'.pc = "settle" => run'.out.st # "ok"
  <2>0. TypeOK /\ run.ctx \in {"live", "resume", "error"}
    BY DEF BaseInv, TypeOK, Runs
  <2>1. CASE IssueErase
    <3>1. run' = [run EXCEPT !.pc = "monitor", !.ctx = "live"]
            => run'.pc # "settle"
      BY DEF BaseInv, TypeOK, Runs
    <3>2. run'.pc = "settle"
            => run'.out = [st |-> "interrupted", err |-> TRUE]
      BY <2>0, <2>1, <3>1, SettleEffect, StopEffect, GotoEffect,
         QueryErrorEffect DEF IssueErase
    <3> QED BY <3>2
  <2>2. CASE BlockingReturns
    <3>1. run'.pc = "settle"
            => run'.out = [st |-> "interrupted", err |-> TRUE]
      BY <2>0, <2>2, <1>3, SettleEffect, StopEffect, QueryErrorEffect
         DEF BlockingReturns
    <3> QED BY <3>1
  <2>3. CASE MonitorPoll
    <3>1. MonitorErr(BlindFallback) \/ MonitorErr(Failed) => run'.pc # "settle"
      BY <2>0, MonitorErrEffect, StopEffect, QueryErrorEffect, FallbackEffect
    <3> QED BY <2>0, <2>3, <3>1, <1>3, StopEffect DEF MonitorPoll
  <2>4. CASE QueryErase
    <3>1. run'.pc = "settle" => run'.out = ErrorOutcome
      BY <2>0, <2>4, <1>3, SettleEffect, StopEffect, GotoEffect, FallbackEffect
         DEF QueryErase, BlindFallback, Failed
    <3> QED BY <3>1 DEF ErrorOutcome
  <2> QED BY <2>1, <2>2, <2>3, <2>4
<1> QED BY <1>1, <1>2, <1>4, Unclaimed

LEMMA SettleEvidence == ASSUME BaseInv, NotErased, Settle PROVE NotErased'
<1>1. run.pc = "settle" /\ UNCHANGED <<cfg, dev>>
  BY DEF Settle
<1>2. CurrentId = Erase => run.out.st # "ok"
  BY <1>1 DEF NotErased
<1>3. run'.pc # "settle"
  BY DEF BaseInv, TypeOK, Runs, Settle, Stop, FallbackOrFatal, Goto
<1>4. ~run'.ev.erased
  <2>1. \/ run'.ev = run.ev
        \/ run'.ev = ApplyOutcome(run.ev, CurrentId, run.out, run.cycled)
    BY DEF BaseInv, TypeOK, Runs, Settle, Stop, FallbackOrFatal, Goto
  <2> QED BY <2>1, <1>2, NoEvidence DEF NotErased
<1>5. \A l \in Levels : \A i \in 1..Len(journal'.done[l]) :
         journal'.done[l][i].id = Erase => journal'.done[l][i].st # "ok"
  <2> DEFINE rec == Completed(CurrentId, run.out)
  <2>1. journal' = journal \/ journal' = AppendDone(rec)
    BY DEF Settle
  <2>2. rec.id = Erase => rec.st # "ok"
    BY <1>2 DEF Completed
  <2>3. CASE journal' = journal
    BY <2>3 DEF NotErased
  <2>4. CASE journal' = AppendDone(rec)
    <3> SUFFICES ASSUME NEW l \in Levels, NEW i \in 1..Len(journal'.done[l]),
                        journal'.done[l][i].id = Erase
                 PROVE  journal'.done[l][i].st # "ok"
      OBVIOUS
    <3>1. journal.done[l] \in Seq(DoneRecord) /\ run.plan \in Levels
      BY DEF BaseInv, TypeOK, Journals, Runs
    <3>2. rec \in DoneRecord
      BY <1>1, RecipeType DEF BaseInv, PositionOK, TypeOK, Runs, Config,
         CurrentId, CurrentRecipe, Completed, DoneRecord, Outcomes
    <3> HIDE DEF rec
    <3>3. journal'.done[l] = IF l = run.plan THEN Append(journal.done[l], rec)
                                             ELSE journal.done[l]
      BY <2>4 DEF AppendDone, BaseInv, TypeOK, Journals
    <3>4. CASE l = run.plan
      <4>1. \/ i \in 1..Len(journal.done[l])
                  /\ journal'.done[l][i] = journal.done[l][i]
            \/ journal'.done[l][i] = rec
        BY <3>1, <3>2, <3>3, <3>4
      <4> QED BY <4>1, <2>2 DEF NotErased
    <3>5. CASE l # run.plan
      BY <3>3, <3>5 DEF NotErased
    <3> QED BY <3>4, <3>5
  <2> QED BY <2>1, <2>3, <2>4
<1> QED BY <1>1, <1>3, <1>4, <1>5 DEF NotErased

\* A resume takes the evidence from records that claim no erase.
LEMMA ReplayEvidence == ASSUME BaseInv, NotErased, Replay PROVE NotErased'
<1> DEFINE done == journal.done[run.plan]
<1>1. run.plan \in Levels /\ run.idx \in Nat /\ run.idx >= 1
  BY DEF BaseInv, PositionOK, TypeOK, Runs
<1>2. run'.pc \in {"replay", "next"} /\ UNCHANGED <<journal, dev>>
  BY DEF BaseInv, TypeOK, Runs, Replay
<1>3. ~run'.ev.erased
  <2>1. CASE run.idx <= Len(done)
    <3> DEFINE rec == done[run.idx]
               o == [st |-> rec.st, err |-> rec.err]
    <3>1. rec.id = Erase => o.st # "ok"
      <4>1. Len(done) \in Nat
        BY <1>1 DEF BaseInv, TypeOK, Journals
      <4> QED BY <4>1, <1>1, <2>1 DEF NotErased
    <3>2. run'.ev = ApplyOutcome(run.ev, rec.id, o, ReplayCycled(rec))
      BY <2>1 DEF BaseInv, TypeOK, Runs, Replay
    <3> QED BY <3>1, <3>2, NoEvidence DEF NotErased
  <2>2. CASE ~(run.idx <= Len(done))
    BY <2>2 DEF BaseInv, TypeOK, Runs, Replay, NotErased
  <2> QED BY <2>1, <2>2
<1> QED BY <1>2, <1>3 DEF NotErased

LEMMA OtherEvidence ==
  ASSUME BaseInv, NotErased,
         \/ BeginAction \/ SwitchPlan \/ Report \/ Signal \/ Crash \/ Resume
         \/ Drain
  PROVE  NotErased'
<1>1. UNCHANGED journal \/ SwitchPlan
  BY DEF BeginAction, Report, Signal, Crash, Resume, Drain
<1>2. run \in Runs
  BY DEF BaseInv, TypeOK
<1>3. /\ run'.ev = run.ev \/ run'.ev = FreshEvidence
      /\ \/ run'.pc # "settle"
         \/ UNCHANGED cfg /\ run'.pc = run.pc /\ run'.plan = run.plan
               /\ run'.idx = run.idx /\ run'.out = run.out
  <2>1. CASE BeginAction
    BY <1>2, <2>1 DEF Runs, BeginAction, Goto, Stop
  <2>2. CASE SwitchPlan
    BY <1>2, <2>2 DEF Runs, SwitchPlan, Stop
  <2>3. CASE Report \/ Crash
    BY <1>2, <2>3 DEF Runs, Report, Crash, Goto
  <2>4. CASE Signal
    BY <1>2, <2>4 DEF Runs, Signal
  <2>5. CASE Resume
    BY <2>5 DEF Resume
  <2>6. CASE Drain
    BY <2>6 DEF Drain
  <2> QED BY <2>1, <2>2, <2>3, <2>4, <2>5, <2>6
<1>4. dev'.erase = dev.erase \/ dev'.erase # "completed"
  BY DEF BaseInv, TypeOK, Devices, BeginAction, SwitchPlan, Report, Signal,
         Crash, PowerCut, Resume, Drain
<1>5. run'.pc = "settle" /\ CurrentId' = Erase => run'.out.st # "ok"
  BY <1>3 DEF NotErased, CurrentId, CurrentRecipe
<1>6. CASE UNCHANGED journal
  BY <1>4, <1>3, <1>5, <1>6, Unclaimed
<1>7. CASE SwitchPlan
  <2>1. journal'.done = journal.done
    BY <1>7 DEF SwitchPlan, BaseInv, TypeOK, Journals
  <2> QED BY <1>4, <1>3, <1>5, <2>1 DEF NotErased, FreshEvidence
<1> QED BY <1>1, <1>6, <1>7

-----------------------------------------------------------------------------
(* The theorem. *)

\* What happened stays so: no action takes back a completed erase.
LEMMA ErasedStays ==
  ASSUME BaseInv, [Next]_vars PROVE hist.erased => hist'.erased
<1>1. CASE MonitorPoll \/ QueryErase
  BY <1>1, MonitorPollEffect, QueryEraseEffect
     DEF BlindOrNot, BaseInv, TypeOK, Histories
<1> QED
  BY <1>1 DEF BaseInv, TypeOK, Histories, Next, ProcessStep, OwnStep,
     StatusCall, RunCall, vars, BeginAction, PowerCycle, DeviceCall, CallFault,
     IssueErase, BlockingReturns, Settle, SwitchPlan, Report, Replay, Signal,
     Crash, Resume, EraseProgress, Drain, PowerCut, Written, Accept

LEMMA EvidenceStep ==
  ASSUME BaseInv, EvidenceInv, [Next]_vars PROVE EvidenceInv'
<1> SUFFICES ASSUME ~hist'.erased PROVE NotErased'
  BY DEF EvidenceInv
<1>1. NotErased
  BY ErasedStays DEF EvidenceInv
<1>2. CASE PowerCycle \/ DeviceCall \/ CallFault
  BY <1>1, <1>2, CallEvidence
<1>3. CASE IssueErase \/ BlockingReturns \/ MonitorPoll \/ QueryErase
  BY <1>1, <1>3, EraseEvidence
<1>4. CASE Settle
  BY <1>1, <1>4, SettleEvidence
<1>5. CASE Replay
  BY <1>1, <1>5, ReplayEvidence
<1>6. CASE \/ BeginAction \/ SwitchPlan \/ Report \/ Signal \/ Crash \/ Resume
           \/ Drain
  BY <1>1, <1>6, OtherEvidence
<1>7. CASE EraseProgress
  <2>1. dev'.erase = "failed" /\ UNCHANGED <<cfg, journal, run>>
    BY <1>7 DEF EraseProgress, BaseInv, TypeOK, Histories, Devices
  <2> QED BY <1>1, <2>1 DEF NotErased, CurrentId, CurrentRecipe
<1>8. CASE UNCHANGED vars
  BY <1>1, <1>8 DEF vars, NotErased, CurrentId, CurrentRecipe
<1> QED
  BY <1>2, <1>3, <1>4, <1>5, <1>6, <1>7, <1>8 DEF Next, ProcessStep,
     OwnStep, StatusCall, RunCall

LEMMA InitEvidence == ASSUME Fresh PROVE Init => EvidenceInv
  BY DEF Fresh, Init, EvidenceInv, NotErased, FreshEvidence

\* Over all faults, crashes and resumes, a process holds the evidence that the
\* erase completed, also when cmd_resume rebuilds it from records, only if the
\* device did complete an erase in this run.
THEOREM EvidenceSound == ASSUME Fresh PROVE Spec => []EraseEvidenceSound
<1>1. Init => BaseInv /\ EvidenceInv
  BY InitBase, InitEvidence
<1>2. BaseInv /\ EvidenceInv /\ [Next]_vars => (BaseInv /\ EvidenceInv)'
  BY NextBase, EvidenceStep
<1>3. EvidenceInv => EraseEvidenceSound
  BY DEF EvidenceInv, NotErased, EraseEvidenceSound
<1> QED BY <1>1, <1>2, <1>3, PTL DEF Spec

-----------------------------------------------------------------------------
(* One erase: the inductive invariant.  A device that can be asked never    *)
(* says "none" of an erase it accepted, and only the process that began the *)
(* workflow reaches the erase without asking, once, before any was issued.  *)

\* A process of the first command that has not passed the erase.
BeforeErase ==
    /\ run.pc \in Active /\ ~run.resuming /\ run.plan = "C2"
    /\ run.idx = 1 \/ (run.pc = "next" /\ run.idx = 2)

IssuedOnce ==
    /\ ~hist.reissued
    /\ hist.issued => dev.erase # "idle"
    /\ run.pc = "issue" => ~hist.issued
    /\ run.pc = "replay" => run.resuming
    /\ BeforeErase => ~hist.issued
ReissueInv == ~hist.reissued /\ (EraseKnown => IssuedOnce)

LEMMA InitReissue == Init => ReissueInv
  BY DEF Init, ReissueInv, IssuedOnce, BeforeErase

\* Steps of a process that issue nothing and leave its place in the plan
\* alone, or leave the plan or the process.
LEMMA KeepsPlace ==
  ASSUME IssuedOnce,
         hist'.issued = hist.issued, hist'.reissued = hist.reissued,
         dev'.erase = dev.erase \/ dev'.erase # "idle",
         run'.pc # "issue", run'.pc = "replay" => run'.resuming,
         BeforeErase' => BeforeErase
  PROVE  IssuedOnce'
  BY DEF IssuedOnce

\* The steps outside the erase.
LEMMA PlainReissue ==
  ASSUME BaseInv, EraseKnown, IssuedOnce,
         \/ PowerCycle \/ DeviceCall \/ CallFault \/ BlockingReturns
         \/ MonitorPoll \/ SwitchPlan \/ Report \/ Replay
         \/ Crash \/ Resume
  PROVE  IssuedOnce'
<1>0. /\ run \in Runs /\ hist \in Histories /\ dev \in Devices
      /\ run.ctx \in {"live", "resume", "error"}
  BY DEF BaseInv, TypeOK, Runs
<1>1. /\ hist'.issued = hist.issued /\ hist'.reissued = hist.reissued
      /\ dev'.erase = dev.erase
  <2>1. CASE MonitorPoll
    BY <1>0, <2>1, MonitorPollEffect
       DEF MonitorPoll, BlindOrNot, Histories, BaseInv
  <2>2. CASE ~MonitorPoll
    BY <1>0, <2>2 DEF Histories, Devices, EraseKnown, PowerCycle, DeviceCall,
       CallFault, BlockingReturns, SwitchPlan, Report, Replay, Crash, Resume,
       PowerCut, Written
  <2> QED BY <2>1, <2>2
<1>2. CASE PowerCycle \/ DeviceCall \/ CallFault
  <2>1. /\ run'.pc \in {"settle", "report"} /\ run'.idx = run.idx
        /\ run'.plan = run.plan /\ run'.resuming = run.resuming
        /\ run.pc = "call"
    BY <1>0, <1>2 DEF Runs, PowerCycle, DeviceCall, CallFault, Cycled,
       SkipCycle, SettleWith, Stop
  <2> QED BY <1>1, <2>1, KeepsPlace DEF BeforeErase, Active
<1>3. CASE BlockingReturns \/ MonitorPoll
  <2>1. /\ run'.pc \in {"settle", "report", "query", "switch"}
        /\ run'.idx = run.idx /\ run'.plan = run.plan
        /\ run'.resuming = run.resuming
        /\ run.pc \in AtErase
    <3>1. CASE BlockingReturns
      BY <1>0, <3>1 DEF Runs, BlockingReturns, SettleWith, Stop, QueryError,
         AtErase
    <3>2. CASE MonitorPoll
      <4>1. run.pc = "monitor"
        BY <3>2 DEF MonitorPoll
      <4> QED BY <1>0, <3>2, <4>1, MonitorPollEffect DEF BaseInv, Runs,
                 SettleWith, Stop, QueryError, FallbackOrFatal, Goto, AtErase
    <3> QED BY <1>3, <3>1, <3>2
  <2> QED BY <1>1, <2>1, KeepsPlace DEF BeforeErase, Active
<1>4. CASE SwitchPlan \/ Report \/ Crash
  <2>1. /\ run'.pc \in {"report", "idle", "next"}
        /\ run'.pc = "next" => run'.plan = "C1"
    BY <1>0, <1>4 DEF Runs, SwitchPlan, Report, Crash, Stop, Goto
  <2> QED BY <1>1, <2>1, KeepsPlace DEF BeforeErase, Active, AtErase
<1>5. CASE Replay
  <2>1. run'.resuming /\ run'.pc \in {"replay", "next"}
    BY <1>0, <1>5 DEF Runs, Replay, IssuedOnce
  <2> QED BY <1>1, <2>1, KeepsPlace DEF BeforeErase
<1>6. CASE Resume
  <2>1. run'.resuming /\ run'.pc = "replay"
    BY <1>6 DEF Resume
  <2> QED BY <1>1, <2>1, KeepsPlace DEF BeforeErase
<1> QED BY <1>2, <1>3, <1>4, <1>5, <1>6

\* The steps that come to the erase.
LEMMA BeginReissue ==
  ASSUME BaseInv, EraseKnown, IssuedOnce, BeginAction PROVE IssuedOnce'
<1>0. run \in Runs /\ run.pc = "next" /\ UNCHANGED <<hist, dev>>
  BY DEF BaseInv, TypeOK, BeginAction
<1>1. /\ run'.idx = run.idx /\ run'.plan = run.plan
      /\ run'.resuming = run.resuming
      /\ run'.pc \in {"report", "call", "query", "issue"}
  BY <1>0 DEF Runs, BeginAction, Stop, Goto
<1>2. ASSUME run'.pc = "issue" PROVE ~hist.issued
  <2>1. CurrentId = Erase /\ ~run.resuming /\ run.idx <= Len(CurrentRecipe)
    BY <1>0, <1>2 DEF Runs, BeginAction, Stop, Goto, AsksFirst
  <2>2. run.plan = "C2" /\ run.idx = 2
    BY <2>1, ErasePlace DEF BaseInv, TypeOK, Runs, Config, PositionOK,
       CurrentId, CurrentRecipe
  <2> QED BY <1>0, <2>1, <2>2 DEF IssuedOnce, BeforeErase, Active
<1>3. BeforeErase' => BeforeErase
  BY <1>0, <1>1 DEF BeforeErase, Active, AtErase
<1> QED BY <1>0, <1>1, <1>2, <1>3 DEF IssuedOnce

LEMMA SettleReissue ==
  ASSUME BaseInv, EraseKnown, IssuedOnce, Settle PROVE IssuedOnce'
<1>0. /\ run \in Runs /\ run.pc = "settle" /\ UNCHANGED <<hist, dev>>
      /\ run.idx \in Nat
  BY DEF BaseInv, TypeOK, Runs, Settle
<1>1. /\ run'.plan = run.plan /\ run'.resuming = run.resuming
      /\ \/ run'.pc = "next" /\ run'.idx = run.idx + 1
         \/ run'.pc \in {"report", "switch"} /\ run'.idx = run.idx
  BY <1>0 DEF Runs, Settle, Stop, Goto, FallbackOrFatal
<1>2. run.idx >= 1
  BY DEF BaseInv, PositionOK
<1>3. BeforeErase' => BeforeErase
  BY <1>0, <1>1, <1>2 DEF BeforeErase, Active
<1> QED BY <1>0, <1>1, <1>3, KeepsPlace

\* "none" is an answer of the simulated device only, and only if no erase was
\* ever accepted.
LEMMA QueryReissue ==
  ASSUME BaseInv, EraseKnown, IssuedOnce, QueryErase PROVE IssuedOnce'
<1>0. /\ run \in Runs /\ run.pc = "query" /\ UNCHANGED dev
      /\ dev.erase \in EraseStates
      /\ hist'.issued = hist.issued /\ hist'.reissued = hist.reissued
  BY QueryEraseEffect
     DEF BaseInv, TypeOK, Devices, Histories, QueryErase, BlindOrNot
<1>1. /\ run'.idx = run.idx /\ run'.plan = run.plan
      /\ run'.resuming = run.resuming
      /\ run'.pc \in {"report", "switch", "issue", "settle", "monitor"}
  BY <1>0, QueryEraseEffect
     DEF BaseInv, Runs, Stop, Goto, FallbackOrFatal, SettleWith
<1>2. ASSUME run'.pc = "issue" PROVE ~hist.issued
  <2>1. "none" \in StatusAnswers
    BY <1>0, <1>2 DEF Runs, QueryErase, Stop, Goto, FallbackOrFatal,
       BlindFallback, Failed, SettleWith
  <2>2. cfg.backend \in {"sim", "scsi"}
    BY DEF BaseInv, TypeOK, Config, EraseKnown
  <2>3. CASE cfg.backend = "sim"
    BY <1>0, <2>1, <2>3 DEF StatusAnswers, IssuedOnce, EraseStates
  <2>4. CASE cfg.backend = "scsi"
    BY <1>0, <2>1, <2>4 DEF StatusAnswers
  <2> QED BY <2>2, <2>3, <2>4
<1>3. BeforeErase' => BeforeErase
  BY <1>0, <1>1 DEF BeforeErase, Active, AtErase
<1> QED BY <1>0, <1>1, <1>2, <1>3 DEF IssuedOnce

\* Only a device that had none is sent an erase, and the process goes on to
\* watch it.
LEMMA IssueReissue ==
  ASSUME BaseInv, EraseKnown, IssuedOnce, IssueErase PROVE IssuedOnce'
<1>0. /\ run \in Runs /\ hist \in Histories /\ dev \in Devices
      /\ run.pc = "issue" /\ ~hist.issued /\ ~hist.reissued
  BY DEF BaseInv, TypeOK, IssueErase, IssuedOnce
<1>1. /\ run'.idx = run.idx /\ run'.plan = run.plan
      /\ run'.pc \in {"monitor", "blocking", "query", "settle", "report"}
  BY <1>0 DEF Runs, IssueErase, Stop, Goto, QueryError, SettleWith
<1>2. CurrentId = Erase
  BY <1>0 DEF BaseInv, PositionOK, AtErase
<1>3. run.idx = 2
  BY <1>0, <1>2, EraseIdx DEF AtErase
<1>4. ~BeforeErase'
  BY <1>1, <1>3 DEF BeforeErase
<1>5. UNCHANGED <<dev, hist>> \/ Accept
  BY DEF IssueErase
<1>6. ~hist'.reissued /\ (hist'.issued => dev'.erase # "idle")
  BY <1>0, <1>5 DEF Accept, Histories, Devices
<1> QED BY <1>1, <1>4, <1>6 DEF IssuedOnce

LEMMA ReissueStep ==
  ASSUME BaseInv, ReissueInv, [Next]_vars PROVE ReissueInv'
<1>0. CASE ~EraseKnown
  <2>1. ~hist'.reissued /\ UNCHANGED cfg
    <3>1. CASE MonitorPoll \/ QueryErase
      BY <3>1, MonitorPollEffect, QueryEraseEffect DEF ReissueInv, BaseInv,
         TypeOK, Histories, BlindOrNot, MonitorPoll, QueryErase
    <3> QED
      BY <1>0, <3>1 DEF ReissueInv, BaseInv, TypeOK, Histories, Next,
         ProcessStep, OwnStep, StatusCall, RunCall, vars, BeginAction,
         PowerCycle, DeviceCall, CallFault, IssueErase, BlockingReturns,
         Settle, SwitchPlan, Report, Replay, Signal, Crash, Resume,
         EraseProgress, Drain, PowerCut, Written, Accept
  <2> QED BY <1>0, <2>1 DEF ReissueInv, EraseKnown
<1> SUFFICES ASSUME EraseKnown PROVE IssuedOnce' /\ EraseKnown'
  BY <1>0 DEF ReissueInv, IssuedOnce
<1>1. UNCHANGED cfg
  BY DEF Next, ProcessStep, OwnStep, StatusCall, RunCall, vars, BeginAction,
     PowerCycle, DeviceCall, CallFault, IssueErase, BlockingReturns,
     MonitorPoll, QueryErase, Settle, SwitchPlan, Report, Replay, Signal,
     Crash, Resume, EraseProgress, Drain
<1>2. EraseKnown /\ IssuedOnce /\ EraseKnown'
  BY <1>1 DEF EraseKnown, ReissueInv
<1>3. CASE \/ PowerCycle \/ DeviceCall \/ CallFault \/ BlockingReturns
           \/ MonitorPoll \/ SwitchPlan \/ Report \/ Replay
           \/ Crash \/ Resume
  BY <1>2, <1>3, PlainReissue
<1>4. CASE BeginAction
  BY <1>2, <1>4, BeginReissue
<1>5. CASE Settle
  BY <1>2, <1>5, SettleReissue
<1>6. CASE QueryErase
  BY <1>2, <1>6, QueryReissue
<1>7. CASE IssueErase
  BY <1>2, <1>7, IssueReissue
<1>8. CASE Signal
  <2>1. /\ run'.pc = run.pc /\ run'.idx = run.idx /\ run'.plan = run.plan
        /\ run'.resuming = run.resuming /\ UNCHANGED <<hist, dev>>
    BY <1>8 DEF Signal, BaseInv, TypeOK, Runs
  <2> QED BY <1>2, <2>1 DEF IssuedOnce, BeforeErase
<1>9. CASE EraseProgress \/ Drain
  <2>1. /\ hist'.issued = hist.issued /\ hist'.reissued = hist.reissued
        /\ UNCHANGED run
        /\ dev'.erase = dev.erase \/ dev'.erase # "idle"
    BY <1>9 DEF EraseProgress, Drain, BaseInv, TypeOK, Histories, Devices
  <2> QED BY <1>2, <2>1 DEF IssuedOnce, BeforeErase
<1>10. CASE UNCHANGED vars
  BY <1>2, <1>10 DEF vars, IssuedOnce, BeforeErase
<1> QED
  BY <1>3, <1>4, <1>5, <1>6, <1>7, <1>8, <1>9, <1>10
     DEF Next, ProcessStep, OwnStep, StatusCall, RunCall

\* A device whose status answers is sent at most one erase over a run, its
\* crashes and all its resumes, whatever fails (query_erase_state before the
\* erase of a resumed process and after a failed call).
THEOREM ErasedOnce == Spec => []NoBlindReissue
<1>1. Init => BaseInv /\ ReissueInv
  BY InitBase, InitReissue
<1>2. BaseInv /\ ReissueInv /\ [Next]_vars => (BaseInv /\ ReissueInv)'
  BY NextBase, ReissueStep
<1>3. BaseInv /\ ReissueInv => NoBlindReissue
  BY DEF ReissueInv, NoBlindReissue
<1> QED BY <1>1, <1>2, <1>3, PTL DEF Spec

-----------------------------------------------------------------------------
(***************************************************************************)
(* Proof of what the result "ok" of `nclr run` and `nclr resume` asserts   *)
(* of the medium, over any number of faults, crashes, signals and resumes, *)
(* and that the completed actions of both plans stay in recipe order.      *)
(*                                                                         *)
(* The argument goes from the report back to the device: a verdict "ok"    *)
(* needs evidence, evidence needs completed records, and a completed       *)
(* record was written for something that happened to the medium, which no  *)
(* later step of the workflow undoes.                                      *)
(***************************************************************************)

\* The power control of the workflow is the same in every process: --power-
\* cycle is given again to a resume, or never.
SameCycle == ~CycleCmdVaries
CanCycle == cfg.method = "sim" \/ run.cmd

\* A process whose evidence may still become a verdict.
Live == run.pc \in Active \/ (run.pc = "report" /\ run.status = "ok")

D1 == journal.done["C1"]
D2 == journal.done["C2"]
R1 == Recipe("C1", cfg.aggressive)
\* No process has left the C2 plan of the workflow.
OnC2 == ~journal.fb /\ cfg.level = "C2"

OkIn(s, n, id) == \E i \in 1..n : s[i].id = id /\ s[i].st = "ok"
ErrIn(s, n) == \E i \in 1..n : s[i].err

-----------------------------------------------------------------------------
(* The inductive invariant, in parts. *)

\* What the switch to the embedded plan finds: the C2 plan just before its
\* second action and no record of the C1 plan.
SwitchOK ==
    /\ run.pc = "switch" => run.plan = "C2" /\ run.idx = 2
    /\ run.plan = "C2" /\ run.pc \in Active => run.skipTo <= Len(D2)
    /\ OnC2 => Len(D1) = 0
    /\ Live /\ run.plan = "C1" => ~OnC2
    /\ Live /\ run.plan = "C2" => OnC2

\* The records of the C1 plan are a stretch of its recipe from k + 1 on, and
\* the process stands behind the last of them.
C1From(k) ==
    /\ cfg.level = "C1" => k = 0
    /\ k + Len(D1) <= Len(R1)
    /\ \A i \in 1..Len(D1) : D1[i].id = R1[k + i]
    /\ run.plan = "C1" /\ Live =>
          IF run.pc = "replay" THEN k = 0 /\ run.idx <= Len(D1) + 1
                               ELSE run.idx = k + Len(D1) + 1
OrderOK ==
    /\ ExactPrefix(D2, C2Recipe)
    /\ \E k \in 0..1 : C1From(k)

\* After a power cut that no write followed the medium is what it was before,
\* and no card erases any more.  "Zeros were read after a cut" says so of the
\* medium as it is, but for an erase that was fallen back from without a
\* verdict: only the simulated device answers reads while it erases.
ZeroOK ==
    /\ dev.view = dev.stable /\ dev.view \in {"zero", "blank"} /\ ~OnC2
    /\ dev.view = "blank" => hist.blind
    /\ dev.erase = "running" => cfg.backend = "sim"
MediumOK ==
    /\ hist.cut => dev.view = dev.stable
    /\ hist.cut => ~(cfg.backend = "sd" /\ dev.erase = "running")
    /\ hist.zero => ZeroOK
    /\ dev.erase = "completed" /\ OnC2 =>
          dev.view = "blank" /\ dev.stable = "blank"

\* A record, an outcome or evidence of a completed erase: the device is still
\* the one that completed it.
ErasedRecord == Len(D2) >= 2 /\ D2[2].st = "ok"
EraseOK ==
    /\ ErasedRecord => dev.erase = "completed" /\ OnC2
    /\ run.pc = "settle" /\ run.plan = "C2" /\ run.idx = 2
          /\ run.out.st = "ok" => dev.erase = "completed"
    /\ run.plan = "C2" /\ Live /\ run.ev.erased => ErasedRecord

\* A record or an outcome of the C1 plan without an error happened.
Happened(h, id, st) ==
    /\ id = "power-cycle" => h.cut
    /\ id = "lba-prbs-verify" /\ st = "ok" => h.prbs
    /\ id = "lba-zero-verify" /\ st = "ok" => h.zero
RecordOK ==
    \/ ErrIn(D1, Len(D1))
    \/ /\ Len(D1) > 0 /\ D1[Len(D1)].id = "power-cycle" => hist.cut
       /\ OkIn(D1, Len(D1), "lba-prbs-verify") => hist.prbs
       /\ OkIn(D1, Len(D1), "lba-zero-verify") => hist.zero
OutcomeOK ==
    run.pc = "settle" /\ run.plan = "C1" /\ ~run.out.err =>
        ErrIn(D1, Len(D1)) \/ Happened(hist, CurrentId, run.out.st)

\* The evidence of a process on the C1 plan comes from the records it has
\* replayed or written.
Counted == IF run.pc = "replay" THEN run.idx - 1 ELSE Len(D1)
SourceOK ==
    run.plan = "C1" /\ Live =>
        /\ ErrIn(D1, Counted) => run.ev.ioErr
        /\ run.ev.prbs => OkIn(D1, Counted, "lba-prbs-verify")
        /\ run.ev.zero => OkIn(D1, Counted, "lba-zero-verify")

\* Without power control nothing counts as a power cycle.
NoCycle ==
    /\ ~run.cycled /\ ~run.ev.cycled
    /\ run.pc = "settle" /\ CurrentId = "power-cycle" => run.out.st # "ok"
    /\ \A l \in Levels : \A i \in 1..Len(journal.done[l]) :
          journal.done[l][i].id = "power-cycle" => journal.done[l][i].st # "ok"
CycleOK == IF CanCycle THEN RecordOK /\ OutcomeOK ELSE NoCycle

\* A result "ok" stands in a process that has ended.
ReportOK ==
    report.result = "ok" =>
        /\ run.pc = "idle"
        /\ IF report.grade = "C1" THEN hist.prbs /\ hist.zero ELSE ErasedRecord

PlaceInv == SwitchOK /\ OrderOK
SanInv == MediumOK /\ EraseOK /\ SourceOK /\ CycleOK /\ ReportOK

\* Everything the steps below start from; what a process has recorded needs
\* the first part only.
Placed == BaseInv /\ PlaceInv
Sound == RunningOK /\ SanInv

-----------------------------------------------------------------------------
(* Lemmas about the recipes. *)

LEMMA C2Types == Len(C2Recipe) = 6 /\ C2Recipe[2] = Erase
  BY DEF C2Recipe

\* No action of a C2 plan writes or compares a pattern.
LEMMA C2Actions ==
    ASSUME NEW i \in Nat, i >= 1, i <= Len(C2Recipe)
    PROVE  /\ C2Recipe[i] \notin PatternWrites
           /\ C2Recipe[i] \notin PatternReads
  BY DEF C2Recipe, PatternWrites, PatternReads, PrbsWrites, PrbsReads, Erase

\* Both comparisons of a C1 plan come right after a power cycle.
LEMMA CompareAfterCycle ==
    ASSUME NEW a \in BOOLEAN, NEW i \in Nat, i >= 1,
           i <= Len(Recipe("C1", a)),
           Recipe("C1", a)[i] \in {"lba-prbs-verify", "lba-zero-verify"}
    PROVE  i >= 3 /\ Recipe("C1", a)[i - 1] = "power-cycle"
<1>1. CASE a
  BY <1>1 DEF Recipe, L1Recipe
<1>2. CASE ~a
  BY <1>2 DEF Recipe, L1Recipe
<1> QED BY <1>1, <1>2

\* No write comes right after a power cycle, or after the zero comparison.
LEMMA NoWriteAfter ==
    ASSUME NEW a \in BOOLEAN, NEW i \in Nat, NEW j \in Nat, i >= 1, i < j,
           j <= Len(Recipe("C1", a)), Recipe("C1", a)[j] \in PatternWrites
    PROVE  /\ Recipe("C1", a)[i] # "lba-zero-verify"
           /\ j = i + 1 => Recipe("C1", a)[i] # "power-cycle"
<1>1. CASE a
  BY <1>1 DEF Recipe, L1Recipe, PatternWrites, PrbsWrites
<1>2. CASE ~a
  BY <1>2 DEF Recipe, L1Recipe, PatternWrites, PrbsWrites
<1> QED BY <1>1, <1>2

-----------------------------------------------------------------------------
(* Lemmas about sequences of records. *)

LEMMA OkInAppend ==
    ASSUME NEW s \in Seq(DoneRecord), NEW rec \in DoneRecord, NEW id
    PROVE  OkIn(Append(s, rec), Len(s) + 1, id)
              <=> OkIn(s, Len(s), id) \/ (rec.id = id /\ rec.st = "ok")
<1>1. /\ Len(s) \in Nat /\ Append(s, rec)[Len(s) + 1] = rec
      /\ \A i \in 1..Len(s) : Append(s, rec)[i] = s[i]
  OBVIOUS
<1>2. 1..(Len(s) + 1) = (1..Len(s)) \cup {Len(s) + 1}
  BY <1>1
<1> QED BY <1>1, <1>2 DEF OkIn

LEMMA ErrInAppend ==
    ASSUME NEW s \in Seq(DoneRecord), NEW rec \in DoneRecord
    PROVE  ErrIn(Append(s, rec), Len(s) + 1) <=> ErrIn(s, Len(s)) \/ rec.err
<1>1. /\ Len(s) \in Nat /\ Append(s, rec)[Len(s) + 1] = rec
      /\ \A i \in 1..Len(s) : Append(s, rec)[i] = s[i]
  OBVIOUS
<1>2. 1..(Len(s) + 1) = (1..Len(s)) \cup {Len(s) + 1}
  BY <1>1
<1> QED BY <1>1, <1>2 DEF ErrIn

\* Reading one more record of a journal.
LEMMA OkInNext ==
    ASSUME NEW s, NEW n \in Nat, n >= 1, NEW id
    PROVE  OkIn(s, n, id)
              <=> OkIn(s, n - 1, id) \/ (s[n].id = id /\ s[n].st = "ok")
<1>1. 1..n = (1..(n - 1)) \cup {n}
  OBVIOUS
<1> QED BY <1>1 DEF OkIn

LEMMA ErrInNext ==
    ASSUME NEW s, NEW n \in Nat, n >= 1
    PROVE  ErrIn(s, n) <=> ErrIn(s, n - 1) \/ s[n].err
<1>1. 1..n = (1..(n - 1)) \cup {n}
  OBVIOUS
<1> QED BY <1>1 DEF ErrIn

\* Evidence comes from an outcome "ok" of its action, errors from any.
LEMMA ApplyCounts ==
    ASSUME NEW ev \in Evidence, NEW id, NEW o \in Outcomes, NEW c
    PROVE  LET e == ApplyOutcome(ev, id, o, c)
           IN  /\ e.erased => ev.erased \/ (id = Erase /\ o.st = "ok")
               /\ e.prbs => ev.prbs \/ (id = "lba-prbs-verify" /\ o.st = "ok")
               /\ e.zero => ev.zero \/ (id = "lba-zero-verify" /\ o.st = "ok")
               /\ ev.ioErr \/ o.err => e.ioErr
               /\ e.cycled = c
<1> DEFINE e == ApplyOutcome(ev, id, o, c)
<1>1. e.erased = (IF id \in {Erase} THEN o.st = "ok" /\ ~o.err ELSE ev.erased)
  BY DEF ApplyOutcome
<1>2. e.prbs = (IF id \in {"lba-prbs-verify"} THEN o.st = "ok" /\ ~o.err
                                              ELSE ev.prbs)
  BY DEF ApplyOutcome
<1>3. e.zero = (IF id \in {"lba-zero-verify"} THEN o.st = "ok" /\ ~o.err
                                              ELSE ev.zero)
  BY DEF ApplyOutcome
<1>4. e.ioErr = (ev.ioErr \/ o.err)
  BY DEF ApplyOutcome
<1>5. e.cycled = c
  BY DEF ApplyOutcome
<1> HIDE DEF e
<1>6. ev.ioErr \in BOOLEAN /\ o.err \in BOOLEAN
  BY DEF Evidence, Outcomes
<1>7. ev.ioErr \/ o.err => e.ioErr
  BY <1>4, <1>6
<1>8. e.erased => ev.erased \/ (id = Erase /\ o.st = "ok")
  BY <1>1
<1>9. e.prbs => ev.prbs \/ (id = "lba-prbs-verify" /\ o.st = "ok")
  BY <1>2
<1>10. e.zero => ev.zero \/ (id = "lba-zero-verify" /\ o.st = "ok")
  BY <1>3
<1> QED BY <1>5, <1>7, <1>8, <1>9, <1>10 DEF e

LEMMA JournalTypes ==
    ASSUME TypeOK
    PROVE  /\ D1 \in Seq(DoneRecord) /\ Len(D1) \in Nat
           /\ D2 \in Seq(DoneRecord) /\ Len(D2) \in Nat
           /\ cfg.aggressive \in BOOLEAN /\ run.idx \in Nat
           /\ run.plan \in {"C1", "C2"}
           /\ R1 = Recipe("C1", cfg.aggressive)
  BY DEF TypeOK, Journals, Levels, Config, Runs, D1, D2, R1

-----------------------------------------------------------------------------
(* Where a process stands in its recipe. *)

\* A process before or in an action of the C1 plan.
LEMMA PlaceC1 ==
    ASSUME Placed, run.plan = "C1", run.pc \in {"call", "settle"}
    PROVE  \E k \in 0..1 :
              /\ run.idx = k + Len(D1) + 1 /\ run.idx <= Len(R1)
              /\ CurrentId = R1[run.idx]
              /\ \A i \in 1..Len(D1) : D1[i].id = R1[k + i]
<1>1. CurrentId = R1[run.idx] /\ run.idx <= Len(R1)
  BY DEF Placed, BaseInv, PositionOK, CurrentId, CurrentRecipe, R1
<1>2. PICK k \in 0..1 : C1From(k)
  BY DEF Placed, PlaceInv, OrderOK
<1> QED BY <1>1, <1>2 DEF C1From, Live, Active

\* A process before or in an action of the C2 plan.
LEMMA PlaceC2 ==
    ASSUME Placed, run.plan = "C2",
           run.pc \in {"call", "settle", "switch"} \cup AtErase
    PROVE  /\ run.idx = Len(D2) + 1 /\ run.idx <= Len(C2Recipe)
           /\ CurrentId = C2Recipe[run.idx]
           /\ CurrentId \notin PatternWrites /\ CurrentId \notin PatternReads
           /\ OnC2
<1>1. CurrentId = C2Recipe[run.idx] /\ run.idx <= Len(C2Recipe)
  BY DEF Placed, BaseInv, PositionOK, CurrentId, CurrentRecipe, Recipe
<1>2. run.idx \in Nat /\ run.idx >= 1
  BY DEF Placed, BaseInv, TypeOK, Runs, PositionOK
<1>3. run.idx = Len(D2) + 1 /\ OnC2
  BY DEF Placed, BaseInv, JournalOK, Active, AtErase, D2, OnC2
<1> QED BY <1>1, <1>2, <1>3, C2Actions

LEMMA CompareEarned ==
    ASSUME Placed, run.plan = "C1", run.pc = "call",
           CurrentId \in {"lba-prbs-verify", "lba-zero-verify"}
    PROVE  Len(D1) > 0 /\ D1[Len(D1)].id = "power-cycle"
<1>1. PICK k \in 0..1 :
         /\ run.idx = k + Len(D1) + 1 /\ run.idx <= Len(R1)
         /\ CurrentId = R1[run.idx]
         /\ \A i \in 1..Len(D1) : D1[i].id = R1[k + i]
  BY PlaceC1
<1>2. /\ Len(D1) \in Nat /\ run.idx \in Nat /\ cfg.aggressive \in BOOLEAN
      /\ R1 = Recipe("C1", cfg.aggressive) /\ k \in {0, 1}
  BY JournalTypes DEF Placed, BaseInv
<1>3. run.idx >= 3 /\ R1[run.idx - 1] = "power-cycle"
  BY <1>1, <1>2, CompareAfterCycle
<1>4. Len(D1) \in 1..Len(D1) /\ k + Len(D1) = run.idx - 1
  BY <1>1, <1>2, <1>3
<1> QED BY <1>1, <1>3, <1>4

LEMMA WriteUndoesNothing ==
    ASSUME Placed, run.plan = "C1", run.pc = "call",
           CurrentId \in PatternWrites
    PROVE  /\ ~(Len(D1) > 0 /\ D1[Len(D1)].id = "power-cycle")
           /\ ~OkIn(D1, Len(D1), "lba-zero-verify")
<1>1. PICK k \in 0..1 :
         /\ run.idx = k + Len(D1) + 1 /\ run.idx <= Len(R1)
         /\ CurrentId = R1[run.idx]
         /\ \A i \in 1..Len(D1) : D1[i].id = R1[k + i]
  BY PlaceC1
<1>2. /\ Len(D1) \in Nat /\ run.idx \in Nat /\ cfg.aggressive \in BOOLEAN
      /\ R1 = Recipe("C1", cfg.aggressive) /\ k \in {0, 1}
  BY JournalTypes DEF Placed, BaseInv
<1>3. ASSUME NEW i \in 1..Len(D1)
      PROVE  /\ D1[i].id # "lba-zero-verify"
             /\ i = Len(D1) => D1[i].id # "power-cycle"
  <2>1. /\ k + i \in Nat /\ k + i >= 1 /\ k + i < run.idx
        /\ i = Len(D1) => run.idx = k + i + 1
    BY <1>1, <1>2
  <2>2. /\ R1[k + i] # "lba-zero-verify"
        /\ run.idx = k + i + 1 => R1[k + i] # "power-cycle"
    BY <1>1, <1>2, <2>1, NoWriteAfter
  <2> QED BY <1>1, <2>1, <2>2
<1> QED BY <1>2, <1>3 DEF OkIn

-----------------------------------------------------------------------------
(* A step of a process inside its place in the plan. *)

Walks ==
    /\ UNCHANGED <<cfg, journal, report>>
    /\ run.pc \in Active
    /\ run'.plan = run.plan /\ run'.idx = run.idx /\ run'.ev = run.ev
    /\ run'.skipTo = run.skipTo /\ run'.cmd = run.cmd
    /\ run'.pc = "replay" <=> run.pc = "replay"
    /\ run'.pc = "switch" => \/ run.pc = "switch"
                             \/ run.plan = "C2" /\ run.idx = 2

LEMMA WalkPlace == ASSUME Placed, Walks PROVE PlaceInv'
<1>1. D1' = D1 /\ D2' = D2 /\ R1' = R1 /\ OnC2' = OnC2 /\ Live
  BY DEF Walks, D1, D2, R1, OnC2, Live
<1>2. SwitchOK'
  BY <1>1 DEF Placed, PlaceInv, SwitchOK, Walks
<1>3. OrderOK'
  BY <1>1 DEF Placed, PlaceInv, OrderOK, C1From, Walks
<1> QED BY <1>2, <1>3 DEF PlaceInv

\* What leaves the device alone, and the workflow on its plan or off it.
LEMMA MediumKept ==
    ASSUME MediumOK, UNCHANGED <<cfg, dev, hist>>,
           OnC2' = OnC2 \/ (OnC2 /\ ~OnC2')
    PROVE  MediumOK'
<1>1. hist.zero => ~OnC2
  BY DEF MediumOK, ZeroOK
<1>2. hist'.zero => ZeroOK'
  BY <1>1 DEF MediumOK, ZeroOK
<1> QED BY <1>2 DEF MediumOK

\* A loss of power ends the erase of a card and brings the cache of the
\* others back to what they had stored.
LEMMA CutMedium ==
    ASSUME TypeOK, MediumOK, PowerCut, UNCHANGED <<cfg, journal>>
    PROVE  /\ MediumOK'
           /\ hist'.cut /\ hist'.prbs = hist.prbs /\ hist'.zero = hist.zero
           /\ dev'.erase = dev.erase \/ dev.erase = "running"
<1>0. /\ dev \in Devices /\ hist \in Histories /\ OnC2' = OnC2
  BY DEF TypeOK, OnC2
<1>1. /\ hist'.cut /\ hist'.prbs = hist.prbs /\ hist'.zero = hist.zero
      /\ hist'.blind = hist.blind
  BY <1>0 DEF PowerCut, Histories
<1>2. CASE cfg.backend = "sd" /\ dev.erase = "running"
  <2>1. ~hist.zero
    BY <1>2 DEF MediumOK, ZeroOK
  <2>2. dev'.erase = "idle" /\ dev'.view = "mixed" /\ dev'.stable = "mixed"
    BY <1>2 DEF PowerCut
  <2> QED BY <1>1, <1>2, <2>1, <2>2 DEF MediumOK
<1>3. CASE ~(cfg.backend = "sd" /\ dev.erase = "running")
  <2>1. /\ dev'.erase = dev.erase /\ dev'.stable = dev.stable
        /\ dev'.view = dev.stable
    BY <1>0, <1>3 DEF PowerCut, Devices
  <2>2. hist'.zero => ZeroOK'
    BY <1>0, <1>1, <2>1 DEF MediumOK, ZeroOK
  <2> QED BY <1>0, <1>1, <1>3, <2>1, <2>2 DEF MediumOK
<1> QED BY <1>2, <1>3

LEMMA WalkKeeps ==
    ASSUME Placed, Sound, Walks PROVE SourceOK' /\ ReportOK'
<1>1. D1' = D1 /\ Live
  BY DEF Walks, D1, Live
<1>2. Counted' = Counted
  BY <1>1 DEF Walks, Counted
<1>3. SourceOK'
  BY <1>1, <1>2 DEF Sound, SanInv, SourceOK, Walks
<1>4. ReportOK'
  BY DEF Sound, SanInv, ReportOK, Walks, Active, AtErase
<1> QED BY <1>3, <1>4

\* ... that leaves the medium alone and settles no action of the C1 plan.
LEMMA WalkCycle ==
    ASSUME Placed, Sound, Walks, run'.cycled = run.cycled,
           hist'.cut = hist.cut \/ (OnC2 /\ run.plan = "C2"),
           hist'.prbs = hist.prbs,
           hist'.zero = hist.zero,
           run'.pc = "settle" =>
              \/ run.pc = "settle" /\ run'.out = run.out
              \/ run.plan = "C2" /\ CurrentId = Erase
    PROVE  CycleOK'
<1>1. /\ D1' = D1 /\ CanCycle' = CanCycle /\ CurrentId' = CurrentId
      /\ UNCHANGED journal
  BY DEF Walks, D1, CanCycle, CurrentId, CurrentRecipe
<1>2. CASE CanCycle
  <2>1. RecordOK'
    <3>1. OnC2 => Len(D1) = 0
      BY DEF Placed, PlaceInv, SwitchOK
    <3> QED BY <1>1, <1>2, <3>1 DEF Sound, SanInv, CycleOK, RecordOK
  <2>2. OutcomeOK'
    BY <1>1, <1>2 DEF Sound, SanInv, CycleOK, OutcomeOK, Happened, Walks
  <2> QED BY <1>1, <1>2, <2>1, <2>2 DEF CycleOK
<1>3. CASE ~CanCycle
  <2>1. NoCycle
    BY <1>3 DEF Sound, SanInv, CycleOK
  <2>2. NoCycle'
    BY <1>1, <2>1 DEF NoCycle, Walks, Erase
  <2> QED BY <1>1, <1>3, <2>2 DEF CycleOK
<1> QED BY <1>2, <1>3

\* ... and leaves the erase alone.
LEMMA WalkErase ==
    ASSUME Placed, Sound, Walks,
           dev'.erase = dev.erase \/ dev.erase = "running",
           run'.pc = "settle" => \/ run.pc = "settle" /\ run'.out = run.out
                                 \/ CurrentId # Erase /\ run.pc = "call"
    PROVE  EraseOK'
<1>1. /\ D2' = D2 /\ OnC2' = OnC2 /\ Live
  BY DEF Walks, D2, OnC2, Live
<1>2. ErasedRecord' = ErasedRecord
  BY <1>1 DEF ErasedRecord
<1>3. run.pc = "call" /\ run.plan = "C2" /\ run.idx = 2 => CurrentId = Erase
  BY EraseIdx DEF Placed
<1> QED BY <1>1, <1>2, <1>3 DEF Sound, SanInv, EraseOK, Walks

-----------------------------------------------------------------------------
(* The steps of a process, one by one. *)

\* The head of the loop and a signal touch neither device nor journal.
LEMMA HeadWalks == ASSUME Placed, BeginAction \/ Signal PROVE Walks
<1>0. run \in Runs
  BY DEF Placed, BaseInv, TypeOK
<1>1. /\ run.pc \in Active /\ UNCHANGED <<cfg, journal, report>>
      /\ \/ run'.pc = run.pc
         \/ /\ run.pc = "next"
            /\ run'.pc \in {"report", "call", "query", "issue"}
  <2>1. CASE BeginAction
    BY <1>0, <2>1 DEF BeginAction, Runs, Goto, Stop, Active
  <2>2. CASE Signal
    <3>1. run.pc \in PCs /\ run.pc \notin {"idle", "report"}
      BY <1>0, <2>2 DEF Signal, Runs
    <3>2. run'.pc = run.pc /\ UNCHANGED <<cfg, journal, report>>
      BY <1>0, <2>2 DEF Signal, Runs
    <3> QED BY <3>1, <3>2 DEF PCs, Active, AtErase
  <2> QED BY <2>1, <2>2
<1>2. /\ run'.plan = run.plan /\ run'.idx = run.idx /\ run'.ev = run.ev
      /\ run'.skipTo = run.skipTo /\ run'.cmd = run.cmd
  BY <1>0 DEF BeginAction, Signal, Runs, Goto, Stop
<1> QED BY <1>1, <1>2 DEF Walks

LEMMA HeadStep ==
    ASSUME Placed, Sound, BeginAction \/ Signal PROVE SanInv'
<1>0. run \in Runs
  BY DEF Placed, BaseInv, TypeOK
<1>1. UNCHANGED <<dev, hist>> /\ run'.cycled = run.cycled
  BY <1>0 DEF BeginAction, Signal, Runs, Goto, Stop
<1>2. run'.pc = "settle" => run.pc = "settle" /\ run'.out = run.out
  BY <1>0 DEF BeginAction, Signal, Runs, Goto, Stop
<1>3. OnC2' = OnC2
  BY HeadWalks DEF Walks, OnC2
<1>4. MediumOK'
  BY <1>1, <1>3, HeadWalks, MediumKept DEF Sound, SanInv, Walks
<1>5. SourceOK' /\ ReportOK'
  BY HeadWalks, WalkKeeps
<1>6. CycleOK'
  BY <1>1, <1>2, HeadWalks, WalkCycle
<1>7. EraseOK'
  BY <1>1, <1>2, HeadWalks, WalkErase
<1> QED BY <1>4, <1>5, <1>6, <1>7 DEF SanInv

\* What an action of the plan other than the erase does to the place.
LEMMA CallWalks ==
    ASSUME Placed, PowerCycle \/ DeviceCall \/ CallFault
    PROVE  /\ Walks /\ run.pc = "call" /\ run'.pc \in {"settle", "report"}
           /\ dev'.erase = dev.erase \/ dev.erase = "running"
           /\ CurrentId # Erase
           /\ ~PowerCycle => run'.cycled = run.cycled
<1>0. run \in Runs /\ dev \in Devices /\ run.pc = "call"
  BY DEF Placed, BaseInv, TypeOK, PowerCycle, DeviceCall, CallFault
<1>1. /\ run'.plan = run.plan /\ run'.idx = run.idx /\ run'.ev = run.ev
      /\ run'.skipTo = run.skipTo /\ run'.cmd = run.cmd
      /\ run'.pc \in {"settle", "report"}
  BY <1>0, ZenonT(40) DEF Runs, PowerCycle, DeviceCall, CallFault, Cycled, SkipCycle,
     SettleWith, Stop
<1>2. ~PowerCycle => run'.cycled = run.cycled
  BY <1>0 DEF Runs, DeviceCall, CallFault, SettleWith, Stop
<1>3. dev'.erase = dev.erase \/ dev.erase = "running"
  <2>1. PowerCut => dev'.erase = dev.erase \/ dev.erase = "running"
    BY <1>0 DEF Devices, PowerCut
  <2>2. CASE PowerCycle
    BY <2>1, <2>2 DEF PowerCycle
  <2>3. CASE DeviceCall \/ CallFault
    BY <1>0, <2>3 DEF Devices, DeviceCall, CallFault, Written
  <2> QED BY <2>2, <2>3
<1>4. UNCHANGED <<cfg, journal, report>>
  BY DEF PowerCycle, DeviceCall, CallFault
<1>5. CurrentId # Erase
  BY <1>0 DEF Placed, BaseInv, PositionOK
<1> QED BY <1>0, <1>1, <1>2, <1>3, <1>4, <1>5 DEF Walks, Active

\* What it does to the medium.
LEMMA CallMedium ==
    ASSUME Placed, Sound, PowerCycle \/ DeviceCall \/ CallFault
    PROVE  MediumOK'
<1>0. /\ dev \in Devices /\ hist \in Histories /\ UNCHANGED <<cfg, journal>>
      /\ run.pc = "call" /\ OnC2' = OnC2 /\ TypeOK
  BY CallWalks DEF Placed, BaseInv, TypeOK, Walks, OnC2
<1>1. MediumOK
  BY DEF Sound, SanInv
<1>2. CurrentId \in PatternWrites \cup PatternReads => ~OnC2
  <2>1. run.plan = "C2" => CurrentId \notin PatternWrites \cup PatternReads
    BY <1>0, PlaceC2
  <2>2. run.plan = "C1" => ~OnC2
    BY <1>0 DEF Placed, PlaceInv, SwitchOK, Live, Active
  <2> QED BY <2>1, <2>2, JournalTypes DEF Placed, BaseInv
<1>3. CASE PowerCycle
  <2>1. UNCHANGED <<dev, hist>> \/ PowerCut
    BY <1>3 DEF PowerCycle
  <2> QED BY <1>0, <1>1, <2>1, MediumKept, CutMedium
<1>4. CASE CallFault
  <2>1. \/ UNCHANGED <<dev, hist>>
        \/ /\ CurrentId \in PatternWrites
           /\ hist'.cut = FALSE /\ hist'.zero = FALSE
    BY <1>0, <1>4 DEF CallFault, Histories
  <2>2. CASE UNCHANGED <<dev, hist>>
    BY <1>0, <1>1, <2>2, MediumKept
  <2>3. CASE ~UNCHANGED <<dev, hist>>
    BY <1>0, <1>2, <2>1, <2>3 DEF MediumOK
  <2> QED BY <2>2, <2>3
<1>5. CASE DeviceCall /\ CurrentId \in PatternWrites
  <2>1. hist'.cut = FALSE /\ hist'.zero = FALSE
    BY <1>0, <1>5 DEF DeviceCall, Written, Histories
  <2> QED BY <1>0, <1>2, <1>5, <2>1 DEF MediumOK
<1>6. CASE DeviceCall /\ CurrentId \notin PatternWrites
  <2>1. /\ dev'.view = dev.view /\ dev'.stable \in {dev.stable, dev.view}
        /\ dev'.erase = dev.erase
        /\ hist'.cut = hist.cut /\ hist'.blind = hist.blind
    BY <1>0, <1>6 DEF DeviceCall, Histories, Devices
  <2>2. ASSUME hist'.zero, ~hist.zero
        PROVE  dev.view = "zero" /\ hist.cut /\ CurrentId \in PatternReads
    <3>1. PICK o \in ReadOutcomes(CurrentId) :
             hist'.zero = (hist.zero \/ (CurrentId = "lba-zero-verify"
                                           /\ o.st = "ok" /\ hist.cut))
      BY <1>0, <1>6 DEF DeviceCall, Histories
    <3>2. CurrentId = "lba-zero-verify" /\ o.st = "ok" /\ hist.cut
      BY <2>2, <3>1
    <3>3. o.st \in Matches({"zero"})
      BY <3>2 DEF ReadOutcomes, ReadStatuses, PrbsReads
    <3>4. dev.view = "zero"
      BY <3>2, <3>3 DEF Matches
    <3> QED BY <3>2, <3>4 DEF PatternReads
  <2>3. hist'.zero = hist.zero \/ (hist'.zero /\ ~hist.zero)
    BY <1>0, <1>6 DEF DeviceCall, Histories
  <2>4. dev.erase = "running" => cfg.backend # "scsi"
    BY <1>6 DEF DeviceCall, Refuses
  <2>5. cfg.backend \in {"sim", "scsi", "sd"}
    BY <1>0 DEF TypeOK, Config
  <2>6. ASSUME hist'.zero PROVE ZeroOK'
    <3>1. CASE hist.zero
      BY <1>0, <1>1, <2>1, <3>1 DEF MediumOK, ZeroOK
    <3>2. CASE ~hist.zero
      <4>1. dev.view = "zero" /\ hist.cut /\ ~OnC2
        BY <1>2, <2>2, <2>6, <3>2
      <4>2. dev.stable = "zero" /\ (dev.erase = "running"
                                       => cfg.backend = "sim")
        BY <1>1, <2>4, <2>5, <4>1 DEF MediumOK
      <4> QED BY <1>0, <2>1, <4>1, <4>2 DEF ZeroOK
    <3> QED BY <3>1, <3>2
  <2> QED BY <1>0, <1>1, <2>1, <2>6 DEF MediumOK
<1> QED BY <1>3, <1>4, <1>5, <1>6

\* What it claims to have done to the medium, and what it did.
LEMMA CallCycle ==
    ASSUME Placed, Sound, PowerCycle \/ DeviceCall \/ CallFault
    PROVE  CycleOK'
<1>0. /\ dev \in Devices /\ hist \in Histories /\ run \in Runs
      /\ run.pc = "call" /\ Walks
      /\ D1' = D1 /\ CanCycle' = CanCycle /\ CurrentId' = CurrentId
      /\ UNCHANGED journal
  BY CallWalks DEF Placed, BaseInv, TypeOK, Walks, D1, CanCycle, CurrentId,
     CurrentRecipe
<1>1. CASE ~CanCycle
  <2>1. NoCycle
    BY <1>1 DEF Sound, SanInv, CycleOK
  <2>2. /\ run'.cycled = run.cycled
        /\ run'.pc = "settle" /\ CurrentId = "power-cycle"
             => run'.out.st # "ok"
    <3>1. CASE PowerCycle
      <4>1. SkipCycle \/ Stop("failed")
        BY <1>1, <3>1 DEF PowerCycle, CanCycle
      <4>2. CASE SkipCycle
        BY <1>0, <4>2 DEF Runs, SkipCycle, SettleWith
      <4>3. CASE Stop("failed")
        BY <1>0, <4>3 DEF Runs, Stop
      <4> QED BY <4>1, <4>2, <4>3
    <3>2. CASE DeviceCall \/ CallFault
      BY <3>2, CallWalks DEF DeviceCall, CallFault, PowerCycle
    <3> QED BY <3>1, <3>2
  <2>3. NoCycle'
    BY <1>0, <2>1, <2>2 DEF NoCycle, Walks
  <2> QED BY <1>0, <1>1, <2>3 DEF CycleOK
<1>2. CASE CanCycle
  <2>1. RecordOK
    BY <1>2 DEF Sound, SanInv, CycleOK
  <2>2. /\ hist.prbs => hist'.prbs
        /\ CurrentId \notin PatternWrites =>
             (hist.cut => hist'.cut) /\ (hist.zero => hist'.zero)
    BY <1>0 DEF PowerCycle, DeviceCall, CallFault, Histories, PowerCut, Written
  <2>3. CurrentId \in PatternWrites => run.plan = "C1"
    BY <1>0, PlaceC2, JournalTypes DEF Placed, BaseInv
  <2>4. RecordOK'
    BY <1>0, <2>1, <2>2, <2>3, WriteUndoesNothing DEF RecordOK
  <2>5. ASSUME run'.pc = "settle", run.plan = "C1", ~run'.out.err,
               ~ErrIn(D1, Len(D1))
        PROVE  Happened(hist', CurrentId, run'.out.st)
    <3>1. CASE PowerCycle
      <4>1. Stop("failed") \/ Stop("interrupted") => run'.pc # "settle"
        BY <1>0 DEF Runs, Stop
      <4>2. Cycled(FALSE, ErrorOutcome) => run'.out.err
        BY <1>0 DEF Runs, Cycled, ErrorOutcome
      <4>3. ~(cfg.method = "none" /\ ~run.cmd)
        BY <1>2 DEF CanCycle
      <4>4. PowerCut /\ CurrentId = "power-cycle"
        BY <2>5, <3>1, <4>1, <4>2, <4>3 DEF PowerCycle
      <4> QED BY <1>0, <4>4 DEF PowerCut, Happened, Histories
    <3>2. CASE CallFault
      <4>1. /\ Stop("failed") \/ Stop("interrupted") => run'.pc # "settle"
            /\ SettleWith(ErrorOutcome) => run'.out = ErrorOutcome
            /\ SettleWith([st |-> "partial", err |-> TRUE])
                 => run'.out = [st |-> "partial", err |-> TRUE]
            /\ SettleWith([st |-> "fallback", err |-> TRUE])
                 => run'.out = [st |-> "fallback", err |-> TRUE]
        BY <1>0 DEF Runs, SettleWith, Stop
      <4> QED BY <2>5, <3>2, <4>1 DEF CallFault, ErrorOutcome
    <3>3. CASE DeviceCall /\ CurrentId \in PatternWrites
      BY <1>0, <3>3 DEF DeviceCall, Happened, PatternWrites, PrbsWrites
    <3>4. CASE DeviceCall /\ CurrentId \notin PatternWrites
      <4>1. PICK o \in ReadOutcomes(CurrentId) :
               /\ SettleWith(o)
               /\ hist' = [hist EXCEPT
                    !.prbs = @ \/ (CurrentId \in PrbsReads /\ o.st = "ok"
                                     /\ hist.cut),
                    !.zero = @ \/ (CurrentId = "lba-zero-verify"
                                     /\ o.st = "ok" /\ hist.cut)]
        BY <3>4 DEF DeviceCall
      <4>2. run'.out = o
        BY <1>0, <4>1 DEF SettleWith, Runs
      <4>3. CurrentId # "power-cycle"
        BY <3>4 DEF DeviceCall
      <4>4. CurrentId \in {"lba-prbs-verify", "lba-zero-verify"} => hist.cut
        BY <1>0, <2>1, <2>5, CompareEarned DEF RecordOK
      <4>5. /\ CurrentId = "lba-prbs-verify" /\ o.st = "ok" => hist'.prbs
            /\ CurrentId = "lba-zero-verify" /\ o.st = "ok" => hist'.zero
        BY <1>0, <4>1, <4>4 DEF Histories, PrbsReads
      <4> QED BY <1>0, <4>2, <4>3, <4>5 DEF Happened
    <3> QED BY <3>1, <3>2, <3>3, <3>4
  <2>6. OutcomeOK'
    BY <1>0, <2>5 DEF OutcomeOK, Walks
  <2> QED BY <1>0, <1>2, <2>4, <2>6 DEF CycleOK
<1> QED BY <1>1, <1>2

LEMMA CallStep ==
    ASSUME Placed, Sound, PowerCycle \/ DeviceCall \/ CallFault PROVE SanInv'
<1>1. SourceOK' /\ ReportOK'
  BY CallWalks, WalkKeeps
<1>2. EraseOK'
  BY CallWalks, WalkErase
<1> QED BY <1>1, <1>2, CallMedium, CallCycle DEF SanInv

\* The steps of the erase: the process is at the second action of a C2 plan.
EraseSteps == IssueErase \/ BlockingReturns \/ MonitorPoll \/ QueryErase

LEMMA EraseWalks ==
    ASSUME Placed, EraseSteps
    PROVE  /\ Walks /\ run.pc \in AtErase
           /\ CurrentId = Erase /\ run.plan = "C2" /\ run.idx = 2
           /\ run'.cycled = run.cycled
<1>0. /\ run \in Runs /\ run.pc \in AtErase /\ UNCHANGED <<cfg, journal, report>>
  BY DEF Placed, BaseInv, TypeOK, EraseSteps, IssueErase, BlockingReturns,
     MonitorPoll, QueryErase, AtErase
<1>1. CurrentId = Erase /\ run.plan = "C2" /\ run.idx = 2
  BY <1>0, EraseIdx DEF Placed, BaseInv, PositionOK
<1>2. /\ run'.plan = run.plan /\ run'.idx = run.idx /\ run'.ev = run.ev
      /\ run'.skipTo = run.skipTo /\ run'.cmd = run.cmd
      /\ run'.cycled = run.cycled /\ run'.pc # "replay"
  <2>1. CASE IssueErase \/ BlockingReturns
    BY <1>0, <2>1 DEF IssueErase, BlockingReturns, Runs, SettleWith, Stop,
       Goto, QueryError
  <2>2. CASE MonitorPoll \/ QueryErase
    BY <1>0, <2>2, MonitorPollEffect, QueryEraseEffect DEF Placed, BaseInv,
       Runs, SettleWith, Stop, Goto, QueryError, FallbackOrFatal
  <2> QED BY <2>1, <2>2 DEF EraseSteps
<1> QED BY <1>0, <1>1, <1>2 DEF Walks, Active, AtErase

LEMMA EraseStep == ASSUME Placed, Sound, EraseSteps PROVE SanInv'
<1>0. /\ dev \in Devices /\ hist \in Histories /\ run \in Runs
      /\ run.pc \in AtErase /\ UNCHANGED <<cfg, journal, report>>
      /\ TypeOK /\ run.ctx \in {"live", "resume", "error"}
  BY EraseWalks DEF Placed, BaseInv, TypeOK, Walks, Runs
<1>1. CurrentId = Erase /\ run.plan = "C2" /\ run.idx = 2
  BY EraseWalks
<1>2. OnC2 /\ Len(D2) = 1
  <2>1. run.idx = Len(D2) + 1
    BY <1>0, <1>1, PlaceC2
  <2>2. OnC2
    BY <1>0, <1>1, PlaceC2
  <2>3. Len(D2) \in Nat
    BY <1>0, JournalTypes
  <2>4. ASSUME NEW n \in Nat, NEW i \in Nat, i = n + 1, i = 2 PROVE n = 1
    BY <2>4
  <2>5. run.idx \in Nat /\ run.idx = 2
    BY <1>0, <1>1, JournalTypes
  <2>6. Len(D2) = 1
    BY <2>1, <2>3, <2>4, <2>5
  <2> QED BY <2>2, <2>6
<1>3. run'.ev = run.ev /\ run'.plan = run.plan /\ run'.cycled = run.cycled
  BY EraseWalks DEF Walks
<1>4. Walks
  BY EraseWalks
<1>5. /\ hist'.prbs = hist.prbs /\ hist'.zero = hist.zero
      /\ dev'.view = dev.view /\ dev'.stable = dev.stable
      /\ \/ dev'.erase = dev.erase /\ hist'.cut = hist.cut
         \/ dev'.erase = "running" /\ ~hist'.cut
  <2>1. CASE IssueErase \/ BlockingReturns
    <3>1. UNCHANGED <<dev, hist>> \/ Accept
      BY <2>1 DEF IssueErase, BlockingReturns
    <3> QED BY <1>0, <3>1 DEF Accept, Histories, Devices
  <2>2. CASE MonitorPoll \/ QueryErase
    <3>1. UNCHANGED dev /\ BlindOrNot
      BY <1>0, <2>2, MonitorPollEffect, QueryEraseEffect
         DEF MonitorPoll, QueryErase
    <3> QED BY <1>0, <3>1 DEF BlindOrNot, Histories
  <2> QED BY <2>1, <2>2 DEF EraseSteps
<1>6. MediumOK'
  <2>1. OnC2' /\ ~hist.zero
    BY <1>0, <1>2 DEF Sound, SanInv, MediumOK, ZeroOK, OnC2
  <2> QED BY <1>0, <1>2, <1>5, <2>1 DEF Sound, SanInv, MediumOK
<1>7. run'.pc = "settle" /\ run'.out.st = "ok" => dev'.erase = "completed"
  <2>1. CASE IssueErase
    <3>1. run' = [run EXCEPT !.pc = "monitor", !.ctx = "live"]
            => run'.pc # "settle"
      BY <1>0
    <3>2. run'.pc = "settle"
            => run'.out = [st |-> "interrupted", err |-> TRUE]
      BY <1>0, <2>1, <3>1, SettleEffect, StopEffect, GotoEffect,
         QueryErrorEffect DEF IssueErase
    <3> QED BY <3>2
  <2>2. CASE BlockingReturns
    BY <1>0, <2>2, SettleEffect, StopEffect, QueryErrorEffect
       DEF BlockingReturns
  <2>3. CASE MonitorPoll
    <3>1. MonitorErr(BlindFallback) \/ MonitorErr(Failed) => run'.pc # "settle"
      BY <1>0, MonitorErrEffect, StopEffect, QueryErrorEffect, FallbackEffect
    <3> QED BY <1>0, <2>3, <3>1, StopEffect DEF MonitorPoll
  <2>4. CASE QueryErase
    <3>1. run'.pc = "settle" => \/ run'.out = ErrorOutcome
                                \/ "completed" \in StatusAnswers
      BY <1>0, <2>4, SettleEffect, StopEffect, GotoEffect, FallbackEffect
         DEF QueryErase, BlindFallback, Failed
    <3>2. "completed" \in StatusAnswers => dev.erase = "completed"
      BY DEF StatusAnswers, Placed, BaseInv, TypeOK, Config
    <3> QED BY <2>4, <3>1, <3>2 DEF QueryErase, ErrorOutcome
  <2> QED BY <2>1, <2>2, <2>3, <2>4 DEF EraseSteps
<1>8. EraseOK'
  <2>1. ~ErasedRecord /\ ~ErasedRecord'
    BY <1>0, <1>2 DEF ErasedRecord, D2
  <2>2. ~run.ev.erased
    BY <1>0, <1>1, <2>1 DEF Sound, SanInv, EraseOK, Live, Active
  <2> QED BY <1>3, <1>7, <2>1, <2>2 DEF EraseOK
<1>9. CycleOK'
  BY <1>1, <1>2, <1>3, <1>4, <1>5, WalkCycle
<1> QED BY <1>4, <1>6, <1>8, <1>9, WalkKeeps DEF SanInv

\* The outcome of an action: the record says what happened.
LEMMA SettleAppends ==
    ASSUME Placed, Settle
    PROVE  LET rec == Completed(CurrentId, run.out)
           IN  /\ rec \in DoneRecord
               /\ \/ /\ run'.pc \in {"report", "switch"}
                     /\ UNCHANGED journal /\ run'.ev = run.ev
                     /\ run'.pc = "report" => run'.status # "ok"
                  \/ /\ run'.pc = "report" /\ run'.status # "ok"
                     /\ journal' \in {journal, AppendDone(rec)}
                  \/ /\ run'.pc = "next" /\ run'.idx = run.idx + 1
                     /\ journal' = AppendDone(rec)
                     /\ run'.ev = ApplyOutcome(run.ev, CurrentId, run.out,
                                               run.cycled)
<1>0. /\ run \in Runs /\ run.pc = "settle"
      /\ run.out \in Outcomes /\ run.plan \in Levels
  BY DEF Placed, BaseInv, TypeOK, Runs, Settle
<1>1. CurrentId \in ActionIds
  BY <1>0, RecipeType DEF Placed, BaseInv, PositionOK, TypeOK, Runs, Config,
     CurrentId, CurrentRecipe
<1> DEFINE rec == Completed(CurrentId, run.out)
           ev == ApplyOutcome(run.ev, CurrentId, run.out, run.cycled)
<1>2. rec \in DoneRecord
  BY <1>0, <1>1 DEF Completed, DoneRecord, Outcomes
<1>3. \/ UNCHANGED journal /\ Stop("interrupted")
      \/ UNCHANGED journal /\ FallbackOrFatal
      \/ /\ journal' = AppendDone(rec)
         /\ run' = [run EXCEPT !.pc = "next", !.idx = @ + 1, !.ev = ev]
      \/ /\ journal' \in {journal, AppendDone(rec)}
         /\ run' = [run EXCEPT !.pc = "report", !.ev = ev, !.status = "failed"]
  BY DEF Settle
<1> HIDE DEF rec, ev
<1>4. CASE UNCHANGED journal /\ Stop("interrupted")
  BY <1>0, <1>2, <1>4 DEF Stop, Runs, rec
<1>5. CASE UNCHANGED journal /\ FallbackOrFatal
  BY <1>0, <1>2, <1>5 DEF FallbackOrFatal, Stop, Goto, Runs, rec
<1>6. CASE /\ journal' = AppendDone(rec)
           /\ run' = [run EXCEPT !.pc = "next", !.idx = @ + 1, !.ev = ev]
  <2>1. run'.pc = "next" /\ run'.idx = run.idx + 1 /\ run'.ev = ev
    BY <1>0, <1>6 DEF Runs
  <2> QED BY <1>2, <1>6, <2>1 DEF rec, ev
<1>7. CASE /\ journal' \in {journal, AppendDone(rec)}
           /\ run' = [run EXCEPT !.pc = "report", !.ev = ev,
                                 !.status = "failed"]
  <2>1. run'.pc = "report" /\ run'.status = "failed"
    BY <1>0, <1>7 DEF Runs
  <2> QED BY <1>2, <1>7, <2>1 DEF rec, ev
<1> QED BY <1>3, <1>4, <1>5, <1>6, <1>7

\* ... and leaves everything else alone.
LEMMA SettlePlace ==
    ASSUME Placed, Settle
    PROVE  /\ UNCHANGED <<cfg, dev, hist, report>> /\ run.pc = "settle"
           /\ run'.plan = run.plan /\ run'.cmd = run.cmd
           /\ run'.skipTo = run.skipTo /\ run'.cycled = run.cycled
           /\ run'.pc \in {"report", "switch", "next"}
           /\ run'.pc = "switch" => /\ run.plan = "C2" /\ CurrentId = Erase
                                    /\ run'.idx = run.idx
<1>0. /\ run \in Runs /\ run.pc = "settle" /\ UNCHANGED <<cfg, dev, hist, report>>
      /\ run.plan \in Levels
  BY DEF Placed, BaseInv, TypeOK, Settle, Runs
<1>1. /\ run'.plan = run.plan /\ run'.cmd = run.cmd
      /\ run'.skipTo = run.skipTo /\ run'.cycled = run.cycled
      /\ run'.pc \in {"report", "switch", "next"}
  BY <1>0 DEF Settle, FallbackOrFatal, Stop, Goto, Runs
<1>2. ASSUME run'.pc = "switch"
      PROVE  run.plan = "C2" /\ CurrentId = Erase /\ run'.idx = run.idx
  <2>1. run.plan # "C1" /\ Listed /\ run'.idx = run.idx
    BY <1>0, <1>2 DEF Settle, FallbackOrFatal, Stop, Goto, Runs
  <2> QED BY <1>0, <2>1 DEF Levels, Listed, FallbackFrom
<1> QED BY <1>0, <1>1, <1>2

\* A record goes to the end of the journal of its plan.
LEMMA Appended ==
    ASSUME TypeOK, NEW rec \in DoneRecord, journal' = AppendDone(rec)
    PROVE  /\ journal'.fb = journal.fb
           /\ run.plan = "C1" => D1' = Append(D1, rec) /\ D2' = D2
           /\ run.plan = "C2" => D2' = Append(D2, rec) /\ D1' = D1
           /\ \A l \in Levels : journal'.done[l] =
                 IF l = run.plan THEN Append(journal.done[l], rec)
                                 ELSE journal.done[l]
<1>1. journal' = [journal EXCEPT !.done = [journal.done EXCEPT
                     ![run.plan] = Append(journal.done[run.plan], rec)]]
  BY DEF AppendDone, TypeOK, Journals
<1>2. journal'.fb = journal.fb
  BY <1>1 DEF TypeOK, Journals
<1>3. \A l \in Levels : journal'.done[l] =
         IF l = run.plan THEN Append(journal.done[l], rec)
                         ELSE journal.done[l]
  BY <1>1 DEF TypeOK, Journals
<1> QED BY <1>2, <1>3 DEF D1, D2, Levels

LEMMA SettleSwitch == ASSUME Placed, Settle PROVE SwitchOK' /\ OnC2' = OnC2
<1> DEFINE rec == Completed(CurrentId, run.out)
<1>0. /\ UNCHANGED <<cfg, dev, hist, report>> /\ run.pc = "settle"
      /\ run'.plan = run.plan /\ run'.skipTo = run.skipTo
      /\ run'.pc \in {"report", "switch", "next"}
      /\ run'.pc = "switch" => /\ run.plan = "C2" /\ CurrentId = Erase
                               /\ run'.idx = run.idx
      /\ run'.pc = "report" => run'.status # "ok"
  BY SettlePlace, SettleAppends
<1>1. rec \in DoneRecord /\ (UNCHANGED journal \/ journal' = AppendDone(rec))
  BY SettleAppends
<1> HIDE DEF rec
<1>2. TypeOK /\ run.plan \in {"C1", "C2"} /\ D1 \in Seq(DoneRecord)
      /\ D2 \in Seq(DoneRecord) /\ run.skipTo \in Nat
  BY JournalTypes DEF Placed, BaseInv, TypeOK, Runs
<1>3. /\ OnC2' = OnC2
      /\ Len(D2) <= Len(D2')
      /\ run.plan = "C2" => D1' = D1
  <2>1. CASE UNCHANGED journal
    BY <1>0, <1>2, <2>1 DEF OnC2, D1, D2
  <2>2. CASE journal' = AppendDone(rec)
    <3>1. /\ journal'.fb = journal.fb
          /\ run.plan = "C1" => D2' = D2
          /\ run.plan = "C2" => D2' = Append(D2, rec) /\ D1' = D1
      BY <1>1, <1>2, <2>2, Appended
    <3> QED BY <1>0, <1>1, <1>2, <3>1 DEF OnC2
  <2> QED BY <1>1, <2>1, <2>2
<1>4. SwitchOK
  BY DEF Placed, PlaceInv
<1>5. run.plan = "C1" => ~OnC2
  BY <1>0, <1>4 DEF SwitchOK, Live, Active
<1>6. run'.pc = "switch" => run'.plan = "C2" /\ run'.idx = 2
  BY <1>0, EraseIdx DEF Placed
<1>7. run.skipTo <= Len(D2') \/ run.plan # "C2"
  <2>1. run.plan = "C2" => run.skipTo <= Len(D2)
    BY <1>0, <1>4 DEF SwitchOK, Active
  <2>2. Len(D2) \in Nat /\ Len(D2') \in Nat
    BY <1>2, SettleTypeOK, JournalTypes DEF Placed, BaseInv, TypeOK, Journals,
       Levels, D2
  <2> QED BY <1>2, <1>3, <2>1, <2>2
<1>8. SwitchOK'
  BY <1>0, <1>2, <1>3, <1>4, <1>5, <1>6, <1>7 DEF SwitchOK, Live, Active
<1> QED BY <1>3, <1>8

LEMMA SettleOrder == ASSUME Placed, Settle PROVE OrderOK'
<1> DEFINE rec == Completed(CurrentId, run.out)
<1>0. /\ UNCHANGED cfg /\ run.pc = "settle" /\ run'.plan = run.plan
      /\ R1' = R1
      /\ run'.pc = "switch" => run.plan = "C2"
  BY SettlePlace DEF R1
<1>1. /\ rec \in DoneRecord
      /\ run'.pc = "report" => run'.status # "ok"
      /\ \/ run'.pc \in {"report", "switch"} /\ UNCHANGED journal
         \/ run'.pc = "report" /\ journal' = AppendDone(rec)
         \/ /\ run'.pc = "next" /\ run'.idx = run.idx + 1
            /\ journal' = AppendDone(rec)
  BY SettleAppends
<1>2. rec.id = CurrentId
  BY DEF Completed
<1> HIDE DEF rec
<1>3. TypeOK /\ run.plan \in {"C1", "C2"} /\ D1 \in Seq(DoneRecord)
      /\ D2 \in Seq(DoneRecord) /\ run.idx \in Nat
      /\ Len(D1) \in Nat /\ Len(D2) \in Nat
  BY JournalTypes DEF Placed, BaseInv
<1>4. PICK k \in 0..1 : C1From(k)
  BY DEF Placed, PlaceInv, OrderOK
<1>5. ExactPrefix(D2, C2Recipe)
  BY DEF Placed, PlaceInv, OrderOK
<1>6. CASE UNCHANGED journal /\ run'.pc \in {"report", "switch"}
  <2>1. D1' = D1 /\ D2' = D2
    BY <1>6 DEF D1, D2
  <2>2. ~(run'.plan = "C1" /\ Live')
    BY <1>0, <1>1, <1>6 DEF Live, Active, AtErase
  <2>3. C1From(k)'
    BY <1>0, <1>4, <2>1, <2>2 DEF C1From
  <2> QED BY <1>5, <2>1, <2>3 DEF OrderOK
<1>7. CASE journal' = AppendDone(rec)
  <2>1. /\ run.plan = "C1" => D1' = Append(D1, rec) /\ D2' = D2
        /\ run.plan = "C2" => D2' = Append(D2, rec) /\ D1' = D1
    BY <1>1, <1>3, <1>7, Appended
  <2>2. CASE run.plan = "C1"
    <3>1. /\ run.idx = k + Len(D1) + 1 /\ run.idx <= Len(R1)
          /\ CurrentId = R1[run.idx]
      <4>1. Live /\ run.idx = k + Len(D1) + 1
        BY <1>0, <1>4, <2>2 DEF C1From, Live, Active
      <4>2. run.idx <= Len(R1) /\ CurrentId = R1[run.idx]
        BY <1>0, <2>2 DEF Placed, BaseInv, PositionOK, CurrentId,
           CurrentRecipe, R1
      <4> QED BY <4>1, <4>2
    <3>2. /\ Len(D1') = Len(D1) + 1 /\ D1'[Len(D1) + 1] = rec
          /\ \A i \in 1..Len(D1) : D1'[i] = D1[i]
      BY <1>1, <1>3, <2>1, <2>2
    <3>3. /\ cfg.level = "C1" => k = 0
          /\ \A i \in 1..Len(D1) : D1[i].id = R1[k + i]
      BY <1>4 DEF C1From
    <3>4. k \in {0, 1}
      OBVIOUS
    <3>5. \A i \in 1..Len(D1') : D1'[i].id = R1[k + i]
      <4> SUFFICES ASSUME NEW i \in 1..Len(D1') PROVE D1'[i].id = R1[k + i]
        OBVIOUS
      <4>1. CASE i \in 1..Len(D1)
        BY <3>2, <3>3, <4>1
      <4>2. CASE i = Len(D1) + 1
        <5>1. k + i = run.idx
          BY <1>3, <3>1, <3>4, <4>2
        <5> QED BY <1>2, <3>1, <3>2, <4>2, <5>1
      <4> QED BY <1>3, <3>2, <4>1, <4>2
    <3>6. k + Len(D1') <= Len(R1)
      BY <1>3, <3>1, <3>2, <3>4
    <3>7. run'.plan = "C1" /\ Live' =>
             run'.pc # "replay" /\ run'.idx = k + Len(D1') + 1
      BY <1>0, <1>1, <1>3, <2>2, <3>1, <3>2, <3>4 DEF Live, Active, AtErase
    <3>8. C1From(k)'
      BY <1>0, <3>3, <3>5, <3>6, <3>7 DEF C1From
    <3> QED BY <1>5, <2>1, <2>2, <3>8 DEF OrderOK
  <2>3. CASE run.plan = "C2"
    <3>1. /\ run.idx = Len(D2) + 1 /\ run.idx <= Len(C2Recipe)
          /\ CurrentId = C2Recipe[run.idx]
      BY <1>0, <2>3, PlaceC2
    <3>2. /\ Len(D2') = Len(D2) + 1 /\ D2'[Len(D2) + 1] = rec
          /\ \A i \in 1..Len(D2) : D2'[i] = D2[i]
      BY <1>1, <1>3, <2>1, <2>3
    <3>3. ExactPrefix(D2', C2Recipe)
      BY <1>2, <1>3, <1>5, <3>1, <3>2 DEF ExactPrefix
    <3>4. C1From(k)'
      BY <1>0, <1>4, <2>1, <2>3 DEF C1From
    <3> QED BY <3>3, <3>4 DEF OrderOK
  <2> QED BY <1>3, <2>2, <2>3
<1> QED BY <1>1, <1>6, <1>7

\* What SettleAppends says of a settle that goes on, or does not.
LEMMA SettleCases ==
    ASSUME Placed, Settle
    PROVE  LET rec == Completed(CurrentId, run.out)
           IN  /\ rec.id = CurrentId /\ rec.st = run.out.st
               /\ rec.err = run.out.err
               /\ UNCHANGED journal \/ journal' = AppendDone(rec)
               /\ \/ ~Live'
                  \/ /\ run'.pc = "switch" /\ UNCHANGED journal
                     /\ run'.ev = run.ev
                  \/ /\ run'.pc = "next" /\ journal' = AppendDone(rec)
                     /\ run'.ev = ApplyOutcome(run.ev, CurrentId, run.out,
                                               run.cycled)
  BY SettleAppends, SettlePlace DEF Live, Active, AtErase, Completed

LEMMA SettleErase == ASSUME Placed, Sound, Settle PROVE EraseOK'
<1> DEFINE rec == Completed(CurrentId, run.out)
<1>0. /\ UNCHANGED <<cfg, dev>> /\ run.pc = "settle" /\ run'.plan = run.plan
      /\ run'.pc # "settle" /\ Live
  BY SettlePlace DEF Live, Active
<1>1. rec \in DoneRecord
  BY SettleAppends
<1>2. /\ rec.id = CurrentId /\ rec.st = run.out.st
      /\ UNCHANGED journal \/ journal' = AppendDone(rec)
      /\ \/ ~Live'
         \/ UNCHANGED journal /\ run'.ev = run.ev
         \/ /\ journal' = AppendDone(rec)
            /\ run'.ev = ApplyOutcome(run.ev, CurrentId, run.out, run.cycled)
  BY SettleCases
<1> HIDE DEF rec
<1>3. TypeOK /\ run.plan \in {"C1", "C2"} /\ D2 \in Seq(DoneRecord)
      /\ Len(D2) \in Nat
  BY JournalTypes DEF Placed, BaseInv
<1>4. EraseOK
  BY DEF Sound, SanInv
<1>5. CASE UNCHANGED journal
  <2>1. ErasedRecord' = ErasedRecord /\ OnC2' = OnC2
    BY <1>0, <1>5 DEF ErasedRecord, D2, OnC2
  <2>2. CASE run'.ev = run.ev \/ ~Live'
    BY <1>0, <1>4, <2>1, <2>2 DEF EraseOK
  <2>3. CASE journal' = AppendDone(rec)
    <3>1. run.plan = "C1"
      <4>1. run.plan = "C2" => D2 = Append(D2, rec)
        BY <1>1, <1>3, <1>5, <2>3, Appended DEF D2
      <4>2. Append(D2, rec) # D2
        BY <1>1, <1>3
      <4> QED BY <1>3, <4>1, <4>2
    <3> QED BY <1>0, <1>4, <2>1, <3>1 DEF EraseOK
  <2> QED BY <1>2, <1>5, <2>2, <2>3
<1>6. CASE journal' = AppendDone(rec)
  <2>1. /\ journal'.fb = journal.fb
        /\ run.plan = "C1" => D2' = D2
        /\ run.plan = "C2" => D2' = Append(D2, rec)
    BY <1>1, <1>3, <1>6, Appended
  <2>2. OnC2' = OnC2
    BY <1>0, <2>1 DEF OnC2
  <2>3. CASE run.plan = "C1"
    BY <1>0, <1>4, <2>1, <2>2, <2>3 DEF EraseOK, ErasedRecord
  <2>4. CASE run.plan = "C2"
    <3>1. run.idx = Len(D2) + 1 /\ OnC2
      BY <1>0, <2>4, PlaceC2
    <3>2. CurrentId = Erase <=> run.idx = 2
      BY <1>0, <2>4, EraseIdx DEF Placed
    <3>3. /\ Len(D2') = Len(D2) + 1 /\ D2'[Len(D2) + 1] = rec
          /\ \A i \in 1..Len(D2) : D2'[i] = D2[i]
      BY <1>1, <1>3, <2>1, <2>4
    <3>4. ErasedRecord => ErasedRecord'
      BY <1>3, <3>3 DEF ErasedRecord
    <3>5. ErasedRecord' => ErasedRecord \/ (CurrentId = Erase /\ rec.st = "ok")
      BY <1>3, <3>1, <3>2, <3>3 DEF ErasedRecord
    <3>6. CurrentId = Erase /\ rec.st = "ok" => ErasedRecord'
      BY <1>3, <3>1, <3>2, <3>3 DEF ErasedRecord
    <3>7. ErasedRecord' => dev'.erase = "completed" /\ OnC2'
      <4>1. CurrentId = Erase /\ rec.st = "ok" => dev.erase = "completed"
        BY <1>0, <1>2, <1>4, <2>4, <3>2 DEF EraseOK
      <4> QED BY <1>0, <1>4, <2>2, <3>1, <3>5, <4>1 DEF EraseOK
    <3>8. Live' /\ run'.ev.erased => ErasedRecord'
      <4>1. run.ev.erased => ErasedRecord
        BY <1>0, <1>4, <2>4 DEF EraseOK
      <4>2. ASSUME run'.ev = ApplyOutcome(run.ev, CurrentId, run.out,
                                          run.cycled),
                   run'.ev.erased
            PROVE  run.ev.erased \/ (CurrentId = Erase /\ rec.st = "ok")
        BY <1>2, <4>2, ApplyCounts DEF Placed, BaseInv, TypeOK, Runs
      <4> QED BY <1>2, <3>4, <3>6, <4>1, <4>2
    <3> QED BY <1>0, <3>7, <3>8 DEF EraseOK
  <2> QED BY <1>3, <2>3, <2>4
<1> QED BY <1>2, <1>5, <1>6

LEMMA SettleSource == ASSUME Placed, Sound, Settle PROVE SourceOK'
<1> DEFINE rec == Completed(CurrentId, run.out)
<1> SUFFICES ASSUME run'.plan = "C1", Live'
             PROVE  /\ ErrIn(D1', Counted') => run'.ev.ioErr
                    /\ run'.ev.prbs => OkIn(D1', Counted', "lba-prbs-verify")
                    /\ run'.ev.zero => OkIn(D1', Counted', "lba-zero-verify")
  BY DEF SourceOK
<1>0. run.plan = "C1" /\ run.pc = "settle" /\ Live
  BY SettlePlace DEF Live, Active
<1>1. /\ rec \in DoneRecord /\ rec.id = CurrentId /\ rec.st = run.out.st
      /\ rec.err = run.out.err /\ run'.pc = "next"
      /\ journal' = AppendDone(rec)
      /\ run'.ev = ApplyOutcome(run.ev, CurrentId, run.out, run.cycled)
  BY <1>0, SettleCases, SettlePlace, SettleAppends
<1> HIDE DEF rec
<1>2. TypeOK /\ D1 \in Seq(DoneRecord) /\ Len(D1) \in Nat
  BY JournalTypes DEF Placed, BaseInv
<1>3. D1' = Append(D1, rec) /\ Len(D1') = Len(D1) + 1
  BY <1>0, <1>1, <1>2, Appended
<1>4. Counted = Len(D1) /\ Counted' = Len(D1) + 1
  BY <1>0, <1>1, <1>3 DEF Counted
<1>5. /\ ErrIn(D1, Len(D1)) => run.ev.ioErr
      /\ run.ev.prbs => OkIn(D1, Len(D1), "lba-prbs-verify")
      /\ run.ev.zero => OkIn(D1, Len(D1), "lba-zero-verify")
  BY <1>0, <1>4 DEF Sound, SanInv, SourceOK
<1>10. /\ run'.ev.prbs => run.ev.prbs
                \/ (CurrentId = "lba-prbs-verify" /\ run.out.st = "ok")
       /\ run'.ev.zero => run.ev.zero
                \/ (CurrentId = "lba-zero-verify" /\ run.out.st = "ok")
       /\ run.ev.ioErr \/ run.out.err => run'.ev.ioErr
  BY <1>1, <1>2, ApplyCounts DEF TypeOK, Runs
<1>6. ErrIn(D1', Counted') => run'.ev.ioErr
  <2>1. ErrIn(D1', Counted') => ErrIn(D1, Len(D1)) \/ rec.err
    BY <1>1, <1>2, <1>3, <1>4, ErrInAppend
  <2> QED BY <1>1, <1>5, <2>1, <1>10
<1>7. ASSUME NEW id PROVE OkIn(D1', Counted', id) <=>
                 OkIn(D1, Len(D1), id) \/ (rec.id = id /\ rec.st = "ok")
  BY <1>1, <1>2, <1>3, <1>4, OkInAppend
<1>8. run'.ev.prbs => OkIn(D1', Counted', "lba-prbs-verify")
  BY <1>1, <1>5, <1>7, <1>10
<1>9. run'.ev.zero => OkIn(D1', Counted', "lba-zero-verify")
  BY <1>1, <1>5, <1>7, <1>10
<1> QED BY <1>6, <1>8, <1>9

LEMMA SettleCycle == ASSUME Placed, Sound, Settle PROVE CycleOK'
<1> DEFINE rec == Completed(CurrentId, run.out)
<1>0. /\ UNCHANGED <<cfg, hist>> /\ run.pc = "settle" /\ run'.plan = run.plan
      /\ run'.pc # "settle" /\ CanCycle' = CanCycle
      /\ run'.cycled = run.cycled
  BY SettlePlace DEF CanCycle
<1>1. /\ rec \in DoneRecord
      /\ rec.id = CurrentId /\ rec.st = run.out.st /\ rec.err = run.out.err
      /\ UNCHANGED journal \/ journal' = AppendDone(rec)
  BY SettleCases, SettleAppends
<1> HIDE DEF rec
<1>2. /\ TypeOK /\ D1 \in Seq(DoneRecord) /\ Len(D1) \in Nat
      /\ run.plan \in {"C1", "C2"}
  BY JournalTypes DEF Placed, BaseInv
<1>3. CASE CanCycle
  <2>1. RecordOK /\ OutcomeOK
    BY <1>3 DEF Sound, SanInv, CycleOK
  <2>2. CASE D1' = D1
    BY <1>0, <1>3, <2>1, <2>2 DEF CycleOK, RecordOK, OutcomeOK
  <2>3. CASE D1' = Append(D1, rec) /\ run.plan = "C1"
    <3>1. /\ Len(D1') = Len(D1) + 1 /\ D1'[Len(D1')] = rec
      BY <1>1, <1>2, <2>3
    <3>2. ErrIn(D1', Len(D1')) <=> ErrIn(D1, Len(D1)) \/ rec.err
      BY <1>1, <1>2, <2>3, <3>1, ErrInAppend
    <3>3. ASSUME NEW id PROVE OkIn(D1', Len(D1'), id) <=>
                 OkIn(D1, Len(D1), id) \/ (rec.id = id /\ rec.st = "ok")
      BY <1>1, <1>2, <2>3, <3>1, OkInAppend
    <3>4. ~rec.err /\ ~ErrIn(D1, Len(D1))
             => Happened(hist, CurrentId, run.out.st)
      BY <1>0, <1>1, <2>1, <2>3 DEF OutcomeOK
    <3>5. RecordOK'
      <4> SUFFICES ASSUME ~rec.err, ~ErrIn(D1, Len(D1))
                   PROVE  /\ rec.id = "power-cycle" => hist.cut
                          /\ OkIn(D1', Len(D1'), "lba-prbs-verify") => hist.prbs
                          /\ OkIn(D1', Len(D1'), "lba-zero-verify") => hist.zero
        BY <1>0, <3>1, <3>2 DEF RecordOK
      <4>1. /\ OkIn(D1, Len(D1), "lba-prbs-verify") => hist.prbs
            /\ OkIn(D1, Len(D1), "lba-zero-verify") => hist.zero
        BY <2>1 DEF RecordOK
      <4>2. Happened(hist, rec.id, rec.st)
        BY <1>1, <3>4
      <4> QED BY <3>3, <4>1, <4>2 DEF Happened
    <3> QED BY <1>0, <1>3, <3>5 DEF CycleOK, OutcomeOK
  <2> QED BY <1>1, <1>2, <2>2, <2>3, Appended DEF D1
<1>4. CASE ~CanCycle
  <2>1. NoCycle
    BY <1>4 DEF Sound, SanInv, CycleOK
  <2>2. ~run'.ev.cycled
    <3>1. \/ run'.ev = run.ev
          \/ run'.ev = ApplyOutcome(run.ev, CurrentId, run.out, run.cycled)
      BY DEF Placed, BaseInv, TypeOK, Runs, Settle, Stop, FallbackOrFatal, Goto
    <3> QED BY <2>1, <3>1 DEF NoCycle, ApplyOutcome
  <2>3. rec.id = "power-cycle" => rec.st # "ok"
    BY <1>0, <1>1, <2>1 DEF NoCycle
  <2>4. ASSUME NEW l \in Levels, NEW i \in 1..Len(journal'.done[l]),
               journal'.done[l][i].id = "power-cycle"
        PROVE  journal'.done[l][i].st # "ok"
    <3>1. journal.done[l] \in Seq(DoneRecord)
      BY <1>2 DEF TypeOK, Journals
    <3>2. CASE journal'.done[l] = journal.done[l]
      BY <2>1, <2>4, <3>2 DEF NoCycle
    <3>3. CASE journal'.done[l] = Append(journal.done[l], rec)
      <4>1. \/ i \in 1..Len(journal.done[l])
                  /\ journal'.done[l][i] = journal.done[l][i]
            \/ journal'.done[l][i] = rec
        BY <1>1, <3>1, <3>3
      <4> QED BY <2>1, <2>3, <2>4, <4>1 DEF NoCycle
    <3> QED BY <1>1, <1>2, <3>2, <3>3, Appended
  <2>5. NoCycle'
    BY <1>0, <2>1, <2>2, <2>4 DEF NoCycle
  <2> QED BY <1>0, <1>4, <2>5 DEF CycleOK
<1> QED BY <1>3, <1>4

LEMMA SettleStep == ASSUME Placed, Sound, Settle PROVE SanInv'
<1>1. /\ UNCHANGED <<cfg, dev, hist, report>> /\ OnC2' = OnC2
      /\ run.pc = "settle"
  BY SettlePlace, SettleSwitch DEF Settle
<1>2. MediumOK'
  BY <1>1, MediumKept DEF Sound, SanInv
<1>3. ReportOK'
  BY <1>1 DEF Sound, SanInv, ReportOK
<1> QED BY <1>2, <1>3, SettleErase, SettleSource, SettleCycle DEF SanInv

\* A process that ends without a verdict still to come leaves its place.
LEMMA LeavePlace ==
    ASSUME Placed, ~Live', UNCHANGED cfg, run'.pc # "switch",
           journal'.done = journal.done, journal.fb => journal'.fb
    PROVE  PlaceInv'
<1>1. D1' = D1 /\ D2' = D2 /\ R1' = R1 /\ (OnC2' => OnC2)
  BY DEF D1, D2, R1, OnC2
<1>2. run'.pc \notin Active
  BY DEF Live
<1>3. SwitchOK'
  BY <1>1, <1>2 DEF Placed, PlaceInv, SwitchOK
<1>4. OrderOK'
  BY <1>1 DEF Placed, PlaceInv, OrderOK, C1From
<1> QED BY <1>3, <1>4 DEF PlaceInv

LEMMA LeaveKeeps ==
    ASSUME Sound, ~Live', UNCHANGED report, run.pc # "idle"
    PROVE  SourceOK' /\ ReportOK'
  BY DEF Sound, SanInv, SourceOK, ReportOK

LEMMA CrashPlace == ASSUME Placed, Crash PROVE PlaceInv'
<1>1. /\ UNCHANGED <<cfg, journal>> /\ run'.pc = "idle"
  BY DEF Placed, BaseInv, TypeOK, Crash, Goto, Runs
<1>2. ~Live' /\ run'.pc # "switch"
  BY <1>1 DEF Live, Active, AtErase
<1> QED BY <1>1, <1>2, LeavePlace

\* The death of a process, with or without the power of the host.
LEMMA CrashStep == ASSUME Placed, Sound, Crash PROVE SanInv'
<1>0. /\ run \in Runs /\ dev \in Devices /\ hist \in Histories
      /\ UNCHANGED <<cfg, journal, report>> /\ run.pc # "idle"
      /\ run'.pc = "idle" /\ run'.cycled = run.cycled /\ run'.ev = run.ev
      /\ run'.cmd = run.cmd
  BY DEF Placed, BaseInv, TypeOK, Crash, Goto, Runs
<1>1. /\ ~Live' /\ D1' = D1 /\ D2' = D2 /\ OnC2' = OnC2
      /\ CanCycle' = CanCycle /\ ErasedRecord' = ErasedRecord
  BY <1>0 DEF Live, Active, AtErase, D1, D2, OnC2, CanCycle, ErasedRecord
<1>4. UNCHANGED <<dev, hist>> \/ PowerCut
  BY DEF Crash
<1>5. /\ hist'.prbs = hist.prbs /\ hist'.zero = hist.zero
      /\ hist.cut => hist'.cut
      /\ dev'.erase = dev.erase \/ dev.erase = "running"
      /\ MediumOK'
  BY <1>0, <1>1, <1>4, CutMedium, MediumKept
     DEF Sound, SanInv, Placed, BaseInv
<1>7. EraseOK'
  BY <1>0, <1>1, <1>5 DEF Sound, SanInv, EraseOK
<1>8. CycleOK'
  BY <1>0, <1>1, <1>5
     DEF Sound, SanInv, CycleOK, RecordOK, OutcomeOK, NoCycle
<1>9. SourceOK' /\ ReportOK'
  BY <1>0, <1>1, LeaveKeeps
<1> QED BY <1>5, <1>7, <1>8, <1>9 DEF SanInv

\* The verdict: evidence of a live process has its records, and they happened.
LEMMA VerdictEarned ==
    ASSUME Placed, Sound, run.pc = "report", run.status = "ok",
           Compute(run.plan, run.ev).qualified,
           HealthyH2(run.plan, run.ev)
    PROVE  IF Compute(run.plan, run.ev).grade = "C1"
           THEN hist.prbs /\ hist.zero ELSE ErasedRecord
<1>0. Live /\ run.plan \in {"C1", "C2"} /\ TypeOK
  BY JournalTypes DEF Live, Placed, BaseInv
<1>1. CASE run.plan = "C2"
  <2>1. run.ev.erased /\ Compute(run.plan, run.ev).grade = "C2"
    BY <1>1 DEF Compute, DeviceC2, Verdict
  <2>2. ErasedRecord
    BY <1>0, <1>1, <2>1 DEF Sound, SanInv, EraseOK
  <2> QED BY <2>1, <2>2
<1>2. CASE run.plan = "C1"
  <2>1. /\ run.ev.prbs /\ run.ev.zero /\ run.ev.cycled /\ ~run.ev.ioErr
        /\ Compute(run.plan, run.ev).grade = "C1"
    BY <1>2 DEF Compute, LbaC1, Verdict, HealthyH2
  <2>2. CanCycle
    BY <2>1 DEF Sound, SanInv, CycleOK, NoCycle
  <2>3. RecordOK
    BY <2>2 DEF Sound, SanInv, CycleOK
  <2>4. /\ ErrIn(D1, Len(D1)) => run.ev.ioErr
        /\ run.ev.prbs => OkIn(D1, Len(D1), "lba-prbs-verify")
        /\ run.ev.zero => OkIn(D1, Len(D1), "lba-zero-verify")
    BY <1>0, <1>2 DEF Sound, SanInv, SourceOK, Counted
  <2>5. hist.prbs /\ hist.zero
    BY <2>1, <2>3, <2>4 DEF RecordOK
  <2> QED BY <2>1, <2>5
<1> QED BY <1>0, <1>1, <1>2

LEMMA ReportPlace == ASSUME Placed, Report PROVE PlaceInv'
<1>1. UNCHANGED <<cfg, journal>> /\ run'.pc = "idle"
  BY DEF Placed, BaseInv, TypeOK, Report, Goto, Runs
<1>2. ~Live' /\ run'.pc # "switch"
  BY <1>1 DEF Live, Active, AtErase
<1> QED BY <1>1, <1>2, LeavePlace

LEMMA ReportStep == ASSUME Placed, Sound, Report PROVE SanInv'
<1>0. /\ run \in Runs /\ UNCHANGED <<cfg, journal, dev, hist>>
      /\ run.pc = "report"
      /\ run'.pc = "idle" /\ run'.cycled = run.cycled /\ run'.ev = run.ev
      /\ run'.cmd = run.cmd /\ run'.plan = run.plan
  BY DEF Placed, BaseInv, TypeOK, Report, Goto, Runs
<1>1. /\ ~Live' /\ D1' = D1 /\ OnC2' = OnC2
      /\ CanCycle' = CanCycle /\ ErasedRecord' = ErasedRecord
  BY <1>0 DEF Live, Active, AtErase, D1, D2, OnC2, CanCycle, ErasedRecord
<1>2. MediumOK' /\ EraseOK' /\ SourceOK'
  BY <1>0, <1>1, MediumKept DEF Sound, SanInv, EraseOK, SourceOK
<1>4. CycleOK'
  BY <1>0, <1>1 DEF Sound, SanInv, CycleOK, RecordOK, OutcomeOK, NoCycle
<1>5. ReportOK'
  <2> SUFFICES ASSUME report'.result = "ok"
               PROVE  IF report'.grade = "C1" THEN hist.prbs /\ hist.zero
                                              ELSE ErasedRecord
    BY <1>0, <1>1 DEF ReportOK
  <2>1. /\ run.status = "ok" /\ Compute(run.plan, run.ev).qualified
        /\ HealthyH2(run.plan, run.ev)
        /\ report'.grade = Compute(run.plan, run.ev).grade
    BY <1>0 DEF Report, Runs
  <2> QED BY <1>0, <2>1, VerdictEarned
<1> QED BY <1>2, <1>4, <1>5 DEF SanInv

LEMMA DevicePlace ==
    ASSUME Placed, UNCHANGED <<cfg, journal, run>> PROVE PlaceInv'
<1>1. Live' = Live /\ D1' = D1 /\ D2' = D2 /\ OnC2' = OnC2 /\ R1' = R1
  BY DEF Live, D1, D2, R1, OnC2
<1>2. SwitchOK'
  BY <1>1 DEF Placed, PlaceInv, SwitchOK
<1>3. OrderOK'
  BY <1>1 DEF Placed, PlaceInv, OrderOK, C1From
<1> QED BY <1>2, <1>3 DEF PlaceInv

LEMMA DeviceStep == ASSUME Placed, Sound, EraseProgress \/ Drain PROVE SanInv'
<1>0. /\ dev \in Devices /\ hist \in Histories
      /\ UNCHANGED <<cfg, journal, run, report>>
      /\ hist'.cut = hist.cut /\ hist'.prbs = hist.prbs
      /\ hist'.zero = hist.zero
  BY DEF Placed, BaseInv, TypeOK, EraseProgress, Drain, Histories
<1>1. /\ Live' = Live /\ D1' = D1 /\ D2' = D2 /\ OnC2' = OnC2 /\ R1' = R1
      /\ CanCycle' = CanCycle /\ ErasedRecord' = ErasedRecord
      /\ CurrentId' = CurrentId /\ Counted' = Counted
  BY <1>0 DEF Live, D1, D2, R1, OnC2, CanCycle, ErasedRecord, CurrentId,
     CurrentRecipe, Counted
<1>2. SourceOK' /\ ReportOK'
  BY <1>0, <1>1 DEF Sound, SanInv, SourceOK, ReportOK
<1>4. CycleOK'
  BY <1>0, <1>1
     DEF Sound, SanInv, CycleOK, RecordOK, OutcomeOK, Happened, NoCycle
<1>5. CASE EraseProgress
  <2>1. dev.erase = "running" /\ dev'.erase \in {"completed", "failed"}
    BY <1>0, <1>5 DEF EraseProgress, Devices
  <2>2. hist.zero => cfg.backend = "sim" /\ hist.blind
    <3>1. hist.zero => ~OnC2 /\ cfg.backend = "sim"
      BY <2>1 DEF Sound, SanInv, MediumOK, ZeroOK
    <3>2. ~hist.blind => OnC2
      BY <2>1 DEF Sound, RunningOK, OnC2
    <3> QED BY <3>1, <3>2
  <2>3. hist'.blind = hist.blind
    BY <1>0, <1>5 DEF EraseProgress, Histories
  <2>4. \/ dev'.view = "blank" /\ dev'.stable = "blank"
        \/ /\ dev'.view = dev'.stable /\ cfg.backend # "sim"
           /\ dev'.erase = "failed"
        \/ /\ dev'.view = dev.view /\ dev'.stable = dev.stable
           /\ dev'.erase = "failed"
    BY <1>0, <1>5 DEF EraseProgress, Devices
  <2>5. MediumOK
    BY DEF Sound, SanInv
  <2>6. hist'.zero => ZeroOK'
    BY <1>0, <1>1, <2>1, <2>2, <2>3, <2>4, <2>5 DEF MediumOK, ZeroOK
  <2>7. MediumOK'
    BY <1>0, <1>1, <2>1, <2>4, <2>5, <2>6 DEF MediumOK
  <2>8. EraseOK'
    BY <1>0, <1>1, <2>1 DEF Sound, SanInv, EraseOK
  <2> QED BY <1>2, <1>4, <2>7, <2>8 DEF SanInv
<1>6. CASE Drain
  <2>1. /\ dev'.view = dev.view /\ dev'.stable = dev.view
        /\ dev'.erase = dev.erase /\ UNCHANGED hist
        /\ dev.stable # dev.view
    BY <1>0, <1>6 DEF Drain, Devices
  <2>2. ~hist.zero
    BY <2>1 DEF Sound, SanInv, MediumOK, ZeroOK
  <2>3. MediumOK' /\ EraseOK'
    BY <1>0, <1>1, <2>1, <2>2 DEF Sound, SanInv, MediumOK, EraseOK
  <2> QED BY <1>2, <1>4, <2>3 DEF SanInv
<1> QED BY <1>5, <1>6

\* The embedded plan takes over only where the erase has left no record.
LEMMA SwitchFinds ==
    ASSUME Placed, SwitchPlan
    PROVE  /\ run \in Runs /\ TypeOK /\ UNCHANGED <<cfg, dev, hist, report>>
           /\ OnC2 /\ Len(D1) = 0 /\ Len(D2) = 1 /\ run.skipTo \in 0..1
           /\ journal'.done = journal.done /\ (journal.fb => journal'.fb)
           /\ run'.cycled = run.cycled /\ run'.cmd = run.cmd
           /\ \/ run'.pc = "report" /\ run'.ev = run.ev /\ run'.status # "ok"
              \/ /\ run'.pc = "next" /\ run'.plan = "C1" /\ journal'.fb
                 /\ run'.idx = run.skipTo + 1 /\ run'.ev = FreshEvidence
<1>0. /\ run \in Runs /\ TypeOK /\ UNCHANGED <<cfg, dev, hist, report>>
      /\ run.pc = "switch" /\ run.idx \in Nat /\ run.skipTo \in Nat
      /\ Len(D2) \in Nat
  BY JournalTypes DEF Placed, BaseInv, TypeOK, SwitchPlan, Runs
<1>1. run.plan = "C2" /\ run.idx = 2 /\ run.skipTo <= Len(D2)
  BY <1>0 DEF Placed, PlaceInv, SwitchOK, Active
<1>2. run.idx = Len(D2) + 1 /\ OnC2
  BY <1>0, <1>1, PlaceC2
<1>3. Len(D2) = 1 /\ run.skipTo \in 0..1
  <2> DEFINE n == Len(D2)
             i == run.idx
             k == run.skipTo
  <2>1. i = n + 1 /\ i = 2 /\ i \in Nat /\ k \in Nat /\ k <= n /\ n \in Nat
    BY <1>0, <1>1, <1>2
  <2> HIDE DEF n, i, k
  <2>2. n = 1 /\ k \in 0..1
    BY <2>1
  <2> QED BY <2>2 DEF n, k
<1>4. Len(D1) = 0
  BY <1>2 DEF Placed, PlaceInv, SwitchOK
<1>5. /\ journal'.done = journal.done /\ (journal.fb => journal'.fb)
      /\ run'.cycled = run.cycled /\ run'.cmd = run.cmd
  BY <1>0, <1>2 DEF SwitchPlan, Stop, Runs, OnC2, TypeOK, Journals
<1>6. \/ run'.pc = "report" /\ run'.ev = run.ev /\ run'.status # "ok"
      \/ /\ run'.pc = "next" /\ run'.plan = "C1" /\ journal'.fb
         /\ run'.idx = run.skipTo + 1 /\ run'.ev = FreshEvidence
  BY <1>0 DEF SwitchPlan, Stop, Runs, TypeOK, Journals
<1> QED BY <1>0, <1>2, <1>3, <1>4, <1>5, <1>6

LEMMA SwitchPlace == ASSUME Placed, SwitchPlan PROVE PlaceInv'
<1>0. /\ cfg' = cfg /\ journal'.done = journal.done
      /\ (journal.fb => journal'.fb) /\ OnC2
      /\ Len(D1) = 0 /\ run.skipTo \in 0..1 /\ cfg.aggressive \in BOOLEAN
  BY SwitchFinds, JournalTypes
<1>1. D1' = D1 /\ D2' = D2 /\ R1' = R1
  BY <1>0 DEF D1, D2, R1
<1>2. CASE run'.pc = "report" /\ run'.status # "ok"
  <2>1. ~Live' /\ run'.pc # "switch"
    BY <1>2 DEF Live, Active, AtErase
  <2> QED BY <1>0, <2>1, LeavePlace
<1>3. CASE /\ run'.pc = "next" /\ run'.plan = "C1" /\ journal'.fb
           /\ run'.idx = run.skipTo + 1
  <2>1. SwitchOK'
    BY <1>3 DEF SwitchOK, OnC2
  <2>2. Len(R1) \in Nat /\ 1 <= Len(R1)
    BY <1>0, RecipeType DEF R1, Recipe, L1Recipe, Levels
  <2>3. cfg.level = "C2"
    BY <1>0 DEF OnC2
  <2>3a. PICK k \in 0..1 : k = run.skipTo
    BY <1>0
  <2>4. /\ cfg'.level = "C1" => k = 0
        /\ k + Len(D1') <= Len(R1')
        /\ \A i \in 1..Len(D1') : D1'[i].id = R1'[k + i]
        /\ run'.plan = "C1" /\ Live' =>
             IF run'.pc = "replay" THEN k = 0 /\ run'.idx <= Len(D1') + 1
                                   ELSE run'.idx = k + Len(D1') + 1
    BY <1>0, <1>1, <1>3, <2>2, <2>3, <2>3a
  <2>5. C1From(k)'
    BY <2>4 DEF C1From
  <2>6. ExactPrefix(D2, C2Recipe)
    BY DEF Placed, PlaceInv, OrderOK
  <2> QED BY <1>0, <1>1, <2>1, <2>5, <2>6 DEF PlaceInv, OrderOK
<1> QED BY <1>2, <1>3, SwitchFinds

LEMMA SwitchStep == ASSUME Placed, Sound, SwitchPlan PROVE SanInv'
<1>0. /\ UNCHANGED <<cfg, dev, hist, report>> /\ OnC2
      /\ Len(D1) = 0 /\ Len(D2) = 1
      /\ journal'.done = journal.done
      /\ run'.cycled = run.cycled /\ run'.cmd = run.cmd
      /\ run'.pc \in {"report", "next"} /\ run.pc = "switch"
  BY SwitchFinds DEF SwitchPlan
<1>1. ~ErasedRecord
  BY <1>0 DEF ErasedRecord
<1>2. D1' = D1 /\ D2' = D2 /\ CanCycle' = CanCycle
      /\ ErasedRecord' = ErasedRecord
  BY <1>0 DEF D1, D2, CanCycle, ErasedRecord
<1>3. MediumOK'
  BY <1>0, MediumKept DEF Sound, SanInv
<1>4. CASE run'.pc = "report" /\ run'.ev = run.ev /\ run'.status # "ok"
  <2>1. ~Live'
    BY <1>4 DEF Live, Active, AtErase
  <2>2. SourceOK' /\ ReportOK'
    BY <1>0, <2>1, LeaveKeeps
  <2>3. EraseOK'
    BY <1>1, <1>2, <1>4, <2>1 DEF EraseOK
  <2>4. CycleOK'
    BY <1>0, <1>2, <1>4, <2>1
       DEF Sound, SanInv, CycleOK, RecordOK, OutcomeOK, NoCycle
  <2> QED BY <1>3, <2>2, <2>3, <2>4 DEF SanInv
<1>5. CASE run'.pc = "next" /\ run'.plan = "C1" /\ run'.ev = FreshEvidence
  <2>1. EraseOK'
    BY <1>1, <1>2, <1>5 DEF EraseOK
  <2>2. SourceOK'
    <3>1. Counted' = 0
      BY <1>0, <1>2, <1>5 DEF Counted
    <3>2. ~ErrIn(D1, 0)
      BY DEF ErrIn
    <3> QED BY <1>2, <1>5, <3>1, <3>2 DEF SourceOK, FreshEvidence
  <2>3. CycleOK'
    BY <1>0, <1>2, <1>5
       DEF Sound, SanInv, CycleOK, RecordOK, OutcomeOK, NoCycle, FreshEvidence
  <2>4. ReportOK'
    BY <1>0 DEF Sound, SanInv, ReportOK
  <2> QED BY <1>3, <2>1, <2>2, <2>3, <2>4 DEF SanInv
<1> QED BY <1>4, <1>5, SwitchFinds

\* A resume starts from nothing but the journal and the power control.
LEMMA ResumeFresh ==
    ASSUME Placed, Resume
    PROVE  /\ TypeOK /\ UNCHANGED <<cfg, journal, dev, hist>>
           /\ run'.pc = "replay" /\ run'.plan = ResumePlan /\ run'.idx = 1
           /\ run'.ev = FreshEvidence /\ ~run'.cycled /\ run'.skipTo = 0
           /\ SameCycle => run'.cmd = run.cmd
           /\ report' = NoReport
  BY FlagAssumption DEF Placed, BaseInv, Resume, SameCycle

LEMMA ResumePlace == ASSUME Placed, Resume PROVE PlaceInv'
<1>0. /\ TypeOK /\ UNCHANGED <<cfg, journal>> /\ run'.pc = "replay"
      /\ run'.plan = ResumePlan /\ run'.idx = 1 /\ run'.skipTo = 0
  BY ResumeFresh
<1>1. /\ D1' = D1 /\ D2' = D2 /\ OnC2' = OnC2 /\ R1' = R1
      /\ Len(D1) \in Nat /\ Len(D2) \in Nat
  BY <1>0, JournalTypes DEF D1, D2, OnC2, R1
<1>2. \/ run'.plan = "C1" /\ ~OnC2
      \/ run'.plan = "C2" /\ OnC2
  BY <1>0 DEF ResumePlan, OnC2, TypeOK, Config, Levels
<1>3. SwitchOK'
  BY <1>0, <1>1, <1>2 DEF Placed, PlaceInv, SwitchOK
<1>4. OrderOK'
  <2>1. PICK k \in 0..1 : C1From(k)
    BY DEF Placed, PlaceInv, OrderOK
  <2>2. ExactPrefix(D2, C2Recipe)
    BY DEF Placed, PlaceInv, OrderOK
  <2>3. CASE run'.plan = "C2"
    <3>1. C1From(k)'
      BY <1>0, <1>1, <2>1, <2>3 DEF C1From
    <3> QED BY <1>1, <2>2, <3>1 DEF OrderOK
  <2>4. CASE run'.plan = "C1"
    <3>1. ExactPrefix(D1, R1)
      BY <1>0, <2>4 DEF Resume, D1, R1
    <3>2. C1From(0)'
      BY <1>0, <1>1, <3>1 DEF C1From, ExactPrefix
    <3> QED BY <1>1, <2>2, <3>2 DEF OrderOK
  <2> QED BY <1>2, <2>3, <2>4
<1> QED BY <1>3, <1>4 DEF PlaceInv

LEMMA ResumeStep == ASSUME Placed, Sound, Resume, SameCycle PROVE SanInv'
<1>0. /\ UNCHANGED <<cfg, journal, dev, hist>>
      /\ run'.pc = "replay" /\ run'.idx = 1 /\ run'.ev = FreshEvidence
      /\ ~run'.cycled /\ run'.cmd = run.cmd /\ report' = NoReport
  BY ResumeFresh
<1>1. /\ D1' = D1 /\ OnC2' = OnC2 /\ CanCycle' = CanCycle
      /\ ErasedRecord' = ErasedRecord
  BY <1>0 DEF D1, D2, OnC2, CanCycle, ErasedRecord
<1>2. MediumOK'
  BY <1>0, <1>1, MediumKept DEF Sound, SanInv
<1>3. EraseOK'
  BY <1>0, <1>1 DEF Sound, SanInv, EraseOK, FreshEvidence
<1>4. SourceOK'
  <2>1. Counted' = 0
    BY <1>0 DEF Counted
  <2>2. ~ErrIn(D1, 0)
    BY DEF ErrIn
  <2> QED BY <1>0, <1>1, <2>1, <2>2 DEF SourceOK, FreshEvidence
<1>5. CycleOK'
  BY <1>0, <1>1
     DEF Sound, SanInv, CycleOK, RecordOK, OutcomeOK, NoCycle, FreshEvidence
<1>6. ReportOK'
  BY <1>0 DEF ReportOK, NoReport
<1> QED BY <1>2, <1>3, <1>4, <1>5, <1>6 DEF SanInv

\* A step of the replay: one more record, or the end of them.
LEMMA ReplayCases ==
    ASSUME Placed, Replay
    PROVE  LET done == journal.done[run.plan]
               rec == done[run.idx]
           IN  /\ UNCHANGED <<cfg, journal, dev, hist, report>>
               /\ run.pc = "replay" /\ run'.plan = run.plan
               /\ run'.cmd = run.cmd
               /\ done \in Seq(DoneRecord) /\ Len(done) \in Nat
               /\ run.idx \in Nat /\ run.idx >= 1
               /\ \/ /\ run.idx <= Len(done) /\ run'.pc = "replay"
                     /\ run'.idx = run.idx + 1 /\ run'.skipTo = run.skipTo
                     /\ run'.cycled = ReplayCycled(rec)
                     /\ run'.ev = ApplyOutcome(run.ev, rec.id,
                                     [st |-> rec.st, err |-> rec.err],
                                     ReplayCycled(rec))
                     /\ rec \in DoneRecord
                  \/ /\ run.idx > Len(done) /\ run'.pc = "next"
                     /\ run'.idx = Len(done) + 1 /\ run'.skipTo = Len(done)
                     /\ run'.cycled = run.ev.cycled /\ run'.ev = run.ev
<1> DEFINE done == journal.done[run.plan]
           rec == done[run.idx]
           ev == ApplyOutcome(run.ev, rec.id,
                              [st |-> rec.st, err |-> rec.err],
                              ReplayCycled(rec))
<1>0. /\ run \in Runs /\ UNCHANGED <<cfg, journal, dev, hist, report>>
      /\ run.pc = "replay" /\ run.idx \in Nat /\ run.idx >= 1
      /\ done \in Seq(DoneRecord) /\ Len(done) \in Nat
  BY DEF Placed, BaseInv, TypeOK, PositionOK, Replay, Runs, Journals
<1>1. CASE run.idx <= Len(done)
  <2>1. run' = [run EXCEPT !.idx = run.idx + 1, !.cycled = ReplayCycled(rec),
                           !.ev = ev]
    BY <1>1 DEF Replay
  <2>2. rec \in DoneRecord
    BY <1>0, <1>1
  <2> DEFINE c == ReplayCycled(rec)
             n == run.idx + 1
  <2> HIDE DEF ev, c, n
  <2>3. run' = [run EXCEPT !.idx = n, !.cycled = c, !.ev = ev]
    BY <2>1 DEF c, n
  <2>4. /\ run'.pc = run.pc /\ run'.plan = run.plan /\ run'.cmd = run.cmd
        /\ run'.idx = n /\ run'.skipTo = run.skipTo /\ run'.cycled = c
        /\ run'.ev = ev
    BY <1>0, <2>3 DEF Runs
  <2> QED BY <1>0, <1>1, <2>2, <2>4 DEF c, n, ev
<1>2. CASE ~(run.idx <= Len(done))
  <2>1. run' = [run EXCEPT !.pc = "next", !.idx = Len(done) + 1,
                           !.skipTo = Len(done), !.cycled = run.ev.cycled]
    BY <1>2 DEF Replay, FirstAfter, ResumeSkip
  <2> DEFINE n == Len(done)
             m == n + 1
  <2> HIDE DEF done, n, m
  <2>2. run' = [run EXCEPT !.pc = "next", !.idx = m, !.skipTo = n,
                           !.cycled = run.ev.cycled]
    BY <2>1 DEF n, m
  <2>3. /\ run'.pc = "next" /\ run'.plan = run.plan /\ run'.cmd = run.cmd
        /\ run'.idx = m /\ run'.skipTo = n /\ run'.cycled = run.ev.cycled
        /\ run'.ev = run.ev
    BY <1>0, <2>2 DEF Runs
  <2>4. run.idx > n
    BY <1>0, <1>2 DEF n
  <2> QED BY <1>0, <2>3, <2>4 DEF done, n, m
<1> QED BY <1>1, <1>2

LEMMA ReplayPlace == ASSUME Placed, Replay PROVE PlaceInv'
<1>0. /\ UNCHANGED <<cfg, journal>> /\ run.pc = "replay"
      /\ run'.plan = run.plan /\ run.idx \in Nat /\ run'.pc \in {"replay", "next"}
      /\ TypeOK /\ Live
  BY ReplayCases DEF Placed, BaseInv, Live, Active
<1>1. /\ D1' = D1 /\ D2' = D2 /\ OnC2' = OnC2 /\ R1' = R1
      /\ Len(D1) \in Nat /\ Len(D2) \in Nat
  BY <1>0, JournalTypes DEF D1, D2, OnC2, R1
<1>2. run.plan = "C2" => run'.skipTo <= Len(D2)
  <2>1. CASE run.plan = "C2" /\ run'.skipTo = run.skipTo
    BY <1>0, <2>1 DEF Placed, PlaceInv, SwitchOK, Active
  <2>2. CASE run.plan = "C2" /\ run'.skipTo = Len(D2)
    BY <1>1, <2>2
  <2> QED BY ReplayCases, <2>1, <2>2 DEF D2
<1>3. SwitchOK'
  BY <1>0, <1>1, <1>2 DEF Placed, PlaceInv, SwitchOK, Live, Active
<1>4. PICK k \in 0..1 : C1From(k)
  BY DEF Placed, PlaceInv, OrderOK
<1>5. run.plan = "C1" => k = 0 /\ run.idx <= Len(D1) + 1
  BY <1>0, <1>4 DEF C1From
<1>6. run.plan = "C1" => IF run'.pc = "replay" THEN run'.idx <= Len(D1) + 1
                                              ELSE run'.idx = Len(D1) + 1
  BY <1>0, <1>1, ReplayCases DEF D1
<1>7. C1From(k)'
  <2>1. k \in {0, 1}
    OBVIOUS
  <2> QED BY <1>0, <1>1, <1>4, <1>5, <1>6, <2>1 DEF C1From
<1>8. ExactPrefix(D2, C2Recipe)
  BY DEF Placed, PlaceInv, OrderOK
<1> QED BY <1>1, <1>3, <1>7, <1>8 DEF PlaceInv, OrderOK

LEMMA ReplayErase == ASSUME Placed, Sound, Replay PROVE EraseOK'
<1>0. /\ UNCHANGED <<cfg, journal, dev>> /\ run.pc = "replay" /\ Live
      /\ run'.plan = run.plan /\ run'.pc # "settle" /\ TypeOK
  BY ReplayCases DEF Placed, BaseInv, Live, Active
<1>1. OnC2' = OnC2 /\ ErasedRecord' = ErasedRecord
  BY <1>0 DEF OnC2, ErasedRecord, D2
<1>2. EraseOK
  BY DEF Sound, SanInv
<1>3. ASSUME run.plan = "C2", run'.ev.erased PROVE ErasedRecord
  <2> DEFINE rec == D2[run.idx]
             o == [st |-> rec.st, err |-> rec.err]
  <2>1. CASE run'.ev = run.ev
    BY <1>0, <1>2, <1>3, <2>1 DEF EraseOK
  <2>2. CASE /\ run.idx <= Len(D2) /\ rec \in DoneRecord
             /\ run'.ev = ApplyOutcome(run.ev, rec.id, o, ReplayCycled(rec))
    <3>1. o \in Outcomes /\ o.st = rec.st
      BY <2>2 DEF DoneRecord, Outcomes
    <3>2. run.ev \in Evidence
      BY <1>0 DEF TypeOK, Runs
    <3>3. run.ev.erased \/ (rec.id = Erase /\ rec.st = "ok")
      BY <1>3, <2>2, <3>1, <3>2, ApplyCounts
    <3>4. ASSUME rec.id = Erase, rec.st = "ok" PROVE ErasedRecord
      <4>1. run.idx \in Nat /\ run.idx >= 1 /\ Len(D2) \in Nat
        BY ReplayCases, <1>3 DEF D2
      <4>2. ExactPrefix(D2, C2Recipe)
        BY DEF Placed, PlaceInv, OrderOK
      <4>3. run.idx <= Len(C2Recipe) /\ C2Recipe[run.idx] = Erase
        BY <2>2, <3>4, <4>1, <4>2, C2Types DEF ExactPrefix
      <4>4. run.idx = 2
        BY <4>1, <4>3 DEF C2Recipe, Erase
      <4> QED BY <2>2, <3>4, <4>1, <4>4 DEF ErasedRecord
    <3> QED BY <1>0, <1>2, <1>3, <3>3, <3>4 DEF EraseOK
  <2> QED BY <1>3, <2>1, <2>2, ReplayCases DEF D2
<1> QED BY <1>0, <1>1, <1>2, <1>3 DEF EraseOK

LEMMA ReplaySource == ASSUME Placed, Sound, Replay PROVE SourceOK'
<1> SUFFICES ASSUME run'.plan = "C1", Live'
             PROVE  /\ ErrIn(D1', Counted') => run'.ev.ioErr
                    /\ run'.ev.prbs => OkIn(D1', Counted', "lba-prbs-verify")
                    /\ run'.ev.zero => OkIn(D1', Counted', "lba-zero-verify")
  BY DEF SourceOK
<1> DEFINE rec == D1[run.idx]
           o == [st |-> rec.st, err |-> rec.err]
<1>0. /\ UNCHANGED journal /\ run.pc = "replay" /\ Live /\ TypeOK
      /\ run.plan = "C1" /\ run.idx \in Nat /\ run.idx >= 1
      /\ Len(D1) \in Nat
  BY ReplayCases, JournalTypes DEF Placed, BaseInv, Live, Active
<1>1. D1' = D1
  BY <1>0 DEF D1
<1>2. /\ ErrIn(D1, run.idx - 1) => run.ev.ioErr
      /\ run.ev.prbs => OkIn(D1, run.idx - 1, "lba-prbs-verify")
      /\ run.ev.zero => OkIn(D1, run.idx - 1, "lba-zero-verify")
  BY <1>0 DEF Sound, SanInv, SourceOK, Counted
<1>3. CASE /\ run'.pc = "replay" /\ run'.idx = run.idx + 1
           /\ rec \in DoneRecord
           /\ run'.ev = ApplyOutcome(run.ev, rec.id, o, ReplayCycled(rec))
  <2>1. Counted' = run.idx
    BY <1>0, <1>3 DEF Counted
  <2>2. o \in Outcomes /\ o.st = rec.st /\ o.err = rec.err
    BY <1>3 DEF DoneRecord, Outcomes
  <2>3. run.ev \in Evidence
    BY <1>0 DEF TypeOK, Runs
  <2>4. /\ run'.ev.prbs => run.ev.prbs
             \/ (rec.id = "lba-prbs-verify" /\ rec.st = "ok")
        /\ run'.ev.zero => run.ev.zero
             \/ (rec.id = "lba-zero-verify" /\ rec.st = "ok")
        /\ run.ev.ioErr \/ rec.err => run'.ev.ioErr
    BY <1>3, <2>2, <2>3, ApplyCounts
  <2>5. ErrIn(D1, run.idx) => ErrIn(D1, run.idx - 1) \/ rec.err
    BY <1>0, ErrInNext
  <2>6. ASSUME NEW id PROVE OkIn(D1, run.idx, id) <=>
           OkIn(D1, run.idx - 1, id) \/ (rec.id = id /\ rec.st = "ok")
    BY <1>0, OkInNext
  <2> HIDE DEF rec
  <2> QED BY <1>1, <1>2, <2>1, <2>4, <2>5, <2>6
<1>4. CASE /\ run'.pc = "next" /\ run'.ev = run.ev /\ run.idx > Len(D1)
  <2>1. PICK k \in 0..1 : C1From(k)
    BY DEF Placed, PlaceInv, OrderOK
  <2>2. run.idx <= Len(D1) + 1
    BY <1>0, <2>1 DEF C1From
  <2>3. Counted' = run.idx - 1
    BY <1>0, <1>1, <1>4, <2>2 DEF Counted
  <2> QED BY <1>1, <1>2, <1>4, <2>3
<1> QED BY <1>0, <1>3, <1>4, ReplayCases DEF D1

LEMMA ReplayCycle == ASSUME Placed, Sound, Replay PROVE CycleOK'
<1>0. /\ UNCHANGED <<cfg, journal, hist>> /\ run'.cmd = run.cmd
      /\ run'.pc # "settle" /\ run.plan \in Levels
  BY ReplayCases DEF Placed, BaseInv, TypeOK, Runs
<1>1. D1' = D1 /\ CanCycle' = CanCycle
  BY <1>0 DEF D1, CanCycle
<1>2. CASE CanCycle
  BY <1>0, <1>1, <1>2 DEF Sound, SanInv, CycleOK, RecordOK, OutcomeOK
<1>3. CASE ~CanCycle
  <2>1. NoCycle
    BY <1>3 DEF Sound, SanInv, CycleOK
  <2> DEFINE done == journal.done[run.plan]
             rec == done[run.idx]
  <2>2. CASE /\ run.idx <= Len(done) /\ run'.cycled = ReplayCycled(rec)
             /\ run'.ev = ApplyOutcome(run.ev, rec.id,
                             [st |-> rec.st, err |-> rec.err],
                             ReplayCycled(rec))
    <3>1. rec.id = "power-cycle" => rec.st # "ok"
      <4>1. run.idx \in 1..Len(done)
        BY <2>2, ReplayCases
      <4> QED BY <1>0, <2>1, <4>1 DEF NoCycle
    <3>2. ~ReplayCycled(rec)
      BY <2>1, <3>1 DEF ReplayCycled, NoCycle
    <3>3. run'.ev.cycled = ReplayCycled(rec)
      BY <2>2, SMTT(20) DEF ApplyOutcome
    <3> QED BY <1>0, <1>1, <1>3, <2>1, <2>2, <3>2, <3>3 DEF CycleOK, NoCycle
  <2>3. CASE run'.cycled = run.ev.cycled /\ run'.ev = run.ev
    BY <1>0, <1>1, <1>3, <2>1, <2>3 DEF CycleOK, NoCycle
  <2> QED BY <2>2, <2>3, ReplayCases
<1> QED BY <1>2, <1>3

LEMMA ReplayStep == ASSUME Placed, Sound, Replay PROVE SanInv'
<1>1. /\ UNCHANGED <<cfg, journal, dev, hist, report>> /\ run.pc = "replay"
  BY ReplayCases
<1>2. MediumOK'
  <2>1. OnC2' = OnC2
    BY <1>1 DEF OnC2
  <2> QED BY <1>1, <2>1, MediumKept DEF Sound, SanInv
<1>3. ReportOK'
  BY <1>1 DEF Sound, SanInv, ReportOK
<1> QED BY <1>2, <1>3, ReplayErase, ReplaySource, ReplayCycle DEF SanInv

-----------------------------------------------------------------------------
(* The theorems. *)

LEMMA PlaceStep == ASSUME Placed, [Next]_vars PROVE PlaceInv'
<1>1. CASE UNCHANGED vars
  BY <1>1, DevicePlace DEF vars
<1>2. CASE BeginAction \/ Signal
  BY <1>2, HeadWalks, WalkPlace
<1>3. CASE PowerCycle \/ DeviceCall \/ CallFault
  BY <1>3, CallWalks, WalkPlace
<1>4. CASE EraseSteps
  BY <1>4, EraseWalks, WalkPlace
<1>5. CASE Settle
  BY <1>5, SettleSwitch, SettleOrder DEF PlaceInv
<1>6. CASE EraseProgress \/ Drain
  BY <1>6, DevicePlace DEF EraseProgress, Drain
<1> QED
  BY <1>1, <1>2, <1>3, <1>4, <1>5, <1>6, SwitchPlace, ReportPlace,
     ReplayPlace, CrashPlace, ResumePlace DEF Next, ProcessStep, OwnStep,
     StatusCall, RunCall, EraseSteps

LEMMA SanStep == ASSUME Placed, Sound, [Next]_vars, SameCycle PROVE SanInv'
<1>1. CASE UNCHANGED vars
  <2>1. /\ D1' = D1 /\ OnC2' = OnC2 /\ Live' = Live
        /\ CanCycle' = CanCycle /\ ErasedRecord' = ErasedRecord
        /\ Counted' = Counted /\ CurrentId' = CurrentId
    BY <1>1 DEF vars, D1, D2, OnC2, Live, CanCycle, ErasedRecord, Counted,
       CurrentId, CurrentRecipe
  <2>2. MediumOK' /\ EraseOK' /\ SourceOK' /\ ReportOK'
    BY <1>1, <2>1, MediumKept
       DEF vars, Sound, SanInv, EraseOK, SourceOK, ReportOK
  <2>3. CycleOK'
    BY <1>1, <2>1
       DEF vars, Sound, SanInv, CycleOK, RecordOK, OutcomeOK, NoCycle
  <2> QED BY <2>2, <2>3 DEF SanInv
<1> QED
  BY <1>1, HeadStep, CallStep, EraseStep, SettleStep, SwitchStep, ReportStep,
     ReplayStep, CrashStep, ResumeStep, DeviceStep
     DEF Next, ProcessStep, OwnStep, StatusCall, RunCall, EraseSteps

LEMMA InitFacts ==
    ASSUME Init
    PROVE  /\ D1 = <<>> /\ D2 = <<>> /\ run.pc = "next" /\ run.plan = cfg.level
           /\ run.idx = 1 /\ run.ev = FreshEvidence /\ ~run.cycled
           /\ run.skipTo = 0 /\ cfg.level \in Levels
           /\ cfg.aggressive \in BOOLEAN
           /\ \A l \in Levels : journal.done[l] = <<>>
           /\ Len(D1) = 0 /\ Len(D2) = 0
           /\ ~ErasedRecord /\ Counted = 0
           /\ OnC2 <=> (cfg.level = "C2")
<1>1. /\ D1 = <<>> /\ D2 = <<>> /\ run.pc = "next" /\ run.plan = cfg.level
      /\ run.idx = 1 /\ run.ev = FreshEvidence /\ ~run.cycled
      /\ run.skipTo = 0 /\ cfg.level \in Levels /\ ~journal.fb
      /\ cfg.aggressive \in BOOLEAN
      /\ \A l \in Levels : journal.done[l] = <<>>
  BY DEF Init, D1, D2, Levels, Config
<1>2. Len(D1) = 0 /\ Len(D2) = 0
  BY <1>1
<1>3. OnC2 <=> (cfg.level = "C2")
  BY <1>1 DEF OnC2
<1>4. ~ErasedRecord
  BY <1>2 DEF ErasedRecord
<1>5. Counted = 0
  BY <1>1, <1>2 DEF Counted
<1> QED BY <1>1, <1>2, <1>3, <1>4, <1>5

LEMMA InitPlace == Init => PlaceInv
<1> SUFFICES ASSUME Init PROVE PlaceInv
  OBVIOUS
<1>1. SwitchOK
  BY InitFacts DEF SwitchOK, Levels
<1>2. Len(R1) >= 0 /\ Len(C2Recipe) >= 0
  BY InitFacts, RecipeType, C2Types DEF R1, Levels
<1>3. C1From(0)
  BY InitFacts, <1>2 DEF C1From
<1>4. OrderOK
  BY InitFacts, <1>2, <1>3 DEF OrderOK, ExactPrefix
<1> QED BY <1>1, <1>4 DEF PlaceInv

LEMMA InitSan == ASSUME Quiet, Fresh PROVE Init => SanInv
<1> SUFFICES ASSUME Init PROVE SanInv
  OBVIOUS
<1>1. MediumOK
  BY DEF Init, MediumOK, Quiet, Fresh
<1>2. EraseOK /\ SourceOK
  BY InitFacts DEF EraseOK, SourceOK, FreshEvidence, ErrIn
<1>3. CycleOK
  BY InitFacts
     DEF CycleOK, RecordOK, OutcomeOK, NoCycle, FreshEvidence, OkIn
<1>4. ReportOK
  BY DEF Init, ReportOK, NoReport
<1> QED BY <1>1, <1>2, <1>3, <1>4 DEF SanInv

LEMMA PlaceAlways == Spec => [](BaseInv /\ PlaceInv)
<1>1. Init => BaseInv /\ PlaceInv
  BY InitBase, InitPlace
<1>2. BaseInv /\ PlaceInv /\ [Next]_vars => (BaseInv /\ PlaceInv)'
  BY NextBase, PlaceStep DEF Placed
<1> QED BY <1>1, <1>2, PTL DEF Spec

\* The ids of a journal, as CompletedInOrder names them.
LEMMA DoneIds ==
    ASSUME TypeOK, NEW l \in {"C1", "C2"}
    PROVE  LET done == journal.done[l]
               ids == [i \in DOMAIN done |-> done[i].id]
           IN  /\ DOMAIN done = 1..Len(done) /\ DOMAIN ids = 1..Len(done)
               /\ Len(ids) = Len(done)
               /\ \A i \in 1..Len(done) : ids[i] = done[i].id
<1> DEFINE done == journal.done[l]
           ids == [i \in DOMAIN done |-> done[i].id]
<1>1. done \in Seq(DoneRecord)
  BY DEF TypeOK, Journals, Levels
<1> HIDE DEF done
<1>2. DOMAIN done = 1..Len(done) /\ Len(done) \in Nat
  BY <1>1
<1>3. ids = [i \in 1..Len(done) |-> done[i].id]
  BY <1>2
<1>4. Len(ids) = Len(done)
  BY <1>2, <1>3
<1> QED BY <1>2, <1>3, <1>4 DEF done

LEMMA OrderHolds == BaseInv /\ PlaceInv => RecordsInOrder
<1> SUFFICES ASSUME BaseInv, PlaceInv PROVE RecordsInOrder
  OBVIOUS
<1>1. PICK k \in 0..1 : C1From(k)
  BY DEF PlaceInv, OrderOK
<1>2. TypeOK /\ Len(D1) \in Nat /\ k \in {0, 1}
  BY JournalTypes DEF BaseInv
<1>3. /\ k + Len(D1) <= Len(R1) /\ (cfg.level = "C1" => k = 0)
      /\ \A i \in 1..Len(D1) : D1[i].id = R1[k + i]
  BY <1>1 DEF C1From
<1>4. ExactPrefix(D2, C2Recipe)
  BY DEF PlaceInv, OrderOK
<1>5. /\ Recipe("C2", cfg.aggressive) = C2Recipe
      /\ Levels = {"C1", "C2"}
  BY DEF Recipe, Levels
<1>6. C1IsPrefix
  <2> SUFFICES ASSUME cfg.level = "C1", NEW l \in {"C1", "C2"}
               PROVE  ExactPrefix(journal.done[l], Recipe(l, cfg.aggressive))
    BY <1>5 DEF C1IsPrefix, CompletedIsPrefix
  <2>1. Len(D1) <= Len(R1) /\ \A i \in 1..Len(D1) : D1[i].id = R1[i]
    BY <1>2, <1>3
  <2>2. ExactPrefix(D1, R1)
    BY <2>1 DEF ExactPrefix
  <2> QED BY <1>4, <1>5, <2>2 DEF D1, D2, R1
<1>7. ASSUME NEW l \in Levels
      PROVE  LET done == journal.done[l]
                 recipe == Recipe(l, cfg.aggressive)
             IN  \E n \in 0..Len(recipe) :
                   /\ n + Len(done) <= Len(recipe)
                   /\ \A i \in 1..Len(done) : done[i].id = recipe[n + i]
  <2>1. CASE l = "C1"
    <3>1. Len(R1) \in Nat /\ k \in 0..Len(R1)
      BY <1>2, <1>3, JournalTypes, RecipeType DEF Levels
    <3> QED BY <1>3, <2>1, <3>1 DEF D1, R1
  <2>2. CASE l = "C2"
    <3>1. /\ 0 \in 0..Len(C2Recipe) /\ Len(D2) \in Nat
          /\ 0 + Len(D2) <= Len(C2Recipe)
          /\ \A i \in 1..Len(D2) : D2[i].id = C2Recipe[0 + i]
      BY <1>2, <1>4, C2Types, JournalTypes DEF ExactPrefix
    <3> QED BY <1>5, <2>2, <3>1 DEF D2
  <2> QED BY <1>5, <2>1, <2>2
<1>8. CompletedInOrder
  <2> SUFFICES
        ASSUME NEW l \in Levels
        PROVE  LET ids == [i \in DOMAIN journal.done[l] |->
                                                    journal.done[l][i].id]
                   recipe == Recipe(l, cfg.aggressive)
               IN  \E n \in 0..Len(recipe) :
                      n + Len(ids) <= Len(recipe) /\
                      \A i \in DOMAIN ids : ids[i] = recipe[n + i]
    BY DEF CompletedInOrder
  <2> DEFINE done == journal.done[l]
             ids == [i \in DOMAIN journal.done[l] |-> journal.done[l][i].id]
             recipe == Recipe(l, cfg.aggressive)
  <2>1. /\ DOMAIN ids = 1..Len(done) /\ Len(ids) = Len(done)
        /\ \A i \in 1..Len(done) : ids[i] = done[i].id
    BY <1>2, <1>5, DoneIds
  <2>2. \E n \in 0..Len(recipe) :
           /\ n + Len(done) <= Len(recipe)
           /\ \A i \in 1..Len(done) : done[i].id = recipe[n + i]
    BY <1>7
  <2> HIDE DEF done, ids, recipe
  <2>3. \E n \in 0..Len(recipe) :
           /\ n + Len(ids) <= Len(recipe)
           /\ \A i \in DOMAIN ids : ids[i] = recipe[n + i]
    BY <2>1, <2>2
  <2> QED BY <2>3 DEF ids, recipe
<1> QED BY <1>6, <1>8 DEF RecordsInOrder

\* The completed records of the C2 plan are the beginning of its recipe, and
\* those of the C1 plan a stretch of its own that starts with its first or
\* second action (the first on a C1 workflow): no action is skipped, repeated
\* or taken out of order by a fault, a stop, a crash, a resume or the switch
\* to the embedded plan (run_execute_inner, replay_completed_actions).
THEOREM InOrder == Spec => []RecordsInOrder
  BY PlaceAlways, OrderHolds, PTL

\* What a report "ok" says holds of the device.
LEMMA OkHolds == RunningOK /\ SanInv /\ EvidenceInv => OkMeansSanitised
<1> SUFFICES ASSUME SanInv, EvidenceInv, report.result = "ok"
             PROVE  IF report.grade = "C1"
                    THEN /\ hist.prbs /\ hist.zero
                         /\ \/ dev.stable = "zero"
                            \/ hist.blind /\ dev.stable = "blank"
                    ELSE dev.stable = "blank" /\ hist.erased
  BY DEF OkMeansSanitised
<1>1. CASE report.grade = "C1"
  BY <1>1 DEF SanInv, ReportOK, MediumOK, ZeroOK
<1>2. CASE report.grade # "C1"
  <2>1. dev.erase = "completed" /\ OnC2
    BY <1>2 DEF SanInv, ReportOK, EraseOK
  <2>2. dev.stable = "blank"
    BY <2>1 DEF SanInv, MediumOK
  <2>3. hist.erased
    BY <2>1 DEF EvidenceInv, NotErased
  <2> QED BY <1>2, <2>2, <2>3
<1> QED BY <1>1, <1>2

\* The result "ok" is the truth about the medium: at C1 a pseudo-random
\* pattern and zeros were each read back after a power cut that followed their
\* writing, and the zeros are still there unless an erase that was fallen back
\* from without a verdict has blanked them; at C2 the device completed an
\* erase and the medium is blank.  Over any number of faults, signals, crashes and
\* resumes, on honest devices and on those that lie about a flush
\* (run_execute_inner, cmd_resume, grade.rs).
THEOREM OkSanitised ==
    ASSUME Quiet, Fresh, SameCycle PROVE Spec => []OkMeansSanitised
<1> DEFINE Inv == BaseInv /\ PlaceInv /\ RunningOK /\ SanInv /\ EvidenceInv
<1>1. Init => Inv
  BY InitBase, InitPlace, InitRunning, InitSan, InitEvidence
<1>2. Inv /\ [Next]_vars => Inv'
  BY NextBase, PlaceStep, NextRunning, SanStep, EvidenceStep
     DEF Placed, Sound
<1>3. Inv => OkMeansSanitised
  BY OkHolds
<1> QED BY <1>1, <1>2, <1>3, PTL DEF Spec
=============================================================================
