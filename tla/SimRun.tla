------------------------------- MODULE SimRun -------------------------------
(***************************************************************************)
(* A C2, C3 or C4 plan run on the simulated device, end to end: the core   *)
(* executes the actions one by one, the backend process changes the image  *)
(* and answers, the core folds the answer into its evidence and records    *)
(* it.  The backend or both processes can be killed anywhere, also in the  *)
(* middle of an operation; a resume folds the recorded answers again and   *)
(* goes on with the next action.                                           *)
(***************************************************************************)
EXTENDS SimDevice, ControllerReport

CONSTANTS
    LevelsRun,   \* levels of the plans to run
    SpecsRun,    \* images to run them on
    CutPoints,   \* blocks an interrupted operation may stop before
    MaxKills,    \* processes killed or stopped in a behaviour
    MaxResumes   \* resume commands in a behaviour

RunAssumption ==
    /\ LevelsRun \subseteq {"C2", "C3", "C4"} /\ SpecsRun \subseteq Specs
    /\ CutPoints \subseteq 0 .. NumBlocks
    /\ {MaxKills, MaxResumes} \subseteq Nat

VARIABLES
    cfg,      \* the level of the plan and what the image was created from
    dev,      \* the image
    journal,  \* completed actions with their answers, accepted capacities
    run,      \* the process
    report,   \* the report of the last process that ended
    used
vars == <<cfg, dev, journal, run, report, used>>

C2Actions == <<"inventory", "device-user-area-erase", "blank-verify",
    "signature-check", "power-cycle", "postcheck-p2">>
C3Actions == <<"inventory", "capture-old-bbt", "enter-service-mode",
    "erase-old-rbb", "qualify-blocks", "final-erase", "rebuild-bbt-ftl",
    "exit-service-mode", "power-cycle", "re-enumeration", "postcheck-c3">>
C4Actions == <<"inventory", "capture-old-bbt", "enter-service-mode",
    "enumerate-blocks", "erase-old-rbb", "erase-data-blocks",
    "qualify-blocks", "final-erase", "verify-physical-erasure",
    "rebuild-bbt-ftl", "exit-service-mode", "power-cycle", "re-enumeration",
    "postcheck-c4">>
ActionsOf(level) == CASE level = "C2" -> C2Actions
                      [] level = "C3" -> C3Actions
                      [] level = "C4" -> C4Actions
Erase == "device-user-area-erase"

\* The image a behaviour starts with, and the capacity its plan names.
Initially(spec) == Create(spec, "idle")
Planned == Capacity(cfg.spec, Initially(cfg.spec))

-----------------------------------------------------------------------------
(* One action. *)

\* Whether the device allows what the action changes, and the change.
Effect(level, spec, d, id) ==
    CASE id = "enter-service-mode" -> EnterService(d)
      [] id = "exit-service-mode" -> ExitService(spec, d)
      [] id = "erase-old-rbb" -> EraseOldRbb(spec, d)
      [] id = "erase-data-blocks" -> EraseData(spec, d)
      [] id = "qualify-blocks" -> Qualify(spec, d)
      [] id = "final-erase" -> FinalErase(spec, d)
      [] id = "rebuild-bbt-ftl" -> Rebuild(spec, d)
      [] id = "power-cycle" -> PowerCycle(d)
      [] OTHER -> d

Nothing == Answer("ok", 0, NoDetails)
AnswerTo(level, spec, d, id) ==
    CASE id = "capture-old-bbt" -> CaptureAnswer(d)
      [] id = "enumerate-blocks" -> EnumerateAnswer(spec, d)
      [] id = "exit-service-mode" ->
           IF spec.exitFails THEN Refused ELSE Nothing
      [] id = "erase-old-rbb" -> EraseOldRbbAnswer(spec, d)
      [] id = "erase-data-blocks" -> EraseDataAnswer(spec, d)
      [] id = "qualify-blocks" -> QualifyAnswer(spec, d)
      [] id = "final-erase" -> FinalEraseAnswer(spec, d)
      [] id = "verify-physical-erasure" -> VerifyAnswer(spec, d)
      [] id = "rebuild-bbt-ftl" -> RebuildAnswer(spec, d)
      [] id = "re-enumeration" -> Answer("ok", 0, [service |-> d.service])
      [] id = "blank-verify" -> BlankAnswer(spec, d)
      [] id = "signature-check" -> SignatureAnswer(spec, d)
      [] id \in {"postcheck-p2", "postcheck-c3", "postcheck-c4"} ->
           Postcheck(level, spec, d)
      [] OTHER -> Nothing

\* What is on the image when the operation is cut short before block k.
CutShort(spec, d, id, k) ==
    CASE id = "erase-old-rbb" -> Blanked(spec, d, Before(k, OldRbbs(d)))
      [] id \in {"erase-data-blocks", "final-erase"} ->
           Blanked(spec, d, Before(k, DataBlocks(spec, d)))
      [] id = "qualify-blocks" ->
           Programmed(spec, d, Before(k, DataBlocks(spec, d)))
      [] OTHER -> d

\* run_execute_plan_actions: an error of a C3 or C4 action, or of the erase
\* of a C2 plan without fallback, ends the run.
Fatal(level, id, o) == o.st = "error" /\ (level # "C2" \/ id = Erase)

Fold(level, spec, ev, id, o) ==
    Apply(level, ev, id, o,
          ev.cycled \/ (id = "power-cycle" /\ o.st = "ok"),
          Capacity(spec, Initially(spec)))
EvidenceOf_CycleLost(level, spec, acts) ==                         \* mutant
    FoldLeft(LAMBDA ev, a : Apply(level, ev, a.id, a.o, ev.cycled,
                                  Capacity(spec, Initially(spec))),
             Fresh(spec.guarded > 0), acts)
EvidenceOf(level, spec, acts) ==
    FoldLeft(LAMBDA ev, a : Fold(level, spec, ev, a.id, a.o),
             Fresh(spec.guarded > 0), acts)

-----------------------------------------------------------------------------
PCs == {"off", "act", "query", "issue", "monitor", "done", "noted", "failed", "over"}
NoAnswer == Nothing
NoReport == [result |-> "none"]

Init ==
    \E level \in LevelsRun, spec \in SpecsRun :
        /\ cfg = [level |-> level, spec |-> spec]
        /\ dev = Initially(spec)
        /\ journal = [acts |-> <<>>,
                      caps |-> {Capacity(spec, Initially(spec))}]
        /\ run = [pc |-> "act", idx |-> 1, ev |-> Fresh(spec.guarded > 0),
                  out |-> NoAnswer, resumed |-> FALSE,
                  before |-> Capacity(spec, Initially(spec))]
        /\ report = NoReport
        /\ used = [kills |-> 0, resumes |-> 0]

Actions == ActionsOf(cfg.level)
Action == Actions[run.idx]
Acting(ids) == /\ run.pc = "act" /\ run.idx <= Len(Actions)
               /\ Action \in ids
Answers(o) == run' = [run EXCEPT !.pc = "done", !.out = o]
Goto(pc) == run' = [run EXCEPT !.pc = pc]

\* An action that is one backend call.
Call ==
    /\ Acting(ToSet(Actions) \ {Erase})
    /\ dev' = Effect(cfg.level, cfg.spec, dev, Action)
    /\ Answers(AnswerTo(cfg.level, cfg.spec, dev, Action))
    /\ UNCHANGED <<cfg, journal, report, used>>

\* The erase starts by itself; a resumed process asks for it first.
IssueErase ==
    /\ \/ Acting({Erase}) /\ run.resumed /\ Goto("query") /\ UNCHANGED dev
       \/ /\ run.pc = "issue" \/ (Acting({Erase}) /\ ~run.resumed)
          /\ Goto("monitor") /\ dev' = BeginSanitize(dev)
    /\ UNCHANGED <<cfg, journal, report, used>>

\* query_erase_state: every status call advances the erase, then says what
\* it has come to.
Query ==
    /\ run.pc = "query"
    /\ dev' = Tick(cfg.spec, dev)
    /\ CASE dev'.sanitize = "idle" -> Goto("issue")
         [] dev'.sanitize = "completed" -> Answers(Nothing)
         [] dev'.sanitize = "failed" -> Answers(Refused)
         [] dev'.sanitize = "in-progress" -> Goto("monitor")
    /\ UNCHANGED <<cfg, journal, report, used>>

\* monitor_device_erase: polled until it ends.
Monitor ==
    /\ run.pc = "monitor"
    /\ dev' = Tick(cfg.spec, dev)
    /\ CASE dev'.sanitize = "completed" -> Answers(Nothing)
         [] dev'.sanitize = "failed" -> Answers(Refused)
         [] OTHER -> UNCHANGED run
    /\ UNCHANGED <<cfg, journal, report, used>>

\* The answer is folded; a rebuild first records the capacity it committed.
Note ==
    /\ run.pc = "done" /\ ~Fatal(cfg.level, Action, run.out)
    /\ run' = [run EXCEPT !.pc = "noted",
                 !.ev = Fold(cfg.level, cfg.spec, @, Action, run.out)]
    /\ journal' = IF Action = "rebuild-bbt-ftl" \/ Action = "re-enumeration"
                  THEN [journal EXCEPT !.caps =
                          @ \cup {Capacity(cfg.spec, dev)}]
                  ELSE journal
    /\ UNCHANGED <<cfg, dev, report, used>>

Record ==
    /\ run.pc = "noted"
    /\ journal' = [journal EXCEPT !.acts =
                     Append(@, [id |-> Action, o |-> run.out])]
    /\ run' = [run EXCEPT !.pc = "act", !.idx = @ + 1]
    /\ UNCHANGED <<cfg, dev, report, used>>

GiveUp ==
    /\ run.pc = "done" /\ Fatal(cfg.level, Action, run.out)
    /\ Goto("failed")
    /\ UNCHANGED <<cfg, dev, journal, report, used>>

\* Only a first run asks for the recovery of what has failed.
Finish(ended) ==
    /\ Goto("over")
    /\ report' = ReportOf(cfg.level, cfg.level, run.ev, ended, run.before,
                          Capacity(cfg.spec, dev))
    /\ dev' = IF ended = "failed" /\ ~run.resumed /\ dev.service
              THEN ExitService(cfg.spec, dev) ELSE dev
    /\ UNCHANGED <<cfg, journal, used>>

Complete == run.pc = "act" /\ run.idx > Len(Actions) /\ Finish("ok")
Failed == run.pc = "failed" /\ Finish("failed")

-----------------------------------------------------------------------------
(* Interruptions. *)

Running == run.pc \notin {"off", "over"}
KillUsed == /\ used.kills < MaxKills
            /\ used' = [used EXCEPT !.kills = @ + 1]

\* Both processes die between two steps.
Die ==
    /\ Running /\ KillUsed /\ Goto("off")
    /\ UNCHANGED <<cfg, dev, journal, report>>

\* The backend, alone or with the core, dies in the middle of an operation.
DieInside ==
    /\ Acting(ToSet(Actions) \ {Erase}) /\ KillUsed
    /\ \E k \in CutPoints : dev' = CutShort(cfg.spec, dev, Action, k)
    /\ Goto("off") \/ Goto("failed")
    /\ UNCHANGED <<cfg, journal, report>>

\* A status call dies after it cleared the blocks and before it said so.
DieInTick ==
    /\ run.pc \in {"query", "monitor"} /\ KillUsed
    /\ Ticks(dev) /\ TickEnds(cfg.spec, dev)
    /\ \E k \in CutPoints : dev' = SanitizedBefore(cfg.spec, dev, k)
    /\ Goto("off") \/ Goto("failed")
    /\ UNCHANGED <<cfg, journal, report>>

\* Ctrl-C at an action boundary or while an erase is monitored.
Interrupt ==
    /\ run.pc \in {"act", "monitor"} /\ used.kills < MaxKills
    /\ Goto("over")
    /\ report' = ReportOf(cfg.level, cfg.level, run.ev, "interrupted",
                          run.before, Capacity(cfg.spec, dev))
    /\ used' = [used EXCEPT !.kills = @ + 1]
    /\ UNCHANGED <<cfg, dev, journal>>

\* cmd_resume: the device must have an accepted capacity, for its identity
\* includes the capacity.
Recognized == Capacity(cfg.spec, dev) \in journal.caps
Resume ==
    /\ run.pc = "off" \/ (run.pc = "over"
                            /\ report.result \in {"failed", "interrupted"})
    /\ used.resumes < MaxResumes /\ Recognized
    /\ used' = [used EXCEPT !.resumes = @ + 1]
    /\ run' = [pc |-> "act", idx |-> Len(journal.acts) + 1,
               ev |-> EvidenceOf(cfg.level, cfg.spec, journal.acts),
               out |-> NoAnswer, resumed |-> TRUE,
               before |-> Capacity(cfg.spec, dev)]
    /\ report' = NoReport
    /\ UNCHANGED <<cfg, dev, journal>>

Next == \/ Call \/ IssueErase \/ Query \/ Monitor \/ Note \/ Record \/ GiveUp
        \/ Complete \/ Failed
        \/ Die \/ DieInside \/ DieInTick \/ Interrupt \/ Resume

Spec == Init /\ [][Next]_vars

-----------------------------------------------------------------------------
(* Properties. *)

\* The journal holds a prefix of the plan's actions.
TypeOK ==
    /\ cfg \in [level : LevelsRun, spec : SpecsRun]
    /\ dev \in Devices
    /\ \A i \in 1 .. Len(journal.acts) :
         journal.acts[i].id = Actions[i]
    /\ journal.caps \subseteq 0 .. NumBlocks
    /\ run.pc \in PCs /\ run.idx \in 1 .. Len(Actions) + 1
    /\ run.before \in 0 .. NumBlocks

Finished == run.pc = "over" /\ report.result \in {"ok", "degraded"}

\* Blocks whose erasure a report of result "ok" vouches for.
Vouched == IF cfg.level = "C2"
           THEN {b \in Blocks : dev.state[b] # "fbb"} \ Protected(cfg.spec)
           ELSE DataBlocks(cfg.spec, dev)

\* A run that reports "ok" (nclr.rs: qualified, healthy, no residual) has
\* left no block it answers for with anything but the erased state, and the
\* device in normal mode, however often it was killed and resumed.
OkMeansErased ==
    Finished /\ report.result = "ok" =>
        /\ \A b \in Vouched : dev.cells[b] = "blank"
        /\ ~dev.service
        /\ Unmapped(cfg.spec, dev) = 0

\* The verdict does not depend on where a run was cut and resumed: the
\* report is the one of a run that nobody interrupted (resume rebuilds the
\* evidence from the journal; the operations can be repeated).
Undisturbed(level, spec) ==
    FoldLeft(LAMBDA r, id :
               IF r.ended # "ok" THEN r
               ELSE IF id = Erase
               THEN LET d == FoldLeft(LAMBDA x, i : Tick(spec, x),
                                      BeginSanitize(r.dev),
                                      [i \in 1 .. NumBlocks |-> i])
                    IN  [dev |-> d,
                         ev |-> Fold(level, spec, r.ev, id, Nothing),
                         ended |-> IF d.sanitize = "completed" THEN "ok"
                                                               ELSE "failed"]
               ELSE LET o == AnswerTo(level, spec, r.dev, id)
                    IN  [dev |-> Effect(level, spec, r.dev, id),
                         ev |-> Fold(level, spec, r.ev, id, o),
                         ended |-> IF Fatal(level, id, o) THEN "failed"
                                                          ELSE "ok"],
             [dev |-> Initially(spec), ev |-> Fresh(spec.guarded > 0),
              ended |-> "ok"],
             ActionsOf(level))
VerdictIndependent ==
    Finished =>
        LET r == Undisturbed(cfg.level, cfg.spec)
        IN  /\ r.ended = "ok"
            /\ report = ReportOf(cfg.level, cfg.level, r.ev, "ok", Planned,
                                 Capacity(cfg.spec, r.dev))

\* The committed capacity is backed by blocks that may hold data: weak and
\* quarantined blocks are never needed to fill the logical space
\* (plan_capacity's spare pool).
CapacityBacked ==
    dev.newUser > 0 => Len(Window(cfg.spec, dev)) = dev.newUser

\* A finished run's verdict and capacity hold wherever it was cut.
VerdictTrue == VerdictIndependent /\ CapacityBacked
=============================================================================
