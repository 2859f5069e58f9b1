------------------------------ MODULE EraseRun ------------------------------
(***************************************************************************)
(* One `nclr run` of a C1 or C2 plan, its crashes and interruptions, and   *)
(* the `nclr resume` processes that continue it (bin/nclr.rs), against a   *)
(* device whose erase command keeps running on its own once accepted.      *)
(*                                                                         *)
(* What survives a process is `journal` (what journal::summarize would     *)
(* return) and `dev`; `run` is the memory of the process; `cfg` is fixed:  *)
(* the plan, the options and the device of the scenario.  `hist` only      *)
(* observes, for the properties; no action reads it.                       *)
(*                                                                         *)
(* A run begins here after the "locked" record is durable and the operator *)
(* has confirmed.  Backends: "sim" (status always knows the erase), "scsi" *)
(* (SANITIZE, whose status page may be unreadable), "sd" (CMD38, blocking, *)
(* without any status).                                                    *)
(***************************************************************************)
EXTENDS Grading, SequencesExt

CONSTANTS
    Plan0,          \* levels of the plans to run
    Backends,       \* backends to run them on
    Aggressive,     \* values of --aggressive-lba
    Floors,         \* values of minimum_level in the plans
    StaleErase,     \* erase states an earlier workflow may have left behind
    StatusMayFail,  \* may the backend's status operation itself fail?
    CycleCmdVaries, \* may resume be given another --power-cycle than run?
    HasDeadline,    \* is --backend-timeout given?  (0, none, by default)
    MaxFaults,      \* device, backend and journal faults in a behaviour
    MaxStops,       \* signals and crashes in a behaviour
    MaxResumes      \* resume commands in a behaviour

ASSUME PlanAssumption    == Plan0 \subseteq Levels
ASSUME BackendAssumption == Backends \subseteq {"sim", "scsi", "sd"}
ASSUME FlagAssumption    == /\ Aggressive \subseteq BOOLEAN
                            /\ StatusMayFail \in BOOLEAN
                            /\ CycleCmdVaries \in BOOLEAN
                            /\ HasDeadline \in BOOLEAN
ASSUME FloorAssumption   == Floors \subseteq {"C1", "C2"}
ASSUME StaleAssumption   == StaleErase \subseteq {"running", "completed"}
ASSUME BoundAssumption   == /\ MaxFaults \in Nat
                            /\ MaxStops \in Nat
                            /\ MaxResumes \in Nat

VARIABLES cfg, journal, dev, run, hist, report, used
vars == <<cfg, journal, dev, run, hist, report, used>>

-----------------------------------------------------------------------------
(* The values of the variables. *)

Methods == {"sim", "external", "none"}
Config == [level : Levels, backend : {"sim", "scsi", "sd"}, method : Methods,
           noFallback : BOOLEAN, aggressive : BOOLEAN,
           lying : BOOLEAN,          \* a flush of the device persists nothing
           floor : {"C1", "C2"}]     \* minimum_level of the plan

DoneRecord == [id : ActionIds, st : Statuses, err : BOOLEAN]
Journals == [fb : BOOLEAN,                     \* a fallback-plan record exists
             done : [Levels -> Seq(DoneRecord)]] \* action-completed, by plan

EraseStates == {"idle", "running", "completed", "failed"}
Media == {"user", "mixed", "prbs", "zero", "blank"}
Devices == [erase : EraseStates, view : Media, stable : Media]

PCs == {"idle", "replay", "next", "call", "issue", "blocking", "monitor",
        "query", "settle", "switch", "report"}
Runs == [pc : PCs, plan : Levels, idx : Nat, ev : Evidence, cycled : BOOLEAN,
         resuming : BOOLEAN, skipTo : Nat, ctx : {"live", "resume", "error"},
         out : Outcomes, cmd : BOOLEAN, sig : BOOLEAN,
         status : {"ok", "interrupted", "failed"}]

Histories == [erased : BOOLEAN, cut : BOOLEAN, prbs : BOOLEAN,
              zero : BOOLEAN, issued : BOOLEAN, reissued : BOOLEAN,
              blind : BOOLEAN]    \* a fallback without a verdict of the device

Results == {"none", "ok", "degraded", "interrupted", "failed"}
Reports == [result : Results, grade : Grades]
Counters == [faults : 0..MaxFaults, stops : 0..MaxStops, resumes : 0..MaxResumes]

\* What the code's types and enumerations admit, and no more than the bounds.
TypeOK ==
    /\ cfg \in Config
    /\ journal \in Journals
    /\ dev \in Devices
    /\ run \in Runs
    /\ hist \in Histories
    /\ report \in Reports
    /\ used \in Counters

NoReport == [result |-> "none", grade |-> "C0"]
OkOutcome == [st |-> "ok", err |-> FALSE]
ErrorOutcome == [st |-> "error", err |-> TRUE]

CurrentRecipe == Recipe(run.plan, cfg.aggressive)
CurrentId == CurrentRecipe[run.idx]
\* The embedded fallback plan never carries no_fallback.
NoFallback == cfg.noFallback /\ run.plan = cfg.level
EraseKnown == cfg.backend # "sd"   \* status answers with a sanitize object

-----------------------------------------------------------------------------
(* Helpers: bounded faults, the ways a process moves on. *)

NoFault == UNCHANGED used
Fault == /\ used.faults < MaxFaults
         /\ used' = [used EXCEPT !.faults = @ + 1]

Goto(pc) == run' = [run EXCEPT !.pc = pc]
\* Leave the loop with a status: break 'plans.
Stop(status) == run' = [run EXCEPT !.pc = "report", !.status = status]
SettleWith(o) == run' = [run EXCEPT !.pc = "settle", !.out = o]

\* The error path of a device erase that no status verdict saved: the
\* embedded plan, or a fatal error without one.
FallbackOrFatal == IF NoFallback \/ run.plan = "C1"
                   THEN Stop("failed") ELSE Goto("switch")

\* The same, taken while nobody has said what became of the erase.
BlindFallback == FallbackOrFatal /\ hist' = [hist EXCEPT !.blind = TRUE]

\* A card loses an erase with its power; a SCSI device takes it up again.
PowerCut ==
    /\ dev' = IF cfg.backend = "sd" /\ dev.erase = "running"
              THEN [erase |-> "idle", view |-> "mixed", stable |-> "mixed"]
              ELSE [dev EXCEPT !.view = dev.stable]
    /\ hist' = [hist EXCEPT !.cut = TRUE]

-----------------------------------------------------------------------------
Init ==
    /\ cfg \in Config
    /\ cfg.level \in Plan0 /\ cfg.backend \in Backends
    /\ cfg.aggressive \in Aggressive /\ cfg.floor \in Floors
    /\ (cfg.method = "sim") <=> (cfg.backend = "sim")
    /\ cfg.backend = "sim" => ~cfg.lying
    /\ cfg.level = "C1" => ~cfg.noFallback      \* no matter there
    /\ journal = [fb |-> FALSE, done |-> [l \in Levels |-> <<>>]]
    /\ \E e \in {"idle"} \cup StaleErase :
         dev = [erase |-> e, view |-> "user", stable |-> "user"]
    /\ \E c \in BOOLEAN :
         run = [pc |-> "next", plan |-> cfg.level, idx |-> 1,
                ev |-> FreshEvidence, cycled |-> FALSE, resuming |-> FALSE,
                skipTo |-> 0, ctx |-> "live", out |-> OkOutcome, cmd |-> c,
                sig |-> FALSE, status |-> "ok"]
    /\ cfg.method = "sim" => ~run.cmd
    /\ hist = [erased |-> FALSE, cut |-> FALSE, prbs |-> FALSE,
               zero |-> FALSE, issued |-> FALSE, reissued |-> FALSE,
               blind |-> FALSE]
    /\ report = NoReport
    /\ used = [faults |-> 0, stops |-> 0, resumes |-> 0]

-----------------------------------------------------------------------------
(* The action loop. *)

\* Only a resumed process asks for the state of the erase before issuing one.
AsksFirst_Never == FALSE                                           \* mutant
AsksFirst == run.resuming

\* The head of the loop: end of the plan, a pending signal, or the
\* "action-started" record and on to the action.
BeginAction ==
    /\ run.pc = "next"
    /\ \/ /\ run.idx > Len(CurrentRecipe)
          /\ NoFault /\ Stop("ok")
       \/ /\ run.idx <= Len(CurrentRecipe) /\ run.sig
          /\ NoFault /\ Stop("interrupted")
       \/ /\ run.idx <= Len(CurrentRecipe) /\ ~run.sig
          /\ Fault /\ Stop("failed")            \* the journal cannot be written
       \/ /\ run.idx <= Len(CurrentRecipe) /\ ~run.sig
          /\ NoFault
          /\ IF CurrentId # Erase THEN Goto("call")
             ELSE IF AsksFirst
                  THEN run' = [run EXCEPT !.pc = "query", !.ctx = "resume"]
                  ELSE run' = [run EXCEPT !.pc = "issue", !.ctx = "live"]
    /\ UNCHANGED <<cfg, journal, dev, hist, report>>

Cycled(flag, o) ==
    run' = [run EXCEPT !.pc = "settle", !.out = o, !.cycled = flag]

\* No power control configured: an evidence gap, recorded as "skipped".
SkipCycle_Counted == Cycled(TRUE, [st |-> "skipped", err |-> FALSE]) \* mutant
SkipCycle == SettleWith([st |-> "skipped", err |-> FALSE])

\* The power-cycle action by the method of the plan.
PowerCycle ==
    /\ run.pc = "call" /\ CurrentId = "power-cycle"
    /\ \/ /\ cfg.method = "sim" \/ run.cmd
          /\ NoFault /\ PowerCut
          /\ Cycled(TRUE, OkOutcome)
       \/ /\ cfg.method = "none" /\ ~run.cmd
          /\ NoFault /\ UNCHANGED <<dev, hist>>
          /\ SkipCycle
       \/ /\ cfg.method = "external" /\ ~run.cmd
          /\ NoFault /\ UNCHANGED <<dev, hist>>
          /\ Stop("failed")
       \/ /\ cfg.method = "sim" \/ run.cmd
          /\ Fault /\ (UNCHANGED <<dev, hist>> \/ PowerCut)
          /\ \/ Stop("failed")
             \/ cfg.method = "sim" /\ HasDeadline /\ Stop("interrupted")
             \/ cfg.method = "sim" /\ Cycled(FALSE, ErrorOutcome)
    /\ UNCHANGED <<cfg, journal, report>>

\* What a backend answers to a read of the medium.
Matches(good) == IF dev.view \in good THEN {"ok"} ELSE {"error"}
ReadStatuses(id) ==
    CASE id \in PrbsReads -> Matches({"prbs"})
      [] id = "lba-zero-verify" -> Matches({"zero"})
      [] id \in {"blank-verify", "postcheck-p2"} -> Matches({"zero", "blank"})
      [] id = "signature-check" /\ dev.view \in {"user", "mixed"} ->
           {"ok", "found"}
      [] OTHER -> {"ok"}
ReadOutcomes(id) ==
    {[st |-> s, err |-> s = "error"] : s \in ReadStatuses(id)}

\* Pattern writes end with a flush of their own (lba.rs); the flush of a
\* lying device returns but persists nothing.
Written(m) ==
    /\ dev' = [dev EXCEPT !.view = m,
                          !.stable = IF cfg.lying THEN "mixed" ELSE m]
    /\ hist' = [hist EXCEPT !.cut = FALSE, !.zero = FALSE]

\* A SCSI device that is erasing refuses to be read or written.
Refuses == cfg.backend = "scsi" /\ dev.erase = "running"

\* One backend process runs the action to its end.
DeviceCall ==
    /\ run.pc = "call" /\ CurrentId # "power-cycle" /\ ~Refuses
    /\ IF CurrentId \in PatternWrites
       THEN /\ Written(IF CurrentId \in PrbsWrites THEN "prbs" ELSE "zero")
            /\ SettleWith(OkOutcome)
       ELSE \E o \in ReadOutcomes(CurrentId) :
            /\ SettleWith(o)
            /\ dev' = IF CurrentId \in {"flush", "postcheck-p2"} /\ ~cfg.lying
                      THEN [dev EXCEPT !.stable = dev.view] ELSE dev
            /\ hist' = [hist EXCEPT
                  !.prbs = @ \/ (CurrentId \in PrbsReads /\ o.st = "ok"
                                   /\ hist.cut),
                  !.zero = @ \/ (CurrentId = "lba-zero-verify" /\ o.st = "ok"
                                   /\ hist.cut)]
    /\ NoFault
    /\ UNCHANGED <<cfg, journal, report>>

\* The same call going wrong.  The answer is an error at action level
\* ("partial" for a write with failed chunks), or the backend dies or answers
\* badly (Err) or exceeds its timeout (Err(Interrupted)).  Where a PRBS write
\* may fall back to the zero pass, both kinds of Err become "fallback".  A
\* write may have reached part of the medium.
CallFault ==
    /\ run.pc = "call" /\ CurrentId # "power-cycle"
    /\ IF Refuses THEN NoFault ELSE Fault
    /\ \/ UNCHANGED <<dev, hist>>
       \/ /\ CurrentId \in PatternWrites /\ ~Refuses
          /\ dev' = [dev EXCEPT !.view = "mixed", !.stable = "mixed"]
          /\ hist' = [hist EXCEPT !.cut = FALSE, !.zero = FALSE]
    /\ \/ SettleWith(ErrorOutcome)
       \/ /\ CurrentId \in PatternWrites
          /\ SettleWith([st |-> "partial", err |-> TRUE])
       \/ IF CurrentId = "lba-prbs-write" /\ ~NoFallback
          THEN SettleWith([st |-> "fallback", err |-> TRUE])
          ELSE Stop("failed") \/ (HasDeadline /\ Stop("interrupted"))
    /\ UNCHANGED <<cfg, journal, report>>

-----------------------------------------------------------------------------
(* The device erase. *)

\* The device takes the command; an erase already running goes on.
Accept ==
    /\ dev' = [dev EXCEPT !.erase = "running"]
    /\ hist' = [hist EXCEPT !.issued = TRUE, !.cut = FALSE,
                            !.reissued = @ \/ (EraseKnown /\ hist.issued)]

\* After a failed erase call the device is asked before anything else.
QueryError_Skipped == FallbackOrFatal                              \* mutant
QueryError == run' = [run EXCEPT !.pc = "query", !.ctx = "error"]

\* run of device-user-area-erase.  A busy SCSI device refuses a second
\* SANITIZE; a busy card answers nothing until the command times out, or
\* something else is wrong with it (nclr-sd-native.rs send_cmd: any error but
\* ETIMEDOUT, and the error bits of R1, fail the call).
IssueErase ==
    /\ run.pc = "issue"
    /\ \/ /\ cfg.backend \in {"sim", "scsi"}         \* accepted with IMMED
          /\ cfg.backend = "scsi" => dev.erase # "running"
          /\ NoFault /\ Accept
          /\ run' = [run EXCEPT !.pc = "monitor", !.ctx = "live"]
       \/ /\ cfg.backend \in {"scsi", "sd"}          \* a blocking command
          /\ dev.erase # "running"
          /\ NoFault /\ Accept /\ Goto("blocking")
       \/ /\ cfg.backend = "scsi" /\ dev.erase = "running"
          /\ NoFault /\ UNCHANGED <<dev, hist>> /\ QueryError
       \/ /\ cfg.backend = "sd" /\ dev.erase = "running"
          /\ NoFault /\ UNCHANGED <<dev, hist>>
          /\ SettleWith([st |-> "interrupted", err |-> TRUE])
       \/ /\ cfg.backend = "sd" \/ dev.erase # "running"
          /\ Fault /\ UNCHANGED <<dev, hist>> /\ QueryError  \* rejected
       \/ Fault /\ Accept /\ QueryError              \* accepted, answer lost
       \/ /\ HasDeadline                             \* backend timeout
          /\ Fault /\ (Accept \/ UNCHANGED <<dev, hist>>)
          /\ Stop("interrupted")
    /\ UNCHANGED <<cfg, journal, report>>

\* The blocking command ends: completed, refused by the device, answered with
\* an error while the device erases on (SG_IO gave up, MMC_IOC_CMD failed
\* other than by ETIMEDOUT), ETIMEDOUT from MMC_IOC_CMD, or the backend
\* process exceeds its own deadline.
BlockingReturns ==
    /\ run.pc = "blocking"
    /\ \/ dev.erase = "completed" /\ SettleWith(OkOutcome)
       \/ dev.erase \in {"failed", "running"} /\ QueryError
       \/ /\ dev.erase = "running" /\ cfg.backend = "sd"
          /\ SettleWith([st |-> "interrupted", err |-> TRUE])
       \/ dev.erase = "running" /\ HasDeadline /\ Stop("interrupted")
    /\ NoFault
    /\ UNCHANGED <<cfg, journal, dev, hist, report>>

\* monitor_device_erase returned Err: who called it decides, and after a
\* failed erase the process falls back, with the verdict or without.
MonitorErr(fallback) ==
    CASE run.ctx = "live"   -> QueryError /\ UNCHANGED hist
      [] run.ctx = "resume" -> Stop("failed") /\ UNCHANGED hist
      [] run.ctx = "error"  -> fallback
Failed == FallbackOrFatal /\ UNCHANGED hist

\* MONITOR_STALL_SECS without progress: the erase stands still, or its status
\* page stays unreadable.
Stalled_Never == FALSE                                             \* mutant
Stalled == cfg.backend = "scsi" \/ dev.erase \in {"idle", "running"}

\* The poll of monitor_device_erase that ends it.
MonitorPoll ==
    /\ run.pc = "monitor"
    /\ \/ run.sig /\ NoFault /\ Stop("interrupted") /\ UNCHANGED hist
       \/ StatusMayFail /\ ~run.sig /\ Fault /\ MonitorErr(BlindFallback)
       \/ /\ ~run.sig /\ dev.erase = "completed"
          /\ NoFault /\ SettleWith(OkOutcome) /\ UNCHANGED hist
       \/ ~run.sig /\ dev.erase = "failed" /\ NoFault /\ MonitorErr(Failed)
       \/ ~run.sig /\ Stalled /\ NoFault /\ Stop("interrupted")
                  /\ UNCHANGED hist
    /\ UNCHANGED <<cfg, journal, dev, report>>

\* What status may say of the erase.  "sim" knows whether it was started;
\* "scsi" says "started" whatever the device did, and reports an unreadable
\* status page as an erase still running; "sd" says nothing.
StatusAnswers_AnyEnd ==                                            \* mutant
    {IF dev.erase = "failed" THEN "completed" ELSE dev.erase}
StatusAnswers ==
    CASE cfg.backend = "sd"   -> {"none"}
      [] cfg.backend = "sim"  -> {IF dev.erase = "idle" THEN "none"
                                                        ELSE dev.erase}
      [] cfg.backend = "scsi" -> {"running"} \cup
                                 ({dev.erase} \cap {"completed", "failed"})

\* query_erase_state, asked by a resumed process before the erase (ctx
\* "resume") or by any process after the erase call failed (ctx "error").
\* After a failure a device that knows of no erase, a backend that reports
\* none ("sd") and a status that fails all lead to the fallback; only the
\* first of them is a verdict.
QueryErase ==
    /\ run.pc = "query"
    /\ \/ /\ StatusMayFail /\ Fault
          /\ IF run.ctx = "resume" THEN Stop("failed") /\ UNCHANGED hist
                                   ELSE BlindFallback
       \/ /\ NoFault /\ "none" \in StatusAnswers
          /\ IF run.ctx = "resume" THEN Goto("issue") /\ UNCHANGED hist
             ELSE IF EraseKnown THEN Failed ELSE BlindFallback
       \/ /\ NoFault /\ UNCHANGED hist
          /\ \/ "completed" \in StatusAnswers /\ SettleWith(OkOutcome)
             \/ "failed" \in StatusAnswers /\ SettleWith(ErrorOutcome)
             \/ "running" \in StatusAnswers /\ Goto("monitor")
    /\ UNCHANGED <<cfg, journal, dev, report>>

-----------------------------------------------------------------------------
(* The outcome of an action. *)

Completed(id, o) == [id |-> id, st |-> o.st, err |-> o.err]
AppendDone(rec) == [journal EXCEPT !.done[run.plan] = Append(@, rec)]

InPlaceFallback == run.plan = "C1" /\ ~NoFallback
Listed == CurrentId = FallbackFrom(run.plan)

\* After the backend: stop, fall back, or count the evidence and write
\* "action-completed".  A record that fails may still be durable.
Settle ==
    /\ run.pc = "settle"
    /\ \/ /\ run.out.st = "interrupted"
          /\ NoFault /\ Stop("interrupted") /\ UNCHANGED journal
       \/ /\ run.out.st = "error" /\ Listed /\ ~InPlaceFallback
          /\ NoFault /\ FallbackOrFatal /\ UNCHANGED journal
       \/ /\ run.out.st # "interrupted"
          /\ (run.out.st = "error" /\ Listed) => InPlaceFallback
          /\ LET ev == ApplyOutcome(run.ev, CurrentId, run.out, run.cycled)
                 appended == AppendDone(Completed(CurrentId, run.out))
             IN  \/ /\ NoFault /\ journal' = appended
                    /\ run' = [run EXCEPT !.pc = "next", !.idx = @ + 1,
                                          !.ev = ev]
                 \/ /\ Fault /\ journal' \in {journal, appended}
                    /\ run' = [run EXCEPT !.pc = "report", !.ev = ev,
                                          !.status = "failed"]
    /\ UNCHANGED <<cfg, dev, hist, report>>

\* switch_to_fallback, then the loop starts over on the embedded plan.  The
\* sequence number a resume skips to is still the one of the first plan.
SwitchPlan ==
    /\ run.pc = "switch"
    /\ \/ /\ NoFault /\ journal' = [journal EXCEPT !.fb = TRUE]
          /\ run' = [run EXCEPT !.pc = "next", !.plan = "C1",
                                !.idx = run.skipTo + 1,
                                !.ev = FreshEvidence]
       \/ /\ Fault /\ journal' \in {journal, [journal EXCEPT !.fb = TRUE]}
          /\ Stop("failed")
    /\ UNCHANGED <<cfg, dev, hist, report>>

\* run_execute_inner / cmd_resume after the loop.
Report ==
    /\ run.pc = "report"
    /\ LET v == Compute(run.plan, run.ev)
           good == /\ v.qualified /\ HealthyH2(run.plan, run.ev)
                   /\ AtLeast(v.grade, cfg.floor)
                   /\ v.residual \in {"none-known", "unreachable"}
       IN  report' = [result |-> IF run.status # "ok" THEN run.status
                                 ELSE IF good THEN "ok" ELSE "degraded",
                      grade |-> v.grade]
    /\ Goto("idle")
    /\ UNCHANGED <<cfg, journal, dev, hist, used>>

-----------------------------------------------------------------------------
(* Interruption and resume. *)

Signal ==
    /\ run.pc \notin {"idle", "report"} /\ ~run.sig
    /\ used.stops < MaxStops
    /\ used' = [used EXCEPT !.stops = @ + 1]
    /\ run' = [run EXCEPT !.sig = TRUE]
    /\ UNCHANGED <<cfg, journal, dev, hist, report>>

\* The process dies, possibly with the power of the whole host.
Crash ==
    /\ run.pc # "idle"
    /\ used.stops < MaxStops
    /\ used' = [used EXCEPT !.stops = @ + 1]
    /\ Goto("idle")
    /\ UNCHANGED <<dev, hist>> \/ PowerCut
    /\ UNCHANGED <<cfg, journal, report>>

ResumePlan == IF journal.fb THEN "C1" ELSE cfg.level

\* journal completed actions are an exact prefix of the plan
ExactPrefix(done, recipe) ==
    /\ Len(done) <= Len(recipe)
    /\ \A i \in 1..Len(done) : done[i].id = recipe[i]

Resume ==
    /\ run.pc = "idle"
    /\ used.resumes < MaxResumes
    /\ ExactPrefix(journal.done[ResumePlan],
                   Recipe(ResumePlan, cfg.aggressive))
    /\ used' = [used EXCEPT !.resumes = @ + 1]
    /\ \E c \in BOOLEAN :
         /\ ~CycleCmdVaries => c = run.cmd
         /\ run' = [pc |-> "replay", plan |-> ResumePlan, idx |-> 1,
                    ev |-> FreshEvidence, cycled |-> FALSE, resuming |-> TRUE,
                    skipTo |-> 0, ctx |-> "resume", out |-> OkOutcome,
                    cmd |-> c, sig |-> FALSE, status |-> "ok"]
    /\ report' = NoReport
    /\ UNCHANGED <<cfg, journal, dev, hist>>

\* resume_after_seq, and where the loop starts after skipping up to it.
ResumeSkip(done) == Len(done)
FirstAfter_OneTooFar(done) == Len(done) + 2 \* mutant
FirstAfter(done) == Len(done) + 1

\* The power-cycle flag after a replayed record.
ReplayCycled_AnyStatus(rec) == run.cycled \/ rec.id = "power-cycle" \* mutant
ReplayCycled(rec) ==
    run.cycled \/ (rec.id = "power-cycle" /\ rec.st = "ok")

\* cmd_resume rebuilds the evidence from the completed records of its plan
\* and continues after the last of them.
Replay ==
    /\ run.pc = "replay"
    /\ LET done == journal.done[run.plan] IN
       IF run.idx <= Len(done)
       THEN LET rec == done[run.idx]
                o == [st |-> rec.st, err |-> rec.err]
            IN  run' = [run EXCEPT
                         !.idx = @ + 1, !.cycled = ReplayCycled(rec),
                         !.ev = ApplyOutcome(@, rec.id, o, ReplayCycled(rec))]
       ELSE run' = [run EXCEPT !.pc = "next", !.idx = FirstAfter(done),
                               !.skipTo = ResumeSkip(done),
                               !.cycled = run.ev.cycled]
    /\ UNCHANGED <<cfg, journal, dev, hist, report, used>>

-----------------------------------------------------------------------------
(* The device on its own. *)

EraseProgress ==
    /\ dev.erase = "running"
    /\ \/ /\ dev' = [erase |-> "completed", view |-> "blank",
                     stable |-> "blank"]
          /\ hist' = [hist EXCEPT !.erased = TRUE]
          /\ NoFault
       \/ /\ dev' = IF cfg.backend = "sim" THEN [dev EXCEPT !.erase = "failed"]
                    ELSE [erase |-> "failed", view |-> "mixed", stable |-> "mixed"]
          /\ hist' = hist
          /\ Fault
    /\ UNCHANGED <<cfg, journal, run, report>>

\* A lying device writes its cache back in its own time.
Drain ==
    /\ dev.stable # dev.view
    /\ dev' = [dev EXCEPT !.stable = dev.view]
    /\ UNCHANGED <<cfg, journal, run, hist, report, used>>

-----------------------------------------------------------------------------
\* Steps of nclr itself; calls of the status operation, which waits for one
\* SCSI command of 60 s at most and no other thing; and the calls that run an
\* action, which end when the backend or the operator's command does.
OwnStep == BeginAction \/ Settle \/ SwitchPlan \/ Report \/ Replay
StatusCall == MonitorPoll \/ QueryErase
RunCall ==
    PowerCycle \/ DeviceCall \/ CallFault \/ IssueErase \/ BlockingReturns
ProcessStep == OwnStep \/ StatusCall \/ RunCall

Next == ProcessStep \/ Signal \/ Crash \/ Resume \/ EraseProgress \/ Drain

Spec == Init /\ [][Next]_vars

\* The --power-cycle command of the operator, which nothing limits in time.
AtHook == run.pc = "call" /\ CurrentId = "power-cycle" /\ run.cmd
\* nclr goes on while it lives, and a status call returns.  A call that runs
\* an action returns for certain only at its deadline, where there is one.
\* Nothing is assumed of the device, of the operator and his command, of
\* signals or of a resume.
FairSpec ==
    /\ Spec
    /\ WF_vars(OwnStep \/ StatusCall)
    /\ WF_vars(HasDeadline /\ ~AtHook /\ RunCall)

-----------------------------------------------------------------------------
(* Properties. *)

\* No process stands at an action that writes the medium while the erase may
\* still be running inside the device, except behind a fallback that was taken
\* without a verdict of the device (hist.blind): its backend has no status of
\* an erase, or that status failed.  Every other path from a failed, timed-out
\* or interrupted erase to the overwrite passes the end of the erase.
NoWriteDuringErase ==
    (run.pc = "call" /\ CurrentId \in PatternWrites /\ dev.erase = "running")
        => hist.blind

\* The evidence "erase completed", also when rebuilt by a resume from
\* records, is only ever held if the device completed an erase in this run.
EraseEvidenceSound == run.ev.erased => hist.erased

\* What the result "ok" asserts of the medium.  At C1: a pseudo-random
\* pattern and then zeros were each read back after a power cut that
\* followed their writing, and zeros are on the medium, or what the erase
\* made of them that the run fell back from without a verdict; at C2: the
\* device completed an erase and the medium, not a cache of it, is blank.
OkMeansSanitised ==
    report.result = "ok" =>
        IF report.grade = "C1"
        THEN /\ hist.prbs /\ hist.zero
             /\ dev.stable = "zero" \/ (hist.blind /\ dev.stable = "blank")
        ELSE dev.stable = "blank" /\ hist.erased

\* A device that can be asked is sent at most one erase over the run and all
\* its resumes: never a second one while the first has an unknown fate.
NoBlindReissue == ~hist.reissued

\* The completed actions of a plan are a stretch of its recipe without a gap,
\* a repetition or a swap, over all crashes and resumes.
CompletedInOrder ==
    \A l \in Levels :
        LET ids == [i \in DOMAIN journal.done[l] |-> journal.done[l][i].id]
            recipe == Recipe(l, cfg.aggressive)
        IN  \E k \in 0..Len(recipe) :
               k + Len(ids) <= Len(recipe) /\
               \A i \in DOMAIN ids : ids[i] = recipe[k + i]

\* The completed actions start at the first of the recipe, which is what a
\* resume insists on.
CompletedIsPrefix ==
    \A l \in Levels :
        ExactPrefix(journal.done[l], Recipe(l, cfg.aggressive))

\* A plan without a fallback keeps that, over all crashes and resumes.
C1IsPrefix == cfg.level = "C1" => CompletedIsPrefix
\* What a resume takes from the journal was done in this order: from the
\* start of the recipe where no fallback came between.
RecordsInOrder == CompletedInOrder /\ C1IsPrefix

\* Whatever mix of processes ran the actions, the verdict their evidence
\* yields is the one the durable records yield: a resumed run is graded
\* neither better nor worse than an uninterrupted one.
Recorded ==
    FoldLeft(LAMBDA acc, rec :
                LET cycled == acc.cycled \/ (rec.id = "power-cycle"
                                               /\ rec.st = "ok")
                IN  [cycled |-> cycled,
                     ev |-> ApplyOutcome(acc.ev, rec.id,
                                [st |-> rec.st, err |-> rec.err], cycled)],
             [cycled |-> FALSE, ev |-> FreshEvidence],
             journal.done[run.plan]).ev
ResumeGradeAgrees ==
    run.pc = "next" =>
        /\ Compute(run.plan, run.ev) = Compute(run.plan, Recorded)
        /\ HealthyH2(run.plan, run.ev) = HealthyH2(run.plan, Recorded)

\* Why NoWriteDuringErase holds, by what a running erase excludes, provided
\* no earlier workflow left an erase running to a C1 plan.
AtErase == {"issue", "blocking", "monitor", "query"}
Active == {"replay", "next", "call", "settle", "switch"} \cup AtErase
PositionOK ==
    /\ run.idx >= 1
    /\ run.pc \in {"call", "settle", "switch"} \cup AtErase =>
          run.idx <= Len(CurrentRecipe)
    /\ run.pc \in AtErase => CurrentId = Erase
    /\ run.pc = "call" => CurrentId # Erase
    /\ run.pc = "monitor" => EraseKnown
    /\ run.pc = "query" => run.ctx # "live"
\* A process on the C2 plan holds a journal without a fallback, and has
\* completed just the actions before its position.
JournalOK ==
    run.pc \in Active /\ run.plan = "C2" =>
        /\ ~journal.fb /\ cfg.level = "C2"
        /\ run.pc = "replay" => run.idx <= Len(journal.done["C2"]) + 1
        /\ run.pc # "replay" => run.idx = Len(journal.done["C2"]) + 1
RunningOK ==
    dev.erase = "running" /\ ~hist.blind =>
        /\ ~journal.fb /\ cfg.level = "C2"
        /\ Len(journal.done["C2"]) <= 1
        /\ run.pc \in Active => run.plan = "C2"
        /\ run.pc # "switch"
        /\ (run.pc = "settle" /\ run.idx = 2) => run.out.st = "interrupted"
\* A device whose status answers is never fallen back from without a verdict.
BlindOK == hist.blind => ~EraseKnown \/ StatusMayFail
\* While the erase runs, the journal and the process are where only a status
\* verdict of the device, an interruption, or a fallback without a verdict
\* leads on; and which devices the last can happen to.
EraseInv == TypeOK /\ PositionOK /\ JournalOK /\ RunningOK /\ BlindOK

\* Every process ends, or waits in a call that nothing limits: the operator's
\* power-cycle command, or an action when --backend-timeout is not given.  No
\* wait for the device's own erase, which may never end, is without a way out.
Waits == AtHook \/ (~HasDeadline /\ run.pc \in {"call", "issue", "blocking"})
Terminates == run.pc # "idle" ~> (run.pc = "idle" \/ Waits)
=============================================================================
