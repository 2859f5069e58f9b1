-------------------------- MODULE ControllerEngine --------------------------
(***************************************************************************)
(* The controller backend (nclr-controller.rs): one process per action of  *)
(* a C3 or C4 plan, working on the durable state of the run (`st`, saved   *)
(* atomically: StateStore) and on a controller (`ctl`) that goes on with   *)
(* an accepted operation whether or not the host still runs.               *)
(*                                                                         *)
(* Every step is at most one command or one save, so that a kill falls     *)
(* between any two of them.  The core appears as `plan`: the action the    *)
(* journal lets a resume start with, and how the last attempt ended.       *)
(***************************************************************************)
EXTENDS Integers, Sequences, FiniteSets, FiniteSetsExt, SequencesExt

CONSTANTS
    NBlocks,        \* physical blocks
    Preserved,      \* system blocks the profile preserves
    Rebuilt,        \* system blocks the profile rebuilds
    LevelsRun,      \* levels of the plans to run
    OldTables,      \* bad-block tables the device may start with
    Marked,         \* sets of blocks that may carry a factory marker
    BatchSize,      \* policy.block_batch_size
    EraseRetries,   \* policy.erase_retries
    MinSpare,       \* capacity.minimum_spare_blocks
    SparePercent,   \* capacity.spare_ratio
    BinBlocks,      \* capacity.bin_bytes, in blocks (0: no binning)
    Entries,        \* ways into service mode to run
    MaxFaults,      \* device and transport faults in a behaviour
    MaxKills,       \* backend processes killed in a behaviour
    MaxPowerCuts,   \* power losses of host and device in a behaviour
    MaxResumes,     \* resume commands in a behaviour
    MaxRecovers     \* recover commands in a behaviour

Blocks == 0 .. NBlocks - 1
TableEntries == {"absent", "factory-bad", "historical-rbb", "system-rebuild"}
EntryKinds == [enterReenum : BOOLEAN,    \* policy.enter_reenumerates
               loader : BOOLEAN,         \* policy.service_loader_artifact_id
               loaderReenum : BOOLEAN,   \* policy.loader_reenumerates
               exitReenum : BOOLEAN]     \* policy.exit_reenumerates

ASSUME SizeAssumption ==
    /\ NBlocks \in Nat \ {0} /\ BatchSize \in Nat \ {0}
    /\ {EraseRetries, MinSpare, SparePercent, BinBlocks} \subseteq Nat
ASSUME SystemAssumption ==
    /\ Preserved \subseteq Blocks /\ Rebuilt \subseteq Blocks
    /\ Preserved \cap Rebuilt = {}
ASSUME ScenarioAssumption ==
    /\ LevelsRun \subseteq {"C3", "C4"}
    /\ OldTables \subseteq [Blocks -> TableEntries]
    /\ Marked \subseteq SUBSET (Blocks \ (Preserved \cup Rebuilt))
ASSUME EntryAssumption ==                     \* controller_recipe::validate
    /\ Entries \subseteq EntryKinds
    /\ \A e \in Entries : /\ e.loaderReenum => e.loader
                          /\ e.loader => e.enterReenum
ASSUME BoundAssumption ==
    {MaxFaults, MaxKills, MaxPowerCuts, MaxResumes, MaxRecovers} \subseteq Nat

VARIABLES cfg, plan, st, ctl, proc, hist, used
vars == <<cfg, plan, st, ctl, proc, hist, used>>

-----------------------------------------------------------------------------
(* The values of the variables. *)

C3Actions == <<"inventory", "capture-old-bbt", "enter-service-mode",
    "erase-old-rbb", "qualify-blocks", "final-erase", "rebuild-bbt-ftl",
    "exit-service-mode", "power-cycle", "re-enumeration", "postcheck-c3">>
C4Actions == <<"inventory", "capture-old-bbt", "enter-service-mode",
    "enumerate-blocks", "erase-old-rbb", "erase-data-blocks",
    "qualify-blocks", "final-erase", "verify-physical-erasure",
    "rebuild-bbt-ftl", "exit-service-mode", "power-cycle", "re-enumeration",
    "postcheck-c4">>
EraseActions == {"erase-old-rbb", "erase-data-blocks", "final-erase"}
Actions == IF cfg.level = "C3" THEN C3Actions ELSE C4Actions
Action == Actions[plan.idx]
Finished == plan.idx > Len(Actions)

Dispositions == {"factory-bad", "historical-rbb", "system-preserved",
    "system-rebuild", "data", "erased", "qualified", "quarantined"}
Modes == {"normal", "entry-command-pending", "entry-reenumerating",
    "loader-command-pending", "loader-reenumerating", "in-service",
    "exit-command-pending", "exit-reenumerating"}
MetadataPhases == <<"metadata-prepare-started", "bbt-prepared",
    "ftl-prepared", "capacity-set", "metadata-activated",
    "metadata-commit-verified">>
MetadataOps == <<"prepare-bbt", "prepare-ftl", "set-capacity",
                 "activate-metadata">>
Phases == {"other"} \cup ToSet(MetadataPhases)
Flights == [op : {"none", "erase-block", "program-page"}, blk : Blocks]
NoFlight == [op |-> "none", blk |-> 0]

\* What else the state records (attempts, read metrics, digests, the wording
\* of failures and of the other phases) decides nothing.
RunStates == [mode : Modes, phase : Phases, gen : Nat, user : Nat,
              spare : Nat, flight : Flights, rbb : SUBSET Blocks,
              disp : [Blocks -> Dispositions]]

Contents == {"data", "erased", "pattern", "marker", "system",
             "part"}          \* half an erase: page 0 reads erased
Tables == [gen : Nat, bad : SUBSET Blocks]
Controllers == [mode : {"normal", "bootrom", "service"}, failed : BOOLEAN,
                op : {"none", "erase-block", "program-page"}
                     \cup ToSet(MetadataOps),
                blk : Blocks, content : [Blocks -> Contents],
                prepared : Tables, committed : Tables, cap : Nat]

PCs == {"idle", "start", "answer", "enter-ask", "enter-pending", "enter-send",
        "enter-sent", "enter-load", "enter-pram", "loader-sent",
        "enter-confirm", "scan", "batch", "markers", "old-wait", "old-read",
        "mark", "send", "wait", "read", "flight-wait", "program-mark",
        "program-send", "program-wait", "program-read", "metadata",
        "meta-send", "meta-wait", "meta-save", "meta-verify", "exit-ask",
        "exit-send", "exit-sent", "exit-confirm"}
Answers == {"none", "ok", "partial", "awaiting", "interrupted", "error",
            "refused"}        \* Invalid or Permission, by the durable state
Processes == [pc : PCs, st : RunStates, todo : SUBSET Blocks, done : Nat,
              tries : Nat, bad : BOOLEAN, systemBad : BOOLEAN, res : Answers]

TypeOK ==
    /\ cfg \in [level : {"C3", "C4"}, entry : EntryKinds,
                old : [Blocks -> TableEntries], marked : SUBSET Blocks]
    /\ plan \in [idx : 1 .. Len(C4Actions) + 1, last : Answers]
    /\ st \in RunStates /\ ctl \in Controllers /\ proc \in Processes
    /\ hist \in [programFailed : SUBSET Blocks, cut : BOOLEAN,
                 recovered : BOOLEAN, activated : SUBSET Nat,
                 activatedTwice : BOOLEAN, reentered : BOOLEAN,
                 busySent : BOOLEAN, verified : BOOLEAN]
    /\ used \in [faults : 0 .. MaxFaults, kills : 0 .. MaxKills,
                 cuts : 0 .. MaxPowerCuts, resumes : 0 .. MaxResumes,
                 recovers : 0 .. MaxRecovers]

-----------------------------------------------------------------------------
(* Helpers. *)

SystemBlocks == Preserved \cup Rebuilt
NewState == [mode |-> "normal", phase |-> "other", gen |-> 0, user |-> 0,
             spare |-> 0, flight |-> NoFlight, rbb |-> {},
             disp |-> [b \in Blocks |-> "data"]]
Classified(s) ==
    [s EXCEPT !.disp = [b \in Blocks |->
        IF b \in Preserved THEN "system-preserved"
        ELSE IF b \in Rebuilt THEN "system-rebuild" ELSE s.disp[b]]]
WithDisposition(s, b, d) == [s EXCEPT !.disp[b] = d]
Landed(s) == [s EXCEPT !.flight = NoFlight]
Among(s, ds) == {b \in Blocks : s.disp[b] \in ds}
\* The blocks a new table lists (build_bbt).
Listed(s) == Among(s, {"factory-bad", "historical-rbb", "quarantined",
                       "system-preserved", "system-rebuild"})
PhaseIndex_Ahead(s) == CHOOSE i \in 0 .. Len(MetadataPhases) :      \* mutant
    IF s.phase = "other" THEN i = 0
    ELSE IF s.phase = "metadata-commit-verified" THEN i = 6
    ELSE i > 1 /\ MetadataPhases[i - 1] = s.phase
PhaseIndex(s) == CHOOSE i \in 0 .. Len(MetadataPhases) :
    IF s.phase = "other" THEN i = 0
    ELSE i > 0 /\ MetadataPhases[i] = s.phase

NoFault == UNCHANGED used
Fault == /\ used.faults < MaxFaults
         /\ used' = [used EXCEPT !.faults = @ + 1]

Goto(pc) == proc' = [proc EXCEPT !.pc = pc]
Work(pc, s) == proc' = [proc EXCEPT !.pc = pc, !.st = s]
Save(pc, s) == st' = s /\ Work(pc, s)
Answer(res) == proc' = [proc EXCEPT !.pc = "answer", !.res = res]
SaveAndAnswer(s, res) ==
    /\ st' = s
    /\ proc' = [proc EXCEPT !.pc = "answer", !.st = s, !.res = res]

Busy == ctl.op # "none"
Idle == ~Busy /\ ~ctl.failed

-----------------------------------------------------------------------------
(* The controller. *)

\* A table may omit a marked block only for a C4 plan, which looks for the
\* markers; every factory-bad entry has its marker.
OldTable == [b \in Blocks |-> cfg.old[b]]
InTable(d) == {b \in Blocks : OldTable[b] = d}

Init ==
    /\ cfg \in [level : LevelsRun, entry : Entries, old : OldTables,
                marked : Marked]
    /\ InTable("factory-bad") \subseteq cfg.marked
    /\ cfg.level = "C3" => cfg.marked \subseteq InTable("factory-bad")
    /\ plan = [idx |-> 1, last |-> "none"]
    /\ st = NewState
    /\ ctl = [mode |-> "normal", failed |-> FALSE, op |-> "none", blk |-> 0,
              content |-> [b \in Blocks |->
                  IF b \in cfg.marked THEN "marker"
                  ELSE IF b \in SystemBlocks THEN "system" ELSE "data"],
              prepared |-> [gen |-> 0, bad |-> {}],
              committed |-> [gen |-> 0,
                             bad |-> {b \in Blocks : cfg.old[b] # "absent"}],
              cap |-> 0]
    /\ proc = [pc |-> "start", st |-> NewState, todo |-> {}, done |-> 0,
               tries |-> 0, bad |-> FALSE, systemBad |-> FALSE,
               res |-> "none"]
    /\ hist = [programFailed |-> {}, cut |-> FALSE, recovered |-> FALSE,
               activated |-> {}, activatedTwice |-> FALSE,
               reentered |-> FALSE, busySent |-> FALSE, verified |-> FALSE]
    /\ used = [faults |-> 0, kills |-> 0, cuts |-> 0, resumes |-> 0,
               recovers |-> 0]

\* A physical or metadata command needs an idle controller in service mode;
\* any accepted command clears the failure of the one before.
Accepts == ~Busy /\ ctl.mode = "service"
Accepted(op, b) ==
    [ctl EXCEPT !.op = op, !.blk = b, !.failed = FALSE,
         !.prepared = IF op = "prepare-bbt"
                      THEN [gen |-> proc.st.gen, bad |-> Listed(proc.st)]
                      ELSE @,
         !.cap = IF op = "set-capacity" THEN proc.st.user ELSE @]

\* An accepted operation ends on its own: done, failed, or done badly.
Finish ==
    /\ Busy
    /\ LET done == [ctl EXCEPT !.op = "none"]
       IN  \/ /\ NoFault
              /\ ctl' = CASE ctl.op = "erase-block" ->
                               [done EXCEPT !.content[ctl.blk] = "erased"]
                          [] ctl.op = "program-page" ->
                               [done EXCEPT !.content[ctl.blk] = "pattern"]
                          [] ctl.op = "activate-metadata" ->
                               [done EXCEPT !.committed = ctl.prepared]
                          [] OTHER -> done
              /\ UNCHANGED hist
           \/ /\ Fault
              /\ ctl' = [done EXCEPT !.failed = TRUE]
              /\ hist' = [hist EXCEPT !.programFailed =
                    IF ctl.op = "program-page" THEN @ \cup {ctl.blk} ELSE @]
           \/ /\ ctl.op \in {"erase-block", "program-page"}
              /\ Fault /\ UNCHANGED hist
              /\ \E c \in {ctl.content[ctl.blk], "part"} :
                   /\ c = "part" => ctl.op = "erase-block"
                   /\ ctl' = [done EXCEPT !.content[ctl.blk] = c]
    /\ UNCHANGED <<cfg, plan, st, proc>>

-----------------------------------------------------------------------------
(* One command: its answer, its loss, its refusal. *)

\* execute_named of a command that changes the medium.  A controller that
\* does not accept it answers CHECK CONDITION, an Io error; so does a lost
\* answer: ambiguous_transport makes both an interruption.
Command(op, b, next) ==
    /\ hist' = [hist EXCEPT !.busySent = @ \/ Busy,
          !.activatedTwice = @ \/ (op = "activate-metadata" /\ Accepts
                                     /\ proc.st.gen \in hist.activated),
          !.activated = IF op = "activate-metadata" /\ Accepts
                        THEN @ \cup {proc.st.gen} ELSE @]
    /\ \/ Accepts /\ NoFault /\ ctl' = Accepted(op, b) /\ Goto(next)
       \/ Accepts /\ Fault /\ ctl' = Accepted(op, b) /\ Answer("interrupted")
       \/ ~Accepts /\ NoFault /\ UNCHANGED ctl /\ Answer("interrupted")
    /\ UNCHANGED st

\* wait_controller_idle: the branch of an idle controller, the branch of a
\* failed one, and the deadline that finds it busy.
WaitIdle(idle, failed) ==
    /\ \/ ~Busy /\ ~ctl.failed /\ NoFault /\ idle
       \/ ctl.failed /\ NoFault /\ failed
       \/ /\ Busy /\ ~ctl.failed /\ Fault
          /\ Answer("interrupted") /\ UNCHANGED st
    /\ UNCHANGED <<ctl, hist>>

\* command_idle on an answer just read.
WhenIdle(then) ==
    /\ \/ Idle /\ then
       \/ Busy /\ Answer("interrupted") /\ UNCHANGED st
       \/ ~Busy /\ ctl.failed /\ Answer("error") /\ UNCHANGED st
    /\ NoFault /\ UNCHANGED <<ctl, hist>>

Wrapped == {"old-wait", "send", "wait", "flight-wait", "program-send",
            "program-wait", "program-read", "enter-send", "enter-pram",
            "exit-send", "meta-send", "meta-wait"}
Commanding == Wrapped \cup {"enter-ask", "enter-pending", "enter-load",
    "enter-confirm", "old-read", "read", "markers", "meta-verify",
    "exit-ask", "exit-confirm"}
\* The transport fails before the controller sees the command.  Where
\* ambiguous_transport wraps the call the action is interrupted.
TransportFails ==
    /\ proc.pc \in Commanding
    /\ Fault
    /\ Answer(IF proc.pc \in Wrapped THEN "interrupted" ELSE "error")
    /\ UNCHANGED <<cfg, plan, st, ctl, hist>>

-----------------------------------------------------------------------------
(* A backend process. *)

\* Which blocks an action works on (execute_action's filters).
Targets(s) ==
    CASE Action = "erase-old-rbb"     -> s.rbb
      [] Action = "erase-data-blocks" -> Among(s, {"data", "system-rebuild"})
      [] Action = "qualify-blocks"    -> Among(s, {"data", "erased"})
      [] Action = "final-erase"       ->
           Among(s, {"qualified", "quarantined", "historical-rbb"})

Begin(pc, s, todo) ==
    proc' = [proc EXCEPT !.pc = pc, !.st = s, !.todo = todo, !.done = 0,
                         !.tries = 0, !.bad = FALSE, !.systemBad = FALSE]
Ready == proc.pc = "start" /\ ~Finished
\* A backend loads what the last one saved.
On(action) == Ready /\ Action = action

Inventory ==
    /\ On("inventory")
    /\ WhenIdle(SaveAndAnswer([Classified(st) EXCEPT
                    !.gen = ctl.committed.gen, !.phase = "other"], "ok"))
    /\ UNCHANGED <<cfg, plan>>

\* capture-old-bbt refuses a table that disagrees with the profile about the
\* system blocks, and takes the others from it.
CaptureOldBbt ==
    /\ On("capture-old-bbt")
    /\ LET s == Classified(st)
           agrees == /\ InTable("system-rebuild") \subseteq SystemBlocks
                     /\ \A b \in SystemBlocks :
                          OldTable[b] \in {"absent", "system-rebuild"}
       IN  IF ~agrees THEN Answer("error") /\ UNCHANGED st
           ELSE SaveAndAnswer([s EXCEPT
                  !.disp = [b \in Blocks |->
                      IF b \in SystemBlocks \/ OldTable[b] = "absent"
                      THEN s.disp[b] ELSE OldTable[b]],
                  !.rbb = InTable("historical-rbb")
                            \cup (s.rbb \cap InTable("absent")),
                  !.phase = "other"], "ok")
    /\ NoFault /\ UNCHANGED <<cfg, plan, ctl, hist>>

\* enumerate-blocks: one step is one saved batch; proc.done counts blocks.
BeginEnumerate ==
    /\ On("enumerate-blocks")
    /\ NoFault /\ Begin("batch", Classified(st), Blocks)
    /\ UNCHANGED <<cfg, plan, st, ctl, hist>>
Marker_Unread(b) == FALSE                                           \* mutant
Marker(b) == ctl.content[b] = "marker"
EnumerateBatch ==
    /\ proc.pc = "batch" /\ Action = "enumerate-blocks"
    /\ LET seen == {b \in Blocks : b < proc.done + BatchSize}
           new == seen \ SystemBlocks
           conflict == \E b \in new :
               \/ proc.st.disp[b] = "factory-bad" /\ ~Marker(b)
               \/ b \in proc.st.rbb /\ Marker(b)
           s == [proc.st EXCEPT !.phase = "other",
                   !.disp = [b \in Blocks |-> IF b \in new /\ Marker(b)
                                              THEN "factory-bad" ELSE @[b]]]
       IN  IF conflict \/ ctl.mode # "service" \/ Busy
           THEN Answer("error") /\ UNCHANGED st
           ELSE IF seen = Blocks THEN SaveAndAnswer(s, "ok")
           ELSE /\ st' = s
                /\ proc' = [proc EXCEPT !.st = s, !.done = @ + BatchSize]
    /\ NoFault /\ UNCHANGED <<cfg, plan, ctl, hist>>

-----------------------------------------------------------------------------
(* Service mode. *)

\* enter-service-mode picks up where the durable mode says it stopped.
BeginEnter ==
    /\ On("enter-service-mode")
    /\ NoFault
    /\ Begin(CASE st.mode = "normal" -> "enter-ask"
               [] st.mode = "entry-command-pending" -> "enter-pending"
               [] st.mode \in {"entry-reenumerating",
                               "loader-command-pending"} -> "enter-load"
               [] OTHER -> "enter-confirm", st, {})
    /\ UNCHANGED <<cfg, plan, st, ctl, hist>>
EnterAsk ==
    /\ proc.pc = "enter-ask"
    /\ WhenIdle(IF ctl.mode = "service"
                THEN Work("enter-confirm", [st EXCEPT !.mode = "in-service"])
                       /\ UNCHANGED st
                ELSE Save("enter-pending",
                          [st EXCEPT !.mode = "entry-command-pending",
                                     !.phase = "other"]))
    /\ UNCHANGED <<cfg, plan>>
\* The entry command may have been sent: is the controller there already?
EnterPending ==
    /\ proc.pc = "enter-pending"
    /\ LET entered == Save("enter-load",
                           [proc.st EXCEPT !.mode = "entry-reenumerating"])
           pending == Goto("enter-send") /\ UNCHANGED st
       IN  IF cfg.entry.loader
           THEN /\ IF ctl.mode = "bootrom" THEN entered ELSE pending
                /\ NoFault /\ UNCHANGED <<ctl, hist>>
           ELSE WhenIdle(IF ctl.mode = "service" THEN entered ELSE pending)
    /\ UNCHANGED <<cfg, plan>>
EnterSend ==
    /\ proc.pc = "enter-send"
    /\ hist' = [hist EXCEPT !.reentered = @ \/ ctl.mode # "normal"]
    /\ IF Busy THEN NoFault /\ UNCHANGED ctl /\ Answer("interrupted")
       ELSE /\ ctl' = [ctl EXCEPT !.failed = FALSE,
                  !.mode = IF @ # "normal" THEN @
                           ELSE IF cfg.entry.loader THEN "bootrom"
                                                    ELSE "service"]
            /\ \/ Fault /\ Answer("interrupted")
               \/ /\ NoFault
                  /\ Goto(IF cfg.entry.enterReenum THEN "enter-sent"
                                                   ELSE "enter-confirm")
    /\ UNCHANGED <<cfg, plan, st>>
EnterSent ==
    /\ proc.pc = "enter-sent"
    /\ SaveAndAnswer([proc.st EXCEPT !.mode = "entry-reenumerating",
                                     !.phase = "other"], "awaiting")
    /\ NoFault /\ UNCHANGED <<cfg, plan, ctl, hist>>
\* A Phison boot ROM needs its loader; its own mode page says where it is.
EnterLoad_Unsaved ==                                                \* mutant
    /\ proc.pc = "enter-load"
    /\ IF ~cfg.entry.loader THEN Goto("enter-confirm")
       ELSE IF ctl.mode = "bootrom" THEN Goto("enter-pram")
       ELSE Answer("refused")
    /\ NoFault /\ UNCHANGED <<cfg, plan, st, ctl, hist>>
EnterLoad ==
    /\ proc.pc = "enter-load"
    /\ CASE ~cfg.entry.loader -> Goto("enter-confirm") /\ UNCHANGED st
         [] cfg.entry.loader /\ ctl.mode = "bootrom" ->
              IF cfg.entry.loaderReenum
              THEN Save("enter-pram",
                        [proc.st EXCEPT !.mode = "loader-command-pending",
                                        !.phase = "other"])
              ELSE Goto("enter-pram") /\ UNCHANGED st
         [] cfg.entry.loader /\ ctl.mode # "bootrom" ->
              /\ IF proc.st.mode = "loader-command-pending"
                 THEN Goto("enter-confirm") ELSE Answer("refused")
              /\ UNCHANGED st
    /\ NoFault /\ UNCHANGED <<cfg, plan, ctl, hist>>
EnterPram ==
    /\ proc.pc = "enter-pram"
    /\ ctl' = [ctl EXCEPT !.mode = IF @ = "bootrom" THEN "service" ELSE @]
    /\ \/ Fault /\ Answer("interrupted")
       \/ NoFault /\ Goto(IF cfg.entry.loaderReenum THEN "loader-sent"
                                                    ELSE "enter-confirm")
    /\ UNCHANGED <<cfg, plan, st, hist>>
LoaderSent ==
    /\ proc.pc = "loader-sent"
    /\ SaveAndAnswer([proc.st EXCEPT !.mode = "loader-reenumerating",
                                     !.phase = "other"], "awaiting")
    /\ NoFault /\ UNCHANGED <<cfg, plan, ctl, hist>>
EnterConfirm ==
    /\ proc.pc = "enter-confirm"
    /\ WaitIdle(IF ctl.mode = "service"
                THEN SaveAndAnswer([proc.st EXCEPT !.mode = "in-service",
                                                   !.phase = "other"], "ok")
                ELSE Answer("refused") /\ UNCHANGED st,
                Answer("error") /\ UNCHANGED st)
    /\ UNCHANGED <<cfg, plan>>

\* exit-service-mode, the same way back.
BeginExit ==
    /\ On("exit-service-mode")
    /\ NoFault /\ UNCHANGED <<cfg, plan, ctl, hist>>
    /\ CASE st.mode = "in-service" ->
              /\ st' = [st EXCEPT !.mode = "exit-command-pending",
                                  !.phase = "other"]
              /\ Begin("exit-ask", st', {})
         [] st.mode = "exit-command-pending" ->
              Begin("exit-ask", st, {}) /\ UNCHANGED st
         [] st.mode \in {"exit-reenumerating", "normal"} ->
              Begin("exit-confirm", st, {}) /\ UNCHANGED st
         [] OTHER -> Answer("refused") /\ UNCHANGED st
ExitAsk ==
    /\ proc.pc = "exit-ask"
    /\ WhenIdle(Goto(IF ctl.mode # "normal" THEN "exit-send"
                                            ELSE "exit-confirm")
                  /\ UNCHANGED st)
    /\ UNCHANGED <<cfg, plan>>
ExitSend ==
    /\ proc.pc = "exit-send"
    /\ ctl' = [ctl EXCEPT !.mode = "normal", !.failed = FALSE]
    /\ \/ Fault /\ Answer("interrupted")
       \/ NoFault /\ Goto(IF cfg.entry.exitReenum THEN "exit-sent"
                                                  ELSE "exit-confirm")
    /\ UNCHANGED <<cfg, plan, st, hist>>
ExitSent ==
    /\ proc.pc = "exit-sent"
    /\ SaveAndAnswer([proc.st EXCEPT !.mode = "exit-reenumerating",
                                     !.phase = "other"], "awaiting")
    /\ NoFault /\ UNCHANGED <<cfg, plan, ctl, hist>>
ExitConfirm ==
    /\ proc.pc = "exit-confirm"
    /\ WaitIdle(IF ctl.mode = "normal"
                THEN SaveAndAnswer([proc.st EXCEPT !.mode = "normal",
                                                   !.phase = "other"], "ok")
                ELSE Answer("refused") /\ UNCHANGED st,
                Answer("error") /\ UNCHANGED st)
    /\ UNCHANGED <<cfg, plan>>

-----------------------------------------------------------------------------
(* Erasing blocks: erase_one under erase-old-rbb, erase-data-blocks,       *)
(* final-erase and, once per pattern, qualify-blocks.                      *)

InService(then) == IF st.mode = "in-service" THEN then
                   ELSE Answer("refused") /\ UNCHANGED st
BeginErase ==
    /\ Ready /\ Action \in EraseActions
    /\ InService(LET s == Classified(st)
                 IN  Begin("scan", s, Targets(s)) /\ UNCHANGED st)
    /\ NoFault /\ UNCHANGED <<cfg, plan, ctl, hist>>

Block == Min(proc.todo)
InFlight(op) == proc.st.flight = [op |-> op, blk |-> Block]
\* On to the next block, after a save at the end of a batch.
Advance(s, bad, systemBad) ==
    proc' = [proc EXCEPT !.st = s, !.todo = @ \ {Block}, !.done = @ + 1,
        !.tries = 0, !.bad = @ \/ bad, !.systemBad = @ \/ systemBad,
        !.pc = IF (proc.done + 1) % BatchSize = 0 THEN "batch" ELSE "scan"]
ErasedAs(d) == CASE Action = "final-erase" -> d
                 [] d = "system-rebuild"   -> d
                 [] Block \in proc.st.rbb  -> "historical-rbb"
                 [] OTHER                  -> "erased"
EraseSucceeded(s) ==
    IF Action = "qualify-blocks"
    THEN Work("program-mark", Landed(s))
    ELSE Advance(WithDisposition(Landed(s), Block, ErasedAs(s.disp[Block])),
               FALSE, FALSE)
\* A block that cannot be erased is quarantined, a system block kept.
EraseGaveUp(s) ==
    LET system == s.disp[Block] = "system-rebuild"
    IN  Advance(WithDisposition(Landed(s), Block,
                  IF system THEN "system-rebuild" ELSE "quarantined"),
              TRUE, system)
\* The controller reports a failed erase: no block is in flight any more.
EraseFailed ==
    /\ st' = Landed(proc.st)
    /\ IF Action = "qualify-blocks"
       THEN proc' = [proc EXCEPT !.pc = "answer", !.res = "error"]
       ELSE EraseGaveUp(proc.st)

\* An erase of this block was in flight when the last process died: wait
\* for it and look before erasing again.
Scan ==
    /\ proc.pc = "scan" /\ proc.todo # {}
    /\ Goto(IF InFlight("erase-block") THEN "old-wait" ELSE "mark")
    /\ NoFault /\ UNCHANGED <<cfg, plan, st, ctl, hist>>
OldWait ==
    /\ proc.pc = "old-wait"
    /\ WaitIdle(Goto("old-read") /\ UNCHANGED st, EraseFailed)
    /\ UNCHANGED <<cfg, plan>>
PageZeroErased == ctl.content[Block] \in {"erased", "part"}
OldRead ==
    /\ proc.pc = "old-read"
    /\ IF ctl.mode # "service" \/ Busy THEN Answer("error") /\ UNCHANGED st
       ELSE IF PageZeroErased
            THEN st' = Landed(proc.st) /\ EraseSucceeded(proc.st)
            ELSE Goto("mark") /\ UNCHANGED st
    /\ NoFault /\ UNCHANGED <<cfg, plan, ctl, hist>>
Mark ==
    /\ proc.pc = "mark"
    /\ Save("send", [proc.st EXCEPT
                        !.flight = [op |-> "erase-block", blk |-> Block]])
    /\ NoFault /\ UNCHANGED <<cfg, plan, ctl, hist>>
Send ==
    /\ proc.pc = "send"
    /\ Command("erase-block", Block, "wait")
    /\ UNCHANGED <<cfg, plan>>
Wait ==
    /\ proc.pc = "wait"
    /\ WaitIdle(Goto("read") /\ UNCHANGED st, EraseFailed)
    /\ UNCHANGED <<cfg, plan>>
Read ==
    /\ proc.pc = "read"
    /\ CASE ctl.mode # "service" -> Answer("error")
         [] ctl.mode = "service" /\ PageZeroErased -> EraseSucceeded(proc.st)
         [] ctl.mode = "service" /\ ~PageZeroErased ->
              IF proc.tries < EraseRetries
              THEN proc' = [proc EXCEPT !.pc = "mark", !.tries = @ + 1]
              ELSE EraseGaveUp(proc.st)
    /\ NoFault /\ UNCHANGED <<cfg, plan, st, ctl, hist>>
SaveBatch ==
    /\ proc.pc = "batch" /\ Action # "enumerate-blocks"
    /\ Save("scan", [proc.st EXCEPT !.phase = "other"])
    /\ NoFault /\ UNCHANGED <<cfg, plan, ctl, hist>>
EndErase ==
    /\ proc.pc = "scan" /\ proc.todo = {} /\ Action \in EraseActions
    /\ LET s == [proc.st EXCEPT !.phase = "other"]
       IN  IF proc.systemBad THEN SaveAndAnswer(s, "error")
           ELSE IF Action = "final-erase" THEN Save("markers", s)
           ELSE SaveAndAnswer(s, IF proc.bad THEN "partial" ELSE "ok")
    /\ NoFault /\ UNCHANGED <<cfg, plan, ctl, hist>>
\* verify_factory_markers closes final-erase.
Markers ==
    /\ proc.pc = "markers"
    /\ Answer(IF \/ ctl.mode # "service" \/ Busy
                 \/ \E b \in Among(proc.st, {"factory-bad"}) : ~Marker(b)
              THEN "error"
              ELSE IF proc.bad THEN "partial" ELSE "ok")
    /\ NoFault /\ UNCHANGED <<cfg, plan, st, ctl, hist>>

-----------------------------------------------------------------------------
(* qualify-blocks: erase, program, read back and compare, block by block;  *)
(* one step stands for the pages of one pattern, the patterns being alike. *)

BeginQualify ==
    /\ On("qualify-blocks")
    /\ InService(CASE st.flight.op = "none" ->
                        Begin("scan", st, Targets(st))
                   [] st.flight.op = "program-page" ->
                        Begin("flight-wait", st, {})
                   [] st.flight.op = "erase-block" -> Answer("refused"))
    /\ NoFault /\ UNCHANGED <<cfg, plan, st, ctl, hist>>
\* A program was in flight: its verdict must not be lost.
FlightWait_Forgets ==                                               \* mutant
    /\ proc.pc = "flight-wait" /\ NoFault
    /\ st' = Landed(proc.st) /\ Begin("scan", st', Targets(st'))
    /\ UNCHANGED <<cfg, plan, ctl, hist>>
FlightWait ==
    /\ proc.pc = "flight-wait"
    /\ LET Resumed(s) == st' = Landed(s) /\ Begin("scan", st', Targets(st'))
       IN  WaitIdle(Resumed(proc.st),
                    Resumed(WithDisposition(proc.st, proc.st.flight.blk,
                                            "quarantined")))
    /\ UNCHANGED <<cfg, plan>>
ProgramMark ==
    /\ proc.pc = "program-mark"
    /\ Save("program-send", [proc.st EXCEPT
                 !.flight = [op |-> "program-page", blk |-> Block]])
    /\ NoFault /\ UNCHANGED <<cfg, plan, ctl, hist>>
ProgramSend ==
    /\ proc.pc = "program-send"
    /\ Command("program-page", Block, "program-wait")
    /\ UNCHANGED <<cfg, plan>>
Qualified(d) == Advance(WithDisposition(Landed(proc.st), Block, d),
                        d = "quarantined", FALSE)
ProgramWait ==
    /\ proc.pc = "program-wait"
    /\ WaitIdle(Goto("program-read") /\ UNCHANGED st,
                Qualified("quarantined") /\ UNCHANGED st)
    /\ UNCHANGED <<cfg, plan>>
\* A page that compares, or differs, or needed too much of the ECC.
ProgramRead ==
    /\ proc.pc = "program-read"
    /\ \/ /\ ctl.mode # "service" /\ NoFault
          /\ Answer("interrupted")
       \/ /\ ctl.mode = "service" /\ ctl.content[Block] = "pattern"
          /\ NoFault /\ Qualified("qualified")
       \/ /\ ctl.mode = "service" /\ ctl.content[Block] # "pattern"
          /\ NoFault /\ Qualified("quarantined")
       \/ /\ ctl.mode = "service"
          /\ Fault /\ Qualified("quarantined")
    /\ UNCHANGED <<cfg, plan, st, ctl, hist>>
EndQualify ==
    /\ proc.pc = "scan" /\ proc.todo = {} /\ Action = "qualify-blocks"
    /\ SaveAndAnswer([proc.st EXCEPT !.phase = "other"], "ok")
    /\ NoFault /\ UNCHANGED <<cfg, plan, ctl, hist>>

-----------------------------------------------------------------------------
(* verify-physical-erasure: every page of every block is read; all that    *)
(* the state does not set apart must be erased throughout.                 *)

SweptClean(s) ==
    \A b \in Blocks \ Among(s, {"factory-bad", "system-preserved"}) :
       ctl.content[b] = "erased"
VerifyErasure ==
    /\ On("verify-physical-erasure")
    /\ IF st.mode # "in-service"
       THEN NoFault /\ Answer("refused") /\ UNCHANGED <<st, hist>>
       ELSE \E readable \in BOOLEAN :
            LET s == [Classified(st) EXCEPT !.phase = "other"]
                clean == SweptClean(s) /\ readable
            IN  /\ IF readable THEN ctl.mode = "service" /\ ~Busy /\ NoFault
                   ELSE IF ctl.mode = "service" /\ ~Busy THEN Fault
                   ELSE NoFault
                /\ SaveAndAnswer(s, IF clean THEN "ok" ELSE "partial")
                /\ hist' = [hist EXCEPT !.verified = clean]
    /\ UNCHANGED <<cfg, plan, ctl>>

-----------------------------------------------------------------------------
(* rebuild-bbt-ftl: a transaction of four commands, resumed at the phase   *)
(* that was saved last.                                                    *)

Max2(a, b) == IF a > b THEN a ELSE b
Qualifieds(s) == Cardinality(Among(s, {"qualified"}))
SpareOf(s) ==
    LET bad == Cardinality(Among(s, {"quarantined", "historical-rbb"}))
        ratio == (Qualifieds(s) * SparePercent + 99) \div 100
    IN  Max2(Max2(MinSpare, ratio), bad + 1)
\* Negative: too few qualified blocks.
UserOf(s) ==
    LET user == Qualifieds(s) - SpareOf(s)
    IN  IF BinBlocks = 0 \/ user < 0 THEN user
        ELSE (user \div BinBlocks) * BinBlocks

Enough(user) == user > 0
BeginRebuild ==
    /\ On("rebuild-bbt-ftl")
    /\ LET user == UserOf(st)
           spare == SpareOf(st)
           i == PhaseIndex(st)
           fresh == [st EXCEPT !.gen = ctl.committed.gen + 1,
                               !.user = user, !.spare = spare,
                               !.phase = "metadata-prepare-started"]
       IN  CASE st.mode # "in-service" ->
                  Answer("refused") /\ NoFault /\ UNCHANGED <<st, ctl, hist>>
             [] st.mode = "in-service" /\ ~Enough(user) ->
                  Answer("error") /\ NoFault /\ UNCHANGED <<st, ctl, hist>>
             [] st.mode = "in-service" /\ Enough(user) /\ i > 0 ->
                  /\ IF st.gen = 0 \/ st.user # user \/ st.spare # spare
                     THEN Answer("refused")
                     ELSE proc' = [proc EXCEPT !.pc = "metadata", !.st = st,
                                               !.tries = i]
                  /\ NoFault /\ UNCHANGED <<st, ctl, hist>>
             [] st.mode = "in-service" /\ Enough(user) /\ i = 0 ->
                  WhenIdle(st' = fresh
                    /\ proc' = [proc EXCEPT !.pc = "metadata", !.st = fresh,
                                            !.tries = 1])
    /\ UNCHANGED <<cfg, plan>>

\* Activation may have been done before its answer was lost: the committed
\* generation is read before the command is sent again.
AlreadyCommitted_Unread == FALSE                                    \* mutant
AlreadyCommitted == ctl.committed.gen = proc.st.gen
\* proc.tries is the command of the transaction that comes next.
Metadata ==
    /\ proc.pc = "metadata"
    /\ CASE proc.tries < 4 ->
              Goto("meta-send") /\ NoFault /\ UNCHANGED <<st, ctl, hist>>
         [] proc.tries = 4 ->
              WaitIdle(Goto(IF AlreadyCommitted THEN "meta-save"
                                                ELSE "meta-send")
                         /\ UNCHANGED st,
                       Answer("error") /\ UNCHANGED st)
         [] proc.tries > 4 ->
              Goto("meta-verify") /\ NoFault /\ UNCHANGED <<st, ctl, hist>>
    /\ UNCHANGED <<cfg, plan>>
MetaSend ==
    /\ proc.pc = "meta-send"
    /\ Command(MetadataOps[proc.tries], 0, "meta-wait")
    /\ UNCHANGED <<cfg, plan>>
MetaWait ==
    /\ proc.pc = "meta-wait"
    /\ WaitIdle(Goto("meta-save") /\ UNCHANGED st,
                Answer("error") /\ UNCHANGED st)
    /\ UNCHANGED <<cfg, plan>>
MetaSave ==
    /\ proc.pc = "meta-save"
    /\ LET s == [proc.st EXCEPT !.phase = MetadataPhases[proc.tries + 1]]
       IN  /\ st' = s
           /\ proc' = [proc EXCEPT !.pc = "metadata", !.st = s,
                                   !.tries = @ + 1]
    /\ NoFault /\ UNCHANGED <<cfg, plan, ctl, hist>>
\* The committed table is read back and compared with the dispositions.
MetaVerify ==
    /\ proc.pc = "meta-verify"
    /\ WhenIdle(IF ctl.committed = [gen |-> proc.st.gen,
                                    bad |-> Listed(proc.st)]
                THEN SaveAndAnswer([proc.st EXCEPT
                         !.phase = "metadata-commit-verified"], "ok")
                ELSE Answer("refused") /\ UNCHANGED st)
    /\ UNCHANGED <<cfg, plan>>

\* The nonce of a re-enumeration is echoed; the controller is not asked.
ReEnumeration ==
    /\ On("re-enumeration")
    /\ Answer("ok") /\ NoFault /\ UNCHANGED <<cfg, plan, st, ctl, hist>>
Postcheck ==
    /\ Ready /\ Action \in {"postcheck-c3", "postcheck-c4"}
    /\ WhenIdle(Answer(IF ctl.mode = "normal" THEN "ok" ELSE "partial")
                  /\ UNCHANGED st)
    /\ UNCHANGED <<cfg, plan>>

-----------------------------------------------------------------------------
(* The core around the backend: the journal's action-completed record, the *)
(* re-enumeration in between, interruptions, resume and recover.           *)

Unpowered(c) == [c EXCEPT !.mode = "normal", !.op = "none", !.failed = FALSE]
Stop(last) ==
    /\ plan' = [plan EXCEPT !.last = last]
    /\ proc' = [proc EXCEPT !.pc = "idle", !.res = "none"]
PowerCycle ==
    /\ On("power-cycle")
    /\ ctl' = Unpowered(ctl)
    /\ Answer("ok") /\ NoFault /\ UNCHANGED <<cfg, plan, st, hist>>
Recorded ==
    /\ proc.pc = "answer"
    /\ CASE proc.res \in {"ok", "partial"} ->
              /\ plan' = [idx |-> plan.idx + 1, last |-> "ok"]
              /\ Goto("start")
         [] proc.res = "awaiting" -> Goto("start") /\ UNCHANGED plan
         [] OTHER -> Stop(proc.res)
    /\ NoFault /\ UNCHANGED <<cfg, st, ctl, hist>>
Done == Finished /\ proc.pc = "start" /\ UNCHANGED vars

Kill ==
    /\ proc.pc \notin {"idle"} /\ ~Finished
    /\ used.kills < MaxKills /\ used' = [used EXCEPT !.kills = @ + 1]
    /\ Stop("none")
    /\ UNCHANGED <<cfg, st, ctl, hist>>
\* An erase loses its power half done.
PowerCut ==
    /\ ~Finished
    /\ used.cuts < MaxPowerCuts /\ used' = [used EXCEPT !.cuts = @ + 1]
    /\ Stop("none")
    /\ \E c \in {ctl.content[ctl.blk], "part"} :
         /\ c = "part" => ctl.op = "erase-block"
         /\ ctl' = Unpowered([ctl EXCEPT !.content[ctl.blk] = c])
    /\ hist' = [hist EXCEPT !.cut = TRUE]
    /\ UNCHANGED <<cfg, st>>
Resume ==
    /\ proc.pc = "idle" /\ ~Finished
    /\ used.resumes < MaxResumes
    /\ used' = [used EXCEPT !.resumes = @ + 1]
    /\ Goto("start")
    /\ UNCHANGED <<cfg, plan, st, ctl, hist>>

\* recover_controller, for a profile with an automated reset.
Recover ==
    /\ proc.pc = "idle" /\ ~Finished
    /\ used.recovers < MaxRecovers
    /\ used' = [used EXCEPT !.recovers = @ + 1]
    /\ ~Busy
    /\ st.phase = "metadata-activated" => ctl.committed.gen = st.gen
    /\ st' = [st EXCEPT !.mode = "normal", !.phase = "other",
                        !.flight = NoFlight]
    /\ ctl' = Unpowered(ctl)
    /\ hist' = [hist EXCEPT !.recovered = TRUE]
    /\ UNCHANGED <<cfg, plan, proc>>

ServiceNext == \/ BeginEnter \/ EnterAsk \/ EnterPending \/ EnterSend
               \/ EnterSent \/ EnterLoad \/ EnterPram \/ LoaderSent
               \/ EnterConfirm \/ BeginExit \/ ExitAsk \/ ExitSend
               \/ ExitSent \/ ExitConfirm
EraseNext == \/ BeginErase \/ Scan \/ OldWait \/ OldRead \/ Mark \/ Send
             \/ Wait \/ Read \/ SaveBatch \/ EndErase \/ Markers
QualifyNext == \/ BeginQualify \/ FlightWait \/ ProgramMark \/ ProgramSend
               \/ ProgramWait \/ ProgramRead \/ EndQualify
RebuildNext == BeginRebuild \/ Metadata \/ MetaSend \/ MetaWait \/ MetaSave
               \/ MetaVerify
ReadNext == \/ Inventory \/ CaptureOldBbt \/ BeginEnumerate
            \/ EnumerateBatch \/ VerifyErasure \/ ReEnumeration \/ Postcheck
Environment == Finish \/ TransportFails \/ Kill \/ PowerCut
CoreNext == PowerCycle \/ Recorded \/ Resume \/ Recover \/ Done
Next == \/ ServiceNext \/ EraseNext \/ QualifyNext \/ RebuildNext
        \/ ReadNext \/ Environment \/ CoreNext
Spec == Init /\ [][Next]_vars

-----------------------------------------------------------------------------
(* Properties. *)

\* No sequence of kills, faults, power cuts and resumes ever lets an erase or
\* a program reach a factory-bad block or a preserved system block: the
\* dispositions erase_one works from survive every interruption.
ProtectedUntouched ==
    /\ \A b \in cfg.marked : ctl.content[b] = "marker"
    /\ \A b \in Preserved : ctl.content[b] = "system"

\* A block whose program failed is never qualified, even when the process
\* that sent the program died before it read the verdict: qualify-blocks
\* asks about a program in flight before it does anything else.
FailedNeverQualified ==
    hist.cut \/ \A b \in hist.programFailed : st.disp[b] # "qualified"

\* Once verify-physical-erasure answered "ok", every block the state does not
\* set apart is erased in all its pages, and stays so to the end of the plan,
\* although erase_one looks at page 0 only and counts a block that the
\* controller erased by half.
VerifiedScope ==
    hist.verified =>
        \A b \in Blocks \ (cfg.marked \cup Preserved) :
            ctl.content[b] = "erased"

\* The generation this run prepared is activated once: a resumed rebuild
\* reads the committed generation before it activates again.
ActivatedOnce == ~hist.activatedTwice

\* The dispositions of the state file are true of the blocks.
DispositionsTrue == TypeOK /\ FailedNeverQualified /\ VerifiedScope

\* Past the rebuild the controller runs on the table, the generation and the
\* capacity that the state holds, whichever command the rebuild was
\* interrupted at, and the capacity leaves the spare blocks free.
RebuildIndex == IF cfg.level = "C3" THEN 7 ELSE 10
RebuiltIsCommitted ==
    plan.idx > RebuildIndex =>
        /\ ctl.committed = [gen |-> st.gen, bad |-> Listed(st)]
        /\ ctl.cap = st.user
        /\ st.user + st.spare <= Qualifieds(st)

\* The service-entry command is not sent to a controller that a process
\* before has already taken out of its normal mode.
EnteredOnce == ~hist.reentered

\* What must not be told twice to a controller is told once.
OnceOnly == ActivatedOnce /\ EnteredOnce

\* An action whose process died is refused by the next one only where the
\* code has no way back: after a power loss or a recover, after a kill
\* during an erase of qualify-blocks, and between a loader that does not
\* re-enumerate and the confirmation of service mode.
KnownDeadEnd ==
    \/ hist.cut \/ hist.recovered
    \/ Action = "qualify-blocks" /\ st.flight.op = "erase-block"
    \/ /\ Action = "enter-service-mode"
       /\ cfg.entry.loader /\ ~cfg.entry.loaderReenum
RefusedOnlyKnown == plan.last = "refused" => KnownDeadEnd
=============================================================================
