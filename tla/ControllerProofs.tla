-------------------------- MODULE ControllerProofs --------------------------
(***************************************************************************)
(* Proofs about the controller engine, for any number of blocks, any       *)
(* profile and any number of kills, faults, power cuts, resumes and        *)
(* recovers: what must not be erased is never erased, what must be told    *)
(* once is told once, a rebuild ends on the table it prepared, the         *)
(* dispositions of the state file are true of the blocks, and an action is *)
(* refused only where the code has no way on.                              *)
(***************************************************************************)
EXTENDS ControllerEngine, FiniteSetTheorems, WellFoundedInduction, TLAPS

\* The program counters of each action.
EnterPCs == {"enter-ask", "enter-pending", "enter-send", "enter-sent", "enter-load",
             "enter-pram", "loader-sent", "enter-confirm"}
ExitPCs == {"exit-ask", "exit-send", "exit-sent", "exit-confirm"}
MetaPCs == {"metadata", "meta-send", "meta-wait", "meta-save", "meta-verify"}
ErasePCs == {"scan", "old-wait", "old-read", "mark", "send", "wait", "read"}
ProgramPCs == {"flight-wait", "program-mark", "program-send", "program-wait", "program-read"}
BlockActions == EraseActions \cup {"qualify-blocks"}
Loaded == PCs \ {"idle", "start", "answer"}

\* The last action that answered, or is at work; and the actions after which
\* every marker is known and after which the new table is in force.
Reached == IF proc.pc = "answer" /\ proc.res \in {"ok", "partial"} THEN plan.idx + 1
                                                                  ELSE plan.idx
MarkersIndex == IF cfg.level = "C3" THEN 2 ELSE 4
Protected == cfg.marked \cup Preserved

\* What the choice of a scenario says of it (ScenarioAssumption, Init).
Given ==
  /\ cfg \in [level : {"C3", "C4"}, entry : EntryKinds,
              old : [Blocks -> TableEntries], marked : SUBSET Blocks]
  /\ cfg.marked \cap SystemBlocks = {}
  /\ cfg.level = "C3" => cfg.marked \subseteq InTable("factory-bad")

\* Each program counter belongs to its action.
Placed ==
  /\ plan.idx \in 1 .. Len(Actions) + 1
  /\ proc.pc # "start" => plan.idx <= Len(Actions)
  /\ proc.pc \in EnterPCs => Action = "enter-service-mode"
  /\ proc.pc \in ExitPCs => Action = "exit-service-mode"
  /\ proc.pc \in MetaPCs => Action = "rebuild-bbt-ftl"
  /\ proc.pc \in ErasePCs => Action \in BlockActions
  /\ proc.pc = "batch" => Action \in BlockActions \cup {"enumerate-blocks"}
  /\ proc.pc = "markers" => Action = "final-erase"
  /\ proc.pc \in ProgramPCs => Action = "qualify-blocks"
  /\ proc.pc \in (ErasePCs \ {"scan"}) \cup (ProgramPCs \ {"flight-wait"}) => proc.todo # {}
  /\ proc.pc \in MetaPCs => proc.tries \in 1 .. 6
  /\ proc.pc \in {"meta-send", "meta-wait", "meta-save"} => proc.tries < 5
  /\ proc.pc = "meta-verify" => proc.tries > 4

\* A state sets the protected blocks apart, after so many actions.
Apart(s, n) ==
  /\ n > 1 => \A b \in Preserved : s.disp[b] = "system-preserved"
  /\ n > MarkersIndex => \A b \in cfg.marked : s.disp[b] = "factory-bad" /\ b \notin s.rbb
  /\ s.rbb \cap Preserved = {}
  /\ s.flight.op # "none" => s.flight.blk \notin Protected

WorksOn == \/ proc.pc \in ErasePCs \cup ProgramPCs
           \/ proc.pc = "batch" /\ Action # "enumerate-blocks"

ProtectInv ==
  /\ \A b \in cfg.marked : ctl.content[b] = "marker"
  /\ \A b \in Preserved : ctl.content[b] = "system"
  /\ ctl.op \in {"erase-block", "program-page"} => ctl.blk \notin Protected
  /\ WorksOn => proc.todo \cap Protected = {}
  /\ Apart(st, Reached)
  /\ proc.pc \in Loaded => Apart(proc.st, Reached)
  /\ proc.pc = "flight-wait" => proc.st.flight.op # "none"

\* Service mode: where the controller may be by what the state says.
EntryInv ==
  /\ ~hist.reentered
  /\ proc.pc = "enter-send" => ctl.mode = "normal"
  /\ ctl.mode = "bootrom" => cfg.entry.loader
  /\ cfg.entry.loader /\ ctl.mode = "service" =>
       st.mode \notin {"normal", "entry-command-pending"}
  /\ proc.pc \in {"enter-pending", "enter-send", "enter-sent"} =>
       st.mode = "entry-command-pending"
  /\ proc.pc \in {"enter-load", "enter-pram"} =>
       st.mode \in {"entry-reenumerating", "loader-command-pending"}
  /\ proc.pc \in Loaded \ {"enter-confirm"} => proc.st.mode = st.mode

\* The phases at which the capacity is set, and those at which the table is
\* prepared.
CapacityPhases == {"capacity-set", "metadata-activated", "metadata-commit-verified"}
PreparedPhases == CapacityPhases \cup {"bbt-prepared", "ftl-prepared"}
Sized(s) == UserOf(s) > 0 /\ s.user = UserOf(s) /\ s.spare = SpareOf(s)
PreparedIs(s) == ctl.prepared = [gen |-> s.gen, bad |-> Listed(s)]
\* A generation that was activated is on its way or has arrived, as long as
\* the controller stays in service mode.
Committing(s) ==
  s.gen \in hist.activated /\ ctl.mode = "service" =>
    ctl.op = "activate-metadata" \/ ctl.failed \/ ctl.committed.gen = s.gen
CommittedIs(s) ==
  /\ ctl.op = "none"
  /\ ctl.committed = [gen |-> s.gen, bad |-> Listed(s)] /\ ctl.cap = s.user
  /\ s.user + s.spare <= Qualifieds(s)

BeforeRebuild ==
  plan.idx < RebuildIndex =>
    /\ hist.activated = {} /\ ctl.op \notin ToSet(MetadataOps)
    /\ st.phase = "other"
    /\ proc.pc \in Loaded => proc.st.phase = "other"
\* A process at work on the transaction.
AtRebuild ==
  proc.pc \in MetaPCs =>
    /\ st.mode = "in-service" /\ Sized(st) /\ st.phase = MetadataPhases[proc.tries]
    /\ proc.pc \in {"meta-wait", "meta-save"} =>
         /\ proc.tries = 1 /\ ctl.mode = "service" => PreparedIs(st)
         /\ proc.tries = 3 => ctl.cap = st.user
    /\ proc.pc = "meta-send" /\ proc.tries = 4 /\ ctl.mode = "service" =>
         ~Busy /\ ~ctl.failed /\ ctl.committed.gen # st.gen
Activating ==
  ctl.op = "activate-metadata" =>
    ctl.mode = "service" /\ plan.idx = RebuildIndex /\ PreparedIs(st)
\* The transaction, whether a process is at work on it or not.
Transaction ==
  plan.idx = RebuildIndex /\ st.mode = "in-service" =>
    /\ hist.activated \subseteq {st.gen}
    /\ hist.activated # {} => st.phase \in CapacityPhases
    /\ ctl.mode = "service" /\ st.phase \in PreparedPhases => PreparedIs(st)
    /\ st.phase \in CapacityPhases => ctl.cap = st.user
    /\ Committing(st)
AfterRebuild == Reached > RebuildIndex => CommittedIs(st)

RebuildInv ==
  /\ ~hist.activatedTwice
  /\ proc.pc \in MetaPCs \cup ExitPCs => proc.st = st
  /\ BeforeRebuild /\ AtRebuild /\ Activating /\ Transaction /\ AfterRebuild

\* The types of all but the counters that bound a behaviour.
Histories == [programFailed : SUBSET Blocks, cut : BOOLEAN, recovered : BOOLEAN,
              activated : SUBSET Nat, activatedTwice : BOOLEAN, reentered : BOOLEAN,
              busySent : BOOLEAN, verified : BOOLEAN]
Types ==
  /\ plan \in [idx : Nat, last : Answers]
  /\ st \in RunStates /\ ctl \in Controllers /\ proc \in Processes
  /\ hist \in Histories

EngineInv == Types /\ Given /\ Placed /\ ProtectInv /\ EntryInv /\ RebuildInv

-----------------------------------------------------------------------------
(* Numbers, the least block, and the plans. *)

LEMMA Sizes ==
  /\ NBlocks \in Nat \ {0} /\ BatchSize \in Nat \ {0} /\ Blocks \subseteq Nat
  /\ EraseRetries \in Nat /\ MinSpare \in Nat /\ SparePercent \in Nat /\ BinBlocks \in Nat
  BY SizeAssumption DEF Blocks

LEMMA ConstantsTyped ==
  /\ EnterPCs \cup ExitPCs \cup MetaPCs \cup ErasePCs \cup ProgramPCs \subseteq PCs
  /\ {"idle", "start", "answer", "batch", "markers"} \subseteq PCs
  /\ "other" \in Phases /\ NoFlight \in Flights
  /\ Preserved \subseteq Blocks /\ Rebuilt \subseteq Blocks /\ 0 \in Blocks
  BY Sizes, SystemAssumption
     DEF PCs, EnterPCs, ExitPCs, MetaPCs, ErasePCs, ProgramPCs, Phases, NoFlight, Flights, Blocks

LEMMA LeastBlock ==
  ASSUME proc.todo \subseteq Blocks, proc.todo # {}
  PROVE  Block \in proc.todo /\ Block \in Blocks
<1> DEFINE Less == {ss \in Nat \X Nat : ss[1] < ss[2]}
<1>1. IsWellFoundedOn(Less, Nat)
  BY NatLessThanWellFounded DEF OpToRel
<1>2. proc.todo \subseteq Nat
  BY Sizes
<1>3. PICK x \in proc.todo : \A y \in proc.todo : <<y, x>> \notin Less
  <2> HIDE DEF Less
  <2> QED BY <1>1, <1>2, WFMin
<1>4. ASSUME NEW y \in proc.todo PROVE x <= y
  <2>1. x \in Nat /\ y \in Nat /\ <<y, x>> \notin Less
    BY <1>2, <1>3
  <2> QED BY <2>1
<1> QED BY <1>4 DEF Block, Min

LEMMA PlanActions ==
  /\ Len(C3Actions) = 11 /\ Len(C4Actions) = 14
  /\ C3Actions[1] = "inventory" /\ C3Actions[2] = "capture-old-bbt"
  /\ C3Actions[3] = "enter-service-mode" /\ C3Actions[4] = "erase-old-rbb"
  /\ C3Actions[5] = "qualify-blocks" /\ C3Actions[6] = "final-erase"
  /\ C3Actions[7] = "rebuild-bbt-ftl" /\ C3Actions[8] = "exit-service-mode"
  /\ C3Actions[9] = "power-cycle" /\ C3Actions[10] = "re-enumeration"
  /\ C3Actions[11] = "postcheck-c3"
  /\ C4Actions[1] = "inventory" /\ C4Actions[2] = "capture-old-bbt"
  /\ C4Actions[3] = "enter-service-mode" /\ C4Actions[4] = "enumerate-blocks"
  /\ C4Actions[5] = "erase-old-rbb" /\ C4Actions[6] = "erase-data-blocks"
  /\ C4Actions[7] = "qualify-blocks" /\ C4Actions[8] = "final-erase"
  /\ C4Actions[9] = "verify-physical-erasure" /\ C4Actions[10] = "rebuild-bbt-ftl"
  /\ C4Actions[11] = "exit-service-mode" /\ C4Actions[12] = "power-cycle"
  /\ C4Actions[13] = "re-enumeration" /\ C4Actions[14] = "postcheck-c4"
  BY DEF C3Actions, C4Actions

\* Which action each step of a plan is.
LEMMA ActionAt ==
  ASSUME Given, plan.idx \in 1 .. Len(Actions)
  PROVE  \/ /\ cfg.level = "C3"
            /\ \/ plan.idx = 1 /\ Action = "inventory"
               \/ plan.idx = 2 /\ Action = "capture-old-bbt"
               \/ plan.idx = 3 /\ Action = "enter-service-mode"
               \/ plan.idx = 4 /\ Action = "erase-old-rbb"
               \/ plan.idx = 5 /\ Action = "qualify-blocks"
               \/ plan.idx = 6 /\ Action = "final-erase"
               \/ plan.idx = 7 /\ Action = "rebuild-bbt-ftl"
               \/ plan.idx = 8 /\ Action = "exit-service-mode"
               \/ plan.idx = 9 /\ Action = "power-cycle"
               \/ plan.idx = 10 /\ Action = "re-enumeration"
               \/ plan.idx = 11 /\ Action = "postcheck-c3"
         \/ /\ cfg.level = "C4"
            /\ \/ plan.idx = 1 /\ Action = "inventory"
               \/ plan.idx = 2 /\ Action = "capture-old-bbt"
               \/ plan.idx = 3 /\ Action = "enter-service-mode"
               \/ plan.idx = 4 /\ Action = "enumerate-blocks"
               \/ plan.idx = 5 /\ Action = "erase-old-rbb"
               \/ plan.idx = 6 /\ Action = "erase-data-blocks"
               \/ plan.idx = 7 /\ Action = "qualify-blocks"
               \/ plan.idx = 8 /\ Action = "final-erase"
               \/ plan.idx = 9 /\ Action = "verify-physical-erasure"
               \/ plan.idx = 10 /\ Action = "rebuild-bbt-ftl"
               \/ plan.idx = 11 /\ Action = "exit-service-mode"
               \/ plan.idx = 12 /\ Action = "power-cycle"
               \/ plan.idx = 13 /\ Action = "re-enumeration"
               \/ plan.idx = 14 /\ Action = "postcheck-c4"
<1>1. CASE cfg.level = "C3"
  <2> DEFINE i == plan.idx
  <2>1. i \in 1 .. 11 /\ Action = C3Actions[i]
    BY <1>1, PlanActions DEF Actions, Action
  <2> HIDE DEF i
  <2>2. \/ i = 1 \/ i = 2 \/ i = 3 \/ i = 4 \/ i = 5 \/ i = 6 \/ i = 7 \/ i = 8 \/ i = 9
        \/ i = 10 \/ i = 11
    BY <2>1
  <2>3. \/ i = 1 /\ Action = "inventory"
        \/ i = 2 /\ Action = "capture-old-bbt"
        \/ i = 3 /\ Action = "enter-service-mode"
        \/ i = 4 /\ Action = "erase-old-rbb"
        \/ i = 5 /\ Action = "qualify-blocks"
        \/ i = 6 /\ Action = "final-erase"
        \/ i = 7 /\ Action = "rebuild-bbt-ftl"
        \/ i = 8 /\ Action = "exit-service-mode"
        \/ i = 9 /\ Action = "power-cycle"
        \/ i = 10 /\ Action = "re-enumeration"
        \/ i = 11 /\ Action = "postcheck-c3"
    BY <2>1, <2>2, PlanActions
  <2> QED BY <1>1, <2>3 DEF i
<1>2. CASE cfg.level = "C4"
  <2> DEFINE i == plan.idx
  <2>1. i \in 1 .. 14 /\ Action = C4Actions[i]
    BY <1>2, PlanActions DEF Actions, Action
  <2> HIDE DEF i
  <2>2. \/ i = 1 \/ i = 2 \/ i = 3 \/ i = 4 \/ i = 5 \/ i = 6 \/ i = 7 \/ i = 8 \/ i = 9
        \/ i = 10 \/ i = 11 \/ i = 12 \/ i = 13 \/ i = 14
    BY <2>1
  <2>3. \/ i = 1 /\ Action = "inventory"
        \/ i = 2 /\ Action = "capture-old-bbt"
        \/ i = 3 /\ Action = "enter-service-mode"
        \/ i = 4 /\ Action = "enumerate-blocks"
        \/ i = 5 /\ Action = "erase-old-rbb"
        \/ i = 6 /\ Action = "erase-data-blocks"
        \/ i = 7 /\ Action = "qualify-blocks"
        \/ i = 8 /\ Action = "final-erase"
        \/ i = 9 /\ Action = "verify-physical-erasure"
        \/ i = 10 /\ Action = "rebuild-bbt-ftl"
        \/ i = 11 /\ Action = "exit-service-mode"
        \/ i = 12 /\ Action = "power-cycle"
        \/ i = 13 /\ Action = "re-enumeration"
        \/ i = 14 /\ Action = "postcheck-c4"
    BY <2>1, <2>2, PlanActions
  <2> QED BY <1>2, <2>3 DEF i
<1> QED BY <1>1, <1>2 DEF Given

\* Where an action stands in its plan.
LEMMA Order ==
  ASSUME Given, plan.idx \in 1 .. Len(Actions)
  PROVE  /\ Action = "inventory" <=> plan.idx = 1
         /\ Action = "capture-old-bbt" <=> plan.idx = 2
         /\ Action = "enter-service-mode" <=> plan.idx = 3
         /\ Action = "enumerate-blocks" => plan.idx = 4 /\ MarkersIndex = 4
         /\ plan.idx = 4 /\ MarkersIndex = 4 => Action = "enumerate-blocks"
         /\ Action \in BlockActions =>
              plan.idx > 3 /\ plan.idx > MarkersIndex /\ plan.idx < RebuildIndex
         /\ Action = "verify-physical-erasure" =>
              plan.idx > 3 /\ plan.idx > MarkersIndex /\ plan.idx < RebuildIndex
         /\ Action = "rebuild-bbt-ftl" <=> plan.idx = RebuildIndex
         /\ Action \in {"exit-service-mode", "power-cycle", "re-enumeration",
                        "postcheck-c3", "postcheck-c4"} <=> plan.idx > RebuildIndex
         /\ MarkersIndex \in {2, 4} /\ RebuildIndex \in {7, 10}
<1>1. CASE cfg.level = "C3"
  BY <1>1, ActionAt, SMTT(20) DEF BlockActions, EraseActions, MarkersIndex, RebuildIndex
<1>2. CASE cfg.level = "C4"
  BY <1>2, ActionAt, SMTT(20) DEF BlockActions, EraseActions, MarkersIndex, RebuildIndex
<1> QED BY <1>1, <1>2 DEF Given

\* Where qualify-blocks and verify-physical-erasure stand.
QualifyIndex == IF cfg.level = "C3" THEN 5 ELSE 7
LEMMA QualifyOrder ==
  ASSUME Given, plan.idx \in 1 .. Len(Actions)
  PROVE  /\ Action = "qualify-blocks" <=> plan.idx = QualifyIndex
         /\ Action \in {"inventory", "capture-old-bbt", "enter-service-mode",
                        "enumerate-blocks"} => plan.idx < QualifyIndex
         /\ Action = "verify-physical-erasure" => cfg.level = "C4" /\ plan.idx = 9
         /\ Action \in BlockActions => cfg.level # "C4" \/ plan.idx < 9
<1>1. CASE cfg.level = "C3"
  BY <1>1, ActionAt, SMTT(20) DEF BlockActions, EraseActions, QualifyIndex
<1>2. CASE cfg.level = "C4"
  BY <1>2, ActionAt, SMTT(20) DEF BlockActions, EraseActions, QualifyIndex
<1> QED BY <1>1, <1>2 DEF Given

-----------------------------------------------------------------------------
(* What the helpers of the model leave in the process and in the run. *)

LEMMA GotoIs ==
  ASSUME proc \in Processes, NEW p, Goto(p)
  PROVE  /\ proc'.pc = p /\ proc'.st = proc.st /\ proc'.todo = proc.todo
         /\ proc'.res = proc.res /\ proc'.tries = proc.tries
  BY DEF Goto, Processes

LEMMA WorkIs ==
  ASSUME proc \in Processes, NEW p, NEW s, Work(p, s)
  PROVE  /\ proc'.pc = p /\ proc'.st = s /\ proc'.todo = proc.todo
         /\ proc'.res = proc.res /\ proc'.tries = proc.tries
  BY DEF Work, Processes

LEMMA SaveIs ==
  ASSUME proc \in Processes, NEW p, NEW s, Save(p, s)
  PROVE  /\ st' = s
         /\ proc'.pc = p /\ proc'.st = s /\ proc'.todo = proc.todo
         /\ proc'.res = proc.res /\ proc'.tries = proc.tries
  BY WorkIs DEF Save

LEMMA AnswerIs ==
  ASSUME proc \in Processes, NEW r, Answer(r)
  PROVE  /\ proc'.pc = "answer" /\ proc'.st = proc.st /\ proc'.todo = proc.todo
         /\ proc'.res = r /\ proc'.tries = proc.tries
  BY DEF Answer, Processes, PCs

LEMMA SaveAndAnswerIs ==
  ASSUME proc \in Processes, NEW r, NEW s, SaveAndAnswer(s, r)
  PROVE  /\ st' = s
         /\ proc'.pc = "answer" /\ proc'.st = s /\ proc'.todo = proc.todo
         /\ proc'.res = r /\ proc'.tries = proc.tries
  BY DEF SaveAndAnswer, Processes, PCs

LEMMA BeginIs ==
  ASSUME proc \in Processes, NEW p, NEW s, NEW todo, Begin(p, s, todo)
  PROVE  /\ proc'.pc = p /\ proc'.st = s /\ proc'.todo = todo
         /\ proc'.res = proc.res /\ proc'.tries = 0
  BY DEF Begin, Processes

LEMMA AdvanceIs ==
  ASSUME proc \in Processes, NEW s, NEW bad \in BOOLEAN, NEW system \in BOOLEAN,
         Advance(s, bad, system)
  PROVE  /\ s \in RunStates => proc' \in Processes
         /\ proc'.pc \in {"batch", "scan"} /\ proc'.st = s
         /\ proc'.todo = proc.todo \ {Block}
         /\ proc'.res = proc.res /\ proc'.tries = 0
<1> DEFINE p == IF (proc.done + 1) % BatchSize = 0 THEN "batch" ELSE "scan"
           n == proc.done + 1
           isBad == proc.bad \/ bad
           isSystem == proc.systemBad \/ system
           rest == proc.todo \ {Block}
<1>1. p \in {"batch", "scan"} /\ p \in PCs
  BY DEF PCs
<1>2. isBad \in BOOLEAN /\ isSystem \in BOOLEAN
  OBVIOUS
<1>3. n \in Nat /\ rest \subseteq Blocks
  BY DEF Processes
<1>4. proc' = [proc EXCEPT !.st = s, !.todo = rest, !.done = n, !.tries = 0,
                           !.bad = isBad, !.systemBad = isSystem, !.pc = p]
  BY DEF Advance
<1> HIDE DEF p, n, isBad, isSystem
<1>5. s \in RunStates => proc' \in Processes
  <2> HIDE DEF rest
  <2> QED BY <1>1, <1>2, <1>3, <1>4 DEF Processes
<1>6. /\ proc'.pc = p /\ proc'.st = s /\ proc'.todo = rest
      /\ proc'.res = proc.res /\ proc'.tries = 0
  <2> HIDE DEF rest
  <2> QED BY <1>4 DEF Processes
<1> QED BY <1>1, <1>5, <1>6

LEMMA GotoTyped ==
  ASSUME proc \in Processes, NEW p \in PCs, Goto(p)
  PROVE  proc' \in Processes
  BY DEF Goto, Processes

LEMMA WorkTyped ==
  ASSUME proc \in Processes, NEW p \in PCs, NEW s \in RunStates, Work(p, s)
  PROVE  proc' \in Processes
  BY DEF Work, Processes

LEMMA SaveTyped ==
  ASSUME proc \in Processes, NEW p \in PCs, NEW s \in RunStates, Save(p, s)
  PROVE  st' \in RunStates /\ proc' \in Processes
  BY DEF Save, Work, Processes

LEMMA AnswerTyped ==
  ASSUME proc \in Processes, NEW r \in Answers, Answer(r)
  PROVE  proc' \in Processes
  BY DEF Answer, Processes, PCs

LEMMA SaveAndAnswerTyped ==
  ASSUME proc \in Processes, NEW s \in RunStates, NEW r \in Answers, SaveAndAnswer(s, r)
  PROVE  st' \in RunStates /\ proc' \in Processes
  BY DEF SaveAndAnswer, Processes, PCs

LEMMA BeginTyped ==
  ASSUME proc \in Processes, NEW p \in PCs, NEW s \in RunStates, NEW todo \in SUBSET Blocks,
         Begin(p, s, todo)
  PROVE  proc' \in Processes
  BY DEF Begin, Processes

LEMMA AdvanceTyped ==
  ASSUME proc \in Processes, NEW s \in RunStates, NEW bad \in BOOLEAN,
         NEW system \in BOOLEAN, Advance(s, bad, system)
  PROVE  proc' \in Processes
  BY AdvanceIs

LEMMA ModePhaseTyped ==
  ASSUME NEW s \in RunStates, NEW m \in Modes, NEW p \in Phases
  PROVE  [s EXCEPT !.mode = m, !.phase = p] \in RunStates
  BY DEF RunStates

LEMMA ModeTyped ==
  ASSUME NEW s \in RunStates, NEW m \in Modes
  PROVE  [s EXCEPT !.mode = m] \in RunStates
  BY DEF RunStates

LEMMA PhaseTyped ==
  ASSUME NEW s \in RunStates, NEW p \in Phases
  PROVE  [s EXCEPT !.phase = p] \in RunStates
  BY DEF RunStates

LEMMA FlightTyped ==
  ASSUME NEW s \in RunStates, NEW f \in Flights
  PROVE  [s EXCEPT !.flight = f] \in RunStates
  BY DEF RunStates

LEMMA LandedTyped ==
  ASSUME NEW s \in RunStates
  PROVE  Landed(s) \in RunStates
<1>1. NoFlight \in Flights
  BY Sizes DEF NoFlight, Flights, Blocks
<1> QED BY <1>1, FlightTyped DEF Landed

LEMMA DispTyped ==
  ASSUME NEW s \in RunStates, NEW d \in [Blocks -> Dispositions]
  PROVE  [s EXCEPT !.disp = d] \in RunStates
  BY DEF RunStates

LEMMA WithDispositionTyped ==
  ASSUME NEW s \in RunStates, NEW b \in Blocks, NEW d \in Dispositions
  PROVE  WithDisposition(s, b, d) \in RunStates
<1>1. [s.disp EXCEPT ![b] = d] \in [Blocks -> Dispositions]
  BY DEF RunStates
<1>2. WithDisposition(s, b, d) = [s EXCEPT !.disp = [s.disp EXCEPT ![b] = d]]
  BY DEF WithDisposition
<1> QED BY <1>1, <1>2, DispTyped

LEMMA ClassifiedTyped ==
  ASSUME NEW s \in RunStates
  PROVE  Classified(s) \in RunStates
<1>1. [b \in Blocks |-> IF b \in Preserved THEN "system-preserved"
        ELSE IF b \in Rebuilt THEN "system-rebuild" ELSE s.disp[b]] \in [Blocks -> Dispositions]
  BY DEF RunStates, Dispositions
<1> QED BY <1>1, DispTyped DEF Classified

LEMMA StopTyped ==
  ASSUME proc \in Processes, plan \in [idx : Nat, last : Answers], NEW r \in Answers, Stop(r)
  PROVE  proc' \in Processes /\ plan' \in [idx : Nat, last : Answers]
  BY DEF Stop, Processes, PCs, Answers

LEMMA ListedTyped ==
  ASSUME NEW s
  PROVE  Listed(s) \subseteq Blocks
  BY DEF Listed, Among

LEMMA AcceptedTyped ==
  ASSUME Types, NEW op \in {"erase-block", "program-page"} \cup ToSet(MetadataOps), NEW b \in Blocks
  PROVE  Accepted(op, b) \in Controllers
<1>1. Listed(proc.st) \subseteq Blocks
  BY ListedTyped
<1>2. [gen |-> proc.st.gen, bad |-> Listed(proc.st)] \in Tables /\ proc.st.user \in Nat
  BY <1>1 DEF Types, Processes, RunStates, Tables
<1>3. \A t \in Tables, n \in Nat :
        [ctl EXCEPT !.op = op, !.blk = b, !.failed = FALSE, !.prepared = t, !.cap = n] \in Controllers
  BY DEF Types, Controllers
<1>4. ctl.prepared \in Tables /\ ctl.cap \in Nat
  BY DEF Types, Controllers
<1> QED BY <1>2, <1>3, <1>4 DEF Accepted

LEMMA CommandTyped ==
  ASSUME Types, NEW op \in {"erase-block", "program-page"} \cup ToSet(MetadataOps),
         NEW b \in Blocks, NEW p \in PCs, Command(op, b, p)
  PROVE  st' \in RunStates /\ proc' \in Processes /\ ctl' \in Controllers /\ hist' \in Histories
<1>1. st' \in RunStates /\ proc \in Processes
  BY DEF Command, Types
<1>2. proc' \in Processes
  BY <1>1, GotoTyped, AnswerTyped DEF Command, Answers
<1>3. ctl' \in Controllers
  BY AcceptedTyped DEF Command, Types
<1>4. hist' \in Histories
  <2>1. proc.st.gen \in Nat
    BY DEF Types, Processes, RunStates
  <2>2. \A x \in BOOLEAN, y \in BOOLEAN, z \in SUBSET Nat :
          [hist EXCEPT !.busySent = x, !.activatedTwice = y, !.activated = z] \in Histories
    BY DEF Types, Histories
  <2> DEFINE x == hist.busySent \/ Busy
             y == hist.activatedTwice \/ (op = "activate-metadata" /\ Accepts
                                            /\ proc.st.gen \in hist.activated)
             z == IF op = "activate-metadata" /\ Accepts
                  THEN hist.activated \cup {proc.st.gen} ELSE hist.activated
  <2>3. x \in BOOLEAN /\ y \in BOOLEAN
    OBVIOUS
  <2>4. z \in SUBSET Nat
    BY <2>1 DEF Types, Histories
  <2>5. hist' = [hist EXCEPT !.busySent = x, !.activatedTwice = y, !.activated = z]
    BY DEF Command
  <2> HIDE DEF x, y, z
  <2> QED BY <2>2, <2>3, <2>4, <2>5
<1> QED BY <1>1, <1>2, <1>3, <1>4

LEMMA EraseSucceededTyped ==
  ASSUME Types, NEW s \in RunStates, Block \in Blocks, EraseSucceeded(s)
  PROVE  proc' \in Processes
<1>1. s.disp[Block] \in Dispositions /\ proc \in Processes
  BY DEF RunStates, Types
<1>2. ErasedAs(s.disp[Block]) \in Dispositions
  BY <1>1 DEF ErasedAs, Dispositions
<1>3. WithDisposition(Landed(s), Block, ErasedAs(s.disp[Block])) \in RunStates
  BY <1>2, LandedTyped, WithDispositionTyped
<1> QED BY <1>1, <1>3, LandedTyped, WorkTyped, AdvanceTyped, ConstantsTyped DEF EraseSucceeded, ProgramPCs

LEMMA EraseGaveUpTyped ==
  ASSUME Types, NEW s \in RunStates, Block \in Blocks, EraseGaveUp(s)
  PROVE  proc' \in Processes
<1> DEFINE system == s.disp[Block] = "system-rebuild"
           t == WithDisposition(Landed(s), Block,
                                IF system THEN "system-rebuild" ELSE "quarantined")
<1>1. system \in BOOLEAN
  OBVIOUS
<1>2. t \in RunStates /\ proc \in Processes
  BY LandedTyped, WithDispositionTyped DEF Dispositions, Types
<1>3. Advance(t, TRUE, system)
  BY DEF EraseGaveUp
<1> HIDE DEF system, t
<1> QED BY <1>1, <1>2, <1>3, AdvanceTyped

LEMMA EraseFailedTyped ==
  ASSUME Types, Block \in Blocks, EraseFailed
  PROVE  st' \in RunStates /\ proc' \in Processes
<1>1. proc.st \in RunStates /\ proc \in Processes
  BY DEF Types, Processes
<1>2. st' \in RunStates
  BY <1>1, LandedTyped DEF EraseFailed
<1>3. Action = "qualify-blocks" => proc' \in Processes
  BY <1>1, ZenonT(40) DEF EraseFailed, Processes, PCs, Answers
<1> QED BY <1>1, <1>2, <1>3, EraseGaveUpTyped DEF EraseFailed

LEMMA QualifiedTyped ==
  ASSUME Types, Block \in Blocks, NEW d \in Dispositions, Qualified(d)
  PROVE  proc' \in Processes
<1> DEFINE t == WithDisposition(Landed(proc.st), Block, d)
           bad == d = "quarantined"
<1>1. t \in RunStates /\ proc \in Processes /\ bad \in BOOLEAN
  BY LandedTyped, WithDispositionTyped DEF Types, Processes
<1>2. Advance(t, bad, FALSE)
  BY DEF Qualified
<1> HIDE DEF t, bad
<1> QED BY <1>1, <1>2, AdvanceTyped

LEMMA TargetsTyped ==
  ASSUME NEW s \in RunStates, Action \in BlockActions
  PROVE  Targets(s) \subseteq Blocks
  BY DEF Targets, Among, RunStates, BlockActions, EraseActions

-----------------------------------------------------------------------------
(* What the work on a block leaves. *)

LEMMA StopIs ==
  ASSUME proc \in Processes, plan \in [idx : Nat, last : Answers], NEW r, Stop(r)
  PROVE  /\ plan'.idx = plan.idx /\ plan'.last = r
         /\ proc'.pc = "idle" /\ proc'.st = proc.st /\ proc'.todo = proc.todo
         /\ proc'.res = "none" /\ proc'.tries = proc.tries
  BY DEF Stop, Processes

LEMMA ActionKept ==
  ASSUME cfg' = cfg
  PROVE  /\ Actions' = Actions /\ Len(Actions) \in Nat
         /\ plan'.idx = plan.idx => Action' = Action
  BY PlanActions DEF Actions, Action

\* A state that differs from another in one block, and has nothing in flight.
OnlyBlock(t, s) ==
  /\ t.mode = s.mode /\ t.phase = s.phase /\ t.gen = s.gen /\ t.user = s.user
  /\ t.spare = s.spare /\ t.rbb = s.rbb /\ t.flight = NoFlight
  /\ \A b \in Blocks \ {Block} : t.disp[b] = s.disp[b]
\* A process that is done with a block.
Advanced(s) ==
  /\ proc'.pc \in {"batch", "scan"} /\ proc'.todo = proc.todo \ {Block}
  /\ OnlyBlock(proc'.st, s)

LEMMA LandedIs ==
  ASSUME NEW s \in RunStates
  PROVE  OnlyBlock(Landed(s), s) /\ Landed(s).disp = s.disp
  BY DEF OnlyBlock, Landed, RunStates

LEMMA WithDispositionIs ==
  ASSUME NEW s \in RunStates, NEW c \in Blocks, NEW d
  PROVE  LET t == WithDisposition(s, c, d)
         IN  /\ t.mode = s.mode /\ t.phase = s.phase /\ t.gen = s.gen /\ t.user = s.user
             /\ t.spare = s.spare /\ t.rbb = s.rbb /\ t.flight = s.flight
             /\ \A b \in Blocks \ {c} : t.disp[b] = s.disp[b]
             /\ t.disp[c] = d
  BY DEF WithDisposition, RunStates

LEMMA LandedWithIs ==
  ASSUME NEW s \in RunStates, Block \in Blocks, NEW d
  PROVE  OnlyBlock(WithDisposition(Landed(s), Block, d), s)
<1>1. Landed(s) \in RunStates
  BY LandedTyped
<1> QED BY <1>1, LandedIs, WithDispositionIs DEF OnlyBlock

LEMMA ClassifiedIs ==
  ASSUME NEW s \in RunStates
  PROVE  LET t == Classified(s)
         IN  /\ t.mode = s.mode /\ t.phase = s.phase /\ t.gen = s.gen /\ t.user = s.user
             /\ t.spare = s.spare /\ t.rbb = s.rbb /\ t.flight = s.flight
             /\ \A b \in Preserved : t.disp[b] = "system-preserved"
             /\ \A b \in Rebuilt : t.disp[b] = "system-rebuild"
             /\ \A b \in Blocks \ SystemBlocks : t.disp[b] = s.disp[b]
  BY SystemAssumption DEF Classified, RunStates, SystemBlocks

LEMMA EraseSucceededIs ==
  ASSUME Types, NEW s \in RunStates, Block \in Blocks, EraseSucceeded(s)
  PROVE  \/ Action # "qualify-blocks" /\ Advanced(s)
         \/ /\ Action = "qualify-blocks" /\ proc'.pc = "program-mark"
            /\ proc'.todo = proc.todo /\ OnlyBlock(proc'.st, s)
<1>1. proc \in Processes
  BY DEF Types
<1>2. CASE Action = "qualify-blocks"
  BY <1>1, <1>2, WorkIs, LandedIs DEF EraseSucceeded
<1>3. CASE Action # "qualify-blocks"
  BY <1>1, <1>3, AdvanceIs, LandedWithIs DEF EraseSucceeded, Advanced
<1> QED BY <1>2, <1>3

LEMMA EraseGaveUpIs ==
  ASSUME Types, NEW s \in RunStates, Block \in Blocks, EraseGaveUp(s)
  PROVE  Advanced(s)
<1> DEFINE system == s.disp[Block] = "system-rebuild"
           d == IF system THEN "system-rebuild" ELSE "quarantined"
<1>1. proc \in Processes /\ system \in BOOLEAN
  BY DEF Types
<1>2. Advance(WithDisposition(Landed(s), Block, d), TRUE, system)
  BY DEF EraseGaveUp
<1> HIDE DEF system, d
<1> QED BY <1>1, <1>2, AdvanceIs, LandedWithIs, ZenonT(40) DEF Advanced

LEMMA EraseFailedIs ==
  ASSUME Types, Block \in Blocks, EraseFailed
  PROVE  /\ st' = Landed(proc.st)
         /\ \/ Advanced(proc.st)
            \/ /\ proc'.pc = "answer" /\ proc'.st = proc.st /\ proc'.todo = proc.todo
               /\ proc'.res = "error"
<1>1. proc \in Processes /\ proc.st \in RunStates
  BY DEF Types, Processes
<1>2. ASSUME proc' = [proc EXCEPT !.pc = "answer", !.res = "error"]
      PROVE  /\ proc'.pc = "answer" /\ proc'.st = proc.st /\ proc'.todo = proc.todo
             /\ proc'.res = "error"
  BY <1>1, <1>2 DEF Processes
<1> QED BY <1>1, <1>2, EraseGaveUpIs DEF EraseFailed

LEMMA QualifiedIs ==
  ASSUME Types, Block \in Blocks, NEW d, Qualified(d)
  PROVE  Advanced(proc.st)
<1> DEFINE bad == d = "quarantined"
           t == WithDisposition(Landed(proc.st), Block, d)
<1>1. proc \in Processes /\ proc.st \in RunStates /\ bad \in BOOLEAN
  BY DEF Types, Processes
<1>2. Advance(t, bad, FALSE)
  BY DEF Qualified
<1>3. OnlyBlock(t, proc.st)
  BY <1>1, LandedWithIs
<1> HIDE DEF bad, t
<1>4. FALSE \in BOOLEAN
  OBVIOUS
<1>5. /\ proc'.pc \in {"batch", "scan"} /\ proc'.st = t
      /\ proc'.todo = proc.todo \ {Block}
  BY <1>1, <1>2, <1>4, AdvanceIs
<1> QED BY <1>3, <1>5 DEF Advanced

-----------------------------------------------------------------------------
(* The sizes of a rebuild, and its phases. *)

LEMMA BlocksFinite == IsFiniteSet(Blocks)
  BY Sizes, FS_Interval DEF Blocks

LEMMA SizesOf ==
  ASSUME NEW s \in RunStates
  PROVE  /\ Qualifieds(s) \in Nat /\ SpareOf(s) \in Nat /\ UserOf(s) \in Int
         /\ UserOf(s) > 0 => UserOf(s) + SpareOf(s) <= Qualifieds(s)
<1>1. ASSUME NEW ds PROVE Cardinality(Among(s, ds)) \in Nat
  BY BlocksFinite, FS_Subset, FS_CardinalityType DEF Among
<1> DEFINE q == Qualifieds(s)
           bad == Cardinality(Among(s, {"quarantined", "historical-rbb"}))
           ratio == (q * SparePercent + 99) \div 100
<1>2. q \in Nat /\ bad \in Nat
  BY <1>1 DEF Qualifieds
<1>3. q * SparePercent \in Nat
  <2> HIDE DEF q
  <2> QED BY <1>2, Sizes
<1>4. ratio \in Nat
  <2> DEFINE n == q * SparePercent
  <2>1. n \in Nat
    BY <1>3
  <2> HIDE DEF n
  <2>2. (n + 99) \div 100 \in Nat
    BY <2>1
  <2> QED BY <2>2 DEF n
<1>5. SpareOf(s) \in Nat
  <2>1. SpareOf(s) = Max2(Max2(MinSpare, ratio), bad + 1)
    BY DEF SpareOf
  <2> HIDE DEF bad, ratio
  <2> QED BY <1>2, <1>4, <2>1, Sizes DEF Max2
<1> DEFINE user == q - SpareOf(s)
<1>6. user \in Int
  <2> HIDE DEF q
  <2> QED BY <1>2, <1>5
<1>7. UserOf(s) = IF BinBlocks = 0 \/ user < 0 THEN user ELSE (user \div BinBlocks) * BinBlocks
  BY DEF UserOf
<1> HIDE DEF user
<1>8. BinBlocks # 0 /\ ~(user < 0) => /\ (user \div BinBlocks) * BinBlocks \in Int
                                      /\ (user \div BinBlocks) * BinBlocks <= user
  BY <1>6, Sizes
<1>9. UserOf(s) \in Int /\ UserOf(s) <= user
  BY <1>6, <1>7, <1>8
<1> QED
  <2> HIDE DEF q
  <2>1. user = q - SpareOf(s) /\ q = Qualifieds(s)
    BY DEF user, q
  <2> QED BY <2>1, <1>2, <1>5, <1>6, <1>9

LEMMA PhaseIndexIs ==
  ASSUME NEW s, s.phase \in Phases
  PROVE  /\ PhaseIndex(s) \in 0 .. 6
         /\ PhaseIndex(s) = 0 <=> s.phase = "other"
         /\ PhaseIndex(s) > 0 => s.phase = MetadataPhases[PhaseIndex(s)]
<1>1. /\ Len(MetadataPhases) = 6
      /\ MetadataPhases[1] = "metadata-prepare-started" /\ MetadataPhases[2] = "bbt-prepared"
      /\ MetadataPhases[3] = "ftl-prepared" /\ MetadataPhases[4] = "capacity-set"
      /\ MetadataPhases[5] = "metadata-activated"
      /\ MetadataPhases[6] = "metadata-commit-verified"
  BY DEF MetadataPhases
<1>2. ToSet(MetadataPhases) = {MetadataPhases[i] : i \in 1 .. 6}
  BY <1>1 DEF ToSet
<1> DEFINE P(i) == IF s.phase = "other" THEN i = 0 ELSE i > 0 /\ MetadataPhases[i] = s.phase
<1>3. \E i \in 0 .. 6 : P(i)
  <2>1. CASE s.phase = "other"
    BY <2>1
  <2>2. CASE s.phase # "other"
    <3>1. PICK i \in 1 .. 6 : MetadataPhases[i] = s.phase
      BY <1>2, <2>2 DEF Phases
    <3> QED BY <2>2, <3>1
  <2> QED BY <2>1, <2>2
<1>4. PhaseIndex(s) = CHOOSE i \in 0 .. 6 : P(i)
  BY <1>1 DEF PhaseIndex
<1> HIDE DEF P
<1>5. PhaseIndex(s) \in 0 .. 6 /\ P(PhaseIndex(s))
  BY <1>3, <1>4
<1> QED BY <1>5 DEF P

-----------------------------------------------------------------------------
(* The actions with many outcomes, each outcome a disjunct. *)

LEMMA BeginEnterIs ==
  ASSUME Types, BeginEnter
  PROVE  /\ proc'.st = st /\ proc'.todo = {}
         /\ \/ st.mode = "normal" /\ proc'.pc = "enter-ask"
            \/ st.mode = "entry-command-pending" /\ proc'.pc = "enter-pending"
            \/ /\ st.mode \in {"entry-reenumerating", "loader-command-pending"}
               /\ proc'.pc = "enter-load"
            \/ proc'.pc = "enter-confirm"
  BY BeginIs DEF Types, BeginEnter

LEMMA EnterLoadIs ==
  ASSUME Types, EnterLoad
  PROVE  \/ Goto("enter-confirm") /\ UNCHANGED st /\ ~cfg.entry.loader
         \/ /\ Goto("enter-confirm") /\ UNCHANGED st
            /\ ctl.mode # "bootrom" /\ proc.st.mode = "loader-command-pending"
         \/ /\ Goto("enter-pram") /\ UNCHANGED st
            /\ cfg.entry.loader /\ ctl.mode = "bootrom" /\ ~cfg.entry.loaderReenum
         \/ /\ Save("enter-pram", [proc.st EXCEPT !.mode = "loader-command-pending",
                                                  !.phase = "other"])
            /\ cfg.entry.loader /\ ctl.mode = "bootrom" /\ cfg.entry.loaderReenum
         \/ Answer("refused") /\ UNCHANGED st
<1>1. CASE ~cfg.entry.loader
  BY <1>1 DEF EnterLoad
<1>2. CASE cfg.entry.loader /\ ctl.mode = "bootrom"
  BY <1>2 DEF EnterLoad
<1>3. CASE cfg.entry.loader /\ ctl.mode # "bootrom"
  BY <1>3 DEF EnterLoad
<1> QED BY <1>1, <1>2, <1>3

LEMMA BeginExitIs ==
  ASSUME Types, BeginExit
  PROVE  \/ /\ st.mode = "in-service"
            /\ st' = [st EXCEPT !.mode = "exit-command-pending", !.phase = "other"]
            /\ proc'.pc = "exit-ask" /\ proc'.st = st' /\ proc'.todo = {}
         \/ st' = st /\ proc'.pc = "exit-ask" /\ proc'.st = st /\ proc'.todo = {}
         \/ st' = st /\ proc'.pc = "exit-confirm" /\ proc'.st = st /\ proc'.todo = {}
         \/ st' = st /\ Answer("refused")
  BY BeginIs DEF Types, BeginExit

LEMMA ReadIs ==
  ASSUME Types, Read
  PROVE  \/ Answer("error")
         \/ EraseSucceeded(proc.st)
         \/ proc'.pc = "mark" /\ proc'.st = proc.st /\ proc'.todo = proc.todo
         \/ EraseGaveUp(proc.st)
<1>1. ASSUME proc' = [proc EXCEPT !.pc = "mark", !.tries = @ + 1]
      PROVE  proc'.pc = "mark" /\ proc'.st = proc.st /\ proc'.todo = proc.todo
  BY <1>1 DEF Types, Processes
<1>2. CASE ctl.mode # "service"
  BY <1>2 DEF Read
<1>3. CASE ctl.mode = "service" /\ PageZeroErased
  BY <1>3 DEF Read
<1>4. CASE ctl.mode = "service" /\ ~PageZeroErased
  BY <1>1, <1>4 DEF Read
<1> QED BY <1>2, <1>3, <1>4

LEMMA BeginQualifyIs ==
  ASSUME Types, BeginQualify
  PROVE  \/ Answer("refused")
         \/ Begin("scan", st, Targets(st)) /\ st.flight.op = "none" /\ st.mode = "in-service"
         \/ Begin("flight-wait", st, {}) /\ st.flight.op = "program-page" /\ st.mode = "in-service"
<1>1. st.flight.op \in {"none", "erase-block", "program-page"}
  BY DEF Types, RunStates, Flights
<1> QED BY <1>1 DEF BeginQualify, InService

LEMMA FlightWaitIs ==
  ASSUME Types, FlightWait
  PROVE  \/ st' = Landed(proc.st) /\ Begin("scan", st', Targets(st'))
         \/ /\ st' = Landed(WithDisposition(proc.st, proc.st.flight.blk, "quarantined"))
            /\ Begin("scan", st', Targets(st'))
         \/ Answer("interrupted") /\ UNCHANGED st
  BY DEF FlightWait, WaitIdle

\* The state after the blocks up to a number were searched for markers.
Searched(n) ==
  [proc.st EXCEPT !.phase = "other", !.disp = [b \in Blocks |->
     IF b < n /\ b \notin SystemBlocks /\ Marker(b) THEN "factory-bad" ELSE @[b]]]
Batched(s, n) == st' = s /\ proc' = [proc EXCEPT !.st = s, !.done = n]

LEMMA EnumerateBatchIs ==
  ASSUME Types, EnumerateBatch
  PROVE  \/ Answer("error") /\ UNCHANGED st
         \/ /\ \A b \in Blocks \ SystemBlocks :
                 b < proc.done + BatchSize /\ b \in proc.st.rbb => ~Marker(b)
            /\ \/ /\ SaveAndAnswer(Searched(proc.done + BatchSize), "ok")
                  /\ \A b \in Blocks : b < proc.done + BatchSize
               \/ Batched(Searched(proc.done + BatchSize), proc.done + BatchSize)
<1> DEFINE n == proc.done + BatchSize
           seen == {b \in Blocks : b < n}
           new == seen \ SystemBlocks
           s == [proc.st EXCEPT !.phase = "other", !.disp = [b \in Blocks |->
                   IF b \in new /\ Marker(b) THEN "factory-bad" ELSE @[b]]]
<1>1. s = Searched(n)
  BY DEF Searched
<1>2. \/ Answer("error") /\ UNCHANGED st
      \/ /\ \A b \in new : b \in proc.st.rbb => ~Marker(b)
         /\ \/ seen = Blocks /\ SaveAndAnswer(s, "ok")
            \/ st' = s /\ proc' = [proc EXCEPT !.st = s, !.done = n]
  BY DEF EnumerateBatch
<1> HIDE DEF s
<1> QED BY <1>1, <1>2 DEF Batched

LEMMA BatchedIs ==
  ASSUME proc \in Processes, NEW s, NEW n, Batched(s, n)
  PROVE  /\ st' = s /\ proc'.st = s /\ proc'.pc = proc.pc /\ proc'.todo = proc.todo
         /\ proc'.res = proc.res /\ proc'.tries = proc.tries
  BY DEF Batched, Processes

LEMMA VerifyErasureIs ==
  ASSUME Types, VerifyErasure
  PROVE  LET s == [Classified(st) EXCEPT !.phase = "other"]
         IN  \/ Answer("refused") /\ UNCHANGED <<st, hist>>
             \/ /\ SaveAndAnswer(s, "ok") \/ SaveAndAnswer(s, "partial")
                /\ \E clean \in BOOLEAN : hist' = [hist EXCEPT !.verified = clean]
<1> DEFINE s == [Classified(st) EXCEPT !.phase = "other"]
<1>1. CASE st.mode # "in-service"
  BY <1>1 DEF VerifyErasure
<1>2. CASE st.mode = "in-service"
  <2>1. PICK readable \in BOOLEAN :
          /\ SaveAndAnswer(s, IF SweptClean(s) /\ readable THEN "ok" ELSE "partial")
          /\ hist' = [hist EXCEPT !.verified = SweptClean(s) /\ readable]
    BY <1>2 DEF VerifyErasure
  <2>2. (SweptClean(s) /\ readable) \in BOOLEAN
    OBVIOUS
  <2> QED BY <2>1, <2>2
<1> QED BY <1>1, <1>2

\* The state a new rebuild starts from, and the process that is at work on it.
Fresh == [st EXCEPT !.gen = ctl.committed.gen + 1, !.user = UserOf(st),
                    !.spare = SpareOf(st), !.phase = "metadata-prepare-started"]
ToMetadata(s, i) == proc' = [proc EXCEPT !.pc = "metadata", !.st = s, !.tries = i]

LEMMA ToMetadataIs ==
  ASSUME proc \in Processes, NEW s, NEW i, ToMetadata(s, i)
  PROVE  /\ proc'.pc = "metadata" /\ proc'.st = s /\ proc'.tries = i
         /\ proc'.todo = proc.todo /\ proc'.res = proc.res
  BY DEF ToMetadata, Processes

LEMMA BeginRebuildIs ==
  ASSUME Types, BeginRebuild
  PROVE  /\ UNCHANGED <<ctl, hist>>
         /\ \/ UNCHANGED st /\ \E r \in {"refused", "error", "interrupted"} : Answer(r)
            \/ /\ st.mode = "in-service" /\ UserOf(st) > 0 /\ PhaseIndex(st) > 0
               /\ st.user = UserOf(st) /\ st.spare = SpareOf(st)
               /\ UNCHANGED st /\ ToMetadata(st, PhaseIndex(st))
            \/ /\ st.mode = "in-service" /\ UserOf(st) > 0 /\ PhaseIndex(st) = 0 /\ Idle
               /\ st' = Fresh /\ ToMetadata(Fresh, 1)
<1> USE DEF Fresh, ToMetadata
<1> DEFINE i == PhaseIndex(st)
           user == UserOf(st)
<1>1. i \in Nat /\ user \in Int
  BY PhaseIndexIs, SizesOf DEF Types, RunStates
<1>2. CASE st.mode # "in-service"
  BY <1>2 DEF BeginRebuild, WhenIdle, Enough
<1>3. CASE st.mode = "in-service" /\ ~Enough(user)
  BY <1>3 DEF BeginRebuild, WhenIdle, Enough
<1>4. CASE st.mode = "in-service" /\ Enough(user) /\ i > 0
  <2>1. i # 0
    BY <1>1, <1>4
  <2> QED BY <1>4, <2>1 DEF BeginRebuild, WhenIdle, Enough
<1>5. CASE st.mode = "in-service" /\ Enough(user) /\ i = 0
  BY <1>1, <1>5 DEF BeginRebuild, WhenIdle, Enough
<1> QED BY <1>1, <1>2, <1>3, <1>4, <1>5

LEMMA MetadataIs ==
  ASSUME Types, Placed, Metadata
  PROVE  /\ UNCHANGED <<st, ctl, hist, plan>>
         /\ \/ proc.tries < 4 /\ Goto("meta-send")
            \/ proc.tries = 4 /\ Idle /\ AlreadyCommitted /\ Goto("meta-save")
            \/ proc.tries = 4 /\ Idle /\ ~AlreadyCommitted /\ Goto("meta-send")
            \/ proc.tries > 4 /\ Goto("meta-verify")
            \/ Answer("error")
            \/ Answer("interrupted")
<1>1. proc.tries \in 1 .. 6
  BY DEF Metadata, Placed, MetaPCs
<1>2. CASE proc.tries < 4
  <2>1. proc.tries # 4 /\ ~(proc.tries > 4)
    BY <1>1, <1>2
  <2> QED BY <1>2, <2>1 DEF Metadata, WaitIdle
<1>3. CASE proc.tries = 4
  BY <1>1, <1>3 DEF Metadata, WaitIdle, Idle
<1>4. CASE proc.tries > 4
  <2>1. proc.tries # 4 /\ ~(proc.tries < 4)
    BY <1>1, <1>4
  <2> QED BY <1>4, <2>1 DEF Metadata, WaitIdle
<1> QED BY <1>1, <1>2, <1>3, <1>4

LEMMA FinishIs ==
  ASSUME Types, Finish
  PROVE  LET done == [ctl EXCEPT !.op = "none"]
         IN  /\ ctl.op # "none"
             /\ \/ /\ ctl.op \in {"erase-block", "program-page"} /\ UNCHANGED hist
                   /\ \E c \in {"erased", "pattern", "part", ctl.content[ctl.blk]} :
                        ctl' = [done EXCEPT !.content[ctl.blk] = c]
                \/ /\ ctl.op = "activate-metadata" /\ UNCHANGED hist
                   /\ ctl' = [done EXCEPT !.committed = ctl.prepared]
                \/ /\ ctl.op \notin {"erase-block", "program-page", "activate-metadata"}
                   /\ ctl' = done /\ UNCHANGED hist
                \/ /\ ctl' = [done EXCEPT !.failed = TRUE]
                   /\ hist' = [hist EXCEPT !.programFailed =
                         IF ctl.op = "program-page" THEN @ \cup {ctl.blk} ELSE @]
<1>1. CASE ctl.op = "erase-block"
  BY <1>1 DEF Finish, Busy
<1>2. CASE ctl.op = "program-page"
  BY <1>2 DEF Finish, Busy
<1>3. CASE ctl.op = "activate-metadata"
  BY <1>3 DEF Finish, Busy
<1>4. CASE ctl.op \notin {"erase-block", "program-page", "activate-metadata"}
  BY <1>4 DEF Finish, Busy
<1> QED BY <1>1, <1>2, <1>3, <1>4

-----------------------------------------------------------------------------
(* Every step keeps the types. *)

LEMMA MetaOpsTyped ==
  /\ \A i \in 1 .. 4 : /\ MetadataOps[i] \in ToSet(MetadataOps)
                       /\ MetadataPhases[i + 1] \in Phases /\ MetadataPhases[i] \in Phases
  /\ {"metadata-prepare-started", "metadata-commit-verified"} \subseteq Phases
<1>1. /\ Len(MetadataOps) = 4 /\ Len(MetadataPhases) = 6
      /\ MetadataPhases[1] = "metadata-prepare-started"
      /\ MetadataPhases[6] = "metadata-commit-verified"
  BY DEF MetadataOps, MetadataPhases
<1>2. /\ ToSet(MetadataOps) = {MetadataOps[k] : k \in 1 .. 4}
      /\ ToSet(MetadataPhases) = {MetadataPhases[k] : k \in 1 .. 6}
  BY <1>1 DEF ToSet
<1>3. \A i \in 1 .. 4 : i \in 1 .. 6 /\ i + 1 \in 1 .. 6
  OBVIOUS
<1> QED BY <1>1, <1>2, <1>3 DEF Phases

LEMMA ContentTyped ==
  ASSUME NEW c \in Controllers, NEW b \in Blocks, NEW x \in Contents
  PROVE  [c EXCEPT !.content[b] = x] \in Controllers
<1>1. [c.content EXCEPT ![b] = x] \in [Blocks -> Contents]
  BY DEF Controllers
<1> QED BY <1>1 DEF Controllers

LEMMA UnpoweredTyped ==
  ASSUME NEW c \in Controllers
  PROVE  Unpowered(c) \in Controllers
  BY DEF Unpowered, Controllers

LEMMA ServiceTyped ==
  ASSUME Types, Given, Placed, ServiceNext
  PROVE  Types'
<1>0. proc \in Processes /\ st \in RunStates /\ proc.st \in RunStates
  BY DEF Types, Processes
<1>1. CASE BeginEnter
  <2>1. st' \in RunStates /\ proc' \in Processes
    BY <1>0, <1>1, BeginTyped, ModeTyped
       DEF BeginEnter, On, NoFault, Ready, Finished, Modes, Phases, PCs, Answers
  <2>2. ctl' \in Controllers /\ hist' \in Histories /\ plan' \in [idx : Nat, last : Answers]
    BY <1>1 DEF BeginEnter, On, NoFault, Ready, Finished, Types
  <2> QED BY <2>1, <2>2 DEF Types
<1>2. CASE EnterAsk
  <2>1. proc' \in Processes
    BY <1>0, <1>2, WorkTyped, SaveTyped, ModeTyped, ModePhaseTyped, AnswerTyped
       DEF EnterAsk, WhenIdle, PCs, Answers, Modes, Phases
  <2>2. st' \in RunStates
    BY <1>0, <1>2, SaveTyped, ModePhaseTyped DEF EnterAsk, WhenIdle, PCs, Modes, Phases
  <2> QED BY <1>2, <2>1, <2>2 DEF Types, EnterAsk, WhenIdle
<1>3. CASE EnterPending
  <2>1. st' \in RunStates /\ proc' \in Processes
    BY <1>0, <1>3, GotoTyped, SaveTyped, AnswerTyped, ModeTyped
       DEF EnterPending, NoFault, WhenIdle, Idle, Busy, Modes, Phases, PCs, Answers
  <2>2. ctl' \in Controllers /\ hist' \in Histories /\ plan' \in [idx : Nat, last : Answers]
    BY <1>3 DEF EnterPending, NoFault, WhenIdle, Idle, Busy, Types
  <2> QED BY <2>1, <2>2 DEF Types
<1>4. CASE EnterSend
  <2>1. proc' \in Processes
    BY <1>0, <1>4, GotoTyped, AnswerTyped DEF EnterSend, PCs, Answers
  <2>2. ctl' \in Controllers
    BY <1>4 DEF EnterSend, Types, Controllers
  <2>3. hist' \in Histories
    BY <1>4 DEF EnterSend, Types, Histories
  <2> QED BY <1>4, <2>1, <2>2, <2>3 DEF Types, EnterSend
<1>5. CASE EnterSent
  <2>1. st' \in RunStates /\ proc' \in Processes
    BY <1>0, <1>5, SaveAndAnswerTyped, ModePhaseTyped
       DEF EnterSent, NoFault, Modes, Phases, PCs, Answers
  <2>2. ctl' \in Controllers /\ hist' \in Histories /\ plan' \in [idx : Nat, last : Answers]
    BY <1>5 DEF EnterSent, NoFault, Types
  <2> QED BY <2>1, <2>2 DEF Types
<1>6. CASE EnterLoad
  <2>1. st' \in RunStates /\ proc' \in Processes
    BY <1>0, <1>6, GotoTyped, SaveTyped, AnswerTyped, ModePhaseTyped
       DEF EnterLoad, NoFault, Modes, Phases, PCs, Answers
  <2>2. ctl' \in Controllers /\ hist' \in Histories /\ plan' \in [idx : Nat, last : Answers]
    BY <1>6 DEF EnterLoad, NoFault, Types
  <2> QED BY <2>1, <2>2 DEF Types
<1>7. CASE EnterPram
  <2>1. proc' \in Processes
    BY <1>0, <1>7, GotoTyped, AnswerTyped DEF EnterPram, PCs, Answers
  <2>2. ctl' \in Controllers
    BY <1>7 DEF EnterPram, Types, Controllers
  <2> QED BY <1>7, <2>1, <2>2 DEF Types, EnterPram
<1>8. CASE LoaderSent
  <2>1. st' \in RunStates /\ proc' \in Processes
    BY <1>0, <1>8, SaveAndAnswerTyped, ModePhaseTyped
       DEF LoaderSent, NoFault, Modes, Phases, PCs, Answers
  <2>2. ctl' \in Controllers /\ hist' \in Histories /\ plan' \in [idx : Nat, last : Answers]
    BY <1>8 DEF LoaderSent, NoFault, Types
  <2> QED BY <2>1, <2>2 DEF Types
<1>9. CASE EnterConfirm
  <2>1. st' \in RunStates /\ proc' \in Processes
    BY <1>0, <1>9, AnswerTyped, SaveAndAnswerTyped, ModePhaseTyped
       DEF EnterConfirm, WaitIdle, Busy, NoFault, Fault, Modes, Phases, PCs, Answers
  <2>2. ctl' \in Controllers /\ hist' \in Histories /\ plan' \in [idx : Nat, last : Answers]
    BY <1>9 DEF EnterConfirm, WaitIdle, Busy, NoFault, Fault, Types
  <2> QED BY <2>1, <2>2 DEF Types
<1>10. CASE BeginExit
  <2>1. st' \in RunStates
    <3>1. [st EXCEPT !.mode = "exit-command-pending", !.phase = "other"] \in RunStates
      BY <1>0, ModePhaseTyped DEF Modes, Phases
    <3> QED BY <1>0, <1>10, <3>1, BeginExitIs
  <2>2. proc' \in Processes
    BY <1>0, <1>10, <2>1, BeginTyped, AnswerTyped DEF BeginExit, PCs, Answers
  <2> QED BY <1>10, <2>1, <2>2 DEF Types, BeginExit
<1>11. CASE ExitAsk
  <2>1. st' \in RunStates /\ proc' \in Processes
    BY <1>0, <1>11, GotoTyped, AnswerTyped
       DEF ExitAsk, WhenIdle, Idle, Busy, NoFault, Modes, Phases, PCs, Answers
  <2>2. ctl' \in Controllers /\ hist' \in Histories /\ plan' \in [idx : Nat, last : Answers]
    BY <1>11 DEF ExitAsk, WhenIdle, Idle, Busy, NoFault, Types
  <2> QED BY <2>1, <2>2 DEF Types
<1>12. CASE ExitSend
  <2>1. proc' \in Processes
    BY <1>0, <1>12, GotoTyped, AnswerTyped DEF ExitSend, PCs, Answers
  <2>2. ctl' \in Controllers
    BY <1>12 DEF ExitSend, Types, Controllers
  <2> QED BY <1>12, <2>1, <2>2 DEF Types, ExitSend
<1>13. CASE ExitSent
  <2>1. st' \in RunStates /\ proc' \in Processes
    BY <1>0, <1>13, SaveAndAnswerTyped, ModePhaseTyped
       DEF ExitSent, NoFault, Modes, Phases, PCs, Answers
  <2>2. ctl' \in Controllers /\ hist' \in Histories /\ plan' \in [idx : Nat, last : Answers]
    BY <1>13 DEF ExitSent, NoFault, Types
  <2> QED BY <2>1, <2>2 DEF Types
<1>14. CASE ExitConfirm
  <2>1. st' \in RunStates /\ proc' \in Processes
    BY <1>0, <1>14, AnswerTyped, SaveAndAnswerTyped, ModePhaseTyped
       DEF ExitConfirm, WaitIdle, Busy, NoFault, Fault, Modes, Phases, PCs, Answers
  <2>2. ctl' \in Controllers /\ hist' \in Histories /\ plan' \in [idx : Nat, last : Answers]
    BY <1>14 DEF ExitConfirm, WaitIdle, Busy, NoFault, Fault, Types
  <2> QED BY <2>1, <2>2 DEF Types
<1> QED BY <1>1, <1>2, <1>3, <1>4, <1>5, <1>6, <1>7, <1>8, <1>9, <1>10, <1>11, <1>12, <1>13,
        <1>14
        DEF ServiceNext

LEMMA EraseTyped ==
  ASSUME Types, Given, Placed, EraseNext
  PROVE  Types'
<1>0. proc \in Processes /\ st \in RunStates /\ proc.st \in RunStates
  BY DEF Types, Processes
<1>1. CASE BeginErase
  <2>1. st' \in RunStates /\ proc' \in Processes
    BY <1>0, <1>1, AnswerTyped, BeginTyped, ModeTyped, ClassifiedTyped, TargetsTyped
       DEF BeginErase, Ready, InService, NoFault, Finished, Modes, Phases, PCs, Answers,
           BlockActions, EraseActions
  <2>2. ctl' \in Controllers /\ hist' \in Histories /\ plan' \in [idx : Nat, last : Answers]
    BY <1>1 DEF BeginErase, Ready, InService, NoFault, Finished, Types
  <2> QED BY <2>1, <2>2 DEF Types
<1>2. CASE Scan
  <2>1. Block \in Blocks
    BY <1>0, <1>2, LeastBlock DEF Placed, Scan, Processes, ErasePCs, ProgramPCs
  <2>2. st' \in RunStates /\ proc' \in Processes
    BY <1>0, <1>2, <2>1, GotoTyped, FlightTyped DEF Scan, NoFault, Modes, Phases, PCs, Answers
  <2>3. ctl' \in Controllers /\ hist' \in Histories /\ plan' \in [idx : Nat, last : Answers]
    BY <1>2 DEF Scan, NoFault, Types
  <2> QED BY <2>2, <2>3 DEF Types
<1>3. CASE OldWait
  <2>1. Block \in Blocks
    BY <1>0, <1>3, LeastBlock DEF Placed, OldWait, Processes, ErasePCs, ProgramPCs
  <2>2. st' \in RunStates /\ proc' \in Processes
    BY <1>0, <1>3, <2>1, GotoTyped, AnswerTyped, EraseFailedTyped
       DEF OldWait, WaitIdle, Busy, NoFault, Fault, Modes, Phases, PCs, Answers
  <2>3. ctl' \in Controllers /\ hist' \in Histories /\ plan' \in [idx : Nat, last : Answers]
    BY <1>3 DEF OldWait, WaitIdle, Busy, NoFault, Fault, Types
  <2> QED BY <2>2, <2>3 DEF Types
<1>4. CASE OldRead
  <2>1. Block \in Blocks
    BY <1>0, <1>4, LeastBlock DEF Placed, OldRead, Processes, ErasePCs, ProgramPCs
  <2>2. st' \in RunStates /\ proc' \in Processes
    BY <1>0, <1>4, <2>1, GotoTyped, AnswerTyped, LandedTyped, EraseSucceededTyped
       DEF OldRead, Busy, NoFault, Modes, Phases, PCs, Answers
  <2>3. ctl' \in Controllers /\ hist' \in Histories /\ plan' \in [idx : Nat, last : Answers]
    BY <1>4 DEF OldRead, Busy, NoFault, Types
  <2> QED BY <2>2, <2>3 DEF Types
<1>5. CASE Mark
  <2>1. Block \in Blocks
    BY <1>0, <1>5, LeastBlock DEF Placed, Mark, Processes, ErasePCs, ProgramPCs
  <2>2. [op |-> "erase-block", blk |-> Block] \in Flights
    BY <2>1 DEF Flights
  <2>3. [proc.st EXCEPT !.flight = [op |-> "erase-block", blk |-> Block]] \in RunStates
    BY <1>0, <2>2, FlightTyped
  <2>4. st' \in RunStates /\ proc' \in Processes
    BY <1>0, <1>5, <2>3, SaveTyped DEF Mark, PCs
  <2> QED BY <1>5, <2>4 DEF Types, Mark
<1>6. CASE Send
  <2>1. Block \in Blocks
    BY <1>0, <1>6, LeastBlock DEF Placed, Send, Processes, ErasePCs, ProgramPCs
  <2>2. st' \in RunStates /\ proc' \in Processes
    BY <1>0, <1>6, <2>1, CommandTyped DEF Send, Modes, Phases, PCs, Answers
  <2>3. ctl' \in Controllers /\ hist' \in Histories /\ plan' \in [idx : Nat, last : Answers]
    BY <1>0, <1>6, <2>1, CommandTyped DEF Send, Types, PCs
  <2> QED BY <2>2, <2>3 DEF Types
<1>7. CASE Wait
  <2>1. Block \in Blocks
    BY <1>0, <1>7, LeastBlock DEF Placed, Wait, Processes, ErasePCs, ProgramPCs
  <2>2. st' \in RunStates /\ proc' \in Processes
    BY <1>0, <1>7, <2>1, GotoTyped, AnswerTyped, EraseFailedTyped
       DEF Wait, WaitIdle, Busy, NoFault, Fault, Modes, Phases, PCs, Answers
  <2>3. ctl' \in Controllers /\ hist' \in Histories /\ plan' \in [idx : Nat, last : Answers]
    BY <1>7 DEF Wait, WaitIdle, Busy, NoFault, Fault, Types
  <2> QED BY <2>2, <2>3 DEF Types
<1>8. CASE Read
  <2>1. Block \in Blocks
    BY <1>0, <1>8, LeastBlock DEF Placed, Read, Processes, ErasePCs, ProgramPCs
  <2>2. ASSUME proc' = [proc EXCEPT !.pc = "mark", !.tries = @ + 1]
        PROVE  proc' \in Processes
    <3> DEFINE n == proc.tries + 1
    <3>1. n \in Nat
      BY <1>0 DEF Processes
    <3> HIDE DEF n
    <3>2. proc' = [proc EXCEPT !.pc = "mark", !.tries = n]
      BY <2>2 DEF n
    <3> QED BY <1>0, <3>1, <3>2 DEF Processes, PCs
  <2>3. proc' \in Processes
    BY <1>0, <1>8, <2>1, <2>2, AnswerTyped, EraseSucceededTyped, EraseGaveUpTyped
       DEF Read, Answers
  <2> QED BY <1>8, <2>3 DEF Types, Read
<1>9. CASE SaveBatch
  <2>1. st' \in RunStates /\ proc' \in Processes
    BY <1>0, <1>9, SaveTyped, PhaseTyped DEF SaveBatch, NoFault, Modes, Phases, PCs, Answers
  <2>2. ctl' \in Controllers /\ hist' \in Histories /\ plan' \in [idx : Nat, last : Answers]
    BY <1>9 DEF SaveBatch, NoFault, Types
  <2> QED BY <2>1, <2>2 DEF Types
<1>10. CASE EndErase
  <2>1. st' \in RunStates /\ proc' \in Processes
    BY <1>0, <1>10, SaveTyped, SaveAndAnswerTyped, PhaseTyped
       DEF EndErase, NoFault, Modes, Phases, PCs, Answers
  <2>2. ctl' \in Controllers /\ hist' \in Histories /\ plan' \in [idx : Nat, last : Answers]
    BY <1>10 DEF EndErase, NoFault, Types
  <2> QED BY <2>1, <2>2 DEF Types
<1>11. CASE Markers
  <2>1. st' \in RunStates /\ proc' \in Processes
    BY <1>0, <1>11, AnswerTyped DEF Markers, Busy, NoFault, Modes, Phases, PCs, Answers
  <2>2. ctl' \in Controllers /\ hist' \in Histories /\ plan' \in [idx : Nat, last : Answers]
    BY <1>11 DEF Markers, Busy, NoFault, Types
  <2> QED BY <2>1, <2>2 DEF Types
<1> QED BY <1>1, <1>2, <1>3, <1>4, <1>5, <1>6, <1>7, <1>8, <1>9, <1>10, <1>11 DEF EraseNext

LEMMA QualifyTyped ==
  ASSUME Types, Given, Placed, QualifyNext
  PROVE  Types'
<1>0. proc \in Processes /\ st \in RunStates /\ proc.st \in RunStates
  BY DEF Types, Processes
<1>1. CASE BeginQualify
  <2>1. Targets(st) \in SUBSET Blocks /\ {} \in SUBSET Blocks
    BY <1>0, <1>1, TargetsTyped DEF BeginQualify, On, BlockActions, EraseActions
  <2>2. proc' \in Processes
    BY <1>0, <1>1, <2>1, BeginQualifyIs, BeginTyped, AnswerTyped DEF Answers, PCs
  <2> QED BY <1>1, <2>2 DEF Types, BeginQualify
<1>2. CASE FlightWait
  <2>1. proc.st.flight.blk \in Blocks /\ Action \in BlockActions
    BY <1>0, <1>2 DEF RunStates, Flights, FlightWait, Placed, ProgramPCs, BlockActions
  <2> DEFINE t == WithDisposition(proc.st, proc.st.flight.blk, "quarantined")
  <2>2. t \in RunStates
    BY <1>0, <2>1, WithDispositionTyped DEF Dispositions
  <2>3. Landed(proc.st) \in RunStates /\ Landed(t) \in RunStates
    BY <1>0, <2>2, LandedTyped
  <2>4. \/ st' = Landed(proc.st) /\ Begin("scan", st', Targets(st'))
        \/ st' = Landed(t) /\ Begin("scan", st', Targets(st'))
        \/ Answer("interrupted") /\ UNCHANGED st
    BY <1>2, FlightWaitIs
  <2> HIDE DEF t
  <2>5. st' \in RunStates
    BY <1>0, <2>3, <2>4
  <2>6. Targets(st') \in SUBSET Blocks
    BY <2>1, <2>5, TargetsTyped
  <2>7. proc' \in Processes
    BY <1>0, <2>4, <2>5, <2>6, BeginTyped, AnswerTyped DEF PCs, Answers
  <2> QED BY <1>2, <2>5, <2>7 DEF Types, FlightWait, WaitIdle
<1>3. CASE ProgramMark
  <2>1. Block \in Blocks
    BY <1>0, <1>3, LeastBlock DEF Placed, ProgramMark, Processes, ErasePCs, ProgramPCs
  <2>2. [op |-> "program-page", blk |-> Block] \in Flights
    BY <2>1 DEF Flights
  <2>3. [proc.st EXCEPT !.flight = [op |-> "program-page", blk |-> Block]] \in RunStates
    BY <1>0, <2>2, FlightTyped
  <2>4. st' \in RunStates /\ proc' \in Processes
    BY <1>0, <1>3, <2>3, SaveTyped DEF ProgramMark, PCs
  <2> QED BY <1>3, <2>4 DEF Types, ProgramMark
<1>4. CASE ProgramSend
  <2>1. Block \in Blocks
    BY <1>0, <1>4, LeastBlock DEF Placed, ProgramSend, Processes, ErasePCs, ProgramPCs
  <2>2. st' \in RunStates /\ proc' \in Processes
    BY <1>0, <1>4, <2>1, CommandTyped DEF ProgramSend, Modes, Phases, PCs, Answers
  <2>3. ctl' \in Controllers /\ hist' \in Histories /\ plan' \in [idx : Nat, last : Answers]
    BY <1>0, <1>4, <2>1, CommandTyped DEF ProgramSend, Types, PCs
  <2> QED BY <2>2, <2>3 DEF Types
<1>5. CASE ProgramWait
  <2>1. Block \in Blocks
    BY <1>0, <1>5, LeastBlock DEF Placed, ProgramWait, Processes, ErasePCs, ProgramPCs
  <2>2. proc' \in Processes
    BY <1>0, <1>5, <2>1, AnswerTyped, GotoTyped, QualifiedTyped, ConstantsTyped
       DEF ProgramWait, WaitIdle, Answers, Dispositions, ProgramPCs
  <2>3. st' = st
    BY <1>5 DEF ProgramWait, WaitIdle
  <2> QED BY <1>5, <2>2, <2>3 DEF Types, ProgramWait, WaitIdle
<1>6. CASE ProgramRead
  <2>1. Block \in Blocks
    BY <1>0, <1>6, LeastBlock DEF Placed, ProgramRead, Processes, ErasePCs, ProgramPCs
  <2>2. proc' \in Processes
    BY <1>0, <1>6, <2>1, AnswerTyped, QualifiedTyped DEF ProgramRead, Answers, Dispositions
  <2> QED BY <1>6, <2>2 DEF Types, ProgramRead
<1>7. CASE EndQualify
  <2>1. st' \in RunStates /\ proc' \in Processes
    BY <1>0, <1>7, SaveAndAnswerTyped, PhaseTyped
       DEF EndQualify, NoFault, Modes, Phases, PCs, Answers
  <2>2. ctl' \in Controllers /\ hist' \in Histories /\ plan' \in [idx : Nat, last : Answers]
    BY <1>7 DEF EndQualify, NoFault, Types
  <2> QED BY <2>1, <2>2 DEF Types
<1> QED BY <1>1, <1>2, <1>3, <1>4, <1>5, <1>6, <1>7 DEF QualifyNext

LEMMA RebuildTyped ==
  ASSUME Types, Given, Placed, RebuildNext
  PROVE  Types'
<1>0. proc \in Processes /\ st \in RunStates /\ proc.st \in RunStates
  BY DEF Types, Processes
<1>1. CASE BeginRebuild
  <2>1. ctl.committed.gen + 1 \in Nat /\ "metadata-prepare-started" \in Phases /\ st.phase \in Phases
    BY MetaOpsTyped DEF Types, Controllers, Tables, RunStates, MetadataPhases
  <2>2. UserOf(st) > 0 => Fresh \in RunStates
    <3>1. ASSUME UserOf(st) > 0
          PROVE  UserOf(st) \in Nat /\ SpareOf(st) \in Nat
      BY <1>0, <3>1, SizesOf
    <3> QED BY <1>0, <2>1, <3>1 DEF RunStates, Fresh
  <2>3. PhaseIndex(st) \in Nat
    BY <2>1, PhaseIndexIs
  <2>4. st' \in RunStates
    BY <1>0, <1>1, <2>2, BeginRebuildIs
  <2>5. ASSUME NEW s \in RunStates, NEW i \in Nat, ToMetadata(s, i)
        PROVE  proc' \in Processes
    BY <1>0, <2>5 DEF ToMetadata, Processes, PCs
  <2>6. proc' \in Processes
    BY <1>0, <1>1, <2>2, <2>3, <2>5, BeginRebuildIs, AnswerTyped DEF Answers
  <2> QED BY <1>1, <2>4, <2>6, BeginRebuildIs DEF Types, BeginRebuild
<1>2. CASE Metadata
  <2>1. proc' \in Processes
    BY <1>0, <1>2, MetadataIs, GotoTyped, AnswerTyped, ConstantsTyped DEF MetaPCs, Answers
  <2> QED BY <1>2, <2>1, MetadataIs DEF Types
<1>3. CASE MetaSend
  <2>1. proc.tries \in 1 .. 4
    BY <1>3 DEF MetaSend, Placed, MetaPCs
  <2>2. MetadataOps[proc.tries] \in {"erase-block", "program-page"} \cup ToSet(MetadataOps)
    BY <2>1, MetaOpsTyped
  <2>3. Command(MetadataOps[proc.tries], 0, "meta-wait") /\ UNCHANGED <<cfg, plan>>
    BY <1>3 DEF MetaSend
  <2>4. st' \in RunStates /\ proc' \in Processes /\ ctl' \in Controllers /\ hist' \in Histories
    BY <2>2, <2>3, ConstantsTyped, CommandTyped DEF MetaPCs
  <2> QED BY <2>3, <2>4 DEF Types
<1>4. CASE MetaWait
  <2>1. st' \in RunStates /\ proc' \in Processes
    BY <1>0, <1>4, GotoTyped, AnswerTyped
       DEF MetaWait, WaitIdle, Busy, NoFault, Fault, Modes, Phases, PCs, Answers
  <2>2. ctl' \in Controllers /\ hist' \in Histories /\ plan' \in [idx : Nat, last : Answers]
    BY <1>4 DEF MetaWait, WaitIdle, Busy, NoFault, Fault, Types
  <2> QED BY <2>1, <2>2 DEF Types
<1>5. CASE MetaSave
  <2>1. proc.tries \in 1 .. 4
    BY <1>5 DEF MetaSave, Placed, MetaPCs
  <2> DEFINE s == [proc.st EXCEPT !.phase = MetadataPhases[proc.tries + 1]]
             n == proc.tries + 1
  <2>2. s \in RunStates /\ n \in Nat
    BY <1>0, <2>1, MetaOpsTyped, PhaseTyped
  <2>3. /\ st' = s /\ proc' = [proc EXCEPT !.pc = "metadata", !.st = s, !.tries = n]
        /\ UNCHANGED <<cfg, plan, ctl, hist>>
    BY <1>5 DEF MetaSave
  <2> HIDE DEF s, n
  <2> QED BY <1>0, <2>2, <2>3 DEF Types, Processes, PCs
<1>6. CASE MetaVerify
  <2>1. "metadata-commit-verified" \in Phases
    BY MetaOpsTyped
  <2>2. [proc.st EXCEPT !.phase = "metadata-commit-verified"] \in RunStates
    BY <1>0, <2>1, PhaseTyped
  <2>3. st' \in RunStates
    BY <1>0, <1>6, <2>2, SaveAndAnswerTyped DEF MetaVerify, WhenIdle, Answers
  <2>4. proc' \in Processes
    BY <1>0, <1>6, <2>2, SaveAndAnswerTyped, AnswerTyped DEF MetaVerify, WhenIdle, Answers
  <2> QED BY <1>6, <2>3, <2>4 DEF Types, MetaVerify, WhenIdle
<1> QED BY <1>1, <1>2, <1>3, <1>4, <1>5, <1>6 DEF RebuildNext

LEMMA ReadTyped ==
  ASSUME Types, Given, Placed, ReadNext
  PROVE  Types'
<1>0. proc \in Processes /\ st \in RunStates /\ proc.st \in RunStates
  BY DEF Types, Processes
<1>1. CASE Inventory
  <2> DEFINE s == [Classified(st) EXCEPT !.gen = ctl.committed.gen, !.phase = "other"]
  <2>1. s \in RunStates
    <3>1. ctl.committed.gen \in Nat
      BY DEF Types, Controllers, Tables
    <3>2. Classified(st) \in RunStates
      BY <1>0, ClassifiedTyped
    <3> QED BY <3>1, <3>2, ConstantsTyped DEF RunStates
  <2>2. WhenIdle(SaveAndAnswer(s, "ok"))
    BY <1>1 DEF Inventory
  <2> HIDE DEF s
  <2>3. st' \in RunStates
    BY <1>0, <2>1, <2>2, SaveAndAnswerTyped DEF WhenIdle, Answers
  <2>4. proc' \in Processes
    BY <1>0, <2>1, <2>2, SaveAndAnswerTyped, AnswerTyped DEF WhenIdle, Answers
  <2> QED BY <1>1, <2>2, <2>3, <2>4 DEF Types, Inventory, WhenIdle
<1>2. CASE CaptureOldBbt
  <2> DEFINE s == Classified(st)
             d == [b \in Blocks |-> IF b \in SystemBlocks \/ OldTable[b] = "absent"
                                    THEN s.disp[b] ELSE OldTable[b]]
             r == InTable("historical-rbb") \cup (s.rbb \cap InTable("absent"))
             t == [s EXCEPT !.disp = d, !.rbb = r, !.phase = "other"]
  <2>1. s \in RunStates
    BY <1>0, ClassifiedTyped
  <2>2. d \in [Blocks -> Dispositions]
    <3>1. \A b \in Blocks : OldTable[b] \in TableEntries
      BY DEF OldTable, Given
    <3>2. TableEntries \ {"absent"} \subseteq Dispositions
      BY DEF TableEntries, Dispositions
    <3>3. \A b \in Blocks : s.disp[b] \in Dispositions
      BY <2>1 DEF RunStates
    <3> HIDE DEF s
    <3> QED BY <3>1, <3>2, <3>3
  <2>3. r \in SUBSET Blocks
    BY DEF InTable
  <2>4. \/ UNCHANGED st /\ Answer("error")
        \/ SaveAndAnswer(t, "ok")
    BY <1>2 DEF CaptureOldBbt
  <2>5. t \in RunStates
    <3> HIDE DEF s, d, r
    <3> QED BY <2>1, <2>2, <2>3, ConstantsTyped DEF RunStates
  <2> HIDE DEF t
  <2>6. st' \in RunStates /\ proc' \in Processes
    BY <1>0, <2>4, <2>5, SaveAndAnswerTyped, AnswerTyped DEF Answers
  <2> QED BY <1>2, <2>6 DEF Types, CaptureOldBbt
<1>3. CASE BeginEnumerate
  <2>1. st' \in RunStates /\ proc' \in Processes
    BY <1>0, <1>3, BeginTyped, ClassifiedTyped
       DEF BeginEnumerate, On, NoFault, Ready, Finished, Modes, Phases, PCs, Answers
  <2>2. ctl' \in Controllers /\ hist' \in Histories /\ plan' \in [idx : Nat, last : Answers]
    BY <1>3 DEF BeginEnumerate, On, NoFault, Ready, Finished, Types
  <2> QED BY <2>1, <2>2 DEF Types
<1>4. CASE EnumerateBatch
  <2> DEFINE n == proc.done + BatchSize
             s == Searched(n)
  <2>1. n \in Nat
    BY <1>0, Sizes DEF Processes
  <2>2. s \in RunStates
    <3> DEFINE d == [b \in Blocks |-> IF b < n /\ b \notin SystemBlocks /\ Marker(b)
                                      THEN "factory-bad" ELSE proc.st.disp[b]]
    <3>1. d \in [Blocks -> Dispositions]
      BY <1>0 DEF RunStates, Dispositions
    <3>2. s = [proc.st EXCEPT !.phase = "other", !.disp = d]
      BY DEF Searched
    <3> HIDE DEF d, s
    <3> QED BY <1>0, <3>1, <3>2, ConstantsTyped DEF RunStates
  <2>3. \/ Answer("error") /\ UNCHANGED st
        \/ SaveAndAnswer(s, "ok")
        \/ Batched(s, n)
    BY <1>4, EnumerateBatchIs
  <2> HIDE DEF s, n
  <2>4. ASSUME Batched(s, n)
        PROVE  st' \in RunStates /\ proc' \in Processes
    BY <1>0, <2>1, <2>2, <2>4 DEF Batched, Processes
  <2>5. st' \in RunStates /\ proc' \in Processes
    BY <1>0, <2>2, <2>3, <2>4, SaveAndAnswerTyped, AnswerTyped DEF Answers
  <2> QED BY <1>4, <2>5 DEF Types, EnumerateBatch
<1>5. CASE VerifyErasure
  <2> DEFINE s == [Classified(st) EXCEPT !.phase = "other"]
  <2>1. s \in RunStates
    BY <1>0, ClassifiedTyped, PhaseTyped, ConstantsTyped
  <2>2. \/ Answer("refused") /\ UNCHANGED <<st, hist>>
        \/ /\ SaveAndAnswer(s, "ok") \/ SaveAndAnswer(s, "partial")
           /\ \E clean \in BOOLEAN : hist' = [hist EXCEPT !.verified = clean]
    BY <1>5, VerifyErasureIs
  <2> HIDE DEF s
  <2>3. st' \in RunStates /\ proc' \in Processes
    BY <1>0, <2>1, <2>2, SaveAndAnswerTyped, AnswerTyped DEF Answers
  <2>4. hist' \in Histories
    BY <2>2 DEF Histories, Types
  <2> QED BY <1>5, <2>3, <2>4 DEF Types, VerifyErasure
<1>6. CASE ReEnumeration
  <2>1. st' \in RunStates /\ proc' \in Processes
    BY <1>0, <1>6, AnswerTyped
       DEF ReEnumeration, On, NoFault, Ready, Finished, Modes, Phases, PCs, Answers
  <2>2. ctl' \in Controllers /\ hist' \in Histories /\ plan' \in [idx : Nat, last : Answers]
    BY <1>6 DEF ReEnumeration, On, NoFault, Ready, Finished, Types
  <2> QED BY <2>1, <2>2 DEF Types
<1>7. CASE Postcheck
  <2>1. st' \in RunStates /\ proc' \in Processes
    BY <1>0, <1>7, AnswerTyped, ModeTyped
       DEF Postcheck, Ready, WhenIdle, Finished, Idle, Busy, NoFault, Modes, Phases, PCs,
           Answers
  <2>2. ctl' \in Controllers /\ hist' \in Histories /\ plan' \in [idx : Nat, last : Answers]
    BY <1>7 DEF Postcheck, Ready, WhenIdle, Finished, Idle, Busy, NoFault, Types
  <2> QED BY <2>1, <2>2 DEF Types
<1> QED BY <1>1, <1>2, <1>3, <1>4, <1>5, <1>6, <1>7 DEF ReadNext

LEMMA EnvironmentTyped ==
  ASSUME Types, Given, Placed, Environment
  PROVE  Types'
<1>0. proc \in Processes /\ st \in RunStates /\ proc.st \in RunStates
  BY DEF Types, Processes
<1>1. CASE Finish
  <2> DEFINE done == [ctl EXCEPT !.op = "none"]
  <2>1. ctl.blk \in Blocks /\ {"erased", "pattern", "part", ctl.content[ctl.blk]} \subseteq Contents
    BY DEF Types, Contents, Controllers
  <2>2. /\ done \in Controllers
        /\ [done EXCEPT !.failed = TRUE] \in Controllers
        /\ [done EXCEPT !.committed = ctl.prepared] \in Controllers
    BY DEF Types, Controllers
  <2>3. /\ \/ \E c \in Contents : ctl' = [done EXCEPT !.content[ctl.blk] = c]
           \/ ctl' = [done EXCEPT !.committed = ctl.prepared]
           \/ ctl' = done
           \/ ctl' = [done EXCEPT !.failed = TRUE]
        /\ \/ UNCHANGED hist
           \/ hist' = [hist EXCEPT !.programFailed =
                 IF ctl.op = "program-page" THEN @ \cup {ctl.blk} ELSE @]
    BY <1>1, <2>1, FinishIs
  <2> HIDE DEF done
  <2>4. \A c \in Contents : [done EXCEPT !.content[ctl.blk] = c] \in Controllers
    BY <2>1, <2>2, ContentTyped
  <2>5. ctl' \in Controllers
    BY <2>2, <2>3, <2>4
  <2>6. hist' \in Histories
    BY <2>1, <2>3 DEF Types, Histories
  <2> QED BY <1>1, <2>5, <2>6 DEF Types, Finish
<1>2. CASE TransportFails
  <2>1. st' \in RunStates /\ proc' \in Processes
    BY <1>0, <1>2, AnswerTyped
       DEF TransportFails, Commanding, Fault, Wrapped, Modes, Phases, PCs, Answers
  <2>2. ctl' \in Controllers /\ hist' \in Histories /\ plan' \in [idx : Nat, last : Answers]
    BY <1>2 DEF TransportFails, Commanding, Fault, Wrapped, Types
  <2> QED BY <2>1, <2>2 DEF Types
<1>3. CASE Kill
  <2>1. proc' \in Processes /\ plan' \in [idx : Nat, last : Answers]
    BY <1>3, StopTyped DEF Kill, Types, Answers
  <2> QED BY <1>3, <2>1 DEF Types, Kill
<1>4. CASE PowerCut
  <2>1. ctl \in Controllers /\ ctl.blk \in Blocks /\ {"part", ctl.content[ctl.blk]} \subseteq Contents
    BY DEF Types, Contents, Controllers
  <2>2. ctl' \in Controllers
    BY <1>4, <2>1, ContentTyped, UnpoweredTyped DEF PowerCut
  <2>3. hist' \in Histories
    BY <1>4 DEF PowerCut, Types, Histories
  <2>4. proc' \in Processes /\ plan' \in [idx : Nat, last : Answers]
    BY <1>4, StopTyped DEF PowerCut, Types, Answers
  <2> QED BY <1>4, <2>2, <2>3, <2>4 DEF Types, PowerCut
<1> QED BY <1>1, <1>2, <1>3, <1>4 DEF Environment

LEMMA CoreTyped ==
  ASSUME Types, Given, Placed, CoreNext
  PROVE  Types'
<1>0. proc \in Processes /\ st \in RunStates /\ proc.st \in RunStates
  BY DEF Types, Processes
<1>1. CASE PowerCycle
  <2>1. proc' \in Processes /\ ctl' \in Controllers
    BY <1>1, UnpoweredTyped, AnswerTyped DEF PowerCycle, Types, Answers
  <2> QED BY <1>1, <2>1 DEF Types, PowerCycle
<1>2. CASE Recorded
  <2>1. \/ plan' = [idx |-> plan.idx + 1, last |-> "ok"] /\ Goto("start")
        \/ Goto("start") /\ UNCHANGED plan
        \/ Stop(proc.res)
    BY <1>2 DEF Recorded
  <2>2. plan \in [idx : Nat, last : Answers] /\ proc.res \in Answers
    BY DEF Types, Processes
  <2>3. [idx |-> plan.idx + 1, last |-> "ok"] \in [idx : Nat, last : Answers]
    BY <2>2 DEF Answers
  <2>4. proc' \in Processes /\ plan' \in [idx : Nat, last : Answers]
    BY <1>0, <2>1, <2>2, <2>3, StopTyped, GotoTyped, ConstantsTyped
  <2> QED BY <1>2, <2>4 DEF Types, Recorded
<1>3. CASE Resume
  <2>1. st' \in RunStates /\ proc' \in Processes
    BY <1>0, <1>3, GotoTyped DEF Resume, Finished, Modes, Phases, PCs, Answers
  <2>2. ctl' \in Controllers /\ hist' \in Histories /\ plan' \in [idx : Nat, last : Answers]
    BY <1>3 DEF Resume, Finished, Types
  <2> QED BY <2>1, <2>2 DEF Types
<1>4. CASE Recover
  <2>1. st' \in RunStates
    BY <1>0, <1>4, ConstantsTyped DEF Recover, RunStates, Modes
  <2>2. ctl' \in Controllers
    BY <1>4, UnpoweredTyped DEF Recover, Types
  <2>3. hist' \in Histories
    BY <1>4 DEF Recover, Types, Histories
  <2> QED BY <1>4, <2>1, <2>2, <2>3 DEF Types, Recover
<1>5. CASE Done
  BY <1>5 DEF Done, vars, Types
<1> QED BY <1>1, <1>2, <1>3, <1>4, <1>5 DEF CoreNext

LEMMA TypesStep ==
  ASSUME Types, Given, Placed, [Next]_vars
  PROVE  Types'
<1>1. CASE UNCHANGED vars
  BY <1>1 DEF Types, vars
<1> QED BY <1>1, ServiceTyped, EraseTyped, QualifyTyped, RebuildTyped, ReadTyped,
           EnvironmentTyped, CoreTyped DEF Next

-----------------------------------------------------------------------------
(* Every step leaves each program counter with its action. *)

LEMMA ServicePlaced ==
  ASSUME Types, Given, Placed, ServiceNext
  PROVE  Placed'
<1> USE DEF Placed, EnterPCs, ExitPCs, MetaPCs, ErasePCs, ProgramPCs, BlockActions, EraseActions
<1>0. /\ proc \in Processes /\ proc.st \in RunStates
      /\ plan \in [idx : Nat, last : Answers] /\ Len(Actions) \in Nat
  BY PlanActions DEF Types, Processes, Actions
<1>k. cfg' = cfg => Actions' = Actions /\ (plan'.idx = plan.idx => Action' = Action)
  BY ActionKept
<1>1. CASE BeginEnter
  BY <1>0, <1>1, <1>k, BeginEnterIs, BeginIs DEF BeginEnter, On, Ready, Finished
<1>2. CASE EnterAsk
  BY <1>0, <1>2, <1>k, WorkIs, SaveIs, AnswerIs DEF EnterAsk, WhenIdle
<1>3. CASE EnterPending
  BY <1>0, <1>3, <1>k, GotoIs, SaveIs, AnswerIs DEF EnterPending, WhenIdle
<1>4. CASE EnterSend
  BY <1>0, <1>4, <1>k, GotoIs, AnswerIs DEF EnterSend
<1>5. CASE EnterSent
  BY <1>0, <1>5, <1>k, SaveAndAnswerIs DEF EnterSent
<1>6. CASE EnterLoad
  <2>1. proc.pc = "enter-load" /\ plan' = plan /\ cfg' = cfg
    BY <1>6 DEF EnterLoad
  <2> QED BY <1>6, <1>0, <1>k, <2>1, EnterLoadIs, GotoIs, SaveIs, AnswerIs
<1>7. CASE EnterPram
  BY <1>0, <1>7, <1>k, GotoIs, AnswerIs DEF EnterPram
<1>8. CASE LoaderSent
  BY <1>0, <1>8, <1>k, SaveAndAnswerIs DEF LoaderSent
<1>9. CASE EnterConfirm
  BY <1>0, <1>9, <1>k, AnswerIs, SaveAndAnswerIs DEF EnterConfirm, WaitIdle
<1>10. CASE BeginExit
  BY <1>0, <1>10, <1>k, BeginExitIs, AnswerIs, BeginIs DEF BeginExit, On, Ready, Finished
<1>11. CASE ExitAsk
  BY <1>0, <1>11, <1>k, GotoIs, AnswerIs DEF ExitAsk, WhenIdle
<1>12. CASE ExitSend
  BY <1>0, <1>12, <1>k, GotoIs, AnswerIs DEF ExitSend
<1>13. CASE ExitSent
  BY <1>0, <1>13, <1>k, SaveAndAnswerIs DEF ExitSent
<1>14. CASE ExitConfirm
  BY <1>0, <1>14, <1>k, AnswerIs, SaveAndAnswerIs DEF ExitConfirm, WaitIdle
<1> QED BY <1>1, <1>2, <1>3, <1>4, <1>5, <1>6, <1>7, <1>8, <1>9, <1>10, <1>11, <1>12, <1>13,
        <1>14
        DEF ServiceNext

LEMMA ErasePlaced ==
  ASSUME Types, Given, Placed, EraseNext
  PROVE  Placed'
<1> USE DEF Placed, EnterPCs, ExitPCs, MetaPCs, ErasePCs, ProgramPCs, BlockActions, EraseActions
<1>0. /\ proc \in Processes /\ proc.st \in RunStates
      /\ plan \in [idx : Nat, last : Answers] /\ Len(Actions) \in Nat
  BY PlanActions DEF Types, Processes, Actions
<1>k. cfg' = cfg => Actions' = Actions /\ (plan'.idx = plan.idx => Action' = Action)
  BY ActionKept
<1>1. CASE BeginErase
  BY <1>0, <1>1, <1>k, AnswerIs, BeginIs DEF BeginErase, Ready, InService, Finished
<1>2. CASE Scan
  BY <1>0, <1>2, <1>k, GotoIs DEF Scan
<1>3. CASE OldWait
  <2>1. Block \in Blocks
    BY <1>0, <1>3, LeastBlock DEF OldWait, Processes
  <2> QED BY <1>0, <1>3, <1>k, <2>1, GotoIs, AnswerIs, EraseFailedIs
       DEF OldWait, WaitIdle, Advanced
<1>4. CASE OldRead
  <2>1. Block \in Blocks
    BY <1>0, <1>4, LeastBlock DEF OldRead, Processes
  <2> QED BY <1>0, <1>4, <1>k, <2>1, GotoIs, AnswerIs, EraseSucceededIs DEF OldRead, Advanced
<1>5. CASE Mark
  BY <1>0, <1>5, <1>k, SaveIs DEF Mark
<1>6. CASE Send
  BY <1>0, <1>6, <1>k, GotoIs, AnswerIs DEF Send, Command
<1>7. CASE Wait
  <2>1. Block \in Blocks
    BY <1>0, <1>7, LeastBlock DEF Wait, Processes
  <2> QED BY <1>0, <1>7, <1>k, <2>1, GotoIs, AnswerIs, EraseFailedIs
       DEF Wait, WaitIdle, Advanced
<1>8. CASE Read
  <2>1. Block \in Blocks
    BY <1>0, <1>8, LeastBlock DEF Read, Processes
  <2> QED BY <1>0, <1>8, <1>k, <2>1, ReadIs, AnswerIs, EraseSucceededIs, EraseGaveUpIs
       DEF Read, Advanced
<1>9. CASE SaveBatch
  BY <1>0, <1>9, <1>k, SaveIs DEF SaveBatch
<1>10. CASE EndErase
  BY <1>0, <1>10, <1>k, SaveIs, SaveAndAnswerIs DEF EndErase
<1>11. CASE Markers
  BY <1>0, <1>11, <1>k, AnswerIs DEF Markers
<1> QED BY <1>1, <1>2, <1>3, <1>4, <1>5, <1>6, <1>7, <1>8, <1>9, <1>10, <1>11 DEF EraseNext

LEMMA QualifyPlaced ==
  ASSUME Types, Given, Placed, QualifyNext
  PROVE  Placed'
<1> USE DEF Placed, EnterPCs, ExitPCs, MetaPCs, ErasePCs, ProgramPCs, BlockActions, EraseActions
<1>0. /\ proc \in Processes /\ proc.st \in RunStates
      /\ plan \in [idx : Nat, last : Answers] /\ Len(Actions) \in Nat
  BY PlanActions DEF Types, Processes, Actions
<1>k. cfg' = cfg => Actions' = Actions /\ (plan'.idx = plan.idx => Action' = Action)
  BY ActionKept
<1>1. CASE BeginQualify
  <2>1. plan.idx <= Len(Actions) /\ Action = "qualify-blocks" /\ plan' = plan /\ cfg' = cfg
    BY <1>1, <1>0 DEF BeginQualify, On, Ready, Finished
  <2> QED BY <1>1, <1>0, <1>k, <2>1, BeginQualifyIs, BeginIs, AnswerIs
<1>2. CASE FlightWait
  BY <1>0, <1>2, <1>k, FlightWaitIs, AnswerIs, BeginIs DEF FlightWait
<1>3. CASE ProgramMark
  BY <1>0, <1>3, <1>k, SaveIs DEF ProgramMark
<1>4. CASE ProgramSend
  BY <1>0, <1>4, <1>k, GotoIs, AnswerIs DEF ProgramSend, Command
<1>5. CASE ProgramWait
  <2>1. Block \in Blocks
    BY <1>0, <1>5, LeastBlock DEF ProgramWait, Processes
  <2> QED BY <1>0, <1>5, <1>k, <2>1, GotoIs, AnswerIs, QualifiedIs
       DEF ProgramWait, WaitIdle, Advanced
<1>6. CASE ProgramRead
  <2>1. Block \in Blocks
    BY <1>0, <1>6, LeastBlock DEF ProgramRead, Processes
  <2> QED BY <1>0, <1>6, <1>k, <2>1, AnswerIs, QualifiedIs DEF ProgramRead, Advanced
<1>7. CASE EndQualify
  BY <1>0, <1>7, <1>k, SaveAndAnswerIs DEF EndQualify
<1> QED BY <1>1, <1>2, <1>3, <1>4, <1>5, <1>6, <1>7 DEF QualifyNext

LEMMA RebuildPlaced ==
  ASSUME Types, Given, Placed, RebuildNext
  PROVE  Placed'
<1> USE DEF Placed, EnterPCs, ExitPCs, MetaPCs, ErasePCs, ProgramPCs, BlockActions, EraseActions
<1>0. /\ proc \in Processes /\ proc.st \in RunStates
      /\ plan \in [idx : Nat, last : Answers] /\ Len(Actions) \in Nat
  BY PlanActions DEF Types, Processes, Actions
<1>k. cfg' = cfg => Actions' = Actions /\ (plan'.idx = plan.idx => Action' = Action)
  BY ActionKept
<1>1. CASE BeginRebuild
  <2>1. plan.idx <= Len(Actions) /\ Action = "rebuild-bbt-ftl" /\ plan' = plan /\ cfg' = cfg
    BY <1>1, <1>0 DEF BeginRebuild, On, Ready, Finished
  <2>2. PhaseIndex(st) \in 0 .. 6
    BY PhaseIndexIs DEF Types, RunStates
  <2>3. \/ proc'.pc = "answer"
        \/ proc'.pc = "metadata" /\ proc'.tries \in 1 .. 6
    BY <1>1, <1>0, <2>2, BeginRebuildIs, AnswerIs, ToMetadataIs
  <2> QED BY <1>0, <1>k, <2>1, <2>3
<1>2. CASE Metadata
  <2>1. proc.pc = "metadata" /\ plan' = plan /\ cfg' = cfg
    BY <1>2 DEF Metadata
  <2>2. \/ proc.tries < 4 /\ Goto("meta-send")
        \/ proc.tries = 4 /\ Goto("meta-save")
        \/ proc.tries = 4 /\ Goto("meta-send")
        \/ proc.tries > 4 /\ Goto("meta-verify")
        \/ Answer("error")
        \/ Answer("interrupted")
    BY <1>2, MetadataIs
  <2>3. proc.tries \in 1 .. 6
    BY <2>1
  <2>4. /\ proc'.tries = proc.tries
        /\ \/ proc'.pc = "answer"
           \/ proc'.pc \in {"meta-send", "meta-save"} /\ proc.tries < 5
           \/ proc'.pc = "meta-verify" /\ proc.tries > 4
    BY <1>0, <2>2, <2>3, GotoIs, AnswerIs
  <2> QED BY <1>0, <1>k, <2>1, <2>4
<1>3. CASE MetaSend
  BY <1>0, <1>3, <1>k, GotoIs, AnswerIs DEF MetaSend, Command
<1>4. CASE MetaWait
  BY <1>0, <1>4, <1>k, GotoIs, AnswerIs DEF MetaWait, WaitIdle
<1>5. CASE MetaSave
  BY <1>0, <1>5, <1>k DEF MetaSave
<1>6. CASE MetaVerify
  BY <1>0, <1>6, <1>k, AnswerIs, SaveAndAnswerIs DEF MetaVerify, WhenIdle
<1> QED BY <1>1, <1>2, <1>3, <1>4, <1>5, <1>6 DEF RebuildNext

LEMMA ReadPlaced ==
  ASSUME Types, Given, Placed, ReadNext
  PROVE  Placed'
<1> USE DEF Placed, EnterPCs, ExitPCs, MetaPCs, ErasePCs, ProgramPCs, BlockActions, EraseActions
<1>0. /\ proc \in Processes /\ proc.st \in RunStates
      /\ plan \in [idx : Nat, last : Answers] /\ Len(Actions) \in Nat
  BY PlanActions DEF Types, Processes, Actions
<1>k. cfg' = cfg => Actions' = Actions /\ (plan'.idx = plan.idx => Action' = Action)
  BY ActionKept
<1>1. CASE Inventory
  BY <1>0, <1>1, <1>k, AnswerIs, SaveAndAnswerIs DEF Inventory, On, WhenIdle, Ready, Finished
<1>2. CASE CaptureOldBbt
  BY <1>0, <1>2, <1>k, AnswerIs, SaveAndAnswerIs DEF CaptureOldBbt, On, Ready, Finished
<1>3. CASE BeginEnumerate
  BY <1>0, <1>3, <1>k, BeginIs DEF BeginEnumerate, On, Ready, Finished
<1>4. CASE EnumerateBatch
  <2>1. proc.pc = "batch" /\ plan' = plan /\ cfg' = cfg
    BY <1>4 DEF EnumerateBatch
  <2>2. proc'.pc \in {"answer", "batch"} /\ proc'.tries = proc.tries
    BY <1>4, <1>0, <2>1, EnumerateBatchIs, SaveAndAnswerIs, AnswerIs, BatchedIs
  <2> QED BY <1>0, <1>k, <2>1, <2>2
<1>5. CASE VerifyErasure
  BY <1>0, <1>5, <1>k, VerifyErasureIs, AnswerIs, SaveAndAnswerIs
     DEF VerifyErasure, On, Ready, Finished
<1>6. CASE ReEnumeration
  BY <1>0, <1>6, <1>k, AnswerIs DEF ReEnumeration, On, Ready, Finished
<1>7. CASE Postcheck
  BY <1>0, <1>7, <1>k, AnswerIs DEF Postcheck, Ready, WhenIdle, Finished
<1> QED BY <1>1, <1>2, <1>3, <1>4, <1>5, <1>6, <1>7 DEF ReadNext

LEMMA EnvironmentPlaced ==
  ASSUME Types, Given, Placed, Environment
  PROVE  Placed'
<1> USE DEF Placed, EnterPCs, ExitPCs, MetaPCs, ErasePCs, ProgramPCs, BlockActions, EraseActions
<1>0. /\ proc \in Processes /\ proc.st \in RunStates
      /\ plan \in [idx : Nat, last : Answers] /\ Len(Actions) \in Nat
  BY PlanActions DEF Types, Processes, Actions
<1>k. cfg' = cfg => Actions' = Actions /\ (plan'.idx = plan.idx => Action' = Action)
  BY ActionKept
<1>1. CASE Finish
  BY <1>0, <1>1, <1>k, FinishIs DEF Finish
<1>2. CASE TransportFails
  BY <1>0, <1>2, <1>k, AnswerIs DEF TransportFails, Commanding, Wrapped
<1>3. CASE Kill
  BY <1>0, <1>3, <1>k, StopIs DEF Kill, Finished
<1>4. CASE PowerCut
  BY <1>0, <1>4, <1>k, StopIs DEF PowerCut, Finished
<1> QED BY <1>1, <1>2, <1>3, <1>4 DEF Environment

LEMMA CorePlaced ==
  ASSUME Types, Given, Placed, CoreNext
  PROVE  Placed'
<1> USE DEF Placed, EnterPCs, ExitPCs, MetaPCs, ErasePCs, ProgramPCs, BlockActions, EraseActions
<1>0. /\ proc \in Processes /\ proc.st \in RunStates
      /\ plan \in [idx : Nat, last : Answers] /\ Len(Actions) \in Nat
  BY PlanActions DEF Types, Processes, Actions
<1>k. cfg' = cfg => Actions' = Actions /\ (plan'.idx = plan.idx => Action' = Action)
  BY ActionKept
<1>1. CASE PowerCycle
  BY <1>0, <1>1, <1>k, AnswerIs DEF PowerCycle, On, Ready, Finished
<1>2. CASE Recorded
  BY <1>0, <1>2, <1>k, GotoIs, StopIs DEF Recorded
<1>3. CASE Resume
  BY <1>0, <1>3, <1>k, GotoIs DEF Resume, Finished
<1>4. CASE Recover
  BY <1>0, <1>4, <1>k DEF Recover, Finished
<1>5. CASE Done
  BY <1>5 DEF Done, vars, Action, Actions
<1> QED BY <1>1, <1>2, <1>3, <1>4, <1>5 DEF CoreNext

LEMMA PlacedStep ==
  ASSUME Types, Given, Placed, [Next]_vars
  PROVE  Placed'
<1>1. CASE UNCHANGED vars
  BY <1>1 DEF Placed, vars, Action, Actions
<1> QED BY <1>1, ServicePlaced, ErasePlaced, QualifyPlaced, RebuildPlaced, ReadPlaced,
           EnvironmentPlaced, CorePlaced DEF Next

LEMMA GivenStep ==
  ASSUME Given, [Next]_vars
  PROVE  Given' /\ cfg' = cfg
<1>1. ServiceNext => cfg' = cfg
  BY
       DEF ServiceNext, BeginEnter, EnterAsk, EnterPending, EnterSend, EnterSent, EnterLoad,
           EnterPram, LoaderSent, EnterConfirm, BeginExit, ExitAsk, ExitSend, ExitSent,
           ExitConfirm
<1>2. EraseNext => cfg' = cfg
  BY
       DEF EraseNext, BeginErase, Scan, OldWait, OldRead, Mark, Send, Wait, Read, SaveBatch,
           EndErase, Markers
<1>3. QualifyNext => cfg' = cfg
  BY
       DEF QualifyNext, BeginQualify, FlightWait, ProgramMark, ProgramSend, ProgramWait,
           ProgramRead, EndQualify
<1>4. RebuildNext => cfg' = cfg
  BY DEF RebuildNext, BeginRebuild, Metadata, MetaSend, MetaWait, MetaSave, MetaVerify
<1>5. ReadNext => cfg' = cfg
  BY
       DEF ReadNext, Inventory, CaptureOldBbt, BeginEnumerate, EnumerateBatch, VerifyErasure,
           ReEnumeration, Postcheck
<1>6. Environment => cfg' = cfg
  BY DEF Environment, Finish, TransportFails, Kill, PowerCut
<1>7. CoreNext => cfg' = cfg
  BY DEF CoreNext, PowerCycle, Recorded, Resume, Recover, Done, vars
<1>8. cfg' = cfg
  BY <1>1, <1>2, <1>3, <1>4, <1>5, <1>6, <1>7 DEF Next, vars
<1> QED BY <1>8 DEF Given, InTable, OldTable

-----------------------------------------------------------------------------
(* A state that sets the protected blocks apart goes on doing so. *)

LEMMA ReachedIs ==
  ASSUME Types
  PROVE  /\ Reached \in {plan.idx, plan.idx + 1}
         /\ Reached > plan.idx => proc.pc = "answer" /\ proc.res \in {"ok", "partial"}
         /\ proc.pc = "answer" /\ proc.res \in {"ok", "partial"} => Reached = plan.idx + 1
  BY DEF Reached, Types

LEMMA ApartLess ==
  ASSUME NEW s, NEW n \in Nat, NEW m \in Nat, m <= n, Apart(s, n)
  PROVE  Apart(s, m)
  BY DEF Apart, MarkersIndex

LEMMA ApartSame ==
  ASSUME NEW s, NEW t, NEW n, Apart(s, n), t.disp = s.disp, t.rbb = s.rbb,
         t.flight = s.flight \/ t.flight = NoFlight
  PROVE  Apart(t, n)
  BY DEF Apart, NoFlight

LEMMA ModeApart ==
  ASSUME NEW s \in RunStates, NEW n, Apart(s, n), NEW m
  PROVE  Apart([s EXCEPT !.mode = m], n)
  BY ApartSame DEF RunStates

LEMMA PhaseApart ==
  ASSUME NEW s \in RunStates, NEW n, Apart(s, n), NEW p
  PROVE  Apart([s EXCEPT !.phase = p], n)
  BY ApartSame DEF RunStates

LEMMA ModePhaseApart ==
  ASSUME NEW s \in RunStates, NEW n, Apart(s, n), NEW m, NEW p
  PROVE  Apart([s EXCEPT !.mode = m, !.phase = p], n)
<1> DEFINE t == [s EXCEPT !.mode = m, !.phase = p]
<1>1. t.disp = s.disp /\ t.rbb = s.rbb /\ t.flight = s.flight
  BY DEF RunStates
<1> HIDE DEF t
<1> QED BY <1>1, ApartSame DEF t

LEMMA LandedApart ==
  ASSUME NEW s \in RunStates, NEW n, Apart(s, n)
  PROVE  Apart(Landed(s), n)
  BY LandedIs, ApartSame DEF OnlyBlock

LEMMA ClassifiedApart ==
  ASSUME Given, NEW s \in RunStates, NEW n, Apart(s, n)
  PROVE  Apart(Classified(s), n)
<1>1. cfg.marked \subseteq Blocks \ SystemBlocks
  BY DEF Given
<1>2. \A b \in cfg.marked : Classified(s).disp[b] = s.disp[b]
  BY <1>1, ClassifiedIs
<1> QED BY <1>2, ClassifiedIs DEF Apart

LEMMA OnlyBlockApart ==
  ASSUME Given, NEW s, NEW t, NEW n, Apart(s, n), OnlyBlock(t, s), Block \notin Protected
  PROVE  Apart(t, n)
<1>1. Protected \subseteq Blocks
  BY SystemAssumption DEF Given, Protected
<1>2. \A b \in Protected : t.disp[b] = s.disp[b]
  BY <1>1 DEF OnlyBlock
<1> QED BY <1>2 DEF Apart, OnlyBlock, NoFlight, Protected

LEMMA TargetsApart ==
  ASSUME Given, NEW s \in RunStates, Action \in BlockActions, NEW n \in Nat,
         n > 1, n > MarkersIndex, Apart(s, n)
  PROVE  Targets(s) \cap Protected = {}
<1>1. \A b \in Protected : /\ s.disp[b] \in {"factory-bad", "system-preserved"}
                           /\ b \notin s.rbb
  BY DEF Apart, Protected
<1> QED BY <1>1 DEF Targets, Among, BlockActions, EraseActions

LEMMA ApartStep ==
  ASSUME NEW s, NEW n \in Nat, n \notin {1, MarkersIndex}, n > 0, Apart(s, n)
  PROVE  Apart(s, n + 1)
  BY DEF Apart, MarkersIndex

\* What an action has to show that is neither the inventory nor the search
\* for markers.
LEMMA ProtectFrame ==
  ASSUME Types, Types', ProtectInv, cfg' = cfg, plan' = plan, proc.pc # "answer",
         plan.idx \in Nat \ {0, 1, MarkersIndex},
         ctl'.content = ctl.content,
         ctl'.op \in {"erase-block", "program-page"} =>
            \/ ctl'.op = ctl.op /\ ctl'.blk = ctl.blk
            \/ ctl'.blk \notin Protected,
         Apart(st', plan.idx),
         proc'.pc \in Loaded => Apart(proc'.st, plan.idx),
         WorksOn' => proc'.todo \cap Protected = {},
         proc'.pc = "flight-wait" => proc'.st.flight.op # "none"
  PROVE  ProtectInv'
<1>1. Reached' \in {plan.idx, plan.idx + 1}
  BY DEF Reached
<1>2. \A s : Apart(s, plan.idx) => Apart(s, Reached')
  BY <1>1, ApartStep
<1>3. Apart(st', Reached') /\ (proc'.pc \in Loaded => Apart(proc'.st, Reached'))
  BY <1>2
<1>4. /\ \A b \in cfg.marked : ctl'.content[b] = "marker"
      /\ \A b \in Preserved : ctl'.content[b] = "system"
      /\ ctl'.op \in {"erase-block", "program-page"} => ctl'.blk \notin Protected
  BY DEF ProtectInv
<1> QED BY <1>3, <1>4 DEF ProtectInv, Apart, MarkersIndex, Protected

LEMMA ReachedNow ==
  ASSUME Types, ProtectInv, proc.pc # "answer"
  PROVE  Apart(st, plan.idx) /\ (proc.pc \in Loaded => Apart(proc.st, plan.idx))
  BY DEF Reached, ProtectInv

LEMMA ServiceLeaves ==
  ASSUME Types, ServiceNext
  PROVE  /\ cfg' = cfg /\ plan' = plan /\ proc.pc # "answer"
         /\ ctl'.content = ctl.content /\ ctl'.op = ctl.op /\ ctl'.blk = ctl.blk
         /\ ctl'.prepared = ctl.prepared /\ ctl'.committed = ctl.committed /\ ctl'.cap = ctl.cap
         /\ proc.pc = "start" \/ proc.pc \in EnterPCs \cup ExitPCs
<1> USE DEF EnterPCs, ExitPCs
<1>0. ctl \in Controllers
  BY DEF Types
<1>1. CASE BeginEnter \/ EnterAsk \/ EnterPending \/ EnterSend
  BY <1>0, <1>1
     DEF BeginEnter, EnterAsk, EnterPending, EnterSend, On, Ready, WhenIdle, Controllers
<1>2. CASE EnterSent \/ EnterLoad \/ EnterPram \/ LoaderSent \/ EnterConfirm
  BY <1>0, <1>2
     DEF EnterSent, EnterLoad, EnterPram, LoaderSent, EnterConfirm, WaitIdle, Controllers
<1>3. CASE BeginExit \/ ExitAsk \/ ExitSend \/ ExitSent \/ ExitConfirm
  BY <1>0, <1>3
     DEF BeginExit, ExitAsk, ExitSend, ExitSent, ExitConfirm, On, Ready, WhenIdle, WaitIdle, Controllers
<1> QED BY <1>1, <1>2, <1>3 DEF ServiceNext

LEMMA ServiceIndex ==
  ASSUME Types, Given, Placed, ServiceNext
  PROVE  plan.idx = 3 \/ plan.idx > RebuildIndex
<1>1. CASE proc.pc \in EnterPCs \cup ExitPCs
  <2>1. /\ plan.idx \in 1 .. Len(Actions)
        /\ Action \in {"enter-service-mode", "exit-service-mode"}
    BY <1>1 DEF Placed, EnterPCs, ExitPCs
  <2> QED BY <2>1, Order
<1>2. CASE BeginEnter \/ BeginExit
  <2>1. /\ plan.idx \in 1 .. Len(Actions)
        /\ Action \in {"enter-service-mode", "exit-service-mode"}
    BY <1>2, PlanActions DEF Placed, BeginEnter, BeginExit, On, Ready, Finished, Types, Actions
  <2> QED BY <2>1, Order
<1> QED BY <1>1, <1>2 DEF ServiceNext, EnterAsk, EnterPending, EnterSend, EnterSent, EnterLoad,
             EnterPram, LoaderSent, EnterConfirm, ExitAsk, ExitSend, ExitSent, ExitConfirm,
             EnterPCs, ExitPCs

\* The ways a step can end: on to the next one, an answer, with a save or
\* without.
Ends(s, pcs) ==
  \/ UNCHANGED st /\ \E p \in pcs : Goto(p)
  \/ UNCHANGED st /\ \E r \in Answers : Answer(r)
  \/ \E p \in pcs : Save(p, s)
  \/ \E r \in Answers : SaveAndAnswer(s, r)

LEMMA EndsIs ==
  ASSUME proc \in Processes, NEW s, NEW pcs, Ends(s, pcs)
  PROVE  /\ proc'.todo = proc.todo
         /\ \/ st' = st /\ proc'.st = proc.st
            \/ st' = s /\ proc'.st = s
         /\ proc'.pc \in pcs \cup {"answer"}
  BY GotoIs, AnswerIs, SaveIs, SaveAndAnswerIs DEF Ends

LEMMA EndsApart ==
  ASSUME proc \in Processes, NEW s, NEW pcs, NEW n, Ends(s, pcs),
         Apart(st, n), Apart(proc.st, n), Apart(s, n)
  PROVE  /\ Apart(st', n) /\ Apart(proc'.st, n) /\ proc'.todo = proc.todo
         /\ proc'.pc \in pcs \cup {"answer"}
  BY EndsIs

LEMMA ServiceProtect ==
  ASSUME Types, Types', Given, Placed, ProtectInv, ServiceNext
  PROVE  ProtectInv'
<1> DEFINE Fine == /\ Apart(st', plan.idx)
                   /\ proc'.pc \in Loaded => Apart(proc'.st, plan.idx)
                   /\ proc'.pc \in EnterPCs \cup ExitPCs \cup {"answer"}
<1>0. proc \in Processes /\ st \in RunStates /\ proc.st \in RunStates
  BY DEF Types, Processes
<1>1. /\ cfg' = cfg /\ plan' = plan /\ proc.pc # "answer"
      /\ ctl'.content = ctl.content /\ ctl'.op = ctl.op /\ ctl'.blk = ctl.blk
  BY ServiceLeaves
<1>2. plan.idx \in Nat \ {0, 1, MarkersIndex}
  BY ServiceIndex DEF MarkersIndex, RebuildIndex, Types
<1>3. /\ Apart(st, plan.idx)
      /\ proc.pc \in EnterPCs \cup ExitPCs => Apart(proc.st, plan.idx)
  BY <1>1, ReachedNow DEF Loaded, EnterPCs, ExitPCs, PCs
<1>4. Fine
  <2>1. CASE BeginEnter
    <3>1. st' = st
      BY <2>1 DEF BeginEnter
    <3> QED BY <1>3, <2>1, <3>1, BeginEnterIs DEF EnterPCs
  <2>2. CASE EnterAsk
    <3> DEFINE inService == [st EXCEPT !.mode = "in-service"]
               pending == [st EXCEPT !.mode = "entry-command-pending", !.phase = "other"]
    <3>1. Apart(inService, plan.idx) /\ Apart(pending, plan.idx)
      BY <1>0, <1>3, ModeApart, ModePhaseApart
    <3>2. \/ Work("enter-confirm", inService) /\ UNCHANGED st
          \/ Save("enter-pending", pending)
          \/ UNCHANGED st /\ \E r \in Answers : Answer(r)
      BY <2>2 DEF EnterAsk, WhenIdle, Answers
    <3> HIDE DEF inService, pending
    <3> QED BY <1>0, <1>3, <3>1, <3>2, WorkIs, SaveIs, AnswerIs DEF EnterPCs, Loaded
  <2>3. CASE BeginExit
    <3> DEFINE pending == [st EXCEPT !.mode = "exit-command-pending", !.phase = "other"]
    <3>1. Apart(pending, plan.idx)
      BY <1>0, <1>3, ModePhaseApart
    <3>2. \/ st' = pending /\ proc'.pc = "exit-ask" /\ proc'.st = st'
          \/ st' = st /\ proc'.pc \in {"exit-ask", "exit-confirm"} /\ proc'.st = st
          \/ st' = st /\ Answer("refused")
      BY <2>3, BeginExitIs
    <3> HIDE DEF pending
    <3> QED BY <1>0, <1>3, <3>1, <3>2, AnswerIs DEF ExitPCs, Loaded
  <2>4. CASE EnterPending
    <3> DEFINE s == [proc.st EXCEPT !.mode = "entry-reenumerating"]
    <3>1. proc.pc \in EnterPCs \cup ExitPCs
      BY <2>4 DEF EnterPending, EnterPCs, ExitPCs
    <3>2. Apart(s, plan.idx)
      BY <1>0, <1>3, <3>1, ModeApart
    <3>3. Ends(s, {"enter-load", "enter-send"})
      BY <2>4 DEF EnterPending, Ends, Answers, WhenIdle
    <3> HIDE DEF s
    <3> QED BY <1>0, <1>3, <3>1, <3>2, <3>3, EndsApart DEF EnterPCs, ExitPCs
  <2>5. CASE EnterSend
    <3>1. proc.pc \in EnterPCs \cup ExitPCs
      BY <2>5 DEF EnterSend, EnterPCs, ExitPCs
    <3>3. Ends(proc.st, {"enter-sent", "enter-confirm"})
      BY <2>5 DEF EnterSend, Ends, Answers
    <3> QED BY <1>0, <1>3, <3>1, <3>3, EndsApart DEF EnterPCs, ExitPCs
  <2>6. CASE EnterSent
    <3> DEFINE s == [proc.st EXCEPT !.mode = "entry-reenumerating", !.phase = "other"]
    <3>1. proc.pc \in EnterPCs \cup ExitPCs
      BY <2>6 DEF EnterSent, EnterPCs, ExitPCs
    <3>2. Apart(s, plan.idx)
      BY <1>0, <1>3, <3>1, ModePhaseApart
    <3>3. Ends(s, {})
      BY <2>6 DEF EnterSent, Ends, Answers
    <3> HIDE DEF s
    <3> QED BY <1>0, <1>3, <3>1, <3>2, <3>3, EndsApart DEF EnterPCs, ExitPCs
  <2>7. CASE EnterLoad
    <3> DEFINE s == [proc.st EXCEPT !.mode = "loader-command-pending", !.phase = "other"]
    <3>1. proc.pc \in EnterPCs \cup ExitPCs
      BY <2>7 DEF EnterLoad, EnterPCs, ExitPCs
    <3>2. Apart(s, plan.idx)
      BY <1>0, <1>3, <3>1, ModePhaseApart
    <3>3. Ends(s, {"enter-confirm", "enter-pram"})
      BY <2>7, EnterLoadIs DEF Ends, Answers
    <3> HIDE DEF s
    <3> QED BY <1>0, <1>3, <3>1, <3>2, <3>3, EndsApart DEF EnterPCs, ExitPCs
  <2>8. CASE EnterPram
    <3>1. proc.pc \in EnterPCs \cup ExitPCs
      BY <2>8 DEF EnterPram, EnterPCs, ExitPCs
    <3>3. Ends(proc.st, {"loader-sent", "enter-confirm"})
      BY <2>8 DEF EnterPram, Ends, Answers
    <3> QED BY <1>0, <1>3, <3>1, <3>3, EndsApart DEF EnterPCs, ExitPCs
  <2>9. CASE LoaderSent
    <3> DEFINE s == [proc.st EXCEPT !.mode = "loader-reenumerating", !.phase = "other"]
    <3>1. proc.pc \in EnterPCs \cup ExitPCs
      BY <2>9 DEF LoaderSent, EnterPCs, ExitPCs
    <3>2. Apart(s, plan.idx)
      BY <1>0, <1>3, <3>1, ModePhaseApart
    <3>3. Ends(s, {})
      BY <2>9 DEF LoaderSent, Ends, Answers
    <3> HIDE DEF s
    <3> QED BY <1>0, <1>3, <3>1, <3>2, <3>3, EndsApart DEF EnterPCs, ExitPCs
  <2>10. CASE EnterConfirm
    <3> DEFINE s == [proc.st EXCEPT !.mode = "in-service", !.phase = "other"]
    <3>1. proc.pc \in EnterPCs \cup ExitPCs
      BY <2>10 DEF EnterConfirm, EnterPCs, ExitPCs
    <3>2. Apart(s, plan.idx)
      BY <1>0, <1>3, <3>1, ModePhaseApart
    <3>3. Ends(s, {})
      BY <2>10 DEF EnterConfirm, Ends, Answers, WaitIdle
    <3> HIDE DEF s
    <3> QED BY <1>0, <1>3, <3>1, <3>2, <3>3, EndsApart DEF EnterPCs, ExitPCs
  <2>11. CASE ExitAsk
    <3>1. proc.pc \in EnterPCs \cup ExitPCs
      BY <2>11 DEF ExitAsk, EnterPCs, ExitPCs
    <3>3. Ends(proc.st, {"exit-send", "exit-confirm"})
      BY <2>11 DEF ExitAsk, Ends, Answers, WhenIdle
    <3> QED BY <1>0, <1>3, <3>1, <3>3, EndsApart DEF EnterPCs, ExitPCs
  <2>12. CASE ExitSend
    <3>1. proc.pc \in EnterPCs \cup ExitPCs
      BY <2>12 DEF ExitSend, EnterPCs, ExitPCs
    <3>3. Ends(proc.st, {"exit-sent", "exit-confirm"})
      BY <2>12 DEF ExitSend, Ends, Answers
    <3> QED BY <1>0, <1>3, <3>1, <3>3, EndsApart DEF EnterPCs, ExitPCs
  <2>13. CASE ExitSent
    <3> DEFINE s == [proc.st EXCEPT !.mode = "exit-reenumerating", !.phase = "other"]
    <3>1. proc.pc \in EnterPCs \cup ExitPCs
      BY <2>13 DEF ExitSent, EnterPCs, ExitPCs
    <3>2. Apart(s, plan.idx)
      BY <1>0, <1>3, <3>1, ModePhaseApart
    <3>3. Ends(s, {})
      BY <2>13 DEF ExitSent, Ends, Answers
    <3> HIDE DEF s
    <3> QED BY <1>0, <1>3, <3>1, <3>2, <3>3, EndsApart DEF EnterPCs, ExitPCs
  <2>14. CASE ExitConfirm
    <3> DEFINE s == [proc.st EXCEPT !.mode = "normal", !.phase = "other"]
    <3>1. proc.pc \in EnterPCs \cup ExitPCs
      BY <2>14 DEF ExitConfirm, EnterPCs, ExitPCs
    <3>2. Apart(s, plan.idx)
      BY <1>0, <1>3, <3>1, ModePhaseApart
    <3>3. Ends(s, {})
      BY <2>14 DEF ExitConfirm, Ends, Answers, WaitIdle
    <3> HIDE DEF s
    <3> QED BY <1>0, <1>3, <3>1, <3>2, <3>3, EndsApart DEF EnterPCs, ExitPCs
  <2> HIDE DEF Fine
  <2> QED BY <2>1, <2>2, <2>3, <2>4, <2>5, <2>6, <2>7, <2>8, <2>9, <2>10, <2>11, <2>12, <2>13,
             <2>14 DEF ServiceNext
<1>5. ~WorksOn' /\ proc'.pc # "flight-wait"
  BY <1>4 DEF WorksOn, ErasePCs, ProgramPCs, EnterPCs, ExitPCs
<1> QED BY <1>1, <1>2, <1>4, <1>5, ProtectFrame

-----------------------------------------------------------------------------
(* Erasing and qualifying leave the protected blocks alone. *)

LEMMA FlightApart ==
  ASSUME NEW s \in RunStates, NEW n, Apart(s, n), NEW o, NEW b, b \notin Protected
  PROVE  Apart([s EXCEPT !.flight = [op |-> o, blk |-> b]], n)
<1> DEFINE t == [s EXCEPT !.flight = [op |-> o, blk |-> b]]
<1>1. t.disp = s.disp /\ t.rbb = s.rbb /\ t.flight.blk = b
  BY DEF RunStates
<1> HIDE DEF t
<1>2. Apart(t, n)
  BY <1>1 DEF Apart
<1> QED BY <1>2 DEF t

LEMMA WorkBlock ==
  ASSUME Types, Placed, ProtectInv,
         proc.pc \in (ErasePCs \ {"scan"}) \cup (ProgramPCs \ {"flight-wait"})
  PROVE  Block \in Blocks /\ Block \notin Protected
<1>1. proc.todo \subseteq Blocks /\ proc.todo # {} /\ proc.todo \cap Protected = {}
  BY DEF Types, Processes, Placed, ProtectInv, WorksOn
<1> QED BY <1>1, LeastBlock

LEMMA CommandIs ==
  ASSUME Types, NEW op, NEW b, NEW p, Command(op, b, p)
  PROVE  /\ ctl'.content = ctl.content /\ ctl'.committed = ctl.committed
         /\ ctl'.mode = ctl.mode /\ st' = st
         /\ \/ ctl' = ctl /\ Answer("interrupted")
            \/ /\ ~Busy /\ ctl.mode = "service"
               /\ ctl'.op = op /\ ctl'.blk = b /\ ctl'.failed = FALSE
               /\ Goto(p) \/ Answer("interrupted")
<1>1. /\ Accepted(op, b).content = ctl.content /\ Accepted(op, b).committed = ctl.committed
      /\ Accepted(op, b).mode = ctl.mode
      /\ Accepted(op, b).op = op /\ Accepted(op, b).blk = b /\ Accepted(op, b).failed = FALSE
  BY DEF Accepted, Types, Controllers
<1> QED BY <1>1 DEF Command, Accepts

LEMMA EraseLeaves ==
  ASSUME Types, Placed, ProtectInv, EraseNext
  PROVE  /\ cfg' = cfg /\ plan' = plan /\ proc.pc # "answer"
         /\ ctl'.content = ctl.content
         /\ \/ ctl'.op = ctl.op /\ ctl'.blk = ctl.blk
            \/ ctl'.blk \notin Protected
<1>1. CASE Send
  <2>1. Command("erase-block", Block, "wait") /\ proc.pc = "send" /\ cfg' = cfg /\ plan' = plan
    BY <1>1 DEF Send
  <2> QED BY <2>1, CommandIs, WorkBlock DEF ErasePCs
<1>2. CASE BeginErase \/ Scan \/ OldWait \/ OldRead \/ Mark
  BY <1>2 DEF BeginErase, Scan, OldWait, OldRead, Mark, WaitIdle, Ready
<1>3. CASE Wait \/ Read \/ SaveBatch \/ EndErase \/ Markers
  BY <1>3 DEF Wait, Read, SaveBatch, EndErase, Markers, WaitIdle
<1> QED BY <1>1, <1>2, <1>3 DEF EraseNext

LEMMA QualifyLeaves ==
  ASSUME Types, Placed, ProtectInv, QualifyNext
  PROVE  /\ cfg' = cfg /\ plan' = plan /\ proc.pc # "answer"
         /\ ctl'.content = ctl.content
         /\ \/ ctl'.op = ctl.op /\ ctl'.blk = ctl.blk
            \/ ctl'.blk \notin Protected
<1>1. CASE ProgramSend
  <2>1. /\ Command("program-page", Block, "program-wait") /\ proc.pc = "program-send"
        /\ cfg' = cfg /\ plan' = plan
    BY <1>1 DEF ProgramSend
  <2> QED BY <2>1, CommandIs, WorkBlock DEF ProgramPCs
<1>2. CASE BeginQualify \/ FlightWait \/ ProgramMark \/ ProgramWait \/ ProgramRead \/ EndQualify
  BY <1>2 DEF BeginQualify, FlightWait, ProgramMark, ProgramWait, ProgramRead, EndQualify,
              WaitIdle, On, Ready
<1> QED BY <1>1, <1>2 DEF QualifyNext

LEMMA BlockActionIndex ==
  ASSUME Types, Given, Placed, EraseNext \/ QualifyNext
  PROVE  /\ plan.idx > 3 /\ plan.idx > MarkersIndex /\ plan.idx < RebuildIndex
         /\ Action \in BlockActions
         /\ proc.pc = "start" \/ WorksOn \/ proc.pc = "markers"
<1>1. plan.idx \in 1 .. Len(Actions) /\ Action \in BlockActions
  <2>1. CASE BeginErase \/ BeginQualify
    BY <2>1, PlanActions DEF Placed, BeginErase, BeginQualify, On, Ready, Finished, Types,
                             Actions, BlockActions
  <2>2. CASE WorksOn \/ proc.pc = "markers"
    <3>1. proc.pc # "start"
      BY <2>2 DEF WorksOn, ErasePCs, ProgramPCs
    <3> QED BY <2>2, <3>1 DEF Placed, WorksOn, BlockActions, EraseActions
  <2>3. EraseNext => BeginErase \/ WorksOn \/ proc.pc = "markers"
    BY DEF EraseNext, Scan, OldWait, OldRead, Mark, Send, Wait, Read, SaveBatch, EndErase,
           Markers, ErasePCs, WorksOn
  <2>4. QualifyNext => BeginQualify \/ WorksOn
    BY DEF QualifyNext, FlightWait, ProgramMark, ProgramSend, ProgramWait, ProgramRead,
           EndQualify, ErasePCs, ProgramPCs, WorksOn
  <2> QED BY <2>1, <2>2, <2>3, <2>4
<1>2. proc.pc = "start" \/ WorksOn \/ proc.pc = "markers"
  BY DEF EraseNext, QualifyNext, BeginErase, Scan, OldWait, OldRead, Mark, Send, Wait, Read,
         SaveBatch, EndErase, Markers, BeginQualify, FlightWait, ProgramMark, ProgramSend,
         ProgramWait, ProgramRead, EndQualify, ErasePCs, ProgramPCs, WorksOn, On, Ready
<1> QED BY <1>1, <1>2, Order

LEMMA EraseProtect ==
  ASSUME Types, Types', Given, Placed, ProtectInv, EraseNext
  PROVE  ProtectInv'
<1> DEFINE Fine == /\ Apart(st', plan.idx)
                   /\ proc'.pc \in Loaded => Apart(proc'.st, plan.idx)
                   /\ proc'.pc # "answer" => proc'.todo \cap Protected = {}
                   /\ proc'.pc # "flight-wait"
<1>0. proc \in Processes /\ st \in RunStates /\ proc.st \in RunStates /\ plan.idx \in Nat
  BY DEF Types, Processes
<1>1. /\ cfg' = cfg /\ plan' = plan /\ proc.pc # "answer"
      /\ ctl'.content = ctl.content
      /\ \/ ctl'.op = ctl.op /\ ctl'.blk = ctl.blk
         \/ ctl'.blk \notin Protected
  BY EraseLeaves
<1>2. /\ plan.idx > 3 /\ plan.idx > MarkersIndex /\ Action \in BlockActions
      /\ proc.pc = "start" \/ WorksOn \/ proc.pc = "markers"
  BY BlockActionIndex
<1>3. /\ Apart(st, plan.idx)
      /\ proc.pc # "start" => Apart(proc.st, plan.idx)
      /\ WorksOn => proc.todo \cap Protected = {}
  BY <1>1, <1>2, ReachedNow DEF ProtectInv, Loaded, WorksOn, ErasePCs, ProgramPCs, PCs
<1>4. proc.pc \in ErasePCs \ {"scan"} => Block \in Blocks /\ Block \notin Protected
  BY WorkBlock
<1>5. ASSUME NEW s, Advanced(s), Apart(s, plan.idx), proc.pc \in ErasePCs \ {"scan"},
             Apart(st', plan.idx)
      PROVE  Fine
  BY <1>3, <1>4, <1>5, OnlyBlockApart DEF Advanced, WorksOn, Loaded
<1>6. Fine
  <2>1. CASE BeginErase
    <3> DEFINE s == Classified(st)
    <3>1. s \in RunStates /\ Apart(s, plan.idx)
      BY <1>0, <1>3, ClassifiedTyped, ClassifiedApart
    <3>2. Targets(s) \cap Protected = {}
      BY <1>0, <1>2, <3>1, TargetsApart
    <3>3. UNCHANGED st /\ (Begin("scan", s, Targets(s)) \/ Answer("refused"))
      BY <2>1 DEF BeginErase, InService
    <3> HIDE DEF s
    <3> QED BY <1>0, <1>3, <3>1, <3>2, <3>3, BeginIs, AnswerIs DEF Loaded
  <2>2. CASE Scan
    BY <1>0, <1>3, <2>2, GotoIs DEF Scan, WorksOn, ErasePCs
  <2>3. CASE OldWait \/ Wait
    <3>1. /\ proc.pc \in ErasePCs \ {"scan"} /\ WorksOn
          /\ \/ (Goto("old-read") \/ Goto("read")) /\ UNCHANGED st
             \/ EraseFailed
             \/ Answer("interrupted") /\ UNCHANGED st
      BY <2>3 DEF OldWait, Wait, WaitIdle, ErasePCs, WorksOn
    <3>2. CASE EraseFailed
      <4>1. Apart(Landed(proc.st), plan.idx) /\ Apart(proc.st, plan.idx)
        BY <1>0, <1>3, <3>1, LandedApart DEF ErasePCs
      <4>2. /\ Apart(st', plan.idx)
            /\ Advanced(proc.st) \/ proc'.pc = "answer"
        BY <1>4, <3>1, <3>2, <4>1, EraseFailedIs
      <4> QED BY <1>5, <3>1, <4>1, <4>2 DEF Loaded
    <3> QED BY <1>0, <1>3, <3>1, <3>2, GotoIs, AnswerIs DEF Loaded, ErasePCs
  <2>4. CASE OldRead \/ Read
    <3>1. /\ proc.pc \in ErasePCs \ {"scan"} /\ WorksOn
          /\ st' = st \/ st' = Landed(proc.st)
          /\ \/ \E r \in Answers : Answer(r)
             \/ EraseSucceeded(proc.st)
             \/ EraseGaveUp(proc.st)
             \/ proc'.pc = "mark" /\ proc'.st = proc.st /\ proc'.todo = proc.todo
      <4>1. CASE OldRead
        BY <1>0, <4>1, GotoIs DEF OldRead, ErasePCs, WorksOn, Answers
      <4>2. CASE Read
        <5>1. proc.pc = "read" /\ st' = st
          BY <4>2 DEF Read
        <5> QED BY <4>2, <5>1, ReadIs DEF ErasePCs, WorksOn, Answers
      <4> QED BY <2>4, <4>1, <4>2
    <3>2. Apart(proc.st, plan.idx) /\ Apart(st', plan.idx)
      BY <1>0, <1>3, <3>1, LandedApart DEF ErasePCs
    <3>3. CASE EraseSucceeded(proc.st)
      <4>1. \/ Advanced(proc.st)
            \/ /\ proc'.pc = "program-mark" /\ proc'.todo = proc.todo
               /\ OnlyBlock(proc'.st, proc.st)
        BY <1>0, <1>4, <3>1, <3>3, EraseSucceededIs
      <4> QED BY <1>3, <1>4, <1>5, <3>1, <3>2, <4>1, OnlyBlockApart
    <3>4. CASE EraseGaveUp(proc.st)
      BY <1>0, <1>4, <1>5, <3>1, <3>2, <3>4, EraseGaveUpIs
    <3> QED BY <1>0, <1>3, <3>1, <3>2, <3>3, <3>4, AnswerIs DEF Loaded
  <2>5. CASE Mark
    <3> DEFINE s == [proc.st EXCEPT !.flight = [op |-> "erase-block", blk |-> Block]]
    <3>1. WorksOn /\ Apart(s, plan.idx)
      BY <1>0, <1>3, <1>4, <2>5, FlightApart DEF Mark, ErasePCs, WorksOn
    <3>2. Save("send", s)
      BY <2>5 DEF Mark
    <3> HIDE DEF s
    <3> QED BY <1>0, <1>3, <3>1, <3>2, SaveIs
  <2>6. CASE Send
    <3>1. st' = st /\ WorksOn /\ (Goto("wait") \/ Answer("interrupted"))
      BY <2>6, CommandIs DEF Send, WorksOn, ErasePCs
    <3> QED BY <1>0, <1>3, <3>1, GotoIs, AnswerIs DEF Loaded, WorksOn, ErasePCs, ProgramPCs
  <2>7. CASE SaveBatch \/ EndErase
    <3> DEFINE s == [proc.st EXCEPT !.phase = "other"]
    <3>1. WorksOn
      BY <2>7 DEF SaveBatch, EndErase, WorksOn, ErasePCs
    <3>2. Apart(s, plan.idx)
      BY <1>0, <1>3, <3>1, PhaseApart DEF WorksOn, ErasePCs, ProgramPCs
    <3>3. Save("scan", s) \/ Save("markers", s) \/ \E r \in Answers : SaveAndAnswer(s, r)
      BY <2>7 DEF SaveBatch, EndErase, Answers
    <3> HIDE DEF s
    <3> QED BY <1>0, <1>3, <3>1, <3>2, <3>3, SaveIs, SaveAndAnswerIs DEF Loaded
  <2>8. CASE Markers
    <3>1. st' = st /\ \E r \in Answers : Answer(r)
      BY <2>8 DEF Markers, Answers
    <3> QED BY <1>0, <1>3, <3>1, AnswerIs DEF Loaded
  <2> HIDE DEF Fine
  <2> QED BY <2>1, <2>2, <2>3, <2>4, <2>5, <2>6, <2>7, <2>8 DEF EraseNext
<1>7. plan.idx \in Nat \ {0, 1, MarkersIndex}
  BY <1>0, <1>2 DEF MarkersIndex
<1>8. WorksOn' => proc'.todo \cap Protected = {}
  BY <1>6 DEF WorksOn, ErasePCs, ProgramPCs
<1> QED BY <1>1, <1>6, <1>7, <1>8, ProtectFrame

LEMMA QualifyProtect ==
  ASSUME Types, Types', Given, Placed, ProtectInv, QualifyNext
  PROVE  ProtectInv'
<1> DEFINE Fine == /\ Apart(st', plan.idx)
                   /\ proc'.pc \in Loaded => Apart(proc'.st, plan.idx)
                   /\ proc'.pc # "answer" => proc'.todo \cap Protected = {}
                   /\ proc'.pc = "flight-wait" => proc'.st.flight.op # "none"
<1>0. proc \in Processes /\ st \in RunStates /\ proc.st \in RunStates /\ plan.idx \in Nat
  BY DEF Types, Processes
<1>1. /\ cfg' = cfg /\ plan' = plan /\ proc.pc # "answer"
      /\ ctl'.content = ctl.content
      /\ \/ ctl'.op = ctl.op /\ ctl'.blk = ctl.blk
         \/ ctl'.blk \notin Protected
  BY QualifyLeaves
<1>2. /\ plan.idx > 3 /\ plan.idx > MarkersIndex /\ Action \in BlockActions
      /\ proc.pc = "start" \/ WorksOn \/ proc.pc = "markers"
  BY BlockActionIndex
<1>3. /\ Apart(st, plan.idx)
      /\ proc.pc # "start" => Apart(proc.st, plan.idx)
      /\ WorksOn => proc.todo \cap Protected = {}
      /\ proc.pc = "flight-wait" => proc.st.flight.op # "none"
  BY <1>1, <1>2, ReachedNow DEF ProtectInv, Loaded, WorksOn, ErasePCs, ProgramPCs, PCs
<1>4. proc.pc \in ProgramPCs \ {"flight-wait"} => Block \in Blocks /\ Block \notin Protected
  BY WorkBlock
<1>5. Fine
  <2>1. CASE BeginQualify
    <3>1. st' = st
      BY <2>1, BeginQualifyIs DEF BeginQualify, InService
    <3>2. Targets(st) \cap Protected = {}
      BY <1>0, <1>2, <1>3, TargetsApart
    <3> QED BY <1>0, <1>3, <2>1, <3>1, <3>2, BeginQualifyIs, BeginIs, AnswerIs DEF Loaded
  <2>2. CASE FlightWait
    <3> DEFINE s == Landed(proc.st)
               q == WithDisposition(proc.st, proc.st.flight.blk, "quarantined")
               t == Landed(q)
    <3>1. proc.pc = "flight-wait"
      BY <2>2 DEF FlightWait
    <3>2. Apart(proc.st, plan.idx) /\ proc.st.flight.blk \in Blocks \ Protected
      BY <1>0, <1>3, <3>1 DEF Apart, RunStates, Flights
    <3>3. s \in RunStates /\ Apart(s, plan.idx)
      BY <1>0, <3>2, LandedTyped, LandedApart
    <3>4. q \in RunStates /\ Apart(q, plan.idx)
      <4>1. q \in RunStates
        BY <1>0, <3>2, WithDispositionTyped DEF Dispositions
      <4>2. /\ q.rbb = proc.st.rbb /\ q.flight = proc.st.flight
            /\ \A b \in Protected : q.disp[b] = proc.st.disp[b]
        <5>1. Protected \subseteq Blocks
          BY SystemAssumption DEF Given, Protected
        <5> QED BY <1>0, <3>2, <5>1, WithDispositionIs
      <4> HIDE DEF q
      <4> QED BY <3>2, <4>1, <4>2 DEF Apart, Protected
    <3>5. t \in RunStates /\ Apart(t, plan.idx)
      <4> HIDE DEF q
      <4> QED BY <3>4, LandedTyped, LandedApart
    <3>6. Targets(s) \cap Protected = {} /\ Targets(t) \cap Protected = {}
      <4> HIDE DEF s, t
      <4> QED BY <1>0, <1>2, <3>3, <3>5, TargetsApart
    <3>7. \/ st' = s /\ Begin("scan", s, Targets(s))
          \/ st' = t /\ Begin("scan", t, Targets(t))
          \/ st' = st /\ Answer("interrupted")
      <4>1. st' = s /\ Begin("scan", st', Targets(st')) => Begin("scan", s, Targets(s))
        <5> HIDE DEF s
        <5> QED OBVIOUS
      <4>2. st' = t /\ Begin("scan", st', Targets(st')) => Begin("scan", t, Targets(t))
        <5> HIDE DEF t
        <5> QED OBVIOUS
      <4> QED BY <2>2, <4>1, <4>2, FlightWaitIs
    <3> HIDE DEF s, q, t
    <3> QED BY <1>0, <1>3, <3>3, <3>5, <3>6, <3>7, BeginIs, AnswerIs DEF Loaded
  <2>3. CASE ProgramMark
    <3> DEFINE s == [proc.st EXCEPT !.flight = [op |-> "program-page", blk |-> Block]]
    <3>1. WorksOn /\ Apart(s, plan.idx)
      BY <1>0, <1>3, <1>4, <2>3, FlightApart DEF ProgramMark, ProgramPCs, WorksOn
    <3>2. Save("program-send", s)
      BY <2>3 DEF ProgramMark
    <3> HIDE DEF s
    <3> QED BY <1>0, <1>3, <3>1, <3>2, SaveIs
  <2>4. CASE ProgramSend
    <3>1. st' = st /\ WorksOn /\ (Goto("program-wait") \/ Answer("interrupted"))
      BY <2>4, CommandIs DEF ProgramSend, WorksOn, ProgramPCs
    <3> QED BY <1>0, <1>3, <3>1, GotoIs, AnswerIs DEF Loaded, WorksOn, ErasePCs, ProgramPCs
  <2>5. CASE ProgramWait \/ ProgramRead
    <3>1. /\ proc.pc \in ProgramPCs \ {"flight-wait"} /\ WorksOn /\ st' = st
          /\ \/ Goto("program-read")
             \/ \E r \in Answers : Answer(r)
             \/ \E d : Qualified(d)
      BY <2>5 DEF ProgramWait, ProgramRead, WaitIdle, ProgramPCs, WorksOn, Answers
    <3>2. Apart(proc.st, plan.idx)
      BY <1>3, <3>1 DEF ProgramPCs
    <3>3. CASE \E d : Qualified(d)
      <4>1. Advanced(proc.st)
        BY <1>4, <3>1, <3>3, QualifiedIs
      <4> QED BY <1>3, <1>4, <3>1, <3>2, <4>1, OnlyBlockApart DEF Advanced
    <3> QED BY <1>0, <1>3, <3>1, <3>2, <3>3, GotoIs, AnswerIs DEF Loaded
  <2>6. CASE EndQualify
    <3> DEFINE s == [proc.st EXCEPT !.phase = "other"]
    <3>1. Apart(s, plan.idx)
      BY <1>0, <1>3, <2>6, PhaseApart DEF EndQualify
    <3>2. SaveAndAnswer(s, "ok")
      BY <2>6 DEF EndQualify
    <3> HIDE DEF s
    <3> QED BY <1>0, <1>3, <3>1, <3>2, SaveAndAnswerIs DEF Loaded
  <2> HIDE DEF Fine
  <2> QED BY <2>1, <2>2, <2>3, <2>4, <2>5, <2>6 DEF QualifyNext
<1>6. plan.idx \in Nat \ {0, 1, MarkersIndex}
  BY <1>0, <1>2 DEF MarkersIndex
<1>7. WorksOn' => proc'.todo \cap Protected = {}
  BY <1>5 DEF WorksOn, ErasePCs, ProgramPCs
<1> QED BY <1>1, <1>5, <1>6, <1>7, ProtectFrame

-----------------------------------------------------------------------------
(* So do the rebuild, the actions that read, the core, and what happens to *)
(* a process.                                                              *)

LEMMA MetaOpsAre ==
  /\ MetadataOps[1] = "prepare-bbt" /\ MetadataOps[2] = "prepare-ftl"
  /\ MetadataOps[3] = "set-capacity" /\ MetadataOps[4] = "activate-metadata"
  /\ MetadataPhases[1] = "metadata-prepare-started" /\ MetadataPhases[2] = "bbt-prepared"
  /\ MetadataPhases[3] = "ftl-prepared" /\ MetadataPhases[4] = "capacity-set"
  /\ MetadataPhases[5] = "metadata-activated"
  /\ MetadataPhases[6] = "metadata-commit-verified"
  BY DEF MetadataOps, MetadataPhases

LEMMA NotMetadata ==
  {"none", "erase-block", "program-page"} \cap ToSet(MetadataOps) = {}
<1>1. Len(MetadataOps) = 4
  BY DEF MetadataOps
<1>2. ToSet(MetadataOps) = {MetadataOps[i] : i \in 1 .. 4}
  BY <1>1 DEF ToSet
<1> QED BY <1>2, MetaOpsAre

LEMMA RebuildLeaves ==
  ASSUME Types, Given, Placed, RebuildNext
  PROVE  /\ cfg' = cfg /\ plan' = plan /\ proc.pc # "answer"
         /\ ctl'.content = ctl.content /\ ctl'.mode = ctl.mode
         /\ ctl'.committed = ctl.committed
         /\ ctl'.op \in {"erase-block", "program-page"} =>
               ctl'.op = ctl.op /\ ctl'.blk = ctl.blk
         /\ plan.idx = RebuildIndex
         /\ proc.pc = "start" \/ proc.pc \in MetaPCs
<1>1. CASE MetaSend
  <2>1. /\ Command(MetadataOps[proc.tries], 0, "meta-wait") /\ proc.pc = "meta-send"
        /\ cfg' = cfg /\ plan' = plan
    BY <1>1 DEF MetaSend
  <2>2. proc.tries \in 1 .. 4 /\ plan.idx \in 1 .. Len(Actions) /\ Action = "rebuild-bbt-ftl"
    BY <2>1 DEF Placed, MetaPCs
  <2>3. MetadataOps[proc.tries] \notin {"erase-block", "program-page"}
    BY <2>2, MetaOpsAre
  <2> QED BY <2>1, <2>2, <2>3, CommandIs, Order DEF MetaPCs
<1>2. CASE BeginRebuild
  <2>0. cfg' = cfg /\ plan' = plan /\ On("rebuild-bbt-ftl") /\ Len(Actions) \in Nat
    BY <1>2, PlanActions DEF BeginRebuild, Actions
  <2>1. /\ cfg' = cfg /\ plan' = plan /\ proc.pc = "start"
        /\ plan.idx \in 1 .. Len(Actions) /\ Action = "rebuild-bbt-ftl"
    BY <2>0 DEF On, Ready, Finished, Placed
  <2> QED BY <1>2, <2>1, BeginRebuildIs, Order
<1>3. CASE Metadata \/ MetaWait \/ MetaSave \/ MetaVerify
  <2>1. cfg' = cfg /\ plan' = plan /\ proc.pc \in MetaPCs
    BY <1>3 DEF Metadata, MetaWait, MetaSave, MetaVerify, MetaPCs
  <2>2. /\ plan.idx \in 1 .. Len(Actions) /\ Action = "rebuild-bbt-ftl"
        /\ proc.pc # "answer"
    BY <2>1, PlanActions DEF Placed, MetaPCs, Actions
  <2>3. ctl' = ctl
    BY <1>3, MetadataIs DEF MetaWait, MetaSave, MetaVerify, WaitIdle, WhenIdle
  <2> QED BY <2>1, <2>2, <2>3, Order
<1> QED BY <1>1, <1>2, <1>3 DEF RebuildNext

LEMMA RebuildProtect ==
  ASSUME Types, Types', Given, Placed, ProtectInv, RebuildNext
  PROVE  ProtectInv'
<1> DEFINE Fine == /\ Apart(st', plan.idx)
                   /\ proc'.pc \in Loaded => Apart(proc'.st, plan.idx)
                   /\ proc'.pc \in MetaPCs \cup {"answer"}
<1>0. proc \in Processes /\ st \in RunStates /\ proc.st \in RunStates
  BY DEF Types, Processes
<1>1. /\ cfg' = cfg /\ plan' = plan /\ proc.pc # "answer"
      /\ ctl'.content = ctl.content
      /\ ctl'.op \in {"erase-block", "program-page"} => ctl'.op = ctl.op /\ ctl'.blk = ctl.blk
      /\ plan.idx = RebuildIndex
  BY RebuildLeaves
<1>2. plan.idx \in Nat \ {0, 1, MarkersIndex}
  BY <1>1 DEF MarkersIndex, RebuildIndex
<1>3. /\ Apart(st, plan.idx)
      /\ proc.pc \in MetaPCs => Apart(proc.st, plan.idx)
  BY <1>1, ReachedNow DEF Loaded, MetaPCs, PCs
<1>4. Fine
  <2>1. CASE BeginRebuild
    <3> DEFINE s == Fresh
    <3>1. s.disp = st.disp /\ s.rbb = st.rbb /\ s.flight = st.flight
      BY <1>0 DEF Fresh, RunStates
    <3>2. Apart(s, plan.idx)
      <4> HIDE DEF s
      <4> QED BY <1>3, <3>1, ApartSame
    <3>3. \/ UNCHANGED st /\ (\E r \in Answers : Answer(r))
          \/ UNCHANGED st /\ ToMetadata(st, PhaseIndex(st))
          \/ st' = s /\ ToMetadata(s, 1)
      BY <2>1, BeginRebuildIs DEF Answers
    <3> HIDE DEF s
    <3> QED BY <1>0, <1>3, <3>2, <3>3, ToMetadataIs, AnswerIs DEF Loaded, MetaPCs
  <2>2. CASE Metadata
    <3>1. /\ st' = st /\ proc.pc \in MetaPCs
          /\ \/ \E p \in MetaPCs : Goto(p)
             \/ \E r \in Answers : Answer(r)
      BY <2>2, MetadataIs DEF Metadata, MetaPCs, Answers
    <3> QED BY <1>0, <1>3, <3>1, GotoIs, AnswerIs DEF Loaded
  <2>3. CASE MetaSend
    <3>1. /\ st' = st /\ proc.pc \in MetaPCs
          /\ Goto("meta-wait") \/ Answer("interrupted")
      BY <2>3, CommandIs DEF MetaSend, MetaPCs
    <3> QED BY <1>0, <1>3, <3>1, GotoIs, AnswerIs DEF Loaded, MetaPCs
  <2>4. CASE MetaWait
    <3>1. /\ st' = st /\ proc.pc \in MetaPCs
          /\ Goto("meta-save") \/ \E r \in Answers : Answer(r)
      BY <2>4 DEF MetaWait, WaitIdle, MetaPCs, Answers
    <3> QED BY <1>0, <1>3, <3>1, GotoIs, AnswerIs DEF Loaded, MetaPCs
  <2>5. CASE MetaSave
    <3> DEFINE s == [proc.st EXCEPT !.phase = MetadataPhases[proc.tries + 1]]
    <3>1. Apart(s, plan.idx)
      BY <1>0, <1>3, <2>5, PhaseApart DEF MetaSave, MetaPCs
    <3>2. /\ st' = s
          /\ proc' = [proc EXCEPT !.pc = "metadata", !.st = s, !.tries = @ + 1]
      BY <2>5 DEF MetaSave
    <3> HIDE DEF s
    <3>3. proc'.pc = "metadata" /\ proc'.st = s
      BY <1>0, <3>2 DEF Processes
    <3> QED BY <3>1, <3>2, <3>3 DEF MetaPCs
  <2>6. CASE MetaVerify
    <3> DEFINE s == [proc.st EXCEPT !.phase = "metadata-commit-verified"]
    <3>1. proc.pc \in MetaPCs
      BY <2>6 DEF MetaVerify, MetaPCs
    <3>2. Apart(s, plan.idx)
      BY <1>0, <1>3, <3>1, PhaseApart
    <3>3. Ends(s, {})
      BY <2>6 DEF MetaVerify, WhenIdle, Ends, Answers
    <3> HIDE DEF s
    <3> QED BY <1>0, <1>3, <3>1, <3>2, <3>3, EndsApart DEF MetaPCs
  <2> HIDE DEF Fine
  <2> QED BY <2>1, <2>2, <2>3, <2>4, <2>5, <2>6 DEF RebuildNext
<1>5. ~WorksOn' /\ proc'.pc # "flight-wait"
  BY <1>4 DEF WorksOn, ErasePCs, ProgramPCs, MetaPCs
<1> QED BY <1>1, <1>2, <1>4, <1>5, ProtectFrame

\* The inventory and the capture of the old table are what sets them apart
\* for a C3 plan, the search for markers for a C4 plan.
LEMMA ReadProtect ==
  ASSUME Types, Types', Given, Placed, ProtectInv, ReadNext
  PROVE  ProtectInv'
<1>0. /\ proc \in Processes /\ st \in RunStates /\ proc.st \in RunStates /\ plan.idx \in Nat
      /\ cfg.marked \subseteq Blocks \ SystemBlocks /\ Preserved \subseteq SystemBlocks
      /\ Protected \subseteq Blocks
  BY SystemAssumption DEF Types, Processes, Given, SystemBlocks, Protected
<1>1. cfg' = cfg /\ plan' = plan /\ proc.pc # "answer" /\ ctl' = ctl
  BY DEF ReadNext, Inventory, CaptureOldBbt, BeginEnumerate, EnumerateBatch, VerifyErasure,
         ReEnumeration, Postcheck, On, Ready, WhenIdle
<1>2. /\ Apart(st, plan.idx)
      /\ proc.pc = "batch" => Apart(proc.st, plan.idx)
  BY <1>1, ReachedNow DEF Loaded, PCs
<1>3. MarkersIndex' = MarkersIndex /\ Protected' = Protected
  BY <1>1 DEF MarkersIndex, Protected
<1>4. ASSUME Apart(st', Reached'), proc'.pc \in Loaded => Apart(proc'.st, Reached'),
             ~WorksOn', proc'.pc # "flight-wait"
      PROVE  ProtectInv'
  BY <1>1, <1>3, <1>4 DEF ProtectInv, Apart
<1>5. CASE Inventory
  <2> DEFINE s == [Classified(st) EXCEPT !.gen = ctl.committed.gen, !.phase = "other"]
  <2>1. plan.idx = 1
    BY <1>5, PlanActions, Order DEF Inventory, On, Ready, Finished, Placed, Actions
  <2>2. /\ s.disp = Classified(st).disp /\ s.rbb = st.rbb /\ s.flight = st.flight
        /\ \A b \in Preserved : s.disp[b] = "system-preserved"
    BY <1>0, ClassifiedIs, ClassifiedTyped DEF RunStates
  <2>3. \/ SaveAndAnswer(s, "ok")
        \/ UNCHANGED st /\ (Answer("interrupted") \/ Answer("error"))
    BY <1>5 DEF Inventory, WhenIdle
  <2> HIDE DEF s
  <2>4. Apart(s, 2)
    BY <1>2, <2>1, <2>2 DEF Apart, MarkersIndex
  <2>5. CASE SaveAndAnswer(s, "ok")
    <3>1. st' = s /\ proc'.pc = "answer" /\ Reached' = 2
      BY <1>0, <1>1, <2>1, <2>5, SaveAndAnswerIs DEF Reached
    <3> QED BY <1>4, <2>4, <3>1 DEF Loaded, WorksOn, ErasePCs, ProgramPCs
  <2>6. CASE UNCHANGED st /\ (Answer("interrupted") \/ Answer("error"))
    <3>1. st' = st /\ proc'.pc = "answer" /\ Reached' = 1
      BY <1>0, <1>1, <2>1, <2>6, AnswerIs DEF Reached
    <3> QED BY <1>2, <1>4, <2>1, <3>1 DEF Loaded, WorksOn, ErasePCs, ProgramPCs
  <2> QED BY <2>3, <2>5, <2>6
<1>6. CASE CaptureOldBbt
  <2> DEFINE c == Classified(st)
             s == [c EXCEPT
                    !.disp = [b \in Blocks |-> IF b \in SystemBlocks \/ OldTable[b] = "absent"
                                               THEN c.disp[b] ELSE OldTable[b]],
                    !.rbb = InTable("historical-rbb") \cup (c.rbb \cap InTable("absent")),
                    !.phase = "other"]
             agrees == \A b \in SystemBlocks : OldTable[b] \in {"absent", "system-rebuild"}
  <2>1. plan.idx = 2
    BY <1>6, PlanActions, Order DEF CaptureOldBbt, On, Ready, Finished, Placed, Actions
  <2>2. \/ UNCHANGED st /\ Answer("error")
        \/ agrees /\ SaveAndAnswer(s, "ok")
    BY <1>6 DEF CaptureOldBbt
  <2>3. CASE UNCHANGED st /\ Answer("error")
    <3>1. st' = st /\ proc'.pc = "answer" /\ Reached' = 2
      BY <1>0, <1>1, <2>1, <2>3, AnswerIs DEF Reached
    <3> QED BY <1>2, <1>4, <2>1, <3>1 DEF Loaded, WorksOn, ErasePCs, ProgramPCs
  <2>4. CASE agrees /\ SaveAndAnswer(s, "ok")
    <3>1. c \in RunStates /\ c.rbb = st.rbb /\ c.flight = st.flight
          /\ \A b \in Preserved : c.disp[b] = "system-preserved"
      BY <1>0, ClassifiedIs, ClassifiedTyped
    <3>2. /\ s.flight = st.flight
          /\ s.rbb = InTable("historical-rbb") \cup (st.rbb \cap InTable("absent"))
          /\ \A b \in Blocks : s.disp[b] = IF b \in SystemBlocks \/ OldTable[b] = "absent"
                                           THEN c.disp[b] ELSE OldTable[b]
      <4> HIDE DEF c
      <4> QED BY <3>1 DEF RunStates
    <3>3. SaveAndAnswer(s, "ok") /\ agrees
      BY <2>4
    <3> HIDE DEF s, c
    <3>4. \A b \in Preserved : s.disp[b] = "system-preserved"
      BY <1>0, <3>1, <3>2, SystemAssumption
    <3>5. s.rbb \cap Preserved = {}
      BY <1>0, <1>2, <3>2, <3>3, SystemAssumption DEF Apart, InTable
    <3>6. 3 > MarkersIndex => \A b \in cfg.marked : s.disp[b] = "factory-bad" /\ b \notin s.rbb
      <4>1. SUFFICES ASSUME cfg.level = "C3", NEW b \in cfg.marked
                     PROVE  s.disp[b] = "factory-bad" /\ b \notin s.rbb
        BY DEF MarkersIndex
      <4>2. b \in Blocks /\ b \notin SystemBlocks /\ OldTable[b] = "factory-bad"
        BY <1>0, <4>1 DEF Given, InTable
      <4> QED BY <3>2, <4>2 DEF InTable
    <3>7. Apart(s, 3)
      BY <1>2, <3>2, <3>4, <3>5, <3>6 DEF Apart
    <3>8. st' = s /\ proc'.pc = "answer" /\ Reached' = 3
      BY <1>0, <1>1, <2>1, <3>3, SaveAndAnswerIs DEF Reached
    <3> QED BY <1>4, <3>7, <3>8 DEF Loaded, WorksOn, ErasePCs, ProgramPCs
  <2> QED BY <2>2, <2>3, <2>4
<1>7. CASE BeginEnumerate
  <2>1. plan.idx = 4 /\ MarkersIndex = 4 /\ Action = "enumerate-blocks" /\ st' = st
    BY <1>7, PlanActions, Order DEF BeginEnumerate, On, Ready, Finished, Placed, Actions
  <2>2. Begin("batch", Classified(st), Blocks)
    BY <1>7 DEF BeginEnumerate
  <2>3. Apart(Classified(st), plan.idx)
    BY <1>0, <1>2, ClassifiedApart
  <2>4. proc'.pc = "batch" /\ proc'.st = Classified(st)
    BY <1>0, <2>2, BeginIs
  <2>5. Reached' = plan.idx
    BY <1>1, <2>4 DEF Reached
  <2>6. ~WorksOn'
    BY <1>1, <2>1, <2>4, ActionKept DEF WorksOn, ErasePCs, ProgramPCs
  <2> QED BY <1>2, <1>4, <2>1, <2>3, <2>4, <2>5, <2>6
<1>8. CASE EnumerateBatch
  <2> DEFINE n == proc.done + BatchSize
             s == Searched(n)
  <2>1. proc.pc = "batch" /\ Action = "enumerate-blocks" /\ plan.idx = 4 /\ MarkersIndex = 4
    <3>1. proc.pc = "batch" /\ Action = "enumerate-blocks"
      BY <1>8 DEF EnumerateBatch
    <3>2. plan.idx \in 1 .. Len(Actions)
      BY <3>1, PlanActions DEF Placed, Actions
    <3> QED BY <3>1, <3>2, Order
  <2>2. Apart(proc.st, 4)
    BY <1>2, <2>1
  <2>3. /\ s.rbb = proc.st.rbb /\ s.flight = proc.st.flight
        /\ \A b \in SystemBlocks : s.disp[b] = proc.st.disp[b]
        /\ \A b \in Blocks \ SystemBlocks : b < n /\ Marker(b) => s.disp[b] = "factory-bad"
    BY <1>0, SystemAssumption DEF Searched, RunStates, SystemBlocks
  <2>4. Apart(s, 4)
    <3> HIDE DEF s
    <3> QED BY <1>0, <2>1, <2>2, <2>3 DEF Apart
  <2>5. \A b \in cfg.marked : Marker(b)
    BY DEF ProtectInv, Marker
  <2>6. CASE UNCHANGED st /\ Answer("error")
    <3>1. st' = st /\ proc'.pc = "answer" /\ Reached' = 4
      BY <1>0, <1>1, <2>1, <2>6, AnswerIs DEF Reached
    <3> QED BY <1>2, <1>4, <2>1, <3>1 DEF Loaded, WorksOn, ErasePCs, ProgramPCs
  <2>7. CASE /\ \A b \in Blocks \ SystemBlocks : b < n /\ b \in proc.st.rbb => ~Marker(b)
             /\ \A b \in Blocks : b < n
             /\ SaveAndAnswer(s, "ok")
    <3>1. SaveAndAnswer(s, "ok")
      BY <2>7
    <3>2. \A b \in cfg.marked : s.disp[b] = "factory-bad" /\ b \notin s.rbb
      BY <1>0, <2>3, <2>5, <2>7
    <3> HIDE DEF s
    <3>3. Apart(s, 5)
      BY <2>1, <2>4, <3>2 DEF Apart
    <3>4. st' = s /\ proc'.pc = "answer" /\ Reached' = 5
      BY <1>0, <1>1, <2>1, <3>1, SaveAndAnswerIs DEF Reached
    <3> QED BY <1>4, <3>3, <3>4 DEF Loaded, WorksOn, ErasePCs, ProgramPCs
  <2>8. CASE Batched(s, n)
    <3> HIDE DEF s, n
    <3>1. st' = s /\ proc'.st = s /\ proc'.pc = "batch"
      BY <1>0, <2>1, <2>8, BatchedIs
    <3>2. Reached' = 4 /\ ~WorksOn'
      BY <1>1, <2>1, <3>1, ActionKept DEF Reached, WorksOn, ErasePCs, ProgramPCs
    <3> QED BY <1>4, <2>4, <3>1, <3>2
  <2> QED BY <1>8, <2>6, <2>7, <2>8, EnumerateBatchIs
<1>9. CASE VerifyErasure \/ ReEnumeration \/ Postcheck
  <2> DEFINE s == [Classified(st) EXCEPT !.phase = "other"]
  <2>1. plan.idx \in Nat \ {0, 1, MarkersIndex} /\ plan.idx > 1
    <3>1. /\ plan.idx \in 1 .. Len(Actions)
          /\ Action \in {"verify-physical-erasure", "re-enumeration", "postcheck-c3",
                         "postcheck-c4"}
      BY <1>9, PlanActions DEF VerifyErasure, ReEnumeration, Postcheck, On, Ready, Finished,
                               Placed, Actions
    <3> QED BY <3>1, Order
  <2>2. Apart(s, plan.idx)
    BY <1>0, <1>2, ClassifiedTyped, ClassifiedApart, PhaseApart
  <2>3. \/ UNCHANGED st /\ \E r \in Answers : Answer(r)
        \/ \E r \in Answers : SaveAndAnswer(s, r)
    BY <1>9, VerifyErasureIs DEF ReEnumeration, Postcheck, WhenIdle, Answers
  <2> HIDE DEF s
  <2>4. /\ Apart(st', plan.idx) /\ proc'.pc = "answer"
    BY <1>0, <1>2, <2>2, <2>3, AnswerIs, SaveAndAnswerIs
  <2> QED BY <1>1, <2>1, <2>4, ProtectFrame DEF Loaded, WorksOn, ErasePCs, ProgramPCs
<1> QED BY <1>5, <1>6, <1>7, <1>8, <1>9 DEF ReadNext

\* A process that ends, however it ends, leaves the state as far as it was.
LEMMA EndProtect ==
  ASSUME Types, Types', ProtectInv, cfg' = cfg, plan'.idx = plan.idx,
         proc'.pc = "answer" => proc'.res \notin {"ok", "partial"},
         proc'.pc \in {"idle", "start", "answer"},
         \A b \in Protected : ctl'.content[b] = ctl.content[b],
         ctl'.op \in {"erase-block", "program-page"} => ctl'.op = ctl.op /\ ctl'.blk = ctl.blk,
         st'.disp = st.disp, st'.rbb = st.rbb, st'.flight \in {st.flight, NoFlight}
  PROVE  ProtectInv'
<1>1. Reached' = plan.idx /\ plan.idx <= Reached /\ Reached \in Nat /\ plan.idx \in Nat
  BY DEF Reached, Types
<1>2. Apart(st, plan.idx)
  BY <1>1, ApartLess DEF ProtectInv
<1>3. Apart(st', Reached')
  BY <1>1, <1>2, ApartSame
<1>4. /\ \A b \in cfg.marked : ctl'.content[b] = "marker"
      /\ \A b \in Preserved : ctl'.content[b] = "system"
      /\ ctl'.op \in {"erase-block", "program-page"} => ctl'.blk \notin Protected
  BY DEF ProtectInv, Protected
<1> QED BY <1>3, <1>4 DEF ProtectInv, Apart, MarkersIndex, Protected, Loaded, WorksOn,
                          ErasePCs, ProgramPCs

LEMMA UnpoweredIs ==
  ASSUME NEW c \in Controllers
  PROVE  /\ Unpowered(c).content = c.content /\ Unpowered(c).op = "none"
         /\ Unpowered(c).mode = "normal" /\ Unpowered(c).committed = c.committed
         /\ Unpowered(c).cap = c.cap /\ Unpowered(c).prepared = c.prepared
  BY DEF Unpowered, Controllers

LEMMA EnvironmentProtect ==
  ASSUME Types, Types', Given, Placed, ProtectInv, Environment
  PROVE  ProtectInv'
<1>0. proc \in Processes /\ plan \in [idx : Nat, last : Answers] /\ ctl \in Controllers
  BY DEF Types
<1>1. CASE Finish
  <2>1. /\ cfg' = cfg /\ plan' = plan /\ st' = st /\ proc' = proc
    BY <1>1 DEF Finish
  <2>2. ctl'.op = "none" /\ \A b \in Protected : ctl'.content[b] = ctl.content[b]
    <3> DEFINE done == [ctl EXCEPT !.op = "none"]
    <3>1. done.content = ctl.content /\ done.op = "none" /\ done \in Controllers
      BY <1>0 DEF Controllers
    <3>2. \/ /\ ctl.op \in {"erase-block", "program-page"}
             /\ \E c : ctl' = [done EXCEPT !.content[ctl.blk] = c]
          \/ ctl' = [done EXCEPT !.committed = ctl.prepared]
          \/ ctl' = done
          \/ ctl' = [done EXCEPT !.failed = TRUE]
      BY <1>1, FinishIs
    <3>3. ctl.op \in {"erase-block", "program-page"} => ctl.blk \notin Protected
      BY DEF ProtectInv
    <3> HIDE DEF done
    <3>4. ASSUME NEW c, ctl.op \in {"erase-block", "program-page"},
                 ctl' = [done EXCEPT !.content[ctl.blk] = c]
          PROVE  ctl'.op = "none" /\ \A b \in Protected : ctl'.content[b] = ctl.content[b]
      BY <1>0, <3>1, <3>3, <3>4, SystemAssumption DEF Controllers, Protected, Given
    <3> QED BY <3>1, <3>2, <3>4 DEF Controllers
  <2> QED BY <2>1, <2>2 DEF ProtectInv, Apart, MarkersIndex, Protected, Loaded, WorksOn,
                            Reached, Action, Actions
<1>2. CASE TransportFails
  <2>1. /\ cfg' = cfg /\ plan' = plan /\ st' = st /\ ctl' = ctl
        /\ Answer("interrupted") \/ Answer("error")
    BY <1>2 DEF TransportFails
  <2> QED BY <1>0, <2>1, AnswerIs, EndProtect
<1>3. CASE Kill
  <2>1. cfg' = cfg /\ st' = st /\ ctl' = ctl /\ Stop("none")
    BY <1>3 DEF Kill
  <2> QED BY <1>0, <2>1, StopIs, EndProtect
<1>4. CASE PowerCut
  <2>1. cfg' = cfg /\ st' = st /\ Stop("none")
    BY <1>4 DEF PowerCut
  <2>2. PICK c \in {ctl.content[ctl.blk], "part"} :
          /\ c = "part" => ctl.op = "erase-block"
          /\ ctl' = Unpowered([ctl EXCEPT !.content[ctl.blk] = c])
    BY <1>4 DEF PowerCut
  <2>3. \A b \in Protected : ctl'.content[b] = ctl.content[b]
    <3> DEFINE d == [ctl EXCEPT !.content[ctl.blk] = c]
    <3>1. c \in Contents
      BY <1>0, <2>2 DEF Controllers, Contents
    <3>2. d \in Controllers
      BY <1>0, <3>1, ContentTyped DEF Controllers
    <3>3. \A b \in Protected : d.content[b] = ctl.content[b]
      BY <1>0, <2>2 DEF ProtectInv, Controllers
    <3>4. ctl' = Unpowered(d)
      BY <2>2
    <3> HIDE DEF d
    <3> QED BY <3>2, <3>3, <3>4, UnpoweredIs
  <2>4. ctl'.op = "none"
    BY <2>2 DEF Unpowered, Types, Controllers
  <2> QED BY <1>0, <2>1, <2>3, <2>4, StopIs, EndProtect
<1> QED BY <1>1, <1>2, <1>3, <1>4 DEF Environment

LEMMA CoreProtect ==
  ASSUME Types, Types', Given, Placed, ProtectInv, CoreNext
  PROVE  ProtectInv'
<1>0. /\ proc \in Processes /\ plan \in [idx : Nat, last : Answers] /\ ctl \in Controllers
      /\ st \in RunStates
  BY DEF Types
<1>1. CASE PowerCycle
  <2>1. /\ cfg' = cfg /\ plan' = plan /\ proc.pc = "start" /\ st' = st /\ Answer("ok")
        /\ ctl' = Unpowered(ctl)
        /\ plan.idx \in 1 .. Len(Actions) /\ Action = "power-cycle"
    BY <1>1, PlanActions DEF PowerCycle, On, Ready, Finished, Placed, Actions
  <2>2. plan.idx \in Nat \ {0, 1, MarkersIndex}
    BY <2>1, Order
  <2>3. Apart(st', plan.idx) /\ proc'.pc = "answer"
    BY <1>0, <2>1, ReachedNow, AnswerIs
  <2>4. ctl'.content = ctl.content /\ ctl'.op = "none"
    BY <1>0, <2>1, UnpoweredIs
  <2> QED BY <2>1, <2>2, <2>3, <2>4, ProtectFrame DEF Loaded, WorksOn, ErasePCs, ProgramPCs
<1>2. CASE Recorded
  <2>1. cfg' = cfg /\ st' = st /\ ctl' = ctl /\ proc.pc = "answer"
    BY <1>2 DEF Recorded
  <2>2. CASE proc.res \in {"ok", "partial"}
    <3>1. plan'.idx = plan.idx + 1 /\ Goto("start")
      BY <1>2, <2>2 DEF Recorded
    <3>2. proc'.pc = "start" /\ Reached' = Reached
      BY <1>0, <2>1, <2>2, <3>1, GotoIs DEF Reached
    <3> QED BY <2>1, <3>2 DEF ProtectInv, Apart, MarkersIndex, Protected, Loaded, WorksOn,
                              ErasePCs, ProgramPCs
  <2>3. CASE proc.res \notin {"ok", "partial"}
    <3>1. \/ Goto("start") /\ UNCHANGED plan
          \/ Stop(proc.res)
      BY <1>2, <2>3 DEF Recorded
    <3>2. proc'.pc \in {"idle", "start"} /\ plan'.idx = plan.idx
      BY <1>0, <3>1, GotoIs, StopIs
    <3> QED BY <2>1, <3>2, EndProtect
  <2> QED BY <2>2, <2>3
<1>3. CASE Resume
  <2>1. cfg' = cfg /\ plan' = plan /\ st' = st /\ ctl' = ctl /\ Goto("start")
    BY <1>3 DEF Resume
  <2>2. proc'.pc = "start"
    BY <1>0, <2>1, GotoIs
  <2> QED BY <2>1, <2>2, EndProtect
<1>4. CASE Recover
  <2>1. /\ cfg' = cfg /\ plan' = plan /\ proc' = proc /\ proc.pc = "idle"
        /\ ctl' = Unpowered(ctl)
        /\ st' = [st EXCEPT !.mode = "normal", !.phase = "other", !.flight = NoFlight]
    BY <1>4 DEF Recover
  <2>2. st'.disp = st.disp /\ st'.rbb = st.rbb /\ st'.flight = NoFlight
    BY <1>0, <2>1 DEF RunStates
  <2>3. ctl'.content = ctl.content /\ ctl'.op = "none"
    BY <1>0, <2>1, UnpoweredIs
  <2>4. proc'.pc = "idle" /\ plan'.idx = plan.idx /\ cfg' = cfg
    BY <2>1
  <2> QED BY <2>2, <2>3, <2>4, EndProtect
<1>5. CASE Done
  BY <1>5 DEF Done, vars, ProtectInv, Apart, MarkersIndex, Protected, Loaded, WorksOn,
              Reached, Action, Actions
<1> QED BY <1>1, <1>2, <1>3, <1>4, <1>5 DEF CoreNext

LEMMA ProtectStep ==
  ASSUME Types, Types', Given, Placed, ProtectInv, [Next]_vars
  PROVE  ProtectInv'
<1>1. CASE UNCHANGED vars
  BY <1>1 DEF vars, ProtectInv, Apart, MarkersIndex, Protected, Loaded, WorksOn, Reached,
              Action, Actions
<1> QED BY <1>1, ServiceProtect, EraseProtect, QualifyProtect, RebuildProtect, ReadProtect,
           EnvironmentProtect, CoreProtect DEF Next

-----------------------------------------------------------------------------
(* What the work on blocks leaves of the rest of a state.                  *)

\* The same mode, generation and sizes.
Kin(t, s) ==
  /\ t.mode = s.mode /\ t.phase \in {s.phase, "other"}
  /\ t.gen = s.gen /\ t.user = s.user /\ t.spare = s.spare
KinToOne(t) == \/ Kin(t, st)
               \/ proc.pc # "start" /\ Kin(t, proc.st)

LEMMA KinOf ==
  ASSUME NEW s \in RunStates
  PROVE  /\ Kin(s, s) /\ Kin(Classified(s), s) /\ Kin(Landed(s), s)
         /\ Kin([s EXCEPT !.phase = "other"], s)
         /\ \A f : Kin([s EXCEPT !.flight = f], s)
         /\ \A b \in Blocks : \A d : Kin(WithDisposition(s, b, d), s)
         /\ \A t : OnlyBlock(t, s) => Kin(t, s)
<1>1. Kin(Classified(s), s)
  BY ClassifiedIs DEF Kin
<1>2. Kin(Landed(s), s)
  BY LandedIs DEF Kin, OnlyBlock
<1>3. Kin([s EXCEPT !.phase = "other"], s)
  BY DEF Kin, RunStates
<1>4. \A f : Kin([s EXCEPT !.flight = f], s)
  BY DEF Kin, RunStates
<1>5. \A b \in Blocks : \A d : Kin(WithDisposition(s, b, d), s)
  BY WithDispositionIs DEF Kin
<1>6. Kin(s, s) /\ \A t : OnlyBlock(t, s) => Kin(t, s)
  BY DEF Kin, OnlyBlock
<1> QED BY <1>1, <1>2, <1>3, <1>4, <1>5, <1>6

LEMMA EraseKin ==
  ASSUME Types, Given, Placed, EraseNext
  PROVE  /\ KinToOne(st')
         /\ proc'.pc \in Loaded => KinToOne(proc'.st)
         /\ proc'.pc \in ErasePCs \cup ProgramPCs \cup {"batch", "markers", "answer"}
<1> DEFINE Fine == /\ KinToOne(st')
                   /\ proc'.pc \in Loaded => KinToOne(proc'.st)
                   /\ proc'.pc \in ErasePCs \cup ProgramPCs \cup {"batch", "markers", "answer"}
<1>0. proc \in Processes /\ st \in RunStates /\ proc.st \in RunStates
  BY DEF Types, Processes
<1>1. proc.pc \in ErasePCs \ {"scan"} => Block \in Blocks
  BY <1>0, LeastBlock DEF Placed, Processes
<1>2. KinToOne(st) /\ (proc.pc # "start" => KinToOne(proc.st))
  BY DEF KinToOne, Kin
<1>3. \A t : OnlyBlock(t, proc.st) /\ proc.pc # "start" => KinToOne(t)
  BY <1>0, KinOf DEF KinToOne
<1>4. Fine
  <2>1. CASE BeginErase
    <3> DEFINE s == Classified(st)
    <3>1. KinToOne(s)
      <4>1. Kin(s, st)
        BY <1>0, KinOf
      <4> HIDE DEF s
      <4> QED BY <4>1 DEF KinToOne
    <3>2. UNCHANGED st /\ (Begin("scan", s, Targets(s)) \/ Answer("refused"))
      BY <2>1 DEF BeginErase, InService
    <3> HIDE DEF s
    <3> QED BY <1>0, <1>2, <3>1, <3>2, BeginIs, AnswerIs DEF Loaded, ErasePCs
  <2>2. CASE Scan \/ Send
    <3>1. st' = st /\ proc.pc # "start"
          /\ (Goto("old-wait") \/ Goto("mark") \/ Goto("wait") \/ Answer("interrupted"))
      BY <2>2, CommandIs DEF Scan, Send
    <3> QED BY <1>0, <1>2, <3>1, GotoIs, AnswerIs DEF ErasePCs, Loaded
  <2>3. CASE OldWait \/ Wait
    <3>1. /\ proc.pc \in ErasePCs \ {"scan"} /\ proc.pc # "start"
          /\ \/ (Goto("old-read") \/ Goto("read")) /\ UNCHANGED st
             \/ EraseFailed
             \/ Answer("interrupted") /\ UNCHANGED st
      BY <2>3 DEF OldWait, Wait, WaitIdle, ErasePCs
    <3>2. CASE EraseFailed
      <4>1. KinToOne(Landed(proc.st))
        BY <1>0, <3>1, KinOf DEF KinToOne
      <4> QED BY <1>1, <1>3, <3>1, <3>2, <4>1, EraseFailedIs DEF Advanced, ErasePCs, Loaded
    <3> QED BY <1>0, <1>2, <3>1, <3>2, GotoIs, AnswerIs DEF Loaded, ErasePCs
  <2>4. CASE OldRead \/ Read
    <3>1. /\ proc.pc \in ErasePCs \ {"scan"} /\ proc.pc # "start"
          /\ st' = st \/ st' = Landed(proc.st)
          /\ \/ \E r \in Answers : Answer(r)
             \/ EraseSucceeded(proc.st)
             \/ EraseGaveUp(proc.st)
             \/ proc'.pc = "mark" /\ proc'.st = proc.st /\ proc'.todo = proc.todo
      <4>1. CASE OldRead
        BY <1>0, <4>1, GotoIs DEF OldRead, ErasePCs, Answers
      <4>2. CASE Read
        <5>1. proc.pc = "read" /\ st' = st
          BY <4>2 DEF Read
        <5> QED BY <4>2, <5>1, ReadIs DEF ErasePCs, Answers
      <4> QED BY <2>4, <4>1, <4>2
    <3>2. KinToOne(st')
      BY <1>0, <1>2, <3>1, KinOf DEF KinToOne
    <3>3. CASE EraseSucceeded(proc.st)
      <4>1. \/ Advanced(proc.st)
            \/ proc'.pc = "program-mark" /\ OnlyBlock(proc'.st, proc.st)
        BY <1>0, <1>1, <3>1, <3>3, EraseSucceededIs
      <4> QED BY <1>3, <3>1, <3>2, <4>1 DEF Advanced, ErasePCs, ProgramPCs
    <3>4. CASE EraseGaveUp(proc.st)
      BY <1>0, <1>1, <1>3, <3>1, <3>2, <3>4, EraseGaveUpIs DEF Advanced, ErasePCs
    <3> QED BY <1>0, <1>2, <3>1, <3>2, <3>3, <3>4, AnswerIs DEF Loaded, ErasePCs
  <2>5. CASE Mark
    <3> DEFINE s == [proc.st EXCEPT !.flight = [op |-> "erase-block", blk |-> Block]]
    <3>1. KinToOne(s) /\ Save("send", s)
      BY <1>0, <2>5, KinOf DEF Mark, KinToOne
    <3> HIDE DEF s
    <3> QED BY <1>0, <3>1, SaveIs DEF ErasePCs
  <2>6. CASE SaveBatch \/ EndErase
    <3> DEFINE s == [proc.st EXCEPT !.phase = "other"]
    <3>1. KinToOne(s)
      BY <1>0, <2>6, KinOf DEF KinToOne, SaveBatch, EndErase
    <3>2. Save("scan", s) \/ Save("markers", s) \/ \E r \in Answers : SaveAndAnswer(s, r)
      BY <2>6 DEF SaveBatch, EndErase, Answers
    <3> HIDE DEF s
    <3> QED BY <1>0, <3>1, <3>2, SaveIs, SaveAndAnswerIs DEF Loaded, ErasePCs
  <2>7. CASE Markers
    <3>1. st' = st /\ \E r \in Answers : Answer(r)
      BY <2>7 DEF Markers, Answers
    <3> QED BY <1>0, <1>2, <3>1, AnswerIs DEF Loaded
  <2> HIDE DEF Fine
  <2> QED BY <2>1, <2>2, <2>3, <2>4, <2>5, <2>6, <2>7 DEF EraseNext
<1> QED BY <1>4

LEMMA QualifyKin ==
  ASSUME Types, Given, Placed, QualifyNext
  PROVE  /\ KinToOne(st')
         /\ proc'.pc \in Loaded => KinToOne(proc'.st)
         /\ proc'.pc \in ErasePCs \cup ProgramPCs \cup {"batch", "markers", "answer"}
<1> DEFINE Fine == /\ KinToOne(st')
                   /\ proc'.pc \in Loaded => KinToOne(proc'.st)
                   /\ proc'.pc \in ErasePCs \cup ProgramPCs \cup {"batch", "markers", "answer"}
<1>0. proc \in Processes /\ st \in RunStates /\ proc.st \in RunStates
  BY DEF Types, Processes
<1>1. proc.pc \in ProgramPCs \ {"flight-wait"} => Block \in Blocks
  BY <1>0, LeastBlock DEF Placed, Processes
<1>2. KinToOne(st) /\ (proc.pc # "start" => KinToOne(proc.st))
  BY DEF KinToOne, Kin
<1>3. \A t : OnlyBlock(t, proc.st) /\ proc.pc # "start" => KinToOne(t)
  BY <1>0, KinOf DEF KinToOne
<1>4. Fine
  <2>1. CASE BeginQualify
    <3>1. st' = st
      BY <2>1, BeginQualifyIs DEF BeginQualify, InService
    <3> QED BY <1>0, <1>2, <2>1, <3>1, BeginQualifyIs, BeginIs, AnswerIs
         DEF Loaded, ErasePCs, ProgramPCs
  <2>2. CASE FlightWait
    <3> DEFINE s == Landed(proc.st)
               q == WithDisposition(proc.st, proc.st.flight.blk, "quarantined")
               t == Landed(q)
    <3>1. proc.pc = "flight-wait" /\ proc.st.flight.blk \in Blocks
      BY <1>0, <2>2 DEF FlightWait, RunStates, Flights
    <3>2. KinToOne(s)
      BY <1>0, <3>1, KinOf DEF KinToOne
    <3>3. q \in RunStates /\ Kin(q, proc.st)
      BY <1>0, <3>1, WithDispositionTyped, KinOf DEF Dispositions
    <3>4. KinToOne(t)
      <4> HIDE DEF q
      <4>1. Kin(t, q) /\ q.phase = q.phase
        BY <3>3, KinOf
      <4> QED BY <3>1, <3>3, <4>1 DEF KinToOne, Kin
    <3>5. \/ st' = s /\ Begin("scan", st', Targets(st'))
          \/ st' = t /\ Begin("scan", st', Targets(st'))
          \/ st' = st /\ Answer("interrupted")
      BY <2>2, FlightWaitIs
    <3> HIDE DEF s, q, t
    <3> QED BY <1>0, <1>2, <3>2, <3>4, <3>5, BeginIs, AnswerIs DEF Loaded, ErasePCs
  <2>3. CASE ProgramMark
    <3> DEFINE s == [proc.st EXCEPT !.flight = [op |-> "program-page", blk |-> Block]]
    <3>1. KinToOne(s) /\ Save("program-send", s)
      BY <1>0, <2>3, KinOf DEF ProgramMark, KinToOne
    <3> HIDE DEF s
    <3> QED BY <1>0, <3>1, SaveIs DEF ProgramPCs
  <2>4. CASE ProgramSend
    <3>1. st' = st /\ proc.pc # "start" /\ (Goto("program-wait") \/ Answer("interrupted"))
      BY <2>4, CommandIs DEF ProgramSend
    <3> QED BY <1>0, <1>2, <3>1, GotoIs, AnswerIs DEF Loaded, ProgramPCs
  <2>5. CASE ProgramWait \/ ProgramRead
    <3>1. /\ proc.pc \in ProgramPCs \ {"flight-wait"} /\ proc.pc # "start" /\ st' = st
          /\ \/ Goto("program-read")
             \/ \E r \in Answers : Answer(r)
             \/ \E d : Qualified(d)
      BY <2>5 DEF ProgramWait, ProgramRead, WaitIdle, ProgramPCs, Answers
    <3>2. CASE \E d : Qualified(d)
      <4>1. Advanced(proc.st)
        BY <1>1, <3>1, <3>2, QualifiedIs
      <4> QED BY <1>2, <1>3, <3>1, <4>1 DEF Advanced, ErasePCs
    <3> QED BY <1>0, <1>2, <3>1, <3>2, GotoIs, AnswerIs DEF Loaded, ProgramPCs
  <2>6. CASE EndQualify
    <3> DEFINE s == [proc.st EXCEPT !.phase = "other"]
    <3>1. KinToOne(s) /\ SaveAndAnswer(s, "ok")
      BY <1>0, <2>6, KinOf DEF KinToOne, EndQualify
    <3> HIDE DEF s
    <3> QED BY <1>0, <3>1, SaveAndAnswerIs DEF Loaded
  <2> HIDE DEF Fine
  <2> QED BY <2>1, <2>2, <2>3, <2>4, <2>5, <2>6 DEF QualifyNext
<1> QED BY <1>4

-----------------------------------------------------------------------------
(* The entry command is not sent to a controller that has left its normal  *)
(* mode.                                                                   *)

LEMMA CommandTold ==
  ASSUME Types, NEW op, NEW b, NEW p, Command(op, b, p)
  PROVE  /\ hist'.reentered = hist.reentered /\ hist'.verified = hist.verified
         /\ hist'.programFailed = hist.programFailed /\ hist'.cut = hist.cut
         /\ hist'.recovered = hist.recovered
         /\ op # "activate-metadata" => /\ hist'.activated = hist.activated
                                        /\ hist'.activatedTwice = hist.activatedTwice
         /\ op = "activate-metadata" /\ Accepts =>
              /\ hist'.activated = hist.activated \cup {proc.st.gen}
              /\ proc.st.gen \notin hist.activated =>
                   hist'.activatedTwice = hist.activatedTwice
         /\ ~Accepts => /\ hist'.activated = hist.activated
                        /\ hist'.activatedTwice = hist.activatedTwice
<1> DEFINE x == hist.busySent \/ Busy
           y == hist.activatedTwice \/ (op = "activate-metadata" /\ Accepts
                                          /\ proc.st.gen \in hist.activated)
           z == IF op = "activate-metadata" /\ Accepts
                THEN hist.activated \cup {proc.st.gen} ELSE hist.activated
<1>1. hist' = [hist EXCEPT !.busySent = x, !.activatedTwice = y, !.activated = z]
  BY DEF Command
<1>2. /\ hist'.reentered = hist.reentered /\ hist'.verified = hist.verified
      /\ hist'.programFailed = hist.programFailed /\ hist'.cut = hist.cut
      /\ hist'.recovered = hist.recovered
      /\ hist'.activatedTwice = y /\ hist'.activated = z
  <2> HIDE DEF x, y, z
  <2> QED BY <1>1 DEF Types, Histories
<1>3. hist.activatedTwice \in BOOLEAN
  BY DEF Types, Histories
<1>4. ~(op = "activate-metadata" /\ Accepts /\ proc.st.gen \in hist.activated) =>
        y = hist.activatedTwice
  BY <1>3
<1> HIDE DEF y
<1> QED BY <1>2, <1>4

LEMMA WorkCommands ==
  ASSUME Types, Placed, EraseNext \/ QualifyNext
  PROVE  /\ cfg' = cfg /\ plan' = plan /\ ctl'.mode = ctl.mode
         /\ hist'.reentered = hist.reentered /\ hist'.activated = hist.activated
         /\ hist'.activatedTwice = hist.activatedTwice
         /\ ctl'.op \in {ctl.op, "erase-block", "program-page"}
<1>1. CASE Send
  <2>1. Command("erase-block", Block, "wait") /\ cfg' = cfg /\ plan' = plan
    BY <1>1 DEF Send
  <2>2. "erase-block" # "activate-metadata"
    OBVIOUS
  <2>3. ctl'.mode = ctl.mode /\ ctl'.op \in {ctl.op, "erase-block"}
    BY <2>1, CommandIs
  <2> QED BY <2>1, <2>2, <2>3, CommandTold
<1>2. CASE ProgramSend
  <2>1. Command("program-page", Block, "program-wait") /\ cfg' = cfg /\ plan' = plan
    BY <1>2 DEF ProgramSend
  <2>2. "program-page" # "activate-metadata"
    OBVIOUS
  <2>3. ctl'.mode = ctl.mode /\ ctl'.op \in {ctl.op, "program-page"}
    BY <2>1, CommandIs
  <2> QED BY <2>1, <2>2, <2>3, CommandTold
<1>3. CASE BeginErase \/ Scan \/ OldWait \/ OldRead \/ Mark
  BY <1>3 DEF BeginErase, Scan, OldWait, OldRead, Mark, WaitIdle
<1>4. CASE Wait \/ Read \/ SaveBatch \/ EndErase \/ Markers
  BY <1>4 DEF Wait, Read, SaveBatch, EndErase, Markers, WaitIdle
<1>5. CASE BeginQualify \/ FlightWait \/ ProgramMark \/ ProgramWait \/ ProgramRead \/ EndQualify
  BY <1>5 DEF BeginQualify, FlightWait, ProgramMark, ProgramWait, ProgramRead, EndQualify,
              WaitIdle
<1> QED BY <1>1, <1>2, <1>3, <1>4, <1>5 DEF EraseNext, QualifyNext

\* The process before: it holds the mode of the state wherever it is at work.
LEMMA EntryFrame ==
  ASSUME EntryInv, cfg' = cfg, hist'.reentered = hist.reentered,
         ctl'.mode \in {ctl.mode, "normal"},
         ctl'.mode = "service" => st'.mode = st.mode,
         proc'.pc \notin EnterPCs,
         proc'.pc \in Loaded => proc'.st.mode = st'.mode
  PROVE  EntryInv'
  BY DEF EntryInv, EnterPCs

LEMMA WorkEntry ==
  ASSUME Types, Given, Placed, EntryInv, EraseNext \/ QualifyNext
  PROVE  EntryInv'
<1>1. /\ cfg' = cfg /\ ctl'.mode = ctl.mode /\ hist'.reentered = hist.reentered
  BY WorkCommands
<1>2. /\ KinToOne(st')
      /\ proc'.pc \in Loaded => KinToOne(proc'.st)
      /\ proc'.pc \notin EnterPCs
  BY EraseKin, QualifyKin DEF EnterPCs, ErasePCs, ProgramPCs
<1>3. proc.pc # "start" => proc.st.mode = st.mode
  BY BlockActionIndex DEF EntryInv, Loaded, WorksOn, ErasePCs, ProgramPCs, PCs
<1> QED BY <1>1, <1>2, <1>3, EntryFrame DEF KinToOne, Kin

\* The rebuild and what only reads leave the mode alone.
LEMMA RebuildKeepsMode ==
  ASSUME Types, Given, Placed, EntryInv, RebuildNext
  PROVE  /\ st'.mode = st.mode /\ proc'.pc \in MetaPCs \cup {"answer"}
         /\ proc'.pc \in Loaded => proc'.st.mode = st.mode
<1>0. /\ proc \in Processes /\ st \in RunStates /\ proc.st \in RunStates
      /\ proc.pc \in MetaPCs => proc.st.mode = st.mode
  BY DEF Types, Processes, EntryInv, Loaded, MetaPCs, PCs
<1>1. CASE BeginRebuild
  <2> DEFINE s == Fresh
  <2>1. s.mode = st.mode
    BY <1>0 DEF Fresh, RunStates
  <2>2. \/ UNCHANGED st /\ (\E r \in Answers : Answer(r))
        \/ UNCHANGED st /\ ToMetadata(st, PhaseIndex(st))
        \/ st' = s /\ ToMetadata(s, 1)
    BY <1>1, BeginRebuildIs DEF Answers
  <2> HIDE DEF s
  <2> QED BY <1>0, <2>1, <2>2, ToMetadataIs, AnswerIs DEF Loaded, MetaPCs
<1>2. CASE Metadata \/ MetaSend \/ MetaWait
  <2>1. /\ st' = st /\ proc.pc \in MetaPCs
        /\ \/ \E p \in MetaPCs : Goto(p)
           \/ \E r \in Answers : Answer(r)
    BY <1>2, MetadataIs, CommandIs DEF Metadata, MetaSend, MetaWait, WaitIdle, MetaPCs, Answers
  <2> QED BY <1>0, <2>1, GotoIs, AnswerIs DEF Loaded
<1>3. CASE MetaSave
  <2> DEFINE s == [proc.st EXCEPT !.phase = MetadataPhases[proc.tries + 1]]
  <2>1. s.mode = st.mode
    BY <1>0, <1>3 DEF MetaSave, MetaPCs, RunStates
  <2>2. st' = s /\ proc' = [proc EXCEPT !.pc = "metadata", !.st = s, !.tries = @ + 1]
    BY <1>3 DEF MetaSave
  <2> HIDE DEF s
  <2>3. proc'.pc = "metadata" /\ proc'.st = s
    BY <1>0, <2>2 DEF Processes
  <2> QED BY <2>1, <2>2, <2>3 DEF MetaPCs
<1>4. CASE MetaVerify
  <2> DEFINE s == [proc.st EXCEPT !.phase = "metadata-commit-verified"]
  <2>1. s.mode = st.mode
    BY <1>0, <1>4 DEF MetaVerify, MetaPCs, RunStates
  <2>2. Ends(s, {})
    BY <1>4 DEF MetaVerify, WhenIdle, Ends, Answers
  <2> HIDE DEF s
  <2> QED BY <1>0, <2>1, <2>2, EndsIs DEF Loaded
<1> QED BY <1>1, <1>2, <1>3, <1>4 DEF RebuildNext

LEMMA RebuildEntry ==
  ASSUME Types, Given, Placed, EntryInv, RebuildNext
  PROVE  EntryInv'
<1>1. cfg' = cfg /\ ctl'.mode = ctl.mode /\ (proc.pc = "start" \/ proc.pc \in MetaPCs)
  BY RebuildLeaves
<1>2. hist'.reentered = hist.reentered
  BY BeginRebuildIs, MetadataIs, CommandTold
     DEF RebuildNext, MetaSend, MetaWait, MetaSave, MetaVerify, WaitIdle, WhenIdle
<1>3. /\ st'.mode = st.mode /\ proc'.pc \in MetaPCs \cup {"answer"}
      /\ proc'.pc \in Loaded => proc'.st.mode = st.mode
  BY RebuildKeepsMode
<1> QED BY <1>1, <1>2, <1>3, EntryFrame DEF EnterPCs, MetaPCs

LEMMA ReadKeepsMode ==
  ASSUME Types, Given, Placed, EntryInv, ReadNext
  PROVE  /\ st'.mode = st.mode /\ proc'.pc \in {"batch", "answer"}
         /\ proc'.pc \in Loaded => proc'.st.mode = st.mode
<1>0. proc \in Processes /\ st \in RunStates /\ proc.st \in RunStates
  BY DEF Types, Processes
<1>1. CASE Inventory
  <2> DEFINE s == [Classified(st) EXCEPT !.gen = ctl.committed.gen, !.phase = "other"]
  <2>1. s.mode = st.mode
    BY <1>0, ClassifiedIs, ClassifiedTyped DEF RunStates
  <2>2. Ends(s, {})
    BY <1>1 DEF Inventory, WhenIdle, Ends, Answers
  <2> HIDE DEF s
  <2> QED BY <1>0, <2>1, <2>2, EndsIs DEF Loaded
<1>2. CASE CaptureOldBbt
  <2>1. \A d, r : [Classified(st) EXCEPT !.disp = d, !.rbb = r, !.phase = "other"].mode = st.mode
    BY <1>0, ClassifiedIs, ClassifiedTyped DEF RunStates
  <2>2. \/ \E s : s.mode = st.mode /\ SaveAndAnswer(s, "ok")
        \/ UNCHANGED st /\ \E r \in Answers : Answer(r)
    BY <1>2, <2>1 DEF CaptureOldBbt, Answers
  <2> QED BY <1>0, <2>2, SaveAndAnswerIs, AnswerIs DEF Loaded
<1>3. CASE BeginEnumerate
  <2>1. st' = st /\ Begin("batch", Classified(st), Blocks)
    BY <1>3 DEF BeginEnumerate
  <2> QED BY <1>0, <2>1, BeginIs, ClassifiedIs
<1>4. CASE EnumerateBatch
  <2> DEFINE n == proc.done + BatchSize
             s == Searched(n)
  <2>1. proc.pc = "batch"
    BY <1>4 DEF EnumerateBatch
  <2>2. s.mode = st.mode
    BY <1>0, <2>1 DEF Searched, RunStates, EntryInv, Loaded, PCs
  <2>3. \/ UNCHANGED st /\ Answer("error")
        \/ SaveAndAnswer(s, "ok")
        \/ Batched(s, n)
    BY <1>4, EnumerateBatchIs
  <2> HIDE DEF s, n
  <2> QED BY <1>0, <2>1, <2>2, <2>3, SaveAndAnswerIs, AnswerIs, BatchedIs DEF Loaded
<1>5. CASE VerifyErasure \/ ReEnumeration \/ Postcheck
  <2> DEFINE s == [Classified(st) EXCEPT !.phase = "other"]
  <2>1. s.mode = st.mode
    BY <1>0, ClassifiedIs, ClassifiedTyped DEF RunStates
  <2>2. \/ UNCHANGED st /\ \E r \in Answers : Answer(r)
        \/ \E r \in Answers : SaveAndAnswer(s, r)
    BY <1>5, VerifyErasureIs DEF ReEnumeration, Postcheck, WhenIdle, Answers
  <2> HIDE DEF s
  <2> QED BY <1>0, <2>1, <2>2, SaveAndAnswerIs, AnswerIs DEF Loaded
<1> QED BY <1>1, <1>2, <1>3, <1>4, <1>5 DEF ReadNext

LEMMA ReadEntry ==
  ASSUME Types, Given, Placed, EntryInv, ReadNext
  PROVE  EntryInv'
<1>1. cfg' = cfg /\ ctl' = ctl
  BY DEF ReadNext, Inventory, CaptureOldBbt, BeginEnumerate, EnumerateBatch, VerifyErasure,
         ReEnumeration, Postcheck, WhenIdle
<1>2. hist'.reentered = hist.reentered
  BY VerifyErasureIs DEF ReadNext, Inventory, CaptureOldBbt, BeginEnumerate, EnumerateBatch,
         ReEnumeration, Postcheck, WhenIdle, Types, Histories
<1>3. /\ st'.mode = st.mode /\ proc'.pc \in {"batch", "answer"}
      /\ proc'.pc \in Loaded => proc'.st.mode = st.mode
  BY ReadKeepsMode
<1> QED BY <1>1, <1>2, <1>3, EntryFrame DEF EnterPCs

LEMMA EnvironmentEntry ==
  ASSUME Types, Given, Placed, EntryInv, Environment \/ CoreNext
  PROVE  EntryInv'
<1>0. /\ proc \in Processes /\ plan \in [idx : Nat, last : Answers] /\ ctl \in Controllers
      /\ st \in RunStates
  BY DEF Types
<1>1. CASE Finish
  <2>1. cfg' = cfg /\ st' = st /\ proc' = proc
    BY <1>1 DEF Finish
  <2>2. ctl'.mode = ctl.mode
    BY <1>0, <1>1, FinishIs DEF Controllers
  <2>3. hist'.reentered = hist.reentered
    BY <1>1, FinishIs DEF Types, Histories
  <2> QED BY <2>1, <2>2, <2>3 DEF EntryInv, Loaded
<1>2. CASE TransportFails
  <2>1. /\ cfg' = cfg /\ st' = st /\ ctl' = ctl /\ hist' = hist
        /\ Answer("interrupted") \/ Answer("error")
    BY <1>2 DEF TransportFails
  <2>2. proc'.pc = "answer"
    BY <1>0, <2>1, AnswerIs
  <2> QED BY <2>1, <2>2, EntryFrame DEF EnterPCs, Loaded
<1>3. CASE Kill \/ PowerCut
  <2>1. cfg' = cfg /\ st' = st /\ Stop("none")
    BY <1>3 DEF Kill, PowerCut
  <2>2. ctl'.mode \in {ctl.mode, "normal"}
    BY <1>0, <1>3 DEF Kill, PowerCut, Unpowered, Controllers
  <2>3. hist'.reentered = hist.reentered
    BY <1>3 DEF Kill, PowerCut, Types, Histories
  <2>4. proc'.pc = "idle"
    BY <1>0, <2>1, StopIs
  <2> QED BY <2>1, <2>2, <2>3, <2>4, EntryFrame DEF EnterPCs, Loaded
<1>4. CASE PowerCycle
  <2>1. cfg' = cfg /\ st' = st /\ hist' = hist /\ Answer("ok") /\ ctl' = Unpowered(ctl)
    BY <1>4 DEF PowerCycle
  <2>2. proc'.pc = "answer" /\ ctl'.mode = "normal"
    BY <1>0, <2>1, AnswerIs, UnpoweredIs
  <2> QED BY <2>1, <2>2, EntryFrame DEF EnterPCs, Loaded
<1>5. CASE Recorded \/ Resume
  <2>1. cfg' = cfg /\ st' = st /\ hist' = hist /\ ctl' = ctl
    BY <1>5 DEF Recorded, Resume
  <2>2. Goto("start") \/ Stop(proc.res)
    BY <1>5 DEF Recorded, Resume
  <2>3. proc'.pc \in {"start", "idle"}
    BY <1>0, <2>2, GotoIs, StopIs
  <2> QED BY <2>1, <2>3, EntryFrame DEF EnterPCs, Loaded
<1>6. CASE Recover
  <2>1. /\ cfg' = cfg /\ proc' = proc /\ proc.pc = "idle" /\ ctl' = Unpowered(ctl)
        /\ hist' = [hist EXCEPT !.recovered = TRUE]
    BY <1>6 DEF Recover
  <2>2. ctl'.mode = "normal" /\ hist'.reentered = hist.reentered
    BY <1>0, <2>1, UnpoweredIs DEF Types, Histories
  <2> QED BY <2>1, <2>2, EntryFrame DEF EnterPCs, Loaded
<1>7. CASE Done
  BY <1>7 DEF Done, vars, EntryInv, Loaded
<1> QED BY <1>1, <1>2, <1>3, <1>4, <1>5, <1>6, <1>7 DEF Environment, CoreNext

LEMMA ServiceEntry ==
  ASSUME Types, Given, Placed, EntryInv, ServiceNext
  PROVE  EntryInv'
<1>0. /\ proc \in Processes /\ st \in RunStates /\ proc.st \in RunStates /\ ctl \in Controllers
      /\ ctl.mode \in {"normal", "bootrom", "service"}
  BY DEF Types, Processes, Controllers
<1>1. cfg' = cfg
  BY ServiceLeaves
<1>2. proc.pc \in (EnterPCs \cup ExitPCs) \ {"enter-confirm"} => proc.st.mode = st.mode
  BY DEF EntryInv, EnterPCs, ExitPCs, Loaded, PCs
<1>3. CASE BeginEnter
  <2>1. st' = st /\ ctl' = ctl /\ hist' = hist
    BY <1>3 DEF BeginEnter
  <2>2. proc'.st = st
    BY <1>3, BeginEnterIs
  <2>3. \/ st.mode = "normal" /\ proc'.pc = "enter-ask"
        \/ st.mode = "entry-command-pending" /\ proc'.pc = "enter-pending"
        \/ /\ st.mode \in {"entry-reenumerating", "loader-command-pending"}
           /\ proc'.pc = "enter-load"
        \/ proc'.pc = "enter-confirm"
    BY <1>3, BeginEnterIs
  <2> QED BY <1>1, <2>1, <2>2, <2>3 DEF EntryInv, Loaded
<1>4. CASE EnterAsk
  <2> DEFINE inService == [st EXCEPT !.mode = "in-service"]
             pending == [st EXCEPT !.mode = "entry-command-pending", !.phase = "other"]
  <2>1. inService.mode = "in-service" /\ pending.mode = "entry-command-pending"
    BY <1>0 DEF RunStates
  <2>2. \/ Work("enter-confirm", inService) /\ UNCHANGED st
        \/ Save("enter-pending", pending) /\ ctl.mode # "service"
        \/ UNCHANGED st /\ \E r \in Answers : Answer(r)
    BY <1>4 DEF EnterAsk, WhenIdle, Answers
  <2>3. ctl' = ctl /\ hist' = hist
    BY <1>4 DEF EnterAsk, WhenIdle
  <2> HIDE DEF inService, pending
  <2>4. \/ proc'.pc = "enter-confirm" /\ st' = st
        \/ /\ proc'.pc = "enter-pending" /\ ctl.mode # "service"
           /\ st' = pending /\ proc'.st = pending
        \/ proc'.pc = "answer" /\ st' = st
    BY <1>0, <2>2, WorkIs, SaveIs, AnswerIs
  <2> QED BY <1>1, <2>1, <2>3, <2>4 DEF EntryInv, Loaded
<1>5. CASE EnterPending
  <2> DEFINE s == [proc.st EXCEPT !.mode = "entry-reenumerating"]
  <2>1. s.mode = "entry-reenumerating" /\ proc.pc = "enter-pending"
    BY <1>0, <1>5 DEF EnterPending, RunStates
  <2>2. ctl' = ctl /\ hist' = hist
    BY <1>5 DEF EnterPending, WhenIdle
  <2>3. \/ Save("enter-load", s)
        \/ /\ Goto("enter-send") /\ UNCHANGED st
           /\ cfg.entry.loader /\ ctl.mode # "bootrom"
        \/ /\ Goto("enter-send") /\ UNCHANGED st
           /\ ~cfg.entry.loader /\ ctl.mode # "service"
        \/ UNCHANGED st /\ \E r \in Answers : Answer(r)
    BY <1>5 DEF EnterPending, WhenIdle, Answers
  <2> HIDE DEF s
  <2>4. st.mode = "entry-command-pending"
    BY <2>1 DEF EntryInv
  <2>5. ctl.mode = "bootrom" => cfg.entry.loader
    BY DEF EntryInv
  <2>6. cfg.entry.loader => ctl.mode # "service"
    BY <2>4 DEF EntryInv
  <2>7. \/ proc'.pc = "enter-load" /\ st' = s /\ proc'.st = s
        \/ /\ proc'.pc = "enter-send" /\ st' = st /\ proc'.st = proc.st
           /\ ctl.mode = "normal"
        \/ proc'.pc = "answer" /\ st' = st
    BY <1>0, <2>3, <2>5, <2>6, SaveIs, GotoIs, AnswerIs
  <2>8. proc.st.mode = st.mode
    BY <1>2, <2>1 DEF EnterPCs
  <2> QED BY <1>1, <2>1, <2>2, <2>4, <2>7, <2>8 DEF EntryInv, Loaded
<1>6. CASE EnterSend
  <2>1. proc.pc = "enter-send" /\ st' = st
    BY <1>6 DEF EnterSend
  <2>2. ctl.mode = "normal" /\ st.mode = "entry-command-pending" /\ proc.st.mode = st.mode
    BY <1>2, <2>1 DEF EntryInv, EnterPCs
  <2>3. hist'.reentered = hist.reentered
    <3>1. hist' = [hist EXCEPT !.reentered = hist.reentered \/ FALSE]
      BY <1>6, <2>2 DEF EnterSend
    <3> QED BY <3>1 DEF Types, Histories
  <2>4. \/ ctl'.mode = "normal"
        \/ cfg.entry.loader /\ ctl'.mode = "bootrom"
        \/ ~cfg.entry.loader /\ ctl'.mode = "service"
    BY <1>0, <1>6, <2>2 DEF EnterSend, Controllers
  <2>5. Answer("interrupted") \/ Goto("enter-sent") \/ Goto("enter-confirm")
    BY <1>6 DEF EnterSend
  <2>6. \/ proc'.pc = "answer"
        \/ proc'.pc \in {"enter-sent", "enter-confirm"} /\ proc'.st = proc.st
    BY <1>0, <2>5, GotoIs, AnswerIs
  <2> QED BY <1>1, <2>1, <2>2, <2>3, <2>4, <2>6 DEF EntryInv, Loaded
<1>7. CASE EnterSent \/ LoaderSent
  <2>1. PICK m \in {"entry-reenumerating", "loader-reenumerating"} :
          SaveAndAnswer([proc.st EXCEPT !.mode = m, !.phase = "other"], "awaiting")
    BY <1>7 DEF EnterSent, LoaderSent
  <2> DEFINE s == [proc.st EXCEPT !.mode = m, !.phase = "other"]
  <2>2. s.mode = m /\ SaveAndAnswer(s, "awaiting")
    BY <1>0, <2>1 DEF RunStates
  <2>3. ctl' = ctl /\ hist' = hist
    BY <1>7 DEF EnterSent, LoaderSent
  <2> HIDE DEF s
  <2>4. proc'.pc = "answer" /\ st'.mode = m
    BY <1>0, <2>2, SaveAndAnswerIs
  <2> QED BY <1>1, <2>1, <2>3, <2>4 DEF EntryInv, Loaded
<1>8. CASE EnterLoad
  <2> DEFINE s == [proc.st EXCEPT !.mode = "loader-command-pending", !.phase = "other"]
  <2>1. s.mode = "loader-command-pending" /\ proc.pc = "enter-load"
    BY <1>0, <1>8 DEF EnterLoad, RunStates
  <2>2. ctl' = ctl /\ hist' = hist
    BY <1>8 DEF EnterLoad
  <2>3. Ends(s, {"enter-confirm", "enter-pram"})
    BY <1>8, EnterLoadIs DEF Ends, Answers
  <2> HIDE DEF s
  <2>4. /\ \/ st' = st /\ proc'.st = proc.st
           \/ st' = s /\ proc'.st = s
        /\ proc'.pc \in {"enter-confirm", "enter-pram", "answer"}
    BY <1>0, <2>3, EndsIs
  <2>5. proc.st.mode = st.mode
    BY <1>2, <2>1 DEF EnterPCs
  <2> QED BY <1>1, <2>1, <2>2, <2>4, <2>5 DEF EntryInv, Loaded
<1>9. CASE EnterPram
  <2>1. proc.pc = "enter-pram" /\ st' = st /\ hist' = hist
    BY <1>9 DEF EnterPram
  <2>2. ctl'.mode = IF ctl.mode = "bootrom" THEN "service" ELSE ctl.mode
    BY <1>0, <1>9 DEF EnterPram, Controllers
  <2>3. Answer("interrupted") \/ Goto("loader-sent") \/ Goto("enter-confirm")
    BY <1>9 DEF EnterPram
  <2>4. \/ proc'.pc = "answer"
        \/ proc'.pc \in {"loader-sent", "enter-confirm"} /\ proc'.st = proc.st
    BY <1>0, <2>3, GotoIs, AnswerIs
  <2>5. proc.st.mode = st.mode /\ st.mode \in {"entry-reenumerating", "loader-command-pending"}
    BY <1>2, <2>1 DEF EnterPCs, EntryInv
  <2> QED BY <1>1, <2>1, <2>2, <2>4, <2>5 DEF EntryInv, Loaded
<1>10. CASE EnterConfirm
  <2> DEFINE s == [proc.st EXCEPT !.mode = "in-service", !.phase = "other"]
  <2>1. s.mode = "in-service"
    BY <1>0 DEF RunStates
  <2>2. ctl' = ctl /\ hist' = hist
    BY <1>10 DEF EnterConfirm, WaitIdle
  <2>3. Ends(s, {})
    BY <1>10 DEF EnterConfirm, WaitIdle, Ends, Answers
  <2> HIDE DEF s
  <2>4. proc'.pc = "answer" /\ (st' = st \/ st' = s)
    BY <1>0, <2>3, EndsIs
  <2> QED BY <1>1, <2>1, <2>2, <2>4 DEF EntryInv, Loaded
<1>11. CASE BeginExit
  <2> DEFINE s == [st EXCEPT !.mode = "exit-command-pending", !.phase = "other"]
  <2>1. s.mode = "exit-command-pending"
    BY <1>0 DEF RunStates
  <2>2. ctl' = ctl /\ hist' = hist
    BY <1>11 DEF BeginExit
  <2>3. \/ st' = s /\ proc'.pc = "exit-ask" /\ proc'.st = st'
        \/ st' = st /\ proc'.pc \in {"exit-ask", "exit-confirm"} /\ proc'.st = st
        \/ st' = st /\ Answer("refused")
    BY <1>11, BeginExitIs
  <2> HIDE DEF s
  <2>4. /\ st' = st \/ st' = s
        /\ \/ proc'.pc = "answer"
           \/ proc'.pc \in {"exit-ask", "exit-confirm"} /\ proc'.st = st'
    BY <1>0, <2>3, AnswerIs
  <2> QED BY <1>1, <2>1, <2>2, <2>4 DEF EntryInv, Loaded
<1>12. CASE ExitAsk
  <2>1. proc.pc = "exit-ask" /\ ctl' = ctl /\ hist' = hist
    BY <1>12 DEF ExitAsk, WhenIdle
  <2>2. Ends(st, {"exit-send", "exit-confirm"}) /\ st' = st
    BY <1>12 DEF ExitAsk, WhenIdle, Ends, Answers
  <2>3. /\ proc'.pc \in {"exit-send", "exit-confirm", "answer"}
        /\ proc'.st = proc.st \/ proc'.st = st
    BY <1>0, <2>2, EndsIs
  <2>4. proc.st.mode = st.mode
    BY <1>2, <2>1 DEF ExitPCs
  <2> QED BY <1>1, <2>1, <2>2, <2>3, <2>4 DEF EntryInv, Loaded
<1>13. CASE ExitSend
  <2>1. proc.pc = "exit-send" /\ hist' = hist /\ st' = st
    BY <1>13 DEF ExitSend
  <2>2. ctl'.mode = "normal"
    BY <1>0, <1>13 DEF ExitSend, Controllers
  <2>3. Ends(st, {"exit-sent", "exit-confirm"})
    BY <1>13 DEF ExitSend, Ends, Answers
  <2>4. /\ proc'.pc \in {"exit-sent", "exit-confirm", "answer"}
        /\ proc'.st = proc.st \/ proc'.st = st
    BY <1>0, <2>3, EndsIs
  <2>5. proc.st.mode = st.mode
    BY <1>2, <2>1 DEF ExitPCs
  <2> QED BY <1>1, <2>1, <2>2, <2>4, <2>5 DEF EntryInv, Loaded
<1>14. CASE ExitSent
  <2> DEFINE s == [proc.st EXCEPT !.mode = "exit-reenumerating", !.phase = "other"]
  <2>1. s.mode = "exit-reenumerating" /\ SaveAndAnswer(s, "awaiting")
    BY <1>0, <1>14 DEF ExitSent, RunStates
  <2>2. ctl' = ctl /\ hist' = hist
    BY <1>14 DEF ExitSent
  <2> HIDE DEF s
  <2>3. proc'.pc = "answer" /\ st' = s
    BY <1>0, <2>1, SaveAndAnswerIs
  <2> QED BY <1>1, <2>1, <2>2, <2>3 DEF EntryInv, Loaded
<1>15. CASE ExitConfirm
  <2> DEFINE s == [proc.st EXCEPT !.mode = "normal", !.phase = "other"]
  <2>1. ctl' = ctl /\ hist' = hist
    BY <1>15 DEF ExitConfirm, WaitIdle
  <2>2. \/ ctl.mode = "normal" /\ SaveAndAnswer(s, "ok")
        \/ UNCHANGED st /\ \E r \in Answers : Answer(r)
    BY <1>15 DEF ExitConfirm, WaitIdle, Answers
  <2> HIDE DEF s
  <2>3. /\ proc'.pc = "answer"
        /\ st' = st \/ ctl.mode = "normal"
    BY <1>0, <2>2, SaveAndAnswerIs, AnswerIs
  <2> QED BY <1>1, <2>1, <2>3 DEF EntryInv, Loaded
<1> QED BY <1>3, <1>4, <1>5, <1>6, <1>7, <1>8, <1>9, <1>10, <1>11, <1>12, <1>13, <1>14, <1>15
        DEF ServiceNext

LEMMA EntryStep ==
  ASSUME Types, Given, Placed, EntryInv, [Next]_vars
  PROVE  EntryInv'
<1>1. CASE UNCHANGED vars
  BY <1>1 DEF vars, EntryInv, Loaded
<1> QED BY <1>1, ServiceEntry, WorkEntry, RebuildEntry, ReadEntry, EnvironmentEntry DEF Next

-----------------------------------------------------------------------------
(* A generation is activated once, and a rebuild ends on what it prepared. *)

LEMMA SameTable ==
  ASSUME NEW s, NEW t, t.disp = s.disp
  PROVE  Listed(t) = Listed(s) /\ Qualifieds(t) = Qualifieds(s)
         /\ UserOf(t) = UserOf(s) /\ SpareOf(t) = SpareOf(s)
<1>1. \A ds : Among(t, ds) = Among(s, ds)
  BY DEF Among
<1>2. Listed(t) = Listed(s) /\ Qualifieds(t) = Qualifieds(s)
  BY <1>1 DEF Listed, Qualifieds
<1>3. SpareOf(t) = SpareOf(s)
  BY <1>1, <1>2 DEF SpareOf
<1> QED BY <1>2, <1>3 DEF UserOf

\* Steps before the rebuild, and after it.
LEMMA RebuildBefore ==
  ASSUME Types, Types', RebuildInv, cfg' = cfg, plan'.idx = plan.idx, plan.idx < RebuildIndex,
         hist'.activated = hist.activated, hist'.activatedTwice = hist.activatedTwice,
         ctl'.op \notin ToSet(MetadataOps), st'.phase = "other",
         proc'.pc \in Loaded => proc'.st.phase = "other",
         proc'.pc \notin MetaPCs \cup ExitPCs
  PROVE  RebuildInv'
<1>1. RebuildIndex' = RebuildIndex /\ RebuildIndex \in Nat
  BY DEF RebuildIndex
<1>2. plan.idx \in Nat /\ plan'.idx # RebuildIndex /\ ~(Reached' > RebuildIndex)
  BY <1>1 DEF Types, Reached
<1>3. "activate-metadata" \in ToSet(MetadataOps)
  BY MetaOpsAre, MetaOpsTyped
<1>4. BeforeRebuild'
  BY <1>1 DEF RebuildInv, BeforeRebuild, Loaded
<1>5. AtRebuild' /\ Activating' /\ Transaction' /\ AfterRebuild'
  BY <1>1, <1>2, <1>3 DEF AtRebuild, Activating, Transaction, AfterRebuild, MetaPCs
<1> QED BY <1>4, <1>5 DEF RebuildInv, MetaPCs, ExitPCs

LEMMA RebuildAfter ==
  ASSUME Types, Types', RebuildInv, cfg' = cfg, plan'.idx = plan.idx, plan.idx > RebuildIndex,
         hist'.activated = hist.activated, hist'.activatedTwice = hist.activatedTwice,
         ctl'.op = "none", ctl'.committed = ctl.committed, ctl'.cap = ctl.cap,
         st'.gen = st.gen, st'.user = st.user, st'.spare = st.spare, st'.disp = st.disp,
         proc'.pc \notin MetaPCs, proc'.pc \in ExitPCs => proc'.st = st'
  PROVE  RebuildInv'
<1>1. RebuildIndex' = RebuildIndex /\ RebuildIndex \in Nat /\ plan.idx \in Nat
  BY DEF RebuildIndex, Types
<1>2. Reached > RebuildIndex
  BY <1>1 DEF Reached
<1>3. CommittedIs(st)'
  BY <1>2, SameTable DEF RebuildInv, AfterRebuild, CommittedIs
<1>4. BeforeRebuild' /\ AtRebuild' /\ Activating' /\ Transaction' /\ AfterRebuild'
  BY <1>1, <1>3 DEF BeforeRebuild, AtRebuild, Activating, Transaction, AfterRebuild, MetaPCs
<1> QED BY <1>4 DEF RebuildInv, MetaPCs, ExitPCs

LEMMA WorkRebuild ==
  ASSUME Types, Types', Given, Placed, RebuildInv, EraseNext \/ QualifyNext
  PROVE  RebuildInv'
<1>1. /\ cfg' = cfg /\ plan' = plan
      /\ hist'.activated = hist.activated /\ hist'.activatedTwice = hist.activatedTwice
      /\ ctl'.op \in {ctl.op, "erase-block", "program-page"}
  BY WorkCommands
<1>2. plan.idx < RebuildIndex /\ (proc.pc = "start" \/ proc.pc \in Loaded)
  BY BlockActionIndex DEF Loaded, WorksOn, ErasePCs, ProgramPCs, PCs
<1>3. /\ ctl.op \notin ToSet(MetadataOps) /\ st.phase = "other"
      /\ proc.pc \in Loaded => proc.st.phase = "other"
  BY <1>2 DEF RebuildInv, BeforeRebuild
<1>4. /\ KinToOne(st')
      /\ proc'.pc \in Loaded => KinToOne(proc'.st)
      /\ proc'.pc \notin MetaPCs \cup ExitPCs
  BY EraseKin, QualifyKin DEF MetaPCs, ExitPCs, ErasePCs, ProgramPCs
<1>5. {"erase-block", "program-page"} \cap ToSet(MetadataOps) = {}
  BY NotMetadata
<1> QED BY <1>1, <1>2, <1>3, <1>4, <1>5, RebuildBefore DEF KinToOne, Kin

LEMMA ReadRebuild ==
  ASSUME Types, Types', Given, Placed, RebuildInv, ReadNext
  PROVE  RebuildInv'
<1>0. proc \in Processes /\ st \in RunStates /\ proc.st \in RunStates /\ Len(Actions) \in Nat
  BY PlanActions DEF Types, Processes, Actions
<1>1. cfg' = cfg /\ plan' = plan /\ ctl' = ctl
  BY DEF ReadNext, Inventory, CaptureOldBbt, BeginEnumerate, EnumerateBatch, VerifyErasure,
         ReEnumeration, Postcheck, WhenIdle
<1>2. hist'.activated = hist.activated /\ hist'.activatedTwice = hist.activatedTwice
  BY VerifyErasureIs DEF ReadNext, Inventory, CaptureOldBbt, BeginEnumerate, EnumerateBatch,
         ReEnumeration, Postcheck, WhenIdle, Types, Histories
<1>3. CASE ReEnumeration \/ Postcheck
  <2>1. /\ st' = st /\ \E r \in Answers : Answer(r)
        /\ Ready /\ Action \in {"re-enumeration", "postcheck-c3", "postcheck-c4"}
    BY <1>3 DEF ReEnumeration, Postcheck, On, WhenIdle, Answers
  <2>2. plan.idx \in 1 .. Len(Actions)
    BY <1>0, <2>1 DEF Ready, Finished, Placed
  <2>3. plan.idx > RebuildIndex
    BY <2>1, <2>2, Order
  <2>4. ctl.op = "none"
    BY <2>3, ReachedIs DEF RebuildInv, AfterRebuild, CommittedIs, Types, RebuildIndex
  <2>5. proc'.pc = "answer"
    BY <1>0, <2>1, AnswerIs
  <2> QED BY <1>1, <1>2, <2>1, <2>3, <2>4, <2>5, RebuildAfter DEF MetaPCs, ExitPCs
<1>4. CASE Inventory \/ CaptureOldBbt \/ BeginEnumerate \/ EnumerateBatch \/ VerifyErasure
  <2>1. plan.idx < RebuildIndex
    <3>1. CASE EnumerateBatch
      BY <1>0, <3>1, Order DEF EnumerateBatch, Placed, RebuildIndex, MarkersIndex
    <3>2. CASE Inventory \/ CaptureOldBbt \/ BeginEnumerate \/ VerifyErasure
      <4>1. /\ Ready
            /\ Action \in {"inventory", "capture-old-bbt", "enumerate-blocks",
                           "verify-physical-erasure"}
        BY <3>2 DEF Inventory, CaptureOldBbt, BeginEnumerate, VerifyErasure, On
      <4>2. plan.idx \in 1 .. Len(Actions)
        BY <1>0, <4>1 DEF Ready, Finished, Placed
      <4> QED BY <4>1, <4>2, Order DEF RebuildIndex, MarkersIndex
    <3> QED BY <1>4, <3>1, <3>2
  <2>2. st.phase = "other" /\ ctl.op \notin ToSet(MetadataOps)
    BY <2>1 DEF RebuildInv, BeforeRebuild
  <2>3. /\ st'.phase = "other" /\ proc'.pc \in {"batch", "answer"}
        /\ proc'.pc \in Loaded => proc'.st.phase = "other"
    <3>1. CASE Inventory
      <4> DEFINE s == [Classified(st) EXCEPT !.gen = ctl.committed.gen, !.phase = "other"]
      <4>1. s.phase = "other"
        BY <1>0, ClassifiedTyped DEF RunStates
      <4>2. Ends(s, {})
        BY <3>1 DEF Inventory, WhenIdle, Ends, Answers
      <4> HIDE DEF s
      <4> QED BY <1>0, <2>2, <4>1, <4>2, EndsIs DEF Loaded
    <3>2. CASE CaptureOldBbt
      <4>1. \A d, r : [Classified(st) EXCEPT !.disp = d, !.rbb = r, !.phase = "other"].phase
                        = "other"
        BY <1>0, ClassifiedTyped DEF RunStates
      <4>2. \/ \E s : s.phase = "other" /\ SaveAndAnswer(s, "ok")
            \/ UNCHANGED st /\ \E r \in Answers : Answer(r)
        BY <3>2, <4>1 DEF CaptureOldBbt, Answers
      <4> QED BY <1>0, <2>2, <4>2, SaveAndAnswerIs, AnswerIs DEF Loaded
    <3>3. CASE BeginEnumerate
      <4>1. st' = st /\ Begin("batch", Classified(st), Blocks)
        BY <3>3 DEF BeginEnumerate
      <4> QED BY <1>0, <2>2, <4>1, BeginIs, ClassifiedIs
    <3>4. CASE EnumerateBatch
      <4> DEFINE n == proc.done + BatchSize
                 s == Searched(n)
      <4>1. proc.pc = "batch"
        BY <3>4 DEF EnumerateBatch
      <4>2. s.phase = "other"
        BY <1>0 DEF Searched, RunStates
      <4>3. \/ UNCHANGED st /\ Answer("error")
            \/ SaveAndAnswer(s, "ok")
            \/ Batched(s, n)
        BY <3>4, EnumerateBatchIs
      <4> HIDE DEF s, n
      <4> QED BY <1>0, <2>2, <4>1, <4>2, <4>3, SaveAndAnswerIs, AnswerIs, BatchedIs DEF Loaded
    <3>5. CASE VerifyErasure
      <4> DEFINE s == [Classified(st) EXCEPT !.phase = "other"]
      <4>1. s.phase = "other"
        BY <1>0, ClassifiedTyped DEF RunStates
      <4>2. \/ UNCHANGED st /\ \E r \in Answers : Answer(r)
            \/ \E r \in Answers : SaveAndAnswer(s, r)
        BY <3>5, VerifyErasureIs DEF Answers
      <4> HIDE DEF s
      <4> QED BY <1>0, <2>2, <4>1, <4>2, SaveAndAnswerIs, AnswerIs DEF Loaded
    <3> QED BY <1>4, <3>1, <3>2, <3>3, <3>4, <3>5
  <2> QED BY <1>1, <1>2, <2>1, <2>2, <2>3, RebuildBefore DEF MetaPCs, ExitPCs
<1> QED BY <1>3, <1>4 DEF ReadNext

LEMMA ServiceRebuild ==
  ASSUME Types, Types', Given, Placed, RebuildInv, ServiceNext
  PROVE  RebuildInv'
<1>0. proc \in Processes /\ st \in RunStates /\ proc.st \in RunStates
  BY DEF Types, Processes
<1>1. /\ cfg' = cfg /\ plan' = plan /\ ctl'.op = ctl.op
      /\ ctl'.committed = ctl.committed /\ ctl'.cap = ctl.cap
  BY ServiceLeaves
<1>2. hist'.activated = hist.activated /\ hist'.activatedTwice = hist.activatedTwice
  <2>1. CASE EnterSend
    <3>1. \A x : [hist EXCEPT !.reentered = x].activated = hist.activated
              /\ [hist EXCEPT !.reentered = x].activatedTwice = hist.activatedTwice
      BY DEF Types, Histories
    <3> QED BY <2>1, <3>1 DEF EnterSend
  <2>2. ServiceNext /\ ~EnterSend => hist' = hist
    BY DEF ServiceNext, BeginEnter, EnterAsk, EnterPending, EnterSent, EnterLoad, EnterPram,
           LoaderSent, EnterConfirm, BeginExit, ExitAsk, ExitSend, ExitSent, ExitConfirm,
           WhenIdle, WaitIdle
  <2> QED BY <2>1, <2>2
<1>3. CASE BeginExit \/ ExitAsk \/ ExitSend \/ ExitSent \/ ExitConfirm
  <2>1. plan.idx > RebuildIndex
    <3>1. /\ plan.idx \in 1 .. Len(Actions) /\ Action = "exit-service-mode"
      <4>1. Len(Actions) \in Nat
        BY PlanActions DEF Actions
      <4>2. CASE BeginExit
        BY <4>1, <4>2 DEF BeginExit, On, Ready, Finished, Placed
      <4>3. CASE ExitAsk \/ ExitSend \/ ExitSent \/ ExitConfirm
        BY <4>1, <4>3 DEF ExitAsk, ExitSend, ExitSent, ExitConfirm, ExitPCs, Placed
      <4> QED BY <1>3, <4>2, <4>3
    <3> QED BY <3>1, Order
  <2>2. ctl.op = "none"
    BY <2>1, ReachedIs DEF RebuildInv, AfterRebuild, CommittedIs, Types, RebuildIndex
  <2>3. \A m : /\ [st EXCEPT !.mode = m, !.phase = "other"].gen = st.gen
               /\ [st EXCEPT !.mode = m, !.phase = "other"].user = st.user
               /\ [st EXCEPT !.mode = m, !.phase = "other"].spare = st.spare
               /\ [st EXCEPT !.mode = m, !.phase = "other"].disp = st.disp
    BY <1>0 DEF RunStates
  <2>4. /\ st'.gen = st.gen /\ st'.user = st.user /\ st'.spare = st.spare /\ st'.disp = st.disp
        /\ proc'.pc \in ExitPCs \cup {"answer"}
        /\ proc'.pc \in ExitPCs => proc'.st = st'
    <3>1. CASE BeginExit
      BY <1>0, <2>3, <3>1, BeginExitIs, AnswerIs, ZenonT(40) DEF ExitPCs
    <3>2. CASE ExitAsk \/ ExitSend
      <4>1. /\ st' = st /\ proc.pc \in ExitPCs
            /\ \/ \E p \in ExitPCs : Goto(p)
               \/ \E r \in Answers : Answer(r)
        BY <3>2 DEF ExitAsk, ExitSend, WhenIdle, ExitPCs, Answers
      <4> QED BY <1>0, <4>1, GotoIs, AnswerIs DEF RebuildInv, ExitPCs
    <3>3. CASE ExitSent \/ ExitConfirm
      <4>1. proc.st = st
        BY <3>3 DEF ExitSent, ExitConfirm, RebuildInv, ExitPCs
      <4>2. \/ \E m : SaveAndAnswer([st EXCEPT !.mode = m, !.phase = "other"], "ok")
            \/ \E m : SaveAndAnswer([st EXCEPT !.mode = m, !.phase = "other"], "awaiting")
            \/ UNCHANGED st /\ \E r \in Answers : Answer(r)
        BY <3>3, <4>1 DEF ExitSent, ExitConfirm, WaitIdle, Answers
      <4>3. \/ UNCHANGED st /\ \E r \in Answers : Answer(r)
            \/ \E s : /\ s.gen = st.gen /\ s.user = st.user /\ s.spare = st.spare
                      /\ s.disp = st.disp
                      /\ SaveAndAnswer(s, "ok") \/ SaveAndAnswer(s, "awaiting")
        BY <2>3, <4>2
      <4> QED BY <1>0, <4>3, SaveAndAnswerIs, AnswerIs DEF ExitPCs
    <3> QED BY <1>3, <3>1, <3>2, <3>3
  <2> QED BY <1>1, <1>2, <2>1, <2>2, <2>4, RebuildAfter DEF MetaPCs, ExitPCs
<1>4. CASE ~(BeginExit \/ ExitAsk \/ ExitSend \/ ExitSent \/ ExitConfirm)
  <2>1. plan.idx < RebuildIndex
    <3>1. /\ plan.idx \in 1 .. Len(Actions) /\ Action = "enter-service-mode"
      <4>1. Len(Actions) \in Nat
        BY PlanActions DEF Actions
      <4>2. CASE BeginEnter
        BY <4>1, <4>2 DEF BeginEnter, On, Ready, Finished, Placed
      <4>3. CASE proc.pc \in EnterPCs
        BY <4>1, <4>3 DEF EnterPCs, Placed
      <4> QED BY <1>4, <4>2, <4>3 DEF ServiceNext, EnterAsk, EnterPending, EnterSend, EnterSent,
                 EnterLoad, EnterPram, LoaderSent, EnterConfirm, EnterPCs
    <3> QED BY <3>1, Order DEF RebuildIndex
  <2>2. /\ st.phase = "other" /\ ctl.op \notin ToSet(MetadataOps)
        /\ proc.pc \in EnterPCs => proc.st.phase = "other"
    BY <2>1 DEF RebuildInv, BeforeRebuild, EnterPCs, Loaded, PCs
  <2>3. /\ st'.phase = "other" /\ proc'.pc \in EnterPCs \cup {"answer"}
        /\ proc'.pc \in Loaded => proc'.st.phase = "other"
    <3>0. \A s \in RunStates : \A m :
            /\ [s EXCEPT !.mode = m, !.phase = "other"].phase = "other"
            /\ [s EXCEPT !.mode = m].phase = s.phase
      BY DEF RunStates
    <3>1. CASE BeginEnter
      BY <1>0, <2>2, <3>1, BeginEnterIs DEF BeginEnter, EnterPCs
    <3>2. CASE EnterAsk
      <4> DEFINE inService == [st EXCEPT !.mode = "in-service"]
                 pending == [st EXCEPT !.mode = "entry-command-pending", !.phase = "other"]
      <4>1. inService.phase = "other" /\ pending.phase = "other"
        BY <1>0, <2>2, <3>0
      <4>2. \/ Work("enter-confirm", inService) /\ UNCHANGED st
            \/ Save("enter-pending", pending)
            \/ UNCHANGED st /\ \E r \in Answers : Answer(r)
        BY <3>2 DEF EnterAsk, WhenIdle, Answers
      <4> HIDE DEF inService, pending
      <4> QED BY <1>0, <2>2, <4>1, <4>2, WorkIs, SaveIs, AnswerIs DEF EnterPCs, Loaded
    <3>3. CASE EnterPending
      <4> DEFINE s == [proc.st EXCEPT !.mode = "entry-reenumerating"]
      <4>1. proc.st.phase = "other"
        BY <2>2, <3>3 DEF EnterPending, EnterPCs
      <4>2. s.phase = "other"
        BY <1>0, <3>0, <4>1
      <4>3. Ends(s, {"enter-load", "enter-send"})
        BY <3>3 DEF EnterPending, WhenIdle, Ends, Answers
      <4> HIDE DEF s
      <4> QED BY <1>0, <2>2, <4>1, <4>2, <4>3, EndsIs DEF EnterPCs
    <3>4. CASE EnterSend \/ EnterPram
      <4>1. proc.st.phase = "other"
        BY <2>2, <3>4 DEF EnterSend, EnterPram, EnterPCs
      <4>2. Ends(st, {"enter-sent", "enter-confirm", "loader-sent"})
        BY <3>4 DEF EnterSend, EnterPram, Ends, Answers
      <4> QED BY <1>0, <2>2, <4>1, <4>2, EndsIs DEF EnterPCs
    <3>5. CASE EnterSent \/ LoaderSent
      <4>1. \E m : SaveAndAnswer([proc.st EXCEPT !.mode = m, !.phase = "other"], "awaiting")
        BY <3>5 DEF EnterSent, LoaderSent
      <4>2. \E s : s.phase = "other" /\ SaveAndAnswer(s, "awaiting")
        BY <1>0, <3>0, <4>1
      <4> QED BY <1>0, <4>2, SaveAndAnswerIs DEF Loaded
    <3>6. CASE EnterLoad
      <4> DEFINE s == [proc.st EXCEPT !.mode = "loader-command-pending", !.phase = "other"]
      <4>1. proc.st.phase = "other"
        BY <2>2, <3>6 DEF EnterLoad, EnterPCs
      <4>2. s.phase = "other"
        BY <1>0, <3>0
      <4>3. Ends(s, {"enter-confirm", "enter-pram"})
        BY <3>6, EnterLoadIs DEF Ends, Answers
      <4> HIDE DEF s
      <4> QED BY <1>0, <2>2, <4>1, <4>2, <4>3, EndsIs DEF EnterPCs
    <3>7. CASE EnterConfirm
      <4> DEFINE s == [proc.st EXCEPT !.mode = "in-service", !.phase = "other"]
      <4>1. s.phase = "other"
        BY <1>0, <3>0
      <4>2. Ends(s, {})
        BY <3>7 DEF EnterConfirm, WaitIdle, Ends, Answers
      <4> HIDE DEF s
      <4> QED BY <1>0, <2>2, <4>1, <4>2, EndsIs DEF Loaded
    <3> QED BY <1>4, <3>1, <3>2, <3>3, <3>4, <3>5, <3>6, <3>7 DEF ServiceNext
  <2> QED BY <1>1, <1>2, <2>1, <2>2, <2>3, RebuildBefore DEF MetaPCs, ExitPCs, EnterPCs
<1> QED BY <1>3, <1>4

\* A step that leaves the state, the controller and its history.
LEMMA RebuildStays ==
  ASSUME Types, RebuildInv, cfg' = cfg, plan'.idx = plan.idx, st' = st, ctl' = ctl,
         hist'.activated = hist.activated, hist'.activatedTwice = hist.activatedTwice,
         proc'.pc \in {"idle", "start", "answer"},
         proc'.pc = "answer" => proc'.res \notin {"ok", "partial"}
  PROVE  RebuildInv'
<1>1. RebuildIndex' = RebuildIndex /\ RebuildIndex \in Nat /\ plan.idx \in Nat
  BY DEF RebuildIndex, Types
<1>2. Reached' = plan.idx /\ plan.idx <= Reached /\ Reached \in Nat
  BY <1>1 DEF Reached
<1>3. BeforeRebuild' /\ AtRebuild' /\ Activating' /\ Transaction'
  BY <1>1 DEF RebuildInv, BeforeRebuild, AtRebuild, Activating, Transaction, Loaded, MetaPCs,
              PreparedIs, Committing
<1>4. AfterRebuild'
  BY <1>1, <1>2 DEF RebuildInv, AfterRebuild, CommittedIs
<1> QED BY <1>3, <1>4 DEF RebuildInv, MetaPCs, ExitPCs

\* A step of the process that works on the transaction.
LEMMA RebuildFrame ==
  ASSUME Types, Given, cfg' = cfg, plan' = plan, plan.idx = RebuildIndex,
         ~hist'.activatedTwice,
         proc'.pc \in MetaPCs \cup {"answer"}, proc'.pc \in MetaPCs => proc'.st = st',
         AtRebuild', Activating', Transaction',
         proc'.pc = "answer" /\ proc'.res \in {"ok", "partial"} => CommittedIs(st)'
  PROVE  RebuildInv'
<1>1. RebuildIndex' = RebuildIndex /\ RebuildIndex \in Nat
  BY DEF RebuildIndex
<1>2. BeforeRebuild'
  BY <1>1 DEF BeforeRebuild
<1>3. AfterRebuild'
  BY <1>1 DEF AfterRebuild, Reached
<1> QED BY <1>2, <1>3 DEF RebuildInv, MetaPCs, ExitPCs

LEMMA PhasesOf ==
  ASSUME NEW i \in 1 .. 6
  PROVE  /\ MetadataPhases[i] \in CapacityPhases <=> i > 3
         /\ MetadataPhases[i] \in PreparedPhases <=> i > 1
         /\ MetadataPhases[i] # "other"
  BY MetaOpsAre DEF CapacityPhases, PreparedPhases

LEMMA BeginRebuildRebuild ==
  ASSUME Types, Types', Given, Placed, RebuildInv, BeginRebuild
  PROVE  RebuildInv'
<1>0. proc \in Processes /\ st \in RunStates /\ ctl \in Controllers /\ hist \in Histories
  BY DEF Types
<1>1. /\ cfg' = cfg /\ plan' = plan /\ plan.idx = RebuildIndex /\ proc.pc # "answer"
  BY RebuildLeaves DEF RebuildNext
<1>2. ctl' = ctl /\ hist' = hist /\ ~hist'.activatedTwice
  BY BeginRebuildIs DEF RebuildInv
<1>3. CASE UNCHANGED st /\ \E r \in {"refused", "error", "interrupted"} : Answer(r)
  <2>1. proc'.pc = "answer" /\ proc'.res \notin {"ok", "partial"}
    BY <1>0, <1>3, AnswerIs
  <2> QED BY <1>1, <1>2, <1>3, <2>1, RebuildStays
<1>4. CASE /\ st.mode = "in-service" /\ UserOf(st) > 0 /\ PhaseIndex(st) > 0
           /\ st.user = UserOf(st) /\ st.spare = SpareOf(st)
           /\ UNCHANGED st /\ ToMetadata(st, PhaseIndex(st))
  <2>1. proc'.pc = "metadata" /\ proc'.st = st' /\ proc'.tries = PhaseIndex(st)
    BY <1>0, <1>4, ToMetadataIs
  <2>2. st.phase = MetadataPhases[PhaseIndex(st)]
    BY <1>0, <1>4, PhaseIndexIs DEF RunStates
  <2>3. Sized(st)' /\ AtRebuild'
    BY <1>4, <2>1, <2>2 DEF Sized, AtRebuild
  <2>4. Activating' /\ Transaction'
    BY <1>1, <1>2, <1>4 DEF RebuildInv, Activating, Transaction, PreparedIs, Committing,
                            RebuildIndex
  <2> QED BY <1>1, <1>2, <2>1, <2>3, <2>4, RebuildFrame DEF MetaPCs
<1>5. CASE /\ st.mode = "in-service" /\ UserOf(st) > 0 /\ PhaseIndex(st) = 0 /\ Idle
           /\ st' = Fresh /\ ToMetadata(Fresh, 1)
  <2>1. proc'.pc = "metadata" /\ proc'.st = st' /\ proc'.tries = 1
    BY <1>0, <1>5, ToMetadataIs
  <2>2. /\ Fresh.disp = st.disp /\ Fresh.mode = st.mode /\ Fresh.user = UserOf(st)
        /\ Fresh.spare = SpareOf(st) /\ Fresh.phase = "metadata-prepare-started"
    BY <1>0 DEF Fresh, RunStates
  <2>3. st.phase = "other" /\ hist.activated = {}
    BY <1>0, <1>1, <1>5, PhaseIndexIs DEF RunStates, RebuildInv, Transaction, CapacityPhases
  <2>4. Sized(st')
    BY <1>5, <2>2, SameTable DEF Sized
  <2>5. AtRebuild'
    BY <1>5, <2>1, <2>2, <2>4, MetaOpsAre DEF AtRebuild, Sized
  <2>6. Activating'
    BY <1>2, <1>5 DEF Activating, Idle, Busy
  <2>7. Transaction'
    <3>1. st'.phase \notin PreparedPhases /\ st'.phase \notin CapacityPhases
      BY <1>5, <2>2 DEF PreparedPhases, CapacityPhases
    <3> QED BY <1>2, <2>3, <3>1 DEF Transaction, Committing
  <2> QED BY <1>1, <1>2, <2>1, <2>5, <2>6, <2>7, RebuildFrame DEF MetaPCs
<1> QED BY <1>3, <1>4, <1>5, BeginRebuildIs

LEMMA MetadataRebuild ==
  ASSUME Types, Types', Given, Placed, RebuildInv, Metadata \/ MetaWait
  PROVE  RebuildInv'
<1>0. proc \in Processes /\ st \in RunStates
  BY DEF Types
<1>1. /\ cfg' = cfg /\ plan' = plan /\ plan.idx = RebuildIndex /\ proc.pc # "answer"
  BY RebuildLeaves DEF RebuildNext
<1>2. /\ st' = st /\ ctl' = ctl /\ hist' = hist /\ proc.pc \in {"metadata", "meta-wait"}
  BY MetadataIs DEF Metadata, MetaWait, WaitIdle
<1>3. proc.st = st /\ AtRebuild /\ ~hist.activatedTwice
  BY <1>2 DEF RebuildInv, MetaPCs
<1>4. \/ Answer("error") \/ Answer("interrupted")
      \/ /\ proc.pc = "metadata"
         /\ \/ proc.tries < 4 /\ Goto("meta-send")
            \/ proc.tries = 4 /\ Goto("meta-save")
            \/ proc.tries = 4 /\ Idle /\ ~AlreadyCommitted /\ Goto("meta-send")
            \/ proc.tries > 4 /\ Goto("meta-verify")
      \/ proc.pc = "meta-wait" /\ Goto("meta-save")
  BY <1>2, MetadataIs DEF Metadata, MetaWait, WaitIdle
<1>5. CASE Answer("error") \/ Answer("interrupted")
  <2>1. proc'.pc = "answer" /\ proc'.res \notin {"ok", "partial"}
    BY <1>0, <1>5, AnswerIs
  <2> QED BY <1>1, <1>2, <2>1, RebuildStays
<1>6. CASE ~(Answer("error") \/ Answer("interrupted"))
  <2>1. PICK p \in {"meta-send", "meta-save", "meta-verify"} : Goto(p)
    BY <1>4, <1>6
  <2>2. proc'.pc = p /\ proc'.st = st' /\ proc'.tries = proc.tries
    BY <1>0, <1>2, <1>3, <2>1, GotoIs
  <2>3. proc.tries \in 1 .. 6
    BY <1>2 DEF Placed, MetaPCs
  <2>4. /\ st.mode = "in-service" /\ Sized(st) /\ st.phase = MetadataPhases[proc.tries]
    BY <1>2, <1>3 DEF AtRebuild, MetaPCs
  <2>5. Sized(st)'
    BY <1>2, <2>4 DEF Sized
  <2>6. /\ p = "meta-save" =>
             \/ proc.tries = 4
             \/ /\ proc.tries = 1 /\ ctl.mode = "service" => PreparedIs(st)
                /\ proc.tries = 3 => ctl.cap = st.user
        /\ p = "meta-send" /\ proc.tries = 4 =>
             ~Busy /\ ~ctl.failed /\ ctl.committed.gen # st.gen
    <3>1. /\ p = "meta-save" => proc.tries = 4 \/ proc.pc = "meta-wait"
          /\ p = "meta-send" /\ proc.tries = 4 => Idle /\ ~AlreadyCommitted
      <4>1. \A q : Goto(q) => q = p
        BY <1>0, <2>2, GotoIs
      <4> QED BY <1>4, <1>6, <2>1, <2>3, <4>1
    <3>2. proc.pc = "meta-wait" => /\ proc.tries = 1 /\ ctl.mode = "service" => PreparedIs(st)
                                   /\ proc.tries = 3 => ctl.cap = st.user
      BY <1>3 DEF AtRebuild, MetaPCs
    <3> QED BY <1>3, <3>1, <3>2 DEF Idle, AlreadyCommitted
  <2>7. AtRebuild'
    BY <1>2, <2>1, <2>2, <2>4, <2>5, <2>6 DEF AtRebuild, PreparedIs, Busy
  <2>8. Activating' /\ Transaction'
    BY <1>1, <1>2 DEF RebuildInv, Activating, Transaction, PreparedIs, Committing, RebuildIndex
  <2> QED BY <1>1, <1>2, <1>3, <2>1, <2>2, <2>7, <2>8, RebuildFrame DEF MetaPCs
<1> QED BY <1>5, <1>6
LEMMA MetaSendRebuild ==
  ASSUME Types, Types', Given, Placed, RebuildInv, MetaSend
  PROVE  RebuildInv'
<1> DEFINE op == MetadataOps[proc.tries]
<1>0. proc \in Processes /\ st \in RunStates /\ ctl \in Controllers /\ hist \in Histories
  BY DEF Types
<1>1. /\ cfg' = cfg /\ plan' = plan /\ plan.idx = RebuildIndex
  BY RebuildLeaves DEF RebuildNext
<1>2. /\ Command(op, 0, "meta-wait") /\ proc.pc = "meta-send" /\ st' = st
  BY DEF MetaSend, Command
<1>3. proc.st = st /\ AtRebuild /\ Transaction /\ ~hist.activatedTwice
  BY <1>2 DEF RebuildInv, MetaPCs
<1>4. /\ st.mode = "in-service" /\ Sized(st) /\ st.phase = MetadataPhases[proc.tries]
      /\ proc.tries = 4 /\ ctl.mode = "service" =>
           ~Busy /\ ~ctl.failed /\ ctl.committed.gen # st.gen
      /\ proc.tries \in 1 .. 4
  BY <1>2, <1>3 DEF AtRebuild, MetaPCs, Placed
<1>5. CASE ~Accepts
  <2>1. ctl' = ctl /\ Answer("interrupted")
    BY <1>2, <1>5 DEF Command
  <2>2. proc'.pc = "answer" /\ proc'.res = "interrupted"
    BY <1>0, <2>1, AnswerIs
  <2>3. hist'.activated = hist.activated /\ hist'.activatedTwice = hist.activatedTwice
    BY <1>2, <1>5, CommandTold
  <2> QED BY <1>1, <1>2, <2>1, <2>2, <2>3, RebuildStays
<1>6. CASE Accepts
  <2>1. ctl' = Accepted(op, 0) /\ (Goto("meta-wait") \/ Answer("interrupted"))
    BY <1>2, <1>6 DEF Command
  <2>2. /\ \/ proc'.pc = "meta-wait"
           \/ proc'.pc = "answer" /\ proc'.res = "interrupted"
        /\ proc'.st = st' /\ proc'.tries = proc.tries
    BY <1>0, <1>2, <1>3, <2>1, GotoIs, AnswerIs
  <2>3. \/ proc.tries = 1 /\ op = "prepare-bbt"
        \/ proc.tries = 2 /\ op = "prepare-ftl"
        \/ proc.tries = 3 /\ op = "set-capacity"
        \/ proc.tries = 4 /\ op = "activate-metadata"
    BY <1>4, MetaOpsAre
  <2>4. /\ ctl'.op = op /\ ctl'.mode = "service" /\ ctl'.committed = ctl.committed
        /\ proc.tries = 1 => ctl'.prepared = [gen |-> st.gen, bad |-> Listed(st)]
        /\ proc.tries # 1 => ctl'.prepared = ctl.prepared
        /\ proc.tries = 3 => ctl'.cap = st.user
        /\ proc.tries # 3 => ctl'.cap = ctl.cap
    <3> DEFINE pr == IF op = "prepare-bbt" THEN [gen |-> proc.st.gen, bad |-> Listed(proc.st)]
                     ELSE ctl.prepared
               ca == IF op = "set-capacity" THEN proc.st.user ELSE ctl.cap
    <3>1. ctl' = [ctl EXCEPT !.op = op, !.blk = 0, !.failed = FALSE, !.prepared = pr, !.cap = ca]
      BY <2>1 DEF Accepted
    <3>2. /\ proc.tries = 1 => pr = [gen |-> st.gen, bad |-> Listed(st)]
          /\ proc.tries # 1 => pr = ctl.prepared
          /\ proc.tries = 3 => ca = st.user
          /\ proc.tries # 3 => ca = ctl.cap
      BY <1>3, <2>3
    <3> HIDE DEF pr, ca, op
    <3> QED BY <1>0, <1>6, <3>1, <3>2 DEF Controllers, Accepts
  <2>5. PreparedIs(st)' <=> ctl'.prepared = [gen |-> st.gen, bad |-> Listed(st)]
    BY <1>2 DEF PreparedIs
  <2>6. /\ st.phase \in CapacityPhases <=> proc.tries = 4
        /\ st.phase \in PreparedPhases <=> proc.tries \in 2 .. 4
    BY <1>4, PhasesOf
  <2>7. /\ hist.activated \subseteq {st.gen}
        /\ hist.activated # {} => proc.tries = 4
        /\ proc.tries \in 2 .. 4 => PreparedIs(st)
        /\ proc.tries = 4 => ctl.cap = st.user /\ st.gen \notin hist.activated
    <3>1. proc.tries = 4 => st.gen \notin hist.activated
      BY <1>1, <1>3, <1>4, <1>6 DEF Transaction, Committing, Accepts, Busy
    <3> QED BY <1>1, <1>3, <1>4, <1>6, <2>6, <3>1 DEF Transaction, Accepts
  <2>8. /\ proc.tries # 4 => hist'.activated = {}
        /\ proc.tries = 4 => hist'.activated = {st.gen}
        /\ ~hist'.activatedTwice
    <3>1. CASE proc.tries # 4
      BY <1>2, <1>3, <2>3, <2>7, <3>1, CommandTold
    <3>2. CASE proc.tries = 4
      <4>1. op = "activate-metadata" /\ st.gen \notin hist.activated
        BY <2>3, <2>7, <3>2
      <4>2. hist'.activated = hist.activated \cup {st.gen} /\ ~hist'.activatedTwice
        BY <1>2, <1>3, <1>6, <4>1, CommandTold
      <4> QED BY <2>7, <3>2, <4>2
    <3> QED BY <3>1, <3>2
  <2>9. AtRebuild'
    <3>1. Sized(st)'
      BY <1>2, <1>4 DEF Sized
    <3> QED BY <1>2, <1>4, <2>2, <2>4, <2>5, <3>1 DEF AtRebuild
  <2>10. Activating'
    <3>1. proc.tries = 4 => PreparedIs(st)'
      BY <2>4, <2>5, <2>7 DEF PreparedIs
    <3>2. ctl'.op = "activate-metadata" => proc.tries = 4
      BY <2>3, <2>4
    <3> QED BY <1>1, <2>4, <3>1, <3>2 DEF Activating, RebuildIndex
  <2>11. Transaction'
    <3>1. hist'.activated \subseteq {st.gen} /\ (hist'.activated # {} => st.phase \in CapacityPhases)
      BY <2>6, <2>8
    <3>2. st.phase \in PreparedPhases => PreparedIs(st)'
      BY <2>4, <2>5, <2>6, <2>7 DEF PreparedIs
    <3>3. st.phase \in CapacityPhases => ctl'.cap = st.user
      BY <2>4, <2>6, <2>7
    <3>4. st.gen \in hist'.activated => ctl'.op = "activate-metadata"
      BY <1>4, <2>3, <2>4, <2>8
    <3> QED BY <1>2, <3>1, <3>2, <3>3, <3>4 DEF Transaction, Committing
  <2> QED BY <1>1, <2>2, <2>8, <2>9, <2>10, <2>11, RebuildFrame DEF MetaPCs
<1> QED BY <1>5, <1>6

LEMMA MetaSaveRebuild ==
  ASSUME Types, Types', Given, Placed, RebuildInv, MetaSave
  PROVE  RebuildInv'
<1> DEFINE next == MetadataPhases[proc.tries + 1]
           s == [proc.st EXCEPT !.phase = next]
<1>0. proc \in Processes /\ st \in RunStates
  BY DEF Types
<1>1. /\ cfg' = cfg /\ plan' = plan /\ plan.idx = RebuildIndex
  BY RebuildLeaves DEF RebuildNext
<1>2. /\ proc.pc = "meta-save" /\ ctl' = ctl /\ hist' = hist /\ st' = s
      /\ proc' = [proc EXCEPT !.pc = "metadata", !.st = s, !.tries = @ + 1]
  BY DEF MetaSave
<1>3. proc.st = st /\ AtRebuild /\ Transaction /\ ~hist.activatedTwice
  BY <1>2 DEF RebuildInv, MetaPCs
<1>4. /\ st.mode = "in-service" /\ Sized(st) /\ st.phase = MetadataPhases[proc.tries]
      /\ proc.tries = 1 /\ ctl.mode = "service" => PreparedIs(st)
      /\ proc.tries = 3 => ctl.cap = st.user
      /\ proc.tries \in 1 .. 4
  BY <1>2, <1>3 DEF AtRebuild, MetaPCs, Placed
<1>5. /\ st'.phase = next /\ st'.mode = st.mode /\ st'.gen = st.gen /\ st'.user = st.user
      /\ st'.spare = st.spare /\ st'.disp = st.disp
  <2> HIDE DEF next
  <2> QED BY <1>0, <1>2, <1>3 DEF RunStates
<1>6. proc'.pc = "metadata" /\ proc'.st = st' /\ proc'.tries = proc.tries + 1
  <2> HIDE DEF s
  <2> QED BY <1>0, <1>2 DEF Processes
<1>7. Sized(st)' /\ Listed(st)' = Listed(st)
  <2>1. UserOf(st') = UserOf(st) /\ SpareOf(st') = SpareOf(st) /\ Listed(st') = Listed(st)
    BY <1>5, SameTable
  <2> QED BY <1>4, <1>5, <2>1 DEF Sized
<1>8. AtRebuild'
  BY <1>4, <1>5, <1>6, <1>7 DEF AtRebuild
<1>9. Activating'
  BY <1>1, <1>2, <1>5, <1>7 DEF RebuildInv, Activating, PreparedIs, RebuildIndex
<1>10. Transaction'
  <2>1. /\ next \in CapacityPhases <=> proc.tries >= 3
        /\ st.phase \in CapacityPhases <=> proc.tries = 4
        /\ st.phase \in PreparedPhases <=> proc.tries \in 2 .. 4
    <3>1. proc.tries \in 1 .. 6 /\ proc.tries + 1 \in 1 .. 6
      BY <1>4
    <3> HIDE DEF s
    <3> QED BY <1>4, <3>1, PhasesOf
  <2>2. hist.activated \subseteq {st.gen} /\ (hist.activated # {} => next \in CapacityPhases)
    BY <1>1, <1>3, <1>4, <2>1 DEF Transaction
  <2>3. ctl.mode = "service" => PreparedIs(st)
    BY <1>1, <1>3, <1>4, <2>1 DEF Transaction
  <2>4. next \in CapacityPhases => ctl.cap = st.user
    BY <1>1, <1>3, <1>4, <2>1 DEF Transaction
  <2>5. Committing(st)
    BY <1>1, <1>3, <1>4 DEF Transaction
  <2> HIDE DEF s, next
  <2> QED BY <1>2, <1>5, <1>7, <2>2, <2>3, <2>4, <2>5 DEF Transaction, PreparedIs, Committing
<1> QED BY <1>1, <1>2, <1>3, <1>6, <1>8, <1>9, <1>10, RebuildFrame DEF MetaPCs

LEMMA MetaVerifyRebuild ==
  ASSUME Types, Types', Given, Placed, RebuildInv, MetaVerify
  PROVE  RebuildInv'
<1> DEFINE s == [proc.st EXCEPT !.phase = "metadata-commit-verified"]
<1>0. proc \in Processes /\ st \in RunStates
  BY DEF Types
<1>1. /\ cfg' = cfg /\ plan' = plan /\ plan.idx = RebuildIndex
  BY RebuildLeaves DEF RebuildNext
<1>2. proc.pc = "meta-verify" /\ ctl' = ctl /\ hist' = hist
  BY DEF MetaVerify, WhenIdle
<1>3. proc.st = st /\ AtRebuild /\ Transaction /\ ~hist.activatedTwice
  BY <1>2 DEF RebuildInv, MetaPCs
<1>4. \/ Idle /\ ctl.committed = [gen |-> st.gen, bad |-> Listed(st)] /\ SaveAndAnswer(s, "ok")
      \/ UNCHANGED st /\ \E r \in {"refused", "interrupted", "error"} : Answer(r)
  BY <1>3 DEF MetaVerify, WhenIdle
<1>5. CASE UNCHANGED st /\ \E r \in {"refused", "interrupted", "error"} : Answer(r)
  <2>1. proc'.pc = "answer" /\ proc'.res \notin {"ok", "partial"}
    BY <1>0, <1>5, AnswerIs
  <2> QED BY <1>1, <1>2, <1>5, <2>1, RebuildStays
<1>6. CASE Idle /\ ctl.committed = [gen |-> st.gen, bad |-> Listed(st)] /\ SaveAndAnswer(s, "ok")
  <2>1. /\ st.mode = "in-service" /\ Sized(st) /\ st.phase \in CapacityPhases
    <3>1. proc.tries \in 1 .. 6 /\ proc.tries > 4
      BY <1>2 DEF Placed, MetaPCs
    <3> QED BY <1>2, <1>3, <3>1, PhasesOf DEF AtRebuild, MetaPCs
  <2>2. /\ s.phase = "metadata-commit-verified" /\ s.mode = st.mode /\ s.gen = st.gen
        /\ s.user = st.user /\ s.spare = st.spare /\ s.disp = st.disp
    BY <1>0, <1>3 DEF RunStates
  <2>3. proc'.pc = "answer" /\ st' = s
    BY <1>0, <1>6, SaveAndAnswerIs
  <2> HIDE DEF s
  <2>4. Listed(st)' = Listed(st) /\ Qualifieds(st)' = Qualifieds(st)
    BY <2>2, <2>3, SameTable
  <2>5. st.user + st.spare <= Qualifieds(st)
    BY <1>0, <2>1, SizesOf DEF Sized
  <2>6. ctl.cap = st.user
    BY <1>1, <1>3, <2>1 DEF Transaction
  <2>7. CommittedIs(st)'
    BY <1>2, <1>6, <2>2, <2>3, <2>4, <2>5, <2>6 DEF CommittedIs, Idle, Busy
  <2>8. AtRebuild' /\ Activating'
    BY <1>2, <1>6, <2>3 DEF AtRebuild, MetaPCs, Activating, Idle, Busy
  <2>9. Transaction'
    <3>1. st.phase \in PreparedPhases
      BY <2>1 DEF PreparedPhases
    <3>2. st'.phase \in CapacityPhases
      BY <2>2, <2>3 DEF CapacityPhases
    <3> QED BY <1>1, <1>2, <1>3, <2>1, <2>2, <2>3, <2>4, <3>1, <3>2
            DEF Transaction, Committing, PreparedIs, RebuildIndex
  <2> QED BY <1>1, <1>2, <1>3, <2>3, <2>7, <2>8, <2>9, RebuildFrame DEF MetaPCs
<1> QED BY <1>4, <1>5, <1>6

LEMMA RebuildRebuild ==
  ASSUME Types, Types', Given, Placed, RebuildInv, RebuildNext
  PROVE  RebuildInv'
  BY BeginRebuildRebuild, MetadataRebuild, MetaSendRebuild, MetaSaveRebuild, MetaVerifyRebuild
     DEF RebuildNext

\* A controller that lost its power keeps its tables and its capacity.
LEMMA RebuildUnpowered ==
  ASSUME Types, RebuildInv, cfg' = cfg, plan'.idx = plan.idx,
         hist'.activated = hist.activated, hist'.activatedTwice = hist.activatedTwice,
         ctl'.op = "none", ctl'.mode = "normal", ctl'.committed = ctl.committed,
         ctl'.cap = ctl.cap, proc'.pc = "idle",
         st'.gen = st.gen, st'.user = st.user, st'.spare = st.spare, st'.disp = st.disp,
         st' = st \/ (st'.mode = "normal" /\ st'.phase = "other")
  PROVE  RebuildInv'
<1>1. RebuildIndex' = RebuildIndex /\ RebuildIndex \in Nat /\ plan.idx \in Nat
  BY DEF RebuildIndex, Types
<1>2. Reached' = plan.idx /\ plan.idx <= Reached /\ Reached \in Nat
  BY <1>1 DEF Reached
<1>3. "none" \notin ToSet(MetadataOps)
  BY NotMetadata
<1>4. BeforeRebuild'
  BY <1>1, <1>3 DEF RebuildInv, BeforeRebuild, Loaded
<1>5. AtRebuild' /\ Activating'
  BY DEF AtRebuild, Activating, MetaPCs
<1>6. Transaction'
  BY <1>1 DEF RebuildInv, Transaction, Committing
<1>7. AfterRebuild'
  <2>1. Listed(st') = Listed(st) /\ Qualifieds(st') = Qualifieds(st)
    BY SameTable
  <2> QED BY <1>1, <1>2, <2>1 DEF RebuildInv, AfterRebuild, CommittedIs
<1> QED BY <1>4, <1>5, <1>6, <1>7 DEF RebuildInv, MetaPCs, ExitPCs

LEMMA FinishRebuild ==
  ASSUME Types, Types', RebuildInv, Finish
  PROVE  RebuildInv'
<1> DEFINE done == [ctl EXCEPT !.op = "none"]
<1>0. ctl \in Controllers /\ hist \in Histories /\ ctl.op # "none"
  BY FinishIs DEF Types
<1>1. /\ cfg' = cfg /\ plan' = plan /\ st' = st /\ proc' = proc
      /\ RebuildIndex' = RebuildIndex /\ Reached' = Reached
  BY DEF Finish, RebuildIndex, Reached
<1>2. hist'.activated = hist.activated /\ hist'.activatedTwice = hist.activatedTwice
  BY <1>0, FinishIs DEF Histories
<1>3. /\ ctl'.op = "none" /\ ctl'.mode = ctl.mode /\ ctl'.prepared = ctl.prepared
      /\ ctl'.cap = ctl.cap
      /\ \/ ctl.op = "activate-metadata" /\ ctl'.committed = ctl.prepared
         \/ ctl'.failed
         \/ /\ ctl.op # "activate-metadata" /\ ctl'.committed = ctl.committed
            /\ ctl'.failed = ctl.failed
  <2>1. /\ done.op = "none" /\ done.mode = ctl.mode /\ done.prepared = ctl.prepared
        /\ done.cap = ctl.cap /\ done.committed = ctl.committed /\ done.failed = ctl.failed
        /\ done \in Controllers
    BY <1>0 DEF Controllers
  <2>2. \/ /\ ctl.op # "activate-metadata"
           /\ \E c : ctl' = [done EXCEPT !.content[ctl.blk] = c]
        \/ ctl.op = "activate-metadata" /\ ctl' = [done EXCEPT !.committed = ctl.prepared]
        \/ ctl.op # "activate-metadata" /\ ctl' = done
        \/ ctl' = [done EXCEPT !.failed = TRUE]
    BY FinishIs
  <2> HIDE DEF done
  <2> QED BY <2>1, <2>2 DEF Controllers
<1>4. BeforeRebuild'
  <2>1. "none" \notin ToSet(MetadataOps)
    BY NotMetadata
  <2> QED BY <1>1, <1>2, <1>3, <2>1 DEF RebuildInv, BeforeRebuild
<1>5. PreparedIs(st)' <=> PreparedIs(st)
  BY <1>1, <1>3 DEF PreparedIs
<1>6. AtRebuild'
  <2>1. Sized(st)' = Sized(st)
    BY <1>1 DEF Sized
  <2>2. proc.pc = "meta-send" /\ proc.tries = 4 => ctl.mode # "service"
    BY <1>0 DEF RebuildInv, AtRebuild, MetaPCs, Busy
  <2> QED BY <1>1, <1>3, <1>5, <2>1, <2>2 DEF RebuildInv, AtRebuild
<1>7. Activating'
  BY <1>3 DEF Activating
<1>8. Transaction'
  <2>1. ASSUME plan.idx = RebuildIndex, st.mode = "in-service", st.gen \in hist.activated,
               ctl.mode = "service"
        PROVE  ctl'.failed \/ ctl'.committed.gen = st.gen
    <3>1. CASE ctl.op = "activate-metadata"
      <4>1. ctl.prepared = [gen |-> st.gen, bad |-> Listed(st)]
        BY <3>1 DEF RebuildInv, Activating, PreparedIs
      <4> QED BY <1>3, <3>1, <4>1
    <3>2. CASE ctl.op # "activate-metadata"
      BY <1>3, <2>1, <3>2 DEF RebuildInv, Transaction, Committing
    <3> QED BY <3>1, <3>2
  <2>2. Committing(st)' <=>
          (st.gen \in hist.activated /\ ctl.mode = "service" =>
             ctl'.failed \/ ctl'.committed.gen = st.gen)
    BY <1>1, <1>2, <1>3 DEF Committing
  <2> QED BY <1>1, <1>2, <1>3, <1>5, <2>1, <2>2 DEF RebuildInv, Transaction
<1>9. AfterRebuild'
  BY <1>0, <1>1 DEF RebuildInv, AfterRebuild, CommittedIs
<1> QED BY <1>1, <1>2, <1>4, <1>6, <1>7, <1>8, <1>9 DEF RebuildInv

LEMMA RecordedRebuild ==
  ASSUME Types, Types', RebuildInv, Recorded
  PROVE  RebuildInv'
<1>0. proc \in Processes /\ plan \in [idx : Nat, last : Answers]
  BY DEF Types
<1>1. /\ cfg' = cfg /\ st' = st /\ ctl' = ctl /\ hist' = hist /\ proc.pc = "answer"
      /\ RebuildIndex' = RebuildIndex /\ RebuildIndex \in Nat
  BY DEF Recorded, RebuildIndex
<1>2. CASE proc.res \notin {"ok", "partial"}
  <2>1. \/ Goto("start") /\ UNCHANGED plan
        \/ Stop(proc.res)
    BY <1>2 DEF Recorded
  <2>2. proc'.pc \in {"idle", "start"} /\ plan'.idx = plan.idx
    BY <1>0, <2>1, GotoIs, StopIs
  <2> QED BY <1>1, <2>2, RebuildStays
<1>3. CASE proc.res \in {"ok", "partial"}
  <2>1. plan'.idx = plan.idx + 1 /\ Goto("start")
    BY <1>3 DEF Recorded
  <2>2. proc'.pc = "start" /\ Reached' = Reached /\ Reached = plan.idx + 1
    BY <1>0, <1>1, <1>3, <2>1, GotoIs DEF Reached
  <2>3. BeforeRebuild' /\ AtRebuild'
    BY <1>0, <1>1, <2>1, <2>2 DEF RebuildInv, BeforeRebuild, AtRebuild, Loaded, MetaPCs
  <2>4. Activating'
    <3>1. CASE plan.idx = RebuildIndex
      BY <1>0, <1>1, <2>2, <3>1 DEF RebuildInv, AfterRebuild, CommittedIs, Activating
    <3>2. CASE plan.idx # RebuildIndex
      BY <1>1, <3>2 DEF RebuildInv, Activating
    <3> QED BY <3>1, <3>2
  <2>5. Transaction'
    <3>1. CASE plan.idx + 1 = RebuildIndex
      <4>1. hist.activated = {} /\ st.phase = "other"
        BY <1>0, <1>1, <3>1 DEF RebuildInv, BeforeRebuild
      <4> QED BY <1>1, <4>1 DEF Transaction, Committing, PreparedPhases, CapacityPhases
    <3>2. CASE plan.idx + 1 # RebuildIndex
      BY <1>1, <2>1, <3>2 DEF Transaction
    <3> QED BY <3>1, <3>2
  <2>6. AfterRebuild'
    BY <1>1, <2>2 DEF RebuildInv, AfterRebuild, CommittedIs
  <2> QED BY <1>1, <2>2, <2>3, <2>4, <2>5, <2>6 DEF RebuildInv, MetaPCs, ExitPCs
<1> QED BY <1>2, <1>3

LEMMA EnvironmentRebuild ==
  ASSUME Types, Types', Given, Placed, RebuildInv, Environment \/ CoreNext
  PROVE  RebuildInv'
<1>0. /\ proc \in Processes /\ plan \in [idx : Nat, last : Answers] /\ ctl \in Controllers
      /\ st \in RunStates /\ hist \in Histories
  BY DEF Types
<1>1. CASE TransportFails \/ Kill \/ Resume
  <2>1. /\ cfg' = cfg /\ st' = st /\ ctl' = ctl /\ hist' = hist
        /\ \/ plan' = plan /\ (Answer("interrupted") \/ Answer("error") \/ Goto("start"))
           \/ Stop("none")
    BY <1>1 DEF TransportFails, Kill, Resume
  <2>2. /\ proc'.pc \in {"idle", "start", "answer"} /\ plan'.idx = plan.idx
        /\ proc'.pc = "answer" => proc'.res \notin {"ok", "partial"}
    BY <1>0, <2>1, AnswerIs, GotoIs, StopIs
  <2> QED BY <2>1, <2>2, RebuildStays
<1>2. CASE PowerCut
  <2>1. cfg' = cfg /\ st' = st /\ Stop("none") /\ hist' = [hist EXCEPT !.cut = TRUE]
    BY <1>2 DEF PowerCut
  <2>2. PICK c : ctl' = Unpowered([ctl EXCEPT !.content[ctl.blk] = c])
    BY <1>2 DEF PowerCut
  <2>3. /\ ctl'.op = "none" /\ ctl'.mode = "normal" /\ ctl'.committed = ctl.committed
        /\ ctl'.cap = ctl.cap
    BY <1>0, <2>2 DEF Unpowered, Controllers
  <2>4. hist'.activated = hist.activated /\ hist'.activatedTwice = hist.activatedTwice
    BY <1>0, <2>1 DEF Histories
  <2>5. proc'.pc = "idle" /\ plan'.idx = plan.idx
    BY <1>0, <2>1, StopIs
  <2> QED BY <2>1, <2>3, <2>4, <2>5, RebuildUnpowered
<1>3. CASE Recover
  <2>1. /\ cfg' = cfg /\ plan' = plan /\ proc' = proc /\ proc.pc = "idle"
        /\ ctl' = Unpowered(ctl) /\ hist' = [hist EXCEPT !.recovered = TRUE]
        /\ st' = [st EXCEPT !.mode = "normal", !.phase = "other", !.flight = NoFlight]
    BY <1>3 DEF Recover
  <2>2. /\ st'.gen = st.gen /\ st'.user = st.user /\ st'.spare = st.spare
        /\ st'.disp = st.disp /\ st'.mode = "normal" /\ st'.phase = "other"
    BY <1>0, <2>1 DEF RunStates
  <2>3. hist'.activated = hist.activated /\ hist'.activatedTwice = hist.activatedTwice
    BY <1>0, <2>1 DEF Histories
  <2>4. /\ ctl'.op = "none" /\ ctl'.mode = "normal" /\ ctl'.committed = ctl.committed
        /\ ctl'.cap = ctl.cap
    BY <1>0, <2>1, UnpoweredIs
  <2>5. proc'.pc = "idle" /\ plan'.idx = plan.idx
    BY <2>1
  <2> QED BY <2>1, <2>2, <2>3, <2>4, <2>5, RebuildUnpowered
<1>4. CASE PowerCycle
  <2>1. /\ cfg' = cfg /\ plan' = plan /\ proc.pc = "start" /\ st' = st /\ Answer("ok")
        /\ ctl' = Unpowered(ctl) /\ hist' = hist
        /\ plan.idx \in 1 .. Len(Actions) /\ Action = "power-cycle"
    BY <1>4, PlanActions DEF PowerCycle, On, Ready, Finished, Placed, Actions
  <2>2. plan.idx > RebuildIndex
    BY <2>1, Order DEF RebuildIndex
  <2>3. ctl'.op = "none" /\ ctl'.committed = ctl.committed /\ ctl'.cap = ctl.cap
    BY <1>0, <2>1, UnpoweredIs
  <2>4. proc'.pc = "answer" /\ plan'.idx = plan.idx
    BY <1>0, <2>1, AnswerIs
  <2> QED BY <2>1, <2>2, <2>3, <2>4, RebuildAfter DEF MetaPCs, ExitPCs
<1>5. CASE Done
  BY <1>5 DEF Done, vars, RebuildInv, BeforeRebuild, AtRebuild, Activating, Transaction,
              AfterRebuild, Reached, RebuildIndex, Sized, PreparedIs, Committing, CommittedIs,
              Busy
<1> QED BY <1>1, <1>2, <1>3, <1>4, <1>5, FinishRebuild, RecordedRebuild DEF Environment, CoreNext

LEMMA RebuildStep ==
  ASSUME Types, Types', Given, Placed, RebuildInv, [Next]_vars
  PROVE  RebuildInv'
<1>1. CASE UNCHANGED vars
  BY <1>1 DEF vars, RebuildInv, BeforeRebuild, AtRebuild, Activating, Transaction,
              AfterRebuild, Reached, RebuildIndex, Sized, PreparedIs, Committing, CommittedIs,
              Busy
<1> QED BY <1>1, ServiceRebuild, WorkRebuild, RebuildRebuild, ReadRebuild, EnvironmentRebuild
        DEF Next

-----------------------------------------------------------------------------
(* The invariant, and what it says of every behaviour.                     *)

LEMMA InitInv ==
  ASSUME Init
  PROVE  EngineInv
<1>1. Given
  <2>1. cfg \in [level : LevelsRun, entry : Entries, old : OldTables, marked : Marked]
    BY DEF Init
  <2>2. cfg \in [level : {"C3", "C4"}, entry : EntryKinds,
                 old : [Blocks -> TableEntries], marked : SUBSET Blocks]
    BY <2>1, ScenarioAssumption, EntryAssumption
  <2>3. cfg.marked \subseteq Blocks \ (Preserved \cup Rebuilt)
    BY <2>1, ScenarioAssumption
  <2> QED BY <2>2, <2>3 DEF Given, Init, SystemBlocks
<1>2. /\ plan.idx = 1 /\ plan.last = "none"
      /\ proc.pc = "start" /\ proc.st = NewState /\ proc.res = "none" /\ st = NewState
      /\ ctl.op = "none" /\ ctl.mode = "normal"
      /\ ctl.content = [b \in Blocks |-> IF b \in cfg.marked THEN "marker"
                                         ELSE IF b \in SystemBlocks THEN "system" ELSE "data"]
      /\ hist.activated = {} /\ ~hist.activatedTwice /\ ~hist.reentered
  BY DEF Init
<1>3. /\ NewState \in RunStates /\ NewState.rbb = {} /\ NewState.flight.op = "none"
      /\ NewState.phase = "other"
  <2>1. 0 \in Blocks
    BY Sizes DEF Blocks
  <2>2. NoFlight \in Flights
    BY <2>1 DEF NoFlight, Flights
  <2>3. [b \in Blocks |-> "data"] \in [Blocks -> Dispositions]
    BY DEF Dispositions
  <2> QED BY <2>2, <2>3 DEF NewState, RunStates, Modes, Phases, NoFlight
<1>4. Types
  <2>1. 0 \in Blocks
    BY Sizes DEF Blocks
  <2>2. ctl.content \in [Blocks -> Contents]
    BY <1>2 DEF Contents
  <2>3. {b \in Blocks : cfg.old[b] # "absent"} \in SUBSET Blocks
    OBVIOUS
  <2>4. ctl \in Controllers
    BY <2>1, <2>2, <2>3 DEF Init, Controllers, Tables
  <2>5. proc \in Processes
    BY <1>3 DEF Init, Processes, PCs, Answers
  <2>6. hist \in Histories
    BY DEF Init, Histories
  <2>7. plan \in [idx : Nat, last : Answers]
    BY DEF Init, Answers
  <2> QED BY <1>2, <1>3, <2>4, <2>5, <2>6, <2>7 DEF Types
<1>5. Placed
  <2>1. 1 <= Len(Actions) + 1 /\ Len(Actions) \in Nat
    BY PlanActions DEF Actions
  <2> QED BY <1>2, <2>1 DEF Placed, EnterPCs, ExitPCs, MetaPCs, ErasePCs, ProgramPCs
<1>6. Reached = 1 /\ MarkersIndex > 1 /\ RebuildIndex > 1 /\ plan.idx # RebuildIndex
  BY <1>2 DEF Reached, MarkersIndex, RebuildIndex
<1>7. ProtectInv
  <2>1. Apart(st, Reached)
    BY <1>2, <1>3, <1>6 DEF Apart, MarkersIndex
  <2>2. /\ \A b \in cfg.marked : ctl.content[b] = "marker"
        /\ \A b \in Preserved : ctl.content[b] = "system"
    BY <1>1, <1>2, SystemAssumption DEF Given, SystemBlocks
  <2> QED BY <1>2, <2>1, <2>2 DEF ProtectInv, WorksOn, ErasePCs, ProgramPCs, Loaded
<1>8. EntryInv
  BY <1>2 DEF EntryInv, Loaded
<1>9. RebuildInv
  <2>1. "none" \notin ToSet(MetadataOps)
    BY NotMetadata
  <2>2. BeforeRebuild
    BY <1>2, <1>3, <2>1 DEF BeforeRebuild, Loaded
  <2>3. AtRebuild /\ Activating /\ Transaction /\ AfterRebuild
    BY <1>2, <1>6 DEF AtRebuild, Activating, Transaction, AfterRebuild, MetaPCs, RebuildIndex
  <2> QED BY <1>2, <2>2, <2>3 DEF RebuildInv, MetaPCs, ExitPCs
<1> QED BY <1>1, <1>4, <1>5, <1>7, <1>8, <1>9 DEF EngineInv

LEMMA StepInv ==
  ASSUME EngineInv, [Next]_vars
  PROVE  EngineInv'
<1>1. Types'
  BY TypesStep DEF EngineInv
<1> QED BY <1>1, GivenStep, PlacedStep, ProtectStep, EntryStep, RebuildStep DEF EngineInv

LEMMA EngineHolds == Spec => []EngineInv
<1>1. Init => EngineInv
  BY InitInv
<1>2. EngineInv /\ [Next]_vars => EngineInv'
  BY StepInv
<1> QED BY <1>1, <1>2, PTL DEF Spec

\* The factory markers and the preserved system blocks survive whatever
\* happens: erase_one and qualify work from dispositions that no kill, fault,
\* power cut or resume can make forget a block that must not be touched.
THEOREM ProtectedStay == Spec => []ProtectedUntouched
<1>1. EngineInv => ProtectedUntouched
  BY DEF EngineInv, ProtectInv, ProtectedUntouched
<1> QED BY <1>1, EngineHolds, PTL

\* The entry into service mode and the activation of a generation are told to
\* a controller once: both are asked about before they are sent again.
THEOREM ToldOnce == Spec => []OnceOnly
<1>1. EngineInv => OnceOnly
  BY DEF EngineInv, EntryInv, RebuildInv, OnceOnly, ActivatedOnce, EnteredOnce
<1> QED BY <1>1, EngineHolds, PTL

\* After the rebuild the controller runs on the generation, the table and the
\* capacity of the state, whichever command an interruption fell on.
THEOREM RebuildCommits == Spec => []RebuiltIsCommitted
<1>1. EngineInv => RebuiltIsCommitted
  <2> SUFFICES ASSUME EngineInv, plan.idx > RebuildIndex
               PROVE  CommittedIs(st)
    BY DEF RebuiltIsCommitted, CommittedIs
  <2>1. Reached > RebuildIndex
    BY DEF EngineInv, Types, Reached, RebuildIndex
  <2> QED BY <2>1 DEF EngineInv, RebuildInv, AfterRebuild
<1> QED BY <1>1, EngineHolds, PTL

-----------------------------------------------------------------------------
(* What the dispositions of the state say of the blocks. *)

Program(b) == [op |-> "program-page", blk |-> b]
Truthful(s) ==
  \A b \in Blocks : /\ s.disp[b] = "factory-bad" => b \in cfg.marked
                    /\ s.disp[b] = "system-preserved" => b \in Preserved
TruthInv ==
  /\ InTable("factory-bad") \subseteq cfg.marked
  /\ \A b \in Blocks : ctl.content[b] = "marker" => b \in cfg.marked
  /\ Truthful(st)
  /\ proc.pc \in Loaded => Truthful(proc.st)
\* Nothing writes on a block behind a verification that succeeded.
SweptInv ==
  hist.verified =>
    /\ cfg.level = "C4" /\ plan.idx >= 9
    /\ ctl.op \notin {"erase-block", "program-page"}
    /\ \A b \in Blocks \ Protected : ctl.content[b] = "erased"
\* A failure is what the last operation left behind.
IdleInv == ctl.failed => ctl.op = "none"
\* A program that runs is the one in flight by the state, and the block has no
\* verdict yet.
InFlightInv ==
  ctl.op = "program-page" =>
    /\ plan.idx = QualifyIndex /\ st.mode = "in-service"
    /\ st.flight = Program(ctl.blk) /\ st.disp[ctl.blk] \in {"data", "erased"}
    /\ proc.pc \in {"program-wait", "flight-wait", "idle", "start", "answer"}
    /\ proc.pc = "answer" => proc.res \notin {"ok", "partial"}
Qualifying == plan.idx = QualifyIndex /\ proc.pc \in ErasePCs \cup ProgramPCs \cup {"batch"}
QualifyInv ==
  Qualifying =>
    /\ st.mode = "in-service"
    /\ \A b \in proc.todo : proc.st.disp[b] \in {"data", "erased"}
    /\ proc.pc \in {"send", "program-send", "program-wait", "flight-wait"} => proc.st = st
    /\ proc.pc \in {"program-send", "program-wait"} => st.flight = Program(Block)
\* A failed program: the verdict is in the state, or still in the controller
\* while the state says whose it is.
Settled(s, b) == s.disp[b] \notin {"data", "erased", "qualified"}
Awaited(b) == ctl.failed /\ st.flight = Program(b)
FailedIn(b) ==
  /\ plan.idx >= QualifyIndex
  /\ st.disp[b] # "qualified"
  /\ proc.pc \in Loaded => proc.st.disp[b] # "qualified"
  /\ plan.idx = QualifyIndex /\ st.mode = "in-service" => Settled(st, b) \/ Awaited(b)
  /\ Qualifying => \/ Settled(proc.st, b)
                   \/ Awaited(b) /\ proc.pc \in {"program-wait", "flight-wait"}
FailedInv == hist.cut \/ \A b \in hist.programFailed : FailedIn(b)
WorkInv == IdleInv /\ InFlightInv /\ QualifyInv /\ FailedInv
DispInv == TruthInv /\ SweptInv /\ WorkInv

\* The dispositions an erase that is over can give its block.
Outcomes == {"quarantined", "system-rebuild"} \cup
            IF Action = "qualify-blocks" THEN {} ELSE {"erased", "historical-rbb"}
SameBlocks == proc'.todo = proc.todo /\ proc'.st.disp = proc.st.disp
BlockDone(ds) ==
  /\ proc'.todo = proc.todo \ {Block}
  /\ \A b \in Blocks \ {Block} : proc'.st.disp[b] = proc.st.disp[b]
  /\ proc'.st.disp[Block] \in ds

LEMMA AdvanceDisp ==
  ASSUME proc \in Processes, Block \in Blocks, NEW d, NEW ds, d \in ds,
         NEW bad \in BOOLEAN, NEW system \in BOOLEAN,
         Advance(WithDisposition(Landed(proc.st), Block, d), bad, system)
  PROVE  BlockDone(ds)
<1> DEFINE s == Landed(proc.st)
           t == WithDisposition(s, Block, d)
<1>1. s \in RunStates /\ s.disp = proc.st.disp
  BY LandedTyped, LandedIs DEF Processes
<1>2. t.disp[Block] = d /\ \A b \in Blocks \ {Block} : t.disp[b] = s.disp[b]
  <2> HIDE DEF s
  <2> QED BY <1>1, WithDispositionIs
<1>3. proc'.st = t /\ proc'.todo = proc.todo \ {Block}
  <2>1. Advance(t, bad, system)
    OBVIOUS
  <2> HIDE DEF t
  <2> QED BY <2>1, AdvanceIs
<1> HIDE DEF s, t
<1> QED BY <1>1, <1>2, <1>3 DEF BlockDone

LEMMA EraseSucceededDisp ==
  ASSUME Types, Block \in Blocks, EraseSucceeded(proc.st)
  PROVE  SameBlocks \/ BlockDone(Outcomes \cup {proc.st.disp[Block]})
<1>1. proc \in Processes /\ proc.st \in RunStates
  BY DEF Types, Processes
<1>2. CASE Action = "qualify-blocks"
  BY <1>1, <1>2, WorkIs, LandedIs DEF EraseSucceeded, SameBlocks
<1>3. CASE Action # "qualify-blocks"
  <2> DEFINE d == ErasedAs(proc.st.disp[Block])
  <2>1. d \in Outcomes \cup {proc.st.disp[Block]}
    BY <1>3 DEF ErasedAs, Outcomes
  <2>2. Advance(WithDisposition(Landed(proc.st), Block, d), FALSE, FALSE)
    BY <1>3 DEF EraseSucceeded
  <2> HIDE DEF d
  <2> QED BY <1>1, <2>1, <2>2, AdvanceDisp
<1> QED BY <1>2, <1>3

LEMMA EraseGaveUpDisp ==
  ASSUME Types, Block \in Blocks, EraseGaveUp(proc.st)
  PROVE  BlockDone({"quarantined", "system-rebuild"})
<1> DEFINE system == proc.st.disp[Block] = "system-rebuild"
           d == IF system THEN "system-rebuild" ELSE "quarantined"
<1>1. proc \in Processes /\ system \in BOOLEAN /\ d \in {"quarantined", "system-rebuild"}
  BY DEF Types
<1>2. Advance(WithDisposition(Landed(proc.st), Block, d), TRUE, system)
  BY DEF EraseGaveUp
<1> HIDE DEF system, d
<1> QED BY <1>1, <1>2, AdvanceDisp

LEMMA EraseFailedDisp ==
  ASSUME Types, Block \in Blocks, EraseFailed
  PROVE  /\ st' = Landed(proc.st)
         /\ SameBlocks \/ BlockDone({"quarantined", "system-rebuild"})
<1>1. CASE Action = "qualify-blocks"
  BY <1>1 DEF EraseFailed, SameBlocks, Types, Processes
<1>2. CASE Action # "qualify-blocks"
  BY <1>2, EraseGaveUpDisp DEF EraseFailed
<1> QED BY <1>1, <1>2

LEMMA QualifiedDisp ==
  ASSUME Types, Block \in Blocks, NEW d, Qualified(d)
  PROVE  BlockDone({d})
<1> DEFINE bad == d = "quarantined"
<1>1. proc \in Processes /\ bad \in BOOLEAN
  BY DEF Types
<1>2. Advance(WithDisposition(Landed(proc.st), Block, d), bad, FALSE)
  BY DEF Qualified
<1> HIDE DEF bad
<1> QED BY <1>1, <1>2, AdvanceDisp

\* One step of an erase at work on its blocks.
LEMMA EraseStep ==
  ASSUME Types, Placed, EraseNext, ~BeginErase
  PROVE  /\ proc.pc \in ErasePCs \cup {"batch", "markers"}
         /\ st' = st \/ st'.disp = proc.st.disp
         /\ proc'.pc \in ErasePCs \cup {"batch", "markers", "program-mark", "answer"}
         /\ proc'.pc = "answer" \/ SameBlocks \/ BlockDone(Outcomes \cup {proc.st.disp[Block]})
         /\ proc'.pc = "answer" \/ SameBlocks \/ Action # "qualify-blocks"
              \/ BlockDone({"quarantined", "system-rebuild"})
         /\ proc'.pc = "send" => proc'.st = st'
         /\ ctl'.failed = ctl.failed \/ proc.pc = "send"
<1> DEFINE Done2 == SameBlocks \/ BlockDone({"quarantined", "system-rebuild"})
           Done1 == SameBlocks \/ BlockDone(Outcomes \cup {proc.st.disp[Block]})
           Fine == /\ st' = st \/ st'.disp = proc.st.disp
                   /\ proc'.pc \in ErasePCs \cup {"batch", "markers", "program-mark", "answer"}
                   /\ proc'.pc = "answer" \/ Done1
                   /\ proc'.pc = "answer" \/ Action # "qualify-blocks" \/ Done2
                   /\ proc'.pc = "send" => proc'.st = st'
<1>0. proc \in Processes /\ st \in RunStates /\ proc.st \in RunStates
  BY DEF Types, Processes
<1>1. proc.pc \in ErasePCs \ {"scan"} => Block \in Blocks
  BY <1>0, LeastBlock DEF Placed, Processes
<1>2. Done2 => Done1
  BY DEF BlockDone, Outcomes
<1>3. Fine /\ proc.pc \in ErasePCs \cup {"batch", "markers"}
  <2>1. CASE Scan \/ Send
    <3>1. /\ st' = st /\ proc.pc \in ErasePCs
          /\ Goto("old-wait") \/ Goto("mark") \/ Goto("wait") \/ Answer("interrupted")
      BY <2>1, CommandIs DEF Scan, Send, ErasePCs
    <3> QED BY <1>0, <3>1, GotoIs, AnswerIs DEF ErasePCs, SameBlocks
  <2>2. CASE OldWait \/ Wait
    <3>1. /\ proc.pc \in ErasePCs \ {"scan"}
          /\ \/ (Goto("old-read") \/ Goto("read")) /\ UNCHANGED st
             \/ EraseFailed
             \/ Answer("interrupted") /\ UNCHANGED st
      BY <2>2 DEF OldWait, Wait, WaitIdle, ErasePCs
    <3>2. CASE EraseFailed
      <4>1. Done2 /\ st'.disp = proc.st.disp
        BY <1>0, <1>1, <3>1, <3>2, EraseFailedDisp, LandedIs
      <4>2. proc'.pc \in {"batch", "scan", "answer"}
        BY <1>1, <3>1, <3>2, EraseFailedIs DEF Advanced
      <4> HIDE DEF Done1, Done2
      <4> QED BY <1>2, <3>1, <4>1, <4>2 DEF ErasePCs
    <3>3. CASE (Goto("old-read") \/ Goto("read")) /\ UNCHANGED st
      BY <1>0, <3>3, <3>1, GotoIs DEF ErasePCs, SameBlocks
    <3>4. CASE Answer("interrupted") /\ UNCHANGED st
      BY <1>0, <3>4, <3>1, AnswerIs DEF ErasePCs, SameBlocks
    <3> QED BY <3>1, <3>2, <3>3, <3>4
  <2>3. CASE OldRead \/ Read
    <3>1. /\ proc.pc \in ErasePCs \ {"scan"}
          /\ st' = st \/ st' = Landed(proc.st)
          /\ \/ \E r \in Answers : Answer(r)
             \/ EraseSucceeded(proc.st)
             \/ EraseGaveUp(proc.st)
             \/ proc'.pc = "mark" /\ proc'.st = proc.st /\ proc'.todo = proc.todo
      <4>1. CASE OldRead
        BY <1>0, <4>1, GotoIs DEF OldRead, ErasePCs, Answers
      <4>2. CASE Read
        <5>1. proc.pc = "read" /\ st' = st
          BY <4>2 DEF Read
        <5> QED BY <4>2, <5>1, ReadIs DEF ErasePCs, Answers
      <4> QED BY <2>3, <4>1, <4>2
    <3>2. st' = st \/ st'.disp = proc.st.disp
      BY <1>0, <3>1, LandedIs
    <3>3. CASE EraseSucceeded(proc.st)
      <4>1. /\ proc'.pc \in {"batch", "scan", "program-mark"}
            /\ Action = "qualify-blocks" => SameBlocks
        <5>1. CASE Action = "qualify-blocks"
          BY <1>0, <3>3, <5>1, WorkIs, LandedIs DEF EraseSucceeded, SameBlocks
        <5>2. CASE Action # "qualify-blocks"
          BY <1>0, <1>1, <3>1, <3>3, <5>2, EraseSucceededIs DEF Advanced
        <5> QED BY <5>1, <5>2
      <4>2. Done1
        BY <1>1, <3>1, <3>3, EraseSucceededDisp
      <4>3. Action # "qualify-blocks" \/ Done2
        BY <4>1
      <4> HIDE DEF Done1, Done2
      <4> QED BY <3>1, <3>2, <4>1, <4>2, <4>3 DEF ErasePCs
    <3>4. CASE EraseGaveUp(proc.st)
      <4>1. Done2
        BY <1>1, <3>1, <3>4, EraseGaveUpDisp
      <4>2. proc'.pc \in {"batch", "scan"}
        BY <1>0, <1>1, <3>1, <3>4, EraseGaveUpIs DEF Advanced
      <4> HIDE DEF Done1, Done2
      <4> QED BY <1>2, <3>1, <3>2, <4>1, <4>2 DEF ErasePCs
    <3>5. CASE \E r \in Answers : Answer(r)
      BY <1>0, <3>1, <3>2, <3>5, AnswerIs DEF ErasePCs
    <3>6. CASE proc'.pc = "mark" /\ proc'.st = proc.st /\ proc'.todo = proc.todo
      BY <3>1, <3>2, <3>6 DEF ErasePCs, SameBlocks
    <3> QED BY <3>1, <3>3, <3>4, <3>5, <3>6
  <2>4. CASE Mark
    <3> DEFINE s == [proc.st EXCEPT !.flight = [op |-> "erase-block", blk |-> Block]]
    <3>1. s.disp = proc.st.disp /\ Save("send", s) /\ proc.pc = "mark"
      BY <1>0, <2>4 DEF Mark, RunStates
    <3> HIDE DEF s
    <3> QED BY <1>0, <3>1, SaveIs DEF ErasePCs, SameBlocks
  <2>5. CASE SaveBatch \/ EndErase
    <3> DEFINE s == [proc.st EXCEPT !.phase = "other"]
    <3>1. s.disp = proc.st.disp /\ proc.pc \in ErasePCs \cup {"batch"}
      BY <1>0, <2>5 DEF SaveBatch, EndErase, RunStates, ErasePCs
    <3>2. Save("scan", s) \/ Save("markers", s) \/ \E r \in Answers : SaveAndAnswer(s, r)
      BY <2>5 DEF SaveBatch, EndErase, Answers
    <3> HIDE DEF s
    <3> QED BY <1>0, <3>1, <3>2, SaveIs, SaveAndAnswerIs DEF ErasePCs, SameBlocks
  <2>6. CASE Markers
    <3>1. st' = st /\ proc.pc = "markers" /\ \E r \in Answers : Answer(r)
      BY <2>6 DEF Markers, Answers
    <3> QED BY <1>0, <3>1, AnswerIs
  <2> HIDE DEF Fine
  <2> QED BY <2>1, <2>2, <2>3, <2>4, <2>5, <2>6 DEF EraseNext
<1>4. ctl'.failed = ctl.failed \/ proc.pc = "send"
  BY DEF EraseNext, Scan, OldWait, OldRead, Mark, Send, Wait, Read, SaveBatch, EndErase,
         Markers, WaitIdle
<1> QED BY <1>3, <1>4

\* Every disposition a step leaves in a state was there before, or is one of
\* those that say nothing but that a block was worked on, or true.
Derived(t, new) ==
  \A b \in Blocks : \/ t.disp[b] = st.disp[b]
                    \/ proc.pc \in Loaded /\ t.disp[b] = proc.st.disp[b]
                    \/ t.disp[b] \in {"erased", "historical-rbb", "quarantined",
                                      "system-rebuild"} \cup new
                    \/ t.disp[b] = "system-preserved" /\ b \in Preserved
                    \/ t.disp[b] = "factory-bad" /\ b \in cfg.marked
BothDerived(new) == Derived(st', new) /\ (proc'.pc \in Loaded => Derived(proc'.st, new))

LEMMA DerivedIs ==
  ASSUME NEW t, NEW new
  PROVE  /\ t.disp = st.disp => Derived(t, new)
         /\ t.disp = proc.st.disp /\ proc.pc \in Loaded => Derived(t, new)
  BY DEF Derived

LEMMA ClassifiedDerived ==
  ASSUME Types, NEW new
  PROVE  Derived(Classified(st), new)
<1> DEFINE t == Classified(st)
<1>1. /\ \A b \in Preserved : t.disp[b] = "system-preserved"
      /\ \A b \in Rebuilt : t.disp[b] = "system-rebuild"
      /\ \A b \in Blocks \ SystemBlocks : t.disp[b] = st.disp[b]
  BY ClassifiedIs DEF Types
<1> HIDE DEF t
<1>2. ASSUME NEW b \in Blocks
      PROVE  \/ t.disp[b] = st.disp[b] \/ t.disp[b] = "system-rebuild"
             \/ t.disp[b] = "system-preserved" /\ b \in Preserved
  BY <1>1 DEF SystemBlocks
<1>3. Derived(t, new)
  BY <1>2 DEF Derived
<1> QED BY <1>3 DEF t

LEMMA EndsDerived ==
  ASSUME proc \in Processes, proc.pc \in Loaded, NEW s, NEW pcs, Ends(s, pcs),
         s.disp = proc.st.disp
  PROVE  BothDerived({})
<1>1. st' = st \/ st' = s
  BY EndsIs
<1>2. proc'.st = proc.st \/ proc'.st = s
  BY EndsIs
<1> QED BY <1>1, <1>2 DEF Derived, BothDerived

LEMMA BlockDoneDerived ==
  ASSUME NEW ds, NEW new, proc.pc \in Loaded, SameBlocks \/ BlockDone(ds \cup {proc.st.disp[Block]}),
         ds \subseteq {"erased", "historical-rbb", "quarantined", "system-rebuild"} \cup new
  PROVE  Derived(proc'.st, new)
<1>1. CASE SameBlocks
  BY <1>1 DEF SameBlocks, Derived
<1>2. CASE BlockDone(ds \cup {proc.st.disp[Block]})
  BY <1>2 DEF BlockDone, Derived
<1> QED BY <1>1, <1>2

LEMMA EraseDerived ==
  ASSUME Types, Placed, EraseNext
  PROVE  BothDerived({})
<1>0. proc \in Processes /\ st \in RunStates
  BY DEF Types
<1>1. CASE BeginErase
  <2> DEFINE s == Classified(st)
  <2>1. Derived(s, {})
    BY ClassifiedDerived
  <2>2. UNCHANGED st /\ (Begin("scan", s, Targets(s)) \/ Answer("refused"))
    BY <1>1 DEF BeginErase, InService
  <2> HIDE DEF s
  <2>3. st' = st /\ (proc'.pc = "answer" \/ proc'.st = s)
    BY <1>0, <2>2, BeginIs, AnswerIs
  <2>4. Derived(st', {})
    BY <2>3, DerivedIs
  <2> QED BY <2>1, <2>3, <2>4 DEF BothDerived, Loaded
<1>2. CASE ~BeginErase
  <2>1. proc.pc \in Loaded
    BY <1>2, EraseStep DEF ErasePCs, Loaded, PCs
  <2>2. Outcomes \subseteq {"erased", "historical-rbb", "quarantined", "system-rebuild"} \cup {}
    BY DEF Outcomes
  <2>3. Derived(st', {})
    BY <1>2, <2>1, EraseStep, DerivedIs
  <2>4. proc'.pc = "answer" \/ Derived(proc'.st, {})
    BY <1>2, <2>1, <2>2, EraseStep, BlockDoneDerived
  <2> QED BY <2>3, <2>4 DEF BothDerived, Loaded
<1> QED BY <1>1, <1>2

LEMMA QualifyDerived ==
  ASSUME Types, Placed, QualifyNext
  PROVE  BothDerived({"qualified"})
<1> DEFINE new == {"qualified"}
<1>0. proc \in Processes /\ st \in RunStates /\ proc.st \in RunStates
  BY DEF Types, Processes
<1>1. proc.pc \in ProgramPCs \ {"flight-wait"} => Block \in Blocks
  BY <1>0, LeastBlock DEF Placed, Processes
<1>2. proc.pc \in ProgramPCs \cup {"scan"} => proc.pc \in Loaded
  BY DEF ProgramPCs, Loaded, PCs
<1>3. CASE BeginQualify
  <2>1. st' = st /\ (proc'.pc = "answer" \/ proc'.st = st)
    BY <1>0, <1>3, BeginQualifyIs, BeginIs, AnswerIs DEF BeginQualify, InService
  <2> QED BY <2>1, DerivedIs DEF BothDerived, Loaded
<1>4. CASE FlightWait
  <2> DEFINE s == Landed(proc.st)
             q == WithDisposition(proc.st, proc.st.flight.blk, "quarantined")
             t == Landed(q)
  <2>1. proc.pc = "flight-wait" /\ proc.st.flight.blk \in Blocks
    BY <1>0, <1>4 DEF FlightWait, RunStates, Flights
  <2>2. Derived(s, new) /\ Derived(proc.st, new)
    BY <1>0, <1>2, <2>1, LandedIs, DerivedIs DEF ProgramPCs
  <2>3. Derived(t, new)
    <3>0. q \in RunStates
      BY <1>0, <2>1, WithDispositionTyped DEF Dispositions
    <3>1. /\ q.disp[proc.st.flight.blk] = "quarantined"
          /\ \A b \in Blocks \ {proc.st.flight.blk} : q.disp[b] = proc.st.disp[b]
      BY <1>0, <2>1, WithDispositionIs
    <3>2. t.disp = q.disp
      <4> HIDE DEF q
      <4> QED BY <3>0, LandedIs
    <3> HIDE DEF q, t
    <3> QED BY <1>2, <2>1, <3>1, <3>2 DEF Derived, ProgramPCs
  <2>4. \/ st' = s /\ Begin("scan", st', Targets(st'))
        \/ st' = t /\ Begin("scan", st', Targets(st'))
        \/ st' = st /\ Answer("interrupted")
    BY <1>4, FlightWaitIs
  <2> HIDE DEF s, q, t
  <2>5. \/ st' \in {s, t} /\ proc'.st = st'
        \/ st' = st /\ proc'.pc = "answer"
    BY <1>0, <2>4, BeginIs, AnswerIs
  <2> QED BY <2>2, <2>3, <2>5, DerivedIs DEF BothDerived, Loaded
<1>5. CASE ProgramMark
  <2> DEFINE s == [proc.st EXCEPT !.flight = [op |-> "program-page", blk |-> Block]]
  <2>1. s.disp = proc.st.disp /\ proc.pc \in Loaded
    BY <1>0, <1>2, <1>5 DEF ProgramMark, RunStates, ProgramPCs
  <2>2. Save("program-send", s)
    BY <1>5 DEF ProgramMark
  <2> HIDE DEF s
  <2>3. st' = s /\ proc'.st = s
    BY <1>0, <2>2, SaveIs
  <2> QED BY <2>1, <2>3, DerivedIs DEF BothDerived
<1>6. CASE ProgramSend
  <2>1. /\ st' = st /\ proc.pc \in Loaded
        /\ Goto("program-wait") \/ Answer("interrupted")
    BY <1>2, <1>6, CommandIs DEF ProgramSend, ProgramPCs
  <2>2. proc'.st = proc.st
    BY <1>0, <2>1, GotoIs, AnswerIs
  <2> QED BY <2>1, <2>2, DerivedIs DEF BothDerived
<1>7. CASE ProgramWait \/ ProgramRead
  <2>1. /\ proc.pc \in ProgramPCs \ {"flight-wait"} /\ st' = st
        /\ \/ Goto("program-read")
           \/ \E r \in Answers : Answer(r)
           \/ \E d \in {"qualified", "quarantined"} : Qualified(d)
    BY <1>7 DEF ProgramWait, ProgramRead, WaitIdle, ProgramPCs, Answers
  <2>2. CASE \E d \in {"qualified", "quarantined"} : Qualified(d)
    <3>1. PICK d \in {"qualified", "quarantined"} : BlockDone({d})
      BY <1>1, <2>1, <2>2, QualifiedDisp
    <3>2. BlockDone({"quarantined", "qualified"} \cup {proc.st.disp[Block]})
      BY <3>1 DEF BlockDone
    <3>3. Derived(proc'.st, new)
      BY <1>2, <2>1, <3>2, BlockDoneDerived
    <3> QED BY <2>1, <3>3, DerivedIs DEF BothDerived
  <2>3. CASE Goto("program-read") \/ \E r \in Answers : Answer(r)
    <3>1. proc'.st = proc.st
      BY <1>0, <2>3, GotoIs, AnswerIs
    <3> QED BY <1>2, <2>1, <3>1, DerivedIs DEF BothDerived
  <2> QED BY <2>1, <2>2, <2>3
<1>8. CASE EndQualify
  <2> DEFINE s == [proc.st EXCEPT !.phase = "other"]
  <2>1. s.disp = proc.st.disp /\ proc.pc \in Loaded
    BY <1>0, <1>2, <1>8 DEF EndQualify, RunStates
  <2>2. SaveAndAnswer(s, "ok")
    BY <1>8 DEF EndQualify
  <2> HIDE DEF s
  <2>3. st' = s /\ proc'.st = s
    BY <1>0, <2>2, SaveAndAnswerIs
  <2> QED BY <2>1, <2>3, DerivedIs DEF BothDerived
<1> QED BY <1>3, <1>4, <1>5, <1>6, <1>7, <1>8 DEF QualifyNext

LEMMA ServiceDerived ==
  ASSUME Types, ServiceNext
  PROVE  BothDerived({})
<1>0. proc \in Processes /\ st \in RunStates /\ proc.st \in RunStates
  BY DEF Types, Processes
<1>1. /\ \A m, p : [st EXCEPT !.mode = m, !.phase = p].disp = st.disp
      /\ \A m : [st EXCEPT !.mode = m].disp = st.disp
      /\ \A m, p : [proc.st EXCEPT !.mode = m, !.phase = p].disp = proc.st.disp
      /\ \A m : [proc.st EXCEPT !.mode = m].disp = proc.st.disp
  BY <1>0 DEF RunStates
<1>2. ASSUME st'.disp = st.disp, proc'.st.disp = st.disp \/ proc'.pc = "answer"
      PROVE  BothDerived({})
  BY <1>2, DerivedIs DEF BothDerived, Loaded
<1>3. CASE BeginEnter
  BY <1>2, <1>3, BeginEnterIs DEF BeginEnter
<1>4. CASE EnterAsk
  <2> DEFINE s == [st EXCEPT !.mode = "in-service"]
             t == [st EXCEPT !.mode = "entry-command-pending", !.phase = "other"]
  <2>1. s.disp = st.disp /\ t.disp = st.disp
    BY <1>1
  <2>2. \/ UNCHANGED st /\ \E r \in Answers : Answer(r)
        \/ Work("enter-confirm", s) /\ UNCHANGED st
        \/ Save("enter-pending", t)
    BY <1>4 DEF EnterAsk, WhenIdle, Answers
  <2> HIDE DEF s, t
  <2> QED BY <1>0, <1>2, <2>1, <2>2, AnswerIs, WorkIs, SaveIs
<1>5. CASE BeginExit
  <2> DEFINE t == [st EXCEPT !.mode = "exit-command-pending", !.phase = "other"]
  <2>1. t.disp = st.disp
    BY <1>1
  <2>2. \/ st' = t /\ proc'.st = st'
        \/ st' = st /\ proc'.st = st
        \/ st' = st /\ Answer("refused")
    BY <1>5, BeginExitIs
  <2> HIDE DEF t
  <2> QED BY <1>0, <1>2, <2>1, <2>2, AnswerIs
<1>6. ASSUME proc.pc \in Loaded, NEW m, NEW p, NEW pcs,
             \/ Ends([proc.st EXCEPT !.mode = m, !.phase = p], pcs)
             \/ Ends([proc.st EXCEPT !.mode = m], pcs)
             \/ Ends(proc.st, pcs)
      PROVE  BothDerived({})
  <2> DEFINE s == [proc.st EXCEPT !.mode = m, !.phase = p]
             t == [proc.st EXCEPT !.mode = m]
  <2>1. s.disp = proc.st.disp /\ t.disp = proc.st.disp
    BY <1>1
  <2>2. Ends(s, pcs) \/ Ends(t, pcs) \/ Ends(proc.st, pcs)
    BY <1>6
  <2> HIDE DEF s, t
  <2> QED BY <1>0, <1>6, <2>1, <2>2, EndsDerived
<1>7. CASE EnterPending
  <2>1. proc.pc \in Loaded
    BY <1>7 DEF EnterPending, Loaded, PCs
  <2>2. Ends([proc.st EXCEPT !.mode = "entry-reenumerating"],
             {"enter-load", "enter-send"})
    BY <1>7 DEF EnterPending, Ends, Answers, WhenIdle
  <2> QED BY <1>6, <2>1, <2>2
<1>8. CASE EnterSend
  <2>1. proc.pc \in Loaded
    BY <1>8 DEF EnterSend, Loaded, PCs
  <2>2. Ends(proc.st, {"enter-sent", "enter-confirm"})
    BY <1>8 DEF EnterSend, Ends, Answers
  <2> QED BY <1>6, <2>1, <2>2
<1>9. CASE EnterSent
  <2>1. proc.pc \in Loaded
    BY <1>9 DEF EnterSent, Loaded, PCs
  <2>2. Ends([proc.st EXCEPT !.mode = "entry-reenumerating", !.phase = "other"], {})
    BY <1>9 DEF EnterSent, Ends, Answers
  <2> QED BY <1>6, <2>1, <2>2
<1>10. CASE EnterLoad
  <2>1. proc.pc \in Loaded
    BY <1>10 DEF EnterLoad, Loaded, PCs
  <2>2. Ends([proc.st EXCEPT !.mode = "loader-command-pending", !.phase = "other"],
             {"enter-confirm", "enter-pram"})
    BY <1>10, EnterLoadIs DEF Ends, Answers
  <2> QED BY <1>6, <2>1, <2>2
<1>11. CASE EnterPram
  <2>1. proc.pc \in Loaded
    BY <1>11 DEF EnterPram, Loaded, PCs
  <2>2. Ends(proc.st, {"loader-sent", "enter-confirm"})
    BY <1>11 DEF EnterPram, Ends, Answers
  <2> QED BY <1>6, <2>1, <2>2
<1>12. CASE LoaderSent
  <2>1. proc.pc \in Loaded
    BY <1>12 DEF LoaderSent, Loaded, PCs
  <2>2. Ends([proc.st EXCEPT !.mode = "loader-reenumerating", !.phase = "other"], {})
    BY <1>12 DEF LoaderSent, Ends, Answers
  <2> QED BY <1>6, <2>1, <2>2
<1>13. CASE EnterConfirm
  <2>1. proc.pc \in Loaded
    BY <1>13 DEF EnterConfirm, Loaded, PCs
  <2>2. Ends([proc.st EXCEPT !.mode = "in-service", !.phase = "other"], {})
    BY <1>13 DEF EnterConfirm, Ends, Answers, WaitIdle
  <2> QED BY <1>6, <2>1, <2>2
<1>14. CASE ExitAsk
  <2>1. proc.pc \in Loaded
    BY <1>14 DEF ExitAsk, Loaded, PCs
  <2>2. Ends(proc.st, {"exit-send", "exit-confirm"})
    BY <1>14 DEF ExitAsk, Ends, Answers, WhenIdle
  <2> QED BY <1>6, <2>1, <2>2
<1>15. CASE ExitSend
  <2>1. proc.pc \in Loaded
    BY <1>15 DEF ExitSend, Loaded, PCs
  <2>2. Ends(proc.st, {"exit-sent", "exit-confirm"})
    BY <1>15 DEF ExitSend, Ends, Answers
  <2> QED BY <1>6, <2>1, <2>2
<1>16. CASE ExitSent
  <2>1. proc.pc \in Loaded
    BY <1>16 DEF ExitSent, Loaded, PCs
  <2>2. Ends([proc.st EXCEPT !.mode = "exit-reenumerating", !.phase = "other"], {})
    BY <1>16 DEF ExitSent, Ends, Answers
  <2> QED BY <1>6, <2>1, <2>2
<1>17. CASE ExitConfirm
  <2>1. proc.pc \in Loaded
    BY <1>17 DEF ExitConfirm, Loaded, PCs
  <2>2. Ends([proc.st EXCEPT !.mode = "normal", !.phase = "other"], {})
    BY <1>17 DEF ExitConfirm, Ends, Answers, WaitIdle
  <2> QED BY <1>6, <2>1, <2>2
<1> QED BY <1>3, <1>4, <1>5, <1>7, <1>8, <1>9, <1>10, <1>11, <1>12, <1>13, <1>14, <1>15,
           <1>16, <1>17 DEF ServiceNext

LEMMA RebuildDerived ==
  ASSUME Types, Placed, RebuildNext
  PROVE  BothDerived({})
<1>0. proc \in Processes /\ st \in RunStates /\ proc.st \in RunStates
  BY DEF Types, Processes
<1>1. proc.pc \in MetaPCs => proc.pc \in Loaded
  BY DEF MetaPCs, Loaded, PCs
<1>2. CASE BeginRebuild
  <2> DEFINE s == Fresh
  <2>1. s.disp = st.disp
    BY <1>0 DEF Fresh, RunStates
  <2>2. \/ UNCHANGED st /\ (\E r \in Answers : Answer(r))
        \/ UNCHANGED st /\ ToMetadata(st, PhaseIndex(st))
        \/ st' = s /\ ToMetadata(s, 1)
    BY <1>2, BeginRebuildIs DEF Answers
  <2> HIDE DEF s
  <2>3. st'.disp = st.disp /\ (proc'.pc = "answer" \/ proc'.st.disp = st.disp)
    BY <1>0, <2>1, <2>2, ToMetadataIs, AnswerIs
  <2> QED BY <2>3, DerivedIs DEF BothDerived, Loaded
<1>3. CASE Metadata \/ MetaSend \/ MetaWait
  <2>1. /\ st' = st /\ proc.pc \in MetaPCs
        /\ \/ \E p \in MetaPCs : Goto(p)
           \/ \E r \in Answers : Answer(r)
    <3>1. CASE Metadata
      BY <3>1, MetadataIs DEF Metadata, MetaPCs, Answers
    <3>2. CASE MetaSend
      BY <3>2, CommandIs DEF MetaSend, MetaPCs, Answers
    <3>3. CASE MetaWait
      BY <3>3 DEF MetaWait, WaitIdle, MetaPCs, Answers
    <3> QED BY <1>3, <3>1, <3>2, <3>3
  <2>2. proc'.st = proc.st
    BY <1>0, <2>1, GotoIs, AnswerIs
  <2> QED BY <1>1, <2>1, <2>2, DerivedIs DEF BothDerived
<1>4. CASE MetaSave
  <2> DEFINE s == [proc.st EXCEPT !.phase = MetadataPhases[proc.tries + 1]]
  <2>1. proc.pc \in Loaded /\ s.disp = proc.st.disp
    BY <1>0, <1>4 DEF MetaSave, Loaded, PCs, RunStates
  <2>2. /\ st' = s
        /\ proc' = [proc EXCEPT !.pc = "metadata", !.st = s, !.tries = @ + 1]
    BY <1>4 DEF MetaSave
  <2> HIDE DEF s
  <2>3. proc'.st = s
    BY <1>0, <2>2 DEF Processes
  <2> QED BY <2>1, <2>2, <2>3, DerivedIs DEF BothDerived
<1>5. CASE MetaVerify
  <2> DEFINE s == [proc.st EXCEPT !.phase = "metadata-commit-verified"]
  <2>1. proc.pc \in Loaded /\ s.disp = proc.st.disp
    BY <1>0, <1>5 DEF MetaVerify, Loaded, PCs, RunStates
  <2>2. Ends(s, {})
    BY <1>5 DEF MetaVerify, WhenIdle, Ends, Answers
  <2> HIDE DEF s
  <2> QED BY <1>0, <2>1, <2>2, EndsDerived
<1> QED BY <1>2, <1>3, <1>4, <1>5 DEF RebuildNext

LEMMA ReadDerived ==
  ASSUME Types, Given, TruthInv, ReadNext
  PROVE  BothDerived({})
<1>0. proc \in Processes /\ st \in RunStates /\ proc.st \in RunStates
  BY DEF Types, Processes
<1>1. Derived(Classified(st), {}) /\ Classified(st) \in RunStates
  BY <1>0, ClassifiedDerived, ClassifiedTyped
<1>2. ASSUME NEW s, Derived(s, {}),
             \/ UNCHANGED st /\ \E r \in Answers : Answer(r)
             \/ \E r \in Answers : SaveAndAnswer(s, r)
      PROVE  BothDerived({})
  <2>1. (st' = st \/ st' = s) /\ proc'.pc = "answer"
    BY <1>0, <1>2, AnswerIs, SaveAndAnswerIs
  <2> QED BY <1>2, <2>1, DerivedIs DEF BothDerived, Loaded
<1>3. CASE Inventory
  <2> DEFINE s == [Classified(st) EXCEPT !.gen = ctl.committed.gen, !.phase = "other"]
  <2>1. s.disp = Classified(st).disp
    BY <1>1 DEF RunStates
  <2>2. \/ UNCHANGED st /\ \E r \in Answers : Answer(r)
        \/ \E r \in Answers : SaveAndAnswer(s, r)
    BY <1>3 DEF Inventory, WhenIdle, Answers
  <2> HIDE DEF s
  <2> QED BY <1>1, <1>2, <2>1, <2>2 DEF Derived
<1>4. CASE CaptureOldBbt
  <2> DEFINE c == Classified(st)
             s == [c EXCEPT
                    !.disp = [b \in Blocks |-> IF b \in SystemBlocks \/ OldTable[b] = "absent"
                                               THEN c.disp[b] ELSE OldTable[b]],
                    !.rbb = InTable("historical-rbb") \cup (c.rbb \cap InTable("absent")),
                    !.phase = "other"]
  <2>1. \/ UNCHANGED st /\ \E r \in Answers : Answer(r)
        \/ \E r \in Answers : SaveAndAnswer(s, r)
    BY <1>4 DEF CaptureOldBbt, Answers
  <2>2. \A b \in Blocks : s.disp[b] = IF b \in SystemBlocks \/ OldTable[b] = "absent"
                                      THEN c.disp[b] ELSE OldTable[b]
    <3> HIDE DEF c
    <3> QED BY <1>1 DEF RunStates, c
  <2>3. Derived(c, {})
    BY <1>1
  <2> HIDE DEF s, c
  <2>4. ASSUME NEW b \in Blocks, OldTable[b] # "absent"
        PROVE  \/ OldTable[b] \in {"historical-rbb", "system-rebuild"}
               \/ OldTable[b] = "factory-bad" /\ b \in cfg.marked
    <3>1. OldTable[b] \in TableEntries
      BY DEF OldTable, Given
    <3>2. OldTable[b] = "factory-bad" => b \in cfg.marked
      BY DEF TruthInv, InTable
    <3> QED BY <2>4, <3>1, <3>2 DEF TableEntries
  <2>5. Derived(s, {})
    <3> SUFFICES ASSUME NEW b \in Blocks
                 PROVE  \/ s.disp[b] = st.disp[b]
                        \/ proc.pc \in Loaded /\ s.disp[b] = proc.st.disp[b]
                        \/ s.disp[b] \in {"erased", "historical-rbb", "quarantined",
                                          "system-rebuild"} \cup {}
                        \/ s.disp[b] = "system-preserved" /\ b \in Preserved
                        \/ s.disp[b] = "factory-bad" /\ b \in cfg.marked
      BY DEF Derived
    <3>1. CASE s.disp[b] = c.disp[b]
      BY <2>3, <3>1 DEF Derived
    <3>2. CASE s.disp[b] # c.disp[b]
      BY <2>2, <2>4, <3>2
    <3> QED BY <3>1, <3>2
  <2> QED BY <1>2, <2>1, <2>5
<1>5. CASE BeginEnumerate
  <2>1. st' = st /\ Begin("batch", Classified(st), Blocks)
    BY <1>5 DEF BeginEnumerate
  <2>2. proc'.st = Classified(st)
    BY <1>0, <2>1, BeginIs
  <2> QED BY <1>1, <2>1, <2>2, DerivedIs DEF BothDerived
<1>6. CASE EnumerateBatch
  <2> DEFINE n == proc.done + BatchSize
             s == Searched(n)
  <2>1. proc.pc \in Loaded
    BY <1>6 DEF EnumerateBatch, Loaded, PCs
  <2>2. \A b \in Blocks : \/ s.disp[b] = proc.st.disp[b]
                          \/ s.disp[b] = "factory-bad" /\ b \in cfg.marked
    BY <1>0 DEF Searched, RunStates, TruthInv, Marker
  <2>3. \/ UNCHANGED st /\ Answer("error")
        \/ SaveAndAnswer(s, "ok")
        \/ Batched(s, n)
    BY <1>6, EnumerateBatchIs
  <2> HIDE DEF s, n
  <2>4. Derived(s, {})
    BY <2>1, <2>2 DEF Derived
  <2>5. (st' = st \/ st' = s) /\ (proc'.pc = "answer" \/ proc'.st = s)
    BY <1>0, <2>3, AnswerIs, SaveAndAnswerIs, BatchedIs
  <2> QED BY <2>4, <2>5, DerivedIs DEF BothDerived, Loaded
<1>7. CASE VerifyErasure \/ ReEnumeration \/ Postcheck
  <2> DEFINE s == [Classified(st) EXCEPT !.phase = "other"]
  <2>1. s.disp = Classified(st).disp
    BY <1>1 DEF RunStates
  <2>2. \/ UNCHANGED st /\ \E r \in Answers : Answer(r)
        \/ \E r \in Answers : SaveAndAnswer(s, r)
    BY <1>7, VerifyErasureIs DEF ReEnumeration, Postcheck, WhenIdle, Answers
  <2> HIDE DEF s
  <2> QED BY <1>1, <1>2, <2>1, <2>2 DEF Derived
<1> QED BY <1>3, <1>4, <1>5, <1>6, <1>7 DEF ReadNext

-----------------------------------------------------------------------------
(* The dispositions stay true, and what was verified stays erased. *)

LEMMA HistKept ==
  ASSUME Types, Placed, ServiceNext \/ EraseNext \/ QualifyNext \/ RebuildNext \/ ReadNext
  PROVE  /\ hist'.programFailed = hist.programFailed /\ hist'.cut = hist.cut
         /\ hist'.recovered = hist.recovered
         /\ hist'.verified = hist.verified \/ VerifyErasure
<1> DEFINE Same == /\ hist'.programFailed = hist.programFailed /\ hist'.cut = hist.cut
                   /\ hist'.recovered = hist.recovered /\ hist'.verified = hist.verified
<1>0. hist \in Histories
  BY DEF Types
<1>1. hist' = hist => Same
  OBVIOUS
<1>2. CASE EnterSend
  <2>1. \A x : LET h == [hist EXCEPT !.reentered = x]
               IN  /\ h.programFailed = hist.programFailed /\ h.cut = hist.cut
                   /\ h.recovered = hist.recovered /\ h.verified = hist.verified
    BY <1>0 DEF Histories
  <2> QED BY <1>2, <2>1 DEF EnterSend
<1>3. ServiceNext /\ ~EnterSend => hist' = hist
  BY DEF ServiceNext, BeginEnter, EnterAsk, EnterPending, EnterSent, EnterLoad, EnterPram,
         LoaderSent, EnterConfirm, BeginExit, ExitAsk, ExitSend, ExitSent, ExitConfirm,
         WhenIdle, WaitIdle
<1>4. Send \/ ProgramSend \/ MetaSend => Same
  BY CommandTold DEF Send, ProgramSend, MetaSend
<1>5. EraseNext /\ ~Send => hist' = hist
  BY DEF EraseNext, BeginErase, Scan, OldWait, OldRead, Mark, Wait, Read, SaveBatch, EndErase,
         Markers, WaitIdle
<1>6. QualifyNext /\ ~ProgramSend => hist' = hist
  BY DEF QualifyNext, BeginQualify, FlightWait, ProgramMark, ProgramWait, ProgramRead,
         EndQualify, WaitIdle
<1>7. RebuildNext /\ ~MetaSend => hist' = hist
  BY BeginRebuildIs, MetadataIs
     DEF RebuildNext, MetaWait, MetaSave, MetaVerify, WaitIdle, WhenIdle
<1>8. VerifyErasure => /\ hist'.programFailed = hist.programFailed /\ hist'.cut = hist.cut
                       /\ hist'.recovered = hist.recovered
  BY <1>0, VerifyErasureIs DEF Histories
<1>9. ReadNext /\ ~VerifyErasure => hist' = hist
  BY DEF ReadNext, Inventory, CaptureOldBbt, BeginEnumerate, EnumerateBatch, ReEnumeration,
         Postcheck, WhenIdle
<1> HIDE DEF Same
<1>10. Same \/ VerifyErasure
  BY <1>1, <1>2, <1>3, <1>4, <1>5, <1>6, <1>7, <1>9 DEF Same
<1> QED BY <1>8, <1>10 DEF Same

\* What the controller, the environment and the core leave of a state.
LEMMA AroundIs ==
  ASSUME Types, Placed, Environment \/ CoreNext
  PROVE  /\ cfg' = cfg /\ st'.disp = st.disp
         /\ proc'.pc \in Loaded => proc' = proc
         /\ hist'.verified = hist.verified /\ plan'.idx \in {plan.idx, plan.idx + 1}
         /\ ctl'.op \in {ctl.op, "none"}
         /\ \A b \in Blocks : \/ ctl'.content[b] = ctl.content[b]
                              \/ /\ ctl.op \in {"erase-block", "program-page"}
                                 /\ ctl'.content[b] \in {"erased", "pattern", "part"}
<1> DEFINE Written == \A b \in Blocks :
                        \/ ctl'.content[b] = ctl.content[b]
                        \/ /\ ctl.op \in {"erase-block", "program-page"}
                           /\ ctl'.content[b] \in {"erased", "pattern", "part"}
<1>0. /\ proc \in Processes /\ plan \in [idx : Nat, last : Answers] /\ ctl \in Controllers
      /\ st \in RunStates /\ hist \in Histories
  BY DEF Types
<1>1. CASE Finish
  <2>1. cfg' = cfg /\ plan' = plan /\ st' = st /\ proc' = proc
    BY <1>1 DEF Finish
  <2>2. hist'.verified = hist.verified
    BY <1>0, <1>1, FinishIs DEF Histories
  <2>3. ctl'.op = "none" /\ Written
    <3> DEFINE done == [ctl EXCEPT !.op = "none"]
    <3>1. done.content = ctl.content /\ done.op = "none" /\ done \in Controllers
      BY <1>0 DEF Controllers
    <3>2. \/ /\ ctl.op \in {"erase-block", "program-page"}
             /\ \E c \in {"erased", "pattern", "part", ctl.content[ctl.blk]} :
                  ctl' = [done EXCEPT !.content[ctl.blk] = c]
          \/ ctl' = [done EXCEPT !.committed = ctl.prepared]
          \/ ctl' = done
          \/ ctl' = [done EXCEPT !.failed = TRUE]
      BY <1>1, FinishIs
    <3> HIDE DEF done
    <3>4. ASSUME NEW c \in {"erased", "pattern", "part", ctl.content[ctl.blk]},
                 ctl.op \in {"erase-block", "program-page"},
                 ctl' = [done EXCEPT !.content[ctl.blk] = c]
          PROVE  ctl'.op = "none" /\ Written
      BY <1>0, <3>1, <3>4 DEF Controllers
    <3> QED BY <3>1, <3>2, <3>4 DEF Controllers
  <2> QED BY <2>1, <2>2, <2>3
<1>2. CASE TransportFails
  <2>1. /\ cfg' = cfg /\ plan' = plan /\ st' = st /\ ctl' = ctl /\ hist' = hist
        /\ Answer("interrupted") \/ Answer("error")
    BY <1>2 DEF TransportFails
  <2> QED BY <1>0, <2>1, AnswerIs DEF Loaded
<1>3. CASE Kill
  <2>1. cfg' = cfg /\ st' = st /\ ctl' = ctl /\ hist' = hist /\ Stop("none")
    BY <1>3 DEF Kill
  <2> QED BY <1>0, <2>1, StopIs DEF Loaded
<1>4. CASE PowerCut
  <2>1. cfg' = cfg /\ st' = st /\ Stop("none") /\ hist' = [hist EXCEPT !.cut = TRUE]
    BY <1>4 DEF PowerCut
  <2>2. PICK c \in {ctl.content[ctl.blk], "part"} :
          /\ c = "part" => ctl.op = "erase-block"
          /\ ctl' = Unpowered([ctl EXCEPT !.content[ctl.blk] = c])
    BY <1>4 DEF PowerCut
  <2>3. Written /\ ctl'.op = "none"
    <3> DEFINE d == [ctl EXCEPT !.content[ctl.blk] = c]
    <3>1. c \in Contents
      BY <1>0, <2>2 DEF Controllers, Contents
    <3>2. d \in Controllers
      BY <1>0, <3>1, ContentTyped DEF Controllers
    <3>3. \A b \in Blocks : \/ d.content[b] = ctl.content[b]
                            \/ d.content[b] = "part" /\ ctl.op = "erase-block"
      BY <1>0, <2>2 DEF Controllers
    <3>4. ctl' = Unpowered(d)
      BY <2>2
    <3> HIDE DEF d
    <3> QED BY <3>2, <3>3, <3>4, UnpoweredIs
  <2>4. hist'.verified = hist.verified
    BY <1>0, <2>1 DEF Histories
  <2> QED BY <1>0, <2>1, <2>3, <2>4, StopIs DEF Loaded
<1>5. CASE PowerCycle
  <2>1. /\ cfg' = cfg /\ plan' = plan /\ st' = st /\ hist' = hist /\ Answer("ok")
        /\ ctl' = Unpowered(ctl)
    BY <1>5 DEF PowerCycle
  <2> QED BY <1>0, <2>1, UnpoweredIs, AnswerIs DEF Loaded
<1>6. CASE Recorded \/ Resume
  <2>1. cfg' = cfg /\ st' = st /\ ctl' = ctl /\ hist' = hist
    BY <1>6 DEF Recorded, Resume
  <2>2. \/ Goto("start") /\ plan'.idx \in {plan.idx, plan.idx + 1}
        \/ Stop(proc.res)
    BY <1>6 DEF Recorded, Resume
  <2>3. proc'.pc \in {"start", "idle"} /\ plan'.idx \in {plan.idx, plan.idx + 1}
    BY <1>0, <2>2, GotoIs, StopIs
  <2> QED BY <2>1, <2>3 DEF Loaded
<1>7. CASE Recover
  <2>1. /\ cfg' = cfg /\ plan' = plan /\ proc' = proc /\ ctl' = Unpowered(ctl)
        /\ st' = [st EXCEPT !.mode = "normal", !.phase = "other", !.flight = NoFlight]
        /\ hist' = [hist EXCEPT !.recovered = TRUE]
    BY <1>7 DEF Recover
  <2>2. st'.disp = st.disp /\ hist'.verified = hist.verified
    BY <1>0, <2>1 DEF RunStates, Histories
  <2> QED BY <1>0, <2>1, <2>2, UnpoweredIs
<1>8. CASE Done
  BY <1>8 DEF Done, vars
<1> HIDE DEF Written
<1> QED BY <1>1, <1>2, <1>3, <1>4, <1>5, <1>6, <1>7, <1>8 DEF Environment, CoreNext, Written

\* All other steps leave the contents of the blocks alone.
LEMMA WorkLeaves ==
  ASSUME Types, Given, Placed, ProtectInv,
         ServiceNext \/ EraseNext \/ QualifyNext \/ RebuildNext \/ ReadNext
  PROVE  /\ cfg' = cfg /\ plan' = plan /\ proc.pc # "answer"
         /\ ctl'.content = ctl.content
         /\ ctl'.op \in {"erase-block", "program-page"} =>
              EraseNext \/ QualifyNext \/ ctl'.op = ctl.op
<1>1. ReadNext => cfg' = cfg /\ plan' = plan /\ proc.pc # "answer" /\ ctl' = ctl
  BY DEF ReadNext, Inventory, CaptureOldBbt, BeginEnumerate, EnumerateBatch, VerifyErasure,
         ReEnumeration, Postcheck, On, Ready, WhenIdle
<1> QED BY <1>1, ServiceLeaves, EraseLeaves, QualifyLeaves, RebuildLeaves

LEMMA TruthStep ==
  ASSUME EngineInv, TruthInv, [Next]_vars
  PROVE  TruthInv'
<1>0. Types /\ Given /\ Placed /\ ProtectInv
  BY DEF EngineInv
<1>1. ASSUME NEW t, NEW new, new \subseteq {"qualified"}, Derived(t, new)
      PROVE  Truthful(t)
  <2> SUFFICES ASSUME NEW b \in Blocks
               PROVE  /\ t.disp[b] = "factory-bad" => b \in cfg.marked
                      /\ t.disp[b] = "system-preserved" => b \in Preserved
    BY DEF Truthful
  <2> QED BY <1>1 DEF Derived, TruthInv, Truthful
<1>2. ASSUME cfg' = cfg, \A b \in Blocks : ctl'.content[b] = "marker" => ctl.content[b] = "marker",
             Truthful(st'), proc'.pc \in Loaded => Truthful(proc'.st)
      PROVE  TruthInv'
  BY <1>2 DEF TruthInv, Truthful, InTable, OldTable
<1>3. CASE UNCHANGED vars
  BY <1>3 DEF vars, TruthInv, Truthful, InTable, OldTable
<1>4. CASE Environment \/ CoreNext
  <2>1. Truthful(st') /\ (proc'.pc \in Loaded => Truthful(proc'.st))
    BY <1>0, <1>4, AroundIs DEF TruthInv, Truthful
  <2>2. \A b \in Blocks : ctl'.content[b] = "marker" => ctl.content[b] = "marker"
    BY <1>0, <1>4, AroundIs
  <2> QED BY <1>0, <1>2, <1>4, <2>1, <2>2, AroundIs
<1>5. CASE ServiceNext \/ EraseNext \/ QualifyNext \/ RebuildNext \/ ReadNext
  <2>1. cfg' = cfg /\ ctl'.content = ctl.content
    BY <1>0, <1>5, WorkLeaves
  <2>2. \E new \in SUBSET {"qualified"} : BothDerived(new)
    BY <1>0, <1>5, ServiceDerived, EraseDerived, QualifyDerived, RebuildDerived, ReadDerived
  <2>3. Truthful(st') /\ (proc'.pc \in Loaded => Truthful(proc'.st))
    BY <1>1, <2>2 DEF BothDerived
  <2> QED BY <1>2, <2>1, <2>3
<1> QED BY <1>3, <1>4, <1>5 DEF Next

LEMMA SweptStep ==
  ASSUME EngineInv, TruthInv, SweptInv, [Next]_vars
  PROVE  SweptInv'
<1>0. Types /\ Given /\ Placed /\ ProtectInv /\ Types' /\ Len(Actions) \in Nat
  BY TypesStep, PlanActions DEF EngineInv, Actions
<1>1. CASE UNCHANGED vars
  BY <1>1 DEF vars, SweptInv, Protected
<1>2. CASE Environment \/ CoreNext
  <2>1. /\ cfg' = cfg /\ hist'.verified = hist.verified /\ plan'.idx >= plan.idx
        /\ ctl'.op \in {ctl.op, "none"}
        /\ ctl.op \notin {"erase-block", "program-page"} =>
             \A b \in Blocks : ctl'.content[b] = ctl.content[b]
    BY <1>0, <1>2, AroundIs DEF Types
  <2> QED BY <1>0, <2>1 DEF SweptInv, Protected, Types
<1>3. CASE /\ ServiceNext \/ EraseNext \/ QualifyNext \/ RebuildNext \/ ReadNext
           /\ hist'.verified = hist.verified
  <2>1. /\ cfg' = cfg /\ plan' = plan /\ ctl'.content = ctl.content
        /\ ctl'.op \in {"erase-block", "program-page"} =>
             EraseNext \/ QualifyNext \/ ctl'.op = ctl.op
    BY <1>0, <1>3, WorkLeaves
  <2>2. EraseNext \/ QualifyNext => cfg.level # "C4" \/ plan.idx < 9
    <3>1. EraseNext \/ QualifyNext => plan.idx \in 1 .. Len(Actions) /\ Action \in BlockActions
      BY <1>0, BlockActionIndex, Sizes DEF Placed, RebuildIndex, Actions, C3Actions, C4Actions
    <3> QED BY <1>0, <3>1, QualifyOrder
  <2>3. hist.verified => ~(EraseNext \/ QualifyNext)
    BY <1>0, <2>2 DEF SweptInv, Types
  <2> QED BY <1>3, <2>1, <2>3 DEF SweptInv, Protected
<1>4. CASE VerifyErasure
  <2>1. cfg' = cfg /\ plan' = plan /\ ctl' = ctl /\ proc.pc = "start"
    BY <1>4 DEF VerifyErasure, On, Ready
  <2>2. cfg.level = "C4" /\ plan.idx = 9
    <3>1. plan.idx \in 1 .. Len(Actions) /\ Action = "verify-physical-erasure"
      BY <1>0, <1>4 DEF VerifyErasure, On, Ready, Finished, Placed
    <3> QED BY <1>0, <3>1, QualifyOrder
  <2>3. CASE st.mode # "in-service"
    <3>1. hist' = hist
      BY <1>4, <2>3 DEF VerifyErasure
    <3> QED BY <2>1, <3>1 DEF SweptInv, Protected
  <2>4. CASE st.mode = "in-service"
    <3> DEFINE s == [Classified(st) EXCEPT !.phase = "other"]
    <3>1. PICK readable \in BOOLEAN :
            /\ readable => ~Busy
            /\ hist' = [hist EXCEPT !.verified = SweptClean(s) /\ readable]
      BY <1>4, <2>4 DEF VerifyErasure
    <3>2. hist'.verified = (SweptClean(s) /\ readable)
      <4> HIDE DEF s
      <4> QED BY <1>0, <3>1 DEF Types, Histories
    <3>3. Among(s, {"factory-bad", "system-preserved"}) \subseteq Protected
      <4>1. s.disp = Classified(st).disp
        BY <1>0, ClassifiedTyped DEF Types, RunStates
      <4>2. Derived(s, {})
        BY <1>0, <4>1, ClassifiedDerived DEF Derived
      <4> HIDE DEF s
      <4> QED BY <2>1, <4>2 DEF Derived, TruthInv, Truthful, Among, Protected, Loaded
    <3> HIDE DEF s
    <3>4. hist'.verified => ~Busy /\ \A b \in Blocks \ Protected : ctl.content[b] = "erased"
      BY <3>1, <3>2, <3>3 DEF SweptClean
    <3> QED BY <2>1, <2>2, <3>4 DEF SweptInv, Busy, Protected
  <2> QED BY <2>3, <2>4
<1>5. CASE ReadNext /\ ~VerifyErasure
  BY <1>0, <1>3, <1>5, HistKept
<1>6. CASE ServiceNext \/ EraseNext \/ QualifyNext \/ RebuildNext
  <2>1. ~VerifyErasure
    <3>1. CASE VerifyErasure
      <4>1. /\ plan.idx \in 1 .. Len(Actions) /\ plan.idx \in Nat
            /\ Action = "verify-physical-erasure"
        BY <1>0, <3>1 DEF VerifyErasure, On, Ready, Finished, Placed
      <4>2. plan.idx > 3 /\ plan.idx < RebuildIndex /\ RebuildIndex \in {7, 10}
        BY <1>0, <4>1, Order
      <4>3. ~ServiceNext /\ ~RebuildNext
        BY <1>0, <4>1, <4>2, ServiceIndex, RebuildLeaves
      <4>4. EraseNext \/ QualifyNext => Action \in BlockActions
        BY <1>0, BlockActionIndex
      <4> QED BY <1>6, <4>1, <4>3, <4>4 DEF BlockActions, EraseActions
    <3> QED BY <3>1
  <2> QED BY <1>0, <1>3, <1>6, <2>1, HistKept
<1> QED BY <1>1, <1>2, <1>4, <1>5, <1>6 DEF Next


-----------------------------------------------------------------------------
(* A block whose program failed does not pass.                              *)

LEMMA IdleStep ==
  ASSUME EngineInv, IdleInv, [Next]_vars
  PROVE  IdleInv'
<1>0. Types /\ Given /\ Placed /\ ProtectInv /\ ctl \in Controllers
  BY DEF EngineInv, Types
<1>1. ASSUME ctl' = ctl \/ ctl'.failed = FALSE \/ ctl'.op = "none"
      PROVE  IdleInv'
  BY <1>1 DEF IdleInv
<1>2. CASE UNCHANGED vars \/ ReadNext
  BY <1>1, <1>2 DEF vars, ReadNext, Inventory, CaptureOldBbt, BeginEnumerate, EnumerateBatch,
     VerifyErasure, ReEnumeration, Postcheck, WhenIdle
<1>3. CASE ServiceNext
  <2>1. CASE EnterSend \/ ExitSend
    BY <1>0, <1>1, <2>1 DEF EnterSend, ExitSend, Controllers
  <2>2. CASE EnterPram
    <3>1. ctl'.failed = ctl.failed /\ ctl'.op = ctl.op
      BY <1>0, <2>2 DEF EnterPram, Controllers
    <3> QED BY <3>1 DEF IdleInv
  <2>3. CASE ~(EnterSend \/ ExitSend \/ EnterPram)
    <3>1. ctl' = ctl
      BY <1>3, <2>3 DEF ServiceNext, BeginEnter, EnterAsk, EnterPending, EnterSent, EnterLoad,
         LoaderSent, EnterConfirm, BeginExit, ExitAsk, ExitSent, ExitConfirm, WhenIdle, WaitIdle
    <3> QED BY <1>1, <3>1
  <2> QED BY <2>1, <2>2, <2>3
<1>4. CASE Send \/ ProgramSend \/ MetaSend
  BY <1>0, <1>1, <1>4, CommandIs DEF Send, ProgramSend, MetaSend
<1>5. CASE EraseNext /\ ~Send
  BY <1>1, <1>5 DEF EraseNext, BeginErase, Scan, OldWait, OldRead, Mark, Wait, Read, SaveBatch,
     EndErase, Markers, WaitIdle
<1>6. CASE QualifyNext /\ ~ProgramSend
  BY <1>1, <1>6 DEF QualifyNext, BeginQualify, FlightWait, ProgramMark, ProgramWait,
     ProgramRead, EndQualify, WaitIdle
<1>7. CASE RebuildNext /\ ~MetaSend
  <2>1. ctl' = ctl
    BY <1>0, <1>7, BeginRebuildIs, MetadataIs
       DEF RebuildNext, MetaWait, MetaSave, MetaVerify, WaitIdle, WhenIdle
  <2> QED BY <1>1, <2>1
<1>8. CASE Finish
  <2>1. ctl'.op = "none"
    <3> DEFINE done == [ctl EXCEPT !.op = "none"]
    <3>1. done \in Controllers /\ done.op = "none"
      BY <1>0 DEF Controllers
    <3>2. \/ \E c : ctl' = [done EXCEPT !.content[ctl.blk] = c]
          \/ ctl' = [done EXCEPT !.committed = ctl.prepared]
          \/ ctl' = done
          \/ ctl' = [done EXCEPT !.failed = TRUE]
      BY <1>0, <1>8, FinishIs
    <3> HIDE DEF done
    <3> QED BY <3>1, <3>2 DEF Controllers
  <2> QED BY <1>1, <2>1
<1>9. CASE PowerCut \/ PowerCycle \/ Recover
  <2>1. ctl'.op = "none"
    <3>1. \E c : ctl' = Unpowered(c) /\ DOMAIN c = DOMAIN ctl
      BY <1>9 DEF PowerCut, PowerCycle, Recover
    <3> QED BY <1>0, <3>1 DEF Unpowered, Controllers
  <2> QED BY <1>1, <2>1
<1>10. CASE TransportFails \/ Kill \/ Recorded \/ Resume \/ Done
  BY <1>1, <1>10 DEF TransportFails, Kill, Recorded, Resume, Done, vars
<1> QED BY <1>2, <1>3, <1>4, <1>5, <1>6, <1>7, <1>8, <1>9, <1>10
        DEF Next, RebuildNext, Environment, CoreNext

\* Away from qualify-blocks no verdict is given.
LEMMA WorkElsewhere ==
  ASSUME InFlightInv, FailedInv, plan.idx # QualifyIndex, cfg' = cfg, plan' = plan,
         hist'.programFailed = hist.programFailed, hist'.cut = hist.cut, BothDerived({}),
         ctl'.op = "program-page" => ctl.op = "program-page",
         hist.programFailed \subseteq Blocks
  PROVE  InFlightInv' /\ QualifyInv' /\ FailedInv'
<1>1. QualifyIndex' = QualifyIndex /\ plan'.idx # QualifyIndex' /\ plan'.idx = plan.idx
  BY DEF QualifyIndex
<1>2. InFlightInv' /\ QualifyInv'
  BY <1>1 DEF InFlightInv, QualifyInv, Qualifying
<1>3. ASSUME NEW b \in Blocks, FailedIn(b)
      PROVE  FailedIn(b)'
  <2>1. st'.disp[b] # "qualified" /\ (proc'.pc \in Loaded => proc'.st.disp[b] # "qualified")
    BY <1>3 DEF FailedIn, BothDerived, Derived
  <2> QED BY <1>1, <1>3, <2>1 DEF FailedIn, Qualifying
<1>4. FailedInv'
  BY <1>3 DEF FailedInv
<1> QED BY <1>2, <1>4

LEMMA EraseOps ==
  ASSUME Types, EraseNext
  PROVE  ctl'.op \in {ctl.op, "erase-block"}
<1>1. CASE Send
  BY <1>1, CommandIs DEF Send
<1>2. CASE ~Send
  BY <1>2 DEF EraseNext, BeginErase, Scan, OldWait, OldRead, Mark, Wait, Read, SaveBatch,
     EndErase, Markers, WaitIdle
<1> QED BY <1>1, <1>2

LEMMA EraseWork ==
  ASSUME EngineInv, WorkInv, EraseNext
  PROVE  InFlightInv' /\ QualifyInv' /\ FailedInv'
<1>0. /\ Types /\ Given /\ Placed /\ ProtectInv /\ EntryInv
      /\ proc \in Processes /\ hist.programFailed \subseteq Blocks
      /\ InFlightInv /\ QualifyInv /\ FailedInv
  BY DEF EngineInv, Types, Histories, WorkInv
<1>1. /\ cfg' = cfg /\ plan' = plan /\ plan.idx \in 1 .. Len(Actions)
      /\ hist'.programFailed = hist.programFailed /\ hist'.cut = hist.cut
      /\ ctl'.op \in {ctl.op, "erase-block"}
  <2>1. plan.idx \in 1 .. Len(Actions)
    <3>1. proc.pc = "start" => ~Finished
      BY DEF EraseNext, BeginErase, Ready, Scan, OldWait, OldRead, Mark, Send, Wait, Read,
         SaveBatch, EndErase, Markers
    <3>2. plan.idx \in 1 .. Len(Actions) + 1 /\ Len(Actions) \in Nat
      BY <1>0, PlanActions DEF Placed, Actions
    <3> QED BY <1>0, <3>1, <3>2 DEF Placed, Finished
  <2>2. ~VerifyErasure
    <3>1. VerifyErasure => Action = "verify-physical-erasure"
      BY DEF VerifyErasure, On
    <3> QED BY <1>0, <3>1, BlockActionIndex DEF BlockActions, EraseActions
  <2> QED BY <1>0, <2>1, <2>2, EraseLeaves, HistKept, EraseOps
<1>2. CASE plan.idx # QualifyIndex
  BY <1>0, <1>1, <1>2, EraseDerived, WorkElsewhere
<1>3. CASE plan.idx = QualifyIndex
  <2>1. Action = "qualify-blocks" /\ ~BeginErase
    BY <1>0, <1>1, <1>3, QualifyOrder DEF BeginErase, EraseActions
  <2>2. /\ proc.pc \in ErasePCs \cup {"batch"}
        /\ st' = st \/ st'.disp = proc.st.disp
        /\ proc'.pc \in ErasePCs \cup {"batch", "program-mark", "markers", "answer"}
        /\ proc'.pc = "answer" \/ SameBlocks \/ BlockDone({"quarantined", "system-rebuild"})
        /\ proc'.pc = "send" => proc'.st = st'
        /\ ctl'.failed = ctl.failed \/ proc.pc = "send"
    BY <1>0, <2>1, EraseStep DEF Placed
  <2>3. Qualifying /\ QualifyIndex' = QualifyIndex /\ plan'.idx = QualifyIndex
    BY <1>1, <1>3, <2>2 DEF Qualifying, QualifyIndex
  <2>4. st.mode = "in-service" /\ (\A b \in proc.todo : proc.st.disp[b] \in {"data", "erased"})
        /\ (proc.pc = "send" => proc.st = st)
    BY <1>0, <2>3 DEF QualifyInv
  <2>5. InFlightInv'
    BY <1>0, <1>1, <2>2 DEF InFlightInv, ErasePCs
  <2>6. st'.mode = "in-service"
    <3>1. proc.st.mode = st.mode
      BY <1>0, <2>2 DEF EntryInv, Loaded, PCs, ErasePCs
    <3> QED BY <1>0, <2>4, <3>1, EraseKin DEF KinToOne, Kin
  <2>7. QualifyInv'
    <3>1. proc'.pc # "answer" => \A b \in proc'.todo : proc'.st.disp[b] \in {"data", "erased"}
      BY <1>0, <2>2, <2>4 DEF SameBlocks, BlockDone, Processes
    <3>2. proc'.pc \in {"send", "program-send", "program-wait", "flight-wait"} => proc'.pc = "send"
      BY <2>2 DEF ErasePCs
    <3>3. proc'.pc = "answer" => ~Qualifying'
      BY DEF Qualifying, ErasePCs, ProgramPCs
    <3> QED BY <2>2, <2>6, <3>1, <3>2, <3>3 DEF QualifyInv
  <2>8. ASSUME NEW b \in Blocks, FailedIn(b)
        PROVE  FailedIn(b)'
    <3>1. Settled(proc.st, b)
      BY <2>2, <2>3, <2>8 DEF FailedIn, ErasePCs
    <3>2. Settled(st', b) \/ Awaited(b)'
      BY <1>3, <2>2, <2>4, <2>8, <3>1 DEF FailedIn, Settled, Awaited
    <3>3. proc'.pc # "answer" => Settled(proc'.st, b)
      BY <2>2, <3>1 DEF SameBlocks, BlockDone, Settled
    <3>4. proc'.pc \in Loaded \/ Qualifying' => proc'.pc # "answer"
      BY DEF Loaded, Qualifying, ErasePCs, ProgramPCs
    <3>5. st'.disp[b] # "qualified"
      BY <2>2, <2>8, <3>1 DEF FailedIn, Settled
    <3> QED BY <1>1, <1>3, <2>3, <2>8, <3>2, <3>3, <3>4, <3>5 DEF FailedIn, Settled
  <2>9. FailedInv'
    BY <1>0, <1>1, <2>8 DEF FailedInv
  <2> QED BY <2>5, <2>7, <2>9
<1> QED BY <1>2, <1>3

LEMMA QualifyWork ==
  ASSUME EngineInv, WorkInv, QualifyNext
  PROVE  InFlightInv' /\ QualifyInv' /\ FailedInv'
<1>0. /\ Types /\ Given /\ Placed /\ ProtectInv /\ EntryInv
      /\ proc \in Processes /\ proc.st \in RunStates /\ st \in RunStates
      /\ hist.programFailed \subseteq Blocks
      /\ IdleInv /\ InFlightInv /\ QualifyInv /\ FailedInv
  BY DEF EngineInv, Types, Histories, WorkInv, Processes
<1>1. plan.idx \in 1 .. Len(Actions) /\ Action = "qualify-blocks"
  <2>1. proc.pc = "start" => ~Finished /\ Action = "qualify-blocks"
    BY DEF QualifyNext, BeginQualify, On, Ready, FlightWait, ProgramMark, ProgramSend,
       ProgramWait, ProgramRead, EndQualify
  <2>2. proc.pc = "start" \/ proc.pc \in ProgramPCs \/ Action = "qualify-blocks"
    BY DEF QualifyNext, BeginQualify, On, Ready, FlightWait, ProgramMark, ProgramSend,
       ProgramWait, ProgramRead, EndQualify, ProgramPCs
  <2>3. plan.idx \in 1 .. Len(Actions) + 1 /\ Len(Actions) \in Nat
    BY <1>0, PlanActions DEF Placed, Actions
  <2> QED BY <1>0, <2>1, <2>2, <2>3 DEF Placed, Finished
<1>2. /\ cfg' = cfg /\ plan' = plan /\ plan.idx = QualifyIndex /\ QualifyIndex' = QualifyIndex
      /\ hist'.programFailed = hist.programFailed /\ hist'.cut = hist.cut
  <2>1. ~VerifyErasure
    BY <1>1 DEF VerifyErasure, On
  <2>2. cfg' = cfg /\ plan' = plan
    BY <1>0, QualifyLeaves
  <2> QED BY <1>0, <1>1, <2>1, <2>2, HistKept, QualifyOrder DEF QualifyIndex
<1>3. /\ proc.pc \in ProgramPCs \cup {"scan"} => Qualifying
      /\ proc'.pc \in {"idle", "start", "answer"} => ~Qualifying'
      /\ proc'.pc \in {"answer"} => proc'.pc \notin Loaded
      /\ proc.pc \in ProgramPCs \cup {"scan"} => proc.pc \in Loaded
  BY <1>2 DEF Qualifying, ProgramPCs, ErasePCs, Loaded, PCs
\* What is left to show: of the blocks, and of the one in flight.
<1>4. ASSUME \A b \in Blocks : FailedIn(b) => FailedIn(b)'
      PROVE  FailedInv'
  BY <1>0, <1>2, <1>4 DEF FailedInv
<1>5. ASSUME NEW r \in {"refused", "interrupted"}, Answer(r), st' = st, ctl' = ctl
      PROVE  InFlightInv' /\ QualifyInv' /\ FailedInv'
  <2>1. proc'.pc = "answer" /\ proc'.res = r
    BY <1>0, <1>5, AnswerIs
  <2>2. InFlightInv' /\ QualifyInv'
    BY <1>0, <1>2, <1>3, <1>5, <2>1 DEF InFlightInv, QualifyInv
  <2>3. \A b \in Blocks : FailedIn(b) => FailedIn(b)'
    BY <1>2, <1>3, <1>5, <2>1 DEF FailedIn, Settled, Awaited
  <2> QED BY <1>4, <2>2, <2>3
<1>6. Targets(st') = Among(st', {"data", "erased"})
  BY <1>1 DEF Targets
<1>7. CASE BeginQualify
  <2>1. proc.pc = "start" /\ st' = st /\ ctl' = ctl
    BY <1>7 DEF BeginQualify, On, Ready
  <2>2. CASE Answer("refused")
    BY <1>5, <2>1, <2>2
  <2>3. CASE Begin("scan", st, Targets(st)) /\ st.flight.op = "none" /\ st.mode = "in-service"
    <3>1. proc'.pc = "scan" /\ proc'.st = st /\ proc'.todo = Among(st, {"data", "erased"})
      BY <1>0, <1>6, <2>1, <2>3, BeginIs
    <3>2. \A b : st.flight # Program(b)
      BY <2>3 DEF Program
    <3>3. InFlightInv' /\ QualifyInv'
      BY <1>0, <2>1, <2>3, <3>1, <3>2 DEF InFlightInv, QualifyInv, Among
    <3>4. ASSUME NEW b \in Blocks, FailedIn(b)
          PROVE  FailedIn(b)'
      <4>1. Settled(st, b)
        BY <1>2, <2>3, <3>2, <3>4 DEF FailedIn, Awaited
      <4> QED BY <1>2, <2>1, <3>1, <3>4, <4>1 DEF FailedIn, Settled
    <3> QED BY <1>4, <3>3, <3>4
  <2>4. CASE Begin("flight-wait", st, {}) /\ st.mode = "in-service"
    <3>1. proc'.pc = "flight-wait" /\ proc'.st = st /\ proc'.todo = {}
      BY <1>0, <2>4, BeginIs
    <3>2. InFlightInv' /\ QualifyInv'
      BY <1>0, <1>2, <2>1, <2>4, <3>1 DEF InFlightInv, QualifyInv
    <3>3. \A b \in Blocks : FailedIn(b) => FailedIn(b)'
      BY <1>2, <2>1, <2>4, <3>1 DEF FailedIn, Settled, Awaited
    <3> QED BY <1>4, <3>2, <3>3
  <2> QED BY <1>0, <1>7, <2>2, <2>3, <2>4, BeginQualifyIs
<1>8. CASE FlightWait
  <2>1. proc.pc = "flight-wait" /\ Qualifying
    BY <1>3, <1>8 DEF FlightWait, ProgramPCs
  <2>2. proc.st = st /\ st.mode = "in-service"
    BY <1>0, <2>1 DEF QualifyInv
  <2> DEFINE q == WithDisposition(st, st.flight.blk, "quarantined")
  <2>3. /\ ctl' = ctl
        /\ \/ ~ctl.failed /\ ctl.op = "none" /\ st' = Landed(st) /\ Begin("scan", st', Targets(st'))
           \/ ctl.failed /\ st' = Landed(q) /\ Begin("scan", st', Targets(st'))
           \/ Answer("interrupted") /\ st' = st
    BY <1>8, <2>2 DEF FlightWait, WaitIdle, Busy
  <2>4. CASE Answer("interrupted") /\ st' = st
    BY <1>5, <2>3, <2>4
  <2>5. CASE ~(Answer("interrupted") /\ st' = st)
    <3>1. /\ ctl.op = "none" /\ (st' = Landed(st) \/ st' = Landed(q))
          /\ Begin("scan", st', Targets(st'))
      BY <1>0, <2>3, <2>5 DEF IdleInv
    <3>2. proc'.pc = "scan" /\ proc'.st = st' /\ proc'.todo = Among(st', {"data", "erased"})
      BY <1>0, <1>6, <3>1, BeginIs
    <3>3. st.flight.blk \in Blocks
      BY <1>0 DEF RunStates, Flights
    <3>4. /\ q \in RunStates /\ q.mode = st.mode /\ q.disp[st.flight.blk] = "quarantined"
          /\ \A b \in Blocks \ {st.flight.blk} : q.disp[b] = st.disp[b]
      <4>1. q \in RunStates
        BY <1>0, <3>3, WithDispositionTyped DEF Dispositions
      <4>2. q.mode = st.mode
        BY <1>0 DEF WithDisposition, RunStates
      <4> QED BY <1>0, <3>3, <4>1, <4>2, WithDispositionIs
    <3> HIDE DEF q
    <3>5. st'.mode = "in-service"
      <4>1. Landed(st).mode = st.mode /\ Landed(q).mode = q.mode
        BY <1>0, <3>4, LandedIs DEF OnlyBlock
      <4> QED BY <2>2, <3>1, <3>4, <4>1
    <3>6. InFlightInv' /\ QualifyInv'
      BY <2>3, <3>1, <3>2, <3>5 DEF InFlightInv, QualifyInv, Among
    <3>7. ASSUME NEW b \in Blocks, FailedIn(b)
          PROVE  FailedIn(b)'
      <4>1. Settled(st, b) \/ Awaited(b)
        BY <1>2, <2>2, <3>7 DEF FailedIn
      <4>2. CASE st' = Landed(st) /\ ~ctl.failed
        <5>1. st'.disp = st.disp
          BY <1>0, <4>2, LandedIs
        <5> QED BY <1>2, <3>2, <3>7, <4>1, <4>2, <5>1 DEF FailedIn, Settled, Awaited
      <4>3. CASE st' = Landed(q)
        <5>1. st'.disp = q.disp
          BY <3>4, <4>3, LandedIs
        <5>2. Awaited(b) => b = st.flight.blk
          BY DEF Awaited, Program
        <5>3. Settled(st', b)
          BY <3>4, <4>1, <5>1, <5>2 DEF Settled
        <5> QED BY <1>2, <3>2, <3>7, <5>3 DEF FailedIn, Settled
      <4> QED BY <2>3, <2>5, <4>2, <4>3
    <3> QED BY <1>4, <3>6, <3>7
  <2> QED BY <2>4, <2>5
<1>9. proc.pc \in ProgramPCs \ {"flight-wait"} => Block \in Blocks /\ Block \in proc.todo
  BY <1>0, LeastBlock DEF Placed, Processes
<1>10. CASE ProgramMark
  <2> DEFINE s == [proc.st EXCEPT !.flight = [op |-> "program-page", blk |-> Block]]
  <2>1. proc.pc = "program-mark" /\ Save("program-send", s) /\ ctl' = ctl
    BY <1>10 DEF ProgramMark
  <2>2. s.disp = proc.st.disp /\ s.mode = proc.st.mode /\ s.flight = Program(Block)
    BY <1>0 DEF RunStates, Program
  <2>3. Qualifying /\ proc.st.mode = st.mode
    BY <1>0, <1>3, <2>1 DEF ProgramPCs, EntryInv, Loaded, PCs
  <2> HIDE DEF s
  <2>4. st' = s /\ proc'.pc = "program-send" /\ proc'.st = s /\ proc'.todo = proc.todo
    BY <1>0, <2>1, SaveIs
  <2>5. Block' = Block
    BY <2>4 DEF Block
  <2>6. InFlightInv' /\ QualifyInv'
    BY <1>0, <2>1, <2>2, <2>3, <2>4, <2>5 DEF InFlightInv, QualifyInv, Program
  <2>7. \A b \in Blocks : FailedIn(b) => FailedIn(b)'
    BY <1>2, <2>1, <2>2, <2>3, <2>4 DEF FailedIn, Settled
  <2> QED BY <1>4, <2>6, <2>7
<1>11. CASE ProgramSend
  <2>1. proc.pc = "program-send" /\ Qualifying /\ Command("program-page", Block, "program-wait")
    BY <1>3, <1>11 DEF ProgramSend, ProgramPCs
  <2>2. /\ proc.st = st /\ st.mode = "in-service" /\ st.flight = Program(Block)
        /\ Block \in Blocks /\ st.disp[Block] \in {"data", "erased"}
    BY <1>0, <1>9, <2>1 DEF QualifyInv, ProgramPCs
  <2>3. /\ st' = st
        /\ \/ ctl' = ctl /\ Answer("interrupted")
           \/ /\ ctl'.blk = Block
              /\ Goto("program-wait") \/ Answer("interrupted")
    BY <1>0, <2>1, CommandIs
  <2>4. CASE ctl' = ctl /\ Answer("interrupted")
    BY <1>5, <2>3, <2>4
  <2>5. CASE ctl'.blk = Block /\ (Goto("program-wait") \/ Answer("interrupted"))
    <3>1. /\ proc'.st = proc.st /\ proc'.todo = proc.todo
          /\ \/ proc'.pc = "program-wait"
             \/ proc'.pc = "answer" /\ proc'.res = "interrupted"
      BY <1>0, <2>5, GotoIs, AnswerIs
    <3>2. Block' = Block
      BY <3>1 DEF Block
    <3>3. InFlightInv' /\ QualifyInv'
      BY <1>0, <1>2, <1>3, <2>1, <2>2, <2>3, <2>5, <3>1, <3>2
         DEF InFlightInv, QualifyInv, Program
    <3>4. \A b \in Blocks : FailedIn(b) => FailedIn(b)'
      BY <1>2, <2>1, <2>2, <2>3, <3>1 DEF FailedIn, Settled
    <3> QED BY <1>4, <3>3, <3>4
  <2> QED BY <2>3, <2>4, <2>5
<1>12. CASE ProgramWait
  <2>1. proc.pc = "program-wait" /\ Qualifying
    BY <1>3, <1>12 DEF ProgramWait, ProgramPCs
  <2>2. /\ proc.st = st /\ st.mode = "in-service" /\ st.flight = Program(Block)
        /\ Block \in Blocks /\ Block \in proc.todo
    BY <1>0, <1>9, <2>1 DEF QualifyInv, ProgramPCs
  <2>3. /\ st' = st /\ ctl' = ctl
        /\ \/ ctl.op = "none" /\ ~ctl.failed /\ Goto("program-read")
           \/ ctl.failed /\ Qualified("quarantined")
           \/ Answer("interrupted")
    BY <1>12 DEF ProgramWait, WaitIdle, Busy
  <2>4. CASE Answer("interrupted")
    BY <1>5, <2>3, <2>4
  <2>5. CASE ctl.op = "none" /\ ~ctl.failed /\ Goto("program-read")
    <3>1. proc'.pc = "program-read" /\ proc'.st = proc.st /\ proc'.todo = proc.todo
      BY <1>0, <2>5, GotoIs
    <3>2. InFlightInv' /\ QualifyInv'
      BY <1>0, <2>1, <2>2, <2>3, <2>5, <3>1 DEF InFlightInv, QualifyInv
    <3>3. \A b \in Blocks : FailedIn(b) => FailedIn(b)'
      BY <1>2, <2>1, <2>2, <2>3, <2>5, <3>1 DEF FailedIn, Settled, Awaited
    <3> QED BY <1>4, <3>2, <3>3
  <2>6. CASE ctl.failed /\ Qualified("quarantined")
    <3>1. proc'.pc \in {"scan", "batch"} /\ BlockDone({"quarantined"})
      BY <1>0, <2>2, <2>6, QualifiedIs, QualifiedDisp DEF Advanced
    <3>2. ctl.op = "none"
      BY <1>0, <2>6 DEF IdleInv
    <3>3. InFlightInv' /\ QualifyInv'
      BY <1>0, <2>1, <2>2, <2>3, <3>1, <3>2 DEF InFlightInv, QualifyInv, BlockDone, Processes
    <3>4. ASSUME NEW b \in Blocks, FailedIn(b)
          PROVE  FailedIn(b)'
      <4>1. Awaited(b) => b = Block
        BY <2>2 DEF Awaited, Program
      <4>2. Settled(st, b) \/ Awaited(b)
        BY <1>2, <2>2, <3>4 DEF FailedIn
      <4>3. Settled(proc'.st, b)
        BY <2>2, <3>1, <4>1, <4>2 DEF Settled, BlockDone
      <4>4. Settled(st', b) \/ Awaited(b)'
        BY <2>3, <4>2 DEF Awaited
      <4> QED BY <1>2, <2>3, <3>1, <3>4, <4>3, <4>4 DEF FailedIn, Settled
    <3> QED BY <1>4, <3>3, <3>4
  <2> QED BY <2>3, <2>4, <2>5, <2>6
<1>13. CASE ProgramRead
  <2>1. /\ proc.pc = "program-read" /\ Qualifying /\ st' = st /\ ctl' = ctl
        /\ \/ Answer("interrupted")
           \/ \E d \in {"qualified", "quarantined"} : Qualified(d)
    BY <1>3, <1>13 DEF ProgramRead, ProgramPCs
  <2>2. CASE Answer("interrupted")
    BY <1>5, <2>1, <2>2
  <2>3. CASE \E d \in {"qualified", "quarantined"} : Qualified(d)
    <3>1. PICK d \in {"qualified", "quarantined"} : Qualified(d)
      BY <2>3
    <3>2. Block \in Blocks /\ Block \in proc.todo
      BY <1>9, <2>1 DEF ProgramPCs
    <3>3. proc'.pc \in {"scan", "batch"} /\ BlockDone({d})
      BY <1>0, <3>1, <3>2, QualifiedIs, QualifiedDisp DEF Advanced
    <3>4. InFlightInv' /\ QualifyInv'
      BY <1>0, <2>1, <3>3 DEF InFlightInv, QualifyInv, BlockDone, Processes
    <3>5. ASSUME NEW b \in Blocks, FailedIn(b)
          PROVE  FailedIn(b)'
      <4>1. Settled(proc.st, b)
        BY <2>1, <3>5 DEF FailedIn
      <4>2. b # Block
        BY <1>0, <2>1, <3>2, <4>1 DEF QualifyInv, Settled
      <4>3. Settled(proc'.st, b)
        BY <3>3, <4>1, <4>2 DEF BlockDone, Settled
      <4> QED BY <1>2, <2>1, <3>3, <3>5, <4>3 DEF FailedIn, Settled, Awaited
    <3> QED BY <1>4, <3>4, <3>5
  <2> QED BY <2>1, <2>2, <2>3
<1>14. CASE EndQualify
  <2> DEFINE s == [proc.st EXCEPT !.phase = "other"]
  <2>1. proc.pc = "scan" /\ Qualifying /\ SaveAndAnswer(s, "ok") /\ ctl' = ctl
    BY <1>3, <1>14 DEF EndQualify
  <2>2. s.disp = proc.st.disp
    BY <1>0 DEF RunStates
  <2> HIDE DEF s
  <2>3. st' = s /\ proc'.pc = "answer"
    BY <1>0, <2>1, SaveAndAnswerIs
  <2>4. InFlightInv' /\ QualifyInv'
    BY <1>0, <1>3, <2>1, <2>3 DEF InFlightInv, QualifyInv
  <2>5. \A b \in Blocks : FailedIn(b) => FailedIn(b)'
    BY <1>2, <1>3, <2>1, <2>2, <2>3 DEF FailedIn, Settled
  <2> QED BY <1>4, <2>4, <2>5
<1> QED BY <1>7, <1>8, <1>10, <1>11, <1>12, <1>13, <1>14 DEF QualifyNext

LEMMA EnvironmentWork ==
  ASSUME EngineInv, WorkInv, Environment
  PROVE  InFlightInv' /\ QualifyInv' /\ FailedInv'
<1>0. /\ Types /\ Given /\ Placed
      /\ proc \in Processes /\ plan \in [idx : Nat, last : Answers]
      /\ ctl \in Controllers /\ hist \in Histories /\ hist.programFailed \subseteq Blocks
      /\ IdleInv /\ InFlightInv /\ QualifyInv /\ FailedInv
  BY DEF EngineInv, Types, Histories, WorkInv
<1>1. cfg' = cfg => QualifyIndex' = QualifyIndex
  BY DEF QualifyIndex
<1>2. proc'.pc \in {"idle", "answer"} => proc'.pc \notin Loaded /\ ~Qualifying'
  BY DEF Qualifying, ProgramPCs, ErasePCs, Loaded
<1>3. CASE Finish
  <2>1. cfg' = cfg /\ plan' = plan /\ st' = st /\ proc' = proc /\ ctl.op # "none"
    BY <1>3 DEF Finish, Busy
  <2>2. Block' = Block /\ (Qualifying' <=> Qualifying)
    BY <1>1, <2>1 DEF Block, Qualifying
  <2>3. QualifyInv'
    BY <1>0, <2>1, <2>2 DEF QualifyInv
  <2>4. /\ ctl'.op = "none"
        /\ \/ hist' = hist
           \/ /\ hist'.cut = hist.cut
              /\ hist'.programFailed =
                   IF ctl.op = "program-page" THEN hist.programFailed \cup {ctl.blk}
                                              ELSE hist.programFailed
              /\ ctl'.failed = TRUE
    <3> DEFINE done == [ctl EXCEPT !.op = "none"]
    <3>1. done \in Controllers /\ done.op = "none"
      BY <1>0 DEF Controllers
    <3>2. \/ hist' = hist /\ \E c : ctl' = [done EXCEPT !.content[ctl.blk] = c]
          \/ hist' = hist /\ ctl' = [done EXCEPT !.committed = ctl.prepared]
          \/ hist' = hist /\ ctl' = done
          \/ /\ ctl' = [done EXCEPT !.failed = TRUE]
             /\ hist' = [hist EXCEPT !.programFailed =
                   IF ctl.op = "program-page" THEN @ \cup {ctl.blk} ELSE @]
      BY <1>0, <1>3, FinishIs
    <3> HIDE DEF done
    <3>3. CASE hist' = hist
      BY <3>1, <3>2, <3>3 DEF Controllers
    <3>4. CASE /\ ctl' = [done EXCEPT !.failed = TRUE]
               /\ hist' = [hist EXCEPT !.programFailed =
                     IF ctl.op = "program-page" THEN @ \cup {ctl.blk} ELSE @]
      <4>1. ctl'.op = "none" /\ ctl'.failed = TRUE
        BY <3>1, <3>4 DEF Controllers
      <4>2. /\ hist'.cut = hist.cut
            /\ hist'.programFailed =
                 IF ctl.op = "program-page" THEN hist.programFailed \cup {ctl.blk}
                                            ELSE hist.programFailed
        BY <1>0, <3>4 DEF Histories
      <4> QED BY <4>1, <4>2
    <3> QED BY <3>2, <3>3, <3>4
  <2>5. InFlightInv'
    BY <2>4 DEF InFlightInv
  <2>6. ASSUME NEW b \in Blocks, FailedIn(b)
        PROVE  FailedIn(b)'
    <3>1. ~Awaited(b)
      BY <1>0, <2>1 DEF Awaited, IdleInv
    <3> QED BY <1>1, <2>1, <2>2, <2>6, <3>1 DEF FailedIn, Settled
  <2>7. ASSUME NEW b \in Blocks, b = ctl.blk, ctl.op = "program-page", ctl'.failed = TRUE
        PROVE  FailedIn(b)'
    <3>1. /\ plan.idx = QualifyIndex /\ st.mode = "in-service"
          /\ st.flight = Program(b) /\ st.disp[b] \in {"data", "erased"}
          /\ proc.pc \in {"program-wait", "flight-wait", "idle", "start", "answer"}
      BY <1>0, <2>7 DEF InFlightInv
    <3>2. Qualifying => proc.pc \in {"program-wait", "flight-wait"}
      BY <3>1 DEF Qualifying, ErasePCs, ProgramPCs
    <3>3. proc.pc \in Loaded => Qualifying
      BY <3>1 DEF Qualifying, ProgramPCs, Loaded
    <3>4. proc.pc \in Loaded => proc.st = st
      BY <1>0, <3>2, <3>3 DEF QualifyInv
    <3>5. Awaited(b)'
      BY <2>1, <2>7, <3>1 DEF Awaited
    <3>6. QualifyIndex \in Nat /\ plan'.idx = plan.idx /\ QualifyIndex' = QualifyIndex
      BY <1>1, <2>1 DEF QualifyIndex
    <3>7. plan'.idx >= QualifyIndex'
      BY <3>1, <3>6
    <3>8. st'.disp[b] # "qualified" /\ (proc'.pc \in Loaded => proc'.st.disp[b] # "qualified")
      BY <2>1, <3>1, <3>4
    <3> QED BY <2>1, <2>2, <3>2, <3>5, <3>7, <3>8 DEF FailedIn
  <2>8. CASE ctl.op = "program-page" /\ ctl'.failed = TRUE
    <3>1. ctl.blk \in Blocks
      BY <1>0 DEF Controllers
    <3>2. hist'.cut = hist.cut /\ hist'.programFailed \subseteq hist.programFailed \cup {ctl.blk}
      BY <2>4
    <3>3. \A b \in Blocks : b = ctl.blk => FailedIn(b)'
      BY <2>7, <2>8
    <3> QED BY <1>0, <2>3, <2>5, <2>6, <3>1, <3>2, <3>3 DEF FailedInv
  <2>9. CASE ~(ctl.op = "program-page" /\ ctl'.failed = TRUE)
    <3>1. hist'.cut = hist.cut /\ hist'.programFailed = hist.programFailed
      BY <2>4, <2>9
    <3> QED BY <1>0, <2>3, <2>5, <2>6, <3>1 DEF FailedInv
  <2> QED BY <2>8, <2>9
<1>4. CASE PowerCut
  <2>1. hist'.cut = TRUE /\ Stop("none")
    BY <1>0, <1>4 DEF PowerCut, Histories
  <2>2. ctl'.op = "none"
    <3>1. \E c : ctl' = Unpowered(c) /\ DOMAIN c = DOMAIN ctl
      BY <1>4 DEF PowerCut
    <3> QED BY <1>0, <3>1 DEF Unpowered, Controllers
  <2> QED BY <1>0, <1>2, <2>1, <2>2, StopIs DEF InFlightInv, QualifyInv, FailedInv
<1>5. CASE TransportFails \/ Kill
  <2>1. /\ cfg' = cfg /\ st' = st /\ ctl' = ctl /\ hist' = hist
        /\ \/ plan' = plan /\ (Answer("interrupted") \/ Answer("error"))
           \/ Stop("none")
    BY <1>5 DEF TransportFails, Kill
  <2>2. /\ plan'.idx = plan.idx
        /\ \/ proc'.pc = "idle"
           \/ proc'.pc = "answer" /\ proc'.res \in {"interrupted", "error"}
    BY <1>0, <2>1, AnswerIs, StopIs
  <2>3. InFlightInv' /\ QualifyInv'
    BY <1>0, <1>1, <1>2, <2>1, <2>2 DEF InFlightInv, QualifyInv
  <2>4. ASSUME NEW b \in Blocks, FailedIn(b)
        PROVE  FailedIn(b)'
    BY <1>1, <1>2, <2>1, <2>2, <2>4 DEF FailedIn, Settled, Awaited
  <2> QED BY <1>0, <2>1, <2>3, <2>4 DEF FailedInv
<1> QED BY <1>3, <1>4, <1>5 DEF Environment

LEMMA CoreWork ==
  ASSUME EngineInv, WorkInv, CoreNext
  PROVE  InFlightInv' /\ QualifyInv' /\ FailedInv'
<1>0. /\ Types /\ Given /\ Placed
      /\ proc \in Processes /\ plan \in [idx : Nat, last : Answers] /\ plan.idx \in Nat
      /\ st \in RunStates /\ ctl \in Controllers
      /\ hist \in Histories /\ hist.programFailed \subseteq Blocks
      /\ InFlightInv /\ QualifyInv /\ FailedInv
  BY DEF EngineInv, Types, Histories, WorkInv
<1>1. cfg' = cfg => QualifyIndex' = QualifyIndex
  BY DEF QualifyIndex
<1>2. proc'.pc \in {"idle", "start", "answer"} => proc'.pc \notin Loaded /\ ~Qualifying'
  BY DEF Qualifying, ProgramPCs, ErasePCs, Loaded
<1>3. ASSUME cfg' = cfg, plan' = plan, st' = st, ctl' = ctl, hist' = hist,
             proc'.pc \in {"idle", "start"}
      PROVE  InFlightInv' /\ QualifyInv' /\ FailedInv'
  <2>1. InFlightInv' /\ QualifyInv'
    BY <1>0, <1>1, <1>2, <1>3 DEF InFlightInv, QualifyInv
  <2>2. \A b \in Blocks : FailedIn(b) => FailedIn(b)'
    BY <1>1, <1>2, <1>3 DEF FailedIn, Settled, Awaited
  <2> QED BY <1>0, <1>3, <2>1, <2>2 DEF FailedInv
<1>4. CASE PowerCycle
  <2>1. /\ cfg' = cfg /\ plan' = plan /\ st' = st /\ hist' = hist /\ Answer("ok")
        /\ ctl' = Unpowered(ctl)
    BY <1>4 DEF PowerCycle
  <2>2. plan.idx # QualifyIndex
    <3>1. plan.idx \in 1 .. Len(Actions) /\ Action = "power-cycle"
      BY <1>0, <1>4 DEF PowerCycle, On, Ready, Finished, Placed
    <3> QED BY <1>0, <3>1, QualifyOrder
  <2>3. BothDerived({})
    <3>1. proc'.pc \notin Loaded
      BY <1>0, <1>2, <2>1, AnswerIs
    <3> QED BY <2>1, <3>1, DerivedIs DEF BothDerived
  <2> QED BY <1>0, <2>1, <2>2, <2>3, WorkElsewhere, UnpoweredIs
<1>5. CASE Recorded
  <2>1. /\ cfg' = cfg /\ st' = st /\ ctl' = ctl /\ hist' = hist /\ proc.pc = "answer"
        /\ \/ /\ proc.res \in {"ok", "partial"}
              /\ plan'.idx = plan.idx + 1 /\ Goto("start")
           \/ plan' = plan /\ Goto("start")
           \/ Stop(proc.res)
    BY <1>0, <1>5 DEF Recorded
  <2>2. /\ proc'.pc \in {"start", "idle"}
        /\ \/ plan'.idx = plan.idx
           \/ plan'.idx = plan.idx + 1 /\ proc.res \in {"ok", "partial"}
    BY <1>0, <2>1, GotoIs, StopIs
  <2>3. InFlightInv' /\ QualifyInv'
    BY <1>0, <1>1, <1>2, <2>1, <2>2 DEF InFlightInv, QualifyInv
  <2>4. ASSUME NEW b \in Blocks, FailedIn(b)
        PROVE  FailedIn(b)'
    <3>1. plan.idx >= QualifyIndex /\ QualifyIndex \in Nat
      BY <2>4 DEF FailedIn, QualifyIndex
    <3>2. plan'.idx >= QualifyIndex
      BY <1>0, <2>2, <3>1
    <3>3. plan'.idx = QualifyIndex => plan'.idx = plan.idx
      BY <1>0, <2>2, <3>1
    <3> QED BY <1>1, <1>2, <2>1, <2>2, <2>4, <3>2, <3>3 DEF FailedIn, Settled, Awaited
  <2> QED BY <1>0, <2>1, <2>3, <2>4 DEF FailedInv
<1>6. CASE Resume
  <2>1. cfg' = cfg /\ plan' = plan /\ st' = st /\ ctl' = ctl /\ hist' = hist /\ Goto("start")
    BY <1>6 DEF Resume
  <2> QED BY <1>0, <1>3, <2>1, GotoIs
<1>7. CASE Recover
  <2>1. /\ cfg' = cfg /\ plan' = plan /\ proc' = proc /\ proc.pc = "idle"
        /\ ctl' = Unpowered(ctl)
        /\ st' = [st EXCEPT !.mode = "normal", !.phase = "other", !.flight = NoFlight]
        /\ hist' = [hist EXCEPT !.recovered = TRUE]
    BY <1>7 DEF Recover
  <2>2. /\ st'.disp = st.disp /\ st'.mode = "normal" /\ ctl'.op = "none"
        /\ hist'.cut = hist.cut /\ hist'.programFailed = hist.programFailed
    BY <1>0, <2>1, UnpoweredIs DEF RunStates, Histories
  <2>3. InFlightInv' /\ QualifyInv'
    BY <1>2, <2>1, <2>2 DEF InFlightInv, QualifyInv
  <2>4. ASSUME NEW b \in Blocks, FailedIn(b)
        PROVE  FailedIn(b)'
    BY <1>1, <1>2, <2>1, <2>2, <2>4 DEF FailedIn
  <2> QED BY <1>0, <2>2, <2>3, <2>4 DEF FailedInv
<1>8. CASE UNCHANGED vars
  BY <1>0, <1>8 DEF vars, InFlightInv, QualifyInv, Qualifying, QualifyIndex, Block, FailedInv,
     FailedIn, Settled, Awaited
<1> QED BY <1>4, <1>5, <1>6, <1>7, <1>8 DEF CoreNext, Done

LEMMA WorkStep ==
  ASSUME EngineInv, DispInv, [Next]_vars
  PROVE  WorkInv'
<1>0. /\ Types /\ Given /\ Placed /\ ProtectInv /\ TruthInv /\ WorkInv
      /\ IdleInv /\ InFlightInv /\ FailedInv /\ hist.programFailed \subseteq Blocks
      /\ plan.idx \in Nat
  BY DEF EngineInv, DispInv, WorkInv, Types, Histories
<1>1. IdleInv'
  BY <1>0, IdleStep
<1>2. CASE UNCHANGED vars
  BY <1>0, <1>1, <1>2 DEF WorkInv, vars, InFlightInv, QualifyInv, Qualifying, QualifyIndex, Block,
     FailedInv, FailedIn, Settled, Awaited
<1>3. CASE ServiceNext \/ RebuildNext \/ ReadNext
  <2>1. /\ cfg' = cfg /\ plan' = plan
        /\ hist'.programFailed = hist.programFailed /\ hist'.cut = hist.cut
    BY <1>0, <1>3, WorkLeaves, HistKept
  <2>2. BothDerived({})
    BY <1>0, <1>3, ServiceDerived, RebuildDerived, ReadDerived
  <2>3. ctl'.op = "program-page" => ctl.op = "program-page"
    <3>1. ReadNext => ctl' = ctl
      BY DEF ReadNext, Inventory, CaptureOldBbt, BeginEnumerate, EnumerateBatch,
         VerifyErasure, ReEnumeration, Postcheck, WhenIdle
    <3> QED BY <1>0, <1>3, <3>1, ServiceLeaves, RebuildLeaves
  <2>4. plan.idx # QualifyIndex
    <3>1. CASE ServiceNext \/ RebuildNext
      <4>1. plan.idx = 3 \/ plan.idx >= RebuildIndex
        BY <1>0, <3>1, ServiceIndex, RebuildLeaves DEF RebuildIndex
      <4> QED BY <1>0, <4>1 DEF QualifyIndex, RebuildIndex
    <3>2. CASE ReadNext
      <4>1. /\ proc.pc = "start" => ~Finished
            /\ Action # "qualify-blocks"
        BY <3>2 DEF ReadNext, Inventory, CaptureOldBbt, BeginEnumerate, EnumerateBatch,
           VerifyErasure, ReEnumeration, Postcheck, On, Ready
      <4>2. plan.idx \in 1 .. Len(Actions)
        <5>1. plan.idx \in 1 .. Len(Actions) + 1 /\ Len(Actions) \in Nat
          BY <1>0, PlanActions DEF Placed, Actions
        <5> QED BY <1>0, <4>1, <5>1 DEF Placed, Finished
      <4> QED BY <1>0, <4>1, <4>2, QualifyOrder
    <3> QED BY <1>3, <3>1, <3>2
  <2> QED BY <1>0, <1>1, <2>1, <2>2, <2>3, <2>4, WorkElsewhere DEF WorkInv
<1>4. CASE EraseNext \/ QualifyNext \/ Environment \/ CoreNext
  BY <1>0, <1>1, <1>4, EraseWork, QualifyWork, EnvironmentWork, CoreWork DEF WorkInv
<1> QED BY <1>2, <1>3, <1>4 DEF Next

-----------------------------------------------------------------------------
(* The bounds of a behaviour, and the property.                             *)

Bounded ==
  used \in [faults : 0 .. MaxFaults, kills : 0 .. MaxKills, cuts : 0 .. MaxPowerCuts,
            resumes : 0 .. MaxResumes, recovers : 0 .. MaxRecovers]

LEMMA BoundedStep ==
  ASSUME EngineInv, Bounded, [Next]_vars
  PROVE  Bounded'
<1>0. Types /\ Given /\ Placed /\ proc \in Processes
      /\ {MaxFaults, MaxKills, MaxPowerCuts, MaxResumes, MaxRecovers} \subseteq Nat
  BY BoundAssumption DEF EngineInv, Types
<1>1. ASSUME NoFault \/ Fault
      PROVE  Bounded'
  <2>1. CASE NoFault
    BY <2>1 DEF NoFault, Bounded
  <2>2. CASE Fault
    <3>1. used.faults + 1 \in 0 .. MaxFaults
      BY <1>0, <2>2 DEF Fault, Bounded
    <3> QED BY <2>2, <3>1 DEF Fault, Bounded
  <2> QED BY <1>1, <2>1, <2>2
<1>2. CASE UNCHANGED vars \/ Done
  BY <1>2 DEF Done, vars, Bounded
<1>3. CASE ServiceNext
  BY <1>1, <1>3 DEF ServiceNext, BeginEnter, EnterAsk, EnterPending, EnterSend, EnterSent,
     EnterLoad, EnterPram, LoaderSent, EnterConfirm, BeginExit, ExitAsk, ExitSend, ExitSent,
     ExitConfirm, WhenIdle, WaitIdle
<1>4. CASE EraseNext
  BY <1>1, <1>4 DEF EraseNext, BeginErase, Scan, OldWait, OldRead, Mark, Send, Wait, Read,
     SaveBatch, EndErase, Markers, Command, WaitIdle
<1>5. CASE QualifyNext
  BY <1>1, <1>5 DEF QualifyNext, BeginQualify, FlightWait, ProgramMark, ProgramSend,
     ProgramWait, ProgramRead, EndQualify, Command, WaitIdle
<1>6. CASE ReadNext
  BY <1>1, <1>6 DEF ReadNext, Inventory, CaptureOldBbt, BeginEnumerate, EnumerateBatch,
     VerifyErasure, ReEnumeration, Postcheck, WhenIdle
<1>7. CASE BeginRebuild
  <2> DEFINE enough == Enough(UserOf(st))
             i == PhaseIndex(st)
  <2>1. i \in 0 .. 6
    BY <1>0, PhaseIndexIs DEF Types, RunStates
  <2>2. /\ st.mode # "in-service" => NoFault
        /\ st.mode = "in-service" /\ ~enough => NoFault
        /\ st.mode = "in-service" /\ enough /\ i > 0 => NoFault
        /\ st.mode = "in-service" /\ enough /\ i = 0 => NoFault
    BY <1>7, <2>1 DEF BeginRebuild, WhenIdle
  <2> HIDE DEF enough, i
  <2> QED BY <1>1, <2>1, <2>2
<1>8. CASE Metadata
  <2>1. proc.tries < 4 \/ proc.tries = 4 \/ proc.tries > 4
    BY <1>0, <1>8 DEF Metadata, MetaPCs, Placed
  <2> QED BY <1>1, <1>8, <2>1 DEF Metadata, WaitIdle
<1>9. CASE MetaSend \/ MetaWait \/ MetaSave \/ MetaVerify
  BY <1>1, <1>9 DEF MetaSend, MetaWait, MetaSave, MetaVerify, Command, WaitIdle, WhenIdle
<1>10. CASE Finish \/ TransportFails \/ PowerCycle \/ Recorded
  BY <1>1, <1>10 DEF Finish, TransportFails, PowerCycle, Recorded
<1>11. CASE Kill
  <2>1. used.kills + 1 \in 0 .. MaxKills
    BY <1>0, <1>11 DEF Kill, Bounded
  <2> QED BY <1>11, <2>1 DEF Kill, Bounded
<1>12. CASE PowerCut
  <2>1. used.cuts + 1 \in 0 .. MaxPowerCuts
    BY <1>0, <1>12 DEF PowerCut, Bounded
  <2> QED BY <1>12, <2>1 DEF PowerCut, Bounded
<1>13. CASE Resume
  <2>1. used.resumes + 1 \in 0 .. MaxResumes
    BY <1>0, <1>13 DEF Resume, Bounded
  <2> QED BY <1>13, <2>1 DEF Resume, Bounded
<1>14. CASE Recover
  <2>1. used.recovers + 1 \in 0 .. MaxRecovers
    BY <1>0, <1>14 DEF Recover, Bounded
  <2> QED BY <1>14, <2>1 DEF Recover, Bounded
<1> QED BY <1>2, <1>3, <1>4, <1>5, <1>6, <1>7, <1>8, <1>9, <1>10, <1>11, <1>12, <1>13, <1>14
        DEF Next, RebuildNext, Environment, CoreNext

LEMMA DispInit ==
  ASSUME Init
  PROVE  DispInv /\ Bounded
<1>0. /\ proc.pc = "start" /\ st = NewState /\ ctl.op = "none" /\ ctl.failed = FALSE
      /\ ctl.content = [b \in Blocks |-> IF b \in cfg.marked THEN "marker"
                                         ELSE IF b \in SystemBlocks THEN "system" ELSE "data"]
      /\ hist.programFailed = {} /\ hist.verified = FALSE
  BY DEF Init
<1>1. TruthInv
  <2>1. InTable("factory-bad") \subseteq cfg.marked
    BY DEF Init
  <2>2. Truthful(st)
    BY <1>0 DEF Truthful, NewState
  <2>3. \A b \in Blocks : ctl.content[b] = "marker" => b \in cfg.marked
    BY <1>0
  <2> QED BY <1>0, <2>1, <2>2, <2>3 DEF TruthInv, Loaded
<1>2. SweptInv /\ WorkInv
  BY <1>0 DEF SweptInv, WorkInv, IdleInv, InFlightInv, QualifyInv, Qualifying, FailedInv,
     ErasePCs, ProgramPCs
<1>3. Bounded
  BY BoundAssumption DEF Init, Bounded
<1> QED BY <1>1, <1>2, <1>3 DEF DispInv

LEMMA DispStep ==
  ASSUME EngineInv, DispInv, [Next]_vars
  PROVE  DispInv'
<1>1. TruthInv' /\ SweptInv'
  BY TruthStep, SweptStep DEF DispInv
<1>2. WorkInv'
  BY WorkStep
<1> QED BY <1>1, <1>2 DEF DispInv

LEMMA DispHolds == Spec => [](EngineInv /\ DispInv /\ Bounded)
<1>1. Init => DispInv /\ Bounded
  BY DispInit
<1>2. EngineInv /\ DispInv /\ Bounded /\ [Next]_vars => DispInv' /\ Bounded'
  BY DispStep, BoundedStep
<1> QED BY <1>1, <1>2, EngineHolds, PTL DEF Spec

\* The dispositions of the state file are true of the blocks: a block whose
\* program failed is never qualified, whoever died before the verdict was
\* read (qualify-blocks asks about a program in flight first); and what
\* verify-physical-erasure found erased stays erased to the end of the plan.
THEOREM DispositionsStay == Spec => []DispositionsTrue
<1>1. EngineInv /\ DispInv /\ Bounded => DispositionsTrue
  <2> SUFFICES ASSUME EngineInv, DispInv, Bounded
               PROVE  DispositionsTrue
    OBVIOUS
  <2>1. Types /\ Given /\ Placed
    BY DEF EngineInv
  <2>2. plan \in [idx : 1 .. Len(C4Actions) + 1, last : Answers]
    <3>1. plan.idx \in 1 .. Len(C4Actions) + 1
      <4>1. Len(Actions) \in {Len(C3Actions), Len(C4Actions)} /\ plan.idx \in 1 .. Len(Actions) + 1
        BY <2>1 DEF Placed, Actions
      <4>2. Len(C3Actions) = 11 /\ Len(C4Actions) = 14
        BY PlanActions
      <4>3. CASE Len(Actions) = Len(C3Actions)
        BY <4>1, <4>2, <4>3
      <4>4. CASE Len(Actions) = Len(C4Actions)
        BY <4>1, <4>4
      <4> QED BY <4>1, <4>3, <4>4
    <3> QED BY <2>1, <3>1 DEF Types
  <2>3. TypeOK
    BY <2>1, <2>2 DEF TypeOK, Types, Given, Histories, Bounded
  <2>4. FailedNeverQualified
    <3>1. hist.programFailed \subseteq Blocks
      BY <2>1 DEF Types, Histories
    <3> QED BY <3>1 DEF FailedNeverQualified, DispInv, WorkInv, FailedInv, FailedIn
  <2>5. VerifiedScope
    BY DEF VerifiedScope, DispInv, SweptInv, Protected
  <2> QED BY <2>3, <2>4, <2>5 DEF DispositionsTrue
<1> QED BY <1>1, DispHolds, PTL

-----------------------------------------------------------------------------
(* Which refusals there are.  The mode that the state file holds is true   *)
(* of the controller (ModeTrue), fits the action that comes next (ModeDue) *)
(* and the step at hand (ModeAt), so that no action finds itself shut out; *)
(* an interrupted rebuild finds the sizes and the generation it prepared   *)
(* (Pending).  A power loss or a recover ends all of this.               *)

Straight == ~hist.cut /\ ~hist.recovered
EntryModes == {"normal", "entry-command-pending", "entry-reenumerating",
               "loader-command-pending", "loader-reenumerating", "in-service"}
ExitModes == {"in-service", "exit-command-pending", "exit-reenumerating", "normal"}
ModeTrue ==
  /\ st.mode \in {"normal", "exit-reenumerating"} => ctl.mode = "normal"
  /\ st.mode \in {"loader-reenumerating", "in-service"} => ctl.mode = "service"
  /\ st.mode \in {"entry-reenumerating", "loader-command-pending"} => ctl.mode # "normal"
  /\ st.mode = "entry-reenumerating" /\ cfg.entry.loaderReenum => ctl.mode = "bootrom"
ModeDue ==
  /\ plan.idx < 3 \/ plan.idx > RebuildIndex + 1 => st.mode = "normal"
  /\ plan.idx = 3 => st.mode \in EntryModes
  /\ plan.idx \in 4 .. RebuildIndex \/ Reached = 4 => st.mode = "in-service"
  /\ plan.idx = RebuildIndex + 1 => st.mode \in ExitModes
  /\ Reached = RebuildIndex + 2 => st.mode = "normal"
ModeAt ==
  /\ proc.pc = "enter-sent" =>
       ctl.mode # "normal" /\ (cfg.entry.loaderReenum => ctl.mode = "bootrom")
  /\ proc.pc = "enter-pram" =>
       ctl.mode # "normal" /\ (cfg.entry.loaderReenum => st.mode = "loader-command-pending")
  /\ proc.pc \in {"loader-sent", "enter-confirm"} => ctl.mode = "service"
  /\ proc.pc \in {"exit-ask", "exit-send", "exit-sent"} => st.mode = "exit-command-pending"
  /\ proc.pc \in {"exit-sent", "exit-confirm"} => ctl.mode = "normal"
ModeInv == Straight => ModeTrue /\ ModeDue /\ ModeAt

\* The profile's way into service mode is one of those it may state.
Lawful == /\ cfg.entry.loaderReenum => cfg.entry.loader
          /\ cfg.entry.loader => cfg.entry.enterReenum
AnsweredOk == proc.pc = "answer" /\ proc.res \in {"ok", "partial"}

LEMMA ExitOrder ==
  ASSUME Given, plan.idx \in 1 .. Len(Actions)
  PROVE  /\ Action = "exit-service-mode" <=> plan.idx = RebuildIndex + 1
         /\ Action \in {"power-cycle", "re-enumeration", "postcheck-c3", "postcheck-c4"}
              => plan.idx > RebuildIndex + 1
<1>1. CASE cfg.level = "C3"
  BY <1>1, ActionAt, SMTT(20) DEF RebuildIndex
<1>2. CASE cfg.level = "C4"
  BY <1>2, ActionAt, SMTT(20) DEF RebuildIndex
<1> QED BY <1>1, <1>2 DEF Given

LEMMA AtAction ==
  ASSUME Types, Placed, Ready
  PROVE  plan.idx \in 1 .. Len(Actions)
  BY PlanActions DEF Placed, Ready, Finished, Types, Actions

\* A power loss and a recover are remembered.
LEMMA StraightBefore ==
  ASSUME Types, Placed, [Next]_vars, Straight'
  PROVE  Straight /\ ~PowerCut /\ ~Recover
<1>0. hist \in Histories /\ hist.cut \in BOOLEAN /\ hist.recovered \in BOOLEAN
  BY DEF Types, Histories
<1>1. (PowerCut => hist'.cut) /\ (Recover => hist'.recovered)
  BY <1>0 DEF PowerCut, Recover, Histories
<1>2. CASE ServiceNext \/ EraseNext \/ QualifyNext \/ RebuildNext \/ ReadNext
  BY <1>1, <1>2, HistKept DEF Straight
<1>3. CASE Finish
  <2>1. hist'.cut = hist.cut /\ hist'.recovered = hist.recovered
    BY <1>0, <1>3, FinishIs DEF Histories
  <2> QED BY <1>1, <2>1 DEF Straight
<1>4. CASE TransportFails \/ Kill \/ PowerCycle \/ Recorded \/ Resume \/ Done \/ UNCHANGED vars
  <2>1. hist' = hist
    BY <1>4 DEF TransportFails, Kill, PowerCycle, Recorded, Resume, Done, vars
  <2> QED BY <1>1, <2>1 DEF Straight
<1>5. CASE PowerCut \/ Recover
  BY <1>1, <1>5 DEF Straight
<1> QED BY <1>2, <1>3, <1>4, <1>5 DEF Next, Environment, CoreNext


\* A step that leaves the modes and completes neither way.
LEMMA ModeFrame ==
  ASSUME Types, ModeTrue /\ ModeDue, cfg' = cfg, plan'.idx = plan.idx, st'.mode = st.mode,
         ctl'.mode = ctl.mode, proc'.pc \notin EnterPCs \cup ExitPCs,
         AnsweredOk' => plan.idx \notin {3, RebuildIndex + 1}
  PROVE  ModeInv'
<1>1. RebuildIndex' = RebuildIndex /\ RebuildIndex \in {7, 10} /\ plan.idx \in Nat
  BY DEF RebuildIndex, Types
<1>2. ModeTrue'
  BY DEF ModeTrue
<1>3. ModeDue'
  <2>1. \/ Reached' = plan.idx
        \/ Reached' = plan.idx + 1 /\ plan.idx \notin {3, RebuildIndex + 1}
    BY DEF Reached, AnsweredOk
  <2> QED BY <1>1, <2>1 DEF ModeDue
<1>4. ModeAt'
  BY DEF ModeAt, EnterPCs, ExitPCs
<1> QED BY <1>2, <1>3, <1>4 DEF ModeInv

LEMMA WorkMode ==
  ASSUME Types, Given, Placed, EntryInv, ModeTrue /\ ModeDue, EraseNext \/ QualifyNext
  PROVE  ModeInv'
<1>1. cfg' = cfg /\ plan' = plan /\ ctl'.mode = ctl.mode
  BY WorkCommands
<1>2. KinToOne(st') /\ proc'.pc \notin EnterPCs \cup ExitPCs
  BY EraseKin, QualifyKin DEF EnterPCs, ExitPCs, ErasePCs, ProgramPCs
<1>3. proc.pc # "start" => proc.st.mode = st.mode
  BY BlockActionIndex DEF EntryInv, Loaded, WorksOn, ErasePCs, ProgramPCs, PCs
<1>4. plan.idx \notin {3, RebuildIndex + 1}
  BY BlockActionIndex DEF RebuildIndex, Types
<1> QED BY <1>1, <1>2, <1>3, <1>4, ModeFrame DEF KinToOne, Kin

LEMMA RebuildMode ==
  ASSUME Types, Given, Placed, EntryInv, ModeTrue /\ ModeDue, RebuildNext
  PROVE  ModeInv'
<1>1. cfg' = cfg /\ plan' = plan /\ ctl'.mode = ctl.mode /\ plan.idx = RebuildIndex
  BY RebuildLeaves
<1>2. st'.mode = st.mode /\ proc'.pc \in MetaPCs \cup {"answer"}
  BY RebuildKeepsMode
<1> QED BY <1>1, <1>2, ModeFrame DEF MetaPCs, EnterPCs, ExitPCs, RebuildIndex

\* The actions that only read, and the two that no command belongs to.
LEMMA ReadIndex ==
  ASSUME Types, Placed, ReadNext
  PROVE  /\ plan.idx \in 1 .. Len(Actions)
         /\ Action \notin {"enter-service-mode", "exit-service-mode", "rebuild-bbt-ftl",
                          "qualify-blocks"}
<1>1. CASE Ready
  BY <1>1, AtAction DEF ReadNext, Inventory, CaptureOldBbt, BeginEnumerate, EnumerateBatch,
         VerifyErasure, ReEnumeration, Postcheck, On, Ready
<1>2. CASE ~Ready
  BY <1>2 DEF ReadNext, Inventory, CaptureOldBbt, BeginEnumerate, EnumerateBatch,
         VerifyErasure, ReEnumeration, Postcheck, On, Placed
<1> QED BY <1>1, <1>2

LEMMA ReadMode ==
  ASSUME Types, Given, Placed, EntryInv, ModeTrue /\ ModeDue, ReadNext
  PROVE  ModeInv'
<1>1. cfg' = cfg /\ plan' = plan /\ ctl' = ctl
  BY DEF ReadNext, Inventory, CaptureOldBbt, BeginEnumerate, EnumerateBatch, VerifyErasure,
         ReEnumeration, Postcheck, WhenIdle
<1>2. st'.mode = st.mode /\ proc'.pc \in {"batch", "answer"}
  BY ReadKeepsMode
<1>3. plan.idx \notin {3, RebuildIndex + 1}
  BY ReadIndex, Order, ExitOrder
<1> QED BY <1>1, <1>2, <1>3, ModeFrame DEF EnterPCs, ExitPCs

LEMMA AroundMode ==
  ASSUME Types, Given, Placed, ModeTrue /\ ModeDue /\ ModeAt,
         Environment \/ CoreNext, ~PowerCut, ~Recover
  PROVE  ModeInv'
<1>0. /\ proc \in Processes /\ plan \in [idx : Nat, last : Answers] /\ ctl \in Controllers
      /\ st \in RunStates
  BY DEF Types
<1>1. CASE Finish
  <2>1. cfg' = cfg /\ plan' = plan /\ st' = st /\ proc' = proc
    BY <1>1 DEF Finish
  <2>2. ctl'.mode = ctl.mode
    BY <1>0, <1>1, FinishIs DEF Controllers
  <2>3. RebuildIndex' = RebuildIndex /\ Reached' = Reached
    BY <2>1 DEF RebuildIndex, Reached
  <2> QED BY <2>1, <2>2, <2>3 DEF ModeInv, ModeTrue, ModeDue, ModeAt
<1>2. CASE TransportFails \/ Kill \/ Resume
  <2>1. /\ cfg' = cfg /\ st' = st /\ ctl' = ctl
        /\ \/ plan' = plan /\ (Answer("interrupted") \/ Answer("error") \/ Goto("start"))
           \/ Stop("none")
    BY <1>2 DEF TransportFails, Kill, Resume
  <2>2. /\ proc'.pc \in {"idle", "start", "answer"} /\ plan'.idx = plan.idx
        /\ proc'.pc = "answer" => proc'.res \notin {"ok", "partial"}
    BY <1>0, <2>1, AnswerIs, GotoIs, StopIs
  <2> QED BY <2>1, <2>2, ModeFrame DEF AnsweredOk, EnterPCs, ExitPCs
<1>3. CASE PowerCycle
  <2>1. /\ cfg' = cfg /\ plan' = plan /\ st' = st /\ Answer("ok") /\ ctl' = Unpowered(ctl)
        /\ Ready /\ Action = "power-cycle"
    BY <1>3 DEF PowerCycle, On
  <2>2. plan.idx > RebuildIndex + 1
    BY <2>1, AtAction, ExitOrder
  <2>3. proc'.pc = "answer" /\ ctl'.mode = "normal"
    BY <1>0, <2>1, AnswerIs, UnpoweredIs
  <2>4. st.mode = "normal" /\ RebuildIndex' = RebuildIndex /\ RebuildIndex \in {7, 10}
    BY <2>1, <2>2 DEF ModeDue, RebuildIndex
  <2>5. Reached' = Reached \/ Reached' = plan.idx + 1
    BY <2>1 DEF Reached, Ready
  <2>6. ModeTrue' /\ ModeAt'
    BY <2>1, <2>3, <2>4 DEF ModeTrue, ModeAt
  <2>7. ModeDue'
    <3>1. plan.idx \in Nat /\ plan.idx > 8 /\ Reached' > 8
      BY <1>0, <2>1, <2>2, <2>4, <2>5 DEF Ready, Reached
    <3> QED BY <2>1, <2>2, <2>4, <3>1 DEF ModeDue
  <2> QED BY <2>6, <2>7 DEF ModeInv
<1>4. CASE Recorded
  <2>1. cfg' = cfg /\ st' = st /\ ctl' = ctl /\ proc.pc = "answer"
    BY <1>4 DEF Recorded
  <2>2. CASE proc.res \notin {"ok", "partial"}
    <3>1. \/ Goto("start") /\ UNCHANGED plan
          \/ Stop(proc.res)
      BY <1>4, <2>2 DEF Recorded
    <3>2. proc'.pc \in {"idle", "start"} /\ plan'.idx = plan.idx
      BY <1>0, <3>1, GotoIs, StopIs
    <3> QED BY <2>1, <3>2, ModeFrame DEF AnsweredOk, EnterPCs, ExitPCs
  <2>3. CASE proc.res \in {"ok", "partial"}
    <3>1. plan'.idx = plan.idx + 1 /\ Goto("start")
      BY <1>4, <2>3 DEF Recorded
    <3>2. proc'.pc = "start" /\ Reached' = plan.idx + 1 /\ Reached = plan.idx + 1
      BY <1>0, <2>1, <2>3, <3>1, GotoIs DEF Reached
    <3>3. RebuildIndex' = RebuildIndex /\ RebuildIndex \in {7, 10} /\ plan.idx \in Nat
      BY <1>0, <2>1 DEF RebuildIndex
    <3>4. ModeTrue' /\ ModeAt'
      BY <2>1, <3>2 DEF ModeTrue, ModeAt
    <3>5. ModeDue'
      BY <2>1, <3>1, <3>2, <3>3 DEF ModeDue, EntryModes, ExitModes
    <3> QED BY <3>4, <3>5 DEF ModeInv
  <2> QED BY <2>2, <2>3
<1>5. CASE Done
  BY <1>5 DEF Done, vars, ModeInv, ModeTrue, ModeDue, ModeAt, Reached, RebuildIndex
<1> QED BY <1>1, <1>2, <1>3, <1>4, <1>5 DEF Environment, CoreNext


\* A step of enter-service-mode, and one of exit-service-mode.
LEMMA EnterFrame ==
  ASSUME Types, plan.idx = 3, cfg' = cfg, plan' = plan, st'.mode \in EntryModes,
         AnsweredOk' => st'.mode = "in-service", ModeTrue', ModeAt'
  PROVE  ModeInv'
<1>1. RebuildIndex' \in {7, 10}
  BY DEF RebuildIndex
<1>2. \/ Reached' = 3
      \/ Reached' = 4 /\ st'.mode = "in-service"
  BY DEF Reached, AnsweredOk
<1>3. ModeDue'
  BY <1>1, <1>2 DEF ModeDue
<1> QED BY <1>3 DEF ModeInv

LEMMA ExitFrame ==
  ASSUME Types, plan.idx = RebuildIndex + 1, cfg' = cfg, plan' = plan, st'.mode \in ExitModes,
         AnsweredOk' => st'.mode = "normal", ModeTrue', ModeAt'
  PROVE  ModeInv'
<1>1. RebuildIndex' = RebuildIndex /\ RebuildIndex \in {7, 10}
  BY DEF RebuildIndex
<1>2. \/ Reached' = RebuildIndex + 1
      \/ Reached' = RebuildIndex + 2 /\ st'.mode = "normal"
  BY <1>1 DEF Reached, AnsweredOk
<1>3. ModeDue'
  BY <1>1, <1>2 DEF ModeDue
<1> QED BY <1>3 DEF ModeInv

LEMMA EnterIndex ==
  ASSUME Types, Given, Placed, On("enter-service-mode") \/ proc.pc \in EnterPCs
  PROVE  plan.idx = 3
<1>1. plan.idx \in 1 .. Len(Actions) /\ Action = "enter-service-mode"
  BY AtAction DEF On, Placed, EnterPCs
<1> QED BY <1>1, Order

LEMMA ExitIndex ==
  ASSUME Types, Given, Placed, On("exit-service-mode") \/ proc.pc \in ExitPCs
  PROVE  plan.idx = RebuildIndex + 1
<1>1. plan.idx \in 1 .. Len(Actions) /\ Action = "exit-service-mode"
  BY AtAction DEF On, Placed, ExitPCs
<1> QED BY <1>1, ExitOrder

LEMMA EnterMode ==
  ASSUME Types, Given, Placed, EntryInv, Lawful, ModeTrue /\ ModeDue /\ ModeAt,
         \/ BeginEnter \/ EnterAsk \/ EnterPending \/ EnterSend
         \/ EnterSent \/ EnterLoad \/ EnterPram \/ LoaderSent \/ EnterConfirm
  PROVE  ModeInv'
<1>0. /\ proc \in Processes /\ st \in RunStates /\ proc.st \in RunStates /\ ctl \in Controllers
      /\ ctl.mode \in {"normal", "bootrom", "service"}
  BY DEF Types, Processes, Controllers
<1>1. cfg' = cfg /\ plan' = plan /\ plan.idx = 3
  BY EnterIndex, ServiceLeaves
     DEF ServiceNext, BeginEnter, EnterAsk, EnterPending, EnterSend, EnterSent, EnterLoad,
         EnterPram, LoaderSent, EnterConfirm, EnterPCs
<1>2. st.mode \in EntryModes
  BY <1>1 DEF ModeDue
<1>3. proc.pc \in EnterPCs \ {"enter-confirm"} => proc.st.mode = st.mode
  BY DEF EntryInv, EnterPCs, Loaded, PCs
<1> DEFINE Kept == st'.mode = st.mode /\ ctl'.mode = ctl.mode
           Fails == proc'.pc = "answer" /\ proc'.res \notin {"ok", "partial"}
<1>4. CASE Kept /\ Fails
  BY <1>1, <1>2, <1>4, EnterFrame DEF ModeTrue, ModeAt, AnsweredOk
<1>5. CASE BeginEnter
  <2>1. /\ Kept
        /\ \/ proc'.pc \in {"enter-ask", "enter-pending", "enter-load"}
           \/ /\ proc'.pc = "enter-confirm"
              /\ st.mode \in {"loader-reenumerating", "in-service"}
    BY <1>0, <1>2, <1>5, BeginIs DEF BeginEnter, EntryModes
  <2> QED BY <1>1, <1>2, <2>1, EnterFrame DEF ModeTrue, ModeAt, AnsweredOk
<1>6. CASE EnterAsk
  <2> DEFINE inService == [st EXCEPT !.mode = "in-service"]
             pending == [st EXCEPT !.mode = "entry-command-pending", !.phase = "other"]
  <2>1. pending.mode = "entry-command-pending"
    BY <1>0 DEF RunStates
  <2>2. /\ ctl' = ctl
        /\ \/ Work("enter-confirm", inService) /\ UNCHANGED st /\ ctl.mode = "service"
           \/ Save("enter-pending", pending)
           \/ UNCHANGED st /\ \E r \in {"interrupted", "error"} : Answer(r)
    BY <1>6 DEF EnterAsk, WhenIdle
  <2> HIDE DEF inService, pending
  <2>3. \/ proc'.pc = "enter-confirm" /\ st' = st /\ ctl.mode = "service"
        \/ proc'.pc = "enter-pending" /\ st' = pending
        \/ st' = st /\ Fails
    BY <1>0, <2>2, WorkIs, SaveIs, AnswerIs
  <2> QED BY <1>1, <1>2, <1>4, <2>1, <2>2, <2>3, EnterFrame
          DEF ModeTrue, ModeAt, AnsweredOk, EntryModes
<1>7. CASE EnterPending
  <2> DEFINE s == [proc.st EXCEPT !.mode = "entry-reenumerating"]
  <2>1. s.mode = "entry-reenumerating"
    BY <1>0 DEF RunStates
  <2>2. /\ ctl' = ctl
        /\ \/ Save("enter-load", s) /\ cfg.entry.loader /\ ctl.mode = "bootrom"
           \/ Save("enter-load", s) /\ ~cfg.entry.loader /\ ctl.mode = "service"
           \/ Goto("enter-send") /\ UNCHANGED st
           \/ UNCHANGED st /\ \E r \in {"interrupted", "error"} : Answer(r)
    BY <1>7 DEF EnterPending, WhenIdle
  <2> HIDE DEF s
  <2>3. \/ /\ proc'.pc = "enter-load" /\ st' = s
           /\ \/ cfg.entry.loader /\ ctl.mode = "bootrom"
              \/ ~cfg.entry.loader /\ ctl.mode = "service"
        \/ proc'.pc = "enter-send" /\ st' = st
        \/ st' = st /\ Fails
    BY <1>0, <2>2, SaveIs, GotoIs, AnswerIs
  <2> QED BY <1>1, <1>2, <1>4, <2>1, <2>2, <2>3, EnterFrame
          DEF ModeTrue, ModeAt, AnsweredOk, EntryModes, Lawful
<1>8. CASE EnterSend
  <2>1. proc.pc = "enter-send" /\ st' = st
    BY <1>8 DEF EnterSend
  <2>2. ctl.mode = "normal" /\ st.mode = "entry-command-pending"
    BY <2>1 DEF EntryInv
  <2>3. \/ ctl'.mode = ctl.mode /\ Answer("interrupted")
        \/ /\ ctl'.mode = IF cfg.entry.loader THEN "bootrom" ELSE "service"
           /\ \/ Answer("interrupted")
              \/ cfg.entry.enterReenum /\ Goto("enter-sent")
              \/ ~cfg.entry.enterReenum /\ Goto("enter-confirm")
    BY <1>0, <1>8, <2>2 DEF EnterSend, Controllers
  <2>4. \/ ctl'.mode = ctl.mode /\ Fails
        \/ /\ ctl'.mode = IF cfg.entry.loader THEN "bootrom" ELSE "service"
           /\ \/ Fails
              \/ cfg.entry.enterReenum /\ proc'.pc = "enter-sent"
              \/ ~cfg.entry.enterReenum /\ proc'.pc = "enter-confirm"
    BY <1>0, <2>3, GotoIs, AnswerIs
  <2> QED BY <1>1, <1>2, <2>1, <2>2, <2>4, EnterFrame
          DEF ModeTrue, ModeAt, AnsweredOk, EntryModes, Lawful
<1>9. CASE EnterSent \/ LoaderSent
  <2>1. PICK m \in {"entry-reenumerating", "loader-reenumerating"} :
          /\ SaveAndAnswer([proc.st EXCEPT !.mode = m, !.phase = "other"], "awaiting")
          /\ proc.pc = IF m = "entry-reenumerating" THEN "enter-sent" ELSE "loader-sent"
    BY <1>9 DEF EnterSent, LoaderSent
  <2> DEFINE s == [proc.st EXCEPT !.mode = m, !.phase = "other"]
  <2>2. s.mode = m /\ SaveAndAnswer(s, "awaiting") /\ ctl' = ctl
    BY <1>0, <1>9, <2>1 DEF RunStates, EnterSent, LoaderSent
  <2> HIDE DEF s
  <2>3. st'.mode = m /\ Fails
    BY <1>0, <2>2, SaveAndAnswerIs
  <2> QED BY <1>1, <2>1, <2>2, <2>3, EnterFrame DEF ModeTrue, ModeAt, AnsweredOk, EntryModes
<1>10. CASE EnterLoad
  <2> DEFINE s == [proc.st EXCEPT !.mode = "loader-command-pending", !.phase = "other"]
  <2>1. /\ s.mode = "loader-command-pending" /\ proc.pc = "enter-load" /\ ctl' = ctl
    BY <1>0, <1>10 DEF EnterLoad, RunStates
  <2>2. /\ proc.st.mode = st.mode /\ ctl.mode # "normal"
        /\ ctl.mode = "bootrom" => cfg.entry.loader
    BY <1>3, <2>1 DEF EntryInv, ModeTrue, EnterPCs
  <2> HIDE DEF s
  <2>3. \/ proc'.pc = "enter-confirm" /\ st' = st /\ ~cfg.entry.loader
        \/ proc'.pc = "enter-confirm" /\ st' = st /\ ctl.mode # "bootrom"
        \/ proc'.pc = "enter-pram" /\ st' = st /\ ~cfg.entry.loaderReenum
        \/ /\ proc'.pc = "enter-pram" /\ st' = s /\ ctl.mode = "bootrom"
        \/ st' = st /\ Fails
    BY <1>0, <1>10, EnterLoadIs, GotoIs, SaveIs, AnswerIs DEF s
  <2> QED BY <1>0, <1>1, <1>2, <1>4, <2>1, <2>2, <2>3, EnterFrame
          DEF ModeTrue, ModeAt, AnsweredOk, EntryModes
<1>11. CASE EnterPram
  <2>1. proc.pc = "enter-pram" /\ st' = st
    BY <1>11 DEF EnterPram
  <2>2. /\ ctl.mode # "normal" /\ (cfg.entry.loaderReenum => st.mode = "loader-command-pending")
        /\ st.mode \in {"entry-reenumerating", "loader-command-pending"}
    BY <2>1 DEF ModeAt, EntryInv
  <2>3. ctl'.mode = "service"
    BY <1>0, <1>11, <2>2 DEF EnterPram, Controllers
  <2>4. Answer("interrupted") \/ Goto("loader-sent") \/ Goto("enter-confirm")
    BY <1>11 DEF EnterPram
  <2>5. Fails \/ proc'.pc \in {"loader-sent", "enter-confirm"}
    BY <1>0, <2>4, GotoIs, AnswerIs
  <2> QED BY <1>1, <1>2, <2>1, <2>2, <2>3, <2>5, EnterFrame DEF ModeTrue, ModeAt, AnsweredOk
<1>12. CASE EnterConfirm
  <2> DEFINE s == [proc.st EXCEPT !.mode = "in-service", !.phase = "other"]
  <2>1. s.mode = "in-service" /\ ctl' = ctl
    BY <1>0, <1>12 DEF RunStates, EnterConfirm, WaitIdle
  <2>2. \/ ctl.mode = "service" /\ SaveAndAnswer(s, "ok")
        \/ UNCHANGED st /\ \E r \in {"refused", "interrupted", "error"} : Answer(r)
    BY <1>12 DEF EnterConfirm, WaitIdle
  <2> HIDE DEF s
  <2>3. \/ ctl.mode = "service" /\ st' = s /\ proc'.pc = "answer"
        \/ st' = st /\ Fails
    BY <1>0, <2>2, SaveAndAnswerIs, AnswerIs
  <2> QED BY <1>1, <1>4, <2>1, <2>3, EnterFrame DEF ModeTrue, ModeAt, EntryModes
<1> QED BY <1>5, <1>6, <1>7, <1>8, <1>9, <1>10, <1>11, <1>12

LEMMA ExitMode ==
  ASSUME Types, Given, Placed, EntryInv, ModeTrue /\ ModeDue /\ ModeAt,
         BeginExit \/ ExitAsk \/ ExitSend \/ ExitSent \/ ExitConfirm
  PROVE  ModeInv'
<1>0. /\ proc \in Processes /\ st \in RunStates /\ proc.st \in RunStates /\ ctl \in Controllers
  BY DEF Types, Processes
<1>1. cfg' = cfg /\ plan' = plan /\ plan.idx = RebuildIndex + 1
  BY ExitIndex, ServiceLeaves
     DEF ServiceNext, BeginExit, ExitAsk, ExitSend, ExitSent, ExitConfirm, ExitPCs
<1>2. st.mode \in ExitModes
  <2>1. RebuildIndex \in {7, 10}
    BY DEF RebuildIndex
  <2> QED BY <1>1, <2>1 DEF ModeDue
<1> DEFINE Kept == st'.mode = st.mode /\ ctl'.mode = ctl.mode
           Fails == proc'.pc = "answer" /\ proc'.res \notin {"ok", "partial"}
<1>3. CASE Kept /\ Fails
  BY <1>1, <1>2, <1>3, ExitFrame DEF ModeTrue, ModeAt, AnsweredOk
<1>4. CASE BeginExit
  <2> DEFINE s == [st EXCEPT !.mode = "exit-command-pending", !.phase = "other"]
  <2>1. s.mode = "exit-command-pending" /\ ctl' = ctl
    BY <1>0, <1>4 DEF RunStates, BeginExit
  <2>2. \/ st' = s /\ Begin("exit-ask", s, {})
        \/ st' = st /\ Begin("exit-ask", st, {}) /\ st.mode = "exit-command-pending"
        \/ /\ st' = st /\ Begin("exit-confirm", st, {})
           /\ st.mode \in {"exit-reenumerating", "normal"}
    BY <1>2, <1>4 DEF BeginExit, ExitModes
  <2> HIDE DEF s
  <2>3. \/ st' = s /\ proc'.pc = "exit-ask"
        \/ st' = st /\ proc'.pc = "exit-ask" /\ st.mode = "exit-command-pending"
        \/ /\ st' = st /\ proc'.pc = "exit-confirm"
           /\ st.mode \in {"exit-reenumerating", "normal"}
    BY <1>0, <2>2, BeginIs
  <2> QED BY <1>1, <1>2, <2>1, <2>3, ExitFrame DEF ModeTrue, ModeAt, AnsweredOk, ExitModes
<1>5. CASE ExitAsk
  <2>1. proc.pc = "exit-ask" /\ ctl' = ctl /\ st' = st
    BY <1>5 DEF ExitAsk, WhenIdle
  <2>2. st.mode = "exit-command-pending"
    BY <2>1 DEF ModeAt
  <2>3. \/ Goto("exit-send")
        \/ ctl.mode = "normal" /\ Goto("exit-confirm")
        \/ \E r \in {"interrupted", "error"} : Answer(r)
    BY <1>5 DEF ExitAsk, WhenIdle
  <2>4. \/ proc'.pc = "exit-send"
        \/ ctl.mode = "normal" /\ proc'.pc = "exit-confirm"
        \/ Fails
    BY <1>0, <2>3, GotoIs, AnswerIs
  <2> QED BY <1>1, <1>2, <1>3, <2>1, <2>2, <2>4, ExitFrame DEF ModeTrue, ModeAt, AnsweredOk
<1>6. CASE ExitSend
  <2>1. proc.pc = "exit-send" /\ st' = st
    BY <1>6 DEF ExitSend
  <2>2. st.mode = "exit-command-pending"
    BY <2>1 DEF ModeAt
  <2>3. ctl'.mode = "normal"
    BY <1>0, <1>6 DEF ExitSend, Controllers
  <2>4. Answer("interrupted") \/ Goto("exit-sent") \/ Goto("exit-confirm")
    BY <1>6 DEF ExitSend
  <2>5. Fails \/ proc'.pc \in {"exit-sent", "exit-confirm"}
    BY <1>0, <2>4, GotoIs, AnswerIs
  <2> QED BY <1>1, <1>2, <2>1, <2>2, <2>3, <2>5, ExitFrame DEF ModeTrue, ModeAt, AnsweredOk
<1>7. CASE ExitSent
  <2> DEFINE s == [proc.st EXCEPT !.mode = "exit-reenumerating", !.phase = "other"]
  <2>1. s.mode = "exit-reenumerating" /\ SaveAndAnswer(s, "awaiting") /\ ctl' = ctl
        /\ ctl.mode = "normal"
    BY <1>0, <1>7 DEF RunStates, ExitSent, ModeAt
  <2> HIDE DEF s
  <2>2. st' = s /\ Fails
    BY <1>0, <2>1, SaveAndAnswerIs
  <2> QED BY <1>1, <2>1, <2>2, ExitFrame DEF ModeTrue, ModeAt, AnsweredOk, ExitModes
<1>8. CASE ExitConfirm
  <2> DEFINE s == [proc.st EXCEPT !.mode = "normal", !.phase = "other"]
  <2>1. s.mode = "normal" /\ ctl' = ctl
    BY <1>0, <1>8 DEF RunStates, ExitConfirm, WaitIdle
  <2>2. \/ ctl.mode = "normal" /\ SaveAndAnswer(s, "ok")
        \/ UNCHANGED st /\ \E r \in {"refused", "interrupted", "error"} : Answer(r)
    BY <1>8 DEF ExitConfirm, WaitIdle
  <2> HIDE DEF s
  <2>3. \/ ctl.mode = "normal" /\ st' = s /\ proc'.pc = "answer"
        \/ st' = st /\ Fails
    BY <1>0, <2>2, SaveAndAnswerIs, AnswerIs
  <2> QED BY <1>1, <1>3, <2>1, <2>3, ExitFrame DEF ModeTrue, ModeAt, ExitModes
<1> QED BY <1>4, <1>5, <1>6, <1>7, <1>8

LEMMA ModeStep ==
  ASSUME Types, Given, Placed, EntryInv, Lawful, ModeInv, [Next]_vars
  PROVE  ModeInv'
<1> SUFFICES ASSUME Straight'
             PROVE  ModeInv'
  BY DEF ModeInv
<1>1. Straight /\ ~PowerCut /\ ~Recover
  BY StraightBefore
<1>2. ModeTrue /\ ModeDue /\ ModeAt
  BY <1>1 DEF ModeInv
<1>3. CASE UNCHANGED vars
  BY <1>2, <1>3 DEF vars, ModeInv, ModeTrue, ModeDue, ModeAt, Reached, RebuildIndex
<1>4. CASE ServiceNext
  BY <1>2, <1>4, EnterMode, ExitMode DEF ServiceNext
<1> QED BY <1>1, <1>2, <1>3, <1>4, WorkMode, RebuildMode, ReadMode, AroundMode DEF Next


-----------------------------------------------------------------------------
(* An interrupted rebuild finds the sizes and the generation it prepared,  *)
(* and a table in force under its generation is its own.                   *)

Pending ==
  plan.idx = RebuildIndex /\ st.phase # "other" =>
    /\ Sized(st) /\ st.gen > 0
    /\ ctl.committed.gen = st.gen => ctl.committed.bad = Listed(st)
    /\ st.phase \in {"metadata-activated", "metadata-commit-verified"} =>
         ctl.committed.gen = st.gen
Activated ==
  /\ proc.pc = "meta-wait" /\ proc.tries = 4 => st.gen \in hist.activated
  /\ proc.pc = "meta-save" /\ proc.tries = 4 => ctl.committed.gen = st.gen
PendingInv == Straight => Pending /\ Activated

LEMMA InTransaction ==
  ASSUME Types, ModeTrue /\ ModeDue, plan.idx = RebuildIndex
  PROVE  st.mode = "in-service" /\ ctl.mode = "service"
<1>1. plan.idx \in 4 .. RebuildIndex
  BY DEF RebuildIndex
<1> QED BY <1>1 DEF ModeTrue, ModeDue

LEMMA PendingFrame ==
  ASSUME Types, Pending, cfg' = cfg, plan'.idx = plan.idx, st' = st,
         ctl'.committed = ctl.committed, proc'.pc \notin {"meta-wait", "meta-save"}
  PROVE  PendingInv'
<1>1. RebuildIndex' = RebuildIndex /\ Sized(st)' = Sized(st)
  BY DEF RebuildIndex, Sized
<1> QED BY <1>1 DEF PendingInv, Pending, Activated

LEMMA PendingElsewhere ==
  ASSUME Types, Given, Placed, ServiceNext \/ EraseNext \/ QualifyNext \/ ReadNext, Placed'
  PROVE  PendingInv'
<1>1. cfg' = cfg /\ plan' = plan
  BY WorkCommands, ServiceLeaves
     DEF ReadNext, Inventory, CaptureOldBbt, BeginEnumerate, EnumerateBatch, VerifyErasure,
         ReEnumeration, Postcheck
<1>2. plan.idx # RebuildIndex
  <2>1. CASE ServiceNext \/ EraseNext \/ QualifyNext
    BY <2>1, ServiceIndex, BlockActionIndex DEF RebuildIndex, Types
  <2>2. CASE ReadNext
    BY <2>2, ReadIndex, Order
  <2> QED BY <2>1, <2>2
<1>3. proc'.pc \notin MetaPCs
  <2>1. proc'.pc \in MetaPCs => plan.idx \in 1 .. Len(Actions) /\ Action = "rebuild-bbt-ftl"
    BY <1>1, ActionKept DEF Placed, MetaPCs
  <2> QED BY <1>2, <2>1, Order
<1>4. plan'.idx # RebuildIndex'
  BY <1>1, <1>2 DEF RebuildIndex
<1> QED BY <1>3, <1>4 DEF PendingInv, Pending, Activated, MetaPCs

LEMMA BeginRebuildPending ==
  ASSUME Types, Given, Placed, RebuildInv', Pending, BeginRebuild
  PROVE  PendingInv'
<1>0. proc \in Processes /\ st \in RunStates /\ ctl \in Controllers
  BY DEF Types
<1>1. cfg' = cfg /\ plan' = plan /\ plan.idx = RebuildIndex /\ ctl' = ctl
  BY RebuildLeaves, BeginRebuildIs DEF RebuildNext
<1>2. CASE UNCHANGED st /\ \E r \in {"refused", "error", "interrupted"} : Answer(r)
  BY <1>0, <1>1, <1>2, AnswerIs, PendingFrame
<1>3. CASE UNCHANGED st /\ ToMetadata(st, PhaseIndex(st))
  BY <1>0, <1>1, <1>3, ToMetadataIs, PendingFrame
<1>4. CASE st' = Fresh /\ ToMetadata(Fresh, 1)
  <2>1. proc'.pc = "metadata"
    BY <1>0, <1>4, ToMetadataIs
  <2>2. ctl.committed.gen \in Nat
    BY <1>0 DEF Controllers, Tables
  <2>3. /\ st'.gen = ctl.committed.gen + 1 /\ st'.phase = "metadata-prepare-started"
    BY <1>0, <1>4 DEF Fresh, RunStates
  <2>4. Sized(st)'
    BY <2>1 DEF RebuildInv, AtRebuild, MetaPCs
  <2>5. st'.gen > 0 /\ ctl'.committed.gen # st'.gen
    BY <1>1, <2>2, <2>3
  <2> QED BY <2>1, <2>3, <2>4, <2>5 DEF PendingInv, Pending, Activated
<1> QED BY <1>2, <1>3, <1>4, BeginRebuildIs

LEMMA MetadataPending ==
  ASSUME Types, Given, Placed, RebuildInv, ModeTrue /\ ModeDue, Pending /\ Activated,
         Metadata \/ MetaWait
  PROVE  PendingInv'
<1>0. proc \in Processes
  BY DEF Types
<1>1. /\ cfg' = cfg /\ plan' = plan /\ plan.idx = RebuildIndex
  BY RebuildLeaves DEF RebuildNext
<1>2. /\ st' = st /\ ctl' = ctl /\ hist' = hist /\ proc.st = st
  BY MetadataIs DEF Metadata, MetaWait, WaitIdle, RebuildInv, MetaPCs
<1>3. \/ \E p \in {"meta-send", "meta-verify", "answer"} : proc'.pc = p
      \/ proc'.pc = "meta-save" /\ ctl.committed.gen = st.gen
      \/ /\ proc'.pc = "meta-save" /\ proc'.tries = proc.tries
         /\ proc.pc = "meta-wait" /\ Idle
  <2>1. CASE Metadata
    BY <1>0, <1>2, <2>1, MetadataIs, GotoIs, AnswerIs DEF AlreadyCommitted
  <2>2. CASE MetaWait
    BY <1>0, <2>2, GotoIs, AnswerIs DEF MetaWait, WaitIdle, Idle
  <2> QED BY <2>1, <2>2
<1>4. CASE proc'.pc = "meta-save"
  <2>1. st.mode = "in-service" /\ ctl.mode = "service"
    BY <1>1, InTransaction
  <2>2. proc'.tries = 4 => ctl.committed.gen = st.gen
    BY <1>1, <1>3, <1>4, <2>1 DEF Activated, RebuildInv, Transaction, Committing, Idle, Busy
  <2>3. Pending'
    BY <1>1, <1>2 DEF Pending, RebuildIndex, Sized
  <2> QED BY <1>2, <1>4, <2>2, <2>3 DEF PendingInv, Activated
<1> QED BY <1>1, <1>2, <1>3, <1>4, PendingFrame

LEMMA MetaSendPending ==
  ASSUME Types, Given, Placed, RebuildInv, Pending, MetaSend
  PROVE  PendingInv'
<1> DEFINE op == MetadataOps[proc.tries]
<1>0. proc \in Processes /\ hist \in Histories
  BY DEF Types
<1>1. /\ cfg' = cfg /\ plan' = plan /\ plan.idx = RebuildIndex
  BY RebuildLeaves DEF RebuildNext
<1>2. /\ Command(op, 0, "meta-wait") /\ proc.pc = "meta-send" /\ st' = st /\ proc.st = st
  BY DEF MetaSend, Command, RebuildInv, MetaPCs
<1>3. ctl'.committed = ctl.committed
  BY <1>2, CommandIs
<1>4. proc'.pc # "meta-save" /\ proc'.tries = proc.tries /\ (proc'.pc = "meta-wait" => Accepts)
  BY <1>0, <1>2, GotoIs, AnswerIs DEF Command
<1>5. proc'.pc = "meta-wait" /\ proc'.tries = 4 => st.gen \in hist'.activated
  <2>1. proc.tries = 4 => op = "activate-metadata"
    BY MetaOpsAre
  <2> HIDE DEF op
  <2> QED BY <1>2, <1>4, <2>1, CommandTold
<1>6. Pending'
  BY <1>1, <1>2, <1>3 DEF Pending, RebuildIndex, Sized
<1> QED BY <1>2, <1>4, <1>5, <1>6 DEF PendingInv, Activated

LEMMA MetaSavePending ==
  ASSUME Types, Given, Placed, RebuildInv, RebuildInv', Pending /\ Activated, MetaSave
  PROVE  PendingInv'
<1> DEFINE next == MetadataPhases[proc.tries + 1]
           s == [proc.st EXCEPT !.phase = next]
<1>0. proc \in Processes /\ st \in RunStates
  BY DEF Types
<1>1. /\ cfg' = cfg /\ plan' = plan /\ plan.idx = RebuildIndex
  BY RebuildLeaves DEF RebuildNext
<1>2. /\ proc.pc = "meta-save" /\ ctl' = ctl /\ st' = s /\ proc.st = st
      /\ proc' = [proc EXCEPT !.pc = "metadata", !.st = s, !.tries = @ + 1]
  BY DEF MetaSave, RebuildInv, MetaPCs
<1>3. proc.tries \in 1 .. 4 /\ st.phase = MetadataPhases[proc.tries]
  BY <1>2 DEF Placed, MetaPCs, RebuildInv, AtRebuild
<1>4. /\ st.phase # "other"
      /\ next \in {"metadata-activated", "metadata-commit-verified"} => proc.tries = 4
  <2>1. /\ MetadataPhases[1] = "metadata-prepare-started" /\ MetadataPhases[2] = "bbt-prepared"
        /\ MetadataPhases[3] = "ftl-prepared" /\ MetadataPhases[4] = "capacity-set"
    BY DEF MetadataPhases
  <2>2. proc.tries \in {1, 2, 3, 4}
    BY <1>3
  <2> QED BY <1>3, <2>1, <2>2
<1>5. st'.phase = next /\ st'.gen = st.gen /\ st'.disp = st.disp
  <2> HIDE DEF next
  <2> QED BY <1>0, <1>2 DEF RunStates
<1>6. proc'.pc = "metadata"
  <2> HIDE DEF s
  <2> QED BY <1>0, <1>2 DEF Processes
<1>7. Sized(st)' /\ Listed(st)' = Listed(st)
  BY <1>5, <1>6, SameTable DEF RebuildInv, AtRebuild, MetaPCs
<1> HIDE DEF s, next
<1>8. /\ st.gen > 0 /\ (ctl.committed.gen = st.gen => ctl.committed.bad = Listed(st))
      /\ proc.tries = 4 => ctl.committed.gen = st.gen
  BY <1>1, <1>2, <1>4 DEF Pending, Activated
<1> QED BY <1>2, <1>4, <1>5, <1>6, <1>7, <1>8 DEF PendingInv, Pending, Activated

\* Verification compares with a table that is the one prepared.
LEMMA VerifiesOwn ==
  ASSUME Types, Placed, RebuildInv, Pending, plan.idx = RebuildIndex, MetaVerify
  PROVE  /\ proc.st = st /\ st.phase # "other"
         /\ ctl.committed = [gen |-> st.gen, bad |-> Listed(st)]
         /\ ~Answer("refused")
<1>0. proc \in Processes /\ ctl \in Controllers
  BY DEF Types
<1>1. /\ proc.pc = "meta-verify" /\ proc.st = st
  BY DEF MetaVerify, RebuildInv, MetaPCs
<1>2. proc.tries \in {5, 6} /\ st.phase = MetadataPhases[proc.tries]
  BY <1>1 DEF Placed, MetaPCs, RebuildInv, AtRebuild
<1>3. st.phase \in {"metadata-activated", "metadata-commit-verified"}
  BY <1>2 DEF MetadataPhases
<1>4. ctl.committed.gen = st.gen /\ ctl.committed.bad = Listed(st)
  BY <1>3 DEF Pending
<1>5. ctl.committed = [gen |-> st.gen, bad |-> Listed(st)]
  BY <1>0, <1>4 DEF Controllers, Tables
<1>6. proc'.pc # "answer" \/ proc'.res \in {"ok", "interrupted", "error"}
  <2> DEFINE s == [proc.st EXCEPT !.phase = "metadata-commit-verified"]
  <2>1. SaveAndAnswer(s, "ok") \/ Answer("interrupted") \/ Answer("error")
    BY <1>1, <1>5 DEF MetaVerify, WhenIdle
  <2> HIDE DEF s
  <2> QED BY <1>0, <2>1, SaveAndAnswerIs, AnswerIs
<1>7. ~Answer("refused")
  BY <1>0, <1>6, AnswerIs
<1> QED BY <1>1, <1>3, <1>5, <1>7

LEMMA MetaVerifyPending ==
  ASSUME Types, Given, Placed, RebuildInv, Pending, MetaVerify
  PROVE  PendingInv'
<1> DEFINE s == [proc.st EXCEPT !.phase = "metadata-commit-verified"]
<1>0. proc \in Processes /\ st \in RunStates
  BY DEF Types
<1>1. /\ cfg' = cfg /\ plan' = plan /\ plan.idx = RebuildIndex /\ ctl' = ctl
  BY RebuildLeaves DEF RebuildNext, MetaVerify, WhenIdle
<1>2. /\ proc.st = st /\ st.phase # "other"
      /\ ctl.committed = [gen |-> st.gen, bad |-> Listed(st)]
  BY <1>1, VerifiesOwn
<1>3. CASE UNCHANGED st /\ \E r \in {"interrupted", "error", "refused"} : Answer(r)
  BY <1>0, <1>1, <1>3, AnswerIs, PendingFrame
<1>4. CASE SaveAndAnswer(s, "ok")
  <2>1. s.gen = st.gen /\ s.disp = st.disp /\ s.user = st.user /\ s.spare = st.spare
    BY <1>0, <1>2 DEF RunStates
  <2> HIDE DEF s
  <2>2. st' = s /\ proc'.pc = "answer"
    BY <1>0, <1>4, SaveAndAnswerIs
  <2>3. Sized(st) /\ st.gen > 0
    BY <1>1, <1>2 DEF Pending
  <2>4. Sized(st)' /\ Listed(st)' = Listed(st)
    BY <2>1, <2>2, <2>3, SameTable DEF Sized
  <2>5. ctl'.committed.gen = st'.gen /\ ctl'.committed.bad = Listed(st')
    BY <1>1, <1>2, <2>1, <2>2, <2>4
  <2> QED BY <2>1, <2>2, <2>3, <2>4, <2>5 DEF PendingInv, Pending, Activated
<1> QED BY <1>3, <1>4 DEF MetaVerify, WhenIdle

LEMMA AroundPending ==
  ASSUME Types, Given, Placed, RebuildInv, Pending /\ Activated,
         Environment \/ CoreNext, ~PowerCut, ~Recover
  PROVE  PendingInv'
<1>0. /\ proc \in Processes /\ plan \in [idx : Nat, last : Answers] /\ ctl \in Controllers
      /\ st \in RunStates
  BY DEF Types
<1>1. CASE Finish
  <2>1. cfg' = cfg /\ plan' = plan /\ st' = st /\ proc' = proc
    BY <1>1 DEF Finish
  <2>2. hist'.activated = hist.activated
    BY <1>1, FinishIs DEF Types, Histories
  <2>3. \/ ctl'.committed = ctl.committed
        \/ ctl.op = "activate-metadata" /\ ctl'.committed = ctl.prepared
    BY <1>0, <1>1, FinishIs DEF Controllers
  <2>4. \/ ctl'.committed = ctl.committed
        \/ ctl'.committed = [gen |-> st.gen, bad |-> Listed(st)]
    BY <2>3 DEF RebuildInv, Activating, PreparedIs
  <2>5. RebuildIndex' = RebuildIndex /\ Sized(st)' = Sized(st) /\ Listed(st)' = Listed(st)
    BY <2>1 DEF RebuildIndex, Sized
  <2> QED BY <2>1, <2>2, <2>4, <2>5 DEF PendingInv, Pending, Activated
<1>2. CASE TransportFails \/ Kill \/ Resume
  <2>1. /\ cfg' = cfg /\ st' = st /\ ctl' = ctl
        /\ \/ plan' = plan /\ (Answer("interrupted") \/ Answer("error") \/ Goto("start"))
           \/ Stop("none")
    BY <1>2 DEF TransportFails, Kill, Resume
  <2>2. proc'.pc \in {"idle", "start", "answer"} /\ plan'.idx = plan.idx
    BY <1>0, <2>1, AnswerIs, GotoIs, StopIs
  <2> QED BY <2>1, <2>2, PendingFrame
<1>3. CASE PowerCycle
  <2>1. /\ cfg' = cfg /\ plan' = plan /\ st' = st /\ Answer("ok") /\ ctl' = Unpowered(ctl)
    BY <1>3 DEF PowerCycle
  <2>2. proc'.pc = "answer" /\ ctl'.committed = ctl.committed
    BY <1>0, <2>1, AnswerIs, UnpoweredIs
  <2> QED BY <2>1, <2>2, PendingFrame
<1>4. CASE Recorded
  <2>1. cfg' = cfg /\ st' = st /\ ctl' = ctl /\ proc.pc = "answer"
    BY <1>4 DEF Recorded
  <2>2. \/ plan'.idx = plan.idx + 1 /\ Goto("start")
        \/ plan' = plan /\ Goto("start")
        \/ Stop(proc.res)
    BY <1>4 DEF Recorded
  <2>3. CASE plan'.idx = plan.idx + 1 /\ Goto("start")
    <3>1. proc'.pc = "start"
      BY <1>0, <2>3, GotoIs
    <3>2. RebuildIndex' = RebuildIndex /\ RebuildIndex \in {7, 10} /\ plan.idx \in Nat
      BY <1>0, <2>1 DEF RebuildIndex
    <3>3. plan'.idx = RebuildIndex' => st'.phase = "other"
      BY <2>1, <2>3, <3>2 DEF RebuildInv, BeforeRebuild
    <3> QED BY <3>1, <3>3 DEF PendingInv, Pending, Activated
  <2>4. CASE (plan' = plan /\ Goto("start")) \/ Stop(proc.res)
    <3>1. proc'.pc \in {"idle", "start"} /\ plan'.idx = plan.idx
      BY <1>0, <2>4, GotoIs, StopIs
    <3> QED BY <2>1, <3>1, PendingFrame
  <2> QED BY <2>2, <2>3, <2>4
<1>5. CASE Done
  BY <1>5 DEF Done, vars, PendingInv, Pending, Activated, RebuildIndex, Sized
<1> QED BY <1>1, <1>2, <1>3, <1>4, <1>5 DEF Environment, CoreNext

LEMMA PendingStep ==
  ASSUME EngineInv, Placed', RebuildInv', ModeInv, PendingInv, [Next]_vars
  PROVE  PendingInv'
<1> SUFFICES ASSUME Straight'
             PROVE  PendingInv'
  BY DEF PendingInv
<1>0. Types /\ Given /\ Placed /\ EntryInv /\ RebuildInv
  BY DEF EngineInv
<1>1. Straight /\ ~PowerCut /\ ~Recover
  BY <1>0, StraightBefore
<1>2. ModeTrue /\ ModeDue /\ Pending /\ Activated
  BY <1>1 DEF ModeInv, PendingInv
<1>3. CASE UNCHANGED vars
  BY <1>2, <1>3 DEF vars, PendingInv, Pending, Activated, RebuildIndex, Sized
<1>4. CASE RebuildNext
  BY <1>0, <1>2, <1>4, BeginRebuildPending, MetadataPending, MetaSendPending, MetaSavePending,
     MetaVerifyPending DEF RebuildNext
<1> QED BY <1>0, <1>1, <1>2, <1>3, <1>4, PendingElsewhere, AroundPending DEF Next


-----------------------------------------------------------------------------
(* So an action is refused at one of two dead ends only, and nothing leads *)
(* out of them.                                                            *)

LoaderEnd == /\ Action = "enter-service-mode"
             /\ cfg.entry.loader /\ ~cfg.entry.loaderReenum
QualifyEnd == /\ Action = "qualify-blocks" /\ st.flight.op = "erase-block"
              /\ proc.pc \in {"idle", "start", "answer"}
DeadEnd == plan.idx \in 1 .. Len(Actions) /\ (LoaderEnd \/ QualifyEnd)
Refused == proc.pc = "answer" /\ proc.res = "refused"
RefusedInv == Straight => (plan.last = "refused" \/ Refused => DeadEnd)

\* Service mode lasts from its entry to the rebuild.
LEMMA StillInService ==
  ASSUME Types, Given, ModeDue, plan.idx \in 1 .. Len(Actions),
         Action \in BlockActions \cup {"verify-physical-erasure", "rebuild-bbt-ftl"}
  PROVE  st.mode = "in-service"
<1>1. plan.idx \in 4 .. RebuildIndex
  BY Order
<1> QED BY <1>1 DEF ModeDue

LEMMA EraseAnswers ==
  ASSUME Types, Given, Placed, ModeDue, EraseNext
  PROVE  ~Refused'
<1>0. proc \in Processes /\ st \in RunStates /\ proc.st \in RunStates
  BY DEF Types, Processes
<1>1. proc.pc \in ErasePCs \ {"scan"} => Block \in Blocks
  BY <1>0, LeastBlock DEF Placed, Processes
<1>2. CASE BeginErase
  <2> DEFINE s == Classified(st)
  <2>1. st.mode = "in-service"
    BY <1>2, AtAction, StillInService DEF BeginErase, BlockActions
  <2>2. Begin("scan", s, Targets(s))
    BY <1>2, <2>1 DEF BeginErase, InService
  <2> HIDE DEF s
  <2> QED BY <1>0, <2>2, BeginIs DEF Refused
<1>3. CASE Scan \/ Send
  <2>1. Goto("old-wait") \/ Goto("mark") \/ Goto("wait") \/ Answer("interrupted")
    BY <1>3, CommandIs DEF Scan, Send
  <2> QED BY <1>0, <2>1, GotoIs, AnswerIs DEF Refused
<1>4. CASE OldWait \/ Wait
  <2>1. /\ proc.pc \in ErasePCs \ {"scan"}
        /\ Goto("old-read") \/ Goto("read") \/ EraseFailed \/ Answer("interrupted")
    BY <1>4 DEF OldWait, Wait, WaitIdle, ErasePCs
  <2> QED BY <1>0, <1>1, <2>1, GotoIs, AnswerIs, EraseFailedIs DEF Refused, Advanced
<1>5. CASE OldRead \/ Read
  <2>1. /\ proc.pc \in ErasePCs \ {"scan"}
        /\ \/ Answer("error") \/ EraseSucceeded(proc.st) \/ EraseGaveUp(proc.st)
           \/ proc'.pc = "mark"
    <3>1. CASE OldRead
      BY <1>0, <3>1, GotoIs DEF OldRead, ErasePCs
    <3>2. CASE Read
      <4>1. proc.pc = "read"
        BY <3>2 DEF Read
      <4> QED BY <3>2, <4>1, ReadIs DEF ErasePCs
    <3> QED BY <1>5, <3>1, <3>2
  <2> QED BY <1>0, <1>1, <2>1, AnswerIs, EraseSucceededIs, EraseGaveUpIs DEF Refused, Advanced
<1>6. CASE Mark \/ SaveBatch \/ EndErase
  <2>1. \/ \E p \in {"send", "scan", "markers"} : \E s : Save(p, s)
        \/ \E r \in {"ok", "partial", "error"} : \E s : SaveAndAnswer(s, r)
    BY <1>6 DEF Mark, SaveBatch, EndErase
  <2> QED BY <1>0, <2>1, SaveIs, SaveAndAnswerIs DEF Refused
<1>7. CASE Markers
  <2>1. \E r \in {"ok", "partial", "error"} : Answer(r)
    BY <1>7 DEF Markers
  <2> QED BY <1>0, <2>1, AnswerIs DEF Refused
<1> QED BY <1>2, <1>3, <1>4, <1>5, <1>6, <1>7 DEF EraseNext

LEMMA QualifyAnswers ==
  ASSUME Types, Given, Placed, ModeDue, QualifyNext, Refused'
  PROVE  DeadEnd'
<1>0. proc \in Processes /\ st \in RunStates /\ proc.st \in RunStates
  BY DEF Types, Processes
<1>1. proc.pc \in ProgramPCs \ {"flight-wait"} => Block \in Blocks
  BY <1>0, LeastBlock DEF Placed, Processes
<1>2. CASE BeginQualify
  <2>1. plan.idx \in 1 .. Len(Actions) /\ Action = "qualify-blocks" /\ st.mode = "in-service"
    BY <1>2, AtAction, StillInService DEF BeginQualify, On, BlockActions
  <2>2. st.flight.op \in {"none", "erase-block", "program-page"}
    BY <1>0 DEF RunStates, Flights
  <2>3. st.flight.op = "erase-block"
    BY <1>0, <1>2, <2>1, <2>2, BeginIs DEF BeginQualify, InService, Refused
  <2>4. st' = st /\ cfg' = cfg /\ plan' = plan
    BY <1>2 DEF BeginQualify
  <2> QED BY <2>1, <2>3, <2>4, ActionKept DEF DeadEnd, QualifyEnd, Refused
<1>3. CASE FlightWait
  <2>1. (\E s : Begin("scan", s, Targets(s))) \/ Answer("interrupted")
    BY <1>3, FlightWaitIs
  <2> QED BY <1>0, <2>1, BeginIs, AnswerIs DEF Refused
<1>4. CASE ProgramMark
  <2>1. \E s : Save("program-send", s)
    BY <1>4 DEF ProgramMark
  <2> QED BY <1>0, <2>1, SaveIs DEF Refused
<1>5. CASE ProgramSend
  <2>1. Goto("program-wait") \/ Answer("interrupted")
    BY <1>5, CommandIs DEF ProgramSend
  <2> QED BY <1>0, <2>1, GotoIs, AnswerIs DEF Refused
<1>6. CASE ProgramWait \/ ProgramRead
  <2>1. /\ proc.pc \in ProgramPCs \ {"flight-wait"}
        /\ \/ Goto("program-read") \/ Answer("interrupted")
           \/ Qualified("quarantined") \/ Qualified("qualified")
    BY <1>6 DEF ProgramWait, ProgramRead, WaitIdle, ProgramPCs
  <2> QED BY <1>0, <1>1, <2>1, GotoIs, AnswerIs, QualifiedIs DEF Refused, Advanced
<1>7. CASE EndQualify
  <2>1. \E s : SaveAndAnswer(s, "ok")
    BY <1>7 DEF EndQualify
  <2> QED BY <1>0, <2>1, SaveAndAnswerIs DEF Refused
<1> QED BY <1>2, <1>3, <1>4, <1>5, <1>6, <1>7 DEF QualifyNext

LEMMA ServiceAnswers ==
  ASSUME Types, Given, Placed, EntryInv, Lawful, ModeTrue /\ ModeDue /\ ModeAt, ServiceNext, Refused'
  PROVE  DeadEnd'
<1>0. proc \in Processes /\ st \in RunStates
  BY DEF Types
<1>1. cfg' = cfg /\ plan' = plan
  BY ServiceLeaves
<1>2. CASE BeginEnter
  <2>1. \E p \in EnterPCs : Begin(p, st, {})
    BY <1>2 DEF BeginEnter, EnterPCs
  <2> QED BY <1>0, <2>1, BeginIs DEF Refused, EnterPCs
<1>3. CASE EnterAsk \/ EnterPending
  <2>1. \/ \E p \in {"enter-confirm", "enter-pending", "enter-load"} :
             \E s : Work(p, s)
        \/ Goto("enter-send") \/ Answer("interrupted") \/ Answer("error")
    BY <1>3 DEF EnterAsk, EnterPending, WhenIdle, Save
  <2> QED BY <1>0, <2>1, WorkIs, GotoIs, AnswerIs DEF Refused
<1>4. CASE EnterSend \/ EnterPram \/ ExitSend
  <2>1. \/ \E p \in {"enter-sent", "enter-confirm", "loader-sent", "exit-sent", "exit-confirm"} :
             Goto(p)
        \/ Answer("interrupted")
    BY <1>4 DEF EnterSend, EnterPram, ExitSend
  <2> QED BY <1>0, <2>1, GotoIs, AnswerIs DEF Refused
<1>5. CASE EnterSent \/ LoaderSent \/ ExitSent
  <2>1. \E s : SaveAndAnswer(s, "awaiting")
    BY <1>5 DEF EnterSent, LoaderSent, ExitSent
  <2> QED BY <1>0, <2>1, SaveAndAnswerIs DEF Refused
<1>6. CASE EnterLoad
  <2>1. proc.pc = "enter-load" /\ plan.idx \in 1 .. Len(Actions) /\ Action = "enter-service-mode"
    BY <1>6 DEF EnterLoad, Placed, EnterPCs
  <2>2. /\ cfg.entry.loader /\ ctl.mode # "bootrom"
        /\ proc.st.mode # "loader-command-pending"
    <3>1. /\ \A s : ~Save("enter-pram", s)
          /\ ~Goto("enter-confirm") /\ ~Goto("enter-pram")
      BY <1>0, SaveIs, GotoIs DEF Refused
    <3> QED BY <1>6, <3>1 DEF EnterLoad
  <2>3. st.mode = "entry-reenumerating"
    BY <2>1, <2>2 DEF EntryInv, Loaded, PCs
  <2>4. ~cfg.entry.loaderReenum
    BY <2>2, <2>3 DEF ModeTrue
  <2> QED BY <1>1, <2>1, <2>2, <2>4, ActionKept DEF DeadEnd, LoaderEnd
<1>7. CASE EnterConfirm \/ ExitConfirm
  <2>1. \/ proc.pc = "enter-confirm" /\ ctl.mode = "service"
        \/ proc.pc = "exit-confirm" /\ ctl.mode = "normal"
    BY <1>7 DEF EnterConfirm, ExitConfirm, ModeAt
  <2>2. (\E s : SaveAndAnswer(s, "ok")) \/ Answer("error") \/ Answer("interrupted")
    BY <1>7, <2>1 DEF EnterConfirm, ExitConfirm, WaitIdle
  <2> QED BY <1>0, <2>2, SaveAndAnswerIs, AnswerIs DEF Refused
<1>8. CASE BeginExit
  <2>1. st.mode \in ExitModes
    BY <1>8, ExitIndex DEF BeginExit, ModeDue, RebuildIndex
  <2>2. \E p \in {"exit-ask", "exit-confirm"} : \E s : Begin(p, s, {})
    BY <1>8, <2>1 DEF BeginExit, ExitModes
  <2> QED BY <1>0, <2>2, BeginIs DEF Refused
<1>9. CASE ExitAsk
  <2>1. \/ Goto("exit-send") \/ Goto("exit-confirm")
        \/ Answer("interrupted") \/ Answer("error")
    BY <1>9 DEF ExitAsk, WhenIdle
  <2> QED BY <1>0, <2>1, GotoIs, AnswerIs DEF Refused
<1> QED BY <1>2, <1>3, <1>4, <1>5, <1>6, <1>7, <1>8, <1>9 DEF ServiceNext

\* A rebuild in progress finds its own generation and sizes.
LEMMA RebuildAnswers ==
  ASSUME Types, Given, Placed, RebuildInv, ModeTrue /\ ModeDue, Pending, RebuildNext
  PROVE  ~Refused'
<1>0. proc \in Processes /\ st \in RunStates
  BY DEF Types
<1>1. plan.idx = RebuildIndex
  BY RebuildLeaves
<1>2. CASE BeginRebuild
  <2> DEFINE user == UserOf(st)
             i == PhaseIndex(st)
  <2>1. st.mode = "in-service" /\ user \in Int /\ i \in Nat
    BY <1>0, <1>1, InTransaction, SizesOf, PhaseIndexIs DEF RunStates
  <2>2. i > 0 => st.gen # 0 /\ st.user = UserOf(st) /\ st.spare = SpareOf(st)
    BY <1>0, <1>1, PhaseIndexIs DEF Pending, Sized, RunStates
  <2>3. \/ Answer("error") \/ Answer("interrupted")
        \/ ToMetadata(st, i) \/ ToMetadata(Fresh, 1)
    <3> USE DEF Fresh, ToMetadata
    <3>1. CASE ~Enough(user)
      BY <1>2, <2>1, <3>1 DEF BeginRebuild
    <3>2. CASE Enough(user) /\ i > 0
      <4>1. i # 0
        BY <2>1, <3>2
      <4> QED BY <1>2, <2>1, <2>2, <3>2, <4>1 DEF BeginRebuild
    <3>3. CASE Enough(user) /\ i = 0
      BY <1>2, <2>1, <3>3 DEF BeginRebuild, WhenIdle
    <3> QED BY <2>1, <3>1, <3>2, <3>3
  <2> HIDE DEF i
  <2> QED BY <1>0, <2>3, ToMetadataIs, AnswerIs DEF Refused
<1>3. CASE Metadata \/ MetaWait
  <2>1. \/ \E p \in {"meta-send", "meta-save", "meta-verify"} : Goto(p)
        \/ Answer("error") \/ Answer("interrupted")
    BY <1>3, MetadataIs DEF MetaWait, WaitIdle
  <2> QED BY <1>0, <2>1, GotoIs, AnswerIs DEF Refused
<1>4. CASE MetaSend
  <2>1. Goto("meta-wait") \/ Answer("interrupted")
    BY <1>4, CommandIs DEF MetaSend
  <2> QED BY <1>0, <2>1, GotoIs, AnswerIs DEF Refused
<1>5. CASE MetaSave
  <2>1. proc'.pc = "metadata"
    BY <1>0, <1>5 DEF MetaSave, Processes
  <2> QED BY <2>1 DEF Refused
<1>6. CASE MetaVerify
  <2>1. ~Answer("refused")
    BY <1>1, <1>6, VerifiesOwn
  <2>2. (\E s : SaveAndAnswer(s, "ok")) \/ Answer("error") \/ Answer("interrupted")
    BY <1>6, <2>1 DEF MetaVerify, WhenIdle
  <2> QED BY <1>0, <2>2, SaveAndAnswerIs, AnswerIs DEF Refused
<1> QED BY <1>2, <1>3, <1>4, <1>5, <1>6 DEF RebuildNext

LEMMA ReadAnswers ==
  ASSUME Types, Given, Placed, ModeDue, ReadNext
  PROVE  ~Refused'
<1>0. proc \in Processes /\ st \in RunStates
  BY DEF Types
<1>1. CASE VerifyErasure
  <2>1. st.mode = "in-service"
    BY <1>1, AtAction, StillInService DEF VerifyErasure, On
  <2>2. \E r \in {"ok", "partial"} : \E s : SaveAndAnswer(s, r)
    BY <1>1, <2>1 DEF VerifyErasure
  <2> QED BY <1>0, <2>2, SaveAndAnswerIs DEF Refused
<1>2. CASE BeginEnumerate
  <2>1. \E s : Begin("batch", s, Blocks)
    BY <1>2 DEF BeginEnumerate
  <2> QED BY <1>0, <2>1, BeginIs DEF Refused
<1>3. CASE EnumerateBatch
  <2>1. \/ Answer("error")
        \/ \E s : SaveAndAnswer(s, "ok")
        \/ proc.pc = "batch" /\ \E s, n : Batched(s, n)
    BY <1>3, EnumerateBatchIs DEF EnumerateBatch
  <2> QED BY <1>0, <2>1, SaveAndAnswerIs, AnswerIs, BatchedIs DEF Refused
<1>4. CASE Inventory \/ CaptureOldBbt \/ ReEnumeration \/ Postcheck
  <2>1. \/ \E s : SaveAndAnswer(s, "ok")
        \/ \E r \in {"ok", "partial", "error", "interrupted"} : Answer(r)
    BY <1>4 DEF Inventory, CaptureOldBbt, ReEnumeration, Postcheck, WhenIdle
  <2> QED BY <1>0, <2>1, SaveAndAnswerIs, AnswerIs DEF Refused
<1> QED BY <1>1, <1>2, <1>3, <1>4 DEF ReadNext


\* What the core and the controller do refuses nothing.
LEMMA AroundAnswers ==
  ASSUME Types, Environment \/ CoreNext, ~PowerCut, ~Recover, Refused'
  PROVE  Refused
<1>0. proc \in Processes
  BY DEF Types
<1>1. CASE Finish \/ Done
  BY <1>1 DEF Finish, Done, vars, Refused
<1>2. CASE TransportFails
  <2>1. \E r \in {"interrupted", "error"} : Answer(r)
    BY <1>2 DEF TransportFails
  <2> QED BY <1>0, <2>1, AnswerIs DEF Refused
<1>3. CASE PowerCycle
  BY <1>0, <1>3, AnswerIs DEF PowerCycle, Refused
<1>4. CASE Kill
  BY <1>0, <1>4 DEF Kill, Stop, Processes, Refused
<1>5. CASE Recorded \/ Resume
  <2>1. Goto("start") \/ proc'.pc = "idle"
    BY <1>0, <1>5 DEF Recorded, Resume, Stop, Processes
  <2> QED BY <1>0, <2>1, GotoIs DEF Refused
<1> QED BY <1>1, <1>2, <1>3, <1>4, <1>5 DEF Environment, CoreNext

LEMMA WorkAnswers ==
  ASSUME EngineInv, Lawful, ModeTrue /\ ModeDue /\ ModeAt, Pending, Refused',
         ServiceNext \/ EraseNext \/ QualifyNext \/ RebuildNext \/ ReadNext
  PROVE  DeadEnd'
<1>1. Types /\ Given /\ Placed /\ EntryInv /\ RebuildInv
  BY DEF EngineInv
<1> QED BY <1>1, ServiceAnswers, EraseAnswers, QualifyAnswers, RebuildAnswers, ReadAnswers

\* qualify-blocks finds an erase in flight every time it is started.
LEMMA QualifyEndStays ==
  ASSUME Types, Given, Placed, plan.idx \in 1 .. Len(Actions), QualifyEnd,
         [Next]_vars, ~PowerCut, ~Recover
  PROVE  st' = st /\ proc'.pc \in {"idle", "start", "answer"}
<1>0. proc \in Processes /\ Action \in BlockActions
  BY DEF Types, QualifyEnd, BlockActions
<1>1. plan.idx > 3 /\ plan.idx < RebuildIndex /\ RebuildIndex \in {7, 10} /\ plan.idx \in Nat
  BY <1>0, Order
<1>2. ~ServiceNext /\ ~RebuildNext
  BY <1>1, ServiceIndex, RebuildLeaves
<1>3. ~ReadNext
  BY ReadIndex DEF QualifyEnd
<1>4. ~EraseNext
  BY DEF QualifyEnd, EraseNext, BeginErase, Scan, OldWait, OldRead, Mark, Send, Wait, Read,
         SaveBatch, EndErase, Markers, EraseActions
<1>5. CASE QualifyNext
  <2>1. BeginQualify
    BY <1>5 DEF QualifyEnd, QualifyNext, FlightWait, ProgramMark, ProgramSend, ProgramWait,
           ProgramRead, EndQualify
  <2>2. Answer("refused") /\ st' = st
    BY <2>1 DEF QualifyEnd, BeginQualify, InService
  <2> QED BY <1>0, <2>2, AnswerIs
<1>6. CASE UNCHANGED vars \/ Finish \/ Done
  BY <1>6 DEF vars, Finish, Done, QualifyEnd
<1>7. CASE TransportFails \/ PowerCycle
  <2>1. st' = st /\ \E r : Answer(r)
    BY <1>7 DEF TransportFails, PowerCycle
  <2> QED BY <1>0, <2>1, AnswerIs
<1>8. CASE Kill \/ Recorded \/ Resume
  <2>1. st' = st /\ (Goto("start") \/ proc'.pc = "idle")
    BY <1>0, <1>8 DEF Kill, Recorded, Resume, Stop, Processes
  <2> QED BY <1>0, <2>1, GotoIs
<1> QED BY <1>2, <1>3, <1>4, <1>5, <1>6, <1>7, <1>8 DEF Next, Environment, CoreNext

LEMMA EndStays ==
  ASSUME Types, Given, Placed, DeadEnd, [Next]_vars, ~PowerCut, ~Recover, plan'.idx = plan.idx
  PROVE  DeadEnd'
<1>1. cfg' = cfg
  BY GivenStep
<1>2. Actions' = Actions /\ Action' = Action
  BY <1>1, ActionKept
<1>3. LoaderEnd => LoaderEnd'
  BY <1>1, <1>2 DEF LoaderEnd
<1>4. QualifyEnd => QualifyEnd'
  BY <1>2, QualifyEndStays DEF DeadEnd, QualifyEnd
<1> QED BY <1>2, <1>3, <1>4 DEF DeadEnd

\* A refusal is recorded from the answer, or was recorded before.
LEMMA PlanSteps ==
  ASSUME Types, Given, Placed, [Next]_vars, ~PowerCut
  PROVE  plan' = plan \/ Recorded \/ Kill
<1>1. ServiceNext \/ EraseNext \/ QualifyNext \/ RebuildNext => plan' = plan
  BY ServiceLeaves, WorkCommands, RebuildLeaves
<1>2. ReadNext => plan' = plan
  BY DEF ReadNext, Inventory, CaptureOldBbt, BeginEnumerate, EnumerateBatch, VerifyErasure,
         ReEnumeration, Postcheck
<1>3. Finish \/ TransportFails \/ PowerCycle \/ Resume \/ Recover \/ Done \/ UNCHANGED vars
        => plan' = plan
  BY DEF Finish, TransportFails, PowerCycle, Resume, Recover, Done, vars
<1> QED BY <1>1, <1>2, <1>3 DEF Next, Environment, CoreNext

LEMMA RecordedBefore ==
  ASSUME Types, Given, Placed, [Next]_vars, ~PowerCut
  PROVE  /\ Refused => plan'.idx = plan.idx
         /\ plan'.last = "refused" =>
              plan'.idx = plan.idx /\ (plan.last = "refused" \/ Refused)
<1>0. plan \in [idx : Nat, last : Answers]
  BY DEF Types
<1>1. CASE Recorded
  <2>1. CASE proc.res \in {"ok", "partial"}
    BY <1>1, <2>1 DEF Recorded, Refused
  <2>2. CASE proc.res = "awaiting"
    BY <1>1, <2>2 DEF Recorded, Refused
  <2>3. CASE proc.res \notin {"ok", "partial", "awaiting"}
    BY <1>0, <1>1, <2>3 DEF Recorded, Stop, Refused
  <2> QED BY <2>1, <2>2, <2>3
<1>2. CASE Kill
  BY <1>0, <1>2 DEF Kill, Stop
<1> QED BY <1>1, <1>2, PlanSteps

LEMMA RefusedStep ==
  ASSUME EngineInv, Lawful, ModeInv, PendingInv, RefusedInv, [Next]_vars
  PROVE  RefusedInv'
<1> SUFFICES ASSUME Straight', plan'.last = "refused" \/ Refused'
             PROVE  DeadEnd'
  BY DEF RefusedInv
<1>0. Types /\ Given /\ Placed
  BY DEF EngineInv
<1>1. Straight /\ ~PowerCut /\ ~Recover
  BY <1>0, StraightBefore
<1>2. ModeTrue /\ ModeDue /\ ModeAt /\ Pending
  BY <1>1 DEF ModeInv, PendingInv
<1>3. CASE plan'.last = "refused"
  <2>1. plan'.idx = plan.idx /\ DeadEnd
    BY <1>0, <1>1, <1>3, RecordedBefore DEF RefusedInv
  <2> QED BY <1>0, <1>1, <2>1, EndStays
<1>4. CASE Refused' /\ (ServiceNext \/ EraseNext \/ QualifyNext \/ RebuildNext \/ ReadNext)
  BY <1>2, <1>4, WorkAnswers
<1>5. CASE Refused' /\ (Environment \/ CoreNext \/ UNCHANGED vars)
  <2>1. Refused /\ proc.pc = "answer"
    BY <1>0, <1>1, <1>5, AroundAnswers DEF Refused, vars
  <2>2. DeadEnd
    BY <1>1, <2>1 DEF RefusedInv
  <2>3. plan'.idx = plan.idx
    BY <1>0, <1>1, <2>1, RecordedBefore
  <2> QED BY <1>0, <1>1, <2>2, <2>3, EndStays
<1> QED BY <1>3, <1>4, <1>5 DEF Next

-----------------------------------------------------------------------------
(* All of it holds of every state. *)

RefusalInv == Lawful /\ ModeInv /\ PendingInv /\ RefusedInv

LEMMA RefusalInit ==
  ASSUME Init
  PROVE  RefusalInv
<1>0. /\ plan.idx = 1 /\ plan.last = "none" /\ proc.pc = "start"
      /\ st.mode = "normal" /\ ctl.mode = "normal"
  BY DEF Init, NewState
<1>1. Lawful
  BY EntryAssumption DEF Init, Lawful
<1>2. RebuildIndex \in {7, 10} /\ Reached = 1
  BY <1>0 DEF RebuildIndex, Reached
<1>3. ModeInv
  BY <1>0, <1>2 DEF ModeInv, ModeTrue, ModeDue, ModeAt
<1>4. PendingInv
  BY <1>0, <1>2 DEF PendingInv, Pending, Activated
<1>5. RefusedInv
  BY <1>0 DEF RefusedInv, Refused
<1> QED BY <1>1, <1>3, <1>4, <1>5 DEF RefusalInv

LEMMA RefusalStep ==
  ASSUME EngineInv, RefusalInv, [Next]_vars
  PROVE  RefusalInv'
<1>1. Types /\ Given /\ Placed /\ EntryInv
  BY DEF EngineInv
<1>2. Lawful'
  BY <1>1, GivenStep DEF RefusalInv, Lawful
<1>3. ModeInv'
  BY <1>1, ModeStep DEF RefusalInv
<1>4. Placed' /\ RebuildInv'
  BY StepInv DEF EngineInv
<1>5. PendingInv'
  BY <1>4, PendingStep DEF RefusalInv
<1>6. RefusedInv'
  BY RefusedStep DEF RefusalInv
<1> QED BY <1>2, <1>3, <1>5, <1>6 DEF RefusalInv

\* An action is refused only where the code has no way on: after a power
\* loss or a recover, which take the controller out of the mode the state
\* file holds; at qualify-blocks over an erase in flight; and at the entry by
\* a loader that does not re-enumerate.  In particular no interruption, kill
\* or resume leaves an action behind that shuts out its successor or itself.
THEOREM RefusalsKnown == Spec => []RefusedOnlyKnown
<1>1. RefusalInv => RefusedOnlyKnown
  BY DEF RefusalInv, RefusedInv, RefusedOnlyKnown, KnownDeadEnd, Straight, DeadEnd,
         LoaderEnd, QualifyEnd
<1>2. Init => RefusalInv
  BY RefusalInit
<1>3. EngineInv /\ RefusalInv /\ [Next]_vars => RefusalInv'
  BY RefusalStep
<1> QED BY <1>1, <1>2, <1>3, EngineHolds, PTL DEF Spec
=============================================================================
