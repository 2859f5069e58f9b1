----------------------------- MODULE BlockDrive -----------------------------
(***************************************************************************)
(* The block backends on their unit: how nclr-scsi and nclr-sd-native find *)
(* the erase a unit documents, claim its coverage in a plan, and issue it, *)
(* one command at a time, while the unit erases, other programs use it,    *)
(* the transport fails and the card in the reader is exchanged.            *)
(*                                                                         *)
(* EraseRun has the core's side of these calls; here are their commands.   *)
(* A cell is four bytes of a REPORT SUPPORTED OPERATION CODES answer.      *)
(***************************************************************************)
EXTENDS Integers, FiniteSets, SequencesExt

CONSTANTS
    Models,       \* units, each with what it documents and how it behaves
    Sector,       \* bytes of a sector: 512 in the code
    MaxArgument,  \* largest argument of an SD command: 2^32 - 1
    AllocCells,   \* cells the backend asks of the operation-code report
    MaxFaults,    \* bound: transport failures, timeouts and damaged reports
    MaxCalls,     \* bound: runs of the erase, the later ones by a resume
    MaxOther      \* bound: requests of other programs, exchanges of the card

VARIABLES
    hw,    \* the two units that may be in the slot
    slot,  \* the one that is
    plan,  \* the erase the plan claims
    call,  \* the backend's present call, or the outcome of the last
    left   \* of each bound

vars == <<hw, slot, plan, call, left>>

Domains == {"D0", "D1", "D2"}
CellsOf == [plain |-> 2, timed |-> 5]

(***************************************************************************)
(* REPORT SUPPORTED OPERATION CODES: encoded by the unit, parsed by        *)
(* parse_rsocc.  A descriptor is two cells, or five with timeout data,     *)
(* which may look like anything.                                           *)
(***************************************************************************)
Timeout == [op |-> "sanitize", sa |-> "block", all |-> FALSE, timed |-> FALSE]

Encoded(list) ==
    FlattenSeq([i \in DOMAIN list |->
        << list[i], list[i] >> \o (IF list[i].timed THEN << Timeout, Timeout, Timeout >> ELSE <<>>)])

(* An offset that is not the next descriptor's is skipped; bad = Err.      *)
Parse(cells) ==
    FoldLeft(LAMBDA s, i :
               IF i # s.next \/ i = Len(cells) \/ s.bad THEN s
               ELSE LET d == [op |-> cells[i].op, sa |-> cells[i].sa, all |-> cells[i + 1].all]
                        step == IF cells[i + 1].timed THEN CellsOf.timed ELSE CellsOf.plain
                    IN  [next |-> i + step, out |-> s.out \cup {d}, bad |-> i + step > Len(cells) + 1],
             [next |-> 1, out |-> {}, bad |-> FALSE], [i \in DOMAIN cells |-> i])

ParseRsocc_Plain(answer) ==   \* mutant: a timed descriptor is stepped over as a plain one
    LET cells == SubSeq(answer.cells, 1, answer.declared)
    IN  IF answer.declared > Len(answer.cells) THEN {}
        ELSE { [op |-> cells[i].op, sa |-> cells[i].sa, all |-> cells[i + 1].all] :
                 i \in { j \in 1 .. Len(cells) - 1 : j % 2 = 1 } }

(* {} also stands for a report that cannot be parsed: the probe goes on    *)
(* without the capability.                                                 *)
ParseRsocc(answer) ==
    LET parsed == Parse(SubSeq(answer.cells, 1, answer.declared))
    IN  IF answer.declared > Len(answer.cells) \/ parsed.bad \/ parsed.next # answer.declared + 1
        THEN {} ELSE parsed.out

Supports(commands, sa) ==
    \E c \in commands : c.op = "sanitize" /\ (c.all \/ c.sa = sa)

EraseCapability(commands) ==
    CASE Supports(commands, "block") -> [method |-> "sanitize-block-erase", coverage |-> Domains]
      [] Supports(commands, "crypto") -> [method |-> "sanitize-crypto-erase", coverage |-> {"D0"}]
      [] OTHER -> [method |-> "none", coverage |-> {}]

(***************************************************************************)
(* The layout of an SD card and the arguments of its erase.                *)
(***************************************************************************)
Addressing(m) == CASE m.csd = 0 -> "byte" [] m.csd \in {1, 2} -> "block" [] OTHER -> "undefined"

(* card_erase_layout and full_range_arguments; <<>> is Err.                *)
FullRange(m, sectors) ==
    LET end == IF Addressing(m) = "byte" THEN (sectors - 1) * Sector ELSE sectors - 1
    IN  IF \/ Addressing(m) = "undefined" \/ ~m.class5 \/ sectors = 0
           \/ m.group < Sector \/ m.group % Sector # 0 \/ sectors % (m.group \div Sector) # 0
           \/ end > MaxArgument
        THEN <<>> ELSE <<0, end>>

(* R1 bits that mean an erase did not happen; "ready" is not one.          *)
EraseErrors == {"out-of-range", "illegal", "erase-sequence", "wp-skip"}

(***************************************************************************)
(* The units, external to the code.                                        *)
(***************************************************************************)
All(m) == 0 .. m.sectors - 1
Fresh(m) == [model |-> m, state |-> "idle", erased |-> {}, scope |-> {}, range |-> <<>>, accepted |-> 0]

Documented(m) == { [op |-> d.op, sa |-> d.sa, all |-> d.all] : d \in ToSet(m.list) }
ServiceAction(method) == IF method = "sanitize-block-erase" THEN "block" ELSE "crypto"
ScopeOf(method) == IF method = "sanitize-block-erase" THEN Domains ELSE {"D0"}

(* SANITIZE is refused while one runs, or if it or IMMED is not supported. *)
Takes(u, method, immed) ==
    /\ u.state # "running" /\ Supports(Documented(u.model), ServiceAction(method))
    /\ immed => u.model.immed

Starts(u, scope) == [u EXCEPT !.state = "running", !.scope = scope, !.erased = {}, !.accepted = @ + 1]

(* CMD32 and CMD33 form a sequence; any other command resets it.           *)
SectorOf(m, argument) == IF m.csd = 0 THEN argument \div Sector ELSE argument
InRange(u, argument) == SectorOf(u.model, argument) < u.model.sectors

R1Of(u, opcode, argument) ==
    {"ready"} \cup
    CASE opcode = 32 -> IF InRange(u, argument) THEN {} ELSE {"out-of-range"}
      [] opcode = 33 -> (IF InRange(u, argument) THEN {} ELSE {"out-of-range"})
                        \cup (IF Len(u.range) = 1 THEN {} ELSE {"erase-sequence"})
      [] opcode = 38 -> (IF Len(u.range) = 2 THEN {} ELSE {"erase-sequence"})
                        \cup (IF u.model.protected # {} THEN {"wp-skip"} ELSE {})

AfterCommand(u, opcode, argument) ==
    CASE R1Of(u, opcode, argument) \cap {"out-of-range", "erase-sequence"} # {} -> [u EXCEPT !.range = <<>>]
      [] opcode = 32 -> [u EXCEPT !.range = <<argument>>]
      [] opcode = 33 -> [u EXCEPT !.range = Append(@, argument)]
      [] OTHER       -> Starts(u, {"D0"})

Reach(u) ==
    IF u.model.kind = "scsi" THEN All(u.model)
    ELSE (SectorOf(u.model, u.range[1]) .. SectorOf(u.model, u.range[2])) \ u.model.protected

(***************************************************************************)
(* Calls.                                                                  *)
(***************************************************************************)
NoCall == [pc |-> "none", fd |-> 1, alive |-> TRUE, method |-> "none", args |-> <<>>,
           base |-> 0, result |-> "none"]
NoPlan == [method |-> "none", coverage |-> {}]

Init ==
    /\ \E m, n \in Models : m.kind = n.kind /\ hw = <<Fresh(m), Fresh(n)>>
    /\ slot = 1
    /\ plan = [NoPlan EXCEPT !.method = "unplanned"]
    /\ call = NoCall
    /\ left = [faults |-> MaxFaults, calls |-> MaxCalls, other |-> MaxOther]

Unit == hw[call.fd]
Name == hw[slot].model            \* the unit that /sys/block/<name> describes
Ended(result) == [call EXCEPT !.pc = "none", !.result = result]
NoFault == UNCHANGED left
Fault == left.faults > 0 /\ left' = [left EXCEPT !.faults = @ - 1]

(* What the unit reports: cut to the length asked, or damaged on its way.  *)
Whole(m) == LET cells == Encoded(m.list)
            IN  [declared |-> Len(cells), cells |-> SubSeq(cells, 1, Min({Len(cells), AllocCells}))]
Short(m) == { [Whole(m) EXCEPT !.cells = SubSeq(@, 1, Len(@) - 1)],
              [Whole(m) EXCEPT !.declared = @ - 1] }

(* probe and plan: what the plan will claim.                               *)
Probe ==
    /\ plan.method = "unplanned" /\ slot = 1
    /\ LET m == Name
       IN  \/ m.kind = "scsi" /\ NoFault /\ plan' = EraseCapability(ParseRsocc(Whole(m)))
           \/ /\ m.kind = "scsi" /\ m.list # <<>> /\ Fault
              /\ \E answer \in Short(m) : plan' = EraseCapability(ParseRsocc(answer))
           \/ m.kind = "sd" /\ NoFault
              /\ plan' = IF FullRange(m, m.sectors) = <<>> THEN NoPlan
                         ELSE [method |-> "sd-full-range-erase", coverage |-> {"D0"}]
    /\ UNCHANGED <<hw, slot, call>>

(* run device-user-area-erase, on the unit the core has verified; not for  *)
(* an erase that has ended or is being monitored.                          *)
Run ==
    /\ plan.method \notin {"unplanned", "none"} /\ call.pc = "none"
    /\ slot = 1 /\ left.calls > 0 /\ call.result \notin {"completed", "started"}
    /\ call' = [NoCall EXCEPT !.pc = IF Name.kind = "scsi" THEN "reprobe" ELSE "layout",
                              !.base = hw[1].accepted]
    /\ left' = [left EXCEPT !.calls = @ - 1]
    /\ UNCHANGED <<hw, slot, plan>>

(* nclr-scsi probes again; a report that is lost leaves no method.         *)
Reprobe ==
    /\ call.pc = "reprobe"
    /\ \/ /\ NoFault /\ call.alive
          /\ LET found == EraseCapability(ParseRsocc(Whole(Unit.model)))
             IN  call' = IF found.method = "none" THEN Ended("failed")
                         ELSE [call EXCEPT !.pc = "immed", !.method = found.method]
       \/ (IF call.alive THEN Fault ELSE NoFault) /\ call' = Ended("failed")
    /\ UNCHANGED <<hw, slot, plan>>

CheckCondition(outcome) == outcome = "check-condition"

(* One SANITIZE through SG_IO: taken; rejected, now and then for a reason  *)
(* that passes; or its answer is lost, taken or not.                       *)
SgOutcomes == {"good", "check-condition", "lost"}

Sanitize(immed, outcome) ==
    LET takes == call.alive /\ Takes(Unit, call.method, immed)
        on == [hw EXCEPT ![1] = Starts(@, ScopeOf(call.method))]
    IN  \/ outcome = "good" /\ takes /\ NoFault /\ hw' = on
        \/ outcome = "check-condition" /\ call.alive /\ hw' = hw /\ (IF takes THEN Fault ELSE NoFault)
        \/ outcome = "lost" /\ ~call.alive /\ NoFault /\ hw' = hw
        \/ outcome = "lost" /\ Fault /\ (hw' = hw \/ (takes /\ hw' = on))

StartImmed ==
    /\ call.pc = "immed"
    /\ \E o \in SgOutcomes :
         /\ Sanitize(TRUE, o)
         /\ call' = IF o = "good" THEN Ended("started")
                    ELSE IF CheckCondition(o) THEN [call EXCEPT !.pc = "blocking"]
                    ELSE Ended("failed")
    /\ UNCHANGED <<slot, plan>>

StartBlocking ==
    /\ call.pc = "blocking"
    /\ \E o \in SgOutcomes :
         /\ Sanitize(FALSE, o)
         /\ call' = IF o = "good" THEN [call EXCEPT !.pc = "wait"] ELSE Ended("failed")
    /\ UNCHANGED <<slot, plan>>

(* nclr-sd-native reads the layout of the card behind the name of its      *)
(* descriptor; the sectors are those of the descriptor.                    *)
Layout ==
    /\ call.pc = "layout"
    /\ LET args == FullRange(Name, Unit.model.sectors)
       IN  call' = IF args = <<>> THEN Ended("failed")
                   ELSE [call EXCEPT !.pc = "start", !.args = args]
    /\ UNCHANGED <<hw, slot, plan, left>>

(* send_cmd: the ioctl fails on a removed card, or the card answers R1.    *)
Send(opcode, argument, next) ==
    /\ IF call.alive /\ Unit.state # "running"
       THEN /\ hw' = [hw EXCEPT ![1] = AfterCommand(@, opcode, argument)]
            /\ call' = IF R1Of(Unit, opcode, argument) \cap EraseErrors # {} /\ hw'[1].state # "running"
                       THEN Ended("failed") ELSE [call EXCEPT !.pc = next]
       ELSE hw' = hw /\ call' = Ended("failed")
    /\ UNCHANGED <<slot, plan, left>>

SendStart == call.pc = "start" /\ Send(32, call.args[1], "end")
SendEnd == call.pc = "end" /\ Send(33, call.args[2], "erase")
SendErase == call.pc = "erase" /\ Send(38, 0, "busy")

(* The ioctl of a blocking SANITIZE or of CMD38 returns when the unit is   *)
(* done, or when its time is up, which each backend reads differently.     *)
Wait ==
    /\ call.pc \in {"wait", "busy"}
    /\ \/ /\ Unit.state # "running" /\ NoFault
          /\ call' = Ended(IF \/ ~call.alive \/ Unit.state = "failed"
                              \/ call.pc = "busy" /\ R1Of(Unit, 38, 0) \cap EraseErrors # {}
                           THEN "failed" ELSE "completed")
       \/ /\ Unit.state = "running" /\ Fault
          /\ call' = Ended(IF call.pc = "busy" THEN "interrupted" ELSE "failed")
    /\ UNCHANGED <<hw, slot, plan>>

(* status of nclr-scsi, asked while the core monitors a started erase; a   *)
(* status that cannot be read is an erase in progress.                     *)
Status ==
    /\ call.pc = "none" /\ call.result = "started" /\ call.alive
    /\ \/ /\ NoFault
          /\ call' = Ended(CASE Unit.state = "done" -> "completed"
                             [] Unit.state = "failed" -> "failed"
                             [] OTHER -> "started")
       \/ Fault /\ call' = Ended("started")
    /\ UNCHANGED <<hw, slot, plan>>

(* The unit goes on by itself.                                             *)
Erases ==
    /\ hw[1].state = "running"
    /\ hw' \in { [hw EXCEPT ![1].state = "done", ![1].erased = Reach(hw[1])],
                 [hw EXCEPT ![1].state = "failed"] }
    /\ UNCHANGED <<slot, plan, call, left>>

Other == left.other > 0 /\ left' = [left EXCEPT !.other = @ - 1]

(* Another program's request reaches the card between two commands.        *)
OtherRequest ==
    /\ Other /\ hw[1].state # "running" /\ hw[1].range # <<>>
    /\ hw' = [hw EXCEPT ![1].range = <<>>]
    /\ UNCHANGED <<slot, plan, call>>

(* The unit is taken out, or put back; an old descriptor stays dead.       *)
Exchange ==
    /\ Other /\ slot' = 3 - slot
    /\ hw' = [hw EXCEPT ![1].range = <<>>, ![1].state = IF @ = "running" THEN "failed" ELSE @]
    /\ call' = [call EXCEPT !.alive = FALSE]
    /\ UNCHANGED plan

Next ==
    \/ Probe \/ Run \/ Reprobe \/ StartImmed \/ StartBlocking
    \/ Layout \/ SendStart \/ SendEnd \/ SendErase \/ Wait \/ Status
    \/ Erases \/ OtherRequest \/ Exchange

Spec == Init /\ [][Next]_vars

(***************************************************************************)
(* Properties.                                                             *)
(***************************************************************************)

(* A plan never claims an erase its unit does not document: a timeout      *)
(* descriptor, a cut or damaged report are not taken for one.              *)
ClaimsDocumented ==
    plan.coverage \subseteq
        IF hw[1].model.kind = "sd" THEN {"D0"} ELSE EraseCapability(Documented(hw[1].model)).coverage

(* A call, or a status, answers "completed" only when every sector of the  *)
(* unit was erased, in every domain the plan claims, by a command that     *)
(* this call sent: whatever the addressing of the card, its protected      *)
(* sectors, the requests of others and an exchange of the card between     *)
(* its layout and its commands.                                            *)
CompletedIsTrue ==
    call.result = "completed" =>
        /\ hw[1].erased = All(hw[1].model)
        /\ plan.coverage \subseteq hw[1].scope
        /\ hw[1].accepted > call.base

ErasesAsClaimed == ClaimsDocumented /\ CompletedIsTrue

(* The unit takes at most one erase of a call: the blocking SANITIZE never *)
(* follows an IMMED one whose answer was lost.                             *)
OneCommand == call.pc # "none" \/ call.result # "none" => hw[1].accepted <= call.base + 1
=============================================================================
