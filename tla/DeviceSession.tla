--------------------------- MODULE DeviceSession ---------------------------
(***************************************************************************)
(* How `nclr run` and `nclr resume` keep hold of one USB controller while  *)
(* it disappears and comes back: the checks before the first action, the   *)
(* descriptors handed to the backend, the service-mode transitions, the    *)
(* re-enumeration action, the record of a new capacity, and what a resume  *)
(* accepts as the device of its journal.                                   *)
(*                                                                         *)
(* The device is what stands at the USB port of the plan.  A descriptor is *)
(* good until the device enumerates again; its node may then have another  *)
(* kernel name.  What the controller does with its blocks is left to       *)
(* ControllerEngine.                                                       *)
(***************************************************************************)
EXTENDS Integers, Sequences

CONSTANTS
  Kinds,        \* controllers: which service transitions re-enumerate
  Plans,        \* action lists of the plans
  Names,        \* kernel names a node of the device can have
  MaxEvents,    \* mounts, replugs and swaps by the environment
  MaxCrashes,   \* kills of nclr and losses of power
  MaxResumes    \* `nclr resume` invocations

Transitions == {"enter-service-mode", "exit-service-mode", "re-enumeration"}
Destructive == {"erase", "rebuild-bbt-ftl"}
Actions == Transitions \cup Destructive \cup {"power-cycle", "postcheck"}

(* What every recipe observes: the commands to the controller come before   *)
(* anything that drops the device off the bus by intent, and service mode   *)
(* is left again.                                                           *)
Recipe(plan) ==
  \A i \in 1..Len(plan) :
    /\ plan[i] \in {"power-cycle", "re-enumeration"} =>
         \A j \in i + 1..Len(plan) : plan[j] \in {"power-cycle", "re-enumeration", "postcheck"}
    /\ plan[i] = "enter-service-mode" =>
         \E j \in i + 1..Len(plan) : plan[j] = "exit-service-mode"

ASSUME DeviceSessionAssumption ==
  /\ Kinds \subseteq [enter : BOOLEAN, loader : BOOLEAN, exit : BOOLEAN]
  /\ \A k \in Kinds : k.loader => k.enter
  /\ Plans \subseteq Seq(Actions) /\ \A plan \in Plans : Recipe(plan)
  /\ "none" \notin Names
  /\ MaxEvents \in Nat /\ MaxCrashes \in Nat /\ MaxResumes \in Nat

VARIABLES
  kind,    \* the controller's transitions, and the plan
  dev,     \* the device at the port of the plan
  svc,     \* the backend's durable service mode
  jr,      \* what summarize() derives from the journal
  p,       \* the process
  past,    \* history: what was erased, how it was held, what a port gave
  spent     \* budgets spent

sessionVars == <<kind, dev, svc, jr, p, past, spent>>

PortUnits == {"ours", "other"}
Modes == {"normal", "service"}
Services == {"normal", "entry-command-pending", "entry-reenumerating",
             "loader-reenumerating", "in-service", "exit-command-pending",
             "exit-reenumerating"}
Stopped == {"refused", "failed", "interrupted", "done", "dead"}
Control == {"lookup", "check", "open", "sg", "probe", "recheck", "status",
            "prompt", "ready", "begin", "call", "awaiting", "reopen",
            "reopen-fd", "reopen-sg", "rebound", "reidentify", "commit",
            "complete"} \cup Stopped

(* The fingerprint of what is at the port, as `identify` reads it. *)
Fingerprint(d) == <<d.unit, d.shown, d.cap[d.unit]>>
PlanFingerprint == <<"ours", "normal", "planned">>
Capacities == {"planned", "rebuilt"}
Fingerprints == PortUnits \X Modes \X Capacities

Fresh(run, accepted, path) ==
  [pc |-> "check", run |-> run, unmount |-> FALSE, path |-> path,
   id |-> PlanFingerprint, fd |-> "none", sg |-> "none",
   accepted |-> accepted, act |-> 0, trans |-> 0]

SessionInit ==
  /\ \E k \in Kinds, pl \in Plans :
       kind = [enter |-> k.enter, loader |-> k.loader, exit |-> k.exit, plan |-> pl]
  /\ \E n \in Names, u \in BOOLEAN, m \in BOOLEAN :
       /\ dev = [unit |-> "ours", present |-> TRUE, name |-> n, mounted |-> m,
                 mode |-> "normal", shown |-> "normal",
                 cap |-> [v \in PortUnits |-> "planned"]]
       /\ p = [Fresh(TRUE, {PlanFingerprint}, n) EXCEPT !.unmount = u]
  /\ svc = "normal"
  /\ jr = [plan |-> FALSE, path |-> "none", accepted |-> {},
           pending |-> FALSE, done |-> 0]
  /\ past = [erased |-> {}, mountedAtYes |-> FALSE, erasedMounted |-> {},
             unpaired |-> FALSE, lost |-> FALSE, reset |-> FALSE, adopted |-> FALSE,
             taken |-> {}]
  /\ spent = [events |-> 0, crashes |-> 0, resumes |-> 0]

Devices == [unit : PortUnits, present : BOOLEAN, name : Names, mounted : BOOLEAN,
            mode : Modes, shown : Modes, cap : [PortUnits -> Capacities]]
Journals == [plan : BOOLEAN, path : Names \cup {"none"}, accepted : SUBSET Fingerprints,
             pending : BOOLEAN, done : Nat]
Descriptors == {"none", "live", "dead"}
Processes == [pc : Control, run : BOOLEAN, unmount : BOOLEAN, path : Names \cup {"none"},
              id : Fingerprints, fd : Descriptors, sg : Descriptors,
              accepted : SUBSET Fingerprints, act : Nat, trans : Nat]
Histories == [erased : SUBSET PortUnits, mountedAtYes : BOOLEAN,
              erasedMounted : SUBSET BOOLEAN, unpaired : BOOLEAN,
              lost : BOOLEAN, reset : BOOLEAN, adopted : BOOLEAN,
              taken : SUBSET PortUnits]

SessionTypeOK ==
  /\ kind.plan \in Plans /\ dev \in Devices /\ svc \in Services
  /\ jr \in Journals /\ p \in Processes /\ past \in Histories
  /\ jr.done <= Len(kind.plan) /\ p.act <= Len(kind.plan) + 1

-----------------------------------------------------------------------------
(* What a process can see of the device. *)

Named(path) == dev.present /\ dev.name = path
Accepted_Port(fp) == TRUE   \* mutant: verify_plan_device compares the port alone.
Accepted(fp) == fp \in p.accepted \cup {PlanFingerprint}
Verified(path) == Named(path) /\ Accepted(Fingerprint(dev))

(* A call of the backend reaches the device: both descriptors are of the    *)
(* device that is there, which validate_sg_fd compares.                     *)
SameDevice == p.fd = p.sg
Usable == dev.present /\ SameDevice /\ p.sg = "live"

Action == kind.plan[p.act]
Goes(pc) == p' = [p EXCEPT !.pc = pc]
At(pc) == p.pc = pc

(* The device drops off the bus and every descriptor of it with it. *)
Dead(fd) == IF fd = "live" THEN "dead" ELSE fd
Closed(q) == [q EXCEPT !.fd = Dead(q.fd), !.sg = Dead(q.sg)]
Gone(d, mode) == [d EXCEPT !.present = FALSE, !.mounted = FALSE, !.mode = mode]

-----------------------------------------------------------------------------
(* The checks before the first action. *)

(* check_mounted: a mounted target passes only if it may be unmounted.      *)
Preflight(unmount) == dev.mounted => unmount

(* identify, verify_plan_device and preflight read one identity.  A target  *)
(* that was unmounted is checked once more.                                 *)
Check ==
  /\ At("check")
  /\ \/ /\ ~Verified(p.path) \/ ~Preflight(p.unmount)
        /\ Goes("refused") /\ UNCHANGED dev
     \/ /\ Verified(p.path) /\ dev.mounted /\ p.unmount
        /\ dev' = [dev EXCEPT !.mounted = FALSE]
        /\ p' = [p EXCEPT !.unmount = FALSE]
     \/ /\ Verified(p.path) /\ ~dev.mounted
        /\ p' = [p EXCEPT !.pc = "open", !.id = Fingerprint(dev)]
        /\ UNCHANGED dev
  /\ UNCHANGED <<kind, svc, jr, past, spent>>

OpenDevice ==
  /\ At("open")
  /\ p' = IF Named(p.path) THEN [p EXCEPT !.pc = "sg", !.fd = "live"]
                           ELSE [p EXCEPT !.pc = "refused"]
  /\ UNCHANGED <<kind, dev, svc, jr, past, spent>>

OpenExtras ==
  /\ At("sg")
  /\ p' = IF Named(p.path) THEN [p EXCEPT !.pc = "probe", !.sg = "live"]
                           ELSE [p EXCEPT !.pc = "refused"]
  /\ UNCHANGED <<kind, dev, svc, jr, past, spent>>

ProbeRun ==
  /\ At("probe")
  /\ Goes(IF Usable THEN "recheck" ELSE "refused")
  /\ UNCHANGED <<kind, dev, svc, jr, past, spent>>

(* The device is still the accepted one, free, and the one first identified. *)
Unchanged == Verified(p.path) /\ ~dev.mounted /\ Fingerprint(dev) = p.id

(* summarize(): what one more record changes of the state it derives. *)
Reidentified(j, fp) == [j EXCEPT !.accepted = @ \cup {fp}]
ServiceRecord(j, fp, path) == [Reidentified(j, fp) EXCEPT !.path = path]
CapacityRecord_None(j, fp) == j   \* mutant: the new capacity is not recorded.
CapacityRecord(j, fp) == Reidentified(j, fp)

Recheck ==
  /\ At("recheck")
  /\ \/ ~Unchanged /\ Goes("refused") /\ UNCHANGED jr
     \/ /\ Unchanged /\ p.run /\ Goes("prompt")
        /\ jr' = [ServiceRecord(jr, p.id, p.path) EXCEPT !.plan = TRUE]
     \/ Unchanged /\ ~p.run /\ Goes("status") /\ UNCHANGED jr
  /\ UNCHANGED <<kind, dev, svc, past, spent>>

Status ==
  /\ At("status")
  /\ Goes(IF Usable THEN "prompt" ELSE "refused")
  /\ UNCHANGED <<kind, dev, svc, jr, past, spent>>

NextAction == jr.done + 1

(* The operator answers; only a first run looks at the device again. *)
Confirm ==
  /\ At("prompt")
  /\ \/ Goes("refused") /\ UNCHANGED past
     \/ /\ p' = IF p.run THEN [p EXCEPT !.pc = "ready"]
                ELSE [p EXCEPT !.pc = "begin", !.act = NextAction]
        /\ past' = [past EXCEPT !.mountedAtYes = dev.mounted]
  /\ UNCHANGED <<kind, dev, svc, jr, spent>>

Boundary_Identity == Verified(p.path) /\ Fingerprint(dev) = p.id   \* mutant: the boundary checks the identity and not the mounts.
Boundary == Unchanged

Ready ==
  /\ At("ready")
  /\ p' = IF Boundary THEN [p EXCEPT !.pc = "begin", !.act = 1]
                      ELSE [p EXCEPT !.pc = "refused"]
  /\ UNCHANGED <<kind, dev, svc, jr, past, spent>>

-----------------------------------------------------------------------------
(* The action loop. *)

Begin ==
  /\ At("begin")
  /\ \/ p.act > Len(kind.plan) /\ Goes("done") /\ UNCHANGED jr
     \/ /\ p.act <= Len(kind.plan)
        /\ jr' = [jr EXCEPT !.pending = @ \/ Action \in Transitions]
        /\ p' = [p EXCEPT !.trans = 0,
                   !.pc = IF Action = "re-enumeration" THEN "reopen" ELSE "call"]
  /\ UNCHANGED <<kind, dev, svc, past, spent>>

(* A completed transition is pending no more. *)
StillPending_Always == jr.pending   \* mutant: a completed transition is not noticed.
StillPending == jr.pending /\ Action \notin Transitions
Complete ==
  /\ At("complete")
  /\ jr' = [jr EXCEPT !.done = p.act, !.pending = StillPending]
  /\ p' = [p EXCEPT !.pc = "begin", !.act = @ + 1]
  /\ UNCHANGED <<kind, dev, svc, past, spent>>

Calls(action) == At("call") /\ Action = action /\ Usable

(* A call that does not reach the device ends the run. *)
CallFails ==
  /\ At("call") /\ Action \notin {"re-enumeration", "power-cycle"} /\ ~Usable
  /\ Goes("failed")
  /\ UNCHANGED <<kind, dev, svc, jr, past, spent>>

(* A transition command: the controller drops off the bus, or stays. *)
Transit(mode, drops, state) ==
  IF drops
  THEN /\ dev' = Gone(dev, mode) /\ svc' = state
       /\ p' = [Closed(p) EXCEPT !.pc = "awaiting"]
  ELSE /\ dev' = [dev EXCEPT !.mode = mode] /\ UNCHANGED <<svc, p>>

(* enter-service-mode: each call resumes at the durable stage. *)
Enter ==
  /\ Calls("enter-service-mode")
  /\ \/ /\ svc = "normal"
        /\ svc' = IF dev.mode = "service" THEN "in-service" ELSE "entry-command-pending"
        /\ UNCHANGED <<dev, p>>
     \/ /\ svc = "entry-command-pending" /\ dev.mode = "normal"
        /\ Transit("service", kind.enter, "entry-reenumerating")
     \/ /\ svc = "entry-command-pending" /\ dev.mode = "service"
        /\ svc' = IF kind.enter THEN "entry-reenumerating" ELSE "in-service"
        /\ UNCHANGED <<dev, p>>
     \/ /\ svc = "entry-reenumerating" /\ kind.loader /\ dev.mode = "service"
        /\ Transit("service", TRUE, "loader-reenumerating")
     \/ /\ svc \in {"entry-reenumerating", "loader-reenumerating", "in-service"}
        /\ svc = "entry-reenumerating" => (~kind.loader \/ dev.mode = "normal")
        /\ svc' = IF dev.mode = "service" THEN "in-service" ELSE svc
        /\ Goes(IF dev.mode = "service" THEN "complete" ELSE "failed")
        /\ UNCHANGED dev
  /\ UNCHANGED <<kind, jr, past, spent>>

Exit ==
  /\ Calls("exit-service-mode")
  /\ \/ /\ svc = "in-service" /\ svc' = "exit-command-pending"
        /\ UNCHANGED <<dev, p>>
     \/ /\ svc = "exit-command-pending" /\ dev.mode = "service"
        /\ Transit("normal", kind.exit, "exit-reenumerating")
     \/ /\ \/ svc \in {"normal", "exit-reenumerating"}
           \/ svc = "exit-command-pending" /\ dev.mode = "normal"
        /\ svc' = IF dev.mode = "normal" THEN "normal" ELSE svc
        /\ Goes(IF dev.mode = "normal" THEN "complete" ELSE "failed")
        /\ UNCHANGED dev
  /\ UNCHANGED <<kind, jr, past, spent>>

(* A destructive call acts on the device behind the sg descriptor. *)
Destroyed ==
  past' = [past EXCEPT
    !.erased = @ \cup {dev.unit},
    !.erasedMounted = @ \cup (IF dev.mounted /\ past.mountedAtYes THEN {p.run} ELSE {}),
    !.unpaired = @ \/ p.fd # "live"]

Erase ==
  /\ Calls("erase")
  /\ IF dev.mode = "service" /\ svc = "in-service"
     THEN Destroyed /\ Goes("complete")
     ELSE Goes("failed") /\ UNCHANGED past
  /\ UNCHANGED <<kind, dev, svc, jr, spent>>

(* What stands at the port may be taken for the planned unit, which it need *)
(* not be, between the start and the end of a transition.                   *)
InTransition == jr.done < Len(kind.plan) /\ kind.plan[jr.done + 1] \in Transitions
Take == [past EXCEPT !.taken = @ \cup {dev.unit}]
Taken == IF InTransition THEN Take ELSE past

(* rebuild-bbt-ftl commits a capacity that may be smaller; then the core    *)
(* reads the identity behind the path, and takes it too.                    *)
Rebuild ==
  /\ Calls("rebuild-bbt-ftl")
  /\ IF dev.mode = "service" /\ svc = "in-service"
     THEN /\ \E cap \in {dev.cap[dev.unit], "rebuilt"} :
              dev' = [dev EXCEPT !.cap[dev.unit] = cap]
          /\ Destroyed /\ Goes("commit")
     ELSE Goes("failed") /\ UNCHANGED <<dev, past>>
  /\ UNCHANGED <<kind, svc, jr, spent>>

Commit ==
  /\ At("commit")
  /\ IF Named(p.path)
     THEN /\ jr' = CapacityRecord(jr, Fingerprint(dev))
          /\ p' = [p EXCEPT !.pc = "complete", !.accepted = @ \cup {Fingerprint(dev)}]
          /\ past' = Take
     ELSE Goes("failed") /\ past' = [past EXCEPT !.lost = TRUE] /\ UNCHANGED jr
  /\ UNCHANGED <<kind, dev, svc, spent>>

(* An external power cycle, or none configured. *)
PowerCycle ==
  /\ At("call") /\ Action = "power-cycle"
  /\ \/ /\ dev' = Gone(dev, "normal")
        /\ p' = [Closed(p) EXCEPT !.pc = "complete"]
     \/ Goes("complete") /\ UNCHANGED dev
  /\ UNCHANGED <<kind, svc, jr, past, spent>>

Postcheck ==
  /\ Calls("postcheck")
  /\ Goes(IF dev.mode = "normal" THEN "complete" ELSE "failed")
  /\ UNCHANGED <<kind, dev, svc, jr, past, spent>>

-----------------------------------------------------------------------------
(* Waiting for the device. *)

MaximumTransitions == IF Action = "enter-service-mode" THEN 2 ELSE 1

Awaiting ==
  /\ At("awaiting")
  /\ p' = [p EXCEPT !.trans = @ + 1,
             !.pc = IF p.trans + 1 > MaximumTransitions THEN "failed" ELSE "reopen"]
  /\ jr' = [jr EXCEPT !.path = p.path]
  /\ UNCHANGED <<kind, dev, svc, past, spent>>

(* reopen_controller_transport takes whatever is at the physical path, once *)
(* it is not mounted.                                                       *)
Reopen ==
  /\ At("reopen") /\ dev.present
  /\ p' = IF dev.mounted THEN [p EXCEPT !.pc = "failed"]
          ELSE [p EXCEPT !.pc = "reopen-fd", !.path = dev.name, !.id = Fingerprint(dev)]
  /\ past' = Taken
  /\ UNCHANGED <<kind, dev, svc, jr, spent>>

GiveUp_Never == At("reopen") /\ ~dev.present /\ UNCHANGED sessionVars   \* mutant: the wait has no deadline.
(* The wait for an absent device is bounded. *)
GiveUp ==
  /\ At("reopen") /\ ~dev.present
  /\ Goes("failed")
  /\ UNCHANGED <<kind, dev, svc, jr, past, spent>>

ReopenDevice ==
  /\ At("reopen-fd")
  /\ p' = IF Named(p.path) THEN [p EXCEPT !.pc = "reopen-sg", !.fd = "live"]
                           ELSE [p EXCEPT !.pc = "reopen"]
  /\ UNCHANGED <<kind, dev, svc, jr, past, spent>>

ReopenExtras ==
  /\ At("reopen-sg")
  /\ p' = IF Named(p.path)
          THEN [p EXCEPT !.sg = "live",
                  !.pc = IF Action = "re-enumeration" THEN "call" ELSE "rebound"]
          ELSE [p EXCEPT !.pc = "failed"]
  /\ past' = Taken
  /\ UNCHANGED <<kind, dev, svc, jr, spent>>

(* The identity that was listed is accepted and recorded. *)
Rebound ==
  /\ At("rebound")
  /\ jr' = ServiceRecord(jr, p.id, p.path)
  /\ p' = [p EXCEPT !.pc = "call", !.accepted = @ \cup {p.id}]
  /\ UNCHANGED <<kind, dev, svc, past, spent>>

(* re-enumeration: the backend echoes the nonce of the request; the call    *)
(* and the identification are retried until the deadline.                   *)
ReEnumerate ==
  /\ At("call") /\ Action = "re-enumeration"
  /\ Goes(IF Usable THEN "reidentify" ELSE "reopen")
  /\ UNCHANGED <<kind, dev, svc, jr, past, spent>>

Reidentify ==
  /\ At("reidentify")
  /\ IF Named(p.path)
     THEN /\ jr' = ServiceRecord(jr, Fingerprint(dev), p.path)
          /\ p' = [p EXCEPT !.pc = "complete", !.accepted = @ \cup {Fingerprint(dev)}]
     ELSE Goes("reopen") /\ UNCHANGED jr
  /\ past' = Taken
  /\ UNCHANGED <<kind, dev, svc, spent>>

-----------------------------------------------------------------------------
(* The environment. *)

(* A device that dropped off comes back under some name, in its mode.       *)
Return ==
  /\ ~dev.present
  /\ \E n \in Names :
       dev' = [dev EXCEPT !.present = TRUE, !.name = n, !.shown = dev.mode]
  /\ UNCHANGED <<kind, svc, jr, p, past, spent>>

Event == spent.events < MaxEvents /\ spent' = [spent EXCEPT !.events = @ + 1]

Mount ==
  /\ Event /\ dev.present /\ ~dev.mounted
  /\ dev' = [dev EXCEPT !.mounted = TRUE]
  /\ UNCHANGED <<kind, svc, jr, p, past>>

(* The cable, a hub or the host resets the device: it falls out of service  *)
(* mode and comes back under any name.                                      *)
Reset(d, n) == [d EXCEPT !.present = TRUE, !.name = n, !.mounted = FALSE,
                         !.mode = "normal", !.shown = "normal"]

Rebuilt(d) == d.cap["ours"] = "rebuilt"

Replug ==
  /\ Event /\ dev.present
  /\ \E n \in Names : dev' = Reset(dev, n)
  /\ p' = Closed(p)
  /\ past' = [past EXCEPT !.reset = @ \/ Rebuilt(dev)]
  /\ UNCHANGED <<kind, svc, jr>>

(* Another unit of the same model is plugged into the port, at any time;    *)
(* one with a damaged firmware may come up in service mode.                 *)
SwapUnit ==
  /\ Event
  /\ \E n \in Names, u \in PortUnits \ {dev.unit} :
       \E m \in IF u = "ours" THEN {"normal"} ELSE Modes :
         dev' = [Reset(dev, n) EXCEPT !.unit = u, !.mode = m, !.shown = m]
  /\ p' = Closed(p)
  /\ past' = [past EXCEPT !.reset = @ \/ Rebuilt(dev)]
  /\ UNCHANGED <<kind, svc, jr>>

Crashes == spent.crashes < MaxCrashes /\ spent' = [spent EXCEPT !.crashes = @ + 1]

Kill ==
  /\ Crashes /\ p.pc \notin Stopped
  /\ p' = [p EXCEPT !.pc = "dead", !.fd = "none", !.sg = "none"]
  /\ past' = [past EXCEPT !.lost = @ \/ At("commit")]
  /\ UNCHANGED <<kind, dev, svc, jr>>

PowerCut ==
  /\ Crashes /\ p.pc \notin Stopped
  /\ p' = [p EXCEPT !.pc = "dead", !.fd = "none", !.sg = "none"]
  /\ \E n \in Names : dev' = Reset(dev, n)
  /\ past' = [past EXCEPT !.lost = @ \/ At("commit"), !.reset = @ \/ Rebuilt(dev)]
  /\ UNCHANGED <<kind, svc, jr>>

-----------------------------------------------------------------------------
(* `nclr resume`.  It accepts every identity of the journal; while a        *)
(* re-enumeration is pending it also accepts what is at the physical path.  *)

Resume ==
  /\ p.pc \in Stopped \ {"done"} /\ jr.plan /\ spent.resumes < MaxResumes
  /\ spent' = [spent EXCEPT !.resumes = @ + 1]
  /\ p' = [Fresh(FALSE, jr.accepted, jr.path) EXCEPT
             !.pc = IF jr.pending THEN "lookup" ELSE "check"]
  /\ past' = [past EXCEPT !.mountedAtYes = FALSE]
  /\ UNCHANGED <<kind, dev, svc, jr>>

Lookup ==
  /\ At("lookup")
  /\ p' = IF dev.present
          THEN [p EXCEPT !.pc = "check", !.path = dev.name,
                         !.accepted = @ \cup {Fingerprint(dev)}]
          ELSE [p EXCEPT !.pc = "interrupted"]
  /\ past' = [Taken EXCEPT !.adopted = @ \/ (dev.present /\ ~Accepted(Fingerprint(dev)))]
  /\ UNCHANGED <<kind, dev, svc, jr, spent>>

-----------------------------------------------------------------------------
Process ==
  \/ Check \/ OpenDevice \/ OpenExtras \/ ProbeRun \/ Recheck \/ Status \/ Confirm
  \/ Ready \/ Begin \/ Complete \/ CallFails \/ Enter \/ Exit \/ Erase \/ Rebuild
  \/ Commit \/ PowerCycle \/ Postcheck \/ Awaiting \/ Reopen \/ GiveUp
  \/ ReopenDevice \/ ReopenExtras \/ Rebound \/ ReEnumerate \/ Reidentify \/ Lookup

Environment == Return \/ Mount \/ Replug \/ SwapUnit \/ Kill \/ PowerCut

SessionNext == Process \/ Environment \/ Resume

SessionSpec == SessionInit /\ [][SessionNext]_sessionVars
(* The process is scheduled, its deadlines expire, and the operator answers. *)
SessionFairSpec == SessionSpec /\ WF_sessionVars(Process)
-----------------------------------------------------------------------------
(* Properties. *)

(* Whenever units are exchanged at the port, another than the planned one   *)
(* is erased or rebuilt only if it stood there when the code takes what it   *)
(* finds (README, section 4): in the middle of a transition, or right after  *)
(* the rebuild.  An exchange between the checks, at a prompt or between two  *)
(* actions leads to none, in that run and in every resume.  And a            *)
(* destructive command goes through the sg descriptor of the device whose    *)
(* block descriptor was opened, however often both were reopened (nclr.rs    *)
(* open_for_run, reopen_controller_transport, resume; nclr-controller.rs     *)
(* validate_sg_fd).                                                          *)
OnlyOurs ==
  SessionTypeOK /\ past.erased \subseteq {"ours"} \cup past.taken /\ ~past.unpaired

(* A medium that was mounted while the operator confirmed is not erased by  *)
(* a first run, which looks again at the destructive boundary.              *)
BoundaryChecked == TRUE \notin past.erasedMounted

(* No run, resumed or not, erases a medium that was mounted when the        *)
(* operator confirmed (README: refuses mounted media).                      *)
NeverErasesMounted == past.erasedMounted = {}

(* Whatever stopped the run, the planned unit is known to the next resume   *)
(* by the identity it now shows, unless the run died between the rebuild's  *)
(* commit and its record, a reset changed the identity of a rebuilt unit    *)
(* outside a transition, or a resume adopted an identity by its port.       *)
Waiting == p.pc \in Stopped \ {"done"} /\ jr.plan
Known == ~dev.present \/ dev.unit # "ours" \/ jr.pending
         \/ Fingerprint(dev) \in jr.accepted \cup {PlanFingerprint}
Anchored ==
  Waiting /\ ~past.lost /\ ~past.reset /\ ~past.adopted => Known

(* A run or a resume comes to an end: its waits for the device are bounded. *)
SessionEnds == p.pc \notin Stopped ~> p.pc \in Stopped
=============================================================================
