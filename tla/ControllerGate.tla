--------------------------- MODULE ControllerGate ---------------------------
(***************************************************************************)
(* Who may drive a controller: how nclr-controller recognises the unit     *)
(* behind its descriptor, selects one installed production profile, and    *)
(* decides at every call whether it may send a destructive command.        *)
(*                                                                         *)
(* Nothing is remembered between calls except the controller state file:   *)
(* each probe, run, status and recover repeats the whole decision          *)
(* (platform_main).  The core probes without artifacts to make a plan,     *)
(* probes with the plan's artifacts when it opens a run or a resume, and   *)
(* then calls the actions with artifacts and state (nclr.rs).  Packages    *)
(* may be upgraded and the unit exchanged between any two calls.           *)
(***************************************************************************)
EXTENDS Naturals, Sequences, FiniteSets, SequencesExt

CONSTANTS
    Profiles,    \* production profiles a package may install
    Probes,      \* installed read-only probe profiles
    Controllers, \* the units that may be at the device path
    Packages,    \* what may be installed at first: sets of profiles
    MaxChanges,  \* packages and units exchanged in a behaviour
    None         \* an absent value

ASSUME GateAssumption ==
  MaxChanges \in Nat /\ None \notin Profiles \cup Controllers
  /\ Packages \subseteq SUBSET Profiles

\* A digest names one file.
ASSUME DigestAssumption == \A p, q \in Profiles : p.id = q.id /\ p.sha = q.sha => p = q

VARIABLES
    installed,  \* the profile files of the trusted directories
    unit,       \* the unit at the device path
    mode,       \* its mode: "normal" or "service"
    store,      \* digests of the artifacts in the user's store
    plan,       \* the profile and artifacts a plan pinned, and for which unit
    state,      \* the durable controller state of the plan
    open,       \* has this process opened the run?
    ran,        \* the destructive actions that were executed
    changes     \* exchanges so far
gateVars == <<installed, unit, mode, store, plan, state, open, ran, changes>>

UnitModes == {"normal", "service"}
-----------------------------------------------------------------------------
(* Versions.  key is what version_key makes of a spelling: separators and  *)
(* leading zeros are dropped, so two spellings may share a key.            *)

Spans(range, v) == range.min.key <= v.key /\ v.key <= range.max.key
Exact(range) == range.min = range.max

(* Installed profiles.  load refuses the whole decision when one file is   *)
(* invalid: a broken package stops every command that reads profiles.      *)

MayDestroy(p) == p.trust = "production"
Declared(p, id) == \E a \in p.artifacts : a.id = id
ArtifactOf(p, id) == CHOOSE a \in p.artifacts : a.id = id
Fixed == {"phison", "alcor", "smi", "usbest", "sandisk"}
Families == Fixed \cup {"chipsbank"}

\* A controller id belongs to a family: to a read of its id a controller
\* answers with one of its own family's (accepts_controller_id).  The
\* compiled-in reads and those of a bootstrap or probe file are meant.
ASSUME FamilyAssumption ==
  /\ \A p \in Profiles, u \in Controllers :
       p.ctrl = u.ctrl /\ (p.boot # None \/ u.family \in Fixed) => p.family = u.family
  /\ \A q \in Probes, u \in Controllers : q.ctrl = u.ctrl => q.family = u.family

Fits(kind, format) ==
  \/ format = "opaque"
  \/ <<kind, format>> \in {<<"loader", "pram">>, <<"tool", "pe">>,
       <<"recipe", "json">>, <<"trace", "pcapng">>, <<"report", "json">>}

ArtifactsValid(p) ==
  /\ \A a, b \in p.artifacts : (a.id = b.id \/ a.role = b.role) => a = b
  /\ \A a \in p.artifacts :
       /\ Fits(a.kind, a.format)
       /\ a.ctrl = p.ctrl /\ Spans(p.fw, a.fw) /\ Spans(p.nand, a.nand)

BootstrapValid(p) ==
  p.boot # None => p.boot.family \in Families /\ p.boot.family = p.family

CommonValid(p) ==
  /\ p.trust \in {"research", "experimental", "validated", "production"}
  /\ MayDestroy(p) => p.blank \in {0, 255} /\ p.spare > 0
  /\ BootstrapValid(p)
  /\ ArtifactsValid(p)

Runtime(p) == [i \in DOMAIN p.runtime |-> ArtifactOf(p, p.runtime[i])]
Recipes(p) == {a \in ToSet(Runtime(p)) : a.kind = "recipe"}

\* What makes a profile exact: validate_pre_hil_requirements.
PreHil(p) ==
  /\ Exact(p.fw) /\ Exact(p.nand)
  /\ {"D1", "D2", "D3", "D4"} \subseteq p.coverage
  /\ {"BBT", "FTL", "spare"} \subseteq p.rebuilds
  /\ \E a \in p.artifacts : a.digest = p.evidence /\ a.kind \in {"trace", "tool"}
                                                  /\ a.format # "opaque"
  /\ IsInjective(p.runtime) /\ \A id \in ToSet(p.runtime) : Declared(p, id)
  /\ \A a \in ToSet(Runtime(p)) : a.kind # "tool"
  /\ p.loaded => \E a \in ToSet(Runtime(p)) : a.kind = "loader"
  /\ Cardinality(Recipes(p)) = 1
  /\ \A a \in Recipes(p) : a.role = "runtime" /\ a.format # "opaque"
  /\ ~p.preserve

\* Evidence from the hardware: validate_hil_qualification.
Qualified(p) ==
  /\ p.report # None
  /\ \E a \in p.artifacts : a.id = p.report.id /\ a.digest = p.report.digest
                         /\ a.kind = "report" /\ a.format = "json"

Loads(p) == CommonValid(p) /\ (MayDestroy(p) => PreHil(p) /\ Qualified(p))
-----------------------------------------------------------------------------
(* The unit, as its answers show it.  A controller in service mode may be  *)
(* mute, may show another identity, or may look as before.                 *)

Behaves == IF mode = "normal" THEN "normal" ELSE unit.service
Answers == Behaves # "mute"                     \* standard INQUIRY
Tuple == IF Behaves = "alien" THEN "service" ELSE unit.tuple
Shown == IF Behaves \in {"mute", "alien"} THEN "service" ELSE unit.tuple

Identity(family, ctrl, fw, nand) ==
  [family |-> family, ctrl |-> ctrl, fw |-> fw, nand |-> nand]
Unidentified == [key |-> 0, spelt |-> "unidentified"]

\* No profile is filed under the firmware of a controller that has not told
\* its own.  No check of a profile says so.
ASSUME FirmwareAssumption == \A p \in Profiles : p.fw.min # Unidentified

\* The compiled-in reads.  An answer counts only with its family's signature.
Signed(family) == unit.family = family /\ Behaves # "alien"
PhisonPage == Identity("phison", unit.ctrl, unit.fw, unit.nand)
SmiPage == Identity("smi", unit.ctrl, unit.fw, None)
U3ChipInfo == Identity("sandisk", unit.ctrl, unit.fw, None)
InquiryMarker == Identity("usbest", unit.ctrl, unit.fw, None)
\* Early Alcor generations answer the flash id only.
AlcorConfig ==
  IF unit.config THEN Identity("alcor", unit.ctrl, unit.fw, unit.nand)
  ELSE Identity("alcor", "alcor-by-nand", Unidentified, unit.nand)
Compiled(family) ==
  CASE ~Signed(family) -> None
    [] Signed(family) /\ family = "phison" -> PhisonPage
    [] Signed(family) /\ family = "smi" -> SmiPage
    [] Signed(family) /\ family = "sandisk" -> U3ChipInfo
    [] Signed(family) /\ family = "usbest" -> InquiryMarker
    [] Signed(family) /\ family = "alcor" -> AlcorConfig
    [] OTHER -> None

\* With no vendor id to go by, only the INQUIRY marker and the Alcor read.
Vendor ==
  CASE unit.hint # None -> Compiled(unit.hint)
    [] unit.hint = None /\ Compiled("usbest") # None -> Compiled("usbest")
    [] OTHER -> Compiled("alcor")

ProbeFiles == IF Answers THEN {q \in Probes : q.tuple = Tuple} ELSE {}
ProbeConflict ==
  \/ Cardinality(ProbeFiles) > 1
  \/ \E q \in ProbeFiles : unit.hint \notin {None, q.family}
\* Two exact reads; nothing else is tried when they disagree.
Probed(q) == IF Behaves # "alien" /\ q.ctrl = unit.ctrl /\ q.nand = unit.nand
             THEN Identity(q.family, q.ctrl, q.fw, q.nand)
             ELSE None
Detected ==
  CASE ~Answers -> None
    [] Answers /\ ProbeFiles # {} -> Probed(CHOOSE q \in ProbeFiles : TRUE)
    [] OTHER -> Vendor
-----------------------------------------------------------------------------
(* Selection of one profile. *)

Matches(p, d) == /\ p.ctrl = d.ctrl /\ Spans(p.fw, d.fw)
                 /\ d.nand # None => Spans(p.nand, d.nand)
ByIdentity ==
  IF Detected = None THEN {}
  ELSE {p \in installed : MayDestroy(p) /\ Matches(p, Detected)}
ByBootstrap ==
  IF ~Answers THEN {}
  ELSE {p \in installed : MayDestroy(p) /\ p.boot # None /\ p.boot.tuple = Tuple}
\* The bytes behind a digest have the structure their format declares.
Inspected(a) == a.format = "opaque" \/ a.body = a.format
\* files: the inherited artifacts, their ids and digests in order.
Required(p) == [i \in DOMAIN p.runtime |->
                 [id |-> p.runtime[i], digest |-> Runtime(p)[i].digest]]
ByArtifacts(files) ==
  IF files = <<>> THEN {}
  ELSE {p \in installed : MayDestroy(p) /\ Required(p) = files
                             /\ \A a \in ToSet(Runtime(p)) : Inspected(a)}

Selected(files) == ByIdentity \cup ByBootstrap \cup ByArtifacts(files)
ReadsProfiles(files) == Detected # None \/ Answers \/ files # <<>>
Selectable(files) ==
  /\ ~ProbeConflict
  /\ ReadsProfiles(files) => \A p \in installed : Loads(p)
  /\ Cardinality(Selected(files)) <= 1
  /\ \A p \in ByBootstrap : Detected # None => Detected.family = p.boot.family
Chosen(files) == IF Selected(files) = {} THEN None
                 ELSE CHOOSE p \in Selected(files) : TRUE

\* The recipe among the files, authenticated by digest and tied to the
\* profile's exact tuple (controller_recipe::validate).
RecipeOf(p) == (CHOOSE a \in Recipes(p) : TRUE).recipe
RecipeValid(p) ==
  /\ <<RecipeOf(p).ctrl, RecipeOf(p).fw, RecipeOf(p).nand>>
       = <<p.ctrl, p.fw.min, p.nand.min>>
  /\ Exact(p.fw) /\ Exact(p.nand)
  /\ IF p.boot # None THEN p.boot.family = RecipeOf(p).family
     ELSE RecipeOf(p).family \in Fixed
-----------------------------------------------------------------------------
(* The identity a destructive command rests on. *)

Same(a, b) == a.family = b.family /\ a.ctrl = b.ctrl /\ a.fw = b.fw
              /\ a.nand \in {None, b.nand}
\* A bootstrap profile: its tuple only chose the recipe; the recipe reads
\* both ids byte for byte and a compiled-in identity must agree.
ByRecipe(p) ==
  /\ p \in ByBootstrap
  /\ RecipeOf(p).ctrl = unit.ctrl /\ RecipeOf(p).nand = unit.nand
  /\ Behaves # "alien"
  /\ Detected # None =>
       Same(Detected, Identity(p.boot.family, p.ctrl, p.fw.min, p.nand.min))
\* Any other profile: the signed answer, exactly, and the NAND.
ByAnswer_NoRead(p) ==             \* mutant: a NAND the answer lacks is not read
  /\ Detected # None
  /\ RecipeOf(p).family = Detected.family
  /\ Detected.ctrl = p.ctrl /\ Detected.fw = p.fw.min
  /\ RecipeOf(p).nand = Detected.nand
ByAnswer_Ranged(p) == Detected # None /\ Matches(p, Detected)     \* mutant
ByAnswer(p) ==
  /\ Detected # None
  /\ RecipeOf(p).family = Detected.family
  /\ Detected.ctrl = p.ctrl /\ Detected.fw = p.fw.min
  /\ RecipeOf(p).nand = IF Detected.nand = None THEN unit.nand ELSE Detected.nand

Binds_AnyPlan(s, p) == s.profile = p.id /\ s.sha = p.sha          \* mutant
Binds(s, p) ==
  /\ s.plan = plan
  /\ s.profile = p.id /\ s.sha = p.sha /\ s.recipe = RecipeOf(p)
  /\ <<s.ctrl, s.fw, s.nand>> = <<p.ctrl, p.fw.min, p.nand.min>>

\* service_mode_transition_active of a state that binds.
Bound(s) == IF s = None THEN FALSE ELSE s.active

IdentityVerified(p, s) ==
  ~Bound(s) => IF p.boot # None THEN ByRecipe(p) ELSE ByAnswer(p)

\* A probe without artifacts: may a plan be made?
Advertised ==
  /\ Selectable(<<>>) /\ Answers
  /\ Chosen(<<>>) # None
  /\ Detected # None \/ ByBootstrap # {}

\* A call with artifacts; s is the state file it inherits, None without one.
Executable(files, s) ==
  /\ files # <<>>
  /\ Selectable(files)
  /\ LET p == Chosen(files) IN
       /\ p # None
       /\ Required(p) = files /\ \A a \in ToSet(Runtime(p)) : Inspected(a)
       /\ RecipeValid(p)
       /\ s # None => Binds(s, p)
       /\ ~Answers => Bound(s)
       /\ IdentityVerified(p, s)
-----------------------------------------------------------------------------
(* The core. *)

Digests == UNION {{a.digest : a \in ToSet(Runtime(p))} : p \in Profiles}

\* ControllerRunState::new.
NewState(p) == [plan |-> plan, profile |-> p.id, sha |-> p.sha,
                recipe |-> RecipeOf(p), ctrl |-> p.ctrl, fw |-> p.fw.min,
                nand |-> p.nand.min, active |-> FALSE]

\* What a plan pins, and what a state file holds.
Ids == {p.id : p \in Profiles}
Shas == {p.sha : p \in Profiles}
Pins == [profile : Ids, sha : Shas, files : {Required(p) : p \in Profiles},
         fingerprint : {u.tuple : u \in Controllers} \cup {"service"}]
States == [plan : Pins \cup {None}, profile : Ids, sha : Shas,
           recipe : {RecipeOf(p) : p \in Profiles}, ctrl : {p.ctrl : p \in Profiles},
           fw : {p.fw.min : p \in Profiles}, nand : {p.nand.min : p \in Profiles},
           active : BOOLEAN]
ASSUME NoneAssumption == None \notin Pins /\ None \notin States

\* The user may name the state file of an earlier plan's interrupted run.
GateInit ==
  /\ installed \in Packages
  /\ unit \in Controllers /\ mode = "normal"
  /\ store = {}
  /\ plan = None /\ open = FALSE
  /\ \/ state = None
     \/ \E p \in installed : Loads(p) /\ state = [NewState(p) EXCEPT !.active = TRUE]
  /\ ran = {} /\ changes = 0

\* A call changes nothing of the world.
Running == UNCHANGED <<installed, unit, store, changes>>

\* What the probe answers of an advertised profile, and the plan pins.
Pinned(p) == [profile |-> p.id, sha |-> p.sha, files |-> Required(p),
              fingerprint |-> Shown]
Plan ==
  /\ plan = None
  /\ Advertised
  /\ plan' = Pinned(Chosen(<<>>))
  /\ UNCHANGED <<mode, state, open, ran>> /\ Running

Obtainable(files) == \A f \in ToSet(files) : f.digest \in store
\* resume accepts another fingerprint while a re-enumeration is pending.
ShowsPlanned == Shown = plan.fingerprint \/ Bound(state)

\* The probe of open_for_run: the state file is opened only after it.
Admitted == /\ Obtainable(plan.files) /\ ShowsPlanned
            /\ Executable(plan.files, None)
            /\ LET p == Chosen(plan.files) IN
                 <<p.id, p.sha>> = <<plan.profile, plan.sha>>

\* nclr run or resume: open_for_run.
OpenRun ==
  /\ plan # None /\ ~open
  /\ Admitted
  /\ open' = TRUE
  /\ UNCHANGED <<mode, plan, state, ran>> /\ Running

Kept(p) == IF state = None THEN NewState(p) ELSE state

\* Every action passes the gate again, then keeps the state and acts.
Executes(p) ==
  /\ open
  /\ Executable(plan.files, state)
  /\ p = Chosen(plan.files)
  /\ ran' = ran \cup {[unit |-> unit, profile |-> p, bound |-> Bound(state)]}

\* enter-service-mode: the state says so before the controller is told.
EnterService(p) ==
  /\ Executes(p)
  /\ state' = [Kept(p) EXCEPT !.active = TRUE]
  /\ mode' \in {mode, "service"}
  /\ UNCHANGED <<plan, open>> /\ Running

\* exit-service-mode: the controller is told before the state says so.
ExitService(p) ==
  /\ Executes(p)
  /\ Bound(state)
  /\ mode' = "normal"
  /\ state' \in {state, [state EXCEPT !.active = FALSE]}
  /\ UNCHANGED <<plan, open>> /\ Running

\* Erases, programs, metadata commits.
Act(p) ==
  /\ Executes(p)
  /\ state' = Kept(p)
  /\ UNCHANGED <<mode, plan, open>> /\ Running

\* The run ends, fails, is interrupted or dies.
StopRun ==
  /\ open
  /\ open' = FALSE
  /\ UNCHANGED <<mode, plan, state, ran>> /\ Running

\* The unit loses power: a loader or a service mode does not survive it.
UnitPowerLoss ==
  /\ mode = "service"
  /\ mode' = "normal" /\ open' = FALSE
  /\ UNCHANGED <<plan, state, ran>> /\ Running

(* The world. *)
\* nclr artifact fetch or import of what the plan asks for: verified content
\* enters the store under its digest.
Import ==
  /\ plan # None
  /\ store' = store \cup {f.digest : f \in ToSet(plan.files)}
  /\ UNCHANGED <<installed, unit, mode, plan, state, open, ran, changes>>
Changed == changes < MaxChanges /\ changes' = changes + 1
Install(p) ==
  /\ Changed
  /\ installed' = IF p \in installed THEN installed \ {p}
                  ELSE {q \in installed : q.id # p.id} \cup {p}
  /\ UNCHANGED <<unit, mode, store, plan, state, open, ran>>
SwapController(u) ==
  /\ Changed
  /\ u # unit
  /\ unit' = u /\ mode' = "normal"
  /\ UNCHANGED <<installed, store, plan, state, open, ran>>

GateNext ==
  \/ Plan \/ Import \/ OpenRun \/ StopRun \/ UnitPowerLoss
  \/ \E p \in installed : EnterService(p) \/ ExitService(p) \/ Act(p)
  \/ \E p \in Profiles : Install(p)
  \/ \E u \in Controllers : SwapController(u)

GateSpec == GateInit /\ [][GateNext]_gateVars
-----------------------------------------------------------------------------
GateTypeOK ==
  /\ \A p \in installed : p \in Profiles
  /\ \A d \in store : d \in Digests
  /\ unit \in Controllers /\ mode \in UnitModes
  /\ open \in BOOLEAN /\ changes \in 0 .. MaxChanges
  /\ plan # None => plan \in Pins
  /\ state # None => state \in States
  /\ open => plan # None
  /\ \A r \in ran : r \in [unit : Controllers, profile : Profiles, bound : BOOLEAN]

\* The firmware was read, or the exact tuple of a package file stands for it.
Vouched(u, p) ==
  \/ u.fw = p.fw.min
  \/ p.boot # None /\ u.tuple = p.boot.tuple
  \/ \E q \in Probes : q.tuple = u.tuple /\ q.fw = p.fw.min
Genuine(u, p) ==
  u.family = p.family /\ u.ctrl = p.ctrl /\ u.nand = p.nand.min /\ Vouched(u, p)

(* A destructive command that does not ride on a committed service mode    *)
(* reached exactly the hardware its profile was qualified on, whatever     *)
(* route selected the profile: a clone with the same USB and SCSI strings, *)
(* another NAND behind the same controller or a firmware that only         *)
(* compares equal are never driven (verify_recipe_hardware_identity,       *)
(* verify_recipe_bootstrap_identity).                                      *)
Identified == \A r \in ran : ~r.bound => Genuine(r.unit, r.profile)

(* What is driven was qualified: exact tuple, full coverage, one recipe,   *)
(* evidence and a hardware report (validate_real_production).              *)
OnlyQualified ==
  \A r \in ran : MayDestroy(r.profile) /\ PreHil(r.profile) /\ Qualified(r.profile)

(* One plan is carried out under one profile file, over every restart and  *)
(* package upgrade (verify_binding).                                       *)
OneProfile == \A q, r \in ran : q.profile = r.profile

(* The missing identity check of service mode is earned: a command that    *)
(* rests on the state file follows one, of the same plan and profile, that *)
(* was vetted, so a state file of another plan opens nothing.              *)
ServiceEarned ==
  \A r \in ran : r.bound => \E q \in ran : ~q.bound /\ q.profile = r.profile

(* Through any packages installed and controllers exchanged, whatever was  *)
(* executed was vetted in each of these ways (nclr-controller.rs           *)
(* platform_main).                                                         *)
Vetted == GateTypeOK /\ Identified /\ OnlyQualified /\ OneProfile /\ ServiceEarned

(* Strict does not mean closed: while nothing was exchanged, a plan for a  *)
(* genuine unit in normal mode can always be opened and carried out,       *)
(* whichever of the identification routes it needs.                        *)
GenuineAdmitted ==
  LET p == Chosen(plan.files) IN
  (/\ plan # None /\ changes = 0 /\ mode = "normal"
   /\ p # None /\ Genuine(unit, p) /\ Obtainable(plan.files)
   /\ state # None => Binds(state, p))
  => Admitted /\ Executable(plan.files, state)

-----------------------------------------------------------------------------
(* What is said of the program and TLC refutes: no run checks it (README,  *)
(* Findings).                                                              *)

(* An interrupted run whose controller is in service mode can be resumed:  *)
(* nothing was exchanged, the state file binds.  The comment on            *)
(* matching_artifact_profile calls the artifacts "the durable continuation *)
(* path after service firmware changes the normal-mode identity response". *)
ServiceResumes ==
  (plan # None /\ ~open /\ changes = 0 /\ mode = "service"
   /\ Bound(state) /\ state.plan = plan /\ Obtainable(plan.files))
  => Admitted
=============================================================================
