------------------------------ MODULE Planning ------------------------------
(***************************************************************************)
(* How a plan comes about and what may run it: `nclr plan` builds one from *)
(* the command line, the site's policy and what the backend's probe said;  *)
(* a hand may edit its file; `nclr run`, `nclr salvage` and `nclr resume`  *)
(* validate it, hold it against the policy of the day, and start it.       *)
(* A grade is its number, 0 to 4; an Option is a set of at most one value. *)
(***************************************************************************)
EXTENDS Plans, FiniteSetsExt

CONSTANTS
    Requests,   \* command lines
    Units,      \* devices, by what the probes of their backends answer
    Sites       \* policies

Grades == 0..4
Option(S) == {o \in SUBSET S : \A x, y \in o : x = y}
LevelGrades == [best |-> 4, lba |-> 1, device |-> 2, controller |-> 3, physical |-> 4]
Asking == [level : DOMAIN LevelGrades, min : Option(Grades), backend : Option(STRING),
           noFallback : BOOLEAN, aggressive : BOOLEAN, power : BOOLEAN, timeout : Nat]
Answers == [backend : STRING, erase : BOOLEAN, overwrite : BOOLEAN, controller : BOOLEAN,
            profile : Option(STRING), digest : BOOLEAN, physical : BOOLEAN,
            ratio : Option(Nat)]
Policies == [allowed : Option(SUBSET STRING), floor : Option(Grades), ratio : Option(Nat \X Nat)]

(* A policy whose bounds are the wrong way round is not loaded.             *)
ASSUME PlanningAssumption ==
    /\ Requests \subseteq Asking
    /\ Units \subseteq [usb : BOOLEAN, standard : Answers, controller : SUBSET Answers]
    /\ Sites \subseteq Policies /\ \A s \in Sites : \A b \in s.ratio : b[1] <= b[2]

VARIABLES
    site,       \* the policy now in force
    planFile,   \* the output of `nclr plan`: at most one plan
    run         \* the command that starts a plan, at most one, and its resume

planVars == <<site, planFile, run>>

Highest(S) == Max(S \cup {0})

-----------------------------------------------------------------------------
(* Levels: CGrade::from_level, level_name, level_ceiling, max_level_str.    *)

LevelNames == <<"lba", "device", "controller", "physical">>
LevelName(grade) == IF grade \in 1..3 THEN LevelNames[grade] ELSE "physical"

(* The name of the higher of two minima is parsed again by min_level_of.    *)
HigherMinimum_First(a, b) == LevelGrades[LevelName(a)]        \* mutant: the first one
HigherMinimum(a, b) == LevelGrades[LevelName(IF a >= b THEN a ELSE b)]
Minimum(asked, floor) ==
    {HigherMinimum(a, f) : a \in asked, f \in floor}
        \cup (IF floor = {} THEN asked ELSE {}) \cup (IF asked = {} THEN floor ELSE {})

EffectiveLevel(level, floor) ==
    IF \E f \in floor : f > LevelGrades[level] THEN LevelName(Highest(floor)) ELSE level

-----------------------------------------------------------------------------
(* Actions: the builders state kind, method and parameters of each one.     *)

Writes == PatternWrites \cup {Erase, "erase-old-rbb", "erase-data-blocks",
                              "qualify-blocks", "final-erase", "rebuild-bbt-ftl"}
Moves == {"flush", "enter-service-mode", "exit-service-mode"}
Kind(id) == CASE id \in Writes -> "destructive"
              [] id \in Moves -> "reversible"
              [] id = "power-cycle" -> "power-cycle"
              [] OTHER -> "read-only"

SalvageActions == <<"inventory", "capture-old-bbt", "enter-service-mode", "enumerate-blocks",
    "salvage-physical", "exit-service-mode", "re-enumeration">>
C3Actions == <<"inventory", "capture-old-bbt", "enter-service-mode", "erase-old-rbb",
    "qualify-blocks", "final-erase", "rebuild-bbt-ftl", "exit-service-mode", "power-cycle",
    "re-enumeration", "postcheck-c3">>
C4Actions == <<"inventory", "capture-old-bbt", "enter-service-mode", "enumerate-blocks",
    "erase-old-rbb", "erase-data-blocks", "qualify-blocks", "final-erase",
    "verify-physical-erasure", "rebuild-bbt-ftl", "exit-service-mode", "power-cycle",
    "re-enumeration", "postcheck-c4">>
ActionsFor(grade, aggressive) ==
    CASE grade = 0 -> SalvageActions
      [] grade \in 1..2 -> Recipe(IF grade = 1 THEN "C1" ELSE "C2", aggressive)
      [] grade = 3 -> C3Actions
      [] grade = 4 -> C4Actions

PowerMethod(request, probe) ==
    CASE probe.backend = "sim" -> "sim-internal" [] request.power -> "external" [] OTHER -> "none"

Action(id, request, probe, ratio) ==
    [id |-> id, kind |-> Kind(id), retries |-> 0,
     method |-> IF id = "power-cycle" THEN {PowerMethod(request, probe)} ELSE {},
     params |-> CASE id = "rebuild-bbt-ftl" -> {ratio} [] id = Erase -> {{}} [] OTHER -> {},
     timeout |-> IF request.timeout > 0 THEN {request.timeout} ELSE {}]

-----------------------------------------------------------------------------
(* Building: plan, plan_l1 to plan_c4, plan_salvage, new_plan_base.         *)

(* What the backend's answer allows: erase_user_area, controller_reinit,    *)
(* physical_scope.                                                          *)
Reinit(probe) == probe.controller /\ probe.profile # {}
Reaches(probe) == {1} \cup (IF probe.erase THEN {2} ELSE {})
    \cup (IF Reinit(probe) THEN {3} ELSE {})
    \cup (IF Reinit(probe) /\ probe.physical THEN {4} ELSE {})
Target(level, probe) ==
    IF level = "best" THEN {Max(Reaches(probe))} ELSE {LevelGrades[level]} \cap Reaches(probe)

Domains == {"D0", "D1", "D2", "D3", "D4", "D5", "D6", "D7"}

PlanOf(grade, minimum, request, probe, ratio, fallback) ==
    LET ids == ActionsFor(grade, request.aggressive)
    IN  [level |-> request.level, minimum |-> minimum, expected |-> grade,
         actions |-> [i \in DOMAIN ids |-> Action(ids[i], request, probe, ratio)],
         domains |-> Domains, fallback |-> fallback,
         aggressive |-> request.aggressive, backend |-> probe.backend,
         profile |-> probe.profile, digest |-> probe.digest,
         device |-> "ours", sealed |-> TRUE]

(* The plan an erase of the device may fall back to has the minimum of its  *)
(* own level, whatever was asked for.                                       *)
FallbackOf(request, probe) ==
    IF request.noFallback \/ ~probe.overwrite THEN {}
    ELSE {PlanOf(1, 1, [request EXCEPT !.level = "best"], probe, {}, {})}

(* enforce_minimum: a plan below its own minimum is not built.              *)
MinimumHeld(plan) == plan.expected >= plan.minimum
Built(request, level, minimum, probe, ratio) ==
    {p \in {PlanOf(g, IF minimum = {} THEN g ELSE Max(minimum), request, probe, ratio,
                   IF g = 2 THEN FallbackOf(request, probe) ELSE {})
            : g \in Target(level, probe)} : MinimumHeld(p)}

-----------------------------------------------------------------------------
(* plan_impl: the backend, the probe, the policy's share in the plan.       *)

Allows(s, backend) == \A ids \in s.allowed : backend \in ids

(* pick_backend, and of its result the answer to the probe.                 *)
Picked(s, unit, forced) ==
    {p \in {unit.standard} \cup unit.controller :
        /\ p.backend = IF forced = {} THEN unit.standard.backend ELSE CHOOSE id \in forced : TRUE
        /\ p \in unit.controller => unit.usb
        /\ Allows(s, p.backend)}

Probed(s, unit, request) ==
    LET needsController == \/ request.level \in {"controller", "physical"}
                           \/ \E g \in request.min \cup s.floor : g >= 3
        forced == IF request.backend = {} /\ needsController /\ unit.usb THEN {"controller"}
                  ELSE request.backend
        tried == IF request.level = "best" /\ request.backend = {} /\ unit.usb
                 THEN Picked(s, unit, {"controller"}) ELSE {}
    IN  CASE tried = {} -> Picked(s, unit, forced)
          [] \E p \in tried : Max(Reaches(p)) >= 3 -> tried
          [] OTHER -> Picked(s, unit, {})

(* The spare ratio of the profile is clamped into the policy's range.       *)
Clamped_No(s, ratio) == ratio                                     \* mutant
Clamped(s, ratio) ==
    IF s.ratio = {} THEN ratio
    ELSE {Max({b[1], Min({b[2], r})}) : r \in ratio, b \in s.ratio}

Planned(s, unit, request) ==
    UNION {Built(request, EffectiveLevel(request.level, s.floor),
                 Minimum(request.min, s.floor), p, Clamped(s, p.ratio))
           : p \in Probed(s, unit, request)}

(* salvage_plan_impl: a C3 plan without the policy's floor vouches for the  *)
(* profile; the plan itself only reads.                                     *)
SalvagePlanned(s, unit, request) ==
    LET asked == [request EXCEPT !.level = "controller", !.min = {3}, !.noFallback = TRUE,
                                 !.aggressive = FALSE, !.power = FALSE]
    IN  {PlanOf(0, 0, [asked EXCEPT !.level = "salvage"], base, {}, {})
         : base \in {p \in Planned([s EXCEPT !.floor = {}], unit, asked) : p.profile # {}}}

-----------------------------------------------------------------------------
(* Validating: plan::validate, expected_recipe, load_fallback_plan.         *)

R(id) == <<id, "read-only">>
S(id) == <<id, "reversible">>
D(id) == <<id, "destructive">>
PowerCycle == <<"power-cycle", "power-cycle">>

C1Expected(aggressive) ==
    << R("inventory"), D("lba-prbs-write"), S("flush"), PowerCycle, R("lba-prbs-verify") >> \o
    (IF aggressive
     THEN << D("lba-prbs-write-churn-0"), R("lba-prbs-verify-churn-0"),
             D("lba-prbs-write-churn-1"), R("lba-prbs-verify-churn-1") >>
     ELSE <<>>) \o
    << D("lba-zero-write"), S("flush"), PowerCycle, R("lba-zero-verify"),
       R("signature-check"), R("postcheck-l1") >>
C2Expected == << R("inventory"), D(Erase), R("blank-verify"), R("signature-check"), PowerCycle,
                 R("postcheck-p2") >>
ServiceEntry == << R("inventory"), R("capture-old-bbt"), S("enter-service-mode") >>
Rebuild(postcheck) == << D("rebuild-bbt-ftl"), S("exit-service-mode"), PowerCycle,
                         R("re-enumeration"), R(postcheck) >>

ExpectedRecipe(plan) ==
    CASE plan.expected = 0 ->
           IF plan.level = "salvage"
           THEN ServiceEntry \o << R("enumerate-blocks"), R("salvage-physical"),
                                   S("exit-service-mode"), R("re-enumeration") >>
           ELSE <<>>
      [] plan.expected = 1 -> C1Expected(plan.aggressive)
      [] plan.expected = 2 -> C2Expected
      [] plan.expected = 3 ->
           ServiceEntry \o << D("erase-old-rbb"), D("qualify-blocks"), D("final-erase") >>
             \o Rebuild("postcheck-c3")
      [] plan.expected = 4 ->
           ServiceEntry \o << R("enumerate-blocks"), D("erase-old-rbb"), D("erase-data-blocks"),
                              D("qualify-blocks"), D("final-erase"),
                              R("verify-physical-erasure") >> \o Rebuild("postcheck-c4")

ActionValid(action) ==
    /\ action.retries = 0 /\ action.timeout # {0}
    /\ action.kind = "power-cycle" <=> action.method # {}
    /\ action.params # {} => action.id \in {Erase, "rebuild-bbt-ftl"}

Follows_Ids(actions, recipe) ==                      \* mutant: kinds are not compared
    Len(actions) = Len(recipe) /\ \A i \in DOMAIN actions : actions[i].id = recipe[i][1]
Follows(actions, recipe) ==
    /\ Len(actions) = Len(recipe)
    /\ \A i \in DOMAIN actions : recipe[i] = <<actions[i].id, actions[i].kind>>

Replaces(fallback, plan) ==
    /\ fallback.device = plan.device /\ fallback.backend = plan.backend
    /\ fallback.expected < plan.expected

Whole(plan) ==
    /\ plan.sealed /\ (plan.profile # {} => plan.digest)
    /\ plan.level \in DOMAIN LevelGrades \cup {"salvage"}
    /\ plan.expected >= plan.minimum
    /\ plan.actions # <<>> /\ \A i \in DOMAIN plan.actions : ActionValid(plan.actions[i])
    /\ Follows(plan.actions, ExpectedRecipe(plan))
    /\ plan.domains = Domains

(* The fallback is validated like the plan; it has none of its own.         *)
Valid(plan) == Whole(plan) /\ \A f \in plan.fallback : Whole(f) /\ Replaces(f, plan)

-----------------------------------------------------------------------------
(* The policy: SiteConfig::enforce_plan, enforce_spare_ratio.               *)

RatioHeld(s, plan) ==
    \A b \in s.ratio, i \in DOMAIN plan.actions :
        plan.actions[i].id = "rebuild-bbt-ftl" =>
            \E ratio \in plan.actions[i].params : \E r \in ratio : r \in b[1]..b[2]

FloorHeld_Expected(s, plan) == \A f \in s.floor : plan.expected >= f    \* mutant
FloorHeld(s, plan) == \A f \in s.floor : plan.expected >= f /\ plan.minimum >= f

Enforced(s, plan) ==
    /\ Allows(s, plan.backend) /\ FloorHeld(s, plan)
    /\ \A p \in {plan} \cup plan.fallback : RatioHeld(s, p)

-----------------------------------------------------------------------------
(* What the state holds. *)

Ids == Writes \cup Moves \cup PatternReads \cup
       {"inventory", "signature-check", "blank-verify", "power-cycle", "capture-old-bbt",
        "enumerate-blocks", "salvage-physical", "verify-physical-erasure", "re-enumeration",
        "postcheck-l1", "postcheck-p2", "postcheck-c3", "postcheck-c4"}
Methods == {"sim-internal", "external", "none"}
Steps == [id : Ids, kind : {"destructive", "reversible", "power-cycle", "read-only"},
          retries : Nat, method : Option(Methods), params : Option(Option(Nat)),
          timeout : Option(Nat)]
PlanFields(fallbacks) ==
    [level : DOMAIN LevelGrades \cup {"salvage"}, minimum : Grades, expected : Grades, actions : Seq(Steps),
     domains : SUBSET Domains, fallback : fallbacks, aggressive : BOOLEAN, backend : STRING,
     profile : Option(STRING), digest : BOOLEAN, device : {"ours", "other"}, sealed : BOOLEAN]
PlanSet == PlanFields(Option(PlanFields({{}})))

PlanTypeOK ==
    /\ site \in Sites
    /\ planFile \in Option([plan : PlanSet, under : Sites, edited : BOOLEAN])
    /\ run \in [how : {"none", "file", "direct", "salvage"}, min : Option(Grades),
                plan : Option(PlanSet), under : Sites, resumed : BOOLEAN]

-----------------------------------------------------------------------------
(* Commands. *)

PlanInit ==
    /\ site \in Sites /\ planFile = {}
    /\ run = [how |-> "none", min |-> {}, plan |-> {}, under |-> site, resumed |-> FALSE]

(* cmd_plan has no --power-cycle.                                           *)
WritePlan ==
    /\ planFile = {} /\ run.how = "none"
    /\ \E u \in Units, r \in Requests : \E p \in Planned(site, u, [r EXCEPT !.power = FALSE]) :
         planFile' = {[plan |-> p, under |-> site, edited |-> FALSE]}
    /\ UNCHANGED <<site, run>>

(* The actions an edit may touch: those that destroy and the power cycles.  *)
Touched(plan) ==
    {i \in DOMAIN plan.actions : plan.actions[i].kind \in {"destructive", "power-cycle"}}

(* One edit of the file, after which its hash is computed again; or not.    *)
Altered(plan) ==
    {[plan EXCEPT !.sealed = FALSE], [plan EXCEPT !.actions = Tail(@)],
     [plan EXCEPT !.domains = @ \ {"D0"}], [plan EXCEPT !.aggressive = ~@],
     [plan EXCEPT !.level = "salvage"]}
    \cup {[plan EXCEPT !.minimum = g] : g \in Grades}
    \cup {[plan EXCEPT !.expected = g] : g \in Grades}
    \cup {[plan EXCEPT !.fallback = {[plan EXCEPT !.fallback = {}]}],
          [plan EXCEPT !.fallback = {[f EXCEPT !.device = "other"] : f \in @}],
          [plan EXCEPT !.fallback = {[f EXCEPT !.minimum = 0] : f \in @}]}
    \cup UNION {{[plan EXCEPT !.actions[i].kind = "read-only"], [plan EXCEPT !.actions[i].timeout = {0}],
                 [plan EXCEPT !.actions[i].method = {}], [plan EXCEPT !.actions[i].params = {{}}],
                 [plan EXCEPT !.actions[i].retries = 1]} : i \in Touched(plan)}

Edit ==
    /\ run.how = "none"
    /\ \E f \in planFile : /\ ~f.edited
                       /\ \E p \in Altered(f.plan) : planFile' = {[f EXCEPT !.plan = p, !.edited = TRUE]}
    /\ UNCHANGED <<site, run>>

StartPlan(how, min, plan) ==
    /\ run.how = "none"
    /\ run' = [how |-> how, min |-> min, plan |-> {plan}, under |-> site, resumed |-> FALSE]
    /\ UNCHANGED <<site, planFile>>

(* cmd_run with --plan: of the command line only the file counts.           *)
RunFile ==
    \E f \in planFile, min \in {r.min : r \in Requests} :
        Valid(f.plan) /\ Enforced(site, f.plan) /\ StartPlan("file", min, f.plan)

RunDirect ==
    /\ planFile = {}
    /\ \E u \in Units, r \in Requests : \E p \in Planned(site, u, r) :
         /\ \A fb \in p.fallback : Valid(fb)
         /\ Enforced(site, p) /\ StartPlan("direct", r.min, p)

Salvage ==
    /\ planFile = {}
    /\ \E u \in Units, r \in Requests : \E p \in SalvagePlanned(site, u, r) : StartPlan("salvage", {}, p)

(* cmd_resume, cmd_resume_salvage: the journal embeds the plan.             *)
Acceptable(s, plan) == Valid(plan) /\ Enforced(s, plan)
ResumePlan ==
    /\ ~run.resumed /\ \E p \in run.plan : Acceptable(site, p)
    /\ run' = [run EXCEPT !.resumed = TRUE, !.under = site]
    /\ UNCHANGED <<site, planFile>>

ChangePolicy == ~run.resumed /\ site' \in Sites \ {site} /\ UNCHANGED <<planFile, run>>

PlanNext == WritePlan \/ Edit \/ RunFile \/ RunDirect \/ Salvage \/ ResumePlan \/ ChangePolicy
PlanSpec == PlanInit /\ [][PlanNext]_planVars

-----------------------------------------------------------------------------
(* Properties. *)

(* A plan that `run` builds itself promises at least what the command line  *)
(* and the policy ask for (nclr.rs plan_impl, plan.rs enforce_minimum).     *)
MinimumMet ==
    run.how = "direct" =>
        \A p \in run.plan : p.expected >= Highest(run.min)
                            /\ (~run.resumed => p.expected >= Highest(run.under.floor))

(* What a run or resume executes is a backend the policy in force when it   *)
(* started allows, promises the policy's floor and, the fallback included,  *)
(* keeps its spare ratio, wherever the plan came from; and one that run     *)
(* built promises what was asked for (config.rs enforce_plan, plan.rs       *)
(* enforce_minimum, nclr.rs cmd_run, cmd_resume).                           *)
PolicyHolds ==
    PlanTypeOK /\ MinimumMet /\ \A p \in run.plan : run.how # "salvage" =>
        /\ \A ids \in run.under.allowed : p.backend \in ids
        /\ p.expected >= p.minimum /\ p.minimum >= Highest(run.under.floor)
        /\ \A q \in {p} \cup p.fallback, b \in run.under.ratio : \A i \in DOMAIN q.actions :
             q.actions[i].id = "rebuild-bbt-ftl" =>
                 UNION q.actions[i].params # {}
                 /\ UNION q.actions[i].params \subseteq b[1]..b[2]

(* What is started erases only by actions it declares as destructive, so    *)
(* that the strict checks apply; a power cycle and then a reading follow    *)
(* each of them; nothing is destructive in a salvage; and what it may fall  *)
(* back to is as sound, for the same device and of lower reach (plan.rs     *)
(* validate_invariants).                                                    *)
Sound(p) ==
    \A i \in DOMAIN p.actions :
        /\ p.actions[i].id \in Writes <=> p.actions[i].kind = "destructive"
        /\ p.actions[i].kind = "destructive" =>
             /\ p.level # "salvage" \/ p.expected > 0
             /\ \E j, k \in DOMAIN p.actions :
                  /\ i < j /\ j < k
                  /\ p.actions[j].id = "power-cycle" /\ p.actions[j].method # {}
                  /\ p.actions[k].kind = "read-only"
SoundPlans ==
    \A p \in run.plan :
        Sound(p) /\ \A f \in p.fallback :
            Sound(f) /\ f.expected < p.expected /\ f.device = p.device

(* A plan that `plan` wrote, and nobody touched, is accepted by `run` as    *)
(* long as the policy stays the same; except that a profile without digest, *)
(* or without the ratio the policy bounds, is refused (plan.rs plan_l1 to   *)
(* plan_c4 against validate and enforce_plan).                              *)
OwnPlanRuns ==
    \A f \in planFile :
        /\ ~f.edited /\ f.under = site /\ (f.plan.profile # {} => f.plan.digest)
        /\ site.ratio # {} =>
             \A i \in DOMAIN f.plan.actions :
                 f.plan.actions[i].id = "rebuild-bbt-ftl" => {} \notin f.plan.actions[i].params
        => Valid(f.plan) /\ Enforced(site, f.plan)

-----------------------------------------------------------------------------
(* What is said of the program and TLC refutes: no run checks it (README,  *)
(* Findings).                                                              *)

(* --min-level sets the floor the run result must meet (README).            *)
RunHonoursMinimum == \A p \in run.plan : p.minimum >= Highest(run.min)

(* Of two minima the higher one holds (nclr.rs max_level_str).              *)
HigherOfTwo ==
    run.how = "direct" /\ ~run.resumed /\ run.min # {} /\ run.under.floor # {} =>
        \A p \in run.plan : p.minimum = Highest(run.min \cup run.under.floor)

(* A salvage that was started can be resumed under the same policy (nclr.rs *)
(* salvage_plan_impl: the floor is not a prerequisite of a reading).        *)
SalvageResumes == \A p \in run.plan : run.how = "salvage" => Acceptable(run.under, p)
=============================================================================
