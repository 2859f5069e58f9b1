# nclr in TLA+

Models, model-checking runs and machine-checked proofs of `nclr`, the tool in
`src/` that erases a whole USB flash device, SD card or SSD, verifies the erase
and grades it. Paths below are relative to the repository: `nclr.rs` is
`src/crates/nclr-core/src/bin/nclr.rs`, other bare names are under
`src/crates/nclr-core/src/`, backends under `src/crates/nclr-backends/src/bin/`.

`PROJECT.json` maps every definition to the lines it stands for and lists the
runs, the mutants that show each property can fail, the hazards, the findings
and the theorems.

## 1. Inventory

`nclr run` executes a *plan*, a fixed sequence of actions, on one device;
`nclr resume` continues a plan whose run was interrupted. Plans have a level:
C1 overwrites through the LBA interface, C2 uses the device's own erase, C3 and
C4 drive the flash controller below its translation layer; *salvage* reads the
NAND instead. Each action that touches the device is one short-lived backend
process. What survives a process is the journal (the "state file"), the device,
and, for the controller backend, that backend's own state file.

| part | state | operations | meets others through | hard about it |
|---|---|---|---|---|
| plans (`plan.rs`, `cmd_plan`, site policy in `config.rs`) | none: a plan is immutable; its file may be edited, the policy may change | `plan_l1`, `plan_c2`, `plan_c3`, `plan_c4`, `plan_salvage`, `validate_invariants`, `enforce_plan` | read by the executor | repeated action ids; a plan embedded in a plan; two sources of a plan and three of a minimum |
| check (`cmd_check`, `scratch_test` of the backends) | the sectors saved | identify, probe, sample, scratch test | path, backend, a run beside it | a write test that must leave no trace |
| grades (`grade.rs`, evidence in `nclr.rs`, `report.rs`) | the evidence record of a process | `apply_outcome_to_evidence`, `compute_*` | filled by the loop and by the replay of a resume | evidence of several processes must add up to that of one |
| executor (`nclr.rs`) | plan, position, evidence, flags, status | the action loop, device erase with monitor, fallback, service mode, re-enumeration, report, resume, salvage | journal, backends, power control, signals | lost answers, timeouts, a device that goes on by itself or comes back as another, crashes at every point |
| identification, safety, prompt (`device/`, `safety.rs`, `confirm.rs`) | none | checks before destruction | sysfs, operator | the time between check and use |
| journal (`journal.rs`) | the file; `seq` and `prev_hash` of each process | `open`, `record`, `summarize` | file system, lock | torn tails, failed writes, two processes |
| lock (`lock.rs`) | a file lock named after the device | `acquire`, drop | guards the journal and the device | what is read before it is held |
| backend protocol (`backend/mod.rs`), event relay (`events.rs`), signals (`signal.rs`) | child process, three channels, two threads, a flag | `call`, relay, `on_signal` | pipes of finite size | who waits for whom; who outlives whom |
| block backends (`nclr-scsi`, `nclr-sd-native`, `nclr-lba`, `scsi.rs`, `sd.rs`, `lba.rs`) | none but the device | `run`, `status`, `probe` | SG_IO, MMC ioctls | an erase that outlives its command; commands that are not one request |
| controller gate (`nclr-controller.rs` 2900-3900, `profile.rs`, `controller_probe.rs`, `artifact.rs`) | none | recognise the unit, choose a profile, bind a state | packages, artifact store, state file | clones with the same USB identity; a unit that answers as no one |
| controller engine (`nclr-controller.rs` 440-2700) | dispositions of blocks, in-flight operation, phases | every C3 and C4 action, `recover` | state file, controller | a commit whose answer is lost; an operation left in flight |
| recipes (`controller_recipe.rs`) | none | validate, encode, decode, build tables | bytes to the controller | a field too narrow aims at another block |
| state file (`controller_recipe.rs` 2288-2440) | two slots of payload and descriptor | `load_state`, `store_state` | page cache, disk | a crash between any two writes |
| USB transport (`macos_usb_bot.rs`, `usb_bot.rs`) | tag, pipes, capture decoder | `execute`, `feed` | bulk pipes, capture files | the answer of an abandoned command |
| simulated device (`sim.rs`, `nclr-sim.rs`) | blocks, table, header in one file | erase, sanitize, qualify, rebuild | file | a kill between two of its writes |
| power control (`powercycle.rs`) | none | run a command, wait | called by the loop | only a cut separates a cache from the medium |
| the rest | none that changes | vendor file readers, lab, configuration, loaders, packaging | | pure functions, I/O or other processors |

What makes each part correct:

* executor: nothing is written while an erase may run (the code keeps this but
  for the fallbacks of section 4); an erase is not repeated
  blindly; "ok" means the medium really was overwritten or erased *and* read
  back after a power cut; a resume repeats and skips nothing and grades as an
  uninterrupted run would; every process ends; only the planned unit is touched.
* plans: what is executed erases nothing it does not declare, obeys the policy
  of the day and meets its minimum; what `plan` writes, `run` accepts.
* check: only the range asked for is written, and it is restored.
* journal: whatever crashes, every reader still accepts it and it is a durable
  append-only log. State file: a restart finds the last acknowledged state or a
  newer one.
* calls: no event is lost, no backend is left running, "ok" means done.
* controller: only a vouched-for unit is driven; protected blocks are never
  touched; no block is counted erased that was not; a generation is activated
  once; what the table says is what the controller ends on.
* bytes: a command means the block it was made for; an answer is read only as
  what the unit said; a status belongs to its command.

## 2. Modules

| module | models | checked through |
|---|---|---|
| `Plans`, `Grading` | recipes, fallbacks, evidence and grades of C1 and C2 | `EraseRun` |
| `EraseRun` | executor, resume, monitor, block backends as the core sees them | itself |
| `EraseRunProofs` | theorems about `EraseRun` | `tlapm` |
| `Planning`, `PlanSamples` | the plans of every level, their file, the policy, what starts them; command lines, units and policies | `MCPlanJournal` |
| `ScratchCheck` | `check` with its scratch test | `MCIdentity` |
| `Journal` | the journal and the processes on it | `MCPlanJournal` |
| `DurableLog` | abstract: an append-only log, what `Journal` implements | `MCPlanJournal` |
| `PlanJournalProofs` | theorems about `Journal` and `Planning` | `tlapm` |
| `StateStore` | the controller's two-slot state file | itself, `MCFiles` |
| `DurableRegister` | abstract: a crash-consistent register, what `StateStore` implements | `StateStore` |
| `StateStoreProofs` | theorems about `StateStore` and `ControllerGate` | `tlapm` |
| `SimDevice`, `ControllerReport`, `SimRun` | the simulated NAND; evidence, grade and report of C2 to C4; a run of one on the other | `MCFiles` |
| `Salvage` | core, backend and the two output files of a salvage | `MCFiles` |
| `SalvageProofs` | theorem about `Salvage` | `tlapm` |
| `ControllerEngine` | the controller backend, process by process | `MCControllerEngine` |
| `ControllerProofs` | theorems about `ControllerEngine` | `tlapm` |
| `DeviceSession` | how run and resume keep hold of one unit | `MCIdentity` |
| `IdentityProofs` | theorems about `DeviceSession` and `ScratchCheck` | `tlapm` |
| `ControllerGate`, `GateMarket` | who may drive a controller; a market of units and packages | `MCIdentity` |
| `BackendCall` | one call, its threads and channels, the event relay, signals | itself |
| `BackendCallProofs` | theorems about `BackendCall` | `tlapm` |
| `Recipe`, `RecipeSession` | validation and codec of recipes; a unit that reads the bytes by its own arithmetic | `MCWire`, with the files of `MCRecipe` |
| `UsbBot` | bulk-only transport and the capture decoder | `MCWire` |
| `UsbBotProofs` | theorems about `UsbBot` | `tlapm` |
| `BlockDrive` | SANITIZE and SD erase on their units, command by command | `MCWire` |

`MCFiles` (state file, simulator, salvage), `MCPlanJournal` (journal, plans),
`MCIdentity` (session, gate, `check`) and `MCWire` (recipes, USB, drives) each
hold several independent components: a variable chooses at the start which of
them a behaviour is about, and the others stand still: the components it
extends in an initial state, those it instantiates with their variables `"off"`. Nothing is composed by that; it is a union of
state spaces, and a property of a component that is not extended starts with the
component it speaks of. Where parts do interact, they are one module: core,
backend and files in `Salvage` and `SimRun`, core, child, relay and consumer in
`BackendCall`, host, unit and capture in `UsbBot`, recipe and unit in
`RecipeSession`.

### EraseRun

`EraseRun` extends `Grading`, which extends `Plans`. `cfg` is the plan and the
options, fixed in a behaviour; `journal` what `summarize` would return; `dev`
the erase inside the device, the medium as LBA reads show it (`view`) and as a
power cut would leave it (`stable`); `run` the memory of the live process;
`report` the last result; `hist` only observes.

`BeginAction` is the head of the loop with the `action-started` record,
`PowerCycle`, `DeviceCall` and `CallFault` the action itself, `IssueErase`,
`BlockingReturns`, `MonitorPoll` and `QueryErase` the device erase, `Settle`
everything from the outcome to `action-completed`, `SwitchPlan` is
`switch_to_fallback`, `Report` the end of `run_execute_inner`, `Resume` and
`Replay` are `cmd_resume`. `Signal`, `Crash`, `EraseProgress` and `Drain` are
the world. Assumptions, each from the code or the standards it relies on:

* A run starts after the `locked` record and the confirmation (`DeviceSession`
  has what comes before).
* SCSI answers a second SANITIZE with an error while one runs, and resumes a
  sanitize after a power loss; a card answers nothing while busy and forgets its
  erase with its power.
* A card's erase may go on behind an error: any error of CMD38 but ETIMEDOUT
  fails the call (nclr-sd-native.rs 143-157), the card has no status to ask
  (`EraseKnown`), and the executor falls back. `BlindFallback` is that way, and
  the one behind a status that failed; `hist.blind` remembers it.
* A SCSI device refuses I/O while it erases (`Refuses`), so that an overwrite
  begun behind such a fallback fails there; a card takes it.
* Every block backend can also overwrite, so a C2 plan embeds the C1 plan unless
  `--no-fallback` is given.
* A journal record that fails may or may not be durable; the loop ends either
  way. The monitor may find a stall at any poll.

### Planning

`file` is the output of `nclr plan`, at most one plan, which a hand may edit and
hash again (`Edit`); `site` is the policy now in force; `run` is the command that
starts a plan, from the file or directly, and its resume. A plan keeps its
actions with their kinds and what they follow, its grade and its minimum;
`Follows` and its neighbours are the clauses of `validate_invariants`. A unit is
what the probes of its backends answer, and a grade is its number.

### ScratchCheck

`check` identifies the path, opens it again, and asks a backend to save, write,
read and restore a range; between two uses the path may come to name another
unit. `medium` is what reads show and what a power cut leaves. An `nclr run` may
erase the unit meanwhile, because `check` takes no lock. The data read back on
the restore is not compared, as in the code: `restored: true` is what the write
returned.

### Journal, StateStore

A journal line is a record with its sequence number, the digest of the line
before it and a stamp that stands for its own digest; `synced` is how much of
the file a power loss spares. `run` opens the journal under the lock; `resume`
reads it first (`Summarize`) and takes the lock later (`Acquire`), as
`cmd_resume` does. A record is written, then synced, and either may fail; a
process whose record failed may write another one, as the end of
`run_execute_inner` does (`used.behind` remembers it). Of the record states the
five that bear on a resume are kept; `awaiting-device` is written at most once
per action.

In `StateStore` `cache` is the file as processes read it, `disk` what a power
loss leaves; `Writeback` is the kernel copying any part at any time. A
descriptor lies in one sector and is written whole; a payload may be found half
written (`Torn`). `Kill` is the core killing a backend and also stands for a
write or sync that fails.

### SimDevice, ControllerReport, SimRun

A block is one page with one kind of content; an image is created with injected
faults (weak, unerasable, unreadable blocks, an aliasing address, a failing
commit). An operation writes blocks straight to the file and stores table and
header at its end; `CutPoints` are the blocks before which a kill may find it.
`SimRun` runs C2, C3 and C4 plans action by action, folds each answer into the
evidence (`ControllerReport`), and a resume folds the recorded answers again.

### ControllerEngine

`st` is the durable state of the run, saved atomically (`StateStore` justifies
that), `ctl` the controller, which goes on with an accepted operation whether or
not the host still runs, `plan` the core's view. A step is at most one command
or one save, so that a kill falls between any two. A block's content, its
disposition and the controller's own table are separate, and the properties
relate them.

### Salvage

`path` is what each output path leads to: nothing, somebody else's file, the
inode this salvage created, or that inode with a second link; `file` is the
content of the two inodes, and `foreign` becomes `"changed"` when the code
creates over, cuts or removes what is another's. `Creatable` (`create_new`) and
`Matches` (`reopen_salvage_output`: inode and link count) stand between, so the
property fails when one of them is wrong (mutant `Matches_Linked`). Other
programs move paths only between commands (`Meddle`); that a deleted inode's
number is used again is outside the model. A core that is killed leaves its
backend (`orphans`), which goes on with its sweep (`OrphanPage`, `OrphanEnd`,
`OrphanDies`) over the same inodes and on the same unit while a resume cuts and
sweeps them, since the lock died with the core; `overlap` says that an orphan
has written since the image was last cut. `Blackout` is a power loss of host and
unit. `dev` is the mode of the unit and the mode the backend's state records.

### DeviceSession, ControllerGate

`DeviceSession` follows the descriptors: node and SCSI generic descriptor are
opened one after the other by names that may change hands, the controller
disappears and returns, and a fingerprint is what `identify` can read of it.
Units are exchanged at any moment (`SwapUnit`: at a prompt, between two actions,
in a pending re-enumeration, while a run is stopped), and the new one is in any
mode. Where the code takes what stands at the port (`InTransition`, `Commit`)
`past.taken` remembers what that was. `recover` is not part of it.
`ControllerGate` repeats the whole decision of `platform_main` at each call.
Assumed there: the firmware a genuine unit shows may be vouched for by the exact
USB and SCSI tuple of a package file; the recipe's `read-controller-id` yields
the controller; no profile lists the tuple a unit shows in service mode;
signatures and hashes are not forged.

### BackendCall

Main thread, reader thread, relay thread, backend and consumer, over a socket
pair, a stdout pipe and the consumer's pipe, each with a capacity of one or two
items; deaths of the core by SIGKILL, and signals to one process or to its
terminal group. A process has a `--backend-timeout` or none (`limit`), and a
backend may hang in its device either way.

### Recipe, RecipeSession, UsbBot, BlockDrive

A recipe's bytes are small: two bits each, an integer at most four of them, so
that the border of every width is met with a few blocks. The validation is that
of the code; the unit that reads the bytes (`RecipeSession`, "hardware") uses
arithmetic written from the meaning of the layouts, so that agreement is not by
construction. `UsbBot` counts lengths in units of 13 bytes, the size of a CSW;
a command abandoned at its timeout leaves its data and status in the pipe. In
`BlockDrive` a cell is four bytes of an operation-code report; units differ in
what they document and in how their card is laid out, and other programs and
exchanges of the card come between commands.

## 3. Runs

Bounds are constants in the `.cfg` files or in the MC modules. Deadlock checking
is off everywhere: a system whose resumes, commands or stores are used up has
stopped.

| run | question | bounds, and why they are enough |
|---|---|---|
| `erase_run` | Do C1 and C2 plans on every backend keep erase and write apart, invent no evidence, and mean what "ok" says, over resumes? | 1 fault (a call, an erase, or a status query), 1 signal or crash, 2 resumes, `--backend-timeout` given, which adds the deadline's way out of each call: a run is stopped at any action, the repeated ids included; a failed run is resumed without a stop |
| `c2_liveness` | Does every process end, and is no erase repeated blindly, with status failures, options that vary and an erase left behind? | no `--backend-timeout`, as by default; 1 fault, 1 stop, 1 resume; all waits are in one erase |
| `files` | Is the state file a register, the simulated erase what it says, a salvage one sweep? | state file: 6 stores, 3 kills, so each slot is filled three times; simulator: 18 images of 9 blocks, 4 cut points, 2 kills, 2 resumes; salvage: 3 pages (sound, lost, uncorrectable), 3 faults, 3 commands, so up to two orphans beside a resume |
| `plan_journal` | Is the journal readable, resumable and a log? Does what runs obey the policy, meet its minimum and declare what it erases? | journal: 2 overlapping processes, 3 commands, a plan with a repeated id, 1 failing write or sync; plans: 19 command lines, 9 units, 6 policies, 1 edit, 1 change of policy, so that every level meets every unit and every clause of the policy |
| `controller_engine` | Do C3 and C4 keep blocks, table and capacity in agreement? | 6 blocks (one preserved, one rebuilt, one worn or marked), 4 old tables, 3 ways into service mode; 1 fault, 1 kill, 1 power loss, 2 resumes, 1 recover |
| `identity` | Is only the planned unit touched, and only under a profile that was qualified on it? Does the write test stay in its range and restore it? | session: 2 units, 2 interchangeable names (the first is given), 2 events (an exchange at any time among them), 1 crash, 1 resume, the longest plan; gate: 8 profiles, 8 sets of them installed at first, 9 units, 2 exchanges; write test: two units of 3 and 2 sectors, 42 ranges at every border of unit and arithmetic (integers up to 31), 2 faults, 1 swap |
| `backend_call` | Do calls end, report what was done and leave no backend behind? | 2 processes, 1 action of 2 steps each, channels of capacity 1, a response longer than its pipe, with and without a deadline, 1 death, 1 signal |
| `wire` | Does each command and answer mean what code and unit both take it for? | 1,083 recipe files, each right or wrong in one part; USB: 2 devices, 3 commands, a tag counter at its wrap, 2 lost frames; drives: 14 cards and 16 SCSI units, 2 faults, 2 calls, 2 interferences |
| `fallback_after_resume`, `store_killed_in_sync`, `session_mounted_resume`, `journal_failed_record` | findings (section 4) | as above, for `fallback_after_resume` 2 faults |

The data stage of `UsbBot` is at most one unit (`MaxLen`): a residue, a short
read and a status found in place of data already occur with it.

The properties, by what they guard:

* `NoWriteDuringErase`, with its explanation `EraseInv`: a failed, timed-out or
  interrupted erase is overwritten only after its end, or behind a fallback that
  the code takes without a verdict of the device (`hist.blind`): on a card, or
  when the status query itself failed. Both are in the run. `NoBlindReissue`: a device that can be asked gets at most one
  erase. `EraseEvidenceSound`, `OkMeansSanitised`: evidence and result against
  what really happened to the medium, with a device that may lie about flushes.
  `RecordsInOrder`: the records a resume counts its position from.
  `ResumeGradeAgrees`: the grade it computes from them.
* `CrashConsistent`, `ReadsCurrent`, `ImplementsRegister`; `Readable`,
  `Resumable`, `ImplementsDurableLog`: the two files, the last of each a
  refinement.
* `InRange`, `OkMeansRestored`: the scratch test. `PolicyHolds` (the minimum
  included), `SoundPlans`, `OwnPlanRuns`: plans, each from another side.
* `VerdictTrue`: an "ok" of a simulated run against the blocks, and the
  independence of verdict and capacity of where the run was cut.
* `SalvageTrue`: what is reported as acquired is one sweep whose map says which
  bytes are holes, unless an orphan wrote into the outputs since they were cut;
  no file of another is created over, cut or removed, in any run.
* `ProtectedUntouched`, `DispositionsTrue`, `OnceOnly`, `RebuiltIsCommitted`,
  `RefusedOnlyKnown`: the engine. The last says that an action is refused only
  after a loss of power or a `recover` and at the two dead ends of section 4.
* `OnlyOurs` (through paired descriptors; another unit only where the code takes
  what stands at the port, section 4), `BoundaryChecked`, `Anchored`,
  `Ends`: the session. `Vetted`: whatever a destructive command was sent to was
  genuine, under one qualified profile, or a vetted command of the plan had left
  it in service mode. `GenuineAdmitted`: the genuine is not refused. The gate.
* `NoEventLost`, `OkMeansDone`, `Reaped`, `Terminates`: calls. `Terminates` of
  `BackendCall` says that core, reader, relay and backend never wait for each
  other, with a deadline and without one; `Terminates` of `EraseRun`, that no wait
  for the device's erase is without a way out.
* `RecipesTrue`: recipes, its conjuncts `FieldsTrue` (commands and answers) and
  `MetadataSafe` (the tables a rebuild writes). `TransfersTrue`: the USB host, a
  success is the command's own; `CapturesTrue`: the importer, a record is a
  command that was on the bus and a gap is noticed. `ErasesAsClaimed`, and with
  one command: drives.

The type invariant of a component is the first conjunct of one of its
properties, where no run checks it under its own name.

**Fairness.** `EraseRun`: a process that lives and can take a step of its own
takes it, and a status call returns (`WF_vars(OwnStep \/ StatusCall)`: the
operating system schedules the process, SG_IO has a limit of 60 s in
nclr-scsi.rs 43-50, the sd backend has no status to ask for, and the monitor
sleeps between polls). A call that runs an action returns for certain only with a
`--backend-timeout` (`WF_vars(HasDeadline /\ ~AtHook /\ RunCall)`), whose default
is none (nclr.rs 552-556, backend/mod.rs 1138-1160), and the operator's
power-cycle command is never limited (powercycle.rs 13-29): `Terminates` lets a
process wait there (`Waits`). Nothing is assumed of the device: it may never
finish, and the monitor's limit (`MONITOR_STALL_SECS`) ends the process.
`DeviceSession`: the same for the process, with the operator's
answer and the deadline of a wait among its steps; a device need never come
back. `BackendCall`: weak fairness of each thread and of the kernel's wakeups; a
deadline passes, where there is one, and a consumer of `--events-fd` reads on
until it closes its end. One that stops reading and keeps its end open is
assumed away: it blocks the run (section 4). A backend that hangs without a
deadline is not: `Terminates` names that wait as the only one. No fairness is assumed of signals, crashes, resumes or
other programs.

## 4. What the findings say

With a run:

1. `fallback_after_resume` - the fallback plan of a resumed C2 run starts behind
   its first actions (nclr.rs 3261), and no later resume accepts that journal.
2. `store_killed_in_sync` - a descriptor that was written but never synced is
   trusted by the next store, which overwrites the only durable slot.
3. `session_mounted_resume` - `resume` looks at mounts and holders before it
   probes and prompts and not again; `run` does, and its comment says why.
4. `journal_failed_record` - a record that fails half-way is followed by
   "complete", appended to the fragment; no reader accepts that journal.

Stated as properties at the end of their modules, where TLC refutes them when
they are added to a run (in `Planning` and `ControllerGate` through the instance
of the MC module), but with no run of their own:

* `ControllerGate.ServiceResumes` - a controller left in service mode is refused
  by the probe of the resume (nclr.rs 4602), which is not given the state that
  could vouch for it: the durable state is opened only after the probe
  (4700-4706), where a comment of the backend calls that state the "durable
  continuation path" (nclr-controller.rs 2970-2973).
* `RecipeSession.UploadLoads` - the count an upload must have (`Divide 512`,
  `Subtract 1`, controller_recipe.rs 743-747) underflows in the check of runtime
  fields at input 0 (1311), so that every recipe with such an upload is refused;
  docs/controller-artifact-workflow.md 245 documents the upload.
* `ScratchCheck.OkMeansVerified` - a pattern that is not read back still ends in
  exit code 0: `check` (nclr.rs 5382) looks at the "ok" of the call and not at
  the status of its result.
* `ScratchCheck.AlwaysRestored` - an error of the flush or of the read-back
  returns before the saved sectors are written back (backend_common.rs 219);
  man/nclr.1 100-101 says that the test restores the range.
* `ScratchCheck.ErasedStaysErased` - `check` takes no device lock (nclr.rs 5221)
  and may restore user data over an erase that a run has already verified.
* `Planning.RunHonoursMinimum` - `run --plan` drops the value of `--min-level`
  (nclr.rs 1949), which README.md 337 calls the floor of the result.
* `Planning.HigherOfTwo` - the higher of two minima of C0 is C4, since
  `level_name` (nclr.rs 1594) has no name for C0.
* `Planning.SalvageResumes` - the policy's erase floor, lifted to start a
  salvage (nclr.rs 5937), refuses its resume (6182).

Seen while modelling, without a run of their own. In `check`: `restored: true` is
answered without reading the sectors back, and the path is opened again after
the unit was identified, so that ranges, mounts and confirmation may have been
those of another unit. In the executor:

* a failed erase call leads to the overwriting plan without a verdict of the
  device, and perhaps with the erase running, in two ways: on a card any error of
  CMD38 but a timeout is answered "failed" (nclr-sd-native.rs 143-157) and there
  is no status to ask; elsewhere the status query fails too (nclr.rs 3940-4029).
  The comment at 3970-3973 says so ("fall back without re-issuing, but say so"),
  hence no finding; `NoWriteDuringErase` excepts exactly these (`hist.blind`);
* a power-cycle action skipped on a resume without `--power-cycle` leaves the
  flag of an earlier one set (3400; constant `CycleCmdVaries`);
* the query after a rejected SANITIZE takes the completion of an earlier
  workflow for its own, and a fresh C1 run writes during an earlier SANITIZE
  (constant `StaleErase`);
* a PRBS write that exceeds its timeout is recorded as "fallback" (3909-3933)
  where the comment at 3326-3329 calls a timeout a resumable interruption;
* a resume that waited for the lock goes on from a summary made before it held
  it (6492) and repeats what another resume completed;
* a failing `awaiting-device` record is only warned about (4773); the next
  record makes the journal unreadable, with exit code 75;
* a crash between the rebuild's commit and the `capacity-committed` record
  (4178-4205) leaves a unit no resume accepts (`Anchored` names the case);
* a unit that stands at the port in place of the planned one is taken for it, and
  may then be erased, where the code expects the identity to change: when it
  reopens the transport in the middle of a transition (289-334, 3606-3634), when a
  resume finds a re-enumeration pending and looks it up by port (6542-6572), and
  at the reading after the rebuild (4190-4210). `OnlyOurs` excepts these
  (`past.taken`) and no others;
* a salvage whose core died goes on writing both outputs while a resume cuts and
  sweeps them. The map may then hold lines of two sweeps, and no one notices, for
  only the digest of the image is compared; the orphan's last store may also put
  back "in-service" in the backend's state. A salvage that was killed half-way
  through entering or leaving service mode is refused by its first resume: the
  unit is in service while the stored state says that the entry is pending, so
  `salvage-physical` is refused (nclr-controller.rs 1919) until `recover`; and a
  unit that lost its power is in normal mode while the state says "in-service";
* a resume never calls `recover` and never writes `complete`; a resume of a
  finished salvage truncates its outputs; an output's inode that was deleted and
  reused is taken for the old one (outside the model);
* Ctrl-C reaches the backend too, which shares the process group (signal.rs
  1-3), and `forced()` is never read; a core that dies leaves its backend
  running with the device's lock released (nclr.rs 466-469, 4576-4580); a
  consumer of `--events-fd` that stops reading blocks the run for good.

In the controller backend and its gate:

* `qualify-blocks` interrupted while its own erase of a block is in flight
  leaves a flight `erase-block` that every later `qualify-blocks` refuses
  (nclr-controller.rs 1627-1632 against 736-738): one of the two dead ends that
  `RefusedOnlyKnown` excepts;
* a loader that does not re-enumerate and whose answer is lost is started but not
  known to be, and the next entry is refused: the other dead end; a power loss between service entry and exit leaves a mode no command clears;
* a resumed batch may send an erase to a busy controller; a resumed
  `erase-data-blocks` counts only what was left; `recover` overwrites
  "metadata-commit-verified";
* a state bound to a unit in service mode checks no identity of the unit (about
  3696-3785); a package upgraded during the prompt is used; one invalid profile
  file refuses every command; a fuzzy version match advertises a plan that every
  run refuses.

In bytes:

* the recipe document says that the two addressing styles may not be mixed,
  where the code counts them (1505-1524); `PayloadBytes` of an empty payload is
  0; `Generation` is skipped by the width check (1311, 1347);
* the READ CAPACITY(10) fallback asks for both fields to be 0xFFFFFFFF
  (nclr-scsi.rs 112); any CHECK CONDITION leads to the blocking SANITIZE;
* an abandoned bulk-only command is never followed by a reset, so that the next
  ones fail until the pipe is empty; the capture decoder does not notice a new
  command block while data is pending (usb_bot.rs 207-229). A frame lost from
  the capture is noticed by its effect on a length, unless the host gave up on a
  command before: a unit the abandoned one left in the pipe then stands in for the
  lost packet of a later one, with the right total. A record's length and status
  are always the device's own; `TraceTrue` claims its bytes where the capture lost
  nothing or the host gave up on no command of that device, and without that
  condition is false with 4 commands, data of 2 units and 1 lost frame;
* a C4 run interrupted before its first erase reports the domain "erased"
  (report.rs 310-312).

## 5. Proofs

`tlapm` checks every theorem for all values of the constants, so for any number
of faults, stops, resumes, stores and kills.

**EraseRunProofs.** `TypeCorrect` (`Spec => []TypeOK`) and `BaseCorrect`
(`[]BaseInv`) need no assumption. `BaseInv` adds to the types that a live
process stands within its recipe (`PositionOK`) and, on the C2 plan, just behind
the completed actions of the journal (`JournalOK`): without it a process could
stand at the erase with a journal that says otherwise. `EraseCorrect` adds
`RunningOK`, the part that is about the device: while an erase runs and nothing
was fallen back from without a verdict (`hist.blind`), the journal
holds at most the inventory, no process is on the fallback plan, none stands at
`switch`, and one that settles the erase does so as "interrupted". Every action
preserves the conjunction, because each that leads away from the erase either
saw a verdict, which contradicts `dev.erase = "running"`, or interrupts, or is
the fallback without a verdict, which is what `hist.blind` records. The third
part, `BlindOK`, says whom that can happen to: a device without an erase status,
or one whose status may fail (`BlindStep`: only a status call sets it).
`WriteSafety` (`[]NoWriteDuringErase`) follows: the C2 recipe has no pattern
write. Both hold for status that fails and errors of a card's erase; they assume
`Quiet`: an erase that an earlier workflow left running is met by C2 plans only,
since a C1 plan never asks (section 4).

Second part: `EvidenceSound` (`[]EraseEvidenceSound`) assumes only `Fresh`:
no earlier workflow left a *completed* erase behind (section 4 shows that it is
needed); status may fail and an erase may be running. The invariant
`EvidenceInv` says that until the device completes an erase, neither the device,
the evidence of the process, an outcome it is about to settle, nor a record of
the journal claims one; the last part is what carries it over a resume.

`ErasedOnce` (`[]NoBlindReissue`) needs no assumption at all: between the
issue of an erase and its verdict, every way back to the erase, a failed call, a
timeout, a crash with a resume, passes the status query (`AsksFirst`), and what
has not been issued in this run is behind the boundary of the journal
(`BeforeErase`). Whether the status answers is part of the property.

Third part: `InOrder` (`[]RecordsInOrder`) needs no assumption: position,
`skipTo` and the two lists of records move together, and the switch to the
embedded plan is only taken just before the second action of the C2 plan with no
record of the C1 plan (`SwitchOK`). It says that the records are a contiguous
stretch of the recipe, and for C1 plans its beginning: behind a fallback of a
resumed run they are no prefix, which is finding 1. `OkSanitised` (`[]OkMeansSanitised`) goes back
from the report to the medium, one implication at a time: a verdict "ok" needs
evidence; each flag of the evidence, also when a resume rebuilt it, needs a
completed record; such a record was written for a write, a power cut or a
read-back that happened, in the order of the recipe; and no later step of the
workflow undoes what it found, except that an erase fallen back from without a
verdict may still blank the zeros. It assumes `Quiet`, `Fresh` and `SameCycle`
(power control is given to every process of a workflow or to none). Section 4
has the counterexample for each of them; with `SameCycle` dropped it is
`CycleCmdVaries`.

**PlanJournalProofs.** About the journal: `AlwaysReadable` (`[]Readable`), `AlwaysResumable`
(`[]Resumable`) and `JournalRefines` (`Spec => ImplementsDurableLog`) assume that
the plan is a sequence of ids. `JournalInv` says that the lock is exclusive; that
the process which holds it knows the sequence number and digest at the end of
the file, except between a write and its sync, where it knows the last line
(`Aligned`); that an action being run is started in the file and not completed
(`Begun`); and that its index is one more than the number of completed ones
(`AtBoundary`). A loss of power shortens the file, but only when it also kills
every process, so that only facts about lines have to survive it. For the
refinement the durable prefix is the log: it grows at a sync, and no step
shortens it.

The same module is about the plans: `AlwaysObeyed` (`[]PolicyHolds`), `AlwaysSound`
(`[]SoundPlans`) and `OwnAccepted` (`[]OwnPlanRuns`) hold for every command line,
unit, policy and edit of the file; `PlanningAssumption` gives the types and says
that a policy's ratio is the right way round, which loading checks. The work is
one fact about each builder and one about the validator: every plan that is
built is `Promised` (complete, what its level asks for, and obeying the policy it
was built under), and every plan that `Valid` accepts is sound. The recipes are
finite sequences, so that no induction is needed. `PlanInv` says it of the file
and of the plan that was started; a resume looks at the policy again.

**ControllerProofs.** `ProtectedStay` (`[]ProtectedUntouched`), `ToldOnce`
(`[]OnceOnly`), `RebuildCommits` (`[]RebuiltIsCommitted`) and `DispositionsStay`
(`[]DispositionsTrue`, which holds `TypeOK`) hold for any number of blocks, every profile, entry and old table, and any number of kills, faults,
losses of power, resumes and recovers. Their invariant `EngineInv` has a part for
each question, and TLC checked each part before it was proved:

* `Placed`: each program counter belongs to its action of the plan, and its loop
  variables are in range. Everything else is said by the position in the plan.
* `ProtectInv`: from the action on that finds them, the state of the file and the
  state in the process both set the marked and the preserved blocks apart
  (`Apart`), so that neither the list of targets nor an operation in flight can
  name one. `Reached` is where the plan stands once an answer is recorded: it is
  what makes `Apart` inductive over a kill between the answer and the record.
* `EntryInv`: a controller is out of its normal mode only if the saved mode says
  that a command may have taken it there; the mode is saved before the command
  is sent.
* `RebuildInv`: what holds before, at and after the rebuild. In between
  (`Transaction`) at most the generation of the state was activated, and only at a
  phase behind the saved capacity; a generation that was activated is on its way,
  has failed visibly or is committed, as long as the controller keeps its mode
  (`Committing`). That the table verified at the end is the table prepared from
  the dispositions needs that no disposition changes any more (`Sized`).

`DispositionsStay` adds `DispInv` to it, which needs `EngineInv` at every step:

* `TruthInv`: only a block with a marker is called factory-bad, only a preserved
  one system-preserved, so the blocks a verification leaves out are `Protected`.
* `SweptInv`: behind a verification that succeeded nothing that writes is running
  and no action of the plan that starts such a command is left.
* `InFlightInv`, `QualifyInv`, `FailedInv`: a program that runs is named by the
  saved state and its block has no verdict (a save precedes the command); a
  program that failed has its verdict in the saved state, or the controller still
  shows the failure (`Awaited`), and then only a process that is about to ask, or
  none, may be there. The commands that clear the failure are sent by processes
  that have settled it, which is where `FlightWait` before the first erase is
  needed; `IdleInv` says a failure and an operation are never there together.

`RefusalsKnown` (`[]RefusedOnlyKnown`) adds `RefusalInv`, which says as long as no
power was lost and nothing was recovered (`Straight`) that every action finds what
it asks for:

* `ModeInv`: the mode the state file holds is true of the controller (`ModeTrue`),
  is one the next action of the plan accepts (`ModeDue`) and fits the step at hand
  (`ModeAt`). It is inductive because each command of the entry and the exit is
  preceded by a save, and because a lost answer leaves the saved mode at
  "pending", from which the controller is asked where it is. That a loader needs
  an entry that re-enumerates is `Lawful`, from the recipes' validation.
* `PendingInv`: a rebuild that was interrupted finds the generation and the sizes
  it prepared, and the table in force under its generation is its own
  (`VerifiesOwn`), so that neither the resumption nor the last comparison refuses.
* `RefusedInv`: a refusal that is answered or recorded was given at `LoaderEnd` or
  `QualifyEnd`, and neither is left again (`EndStays`).

**IdentityProofs.** `OnlyPlanned` (`[]OnlyOurs`) and `MountSeen`
(`[]BoundaryChecked`) hold for any plan of the form the recipes have (what
destroys comes after entering and before leaving service mode; behind the power
cycle there is only a re-enumeration and the postcheck), any controller and any
number of unplugs, mounts, kills, losses of power, resumes and exchanges of
units, at any moment. `SafeInv` rests on `Trust`: wherever the process holds live
descriptors, the unit at the port is one the run has *admitted*: the planned one
or one it took as it stood there (`past.taken`). An exchange leaves no live
descriptor, and every way to a new one either passes an identity check, against
identities that are all of admitted units (`Listed`), or is one of the takings.
`InTransition` is what bounds these: outside a transition, and but for the
reading after a rebuild, nothing is taken. `Unwarned` carries the same over the prompt for a first run.
`StaysAnchored` (`[]Anchored`) is about a run that stopped: it goes through
`Anchoring`, which identity the device shows at each step of a transition. It
assumes that a controller that re-enumerates on entry does so on exit
(`k.enter => k.exit`). `controller_recipe.rs` does not require that, and the run
`identity` has no other controllers; with a re-enumerating entry and a silent
exit `Anchored` is false, because the journal then keeps the entry pending.

The same module has the write test of `check`: `StaysInRange` (`[]InRange`) and `RestoresOnOk`
(`[]OkMeansRestored`) assume sizes in bytes that fit the integers. The invariant
says what the range holds at each step of the backend (`Held`): what was saved is
what was there before, the sectors outside are untouched, and after the second
write the range is what was saved, on stable storage after the second flush.
That the sums of the bounds do not wrap is arithmetic on `MaxInt`, done once.

**SalvageProofs.** `SalvageHolds` (`[]SalvageTrue`) holds for any number of
pages, any set of lost or uncorrectable ones, and any number of crashes, signals,
moved or linked outputs, orphans and resumes. Its invariant has a part that holds
always (types, where an orphan can come from, and that what is cut or removed is
nobody else's: `BaseInv`) and a part that holds while no orphan has written since
the last cut (`~overlap`): `SweepInv` and `CleanInv`. `SweepInv` says for each place of the run
what the two files hold and what the journal says about them. Between a creation
or a cut of the outputs and the end of a sweep no summary is newer than the
outputs (`Unswept`); while a sweep runs, image and map hold its first pages, line
by line from one sweep, and its counters are zero only if all of them were read
(`Progress`); when it has ended, the newest summary is the one of the image as it
is (`Acquired`). One of the two holds wherever a run can end, so the newest
summary behind the newest outputs (`DetailsAre`) is never one of other bytes, and
a run that ends "ok" has one. `CleanInv` follows service mode through the plan:
what a command without a fault finds is what its own actions left.

**UsbBotProofs.** `TransfersStayTrue` (`[]TransfersTrue`) holds for any number of
devices and commands, data of any length, any status, stall, short or late
answer, and a host that gives up wherever it waits. It assumes, as the module
does, that fewer commands are submitted than there are tags (`MaxCommands <=
MaxTag`, 2^32 - 1 in the code): behind the wrap a status that was never collected
could meet its own tag again. `UsbInv` speaks of each device by itself (`LinkInv`),
since devices share nothing but the count of commands:

* `Numbered`: the next tag is ahead of every tag the device has seen, by its
  place in the sequence that wraps and skips zero. So a status with the tag of
  the command in progress is the answer to it (`Tells`).
* `Ordered`: every answer in the pipe ends with its status. Therefore of the data
  and status of abandoned commands the last thing is a status, and three cases
  are left for a command that reads: everything ahead is its own (`Own`); a foreign status
  is still ahead (`Behind`), which fails the command if it is read as the status;
  or it was read as data (`Spoiled`), and then what follows is a packet that is no
  status, or a status with a residue of everything asked for, which contradicts
  what was read. This is the part no test of the code reaches: the third case is
  excluded by the comparison of residue and length alone.
* `Taking`: a device still taking the data of an abandoned command swallows the
  next command block, and then owes no status with its tag.

`CapturesStayTrue` (`[]CapturesTrue`) is about the importer that reads the same
traffic from a capture, for any number of lost frames. It needs no further
assumption. `CaptureInv` relates, device by device, what the decoder holds to
what the pipe still brings:

* `Recorded`: the records say what was on the bus, and no later data change it. A
  command in the decoder is completed by the status with its own tag, of which
  there is one (`Unique`), and its length is right because the decoder compares it
  with the residue (`Pending`).
* `Collects`: whose data the command in the decoder will have when its answer
  comes. They are its own if nothing is left of an abandoned command (`Mine`).
  Otherwise what is left ends with a status, which the decoder takes for one more
  unit of data: the command then has at least one too many and is refused
  (`Over`), unless a frame is lost on the way and makes up for it. That is why
  `TraceTrue` asks for no lost frame or no abandoned command before it says whose
  the data are, and for neither when it speaks of length and status.
* `Noticed`: on a device whose commands were all waited for, each command
  captured is recorded, or waits in the decoder, or waits there for an answer that
  will not come (`Dead`), so that the import ends with it pending.

`DecodesRead`, `DecodesSent` and `DecodesGrows` say what a frame from the device,
one from the host and a step of the device do to these; `ReadsKeep` and
`SendsKeep` serve the steps of the host.

**StateStoreProofs.** `StoreTypes` needs no assumption. `CrashSafe`
(`[]CrashConsistent`), `LoadsCurrent` (`[]ReadsCurrent`) and `StoreRefines`
(`Spec => ImplementsRegister`) assume `NotKilledInSync`: no backend dies between
writing a descriptor and syncing it; finding 2 shows it is needed. The inductive
invariant `StoreInv` names one slot as *live*: it is the same on disk and in the
cache, whole, and not older than the last acknowledged state; the other slot is
*spare*: its descriptor is older, until the new descriptor is written over a
payload already synced. `LoadsNewest` turns that into what `load_state` returns,
`FillsOther` shows that a store fills the spare slot (parity of the sequence
number), and `Takeover` that the spare slot may become the live one. For the
refinement only three actions change the disk: the payload's sync changes
nothing a load sees, the descriptor's sync acknowledges, and a write-back may
change the value before.

The same module proves the gate: `AlwaysVetted` (`[]Vetted`), for any set of
packages and units and any number of exchanges. `GateInv` says that the state
file belongs to no plan yet or to the plan at hand, that everything executed went
under the profile named in it, and that if it is bound to the plan, one command
of that plan was vetted with the unit in its normal mode. That last clause is
what a unit in service mode is admitted on, since it shows no identity. Each
way of identification (compiled-in reads, a bootstrap or probe file, the recipe's
own reads) is a lemma from "it answered so" to "it is such a unit". They need
four assumptions on the constants, each named in `ControllerGate`:
`DigestAssumption`, a digest names one file; `FamilyAssumption`, a controller id
belongs to one family, which is what the ids are; `FirmwareAssumption`, no
profile is filed under the value that stands for an unread firmware version,
which no check in `profile.rs` ensures and all profiles of the repository
respect; `NoneAssumption` is about the model's absent value.

**BackendCallProofs.** `AlwaysReaped` (`[]Reaped`, which contains the types) and
`OkIsDone` (`[]OkMeansDone`) need no assumption beyond the sizes being positive.
The inductive invariant `CallInv` joins to the types three facts about each
process: `Owned`, a live backend belongs to the action its core polls, or died
waiting, for; `Fits`, what the pipe, the reader and the backend hold of a
response is at most one response; and `Honest`, the actions behind the core are
done and the present one as far as its backend has come, which may answer "ok"
only after its last step. `Honest` is what makes "ok" mean something: the
verdict is taken from `core[r].act` alone. Each action changes one process, so
that `StepOf` reduces its lemma to that process; `KeepsDies` serves every way an
nclr process may end (SIGKILL, SIGPIPE on its own line or the relay's).

`EventsArrive` (`[]NoEventLost`) is about order. What a consumer has, then the
relay's line, then the socket, is at every moment the beginning of what the
actions so far owe (`EventInv`, `Streamed`); what they owe is a recursive function
of the number of actions (`Due`), and the proof only needs that it satisfies its
equation at each number, which the definition gives. A relay that failed keeps a
prefix, and the run that joins it ends "failed".

**Only model-checked.** `ResumeGradeAgrees` and `VerdictTrue` are about folds over
the records of a journal or the blocks of a device: what they return for every
input needs an induction over data, which none of the provers can do here.
`RecipesTrue` uses `Bitwise`, whose operators are recursive, so
no theorem can reach it. `ErasesAsClaimed` needs that the probe reads back the report the unit encoded,
two folds over a list: the same induction. `GenuineAdmitted` depends on which packages are on
the market and is a question about an instance.
Liveness under fairness (`Terminates`, `Ends`) is beyond the prover.

## 6. Plan

Everything in section 2 is built, checked and, but for the properties named at
the end of section 5, proved. Worth doing next: the fields of `RecipesTrue` without
bitwise operators, as the sums they are, so that a theorem can reach them.

## 7. Not modelled

* `vendor_tool.rs`, `smi_ufdif.rs`, `alcor_au698x.rs`, `phison_ps2303.rs`:
  static readers of vendor files. They keep no state and meet nothing
  concurrent; a model would repeat byte layouts.
* `nclr-lab`: offline analysis of captures and images (the capture decoder it
  uses is in `UsbBot`). Loaders are firmware for another processor; packaging
  and profiles are scripts and data.
* `list` and `probe` as commands: they change nothing. Their decisions are in
  `ControllerGate` and `BlockDrive`.
* Wording, JSON and TOML syntax, hexadecimal strings, timeouts as numbers,
  sense data, IOKit and SG_IO bindings.
* Of recipes: the contracts of `program-page`, `read-nand-id` and
  `read-commit-state`, and policy numbers.
* The bound of 64 MiB on a journal, which no writer checks; `FORCE`, which no
  reader reads.
* Two devices at once: journal and lock are per device and share nothing.
* Real time: a timeout is a choice that is always possible.
