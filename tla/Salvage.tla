------------------------------- MODULE Salvage -------------------------------
(***************************************************************************)
(* Physical salvage: every page of a controller's NAND is read into a raw  *)
(* image, with a page map that says which of its bytes are holes.          *)
(*                                                                         *)
(* The core (cmd_salvage, cmd_resume_salvage, finish_salvage_run) creates  *)
(* the two files, journals their inodes and passes them to the backend as  *)
(* open descriptors; the backend sweeps the pages (physical.rs).  A resume *)
(* reopens the same two inodes, truncates them and sweeps again.           *)
(*                                                                         *)
(* A file is a sequence of page records; every process writes at its own   *)
(* offset.  A cell of the image is what was read: the page, "hole" for     *)
(* zeros, or bytes that differ at every read of an uncorrectable page.     *)
(*                                                                         *)
(* A backend whose core is killed is an orphan: it holds its descriptors   *)
(* and goes on with its sweep, also while a resume cuts the same two       *)
(* inodes and sweeps them again, for the lock died with the core.          *)
(***************************************************************************)
EXTENDS Integers, Sequences, FiniteSets, SequencesExt

CONSTANTS
    Pages,      \* pages of the geometry
    Lost,       \* pages that may be unreadable
    Corrupt,    \* pages that may be uncorrectable
    MaxFaults,  \* crashes, signals and failed actions in a behaviour
    MaxStarts   \* salvage and resume commands in a behaviour

ASSUME SalvageAssumption ==
    /\ Pages \in Nat \ {0} /\ Lost \cup Corrupt \subseteq 1 .. Pages
    /\ {MaxFaults, MaxStarts} \subseteq Nat

VARIABLES
    path,     \* what each output path leads to: nothing, another file, the
              \* inode this salvage created, or that inode with a second link
    file,     \* the content of the two inodes this salvage created
    foreign,  \* have the bytes of somebody else's file been changed?
    journal,  \* output records and completed sweeps
    core, sweeps,
    orphans,  \* the sweeps whose core was killed
    overlap,  \* has an orphan written since the image was last cut?
    dev,      \* the unit's mode, and the mode the backend's state records
    report,
    tally
salvageVars == <<path, file, foreign, journal, core, sweeps, orphans, overlap,
                 dev, report, tally>>

Kinds == {"image", "map"}
Actions == <<"inventory", "capture-old-bbt", "enter-service-mode",
    "enumerate-blocks", "salvage-physical", "exit-service-mode",
    "re-enumeration">>
EnterSeq == 3

-----------------------------------------------------------------------------
(* The sweep. *)

Outcomes(p) == {"ok"} \cup (IF p \in Lost THEN {"lost"} ELSE {})
                      \cup (IF p \in Corrupt THEN {"bad"} ELSE {})
Cell(p, st, ep) == CASE st = "ok" -> [page |-> p, ep |-> 0]
                     [] st = "lost" -> [page |-> 0, ep |-> 0]
                     [] st = "bad" -> [page |-> p, ep |-> ep]
Hole == Cell(0, "lost", 0)
Line(p, st, ep) == [page |-> p, st |-> st, ep |-> ep]
Header(ep) == Line(0, "ok", ep)

\* A write at offset i; a file that was cut shorter grows by zeros.
Put(s, i, c) ==
    [k \in 1 .. (IF i > Len(s) THEN i ELSE Len(s)) |->
        IF k = i THEN c ELSE IF k <= Len(s) THEN s[k] ELSE Hole]

\* The summary: pages by outcome, the bytes of the image and their digest.
Fresh(ep) == [page |-> 0, ep |-> ep, wrote |-> <<>>, lost |-> 0, bad |-> 0]
Read(w, st) ==
    [page |-> w.page + 1, ep |-> w.ep,
     wrote |-> Append(w.wrote, Cell(w.page + 1, st, w.ep)),
     lost |-> w.lost + (IF st = "lost" THEN 1 ELSE 0),
     bad |-> w.bad + (IF st = "bad" THEN 1 ELSE 0)]
Written(p, st, ep) ==
    [file EXCEPT !["image"] = Put(@, p, Cell(p, st, ep)),
                 !["map"] = Put(@, p + 1, Line(p, st, ep))]
Summary(w) == [lost |-> w.lost, bad |-> w.bad, digest |-> w.wrote]

-----------------------------------------------------------------------------
NoReport == [result |-> "none"]
Off == [pc |-> "off", idx |-> 0, ended |-> "ok", clean |-> TRUE]
None == [none |-> TRUE]
NormalMode == [service |-> FALSE, state |-> "normal"]
ServiceMode == [service |-> TRUE, state |-> "in-service"]

SalvageInit ==
    /\ path \in [Kinds -> {"none", "other"}]
    /\ file = [k \in Kinds |-> <<>>]
    /\ foreign = [k \in Kinds |-> "kept"]
    /\ journal = <<>> /\ core = Off /\ sweeps = <<>>
    /\ orphans = {} /\ overlap = FALSE
    /\ dev = NormalMode
    /\ report = NoReport
    /\ tally = [faults |-> 0, starts |-> 0]

Goto(to) == core' = [core EXCEPT !.pc = to]
Refuse(why) == /\ Goto("over") /\ report' = [result |-> why]
Command == /\ tally.starts < MaxStarts
           /\ tally' = [tally EXCEPT !.starts = @ + 1]
Fault == /\ tally.faults < MaxFaults
         /\ tally' = [tally EXCEPT !.faults = @ + 1]
Epoch == Len(SelectSeq(journal, LAMBDA r : r.st \in {"created", "restarted"}))
Bound == \E i \in 1 .. Len(journal) : journal[i].st = "created"

\* cmd_salvage, up to the confirmation; a second one has a journal of its
\* own, so only the first is followed.
Start ==
    /\ core.pc = "off" /\ journal = <<>> /\ Command
    /\ core' = [Off EXCEPT !.pc = "image"]
    /\ journal' = <<[st |-> "locked"]>>
    /\ UNCHANGED <<path, file, foreign, sweeps, dev, report, orphans, overlap>>

\* create_salvage_output opens with create_new: a path that leads anywhere is
\* refused, and nothing that is there is opened.
Creatable(k) == path[k] = "none"

\* reopen_salvage_output goes on with what the path leads to only if it is the
\* inode that the journal names, with one link and for nobody else.
SameInode(k) == path[k] \in {"own", "linked"}
Matches_Linked(k) == SameInode(k)                                  \* mutant
Matches(k) == SameInode(k) /\ path[k] # "linked"

\* What happens to the files of others when the salvage creates, cuts or
\* removes what path k leads to.
Touched(k) == IF path[k] \in {"other", "linked"}
              THEN [foreign EXCEPT ![k] = "changed"] ELSE foreign

CreateImage ==
    /\ core.pc = "image"
    /\ IF Creatable("image")
       THEN /\ path' = [path EXCEPT !["image"] = "own"]
            /\ foreign' = Touched("image")
            /\ Goto("map") /\ UNCHANGED report
       ELSE Refuse("exists") /\ UNCHANGED <<path, foreign>>
    /\ UNCHANGED <<file, journal, sweeps, orphans, overlap, dev, tally>>
\* When the map cannot be created the new image is removed.
CreateMap ==
    /\ core.pc = "map"
    /\ IF Creatable("map")
       THEN /\ path' = [path EXCEPT !["map"] = "own"]
            /\ foreign' = Touched("map")
            /\ Goto("bind") /\ UNCHANGED report
       ELSE /\ path' = [path EXCEPT !["image"] = "none"]
            /\ foreign' = Touched("image")
            /\ Refuse("exists")
    /\ UNCHANGED <<file, journal, sweeps, orphans, overlap, dev, tally>>
Bind ==
    /\ core.pc = "bind"
    /\ journal' = Append(journal, [st |-> "created"])
    /\ core' = [core EXCEPT !.pc = "act", !.idx = 1]
    /\ UNCHANGED <<path, file, foreign, sweeps, dev, report, tally, orphans, overlap>>

-----------------------------------------------------------------------------
(* The actions. *)

Action == Actions[core.idx]
Acting == core.pc = "act" /\ core.idx <= Len(Actions)
Done(id) == [st |-> "completed", id |-> id, d |-> None]

\* Service mode is a mode of the unit and a record of it in the state of the
\* backend; a sweep asks the record, everything else works by the unit.
Works ==
    CASE Action = "enter-service-mode" ->
           dev.service \/ dev.state \in {"normal", "entry"}
      [] Action = "enumerate-blocks" -> dev.service
      [] Action = "salvage-physical" -> dev.service /\ dev.state = "in-service"
      [] Action = "exit-service-mode" ->
           dev.state \in {"in-service", "exit"} \/ dev = NormalMode
      [] OTHER -> TRUE
After ==
    CASE Action = "enter-service-mode" -> ServiceMode
      [] Action = "exit-service-mode" -> NormalMode
      [] OTHER -> dev
\* A call that is cut off, or whose answer is lost, may have done nothing, all,
\* or left the record between two modes, with the command sent or not.
Halfway ==
    CASE Action = "enter-service-mode" ->
           [service : {dev.service, TRUE}, state : {dev.state, "entry"}]
      [] Action = "exit-service-mode" ->
           [service : {dev.service, FALSE}, state : {"exit"}]
      [] OTHER -> {dev}
CutOff == IF Works THEN {dev, After} \cup Halfway ELSE {dev}

Act ==
    /\ Acting /\ Action # "salvage-physical" /\ Works
    /\ dev' = After
    /\ journal' = Append(journal, Done(Action))
    /\ core' = [core EXCEPT !.idx = @ + 1]
    /\ UNCHANGED <<path, file, foreign, sweeps, orphans, overlap, report, tally>>

ActFails ==
    /\ Acting
    /\ \/ /\ Fault /\ dev' \in CutOff
          /\ core' = [core EXCEPT !.pc = "recover", !.ended = "failed",
                                  !.clean = FALSE]
       \/ /\ ~Works /\ UNCHANGED <<dev, tally>>
          /\ core' = [core EXCEPT !.pc = "recover", !.ended = "failed"]
    /\ UNCHANGED <<path, file, foreign, journal, sweeps, orphans, overlap, report>>

\* Ctrl-C between two actions.
Interrupt ==
    /\ Acting /\ Fault
    /\ core' = [core EXCEPT !.pc = "recover", !.ended = "interrupted",
                            !.clean = FALSE]
    /\ UNCHANGED <<path, file, foreign, journal, sweeps, dev, report, orphans, overlap>>

\* The backend refuses an image that is not empty; it does not look at the
\* map before it writes its header.
SweepStart ==
    /\ Acting /\ Action = "salvage-physical" /\ Works
    /\ IF file["image"] # <<>>
       THEN /\ core' = [core EXCEPT !.pc = "recover", !.ended = "failed"]
            /\ UNCHANGED <<sweeps, file>>
       ELSE /\ sweeps' = Append(sweeps, Fresh(Epoch))
            /\ file' = [file EXCEPT !["map"] = Put(@, 1, Header(Epoch))]
            /\ Goto("sweeping")
    /\ UNCHANGED <<path, foreign, journal, dev, report, tally, orphans, overlap>>

\* sweep_physical_pages, one page.  A read error is a hole and a line.
SweepPage_NoHole(i) ==                                             \* mutant
    LET w == sweeps[i]
        p == w.page + 1
    IN  /\ p <= Pages
        /\ \E st \in Outcomes(p) :
             LET cells == IF st = "lost" THEN file["image"]
                          ELSE Append(file["image"], Cell(p, st, w.ep))
             IN  /\ file' = [file EXCEPT
                       !["image"] = cells,
                       !["map"] = Put(@, p + 1, Line(p, st, w.ep))]
                 /\ sweeps' = [sweeps EXCEPT ![i] = [Read(w, st) EXCEPT !.wrote = cells]]
        /\ UNCHANGED <<path, foreign, journal, core, dev, report, tally, orphans, overlap>>
SweepPage(i) ==
    LET w == sweeps[i]
        p == w.page + 1
    IN  /\ p <= Pages
        /\ \E st \in Outcomes(p) :
             /\ file' = Written(p, st, w.ep)
             /\ sweeps' = [sweeps EXCEPT ![i] = Read(w, st)]
        /\ UNCHANGED <<path, foreign, journal, core, orphans, overlap, dev, report,
                       tally>>

\* The process ends, and its core records the summary.
SweepEnd(i) ==
    /\ sweeps[i].page = Pages
    /\ sweeps' = RemoveAt(sweeps, i)
    /\ journal' = Append(journal, [st |-> "completed", id |-> "salvage-physical",
                                   d |-> Summary(sweeps[i])])
    /\ core' = [core EXCEPT !.pc = "act", !.idx = @ + 1]
    /\ UNCHANGED <<path, file, foreign, dev, report, tally, orphans, overlap>>

\* The backend dies in the middle of a sweep, also by the Ctrl-C meant for
\* its core.
SweepDies(i) ==
    /\ Fault
    /\ sweeps' = RemoveAt(sweeps, i)
    /\ core' = [core EXCEPT !.pc = "recover", !.ended = "failed",
                            !.clean = FALSE]
    /\ UNCHANGED <<path, file, foreign, journal, dev, report, orphans, overlap>>

\* recover: the controller is reset, and the record with it, or it fails.
Recover ==
    /\ core.pc = "recover"
    /\ \/ dev' = NormalMode /\ UNCHANGED tally
       \/ Fault /\ UNCHANGED dev
    /\ Goto("finish")
    /\ UNCHANGED <<path, file, foreign, journal, sweeps, report, orphans, overlap>>

AllDone ==
    /\ core.pc = "act" /\ core.idx > Len(Actions) /\ Goto("finish")
    /\ UNCHANGED <<path, file, foreign, journal, sweeps, dev, report, tally, orphans, overlap>>

\* finish_salvage_run: the summary counts only when it was recorded after
\* the outputs were last created or restarted.
LastOutputs == Max({i \in 1 .. Len(journal) : journal[i].st \in {"created", "restarted"}})
Swept == {i \in LastOutputs + 1 .. Len(journal) :
             journal[i].st = "completed" /\ journal[i].id = "salvage-physical"}
Details == IF Swept = {} THEN None ELSE journal[Max(Swept)].d
Finish ==
    /\ core.pc = "finish" /\ Goto("over")
    /\ LET d == Details
       IN  report' =
             IF d # None /\ d.digest # file["image"]
             THEN [result |-> "mismatch"]
             ELSE [result |-> IF core.ended # "ok" THEN core.ended
                              ELSE IF d # None /\ d.lost + d.bad = 0
                              THEN "complete" ELSE "partial"]
    /\ UNCHANGED <<path, file, foreign, journal, sweeps, dev, tally, orphans, overlap>>

-----------------------------------------------------------------------------
(* Resume. *)

\* cmd_resume_salvage, up to the confirmation.  Nothing asks whether the
\* salvage was already complete; a controller that an orphan keeps busy is one
\* reason to refuse.
Resume ==
    /\ core.pc \in {"off", "over"} /\ Command
    /\ \/ ~Bound /\ Refuse("unbound") /\ UNCHANGED journal
       \/ Bound /\ orphans # {} /\ Refuse("busy") /\ UNCHANGED journal
       \/ /\ Bound
          /\ journal' = Append(journal, [st |-> "restarted"])
          /\ core' = [Off EXCEPT !.pc = "reopen-image"]
          /\ report' = NoReport
    /\ UNCHANGED <<path, file, foreign, sweeps, orphans, overlap, dev>>

\* reopen_salvage_output: what the path leads to is opened, checked and cut to
\* nothing, whatever it is.
Reopen(k, next) ==
    /\ IF path[k] # "none" /\ Matches(k)
       THEN /\ file' = IF SameInode(k) THEN [file EXCEPT ![k] = <<>>] ELSE file
            /\ foreign' = Touched(k)
            /\ Goto(next) /\ UNCHANGED report
       ELSE Refuse("no-match") /\ UNCHANGED <<file, foreign>>
    /\ UNCHANGED <<path, journal, sweeps, orphans, dev, tally>>
ReopenImage ==
    /\ core.pc = "reopen-image" /\ Reopen("image", "reopen-map")
    /\ overlap' = (overlap /\ core'.pc = "over")
ReopenMap ==
    core.pc = "reopen-map" /\ Reopen("map", "restart") /\ UNCHANGED overlap

\* Service entry is left out when the unit says that it is in service mode; the
\* record is not asked.  A run that starts on a record that does not agree with
\* the unit is not one without a fault (see README, section 4).
Agree == \/ dev.service /\ dev.state = "in-service"
         \/ ~dev.service /\ dev.state \in {"normal", "entry"}
Restart ==
    /\ core.pc = "restart"
    /\ core' = [core EXCEPT !.pc = "act", !.clean = Agree,
                            !.idx = IF dev.service THEN EnterSeq + 1 ELSE 1]
    /\ UNCHANGED <<path, file, foreign, journal, sweeps, orphans, overlap, dev,
                   report, tally>>

-----------------------------------------------------------------------------
(* Orphans. *)

\* An orphan reads and writes the next page; out of service mode it reads none.
OrphanPage(w) ==
    LET p == w.page + 1
    IN  /\ p <= Pages
        /\ \E st \in Outcomes(p) \cup (IF dev.service THEN {} ELSE {"lost"}) :
             file' = Written(p, st, w.ep)
        /\ orphans' = (orphans \ {w}) \cup {[w EXCEPT !.page = p]}
        /\ overlap' = TRUE
        /\ UNCHANGED <<path, foreign, journal, core, sweeps, dev, report, tally>>

\* At its end it stores the state it has, of a unit in service mode; nobody
\* reads its answer.
OrphanEnd(w) ==
    /\ w.page = Pages
    /\ orphans' = orphans \ {w}
    /\ dev' = [dev EXCEPT !.state = "in-service"]
    /\ overlap' = TRUE
    /\ UNCHANGED <<path, file, foreign, journal, core, sweeps, report, tally>>
OrphanDies(w) ==
    /\ orphans' = orphans \ {w}
    /\ UNCHANGED <<path, file, foreign, journal, core, sweeps, overlap, dev, report,
                   tally>>

-----------------------------------------------------------------------------
(* The environment. *)

Down == /\ core.pc \notin {"off", "over"} /\ Fault
        /\ core' = Off /\ sweeps' = <<>>
        /\ UNCHANGED <<path, file, foreign, journal, overlap, report>>

\* The core is killed: its lock is released, and its backend, which has no
\* death signal, goes on.
Crash ==
    /\ Down
    /\ orphans' = orphans \cup {[page |-> sweeps[i].page, ep |-> sweeps[i].ep] :
                                  i \in 1 .. Len(sweeps)}
    /\ dev' \in IF Acting THEN CutOff ELSE {dev}

\* The machine goes down with every process on it; the unit may lose its power.
Blackout ==
    /\ Down
    /\ orphans' = {}
    /\ \E d \in IF Acting THEN CutOff ELSE {dev} :
         dev' \in {d, [d EXCEPT !.service = FALSE]}

\* Between two commands the user moves an output away, puts another file in
\* its place, or links or shares it.
Meddle ==
    /\ core.pc \in {"off", "over"} /\ Fault
    /\ \E k \in Kinds : \E to \in {"none", "other", "linked"} :
         /\ to = "linked" => path[k] = "own"
         /\ path' = [path EXCEPT ![k] = to]
    /\ UNCHANGED <<file, foreign, journal, core, sweeps, orphans, overlap, dev, report>>

SalvageNext ==
    \/ Start \/ CreateImage \/ CreateMap \/ Bind
    \/ Act \/ ActFails \/ Interrupt
    \/ SweepStart
    \/ \E i \in 1 .. Len(sweeps) : SweepPage(i) \/ SweepEnd(i) \/ SweepDies(i)
    \/ Recover \/ AllDone \/ Finish
    \/ Resume \/ ReopenImage \/ ReopenMap \/ Restart
    \/ \E w \in orphans : OrphanPage(w) \/ OrphanEnd(w) \/ OrphanDies(w)
    \/ Crash \/ Blackout \/ Meddle

SalvageSpec == SalvageInit /\ [][SalvageNext]_salvageVars

-----------------------------------------------------------------------------
(* Properties. *)

PCs == {"off", "over", "image", "map", "bind", "act", "sweeping", "recover",
        "finish", "reopen-image", "reopen-map", "restart"}

\* The core sweeps exactly while a backend of its own does.
SalvageTypeOK ==
    /\ path \in [Kinds -> {"none", "other", "own", "linked"}]
    /\ core.pc \in PCs /\ core.idx \in 0 .. Len(Actions) + 1
    /\ Len(file["map"]) <= Pages + 1 /\ Len(file["image"]) <= Pages
    /\ dev \in [service : BOOLEAN, state : {"normal", "entry", "in-service", "exit"}]
    /\ \A i \in 1 .. Len(sweeps) : sweeps[i].page \in 0 .. Pages
    /\ \A w \in orphans : w.page \in 0 .. Pages
    /\ core.pc = "sweeping" <=> sweeps # <<>>

\* What a salvage reports as acquired is one sweep, as long as no orphan has
\* written since its image was cut: the map has a line for every page, in order
\* and from the same sweep, and says of each byte of the image whether it was
\* read (README.md: "one image, one map and one ordered digest in the same
\* acquisition epoch"; physical.rs: a hole is never mistaken for data).
OneSweep ==
    core.pc = "over" /\ report.result \in {"complete", "partial"} /\ ~overlap =>
        LET lines == file["map"]
            cells == file["image"]
            ep == lines[1].ep
        IN  /\ Len(cells) = Pages /\ Len(lines) = Pages + 1
            /\ lines[1] = Header(ep)
            /\ \A p \in 1 .. Pages :
                 /\ lines[p + 1].page = p /\ lines[p + 1].ep = ep
                 /\ cells[p] = Cell(p, lines[p + 1].st, ep)
            /\ report.result = "complete" =>
                 \A p \in 1 .. Pages : lines[p + 1].st = "ok"

\* No file of another is ever created over, cut or removed, and neither is an
\* output that has come to have a second name (create_new, and the inode, link
\* and mode checks of a resume); an inode number that is used again is outside.
OthersUntouched == \A k \in Kinds : foreign[k] = "kept"

\* The image that is digested at the end is the one of the summary found, but
\* where an orphan wrote: an earlier sweep's is never held against outputs that
\* were cut since.
DigestAgrees == report.result = "mismatch" => overlap

\* A salvage or resume that meets no fault acquires the medium, however the
\* ones before it ended, and leaves the unit in normal mode.
CleanRunEnds ==
    core.pc = "over" /\ core.clean /\ ~overlap
      /\ report.result \notin {"none", "exists", "unbound", "busy", "no-match"} =>
        report.result \in {"complete", "partial"} /\ ~dev.service

\* What holds of every salvage and resume that no orphan of a killed core writes
\* into: what it reports as acquired is one sweep, no summary is held against
\* outputs cut since, and a command without a fault succeeds; and of every one,
\* that no other file changes (nclr.rs finish_salvage_run, cmd_resume_salvage,
\* reopen_salvage_output; physical.rs).
SalvageTrue ==
    SalvageTypeOK /\ OneSweep /\ DigestAgrees /\ CleanRunEnds /\ OthersUntouched
=============================================================================
