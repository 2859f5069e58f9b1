------------------------------ MODULE MCFiles ------------------------------
(***************************************************************************)
(* What the programs keep in files, on small instances, under kills and    *)
(* losses of power: the controller state file (StateStore, which this      *)
(* module extends), the image of the simulated device, and the outputs of  *)
(* a salvage (Salvage, which it extends too).  A behaviour is about one of *)
(* them, chosen at the start and named by which; the state file stays      *)
(* empty and no salvage starts when it is not theirs, and the variables of *)
(* the simulator are then "off".                                           *)
(***************************************************************************)
EXTENDS StateStore, Salvage

VARIABLES
    which,
    cfg, image, log, run, verdict, cut      \* SimRun

storeVars == vars
simVars == <<cfg, image, log, run, verdict, cut>>

(* One image for each injected fault, and mixtures in which two matter.    *)
Flawless == [user |-> 4, guarded |-> 0, fbb |-> {}, oldRbb |-> {},
             unknown |-> {}, weak |-> {}, ecc |-> {}, failErase |-> {},
             failProgram |-> {}, failRead |-> {}, alias |-> FALSE,
             sanitizeFails |-> FALSE, commitFails |-> FALSE,
             exitFails |-> FALSE]
Worn == [Flawless EXCEPT !.fbb = {1}, !.oldRbb = {5}]
Images == {Flawless, Worn,
    [Worn EXCEPT !.unknown = {3}], [Worn EXCEPT !.weak = {2}],
    [Worn EXCEPT !.weak = {2}, !.ecc = {2, 6}],
    [Worn EXCEPT !.failErase = {2}], [Worn EXCEPT !.failErase = {5}],
    [Worn EXCEPT !.failProgram = {0}], [Worn EXCEPT !.failRead = {3}],
    [Worn EXCEPT !.failRead = {7}], [Worn EXCEPT !.alias = TRUE],
    [Worn EXCEPT !.sanitizeFails = TRUE], [Worn EXCEPT !.commitFails = TRUE],
    [Worn EXCEPT !.exitFails = TRUE], [Worn EXCEPT !.guarded = 1],
    [Worn EXCEPT !.guarded = 3, !.oldRbb = {8}],
    [Flawless EXCEPT !.weak = {1, 2, 3, 4}],
    [Flawless EXCEPT !.fbb = {0, 1, 2, 3}]}

D == INSTANCE SimRun WITH
       NumBlocks <- 9, MinSpare <- 2, SanitizeTick <- 4, MaxCount <- 1000,
       LevelsRun <- {"C2", "C3", "C4"}, SpecsRun <- Images, CutPoints <- {0, 3, 6, 9},
       MaxKills <- 2, MaxResumes <- 2,
       dev <- image, journal <- log, report <- verdict, used <- cut

ASSUME FilesAssumption == D!SimAssumption /\ D!RunAssumption

SimOff == cfg = "off" /\ image = "off" /\ log = "off" /\ run = "off" /\ verdict = "off" /\ cut = "off"
NoOutputs == [k \in Kinds |-> "none"]

FilesInit ==
    /\ Init /\ SalvageInit
    /\ \/ which = "store" /\ SimOff /\ path = NoOutputs
       \/ which = "image" /\ D!Init /\ path = NoOutputs
       \/ which = "salvage" /\ SimOff

StoreStep == which = "store" /\ Next /\ UNCHANGED <<which, simVars, salvageVars>>
ImageStep == which = "image" /\ D!Next /\ UNCHANGED <<which, storeVars, salvageVars>>
SalvageStep == which = "salvage" /\ SalvageNext /\ UNCHANGED <<which, storeVars, simVars>>

FilesSpec ==
    FilesInit /\ [][StoreStep \/ ImageStep \/ SalvageStep]_<<
        which, storeVars, simVars, salvageVars>>

(***************************************************************************)
(* The property of the simulator; those of the state file and of the       *)
(* salvage are StateStore's and Salvage's.                                 *)
(***************************************************************************)

(* A simulated run that reports "ok" has left every block it answers for   *)
(* erased, and its verdict and capacity do not depend on where it was cut  *)
(* and resumed (nclr-sim.rs, sim.rs, nclr.rs cmd_resume, report.rs).       *)
VerdictTrue == which = "image" => D!TypeOK /\ D!OkMeansErased /\ D!VerdictTrue
=============================================================================
