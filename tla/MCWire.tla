------------------------------- MODULE MCWire -------------------------------
(***************************************************************************)
(* The layers that put bytes on a wire, on small instances: the recipes of *)
(* RecipeSession (through MCRecipe), the Bulk-Only transport of UsbBot and *)
(* the erase commands of BlockDrive.  A behaviour is one of the three,     *)
(* chosen at the start and named by layer; the bus is idle when it is not  *)
(* that of UsbBot, and the variables of the other two are "off".           *)
(***************************************************************************)
EXTENDS MCRecipe, UsbBot

CONSTANTS d1, d2    \* two devices on the captured bus, d2 without data stages

VARIABLES
    layer,
    hw, slot, plan, erase, left             \* BlockDrive

recipeVars == vars
driveVars == <<hw, slot, plan, erase, left>>

(* Units of a few sectors of two bytes, and arguments up to five, so that  *)
(* a byte address of the largest card does not fit.                        *)
Card(csd, class5, group, sectors, protected) ==
    [kind |-> "sd", csd |-> csd, class5 |-> class5, group |-> group,
     sectors |-> sectors, protected |-> protected]

Cards ==
    { Card(csd, TRUE, 4, 2, p) : csd \in 0 .. 3, p \in {{}, {1}} }
    \cup { Card(csd, TRUE, 2, n, {}) : csd \in {0, 1}, n \in {0, 4} }
    \cup { Card(1, FALSE, 4, 2, {}), Card(1, TRUE, 3, 2, {}), Card(1, TRUE, 4, 3, {}) }

Descriptor(op, sa, all, timed) == [op |-> op, sa |-> sa, all |-> all, timed |-> timed]

Reports ==
    LET Read(timed) == Descriptor("read", "none", TRUE, timed)
        San(sa, timed) == Descriptor("sanitize", sa, FALSE, timed)
    IN  { <<>>, <<Read(FALSE)>>, <<Read(TRUE), San("crypto", TRUE)>>, <<San("crypto", FALSE)>>,
          <<San("crypto", TRUE), San("block", FALSE)>>, <<Read(TRUE), San("overwrite", FALSE)>>,
          <<Descriptor("sanitize", "none", TRUE, FALSE)>>,
          <<Read(FALSE), San("crypto", TRUE), San("block", TRUE)>> }

Units ==
    Cards \cup { [kind |-> "scsi", list |-> l, immed |-> i, sectors |-> 2] : l \in Reports, i \in BOOLEAN }

B == INSTANCE BlockDrive WITH
       Models <- Units, Sector <- 2, MaxArgument <- 5, AllocCells <- 10,
       MaxFaults <- 2, MaxCalls <- 2, MaxOther <- 2, call <- erase

RecipeOff == recipe = "off" /\ verdict = "off" /\ call = "off" /\ host = "off" /\ unit = "off"
DriveOff == hw = "off" /\ slot = "off" /\ plan = "off" /\ erase = "off" /\ left = "off"

WireInit ==
    /\ BotInit
    /\ \/ layer = "recipe" /\ Init /\ DriveOff
       \/ layer = "usb" /\ RecipeOff /\ DriveOff
       \/ layer = "drive" /\ B!Init /\ RecipeOff

RecipeStep == layer = "recipe" /\ Next /\ UNCHANGED <<layer, botVars, driveVars>>
UsbStep == layer = "usb" /\ BotNext /\ UNCHANGED <<layer, recipeVars, driveVars>>
DriveStep == layer = "drive" /\ B!Next /\ UNCHANGED <<layer, recipeVars, botVars>>

WireSpec == WireInit /\ [][RecipeStep \/ UsbStep \/ DriveStep]_<<layer, recipeVars, botVars, driveVars>>

(***************************************************************************)
(* The properties of the recipes and of the drives, each for its own       *)
(* layer; TransfersTrue and CapturesTrue are those of UsbBot.              *)
(***************************************************************************)

(* The fields of a command the engine sends mean the block it works on, on *)
(* every block the recipe's validation admitted; answers are read within   *)
(* what the unit sent, and the table a unit reports is taken as it was     *)
(* said or refused (controller_recipe.rs).                                 *)
FieldsTrue == TypeOK /\ EncodesEveryBlock /\ AimsAtTheBlock /\ AnswersContained /\ ReportsReadTrue

(* Generated metadata says what the run found, verifies on the unit, and   *)
(* is not adopted before it is activated (controller_recipe.rs).           *)
MetadataSafe == TableSaysTheList /\ CommitKeepsChecksums /\ OldTableUntilActivated

(* A recipe the validation admits does to the unit what it means, with its *)
(* commands and with the metadata it writes (controller_recipe.rs).        *)
RecipesTrue == layer = "recipe" => FieldsTrue /\ MetadataSafe

(* The erase a block backend claims is documented, one it reports as       *)
(* completed reached every sector, and one call erases a unit once         *)
(* (nclr-scsi.rs start_device_erase, nclr-sd-native.rs).                   *)
ErasesAsClaimed == layer = "drive" => B!ErasesAsClaimed /\ B!OneCommand
=============================================================================
