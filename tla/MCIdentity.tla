----------------------------- MODULE MCIdentity -----------------------------
(***************************************************************************)
(* Which device a command acts on, in three places, on small instances:    *)
(* how `nclr run` keeps hold of one unit across its checks and its         *)
(* re-enumerations (DeviceSession), how nclr-controller decides at each    *)
(* call whether the unit behind the descriptor may be driven               *)
(* (ControllerGate), and which sectors of which device the write test of   *)
(* `nclr check` changes (ScratchCheck, with integers up to 31 and requests *)
(* at every border).  A behaviour is about one of them, named by layer;    *)
(* the others stand at a start meanwhile.                                  *)
(***************************************************************************)
EXTENDS ScratchCheck, DeviceSession, GateMarket

VARIABLE layer

scratchVars == vars

MCSize == [u \in Units |-> IF u = "ours" THEN 3 ELSE 2]
MCRequests == {0, 1, 2, 3, 8, 15, 16} \X {0, 1, 2, 3, 15, 16}

(* Controllers that re-enumerate never, or twice on entry; the plan        *)
(* of level C4, which has every transition and the rebuild.                *)
MCKinds == {[enter |-> FALSE, loader |-> FALSE, exit |-> FALSE],
            [enter |-> TRUE, loader |-> TRUE, exit |-> TRUE]}
MCPlans ==
  {<<"enter-service-mode", "erase", "rebuild-bbt-ftl", "exit-service-mode",
     "power-cycle", "re-enumeration", "postcheck">>}

-----------------------------------------------------------------------------
(* What stands still in the behaviours that are not its own.               *)
ScratchIdle == Init /\ mounted = {}
SessionIdle == /\ SessionInit /\ kind.enter = FALSE
               /\ dev.name = "sda" /\ ~dev.mounted /\ ~p.unmount
GateIdle == GateInit /\ installed = {} /\ unit = U1

(* The kernel names are interchangeable: one of them is the first.          *)
IdentityInit ==
    \/ layer = "scratch" /\ Init /\ SessionIdle /\ GateIdle
    \/ layer = "session" /\ ScratchIdle /\ SessionInit /\ dev.name = "sda" /\ GateIdle
    \/ layer = "gate" /\ ScratchIdle /\ SessionIdle /\ GateInit

ScratchStep == layer = "scratch" /\ Next /\ UNCHANGED <<layer, sessionVars, gateVars>>
SessionStep == layer = "session" /\ SessionNext /\ UNCHANGED <<layer, scratchVars, gateVars>>
GateStep == layer = "gate" /\ GateNext /\ UNCHANGED <<layer, scratchVars, sessionVars>>

allVars == <<layer, scratchVars, sessionVars, gateVars>>
IdentitySpec == IdentityInit /\ [][ScratchStep \/ SessionStep \/ GateStep]_allVars
(* The fairness of DeviceSession: the process is scheduled, its deadlines  *)
(* expire, and the operator answers.                                       *)
FairSpec ==
    /\ IdentitySpec
    /\ WF_allVars(layer = "session" /\ Process /\ UNCHANGED <<layer, scratchVars, gateVars>>)

-----------------------------------------------------------------------------
(* Properties; the others are in ScratchCheck, DeviceSession and           *)
(* ControllerGate.                                                         *)

(* A run or a resume comes to an end: its waits are bounded (nclr.rs       *)
(* reopen_controller_transport).                                           *)
Ends == (layer = "session" /\ p.pc \notin Stopped)
        ~> (layer = "session" /\ p.pc \in Stopped)
=============================================================================
