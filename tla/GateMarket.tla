----------------------------- MODULE GateMarket -----------------------------
(***************************************************************************)
(* A small market of controllers, clones and packages: the values that     *)
(* MCIdentity gives the constants of ControllerGate.                       *)
(***************************************************************************)
EXTENDS ControllerGate

V(k) == [key |-> k, spelt |-> "plain"]
Padded(k) == [key |-> k, spelt |-> "padded"]
Only(v) == [min |-> v, max |-> v]

Artifact(id, kind, format, role, digest, ctrl, recipe) ==
  [id |-> id, kind |-> kind, format |-> format, role |-> role,
   digest |-> digest, body |-> format, ctrl |-> ctrl, fw |-> V(1), nand |-> V(1),
   recipe |-> recipe]
Sound(id, family, ctrl, boot) ==
  LET rec == [family |-> family, ctrl |-> ctrl, fw |-> V(1), nand |-> V(1)] IN
  [id |-> id, sha |-> 1, trust |-> "production", family |-> family,
   ctrl |-> ctrl, fw |-> Only(V(1)), nand |-> Only(V(1)),
   boot |-> boot, blank |-> 255, spare |-> 2, loaded |-> FALSE,
   coverage |-> {"D1", "D2", "D3", "D4"},
   rebuilds |-> {"BBT", "FTL", "spare"},
   artifacts |-> {Artifact("recipe", "recipe", "json", "runtime", ctrl, ctrl, rec),
                  Artifact("trace", "trace", "pcapng", "evidence", "t", ctrl, None),
                  Artifact("hil", "report", "json", "report", "r", ctrl, None)},
   runtime |-> <<"recipe">>, evidence |-> "t", preserve |-> FALSE,
   report |-> [id |-> "hil", digest |-> "r"]]

Phison == Sound("p", "phison", "c1", None)
Smi == Sound("s", "smi", "c2", None)
Chips == Sound("b", "chipsbank", "c3", [family |-> "chipsbank", tuple |-> "t3"])
MCProfiles == {Phison, [Phison EXCEPT !.sha = 2],
               [Phison EXCEPT !.id = "rival"],
               [Phison EXCEPT !.id = "draft", !.trust = "research"],
               [Phison EXCEPT !.id = "wide", !.fw.max = V(2)],
               [Smi EXCEPT !.report = None, !.sha = 3],
               Smi, Chips}
MCPackages == {{}, {Phison, Smi, Chips}}
               \cup {{Phison, q} : q \in MCProfiles \ {Smi, Chips}}
MCProbes == {[id |-> "q", family |-> "smi", tuple |-> "t4", ctrl |-> "c2",
              fw |-> V(1), nand |-> V(1)]}

Unit(family, hint, ctrl, tuple, service) ==
  [family |-> family, hint |-> hint, config |-> FALSE, ctrl |-> ctrl,
   fw |-> V(1), nand |-> V(1), tuple |-> tuple, service |-> service]
U1 == Unit("phison", "phison", "c1", "t1", "mute")
U2 == Unit("smi", "smi", "c2", "t2", "same")
U3 == Unit("chipsbank", None, "c3", "t3", "alien")
U4 == Unit("smi", None, "c2", "t4", "same")
MCControllers == {U1, [U1 EXCEPT !.fw = Padded(1)], [U1 EXCEPT !.nand = V(2)],
            U2, U3, [U3 EXCEPT !.ctrl = "c1"],
            U4, [U4 EXCEPT !.nand = V(2)],
            Unit("alcor", "alcor", "c5", "t5", "same")}
=============================================================================
