---------------------------- MODULE PlanSamples ----------------------------
(***************************************************************************)
(* Command lines of every level with three minima, units that reach each   *)
(* level, and policies with each of their clauses: the values that         *)
(* MCPlanJournal gives the constants of Planning.                          *)
(***************************************************************************)
EXTENDS Naturals

AskedLevels == {"best", "lba", "device", "controller", "physical"}
Asked == [level |-> "best", min |-> {}, backend |-> {}, noFallback |-> FALSE,
          aggressive |-> FALSE, power |-> TRUE, timeout |-> 0]
MCRequests ==
    {[Asked EXCEPT !.level = l, !.min = m] : l \in AskedLevels, m \in {{}, {0}, {2}, {3}}}
    \cup {[Asked EXCEPT !.noFallback = TRUE, !.timeout = 5], [Asked EXCEPT !.aggressive = TRUE],
          [Asked EXCEPT !.backend = {"controller"}], [Asked EXCEPT !.backend = {"scsi"}]}

Lba == [backend |-> "lba", erase |-> FALSE, overwrite |-> TRUE, controller |-> FALSE,
        profile |-> {}, digest |-> FALSE, physical |-> FALSE, ratio |-> {}]
Scsi == [Lba EXCEPT !.backend = "scsi", !.erase = TRUE]
Controller == [Lba EXCEPT !.backend = "controller", !.overwrite = FALSE, !.controller = TRUE,
                          !.profile = {"exact"}, !.digest = TRUE, !.ratio = {9}]
Sim == [Scsi EXCEPT !.backend = "sim", !.controller = TRUE, !.profile = {"exact"},
                    !.digest = TRUE, !.physical = TRUE, !.ratio = {5}]
MCUnits ==
    {[usb |-> FALSE, standard |-> p, controller |-> {}] : p \in
        {Lba, [Lba EXCEPT !.erase = TRUE, !.overwrite = FALSE, !.backend = "sd-native"], Sim,
         [Sim EXCEPT !.digest = FALSE], [Sim EXCEPT !.ratio = {}]}}
    \cup {[usb |-> TRUE, standard |-> Scsi, controller |-> c] : c \in
        {{}, {Controller}, {[Controller EXCEPT !.physical = TRUE, !.ratio = {1}]},
         {[Controller EXCEPT !.profile = {}]}}}

Lax == [allowed |-> {}, floor |-> {}, ratio |-> {}]
MCSites ==
    {[Lax EXCEPT !.floor = {g}] : g \in {0, 2}}
    \cup {Lax, [Lax EXCEPT !.allowed = {{"scsi", "lba"}}],
          [Lax EXCEPT !.ratio = {<<3, 6>>}], [Lax EXCEPT !.ratio = {<<3, 6>>}, !.floor = {1}]}
=============================================================================
