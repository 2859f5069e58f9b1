------------------------------ MODULE Grading ------------------------------
(***************************************************************************)
(* From the outcomes of a run's actions to its grade (grade.rs and the     *)
(* evidence accumulation of bin/nclr.rs), for the levels C1 and C2.        *)
(*                                                                         *)
(* One record holds the fields of LbaC1Evidence and DeviceEraseEvidence:   *)
(* the action ids of the two recipes are disjoint except for               *)
(* "signature-check", which both kinds treat alike.  Three reductions:     *)
(*  - the error counter is kept as "some error was counted";               *)
(*  - the four fields postcheck-p2 fills are one field, for the backend    *)
(*    answers "ok" exactly when all four hold;                             *)
(*  - the capacity of the medium does not change under a run, and the      *)
(*    erase scope is documented in every C2 plan a backend offers.         *)
(***************************************************************************)
EXTENDS Plans

Statuses == {"ok", "error", "partial", "found", "skipped", "fallback",
             "interrupted"}
Outcomes == [st : Statuses, err : BOOLEAN]

Evidence == [full : BOOLEAN, prbs : BOOLEAN, zero : BOOLEAN, flush : BOOLEAN,
             erased : BOOLEAN, blank : BOOLEAN, post : BOOLEAN,
             clean : BOOLEAN, cycled : BOOLEAN, ioErr : BOOLEAN]

FreshEvidence ==
    [full |-> FALSE, prbs |-> FALSE, zero |-> FALSE, flush |-> FALSE,
     erased |-> FALSE, blank |-> FALSE, post |-> FALSE,
     clean |-> FALSE, cycled |-> FALSE, ioErr |-> FALSE]

\* apply_outcome_to_evidence: the outcome `o` of action `id`, recorded while
\* the caller's power-cycle flag is `cycled`.
ApplyOutcome(ev, id, o, cycled) ==
    LET good == o.st = "ok" /\ ~o.err
        Set(ids, old) == IF id \in ids THEN good ELSE old
    IN  [full   |-> ev.full \/ (id \in {"lba-prbs-write", "lba-zero-write"}
                                 /\ good),
         prbs   |-> Set({"lba-prbs-verify"}, ev.prbs),
         zero   |-> Set({"lba-zero-verify"}, ev.zero),
         flush  |-> Set({"flush"}, ev.flush),
         erased |-> Set({Erase}, ev.erased),
         blank  |-> Set({"blank-verify"}, ev.blank),
         post   |-> IF id = "postcheck-p2" THEN o.st = "ok" ELSE ev.post,
         clean  |-> Set({"signature-check"}, ev.clean),
         cycled |-> cycled,
         ioErr  |-> ev.ioErr \/ o.err]

Grades == {"C0", "C1", "C2"}
Residuals == {"none-known", "documented-exclusion", "unreachable",
              "erase-failed", "unknown-scope"}

Verdict(grade, qualified, residual) ==
    [grade |-> grade, qualified |-> qualified, residual |-> residual]

\* compute_lba_c1
LbaC1(ev) ==
    LET base == ev.prbs /\ ev.zero /\ ev.clean /\ ev.flush
    IN  IF ~ev.full THEN Verdict("C0", FALSE, "unknown-scope")
        ELSE IF ev.ioErr THEN Verdict("C1", FALSE, "erase-failed")
        ELSE Verdict("C1", base /\ ev.cycled,
                     IF ~ev.cycled THEN "documented-exclusion"
                     ELSE IF base THEN "none-known" ELSE "erase-failed")

\* compute_device_c2
DeviceC2(ev) ==
    LET qualified == ev.blank /\ ev.clean /\ ev.cycled /\ ev.post
    IN  IF ~ev.erased \/ ev.ioErr
        THEN Verdict("C0", FALSE, "erase-failed")
        ELSE Verdict("C2", qualified,
                     IF qualified THEN "unreachable" ELSE "erase-failed")

Compute(level, ev) == IF level = "C2" THEN DeviceC2(ev) ELSE LbaC1(ev)

\* GradeEvidence::health with compute_health: the health grade is H2.
HealthyH2(level, ev) ==
    /\ ev.cycled /\ ~ev.ioErr
    /\ IF level = "C2" THEN ev.blank /\ ev.post
                       ELSE ev.prbs /\ ev.zero /\ ev.flush

GradeLevel(g) == CASE g = "C0" -> 0 [] g = "C1" -> 1 [] g = "C2" -> 2
AtLeast(g, floor) == GradeLevel(g) >= GradeLevel(floor)
=============================================================================
