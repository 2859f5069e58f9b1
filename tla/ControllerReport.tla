-------------------------- MODULE ControllerReport --------------------------
(***************************************************************************)
(* From the answers of a C2, C3 or C4 run's actions to its report: the     *)
(* evidence folded from them (bin/nclr.rs, also by a resume, from the      *)
(* journal), the grade, the residual and the health (grade.rs), the        *)
(* coverage of the domains (report.rs) and the result of the run.          *)
(*                                                                         *)
(* An answer is [st, errs, d]: its status, its error count and the fields  *)
(* of its details that are there.  A missing number is None (Rust's        *)
(* Option) or the default the code falls back to.                          *)
(***************************************************************************)
EXTENDS Integers, Sequences

CONSTANT MaxCount    \* u64::MAX, the count of an answer that gives none

None == -1
Get(d, f, default) == IF f \in DOMAIN d THEN d[f] ELSE default
Opt(d, f) == Get(d, f, None)
Flag(d, f) == Get(d, f, FALSE)

\* One record for the evidence of all three levels: the ids of their actions
\* are disjoint except where both treat them alike.
Fresh(guarded) ==
    [captured |-> FALSE, oldGen |-> None, newGen |-> None, copies |-> None,
     digest |-> "none", fbb |-> None, rbb |-> None,
     attempted |-> FALSE, rbbErased |-> 0, rbbFailed |-> 0,
     fbbKept |-> FALSE, weakIsolated |-> FALSE, isolated |-> 0,
     finalFailed |-> 0, rebuilt |-> FALSE, invalidated |-> FALSE,
     expected |-> None, spareOk |-> FALSE, stable |-> FALSE,
     reads |-> FALSE, blank |-> FALSE, clean |-> FALSE, flush |-> FALSE,
     postClean |-> FALSE, cycled |-> FALSE, io |-> 0,
     eraseDone |-> FALSE,
     enumerated |-> FALSE, declared |-> 0, dataBlocks |-> 0, unknown |-> 0,
     erased |-> 0, eraseFailed |-> 0, guarded |-> guarded,
     sweep |-> [done |-> FALSE, digest |-> "none"]]

-----------------------------------------------------------------------------
(* apply_outcome_to_evidence, one operator per action. *)

Good(o) == o.st = "ok" /\ o.errs = 0
Answered(o, f) == o.st = "ok" /\ Flag(o.d, f)

\* A C4 capture must have brought everything; a C3 one is judged later.
Captured(level, ev, o) ==
    LET e == [ev EXCEPT !.oldGen = Opt(o.d, "generation"),
                        !.copies = Opt(o.d, "copies"),
                        !.digest = Get(o.d, "digest", "none"),
                        !.fbb = Opt(o.d, "fbb"), !.rbb = Opt(o.d, "rbb")]
        all == /\ None \notin {e.oldGen, e.fbb, e.rbb} /\ e.copies > 0
               /\ e.digest # "none"
    IN  [e EXCEPT !.captured = Good(o) /\ (level = "C4" => all)]

OldRbbErased(ev, o) ==
    LET failed == Opt(o.d, "failed")
        rest == IF None \in {ev.rbb, failed} \/ failed > ev.rbb THEN None
                ELSE ev.rbb - failed
        erased == Get(o.d, "old_rbb_erased", rest)
    IN  [ev EXCEPT
           !.attempted = /\ o.st \in {"ok", "partial"}
                         /\ None \notin {ev.rbb, failed, erased}
                         /\ erased + failed = ev.rbb,
           !.rbbFailed = Get(o.d, "failed", 0),
           !.rbbErased = IF erased = None THEN 0 ELSE erased]

Enumerated(ev, o) ==
    LET total == Opt(o.d, "total")
    IN  [ev EXCEPT !.declared = Get(o.d, "total", 0),
                   !.enumerated = /\ Good(o) /\ total > 0
                                  /\ Get(o.d, "classified", MaxCount) = total,
                   !.dataBlocks = Get(o.d, "data", 0),
                   !.unknown = Get(o.d, "unknown", 0)]

DataErased(ev, o) ==
    [ev EXCEPT !.erased = Get(o.d, "system_erased", 0), !.eraseFailed = 0]

\* A missing count isolates everything.
QualifiedBlocks(ev, o) ==
    LET counts == {"qualified", "weak", "failed"} \subseteq DOMAIN o.d
    IN  [ev EXCEPT
           !.weakIsolated = /\ o.st = "ok" /\ counts
                            /\ o.d.qualified + o.d.weak + o.d.failed > 0,
           !.isolated = IF {"weak", "failed"} \subseteq DOMAIN o.d
                        THEN o.d.weak + o.d.failed ELSE MaxCount]

\* Only C4 counts the blocks.  A failure is a residual, not an I/O error.
FinallyErased(level, ev, o) ==
    LET failed == Get(o.d, "failed", 0)
        e == [ev EXCEPT !.fbbKept = Flag(o.d, "fbbKept")]
    IN  IF level = "C3" THEN [e EXCEPT !.finalFailed = failed]
        ELSE [e EXCEPT !.erased = @ + Get(o.d, "erased", 0),
                       !.eraseFailed = @ + failed]

\* verify-physical-erasure: what does not name the pages cannot count them.
Swept(ev, o) ==
    LET total == Get(o.d, "pages", 0)
        readable == Get(o.d, "readable", 0)
        lost == Get(o.d, "unreadable", 0)
        target == Get(o.d, "target", 0)
        targetLost == Get(o.d, "targetUnreadable", target)
        targetReadable == Get(o.d, "targetReadable", 0)
    IN  [ev EXCEPT !.sweep =
          [done |-> total > 0 /\ readable + lost = total,
           digest |-> Get(o.d, "digest", "none"),
           pages |-> total, readable |-> readable, lost |-> lost,
           noEcc |-> Get(o.d, "unknownEcc", readable),
           wrong |-> Get(o.d, "uncorrectable", 0),
           target |-> target, targetReadable |-> targetReadable,
           targetLost |-> targetLost,
           targetNoEcc |-> Get(o.d, "targetUnknownEcc", targetReadable),
           targetWrong |-> Get(o.d, "targetUncorrectable", target),
           targetDirty |-> Get(o.d, "targetDirty", target),
           excludedLost |-> Get(o.d, "excludedUnreadable",
                                IF lost > targetLost THEN lost - targetLost
                                                     ELSE 0)]]

Rebuilt(ev, o) ==
    [ev EXCEPT !.rebuilt = Good(o), !.invalidated = Flag(o.d, "invalidated"),
               !.expected = Opt(o.d, "capacity"),
               !.newGen = Opt(o.d, "generation"),
               !.spareOk = Get(o.d, "spare", 0) > 0]

ReEnumerated(ev, o) ==
    [ev EXCEPT !.io = @ + IF Get(o.d, "service", TRUE) /\ o.st = "ok"
                          THEN 1 ELSE 0]

Checked(level, ev, o) ==
    LET e == [ev EXCEPT !.stable = Flag(o.d, "stable"),
                        !.spareOk = @ /\ Flag(o.d, "spareOk"),
                        !.reads = Answered(o, "reads"),
                        !.blank = Answered(o, "blank"),
                        !.clean = Answered(o, "clean"),
                        !.flush = Answered(o, "flush")]
        unknown == Get(o.d, "unknown", 0)
    IN  IF level = "C3" THEN e
        ELSE [e EXCEPT !.unknown = IF unknown > @ THEN unknown ELSE @]

\* The C2 arm: the capacity measured is compared with the plan's.
Checked2(ev, o, planned) ==
    [ev EXCEPT !.stable = o.st = "ok" /\ Opt(o.d, "capacity") = planned,
               !.reads = Answered(o, "reads"),
               !.postClean = Answered(o, "clean"),
               !.flush = Answered(o, "flush")]
BlankVerified(ev, o) ==
    [ev EXCEPT !.blank = Good(o) /\ Flag(o.d, "uniform")]

\* What is counted as an I/O error, and what is a residual.
Residuals(level) ==
    {"erase-old-rbb", "final-erase", "qualify-blocks"}
      \cup IF level = "C4"
           THEN {"erase-data-blocks", "verify-physical-erasure"} ELSE {}
IoErrors(level, id, o) ==
    (IF level # "C2" /\ id \in {"enter-service-mode", "exit-service-mode"}
        /\ o.st # "ok" THEN IF o.errs > 1 THEN o.errs ELSE 1 ELSE 0)
      + IF level = "C2" \/ id \notin Residuals(level) THEN o.errs ELSE 0

ByAction(level, ev, id, o, planned) ==
    CASE id = "capture-old-bbt" -> Captured(level, ev, o)
      [] id = "erase-old-rbb" -> OldRbbErased(ev, o)
      [] id = "enumerate-blocks" -> Enumerated(ev, o)
      [] id = "erase-data-blocks" -> DataErased(ev, o)
      [] id = "qualify-blocks" -> QualifiedBlocks(ev, o)
      [] id = "final-erase" -> FinallyErased(level, ev, o)
      [] id = "verify-physical-erasure" -> Swept(ev, o)
      [] id = "rebuild-bbt-ftl" -> Rebuilt(ev, o)
      [] id = "re-enumeration" -> ReEnumerated(ev, o)
      [] id \in {"postcheck-c3", "postcheck-c4"} -> Checked(level, ev, o)
      [] id = "postcheck-p2" -> Checked2(ev, o, planned)
      [] id = "device-user-area-erase" -> [ev EXCEPT !.eraseDone = Good(o)]
      [] id = "blank-verify" -> BlankVerified(ev, o)
      [] id = "signature-check" -> [ev EXCEPT !.clean = Good(o)]
      [] OTHER -> ev

Apply(level, ev, id, o, cycled, planned) ==
    [ByAction(level, ev, id, o, planned) EXCEPT
       !.io = @ + IoErrors(level, id, o), !.cycled = cycled]

-----------------------------------------------------------------------------
(* Grades. *)

Rank(grade) == CASE grade = "C0" -> 0 [] grade = "C2" -> 2
                 [] grade = "C3" -> 3 [] grade = "C4" -> 4
Verdict(grade, qualified, residual) ==
    [grade |-> grade, qualified |-> qualified, residual |-> residual]

\* compute_device_c2; the scope is documented in every plan.
DeviceC2(ev) ==
    LET qualified == /\ ev.blank /\ ev.clean /\ ev.cycled /\ ev.stable
                     /\ ev.reads /\ ev.postClean /\ ev.flush
    IN  IF ~ev.eraseDone \/ ev.io > 0
        THEN Verdict("C0", FALSE, "erase-failed")
        ELSE Verdict("C2", qualified,
                     IF qualified THEN "unreachable" ELSE "erase-failed")

\* A new generation may be any but the old one.
GenerationsAccounted(ev) ==
    None \notin {ev.oldGen, ev.newGen} /\ ev.newGen # ev.oldGen
TableAccounted(ev) ==
    /\ ev.captured /\ None \notin {ev.fbb, ev.rbb}
    /\ ev.copies > 0 /\ ev.digest = "valid"
RbbAccounted(ev) == /\ ev.attempted /\ ev.rbb # None
                    /\ ev.rbbErased + ev.rbbFailed = ev.rbb
TableRebuilt(ev) == /\ ev.rebuilt /\ ev.invalidated /\ ev.expected # None
                /\ TableAccounted(ev) /\ GenerationsAccounted(ev)
Accounted(ev) == RbbAccounted(ev) /\ ev.fbbKept /\ ev.weakIsolated
Sound(ev) == /\ ev.stable /\ ev.spareOk /\ ev.cycled /\ ev.reads
             /\ ev.blank /\ ev.clean /\ ev.flush

\* compute_controller_c3
ControllerC3(ev) ==
    IF ~TableRebuilt(ev) \/ ev.io > 0
    THEN Verdict("C0", FALSE, "erase-failed")
    ELSE IF ~Accounted(ev) THEN Verdict("C0", FALSE, "unknown-scope")
    ELSE Verdict("C3", Sound(ev),
                 IF ev.rbbFailed + ev.finalFailed > 0 \/ ~Sound(ev)
                 THEN "erase-failed" ELSE "none-known")

\* compute_physical_c4: the counts of the sweep must agree with each other.
SweepAccounted(s) ==
    /\ s.done /\ s.pages > 0 /\ s.digest = "valid"
    /\ s.readable + s.lost = s.pages
    /\ 0 < s.target /\ s.target <= s.pages
    /\ s.targetReadable + s.targetLost = s.target
    /\ s.targetReadable <= s.readable
    /\ s.targetLost + s.excludedLost = s.lost
    /\ s.noEcc <= s.readable /\ s.wrong <= s.readable
    /\ s.targetNoEcc <= s.targetReadable /\ s.targetNoEcc <= s.noEcc
    /\ s.targetWrong <= s.targetReadable /\ s.targetWrong <= s.wrong
    /\ s.targetDirty <= s.targetReadable
TargetVerified(s) ==
    /\ s.target = s.targetReadable
    /\ s.targetLost + s.targetNoEcc + s.targetWrong + s.targetDirty = 0
PhysicalScope(ev) ==
    /\ ev.enumerated /\ ev.declared > 0 /\ ev.dataBlocks > 0
    /\ ev.sweep.done /\ SweepAccounted(ev.sweep) /\ TableRebuilt(ev) /\ ev.io = 0
PhysicalC4(ev) ==
    LET noFailure == ev.rbbFailed = 0 /\ ev.eraseFailed = 0
        verified == TargetVerified(ev.sweep)
        qualified == /\ ev.erased + ev.eraseFailed = ev.dataBlocks
                     /\ noFailure /\ Sound(ev)
    IN  IF ~PhysicalScope(ev) \/ ~Accounted(ev)
        THEN Verdict("C0", FALSE, "unknown-scope")
        ELSE Verdict("C4", qualified /\ verified,
               IF ev.unknown > 0 THEN "unknown-scope"
               ELSE IF ~noFailure \/ ~verified THEN "erase-failed"
               ELSE IF ev.guarded THEN "documented-exclusion"
               ELSE IF qualified THEN "none-known" ELSE "erase-failed")

Grade(level, ev) == CASE level = "C2" -> DeviceC2(ev)
                      [] level = "C3" -> ControllerC3(ev)
                      [] level = "C4" -> PhysicalC4(ev)

\* health, compute_health: at least H2.  `stable` is what the core measured.
Healthy(level, ev, stable) ==
    /\ stable /\ ev.reads /\ ev.flush /\ ev.cycled /\ ev.io = 0
    /\ CASE level = "C2" -> ev.blank
         [] level = "C3" -> /\ ev.stable /\ ev.spareOk /\ ev.isolated = 0
         [] level = "C4" -> /\ ev.stable /\ ev.spareOk /\ ev.isolated = 0
                            /\ ev.eraseFailed = 0
                            /\ ev.sweep.done => ev.sweep.noEcc
                                                  + ev.sweep.wrong = 0

-----------------------------------------------------------------------------
(* The report. *)

Domains == {"D0", "D1", "D2", "D3", "D4", "D5"}

\* device_erase_coverage, controller_coverage, physical_coverage,
\* d5_coverage: the final state of each domain.
DeviceCoverage(ev, dom) ==
    IF ~ev.eraseDone THEN "erase-failed"
    ELSE IF dom \in {"D3", "D4"} THEN "unreachable"
    ELSE IF ev.blank /\ ev.io = 0 THEN "erased" ELSE "erase-failed"
ControllerCoverage(ev, dom) ==
    LET rebuilt == ev.rebuilt /\ ev.io = 0
    IN  IF CASE dom = "D3" -> RbbAccounted(ev) /\ ev.rbbFailed = 0
             [] dom = "D4" -> rebuilt
             [] OTHER -> rebuilt /\ ev.finalFailed = 0
        THEN IF dom = "D4" THEN "rebuilt" ELSE "erased"
        ELSE "erase-failed"
PhysicalCoverage(ev, dom) ==
    IF CASE dom = "D3" -> /\ RbbAccounted(ev) /\ ev.rbbFailed = 0
                          /\ ev.eraseFailed = 0
         [] dom = "D4" -> ev.rebuilt
         [] OTHER -> ev.eraseFailed = 0
    THEN IF dom = "D4" THEN "rebuilt" ELSE "erased"
    ELSE "erase-failed"
Coverage(level, ev) ==
    [dom \in Domains \ {"D5"} |->
        CASE level = "C2" -> DeviceCoverage(ev, dom)
          [] level = "C3" -> ControllerCoverage(ev, dom)
          [] level = "C4" -> PhysicalCoverage(ev, dom)]

\* The end of run_execute_inner: `ended` is how the actions ended, `before`
\* the capacity identified at the start, `after` the one identified now.
ReportOf(level, floor, ev, ended, before, after) ==
    LET stable == after = IF level # "C2" /\ ev.expected # None
                          THEN ev.expected ELSE before
        e == [ev EXCEPT !.stable = @ /\ stable]
        v == Grade(level, e)
        healthy == Healthy(level, ev, stable)
        passed == v.qualified /\ healthy
        result == IF ended # "ok" THEN ended
                  ELSE IF /\ passed /\ Rank(v.grade) >= Rank(floor)
                          /\ v.residual \in {"none-known", "unreachable"}
                       THEN "ok" ELSE "degraded"
    IN  [result |-> result, grade |-> v.grade, qualified |-> v.qualified,
         residual |-> v.residual, healthy |-> healthy,
         coverage |-> Coverage(level, e),
         final |-> IF ended = "ok" /\ passed THEN "raw-uninitialized"
                                             ELSE "undetermined"]
=============================================================================
