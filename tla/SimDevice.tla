----------------------------- MODULE SimDevice -----------------------------
(***************************************************************************)
(* The simulated NAND device (sim.rs): a file of physical blocks with a    *)
(* block table and a header.  An operation of the backend process loads    *)
(* table and header, writes block data straight to the file and stores the *)
(* table, then the header, only at its end; a process killed in between    *)
(* leaves the data written so far and the old table.                       *)
(*                                                                         *)
(* A block is one page and holds one kind of content.  `spec` is what the  *)
(* image was created from, with its injected faults; `dev` is the file.    *)
(***************************************************************************)
EXTENDS Integers, Sequences, FiniteSets, SequencesExt, FiniteSetsExt

CONSTANTS
    NumBlocks,    \* physical blocks of the image
    MinSpare,     \* minimum_spare_blocks of the plan's capacity policy
    SanitizeTick  \* blocks a sanitize advances in one status poll

SimAssumption ==
    NumBlocks \in Nat \ {0} /\ MinSpare \in Nat /\ SanitizeTick \in Nat \ {0}

Blocks == 0 .. NumBlocks - 1
BlockStates == {"erased", "fbb", "old-rbb", "quarantined", "unknown"}
Contents == {"zero", "stale", "prbs", "blank"}
SanitizeStates == {"idle", "in-progress", "completed", "failed"}

Specs == [user : 1 .. NumBlocks - 1, guarded : 0 .. NumBlocks,
          fbb : SUBSET Blocks, oldRbb : SUBSET Blocks,
          unknown : SUBSET Blocks, weak : SUBSET Blocks,
          ecc : SUBSET Blocks, failErase : SUBSET Blocks,
          failProgram : SUBSET Blocks, failRead : SUBSET Blocks,
          alias : BOOLEAN, sanitizeFails : BOOLEAN,
          commitFails : BOOLEAN, exitFails : BOOLEAN]

Devices == [state : [Blocks -> BlockStates], flagged : SUBSET Blocks,
            cells : [Blocks -> Contents], service : BOOLEAN,
            gen : Nat, newUser : 0 .. NumBlocks, cycles : Nat,
            sanitize : SanitizeStates, done : Nat]

Ascending(S) ==
    [i \in 1 .. Cardinality(S) |->
        CHOOSE b \in S : Cardinality({x \in S : x < b}) = i - 1]
UpTo(n, s) == SubSeq(s, 1, Min({n, Len(s)}))

Protected(spec) == {b \in Blocks : b >= NumBlocks - spec.guarded}
Bad(dev) == {b \in Blocks : dev.state[b] \in {"fbb", "unknown"}}

\* The state a listed block is created in; a later list overrides.
FirstState(spec, b) ==
    CASE b \in spec.unknown -> "unknown"
      [] b \in spec.oldRbb \ spec.unknown -> "old-rbb"
      [] b \in spec.fbb \ (spec.oldRbb \cup spec.unknown) -> "fbb"
      [] OTHER -> "erased"

\* create: stale data where a file system or an old mapping may have left
\* it; blocks never written read as zeros.  A weak block is born flagged.
Create(spec, sanitize) ==
    LET state == [b \in Blocks |-> FirstState(spec, b)]
        window == UpTo(spec.user,
                       Ascending({b \in Blocks : state[b] = "erased"}
                                 \ (spec.weak \cup spec.ecc)))
    IN  [state |-> state, flagged |-> spec.weak,
         cells |-> [b \in Blocks |->
                      IF \/ b \in ToSet(window)
                         \/ state[b] = "old-rbb" \/ b >= spec.user
                      THEN "stale" ELSE "zero"],
         service |-> FALSE, gen |-> 1, newUser |-> 0, cycles |-> 0,
         sanitize |-> sanitize, done |-> 0]

\* capacity_bytes, in blocks.
Capacity(spec, dev) ==
    LET base == IF dev.newUser > 0 THEN dev.newUser ELSE spec.user
    IN  IF spec.alias /\ dev.cycles > 0 THEN Max({base - 1, 0}) ELSE base

\* from_open_file: the physical blocks behind the logical address space.
\* The window follows the committed capacity; the alias does not move it.
Window(spec, dev) ==
    UpTo(IF dev.newUser > 0 THEN dev.newUser ELSE spec.user,
         Ascending({b \in Blocks : dev.state[b] = "erased"} \ dev.flagged))

\* map_lba: the blocks a sweep of the logical space reaches; an address
\* beyond the window is an error.
Mapped(spec, dev) == UpTo(Capacity(spec, dev), Window(spec, dev))
Unmapped(spec, dev) == Max({Capacity(spec, dev) - Len(Window(spec, dev)), 0})

-----------------------------------------------------------------------------
(* The operations: what each has written when it ends, or is cut short     *)
(* before block `k`, and what it answers.                                  *)

Answer(st, errs, d) == [st |-> st, errs |-> errs, d |-> d]
NoDetails == [none |-> TRUE]
Refused == Answer("error", 1, NoDetails)   \* respond_action_err
Before(k, S) == {b \in S : b < k}

\* enumerate_blocks: every block outside these categories holds data.
OldRbbs(dev) == {b \in Blocks : dev.state[b] = "old-rbb"}
DataBlocks(spec, dev) == Blocks \ (Bad(dev) \cup Protected(spec))

\* erase_physical of each block of S in turn.
Blanked(spec, dev, S) ==
    [dev EXCEPT !.cells = [b \in Blocks |->
        IF b \in S \ (spec.failErase \cup {x \in S : dev.state[x] = "fbb"})
        THEN "blank" ELSE @[b]]]

Failures(spec, S) == Cardinality(S \cap spec.failErase)
Judged(failed) == IF failed = 0 THEN "ok" ELSE "partial"

\* erase_old_rbb_all: every old runtime-bad block, the protected area too.
EraseOldRbb(spec, dev) == Blanked(spec, dev, OldRbbs(dev))
EraseOldRbbAnswer(spec, dev) ==
    LET failed == Failures(spec, OldRbbs(dev))
    IN  Answer(Judged(failed), failed, [failed |-> failed])

\* erase_all_data_blocks
EraseData(spec, dev) == Blanked(spec, dev, DataBlocks(spec, dev))
EraseDataAnswer(spec, dev) ==
    LET failed == Failures(spec, DataBlocks(spec, dev))
    IN  Answer(Judged(failed), failed, [failed |-> failed])

\* qualify_blocks: the test pattern is programmed and read back; a block
\* that fails or is weak is quarantined, which only the stored table knows.
Programmed(spec, dev, S) ==
    [dev EXCEPT !.cells = [b \in Blocks |->
        IF b \in S \ spec.failProgram THEN "prbs" ELSE @[b]]]
FailedBlocks(spec, dev) ==
    DataBlocks(spec, dev) \cap (spec.failProgram \cup spec.failRead)
WeakBlocks(spec, dev) ==
    (DataBlocks(spec, dev) \cap spec.ecc) \ FailedBlocks(spec, dev)
Qualify(spec, dev) ==
    LET out == FailedBlocks(spec, dev) \cup WeakBlocks(spec, dev)
    IN  [Programmed(spec, dev, DataBlocks(spec, dev)) EXCEPT
           !.state = [b \in Blocks |-> IF b \in out THEN "quarantined"
                                                    ELSE @[b]],
           !.flagged = @ \cup out]
QualifyAnswer(spec, dev) ==
    LET failed == Cardinality(FailedBlocks(spec, dev))
        weak == Cardinality(WeakBlocks(spec, dev))
    IN  Answer("ok", 0,
               [qualified |-> Cardinality(DataBlocks(spec, dev))
                                - failed - weak,
                weak |-> weak, failed |-> failed])

\* final_erase: a block that cannot be erased is quarantined.
FinalErase(spec, dev) ==
    LET S == DataBlocks(spec, dev)
    IN  [Blanked(spec, dev, S) EXCEPT
           !.state = [b \in Blocks |-> IF b \in S \cap spec.failErase
                                       THEN "quarantined" ELSE @[b]]]
FinalEraseAnswer(spec, dev) ==
    LET S == DataBlocks(spec, dev)
        failed == Failures(spec, S)
    IN  Answer(Judged(failed), failed,
               [erased |-> Cardinality(S) - failed, failed |-> failed,
                fbbKept |-> TRUE])

\* plan_capacity with the sim profile's policy (no capacity bins): the good
\* blocks less the reserved block and the spare pool; {} when none is left.
Reserved == 1
SparePool(good, weak) == Max({MinSpare, (good * 5 + 99) \div 100, weak + 1})
PlanCapacity(good, weak) ==
    {u \in {good - Reserved - SparePool(good, weak)} : u > 0}

\* rebuild_bbt_ftl: capacity and generation are committed by one header
\* write.  Flagged blocks in the state "erased" count as good.
GoodBlocks(dev) == Cardinality({b \in Blocks : dev.state[b] = "erased"})
Rebuild(spec, dev) ==
    LET plan == PlanCapacity(GoodBlocks(dev), Cardinality(dev.flagged))
    IN  IF spec.commitFails \/ plan = {} THEN dev
        ELSE [dev EXCEPT !.newUser = CHOOSE u \in plan : TRUE,
                         !.gen = @ + 1]
RebuildAnswer(spec, dev) ==
    LET after == Rebuild(spec, dev)
    IN  IF after = dev THEN Refused
        ELSE Answer("ok", 0,
               [generation |-> after.gen, invalidated |-> TRUE,
                capacity |-> Capacity(spec, after),
                spare |-> SparePool(GoodBlocks(dev),
                                    Cardinality(dev.flagged))])

EnterService(dev) == [dev EXCEPT !.service = TRUE]
ExitService(spec, dev) ==
    IF spec.exitFails THEN dev ELSE [dev EXCEPT !.service = FALSE]
PowerCycle(dev) == [dev EXCEPT !.cycles = @ + 1]

-----------------------------------------------------------------------------
(* Reads. *)

\* blank_verify over the logical space, with the content expected of it.
ReadErrors(spec, dev) ==
    Cardinality(ToSet(Mapped(spec, dev)) \cap spec.failRead)
      + Unmapped(spec, dev)
Readable(spec, dev) == ToSet(Mapped(spec, dev)) \ spec.failRead
Uniform(spec, dev) ==
    \E c \in {"zero", "blank"} :
        \A b \in Readable(spec, dev) : dev.cells[b] = c
BlankAs(spec, dev, c) ==
    /\ ReadErrors(spec, dev) = 0 /\ Readable(spec, dev) # {}
    /\ \A b \in Readable(spec, dev) : dev.cells[b] = c

\* signature_check: the stale boot sector of block 0.  It reads both ends of
\* the logical space; an end it cannot read is an error of the whole action.
Ends(spec, dev) == LET m == Mapped(spec, dev) IN {m[1], m[Len(m)]}
EndsReadable(spec, dev) ==
    /\ Unmapped(spec, dev) = 0 /\ Mapped(spec, dev) # <<>>
    /\ Ends(spec, dev) \cap spec.failRead = {}
SignatureFound(spec, dev) ==
    0 \in Ends(spec, dev) /\ dev.cells[0] = "stale"

\* blank-verify and signature-check of a C2 plan.
BlankAnswer(spec, dev) ==
    LET good == Uniform(spec, dev) /\ ReadErrors(spec, dev) = 0
    IN  Answer(IF good THEN "ok" ELSE "error", IF good THEN 0 ELSE 1,
               [uniform |-> good /\ Readable(spec, dev) # {}])
SignatureAnswer(spec, dev) ==
    IF ~EndsReadable(spec, dev) THEN Refused
    ELSE Answer(IF SignatureFound(spec, dev) THEN "found" ELSE "ok", 0,
                NoDetails)

\* postcheck-p2, -c3 and -c4.  A C2 check also looks at the last block,
\* outside the logical space; the others at the mode.
Postcheck(level, spec, dev) ==
    LET last == NumBlocks - 1
        reads == ReadErrors(spec, dev) = 0
        blank == BlankAs(spec, dev, "blank")
        clean == ~SignatureFound(spec, dev)
        extra == IF level = "C2"
                 THEN dev.cells[last] = "blank" /\ last \notin spec.failRead
                 ELSE ~dev.service
        good == reads /\ blank /\ clean /\ extra
    IN  IF ~EndsReadable(spec, dev) THEN Refused
        ELSE Answer(IF good THEN "ok" ELSE "error", IF good THEN 0 ELSE 1,
               [stable |-> TRUE, reads |-> reads, blank |-> blank,
                clean |-> clean, flush |-> TRUE,
                spareOk |-> Capacity(spec, dev) > 0,
                capacity |-> Capacity(spec, dev),
                unknown |-> Cardinality(
                              {b \in Blocks : dev.state[b] = "unknown"}
                              \ Protected(spec))])

\* capture-old-bbt, enumerate-blocks
CaptureAnswer(dev) ==
    Answer("ok", 0,
       [generation |-> dev.gen, digest |-> "valid", copies |-> 1,
        fbb |-> Cardinality({b \in Blocks : dev.state[b] = "fbb"}),
        rbb |-> Cardinality(OldRbbs(dev))])
EnumerateAnswer(spec, dev) ==
    Answer("ok", 0,
       [total |-> NumBlocks, classified |-> NumBlocks,
        data |-> Cardinality(DataBlocks(spec, dev)),
        unknown |-> Cardinality({b \in Blocks : dev.state[b] = "unknown"}
                                \ Protected(spec))])

\* verify-physical-erasure: every page is read; factory-bad, protected and
\* unknown blocks are not expected to be erased.
VerifyAnswer(spec, dev) ==
    LET target == DataBlocks(spec, dev)
        lost == spec.failRead
        dirty == {b \in target \ lost : dev.cells[b] # "blank"}
        clean == target \cap lost = {} /\ dirty = {}
    IN  Answer(IF clean THEN "ok" ELSE "partial",
               Cardinality(target \cap lost) + Cardinality(dirty),
          [pages |-> NumBlocks,
           readable |-> NumBlocks - Cardinality(lost),
           unreadable |-> Cardinality(lost), unknownEcc |-> 0,
           uncorrectable |-> 0, digest |-> "valid",
           target |-> Cardinality(target),
           targetReadable |-> Cardinality(target \ lost),
           targetUnreadable |-> Cardinality(target \cap lost),
           targetUnknownEcc |-> 0, targetUncorrectable |-> 0,
           targetDirty |-> Cardinality(dirty),
           excludedUnreadable |-> Cardinality(lost \ target)])

-----------------------------------------------------------------------------
(* The self-running erase. *)

\* begin_sanitize: a finished or failed one starts over.
BeginSanitize(dev) ==
    IF dev.sanitize = "in-progress" THEN dev
    ELSE [dev EXCEPT !.sanitize = "in-progress", !.done = 0]

SanitizeTotal(dev) ==
    Max({Cardinality({b \in Blocks : dev.state[b] # "fbb"}), 1})

\* erase_all_non_fbb, up to block k
SanitizedBefore(spec, dev, k) ==
    [dev EXCEPT !.cells = [b \in Blocks |->
        IF b < k /\ dev.state[b] # "fbb" /\ b \notin Protected(spec)
        THEN "blank" ELSE @[b]]]

\* sanitize_tick: what a status poll leaves.  The blocks are cleared before
\* the header says so.
Ticks(dev) == dev.sanitize = "in-progress"
TickFails(spec, dev) == spec.sanitizeFails
                          /\ dev.done > SanitizeTotal(dev) \div 2
TickEnds(spec, dev) == ~TickFails(spec, dev)
                         /\ dev.done + SanitizeTick >= SanitizeTotal(dev)
SanitizeDone(spec, dev) ==
    [SanitizedBefore(spec, dev, NumBlocks) EXCEPT
       !.sanitize = "completed", !.done = SanitizeTotal(dev)]
Tick(spec, dev) ==
    IF ~Ticks(dev) THEN dev
    ELSE IF TickFails(spec, dev) THEN [dev EXCEPT !.sanitize = "failed"]
    ELSE IF TickEnds(spec, dev) THEN SanitizeDone(spec, dev)
    ELSE [dev EXCEPT !.done = @ + SanitizeTick]
=============================================================================
