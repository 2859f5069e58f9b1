------------------------------ MODULE Journal ------------------------------
(***************************************************************************)
(* The state file of a run (journal.rs) and the processes that read and    *)
(* append to it: `nclr run`, which opens it under the device lock and      *)
(* seeds it, and `nclr resume`, which first reads it and then takes the    *)
(* lock.  Processes are killed, the host loses power, writes fail.         *)
(*                                                                         *)
(* A line is what `record` writes; its digest is its `stamp`, which no two *)
(* lines share.  "junk" is a line that is no record: a fragment and a      *)
(* record that was appended to it.  Only the five records that bear on a   *)
(* resume are distinguished.                                               *)
(***************************************************************************)
EXTENDS Integers, SequencesExt, FiniteSets

CONSTANTS
    Procs,       \* process slots; two let two commands overlap
    Plan,        \* the ids of the actions of the plan
    MaxFaults,   \* failed writes and syncs in a behaviour
    MaxStarts    \* commands started in a behaviour

RecordStates == {"locked", "action-started", "awaiting-device",
                 "action-completed", "complete"}

JournalAssumption ==
    /\ Plan \in Seq(STRING)
    /\ MaxFaults \in Nat /\ MaxStarts \in Nat

VARIABLES file,    \* the state file as processes see it
          synced,  \* how many of its lines are on stable storage
          proc,    \* the processes
          acked,   \* the lines whose `record` returned Ok
          used
vars == <<file, synced, proc, acked, used>>

Lines == [seq : Nat, prev : Nat, stamp : Nat,
          state : RecordStates \cup {"junk"}, act : Nat]
Files == [lines : Seq(Lines), torn : BOOLEAN]   \* torn: an unterminated tail

Holding == {"loop", "write", "sync", "acting"}   \* the lock is held
Processes == [pc : {"off", "summarized"} \cup Holding, kind : {"run", "resume"},
              rec : RecordStates,         \* the record being written
              idx : Nat \ {0},            \* the action being run
              failed : BOOLEAN,           \* a record of this process failed
              seq : Nat, prev : Nat]      \* Journal.seq, Journal.prev_hash

Usage == [starts : 0..MaxStarts, faults : 0..MaxFaults, stamps : Nat,
          overlap : BOOLEAN,   \* two commands were under way at once
          behind : BOOLEAN]    \* a record was written behind a failed one

\* The file holds lines, of which at most all are synced.
TypeOK ==
    /\ file \in Files
    /\ synced \in Nat /\ synced <= Len(file.lines)
    /\ proc \in [Procs -> Processes]
    /\ acked \subseteq Lines
    /\ used \in Usage

Off == [pc |-> "off", kind |-> "run", rec |-> "locked", idx |-> 1,
        failed |-> FALSE, seq |-> 0, prev |-> 0]

Init ==
    /\ file = [lines |-> <<>>, torn |-> FALSE] /\ synced = 0
    /\ proc = [p \in Procs |-> Off]
    /\ acked = {}
    /\ used = [starts |-> 0, faults |-> 0, stamps |-> 0, overlap |-> FALSE,
               behind |-> FALSE]

-----------------------------------------------------------------------------
(* Reading: parse_records with validate_record, and summarize. *)

\* A completion removes the start it answers from the set of started actions.
StartedFor(lines, i) ==
    \E j \in 1..(i - 1) :
        /\ lines[j].state = "action-started"
        /\ Plan[lines[j].act] = Plan[lines[i].act]
        /\ \A k \in (j + 1)..(i - 1) :
             ~(lines[k].state = "action-completed"
                 /\ Plan[lines[k].act] = Plan[lines[i].act])

Parses(lines) ==
    \A i \in DOMAIN lines :
        /\ lines[i].state # "junk"
        /\ lines[i].seq = i - 1
        /\ lines[i].prev = IF i = 1 THEN 0 ELSE lines[i - 1].stamp
        /\ lines[i].state = "locked" <=> i = 1
        /\ lines[i].state = "action-completed" => StartedFor(lines, i)

\* completed_by_plan, of which line i holds the Done(lines, i)-th action.
Done(lines, i) == Cardinality({j \in 1..i : lines[j].state = "action-completed"})

\* journal completed actions are an exact prefix of the plan
ExactPrefix(lines) ==
    \A i \in DOMAIN lines :
        lines[i].state = "action-completed" =>
            /\ Done(lines, i) <= Len(Plan)
            /\ Plan[lines[i].act] = Plan[Done(lines, i)]

\* The action to go on with.
Boundary_Repeats(lines) ==                                         \* mutant
    IF Done(lines, Len(lines)) = 0 THEN 1 ELSE Done(lines, Len(lines))
Boundary(lines) == Done(lines, Len(lines)) + 1

-----------------------------------------------------------------------------
(* Opening. *)

\* flock(LOCK_EX | LOCK_NB) on the physical path of the plan's device, the
\* same for every process of this journal.
LockFree == \A q \in Procs : proc[q].pc \notin Holding

\* Journal::open cuts a tail without a newline, and then syncs.
Repaired_Kept(f) == f                                              \* mutant
Repaired(f) == [f EXCEPT !.torn = FALSE]

NextSeq(lines) == IF lines = <<>> THEN 0 ELSE Last(lines).seq + 1
LastDigest(lines) == IF lines = <<>> THEN 0 ELSE Last(lines).stamp

Open(p, opened) ==
    /\ LockFree /\ Parses(file.lines)
    /\ file' = Repaired(file)
    /\ synced' = IF file.torn THEN Len(file.lines) ELSE synced
    /\ proc' = [proc EXCEPT ![p] =
                  IF opened.pc = "off" THEN Off
                  ELSE [opened EXCEPT !.seq = NextSeq(file.lines),
                                      !.prev = LastDigest(file.lines)]]
    /\ UNCHANGED acked

Start == /\ used.starts < MaxStarts
         /\ used' = [used EXCEPT !.starts = @ + 1,
                                 !.overlap = @ \/ \E q \in Procs : proc[q].pc # "off"]

\* `run` records the plan in an empty journal; in any other, validate_record
\* refuses a second "locked" record, and the process ends.
Run(p) ==
    /\ proc[p].pc = "off" /\ Start
    /\ Open(p, IF file.lines = <<>> THEN [Off EXCEPT !.pc = "write"] ELSE Off)

\* `resume` summarizes the journal, without the lock ...
Summarize(p) ==
    /\ proc[p].pc = "off" /\ Start
    /\ Parses(file.lines) /\ file.lines # <<>>
    /\ ExactPrefix(file.lines)
    /\ proc' = [proc EXCEPT ![p] =
                  [Off EXCEPT !.pc = "summarized", !.kind = "resume",
                              !.idx = Boundary(file.lines)]]
    /\ UNCHANGED <<file, synced, acked>>

\* ... and takes the lock later, or is refused it.
Acquire(p) ==
    /\ proc[p].pc = "summarized"
    /\ \/ Open(p, [proc[p] EXCEPT !.pc = "loop"])
       \/ /\ ~LockFree \/ ~Parses(file.lines)
          /\ proc' = [proc EXCEPT ![p] = Off]
          /\ UNCHANGED <<file, synced, acked>>
    /\ UNCHANGED used

-----------------------------------------------------------------------------
(* Journal::record, and what its callers do with the result. *)

Record(p, state) ==
    proc' = [proc EXCEPT ![p] = [@ EXCEPT !.pc = "write", !.rec = state]]

\* The process ends, with whatever status; a `run` writes "complete" before.
Left(c) == IF c.kind = "run" THEN [c EXCEPT !.pc = "write", !.rec = "complete"]
                             ELSE Off
Leave(p) == proc' = [proc EXCEPT ![p] = Left(@)]

\* The head of the action loop: the plan's end, a signal, the next action.
Loop(p) ==
    /\ proc[p].pc = "loop"
    /\ \/ Leave(p)
       \/ proc[p].idx <= Len(Plan) /\ Record(p, "action-started")
    /\ UNCHANGED <<file, synced, acked, used>>

\* The action between its two records: it ends, is interrupted, fails, or
\* makes its device disappear for a while.
Act(p) ==
    /\ proc[p].pc = "acting"
    /\ \/ Record(p, "action-completed")
       \/ /\ proc[p].rec = "action-started"
          /\ Record(p, "awaiting-device")
       \/ Leave(p)
    /\ UNCHANGED <<file, synced, acked, used>>

NewLine(p) ==
    [seq |-> proc[p].seq, prev |-> proc[p].prev, stamp |-> used.stamps + 1,
     state |-> proc[p].rec, act |-> proc[p].idx]
\* Appended behind a fragment, the line completes that one.
Written(p) == IF file.torn THEN [NewLine(p) EXCEPT !.state = "junk"]
                           ELSE NewLine(p)

\* A failed "awaiting-device" record is only warned about; any other ends
\* the action loop, after which a `run` still writes "complete", and those
\* outside of the loop end the process.
AfterFailure(c) ==
    CASE c.rec = "awaiting-device" -> [c EXCEPT !.pc = "acting", !.failed = TRUE]
      [] c.rec \in {"action-started", "action-completed"} -> Left([c EXCEPT !.failed = TRUE])
      [] OTHER -> Off

Failed(p) ==
    /\ used.faults < MaxFaults
    /\ used' = [used EXCEPT !.faults = @ + 1]
    /\ proc' = [proc EXCEPT ![p] = AfterFailure(@)]

\* write_all: the whole line, or nothing, or a part of it.
Write(p) ==
    /\ proc[p].pc = "write"
    /\ \/ /\ file' = [lines |-> Append(file.lines, Written(p)), torn |-> FALSE]
          /\ used' = [used EXCEPT !.stamps = @ + 1, !.behind = @ \/ proc[p].failed]
          /\ proc' = [proc EXCEPT ![p].pc = "sync"]
       \/ Failed(p) /\ (UNCHANGED file \/ file' = [file EXCEPT !.torn = TRUE])
    /\ UNCHANGED <<synced, acked>>

Chain(c, line) == [c EXCEPT !.seq = @ + 1, !.prev = line.stamp]

\* What a process goes on to once its record is durable.
AfterRecord(c) ==
    CASE c.rec = "locked"                                -> [c EXCEPT !.pc = "loop"]
      [] c.rec = "action-completed"                      -> [c EXCEPT !.pc = "loop", !.idx = @ + 1]
      [] c.rec \in {"action-started", "awaiting-device"} -> [c EXCEPT !.pc = "acting"]
      [] c.rec = "complete"                              -> Off

\* sync_all: the record is acknowledged, seq and prev_hash move on to it.
AfterSync_Cached == synced                                         \* mutant
AfterSync == Len(file.lines)
Sync(p) ==
    /\ proc[p].pc = "sync"
    /\ \/ /\ synced' = AfterSync
          /\ acked' = acked \cup {Last(file.lines)}
          /\ proc' = [proc EXCEPT ![p] = AfterRecord(Chain(proc[p], Last(file.lines)))]
          /\ UNCHANGED used
       \/ Failed(p) /\ UNCHANGED <<synced, acked>>
    /\ UNCHANGED file

-----------------------------------------------------------------------------
(* What a process does not survive. *)

\* Killed, possibly in the middle of a write.
Kill(p) ==
    /\ proc[p].pc # "off"
    /\ proc' = [proc EXCEPT ![p] = Off]
    /\ \/ UNCHANGED file
       \/ proc[p].pc = "write" /\ file' = [file EXCEPT !.torn = TRUE]
    /\ UNCHANGED <<synced, acked, used>>

\* The host loses power: of what was not synced any beginning is left.
PowerLoss ==
    /\ \E k \in synced..Len(file.lines), t \in BOOLEAN :
         /\ t => k < Len(file.lines) \/ file.torn
         /\ file' = [lines |-> SubSeq(file.lines, 1, k), torn |-> t]
         /\ synced' = k
    /\ proc' = [p \in Procs |-> Off]
    /\ UNCHANGED <<acked, used>>

-----------------------------------------------------------------------------
Next ==
    \/ \E p \in Procs : \/ Run(p) \/ Summarize(p) \/ Acquire(p) \/ Loop(p)
                        \/ Act(p) \/ Write(p) \/ Sync(p) \/ Kill(p)
    \/ PowerLoss

Spec == Init /\ [][Next]_vars

-----------------------------------------------------------------------------
(* Properties. *)

\* After any crash, torn write, failed record or overlap of commands the
\* journal is a chain of records every reader accepts, unless a process wrote
\* on behind a record that had failed (journal.rs open, record).
Readable == TypeOK /\ (used.behind \/ Parses(file.lines))

\* Its completed actions are then an exact prefix of the plan, so that a
\* resume finds its boundary, if no two commands ever overlapped (journal.rs
\* summarize, nclr.rs cmd_resume).
Resumable == used.behind \/ used.overlap \/ ExactPrefix(file.lines)

\* What is durable only grows, and a record is acknowledged once it is
\* durable (journal.rs record, open).
Log == INSTANCE DurableLog WITH log <- SubSeq(file.lines, 1, synced), acked <- acked
ImplementsDurableLog == Log!Spec

\* Only the final append may be torn (journal.rs open); it is removed before
\* the next one.
OnlyFinalTorn == \A i \in DOMAIN file.lines : file.lines[i].state # "junk"
=============================================================================
