---------------------------- MODULE ScratchCheck ----------------------------
(***************************************************************************)
(* `nclr check --scratch-range START:SECTORS --yes`: the core identifies a *)
(* device by its path, probes it, samples it, and has a backend save a     *)
(* range of sectors, overwrite it, read it back and restore it.  The path  *)
(* may name another device between two uses, the device may fail or        *)
(* corrupt a command, a time-out or a hand may stop the backend, and an    *)
(* `nclr run` may erase the planned device meanwhile: `check` takes no     *)
(* device lock.                                                            *)
(***************************************************************************)
EXTENDS Integers

CONSTANTS
  MaxInt,      \* the largest u64
  Sector,      \* bytes of a sector
  Limit,       \* sectors of the largest range
  Requests,    \* the ranges asked for: <<start, count>>
  Size,        \* sectors of the two devices the path may name
  Backends,    \* "block" (scsi, sd-native, lba) and "sim"
  MaxFaults,   \* failed, corrupted and stopped commands
  MaxSwaps     \* exchanges of what the path names

Units == {"ours", "other"}

ASSUME ScratchAssumption ==
  /\ {MaxInt, MaxFaults, MaxSwaps} \subseteq Nat /\ {Sector, Limit} \subseteq Nat \ {0}
  /\ Requests \subseteq (0..MaxInt) \X (0..MaxInt)
  /\ Size \in [Units -> Nat] /\ \A u \in Units : Size[u] * Sector <= MaxInt
  /\ Backends \subseteq {"block", "sim"}

VARIABLES
  medium,   \* the sectors as reads show them and as a power cut leaves them
  named,    \* the device the path names
  mounted,  \* the devices the system uses
  core,     \* the process `nclr check`
  job,      \* its backend, at work on the range
  eraser,   \* the `nclr run` on "ours"
  used, hist

vars == <<medium, named, mounted, core, job, eraser, used, hist>>

Sectors(u) == 0..Size[u] - 1
Data == {"user", "pattern", "zero", "bad"}
Span(start, count) == start..start + count - 1
Working == {"bounds", "save", "write", "flush", "read", "restore", "reflush"}

Init ==
  /\ medium = [u \in Units |-> [view |-> [s \in Sectors(u) |-> "user"],
                                stable |-> [s \in Sectors(u) |-> "user"]]]
  /\ named = "ours" /\ mounted \in SUBSET Units
  /\ core = [pc |-> "identify", kind |-> "block", start |-> 0, count |-> 0,
             fd |-> "none", errors |-> FALSE, code |-> "none"]
  /\ job = [pc |-> "none", saved |-> <<>>, found |-> "ok", answer |-> "none"]
  /\ eraser = "off"
  /\ used = [faults |-> 0, swaps |-> 0]
  /\ hist = [before |-> <<>>, foreign |-> FALSE, corrupt |-> FALSE, touched |-> {}]

TypeOK ==
  /\ \A u \in Units : \A c \in {"view", "stable"} : medium[u][c] \in [Sectors(u) -> Data]
  /\ named \in Units /\ mounted \subseteq Units
  /\ core.pc \in {"identify", "open", "probe", "sample", "scratch", "ended"}
  /\ core.kind \in {"block", "sim"}
  /\ core.start \in 0..MaxInt /\ core.count \in 0..MaxInt
  /\ core.fd \in Units \cup {"none"} /\ core.errors \in BOOLEAN
  /\ core.code \in {"none", "ok", "io", "refused", "failed"}
  /\ job.pc \in Working \cup {"none", "answered", "dead"}
  /\ job.found \in {"ok", "error"} /\ job.answer \in {"none", "ok", "error"}
  /\ eraser \in {"off", "write", "verify", "ok", "failed"}
  /\ used.faults \in 0..MaxFaults /\ used.swaps \in 0..MaxSwaps

-----------------------------------------------------------------------------
(* Arithmetic: checked_mul and checked_add, whose None is an error.         *)
Within(start, count, capacity) ==
  /\ start * Sector <= MaxInt /\ count * Sector <= MaxInt
  /\ start * Sector + count * Sector <= MaxInt
  /\ start * Sector + count * Sector <= capacity

Capacity(u) == Size[u] * Sector

-----------------------------------------------------------------------------
(* The core: cmd_check. *)

End(code) == core' = [core EXCEPT !.pc = "ended", !.code = code]
Fault == used.faults < MaxFaults /\ used' = [used EXCEPT !.faults = @ + 1]

(* identify, parse_scratch_range and the preflight, by what identify saw.   *)
Identify ==
  /\ core.pc = "identify"
  /\ \E r \in Requests, k \in Backends :
       LET fine == /\ r[2] <= Limit /\ Within(r[1], r[2], Capacity(named))
                   /\ named \notin mounted
       IN  core' = [core EXCEPT !.kind = k, !.start = r[1], !.count = r[2],
                                !.pc = IF fine THEN "open" ELSE "ended",
                                !.code = IF fine THEN "none" ELSE "refused"]
  /\ UNCHANGED <<medium, named, mounted, job, eraser, used, hist>>

(* open_raw follows the path again; nothing compares the two devices.       *)
Open ==
  /\ core.pc = "open"
  /\ core' = [core EXCEPT !.pc = "probe", !.fd = named]
  /\ UNCHANGED <<medium, named, mounted, job, eraser, used, hist>>

Probe ==
  /\ core.pc = "probe"
  /\ \/ core' = [core EXCEPT !.pc = "sample"] /\ UNCHANGED used
     \/ Fault /\ End("failed")
  /\ UNCHANGED <<medium, named, mounted, job, eraser, hist>>

(* sample-read: an unreadable sample is an error of the check, a malformed  *)
(* answer its end.  The vendor's health query can only warn.                *)
Sample ==
  /\ core.pc = "sample"
  /\ \/ core' = [core EXCEPT !.pc = "scratch"] /\ UNCHANGED used
     \/ Fault /\ core' = [core EXCEPT !.pc = "scratch", !.errors = TRUE]
     \/ Fault /\ End("failed")
  /\ UNCHANGED <<medium, named, mounted, job, eraser, hist>>

Call ==
  /\ core.pc = "scratch" /\ job.pc = "none"
  /\ job' = [job EXCEPT !.pc = "bounds"]
  /\ hist' = [hist EXCEPT !.before = medium[core.fd].view]
  /\ UNCHANGED <<medium, named, mounted, core, eraser, used>>

(* Only the response's "ok" is looked at, not the status of its result.     *)
Refused_Never == FALSE                    \* mutant: a failed response is not noticed
Refused == job.answer = "error"
Collect ==
  /\ core.pc = "scratch" /\ job.pc = "answered"
  /\ End(IF core.errors \/ Refused THEN "io" ELSE "ok")
  /\ UNCHANGED <<medium, named, mounted, job, eraser, used, hist>>

-----------------------------------------------------------------------------
(* The backend: scratch_test, and the like action of the simulator. *)

Asked == Span(core.start, core.count)
Goto(pc) == job' = [job EXCEPT !.pc = pc]
Answer(a) == job' = [job EXCEPT !.pc = "answered", !.answer = a]
Fails == Fault /\ Answer("error")

(* The range is checked against the capacity the descriptor has now.  The   *)
(* simulator has no limit and no case of an empty range.                    *)
Bounds ==
  /\ job.pc = "bounds"
  /\ IF core.kind = "block" /\ core.count = 0 THEN Answer("ok")
     ELSE IF (core.kind = "block" => core.count <= Limit)
             /\ Within(core.start, core.count, Capacity(core.fd)) THEN Goto("save")
     ELSE Answer("error")
  /\ UNCHANGED <<medium, named, mounted, core, eraser, used, hist>>

Save ==
  /\ job.pc = "save"
  /\ \/ /\ job' = [job EXCEPT !.pc = "write",
                              !.saved = [s \in Asked |-> medium[core.fd].view[s]]]
        /\ UNCHANGED used
     \/ Fails
  /\ UNCHANGED <<medium, named, mounted, core, eraser, hist>>

(* A write that fails has written a beginning of the range; one sector may  *)
(* take what was not sent.                                                  *)
Stored(f, n) ==
  [s \in Sectors(core.fd) |-> IF s \in Span(core.start, n) THEN f[s] ELSE medium[core.fd].view[s]]
Touch(n) == hist.touched \cup {<<core.fd, s>> : s \in Span(core.start, n)}
Writes(f, n) == medium' = [medium EXCEPT ![core.fd].view = Stored(f, n)]
Wrote_NoSeek(f, n) ==    \* mutant: writing goes on where reading stopped
  LET Of(s) == s - core.count
      Reach == {s \in Sectors(core.fd) : Of(s) \in Span(core.start, n)}
  IN  /\ medium' = [medium EXCEPT ![core.fd].view =
                      [s \in Sectors(core.fd) |-> IF s \in Reach THEN f[Of(s)] ELSE @[s]]]
      /\ hist' = [hist EXCEPT !.touched = @ \cup {<<core.fd, s>> : s \in Reach}]
Wrote(f, n) == Writes(f, n) /\ hist' = [hist EXCEPT !.touched = Touch(n)]

Pattern == [s \in Asked |-> "pattern"]
Write ==
  /\ job.pc = "write"
  /\ \/ Wrote(Pattern, core.count) /\ Goto("flush") /\ UNCHANGED used
     \/ /\ Fault /\ Goto("flush")
        /\ \E b \in Asked : Wrote([Pattern EXCEPT ![b] = "bad"], core.count)
     \/ Fails /\ \E n \in 0..core.count : Wrote(Pattern, n)
  /\ UNCHANGED <<named, mounted, core, eraser>>

Synced(u) == [medium EXCEPT ![u].stable = medium[u].view]
Flush(from, next) ==
  /\ job.pc = from
  /\ \/ medium' = Synced(core.fd) /\ next /\ UNCHANGED used
     \/ Fails /\ UNCHANGED medium
  /\ UNCHANGED <<named, mounted, core, eraser, hist>>

FlushPattern == Flush("flush", Goto("read"))

ReadBack ==
  /\ job.pc = "read"
  /\ \/ /\ job' = [job EXCEPT !.pc = "restore",
                     !.found = IF \A s \in Asked : medium[core.fd].view[s] = "pattern"
                               THEN "ok" ELSE "error"]
        /\ UNCHANGED used
     \/ Fails
  /\ UNCHANGED <<medium, named, mounted, core, eraser, hist>>

Restored_Pattern == Pattern              \* mutant: the wrong buffer is written back
Restored == job.saved
Restore ==
  /\ job.pc = "restore"
  /\ \/ Wrote(Restored, core.count) /\ Goto("reflush") /\ UNCHANGED used
     \/ /\ Fault /\ Goto("reflush")
        /\ \E b \in Asked : Writes([Restored EXCEPT ![b] = "bad"], core.count)
        /\ hist' = [hist EXCEPT !.touched = Touch(core.count), !.corrupt = TRUE]
     \/ Fails /\ \E n \in 0..core.count : Wrote(Restored, n)
  /\ UNCHANGED <<named, mounted, core, eraser>>

(* "restored" is said once the flush succeeds; nothing reads it back.       *)
FlushRestored == Flush("reflush", Answer("ok"))

-----------------------------------------------------------------------------
(* The world. *)

(* A time-out, a hand or a hang-up ends core and backend.                   *)
Stop ==
  /\ core.pc = "scratch" /\ job.pc \in Working /\ Fault
  /\ Goto("dead") /\ End("failed")
  /\ \/ UNCHANGED medium
     \/ medium' = [u \in Units |-> [medium[u] EXCEPT !.view = medium[u].stable]]
  /\ UNCHANGED <<named, mounted, eraser, hist>>

Swap ==
  /\ used.swaps < MaxSwaps /\ used' = [used EXCEPT !.swaps = @ + 1]
  /\ named' = CHOOSE u \in Units : u # named
  /\ UNCHANGED <<medium, mounted, core, job, eraser, hist>>

(* `nclr run` on "ours": it zeroes the device, flushes and reads it back.   *)
EraserWrites ==
  /\ eraser = "off" /\ "ours" \notin mounted
  /\ eraser' = "write"
  /\ medium' = [medium EXCEPT !["ours"].view = [s \in Sectors("ours") |-> "zero"]]
  /\ hist' = [hist EXCEPT !.foreign = TRUE]
  /\ UNCHANGED <<named, mounted, core, job, used>>

EraserFlushes ==
  /\ eraser = "write" /\ eraser' = "verify"
  /\ medium' = Synced("ours")
  /\ UNCHANGED <<named, mounted, core, job, used, hist>>

EraserVerifies ==
  /\ eraser = "verify"
  /\ eraser' = IF \A s \in Sectors("ours") : medium["ours"].view[s] = "zero" THEN "ok" ELSE "failed"
  /\ UNCHANGED <<medium, named, mounted, core, job, used, hist>>

Next ==
  \/ Identify \/ Open \/ Probe \/ Sample \/ Call \/ Collect
  \/ Bounds \/ Save \/ Write \/ FlushPattern \/ ReadBack \/ Restore \/ FlushRestored
  \/ Stop \/ Swap \/ EraserWrites \/ EraserFlushes \/ EraserVerifies

Spec == Init /\ [][Next]_vars

-----------------------------------------------------------------------------
(* Properties. *)

(* Whatever range is asked for and whatever the path comes to name, the     *)
(* test writes only sectors of that range, and sectors the opened device    *)
(* has (nclr.rs parse_scratch_range, backend_common.rs scratch_test).       *)
InRange ==
  TypeOK /\ \A t \in hist.touched : t[1] = core.fd /\ t[2] \in Asked \cap Sectors(core.fd)

(* A check that exits 0 has left on the medium what it found there, unless  *)
(* another program wrote or the device stored what it was not sent          *)
(* (backend_common.rs scratch_test).                                        *)
OkMeansRestored ==
  core.code = "ok" /\ ~hist.foreign /\ ~hist.corrupt =>
    \A s \in Sectors(core.fd) :
      medium[core.fd].view[s] = hist.before[s]
      /\ (s \in Asked => medium[core.fd].stable[s] = hist.before[s])

-----------------------------------------------------------------------------
(* What is said of the program and TLC refutes: no run checks it (README,  *)
(* Findings).                                                              *)

(* A check that ends leaves the range as it was (nclr.1: writes a limited   *)
(* range and restores it).                                                  *)
AlwaysRestored ==
  core.pc = "ended" /\ job.pc = "answered" /\ ~hist.foreign /\ ~hist.corrupt =>
    medium[core.fd].view = hist.before

(* Exit code 0 means the post-verification passed (README, Exit codes).     *)
OkMeansVerified == core.code = "ok" => job.found = "ok"

(* What a run erased under the lock of its device does not come back: no    *)
(* other process writes there meanwhile (nclr.rs open_for_run).             *)
ErasedStaysErased == eraser = "ok" => \A s \in Sectors("ours") : medium["ours"].view[s] # "user"
=============================================================================
