--------------------------- MODULE IdentityProofs --------------------------
(***************************************************************************)
(* Proofs about which device a command acts on: the session of a           *)
(* controller run (DeviceSession), for every controller, every plan that   *)
(* keeps to the form of the recipes, and any number of mounts, replugs,    *)
(* swaps, kills, power losses and resumes; and the bounded write test of   *)
(* `nclr check` (ScratchCheck), for every capacity, range and chunk.       *)
(***************************************************************************)
EXTENDS ScratchCheck, DeviceSession, TLAPS

Opening == {"check", "open", "sg", "probe", "recheck"}
Checked == {"status", "prompt", "ready"}
Reopening == {"awaiting", "reopen", "reopen-fd", "reopen-sg", "rebound", "reidentify"}
Loop == Reopening \cup {"begin", "call", "commit", "complete"}
Left == jr.done + 1..Len(kind.plan)

-----------------------------------------------------------------------------
(* The inductive invariant, in parts. *)

KindOK == /\ kind.enter \in BOOLEAN /\ kind.loader \in BOOLEAN /\ kind.exit \in BOOLEAN
          /\ kind.loader => kind.enter

\* Where the process and the journal stand in the plan.
Position ==
  /\ p.pc \in Loop => p.act = jr.done + 1
  /\ p.pc \notin Stopped => p.trans <= 2
  /\ p.pc \in Loop \ {"begin"} =>
       p.act <= Len(kind.plan) /\ (Action \in Transitions => jr.pending)
  /\ p.pc \in {"awaiting", "rebound"} => Action \in {"enter-service-mode", "exit-service-mode"}
  /\ p.pc \in Reopening => Action \in Transitions
  /\ p.pc = "reidentify" => Action = "re-enumeration"
  /\ p.pc = "commit" => Action = "rebuild-bbt-ftl"
  /\ p.run /\ p.pc \notin Loop \cup Stopped => jr.done = 0 /\ ~jr.pending
  /\ p.pc = "lookup" => ~p.run /\ jr.pending
  /\ p.pc = "ready" => p.run
  /\ jr.pending => jr.done < Len(kind.plan) /\ kind.plan[jr.done + 1] \in Transitions

\* No destructive action is left.
Spared == \A i \in Left : kind.plan[i] \notin Destructive

\* The units a session may have to do with, and the identities the journal and
\* the process go by.
Admitted == {"ours"} \cup past.taken
Listed == jr.accepted \cup p.accepted \cup {p.id}

\* Only identities of admitted units are gone by, and what a descriptor that was
\* checked or reopened leads to is one of them.
Trust ==
  /\ \A f \in Listed : f[1] \in Admitted
  /\ p.pc \in Checked \cup Loop /\ p.sg = "live" => dev.unit \in Admitted

\* A first run that was confirmed over a mounted medium.
Unwarned ==
  p.run /\ past.mountedAtYes =>
    /\ p.pc \in {"ready"} \cup Loop \cup Stopped
    /\ p.pc = "ready" => dev.mounted \/ p.sg # "live"
    /\ p.pc \in Reopening => Spared
    /\ p.pc \in Loop => p.sg # "live" \/ Spared

SafeInv == /\ SessionTypeOK /\ KindOK /\ Position /\ Trust /\ Unwarned
           /\ OnlyOurs /\ BoundaryChecked

\* The identity the unit shows, or will show when it is back.
Coming == IF dev.present THEN Fingerprint(dev)
          ELSE <<dev.unit, dev.mode, dev.cap[dev.unit]>>
Noted == dev.unit = "ours" => Coming \in jr.accepted \cup {PlanFingerprint}
Clear == ~past.lost /\ ~past.reset /\ ~past.adopted
Steady == \/ ~jr.pending /\ p.pc # "commit"
          \/ p.pc \in Opening \cup Checked \cup {"begin", "complete"}
          \/ p.pc = "call" /\ Action # "re-enumeration"

\* What the planned unit shows follows its mode at every enumeration.
Enumerated == dev.unit = "ours" =>
  /\ ~kind.exit => dev.shown = "normal" /\ (~dev.present => dev.mode = "normal")
  /\ dev.present /\ dev.mode = "normal" => dev.shown = "normal"

\* When it is in service mode, the plan still takes it out.
Exits(from) == \E i \in from..Len(kind.plan) : kind.plan[i] = "exit-service-mode"
Leaves == dev.unit = "ours" /\ dev.mode = "service" =>
            Exits(IF p.pc = "complete" THEN jr.done + 2 ELSE jr.done + 1)

Anchoring ==
  /\ p.pc = "lookup" => p.accepted = jr.accepted
  /\ Clear /\ Steady => Noted
  /\ Clear /\ p.pc \in {"reopen-fd", "reopen-sg", "rebound"} /\ Action # "re-enumeration" =>
       Noted \/ Coming = p.id

AnchorInv == SafeInv /\ (kind.enter => kind.exit) /\ Enumerated /\ Leaves /\ Anchoring

-----------------------------------------------------------------------------
(* Types. *)

\* The places of a process.
LEMMA Controls ==
  /\ "lookup" \in Control /\ "check" \in Control /\ "open" \in Control /\ "sg" \in Control
  /\ "probe" \in Control /\ "recheck" \in Control /\ "status" \in Control /\ "prompt" \in Control
  /\ "ready" \in Control /\ "begin" \in Control /\ "call" \in Control /\ "awaiting" \in Control
  /\ "reopen" \in Control /\ "reopen-fd" \in Control /\ "reopen-sg" \in Control /\ "rebound" \in Control
  /\ "reidentify" \in Control /\ "commit" \in Control /\ "complete" \in Control /\ "refused" \in Control
  /\ "failed" \in Control /\ "interrupted" \in Control /\ "done" \in Control /\ "dead" \in Control
  BY DEF Control, Stopped

\* What an identification reads is an identity.
LEMMA FingerprintType ==
  ASSUME SessionTypeOK
  PROVE  /\ Fingerprint(dev) \in Fingerprints
         /\ PlanFingerprint \in Fingerprints
         /\ dev.unit \in PortUnits /\ dev.name \in Names
         /\ dev.mounted \in BOOLEAN /\ dev.present \in BOOLEAN /\ dev.mode \in Modes
<1>1. dev \in Devices
  BY DEF SessionTypeOK
<1>2. dev.cap[dev.unit] \in Capacities
  BY <1>1 DEF Devices
<1> QED
  BY <1>1, <1>2 DEF Devices, Fingerprint, Fingerprints, PlanFingerprint, PortUnits, Modes, Capacities

\* What the steps change of a process, a journal and the history.
LEMMA ProcessMoves ==
  ASSUME p \in Processes, NEW pc \in Control, NEW n \in Nat, NEW f \in Fingerprints
  PROVE  /\ [p EXCEPT !.pc = pc] \in Processes
         /\ [p EXCEPT !.trans = n, !.pc = pc] \in Processes
         /\ [p EXCEPT !.pc = pc, !.act = n] \in Processes
         /\ [p EXCEPT !.pc = pc, !.accepted = p.accepted \cup {f}] \in Processes
<1>1. [p EXCEPT !.pc = pc] \in Processes
  BY DEF Processes
<1>2. [p EXCEPT !.trans = n, !.pc = pc] \in Processes
  BY DEF Processes
<1>3. [p EXCEPT !.pc = pc, !.act = n] \in Processes
  BY DEF Processes
<1>4. [p EXCEPT !.pc = pc, !.accepted = p.accepted \cup {f}] \in Processes
  BY DEF Processes
<1> QED
  BY <1>1, <1>2, <1>3, <1>4

LEMMA Counts ==
  ASSUME p \in Processes, jr \in Journals
  PROVE  /\ p.act \in Nat /\ p.act + 1 \in Nat /\ p.trans \in Nat /\ p.trans + 1 \in Nat
         /\ jr.done \in Nat /\ NextAction \in Nat
         /\ p.id \in Fingerprints /\ p.path \in Names \cup {"none"}
         /\ p.run \in BOOLEAN /\ p.fd \in Descriptors
  BY DEF Processes, Journals, NextAction

LEMMA PlanType ==
  ASSUME SessionTypeOK
  PROVE  /\ Len(kind.plan) \in Nat /\ Recipe(kind.plan)
         /\ \A i \in 1..Len(kind.plan) : kind.plan[i] \in Actions
  BY DeviceSessionAssumption DEF SessionTypeOK

LEMMA RecordType ==
  ASSUME jr \in Journals, NEW f \in Fingerprints,
         NEW path \in Names \cup {"none"}, NEW b \in BOOLEAN
  PROVE  /\ Reidentified(jr, f) \in Journals
         /\ ServiceRecord(jr, f, path) \in Journals
         /\ [ServiceRecord(jr, f, path) EXCEPT !.plan = b] \in Journals
<1>1. Reidentified(jr, f) \in Journals
  BY DEF Journals, Reidentified
<1>2. ServiceRecord(jr, f, path) \in Journals
  BY <1>1 DEF Journals, ServiceRecord
<1>3. [ServiceRecord(jr, f, path) EXCEPT !.plan = b] \in Journals
  BY <1>2 DEF Journals
<1> QED
  BY <1>1, <1>2, <1>3

LEMMA DestroyedType ==
  ASSUME past \in Histories, p.run \in BOOLEAN, dev.unit \in PortUnits, Destroyed
  PROVE  past' \in Histories /\ past'.taken = past.taken
<1> DEFINE wiped ==
      past.erasedMounted \cup (IF dev.mounted /\ past.mountedAtYes THEN {p.run} ELSE {})
<1>1. wiped \in SUBSET BOOLEAN
  BY DEF Histories
<1>2. past.erased \cup {dev.unit} \in SUBSET PortUnits
  BY DEF Histories
<1>3. (past.unpaired \/ p.fd # "live") \in BOOLEAN
  OBVIOUS
<1>4. past' = [past EXCEPT !.erased = past.erased \cup {dev.unit}, !.erasedMounted = wiped,
                 !.unpaired = (past.unpaired \/ p.fd # "live")]
  BY Zenon DEF Destroyed
<1> HIDE DEF wiped
<1> QED
  BY <1>1, <1>2, <1>3, <1>4 DEF Histories

\* What is taken from the port is all that changes of the history then.
LEMMA TakeEffect ==
  ASSUME past \in Histories, dev.unit \in PortUnits, NEW h, h = Take \/ h = Taken
  PROVE  /\ h \in Histories
         /\ h.taken = past.taken \/ h.taken = past.taken \cup {dev.unit}
         /\ h = Take \/ InTransition => h.taken = past.taken \cup {dev.unit}
         /\ h.erased = past.erased /\ h.mountedAtYes = past.mountedAtYes
         /\ h.erasedMounted = past.erasedMounted /\ h.unpaired = past.unpaired
         /\ h.lost = past.lost /\ h.reset = past.reset /\ h.adopted = past.adopted
<1>1. PICK t : t = past.taken \cup {dev.unit}
  OBVIOUS
<1>2. t \in SUBSET PortUnits /\ Take = [past EXCEPT !.taken = t]
  BY <1>1 DEF Take, Histories
<1>3. CASE h = [past EXCEPT !.taken = t]
  BY <1>1, <1>2, <1>3 DEF Histories
<1>4. CASE h = past /\ ~InTransition /\ h # Take
  BY <1>4
<1> QED BY <1>2, <1>3, <1>4 DEF Taken

\* What the steps that take a unit from the port change of the history.
LEMMA PortEffect ==
  ASSUME SafeInv, Commit \/ Reopen \/ ReopenExtras \/ Reidentify \/ Lookup
  PROVE  /\ past' \in Histories /\ past.taken \subseteq past'.taken
         /\ past'.erased = past.erased /\ past'.mountedAtYes = past.mountedAtYes
         /\ past'.erasedMounted = past.erasedMounted /\ past'.unpaired = past.unpaired
         /\ past'.reset = past.reset
         /\ Lookup \/ past'.adopted = past.adopted
         /\ Commit \/ past'.lost = past.lost
         /\ Commit \/ (InTransition => dev.unit \in past'.taken)
<1>0. past \in Histories /\ dev.unit \in PortUnits
  BY FingerprintType DEF SafeInv, SessionTypeOK
<1>1. CASE Commit
  <2>1. CASE past' = Take
    BY <2>1, <1>0, <1>1, TakeEffect
  <2>2. CASE past' = [past EXCEPT !.lost = TRUE]
    BY <2>2, <1>0, <1>1 DEF Histories
  <2> QED BY <1>1, <2>1, <2>2 DEF Commit
<1>2. CASE Reopen
  BY <1>0, <1>2, TakeEffect DEF Reopen
<1>3. CASE ReopenExtras
  BY <1>0, <1>3, TakeEffect DEF ReopenExtras
<1>4. CASE Reidentify
  BY <1>0, <1>4, TakeEffect DEF Reidentify
<1>5. CASE Lookup
  <2>1. PICK h : h = Taken
    OBVIOUS
  <2>2. past' = [h EXCEPT !.adopted = h.adopted \/ (dev.present /\ ~Accepted(Fingerprint(dev)))]
    BY <1>5, <2>1, Zenon DEF Lookup
  <2>3. PICK b \in BOOLEAN : past' = [h EXCEPT !.adopted = b]
    BY <2>2
  <2> QED BY <1>0, <1>5, <2>1, <2>3, TakeEffect DEF Histories
<1> QED BY <1>1, <1>2, <1>3, <1>4, <1>5

\* Every step keeps the types.
LEMMA TypeStep ==
  ASSUME SafeInv, SessionNext
  PROVE  SessionTypeOK'
<1>0. /\ SessionTypeOK /\ dev \in Devices /\ jr \in Journals /\ p \in Processes
      /\ past \in Histories
  BY DEF SafeInv, SessionTypeOK
<1>1. CASE Check
 <2>1. p' \in Processes
    BY <1>1, Controls, FingerprintType DEF Check, At, Goes, Verified, Named, Preflight, SafeInv, SessionTypeOK, Processes, Descriptors
  <2>2. dev' \in Devices
    BY <1>1, Controls DEF Check, At, Goes, Verified, Named, Preflight, SafeInv, SessionTypeOK, Devices
  <2>3. jr'.done <= Len(kind'.plan) /\ p'.act <= Len(kind'.plan) + 1
    BY <1>1, Controls DEF Check, At, Goes, Verified, Named, Preflight, SafeInv, SessionTypeOK, Processes, Descriptors
  <2> QED
    BY <1>1, <2>1, <2>2, <2>3 DEF Check, At, Goes, Verified, Named, Preflight, SafeInv, SessionTypeOK
<1>2. CASE OpenDevice
  BY <1>2, Controls DEF OpenDevice, At, Named, SafeInv, SessionTypeOK, Processes, Descriptors
<1>3. CASE OpenExtras
  BY <1>3, Controls DEF OpenExtras, At, Named, SafeInv, SessionTypeOK, Processes, Descriptors
<1>4. CASE ProbeRun
  BY <1>4, Controls DEF ProbeRun, At, Goes, Usable, SameDevice, SafeInv, SessionTypeOK, Processes, Descriptors
<1>5. CASE Recheck
 <2>1. p' \in Processes
    BY <1>5, <1>0, Controls, ProcessMoves, Counts DEF Recheck, At, Goes, Unchanged, Verified, Named, Accepted, ServiceRecord, Reidentified
  <2>2. jr' \in Journals
    BY <1>5, <1>0, RecordType, Counts DEF Recheck
  <2>3. jr'.done <= Len(kind'.plan) /\ p'.act <= Len(kind'.plan) + 1
    BY <1>5, <1>0, PlanType, Counts DEF Recheck, At, Goes, Unchanged, Verified, Named, Accepted, ServiceRecord, Reidentified, Processes, Journals, SafeInv, SessionTypeOK
  <2> QED
    BY <1>5, <1>0, <2>1, <2>2, <2>3 DEF Recheck, At, Goes, Unchanged, Verified, Named, Accepted, ServiceRecord, Reidentified, SessionTypeOK
<1>6. CASE Status
  BY <1>6, Controls DEF Status, At, Goes, Usable, SameDevice, SafeInv, SessionTypeOK, Processes, Descriptors
<1>7. CASE Confirm
 <2>1. p' \in Processes
    <3>1. CASE p' = [p EXCEPT !.pc = "refused"]
      BY <3>1, <1>0, Controls, ProcessMoves, Counts, FingerprintType
    <3>2. CASE p' = [p EXCEPT !.pc = "ready"]
      BY <3>2, <1>0, Controls, ProcessMoves, Counts, FingerprintType
    <3>3. CASE p' = [p EXCEPT !.pc = "begin", !.act = NextAction]
      BY <3>3, <1>0, Controls, ProcessMoves, Counts, FingerprintType
    <3> QED
      BY <3>1, <3>2, <3>3, <1>7 DEF Confirm, Goes
  <2>2. past' \in Histories
    BY <1>7, <1>0, FingerprintType DEF Confirm, At, Goes, NextAction, Histories
  <2>3. jr'.done <= Len(kind'.plan) /\ p'.act <= Len(kind'.plan) + 1
    <3>1. CASE p' = [p EXCEPT !.pc = "begin", !.act = NextAction]
      BY <1>7, <1>0, <3>1, PlanType, Counts
      DEF Confirm, Processes, Journals, NextAction, SessionTypeOK
    <3>2. CASE p'.act = p.act
      BY <1>7, <1>0, <3>2 DEF Confirm, SessionTypeOK
    <3> QED
      BY <1>7, <1>0, <3>1, <3>2 DEF Confirm, Goes, Processes
  <2> QED
    BY <1>7, <1>0, <2>1, <2>2, <2>3 DEF Confirm, At, Goes, NextAction, SessionTypeOK
<1>8. CASE Ready
 <2>1. p' \in Processes
    BY <1>8, <1>0, Controls, ProcessMoves, Counts, FingerprintType DEF Ready, At, Boundary, Unchanged, Verified, Named, Accepted
  <2>2. jr'.done <= Len(kind'.plan) /\ p'.act <= Len(kind'.plan) + 1
    BY <1>8, <1>0, PlanType, Counts DEF Ready, At, Boundary, Unchanged, Verified, Named, Accepted, Processes, Journals, SafeInv, SessionTypeOK
  <2> QED
    BY <1>8, <1>0, <2>1, <2>2 DEF Ready, At, Boundary, Unchanged, Verified, Named, Accepted, SessionTypeOK
<1>9. CASE Begin
 <2>1. p' \in Processes
    <3> DEFINE pc == IF Action = "re-enumeration" THEN "reopen" ELSE "call"
    <3>1. CASE p' = [p EXCEPT !.trans = 0, !.pc = pc]
      <4>1. pc \in Control
        BY Controls
      <4> HIDE DEF pc
      <4> QED
        BY <1>0, <3>1, <4>1, ProcessMoves, FingerprintType
    <3>2. CASE p' = [p EXCEPT !.pc = "done"]
      BY <1>0, <3>2, Controls, ProcessMoves, FingerprintType
    <3> QED
      BY <1>9, <3>1, <3>2 DEF Begin, Goes, At
  <2>2. jr' \in Journals
    BY <1>9, <1>0 DEF Begin, At, Goes, Action, Journals
  <2>3. jr'.done <= Len(kind'.plan) /\ p'.act <= Len(kind'.plan) + 1
    BY <1>9, <1>0, PlanType, Counts DEF Begin, At, Goes, Action, Processes, Journals, SafeInv, SessionTypeOK
  <2> QED
    BY <1>9, <1>0, <2>1, <2>2, <2>3 DEF Begin, At, Goes, Action, SessionTypeOK
<1>10. CASE Complete
 <2>1. p' \in Processes
    BY <1>10, <1>0, Controls, ProcessMoves, Counts, FingerprintType DEF Complete, At, Action
  <2>2. jr' \in Journals
    BY <1>10, <1>0, Counts DEF Complete, At, StillPending, Action, Journals
  <2>3. jr'.done <= Len(kind'.plan) /\ p'.act <= Len(kind'.plan) + 1
    BY <1>10, <1>0, PlanType, Counts DEF Complete, At, Action, Processes, Journals, SafeInv, SessionTypeOK, Position, Loop, Reopening
  <2> QED
    BY <1>10, <1>0, <2>1, <2>2, <2>3 DEF Complete, At, Action, SessionTypeOK
<1>11. CASE CallFails
  BY <1>11, Controls DEF CallFails, At, Goes, SafeInv, SessionTypeOK, Processes, Descriptors
<1>12. CASE Enter
 <2>1. p' \in Processes
    BY <1>12, Controls DEF Enter, Calls, At, Goes, Transit, Gone, Closed, Dead, Usable, SameDevice, Action, SafeInv, SessionTypeOK, Processes, Descriptors
  <2>2. dev' \in Devices
    BY <1>12, Controls DEF Enter, Calls, At, Goes, Transit, Gone, Closed, Dead, Usable, SameDevice, Action, SafeInv, SessionTypeOK, Devices, Modes
  <2>3. svc' \in Services
    BY <1>12, Controls DEF Enter, Calls, At, Goes, Transit, Gone, Closed, Dead, Usable, SameDevice, Action, SafeInv, SessionTypeOK, Services
  <2>4. jr'.done <= Len(kind'.plan) /\ p'.act <= Len(kind'.plan) + 1
    BY <1>12, Controls DEF Enter, Calls, At, Goes, Transit, Gone, Closed, Dead, Usable, SameDevice, Action, SafeInv, SessionTypeOK, Processes, Descriptors
  <2> QED
    BY <1>12, <2>1, <2>2, <2>3, <2>4 DEF Enter, Calls, At, Goes, Transit, Gone, Closed, Dead, Usable, SameDevice, Action, SafeInv, SessionTypeOK
<1>13. CASE Exit
 <2>1. p' \in Processes
    BY <1>13, Controls DEF Exit, Calls, At, Goes, Transit, Gone, Closed, Dead, Usable, SameDevice, Action, SafeInv, SessionTypeOK, Processes, Descriptors
  <2>2. dev' \in Devices
    BY <1>13, Controls DEF Exit, Calls, At, Goes, Transit, Gone, Closed, Dead, Usable, SameDevice, Action, SafeInv, SessionTypeOK, Devices, Modes
  <2>3. svc' \in Services
    BY <1>13, Controls DEF Exit, Calls, At, Goes, Transit, Gone, Closed, Dead, Usable, SameDevice, Action, SafeInv, SessionTypeOK, Services
  <2>4. jr'.done <= Len(kind'.plan) /\ p'.act <= Len(kind'.plan) + 1
    BY <1>13, Controls DEF Exit, Calls, At, Goes, Transit, Gone, Closed, Dead, Usable, SameDevice, Action, SafeInv, SessionTypeOK, Processes, Descriptors
  <2> QED
    BY <1>13, <2>1, <2>2, <2>3, <2>4 DEF Exit, Calls, At, Goes, Transit, Gone, Closed, Dead, Usable, SameDevice, Action, SafeInv, SessionTypeOK
<1>14. CASE Erase
 <2>1. p' \in Processes
    BY <1>14, <1>0, Controls, ProcessMoves, Counts, FingerprintType DEF Erase, Calls, At, Goes, Destroyed, Usable, SameDevice, Action
  <2>2. past' \in Histories
    BY <1>14, <1>0, DestroyedType, Counts, FingerprintType DEF Erase, Calls, At, Goes, Destroyed, Usable, SameDevice, Action
  <2>3. jr'.done <= Len(kind'.plan) /\ p'.act <= Len(kind'.plan) + 1
    BY <1>14, <1>0, PlanType, Counts DEF Erase, Calls, At, Goes, Destroyed, Usable, SameDevice, Action, Processes, Journals, SafeInv, SessionTypeOK
  <2> QED
    BY <1>14, <1>0, <2>1, <2>2, <2>3 DEF Erase, Calls, At, Goes, Destroyed, Usable, SameDevice, Action, SessionTypeOK
<1>15. CASE Rebuild
 <2>1. p' \in Processes
    BY <1>15, <1>0, Controls, ProcessMoves, Counts, FingerprintType DEF Rebuild, Calls, At, Goes, Destroyed, Usable, SameDevice, Action
  <2>2. past' \in Histories
    BY <1>15, <1>0, DestroyedType, Counts, FingerprintType DEF Rebuild, Calls, At, Goes, Destroyed, Usable, SameDevice, Action
  <2>3. dev' \in Devices
    BY <1>15, <1>0, FingerprintType DEF Rebuild, Calls, At, Goes, Destroyed, Usable, SameDevice, Action, Devices, Capacities
  <2>4. jr'.done <= Len(kind'.plan) /\ p'.act <= Len(kind'.plan) + 1
    BY <1>15, <1>0, PlanType, Counts DEF Rebuild, Calls, At, Goes, Destroyed, Usable, SameDevice, Action, Processes, Journals, SafeInv, SessionTypeOK
  <2> QED
    BY <1>15, <1>0, <2>1, <2>2, <2>3, <2>4 DEF Rebuild, Calls, At, Goes, Destroyed, Usable, SameDevice, Action, SessionTypeOK
<1>16. CASE Commit
 <2>1. p' \in Processes
    <3>1. CASE p' = [p EXCEPT !.pc = "failed"]
      BY <3>1, <1>0, Controls, ProcessMoves, Counts, FingerprintType
    <3>2. CASE p' = [p EXCEPT !.pc = "complete",
                           !.accepted = p.accepted \cup {Fingerprint(dev)}]
      BY <3>2, <1>0, Controls, ProcessMoves, Counts, FingerprintType
    <3> QED
      BY <3>1, <3>2, <1>16 DEF Commit, Goes
  <2>2. jr' \in Journals
    BY <1>16, <1>0, RecordType, FingerprintType, Counts DEF Commit, At, Goes, Named, CapacityRecord, Reidentified, CapacityRecord
  <2>3. past' \in Histories
    BY <1>16, PortEffect
  <2>4. jr'.done <= Len(kind'.plan) /\ p'.act <= Len(kind'.plan) + 1
    BY <1>16, <1>0, PlanType, Counts DEF Commit, At, Goes, Named, CapacityRecord, Reidentified, Processes, Journals, SafeInv, SessionTypeOK
  <2> QED
    BY <1>16, <1>0, <2>1, <2>2, <2>3, <2>4 DEF Commit, At, Goes, Named, CapacityRecord, Reidentified, SessionTypeOK
<1>17. CASE PowerCycle
  BY <1>17, Controls DEF PowerCycle, At, Goes, Gone, Closed, Dead, Action, SafeInv, SessionTypeOK, Processes, Descriptors, Devices, Modes
<1>18. CASE Postcheck
  BY <1>18, Controls DEF Postcheck, Calls, At, Goes, Usable, SameDevice, Action, SafeInv, SessionTypeOK, Processes, Descriptors
<1>19. CASE Awaiting
 <2>1. p' \in Processes
    BY <1>19, <1>0, Controls, ProcessMoves, Counts, FingerprintType DEF Awaiting, At, MaximumTransitions, Action
  <2>2. jr' \in Journals
    BY <1>19, <1>0, Counts DEF Awaiting, At, MaximumTransitions, Action, Journals
  <2>3. jr'.done <= Len(kind'.plan) /\ p'.act <= Len(kind'.plan) + 1
    BY <1>19, <1>0, PlanType, Counts DEF Awaiting, At, MaximumTransitions, Action, Processes, Journals, SafeInv, SessionTypeOK
  <2> QED
    BY <1>19, <1>0, <2>1, <2>2, <2>3 DEF Awaiting, At, MaximumTransitions, Action, SessionTypeOK
<1>20. CASE Reopen
  <2>1. past' \in Histories
    BY <1>20, PortEffect
  <2>2. p' \in Processes /\ p'.act = p.act
    BY <1>20, <1>0, Controls, FingerprintType DEF Reopen, At, Processes, Descriptors
  <2> QED
    BY <1>20, <1>0, <2>1, <2>2 DEF Reopen, SessionTypeOK
<1>21. CASE GiveUp
  BY <1>21, Controls DEF GiveUp, At, Goes, SafeInv, SessionTypeOK, Processes, Descriptors
<1>22. CASE ReopenDevice
  BY <1>22, Controls DEF ReopenDevice, At, Named, SafeInv, SessionTypeOK, Processes, Descriptors
<1>23. CASE ReopenExtras
  <2>1. past' \in Histories
    BY <1>23, PortEffect
  <2>2. p' \in Processes /\ p'.act = p.act
    BY <1>23, <1>0, Controls DEF ReopenExtras, At, Processes, Descriptors
  <2> QED
    BY <1>23, <1>0, <2>1, <2>2 DEF ReopenExtras, SessionTypeOK
<1>24. CASE Rebound
  BY <1>24, Controls DEF Rebound, At, ServiceRecord, Reidentified, SafeInv, SessionTypeOK, Processes, Descriptors, Journals
<1>25. CASE ReEnumerate
  BY <1>25, Controls DEF ReEnumerate, At, Goes, Usable, SameDevice, Action, SafeInv, SessionTypeOK, Processes, Descriptors
<1>26. CASE Reidentify
 <2>1. p' \in Processes
    <3>1. CASE p' = [p EXCEPT !.pc = "reopen"]
      BY <3>1, <1>0, Controls, ProcessMoves, Counts, FingerprintType
    <3>2. CASE p' = [p EXCEPT !.pc = "complete",
                           !.accepted = p.accepted \cup {Fingerprint(dev)}]
      BY <3>2, <1>0, Controls, ProcessMoves, Counts, FingerprintType
    <3> QED
      BY <3>1, <3>2, <1>26 DEF Reidentify, Goes
  <2>2. jr' \in Journals
    BY <1>26, <1>0, RecordType, FingerprintType, Counts DEF Reidentify, At, Goes, Named, ServiceRecord, Reidentified
  <2>3. jr'.done <= Len(kind'.plan) /\ p'.act <= Len(kind'.plan) + 1
    BY <1>26, <1>0, PlanType, Counts DEF Reidentify, At, Goes, Named, ServiceRecord, Reidentified, Processes, Journals, SafeInv, SessionTypeOK
  <2>4. past' \in Histories
    BY <1>26, PortEffect
  <2> QED
    BY <1>26, <1>0, <2>1, <2>2, <2>3, <2>4 DEF Reidentify, SessionTypeOK
<1>27. CASE Lookup
 <2>1. p' \in Processes
    BY <1>27, Controls, FingerprintType DEF Lookup, At, Accepted, SafeInv, SessionTypeOK, Processes, Descriptors
  <2>2. past' \in Histories
    BY <1>27, PortEffect
  <2>3. jr'.done <= Len(kind'.plan) /\ p'.act <= Len(kind'.plan) + 1
    BY <1>27, Controls DEF Lookup, At, Accepted, SafeInv, SessionTypeOK, Processes, Descriptors
  <2> QED
    BY <1>27, <2>1, <2>2, <2>3 DEF Lookup, At, Accepted, SafeInv, SessionTypeOK
<1>28. CASE Return
  BY <1>28, Controls DEF Return, SafeInv, SessionTypeOK, Devices
<1>29. CASE Mount
  BY <1>29, Controls DEF Mount, Event, SafeInv, SessionTypeOK, Devices
<1>30. CASE Replug
  <2>1. dev' \in Devices
    BY <1>30, <1>0 DEF Replug, Reset, Devices, Modes
  <2>2. p' \in Processes
    BY <1>30, <1>0, Controls DEF Replug, Closed, Dead, Processes, Descriptors
  <2>3. past' \in Histories
    BY <1>30, <1>0 DEF Replug, Rebuilt, At, Histories
  <2>4. kind' = kind /\ svc' = svc /\ jr' = jr /\ p'.act = p.act
    BY <1>30, <1>0 DEF Replug, Closed, Dead, Processes
  <2> QED
    BY <1>0, <2>1, <2>2, <2>3, <2>4 DEF SessionTypeOK
<1>31. CASE SwapUnit
  <2>1. dev' \in Devices
    BY <1>31, <1>0 DEF SwapUnit, Reset, Devices, Modes
  <2>2. p' \in Processes
    BY <1>31, <1>0, Controls DEF SwapUnit, Closed, Dead, Processes, Descriptors
  <2>3. past' \in Histories
    BY <1>31, <1>0 DEF SwapUnit, Rebuilt, At, Histories
  <2>4. kind' = kind /\ svc' = svc /\ jr' = jr /\ p'.act = p.act
    BY <1>31, <1>0 DEF SwapUnit, Closed, Dead, Processes
  <2> QED
    BY <1>0, <2>1, <2>2, <2>3, <2>4 DEF SessionTypeOK
<1>32. CASE Kill
  BY <1>32, Controls DEF Kill, Crashes, At, SafeInv, SessionTypeOK, Processes, Descriptors, Histories
<1>33. CASE PowerCut
  <2>1. dev' \in Devices
    BY <1>33, <1>0 DEF PowerCut, Reset, Devices, Modes
  <2>2. p' \in Processes
    BY <1>33, <1>0, Controls DEF PowerCut, Processes, Descriptors
  <2>3. past' \in Histories
    BY <1>33, <1>0 DEF PowerCut, Rebuilt, At, Histories
  <2>4. kind' = kind /\ svc' = svc /\ jr' = jr /\ p'.act = p.act
    BY <1>33, <1>0 DEF PowerCut, Processes
  <2> QED
    BY <1>0, <2>1, <2>2, <2>3, <2>4 DEF SessionTypeOK
<1>34. CASE Resume
 <2>1. p' \in Processes
    BY <1>34, Controls, FingerprintType DEF Resume, Fresh, SafeInv, SessionTypeOK, Processes, Descriptors, Journals
  <2>2. past' \in Histories
    BY <1>34, Controls, FingerprintType DEF Resume, Fresh, SafeInv, SessionTypeOK, Histories
  <2>3. jr'.done <= Len(kind'.plan) /\ p'.act <= Len(kind'.plan) + 1
    BY <1>34, Controls DEF Resume, Fresh, SafeInv, SessionTypeOK, Processes, Descriptors
  <2> QED
    BY <1>34, <2>1, <2>2, <2>3 DEF Resume, Fresh, SafeInv, SessionTypeOK
<1> QED
  BY <1>1, <1>2, <1>3, <1>4, <1>5, <1>6, <1>7, <1>8, <1>9, <1>10, <1>11, <1>12, <1>13, <1>14, <1>15, <1>16, <1>17, <1>18, <1>19, <1>20, <1>21, <1>22, <1>23, <1>24, <1>25, <1>26, <1>27, <1>28, <1>29, <1>30, <1>31, <1>32, <1>33, <1>34 DEF SessionNext, Process, Environment

-----------------------------------------------------------------------------
(* The place in the plan. *)

\* Every step keeps the place in the plan.
LEMMA PositionStep ==
  ASSUME SafeInv, SessionNext
  PROVE  Position'
<1>0. /\ SessionTypeOK /\ dev \in Devices /\ jr \in Journals /\ p \in Processes
      /\ past \in Histories /\ Position
  BY DEF SafeInv, SessionTypeOK
<1>1. CASE Check
  BY <1>1, <1>0, PlanType DEF Check, At, Goes, Verified, Named, Preflight, Position, Loop, Reopening, Stopped, Action, Transitions, Processes, Journals
<1>2. CASE OpenDevice
  BY <1>2, <1>0, PlanType DEF OpenDevice, At, Named, Position, Loop, Reopening, Stopped, Action, Transitions, Processes, Journals
<1>3. CASE OpenExtras
  BY <1>3, <1>0, PlanType DEF OpenExtras, At, Named, Position, Loop, Reopening, Stopped, Action, Transitions, Processes, Journals
<1>4. CASE ProbeRun
  BY <1>4, <1>0, PlanType DEF ProbeRun, At, Goes, Usable, SameDevice, Position, Loop, Reopening, Stopped, Action, Transitions, Processes, Journals
<1>5. CASE Recheck
  <2>1. /\ p.pc = "recheck" /\ p'.pc \in {"refused", "prompt", "status"} /\ p'.trans = p.trans
        /\ p'.act = p.act /\ p'.run = p.run /\ kind' = kind
        /\ jr'.done = jr.done /\ jr'.pending = jr.pending
    BY <1>5, <1>0 DEF Recheck, At, Goes, ServiceRecord, Reidentified, Processes, Journals
  <2> QED
    BY <2>1, <1>0 DEF Position, Loop, Reopening, Stopped, Transitions, Action
<1>6. CASE Status
  BY <1>6, <1>0, PlanType DEF Status, At, Goes, Usable, SameDevice, Position, Loop, Reopening, Stopped, Action, Transitions, Processes, Journals
<1>7. CASE Confirm
  <2>1. /\ p.pc = "prompt" /\ p'.pc \in {"refused", "ready", "begin"} /\ p'.trans = p.trans
        /\ p'.run = p.run /\ (p'.pc = "ready" => p.run)
        /\ p'.pc = "begin" => p'.act = jr.done + 1
        /\ kind' = kind /\ jr' = jr
    BY <1>7, <1>0 DEF Confirm, At, Goes, NextAction, Processes
  <2> QED
    BY <2>1, <1>0 DEF Position, Loop, Reopening, Stopped, Transitions, Action
<1>8. CASE Ready
  BY <1>8, <1>0, PlanType DEF Ready, At, Boundary, Unchanged, Verified, Named, Accepted, Position, Loop, Reopening, Stopped, Action, Transitions, Processes, Journals
<1>9. CASE Begin
  <2>1. CASE p.act > Len(kind.plan) /\ Goes("done") /\ UNCHANGED jr
    BY <2>1, <1>9, <1>0, PlanType
    DEF Begin, At, Goes, Position, Loop, Reopening, Stopped, Action, Processes, Journals
  <2>2. CASE /\ p.act <= Len(kind.plan)
             /\ jr' = [jr EXCEPT !.pending = @ \/ Action \in Transitions]
             /\ p' = [p EXCEPT !.trans = 0,
                        !.pc = IF Action = "re-enumeration" THEN "reopen" ELSE "call"]
    <3>1. /\ p'.pc \in {"reopen", "call"} /\ p'.trans = 0 /\ p'.act = p.act /\ p'.run = p.run
          /\ p'.pc = "reopen" => Action = "re-enumeration"
          /\ jr'.done = jr.done /\ (jr'.pending <=> jr.pending \/ Action \in Transitions)
      BY <2>2, <1>0 DEF Processes, Journals
    <3>2. kind' = kind /\ p.act = jr.done + 1 /\ Action = kind.plan[jr.done + 1] /\ Action' = Action
      BY <3>1, <1>9, <1>0 DEF Begin, At, Position, Loop, Action
    <3>3. jr.done < Len(kind.plan)
      BY <3>2, <2>2, <1>0, PlanType DEF Journals
    <3>4. kind.plan[jr.done + 1] \in Transitions <=> jr'.pending
      BY <3>1, <3>2, <1>0 DEF Position
    <3> QED
      BY <3>1, <3>2, <3>3, <3>4, <2>2 DEF Position, Loop, Reopening, Stopped, Transitions
  <2> QED
    BY <1>9, <2>1, <2>2 DEF Begin
<1>10. CASE Complete
  BY <1>10, <1>0, PlanType DEF Complete, At, StillPending, Position, Loop, Reopening, Stopped, Action, Transitions, Processes, Journals
<1>11. CASE CallFails
  BY <1>11, <1>0, PlanType DEF CallFails, At, Goes, Position, Loop, Reopening, Stopped, Action, Transitions, Processes, Journals
<1>12. CASE Enter
  <2>1. /\ p.pc = "call" /\ p'.pc \in {"call", "awaiting", "complete", "failed"}
        /\ p'.trans = p.trans /\ p'.act = p.act /\ p'.run = p.run
        /\ kind' = kind /\ jr' = jr /\ Action' = Action
        /\ Action = "enter-service-mode"
    BY <1>12, <1>0 DEF Enter, Calls, At, Goes, Transit, Closed, Action, Processes
  <2> QED
    BY <2>1, <1>0 DEF Position, Loop, Reopening, Stopped, Transitions
<1>13. CASE Exit
  <2>1. /\ p.pc = "call" /\ p'.pc \in {"call", "awaiting", "complete", "failed"}
        /\ p'.trans = p.trans /\ p'.act = p.act /\ p'.run = p.run
        /\ kind' = kind /\ jr' = jr /\ Action' = Action
        /\ Action = "exit-service-mode"
    BY <1>13, <1>0 DEF Exit, Calls, At, Goes, Transit, Closed, Action, Processes
  <2> QED
    BY <2>1, <1>0 DEF Position, Loop, Reopening, Stopped, Transitions
<1>14. CASE Erase
  BY <1>14, <1>0, PlanType DEF Erase, Calls, At, Goes, Destroyed, Usable, SameDevice, Position, Loop, Reopening, Stopped, Action, Transitions, Processes, Journals
<1>15. CASE Rebuild
  BY <1>15, <1>0, PlanType DEF Rebuild, Calls, At, Goes, Destroyed, Usable, SameDevice, Position, Loop, Reopening, Stopped, Action, Transitions, Processes, Journals
<1>16. CASE Commit
  <2>1. /\ p.pc = "commit" /\ p'.pc \in {"failed", "complete"} /\ p'.trans = p.trans
        /\ p'.act = p.act /\ p'.run = p.run /\ kind' = kind
        /\ jr'.done = jr.done /\ jr'.pending = jr.pending
    BY <1>16, <1>0 DEF Commit, At, Goes, CapacityRecord, Reidentified, Processes, Journals
  <2> QED
    BY <2>1, <1>0 DEF Position, Loop, Reopening, Stopped, Transitions, Action
<1>17. CASE PowerCycle
  BY <1>17, <1>0, PlanType DEF PowerCycle, At, Goes, Gone, Closed, Dead, Position, Loop, Reopening, Stopped, Action, Transitions, Processes, Journals
<1>18. CASE Postcheck
  BY <1>18, <1>0, PlanType DEF Postcheck, Calls, At, Goes, Usable, SameDevice, Position, Loop, Reopening, Stopped, Action, Transitions, Processes, Journals
<1>19. CASE Awaiting
  BY <1>19, <1>0, PlanType DEF Awaiting, At, MaximumTransitions, Position, Loop, Reopening, Stopped, Action, Transitions, Processes, Journals
<1>20. CASE Reopen
  BY <1>20, <1>0, PlanType DEF Reopen, At, Position, Loop, Reopening, Stopped, Action, Transitions, Processes, Journals
<1>21. CASE GiveUp
  BY <1>21, <1>0, PlanType DEF GiveUp, At, Goes, Position, Loop, Reopening, Stopped, Action, Transitions, Processes, Journals
<1>22. CASE ReopenDevice
  BY <1>22, <1>0, PlanType DEF ReopenDevice, At, Named, Position, Loop, Reopening, Stopped, Action, Transitions, Processes, Journals
<1>23. CASE ReopenExtras
  BY <1>23, <1>0, PlanType DEF ReopenExtras, At, Named, Position, Loop, Reopening, Stopped, Action, Transitions, Processes, Journals
<1>24. CASE Rebound
  BY <1>24, <1>0, PlanType DEF Rebound, At, ServiceRecord, Reidentified, Position, Loop, Reopening, Stopped, Action, Transitions, Processes, Journals
<1>25. CASE ReEnumerate
  BY <1>25, <1>0, PlanType DEF ReEnumerate, At, Goes, Usable, SameDevice, Position, Loop, Reopening, Stopped, Action, Transitions, Processes, Journals
<1>26. CASE Reidentify
  BY <1>26, <1>0, PlanType DEF Reidentify, At, Goes, Named, ServiceRecord, Reidentified, Position, Loop, Reopening, Stopped, Action, Transitions, Processes, Journals
<1>27. CASE Lookup
  BY <1>27, <1>0, PlanType DEF Lookup, At, Accepted, Position, Loop, Reopening, Stopped, Action, Transitions, Processes, Journals
<1>28. CASE Return
  BY <1>28, <1>0, PlanType DEF Return, Position, Loop, Reopening, Stopped, Action, Transitions, Processes, Journals
<1>29. CASE Mount
  BY <1>29, <1>0, PlanType DEF Mount, Event, Position, Loop, Reopening, Stopped, Action, Transitions, Processes, Journals
<1>30. CASE Replug
  BY <1>30, <1>0, PlanType DEF Replug, Event, Reset, Rebuilt, Closed, Dead, Position, Loop, Reopening, Stopped, Action, Transitions, Processes, Journals
<1>31. CASE SwapUnit
  BY <1>31, <1>0, PlanType DEF SwapUnit, Event, Reset, Rebuilt, Closed, Dead, Position, Loop, Reopening, Stopped, Action, Transitions, Processes, Journals
<1>32. CASE Kill
  BY <1>32, <1>0, PlanType DEF Kill, Crashes, At, Position, Loop, Reopening, Stopped, Action, Transitions, Processes, Journals
<1>33. CASE PowerCut
  BY <1>33, <1>0, PlanType DEF PowerCut, Crashes, At, Reset, Rebuilt, Position, Loop, Reopening, Stopped, Action, Transitions, Processes, Journals
<1>34. CASE Resume
  BY <1>34, <1>0, PlanType DEF Resume, Fresh, Position, Loop, Reopening, Stopped, Action, Transitions, Processes, Journals
<1> QED
  BY <1>1, <1>2, <1>3, <1>4, <1>5, <1>6, <1>7, <1>8, <1>9, <1>10, <1>11, <1>12, <1>13, <1>14, <1>15, <1>16, <1>17, <1>18, <1>19, <1>20, <1>21, <1>22, <1>23, <1>24, <1>25, <1>26, <1>27, <1>28, <1>29, <1>30, <1>31, <1>32, <1>33, <1>34 DEF SessionNext, Process, Environment

-----------------------------------------------------------------------------
(* Which unit is trusted. *)

\* What is left to do only becomes less.
LEMMA LeftLess ==
  ASSUME SafeInv, kind' = kind
  PROVE  /\ jr'.done = jr.done => (Spared' <=> Spared)
         /\ jr'.done = jr.done + 1 /\ Spared => Spared'
<1>1. jr.done \in Nat /\ Len(kind.plan) \in Nat
  BY PlanType DEF SafeInv, SessionTypeOK, Journals
<1> QED
  BY <1>1 DEF Spared, Left

\* Nothing destructive is left once the device may drop off by intent.
LEMMA DropsSpared ==
  ASSUME SafeInv, p.pc \in Loop, p.act <= Len(kind.plan),
         Action \in {"power-cycle", "re-enumeration"}
  PROVE  Spared
<1>1. /\ jr.done \in Nat /\ Len(kind.plan) \in Nat /\ Recipe(kind.plan)
      /\ p.act = jr.done + 1 /\ p.act <= Len(kind.plan)
  BY PlanType DEF SafeInv, SessionTypeOK, Journals, Position
<1>2. \A j \in p.act + 1..Len(kind.plan) :
         kind.plan[j] \in {"power-cycle", "re-enumeration", "postcheck"}
  BY <1>1 DEF Recipe, Action
<1> QED
  BY <1>1, <1>2 DEF Spared, Left, Destructive, Action

\* What is verified is one of the units gone by.
LEMMA VerifiedAdmitted ==
  ASSUME SafeInv, NEW path, Verified(path)
  PROVE  dev.unit \in Admitted
  BY DEF SafeInv, Trust, Listed, Admitted, Verified, Accepted, Fingerprint, PlanFingerprint

\* Only a transition waits for the device or asks what a resume finds.
LEMMA InTheMiddle ==
  ASSUME SafeInv, p.pc \in Reopening \cup {"lookup"}
  PROVE  InTransition
<1>1. jr.done \in Nat /\ Len(kind.plan) \in Nat
  BY PlanType DEF SafeInv, SessionTypeOK, Journals
<1> QED
  BY <1>1 DEF SafeInv, Position, InTransition, Reopening, Loop, Action

\* Steps that add no identity and check no descriptor keep what is gone by.
LEMMA TrustKept ==
  ASSUME SafeInv, past.taken \subseteq past'.taken,
         \A f \in Listed' : f \in Listed \/ f[1] \in Admitted',
         p'.pc \in Checked \cup Loop /\ p'.sg = "live" =>
           \/ dev'.unit \in Admitted'
           \/ dev'.unit = dev.unit /\ p.pc \in Checked \cup Loop /\ p.sg = "live"
  PROVE  Trust'
<1>1. Admitted \subseteq Admitted'
  BY DEF Admitted
<1> QED
  BY <1>1 DEF SafeInv, Trust

\* Every step keeps to the units gone by.
LEMMA TrustStep ==
  ASSUME SafeInv, SessionNext
  PROVE  Trust'
<1>0. /\ SessionTypeOK /\ dev \in Devices /\ jr \in Journals /\ p \in Processes
      /\ past \in Histories /\ Position /\ Trust
  BY DEF SafeInv, SessionTypeOK
<1>1. CASE Check
  <2>1. /\ p.pc = "check" /\ p'.pc \notin Checked \cup Loop /\ past' = past /\ jr' = jr
        /\ p'.accepted = p.accepted /\ p'.id \in {p.id, Fingerprint(dev)}
        /\ p'.id # p.id => Verified(p.path)
    BY <1>1, <1>0 DEF Check, At, Goes, Processes, Checked, Loop, Reopening
  <2> QED
    BY <2>1, <1>0, VerifiedAdmitted, TrustKept DEF Listed, Admitted, Fingerprint
<1>2. CASE OpenDevice
  BY <1>2, <1>0, TrustKept DEF OpenDevice, At, Listed, Admitted, Checked, Loop, Reopening,
    Processes, Journals, Devices, Histories
<1>3. CASE OpenExtras
  BY <1>3, <1>0, TrustKept DEF OpenExtras, At, Listed, Admitted, Checked, Loop, Reopening,
    Processes, Journals, Devices, Histories
<1>4. CASE ProbeRun
  BY <1>4, <1>0, TrustKept DEF ProbeRun, At, Goes, Listed, Admitted, Checked, Loop, Reopening,
    Processes, Journals, Devices, Histories
<1>5. CASE Recheck
  <2>1. /\ past' = past /\ dev' = dev /\ p'.accepted = p.accepted /\ p'.id = p.id
        /\ jr'.accepted \subseteq jr.accepted \cup {p.id}
        /\ p'.pc \in Checked => Verified(p.path)
        /\ p'.pc \in Checked \cup {"refused"}
    BY <1>5, <1>0 DEF Recheck, At, Goes, Unchanged, ServiceRecord, Reidentified, Processes, Journals, Checked
  <2> QED
    BY <2>1, <1>0, VerifiedAdmitted, TrustKept DEF Listed, Admitted, Checked, Loop, Reopening
<1>6. CASE Status
  BY <1>6, <1>0, TrustKept DEF Status, At, Goes, Listed, Admitted, Checked, Loop, Reopening,
    Processes, Journals, Devices, Histories
<1>7. CASE Confirm
  <2>1. /\ p.pc \in Checked /\ p'.sg = p.sg /\ UNCHANGED <<dev, jr>> /\ past'.taken = past.taken
        /\ p'.accepted = p.accepted /\ p'.id = p.id
    BY <1>7, <1>0 DEF Confirm, At, Goes, Processes, Histories, Checked
  <2> QED
    BY <2>1, TrustKept DEF Listed
<1>8. CASE Ready
  <2>1. p'.sg = p.sg /\ p.pc \in Checked /\ UNCHANGED <<dev, jr, past>> /\ p'.accepted = p.accepted /\ p'.id = p.id
    BY <1>8, <1>0 DEF Ready, At, Processes, Checked
  <2> QED
    BY <2>1, TrustKept DEF Listed
<1>9. CASE Begin
  BY <1>9, <1>0, TrustKept DEF Begin, At, Goes, Listed, Admitted, Checked, Loop, Reopening,
    Processes, Journals, Devices, Histories
<1>10. CASE Complete
  BY <1>10, <1>0, TrustKept DEF Complete, At, Listed, Admitted, Checked, Loop, Reopening,
    Processes, Journals, Devices, Histories
<1>11. CASE CallFails
  BY <1>11, <1>0, TrustKept DEF CallFails, At, Goes, Listed, Admitted, Checked, Loop, Reopening,
    Processes, Journals, Devices, Histories
<1>12. CASE Enter
  <2>1. /\ p.pc \in Loop /\ p'.sg \in {p.sg, Dead(p.sg)} /\ dev'.unit = dev.unit /\ UNCHANGED <<jr, past>>
        /\ p'.accepted = p.accepted /\ p'.id = p.id
    BY <1>12, <1>0 DEF Enter, Calls, At, Goes, Transit, Gone, Closed, Processes, Devices, Loop
  <2> QED
    BY <2>1, TrustKept DEF Listed, Dead
<1>13. CASE Exit
  <2>1. /\ p.pc \in Loop /\ p'.sg \in {p.sg, Dead(p.sg)} /\ dev'.unit = dev.unit /\ UNCHANGED <<jr, past>>
        /\ p'.accepted = p.accepted /\ p'.id = p.id
    BY <1>13, <1>0 DEF Exit, Calls, At, Goes, Transit, Gone, Closed, Processes, Devices, Loop
  <2> QED
    BY <2>1, TrustKept DEF Listed, Dead
<1>14. CASE Erase
  <2>1. /\ p.pc \in Loop /\ p'.sg = p.sg /\ dev'.unit = dev.unit /\ jr' = jr
        /\ p'.accepted = p.accepted /\ p'.id = p.id /\ (Destroyed \/ past' = past)
    BY <1>14, <1>0 DEF Erase, Calls, At, Goes, Processes, Devices, Loop
  <2>2. past'.taken = past.taken
    BY <2>1, <1>0, DestroyedType, FingerprintType DEF Processes
  <2> QED
    BY <2>1, <2>2, TrustKept DEF Listed
<1>15. CASE Rebuild
  <2>1. /\ p.pc \in Loop /\ p'.sg = p.sg /\ dev'.unit = dev.unit /\ jr' = jr
        /\ p'.accepted = p.accepted /\ p'.id = p.id /\ (Destroyed \/ past' = past)
    BY <1>15, <1>0 DEF Rebuild, Calls, At, Goes, Processes, Devices, Loop
  <2>2. past'.taken = past.taken
    BY <2>1, <1>0, DestroyedType, FingerprintType DEF Processes
  <2> QED
    BY <2>1, <2>2, TrustKept DEF Listed
<1>16. CASE Commit
  <2>1. /\ dev' = dev /\ p'.id = p.id /\ p'.sg = p.sg /\ p.pc \in Loop
        /\ jr'.accepted \subseteq jr.accepted \cup {Fingerprint(dev)}
        /\ p'.accepted \subseteq p.accepted \cup {Fingerprint(dev)}
    BY <1>16, <1>0 DEF Commit, At, Goes, Processes, Journals, CapacityRecord, ServiceRecord, Reidentified,
      Loop, Reopening
  <2>2. past.taken \subseteq past'.taken /\ ((jr' = jr /\ p'.accepted = p.accepted) \/ dev.unit \in past'.taken)
    <3>1. CASE past' = Take
      BY <3>1, <1>0, TakeEffect, FingerprintType
    <3>2. CASE past' = [past EXCEPT !.lost = TRUE] /\ UNCHANGED jr /\ Goes("failed")
      BY <3>2, <1>0 DEF Goes, Histories, Processes
    <3> QED BY <1>16, <3>1, <3>2 DEF Commit
  <2> QED
    BY <2>1, <2>2, TrustKept DEF Listed, Admitted, Fingerprint
<1>17. CASE PowerCycle
  BY <1>17, <1>0, TrustKept DEF PowerCycle, At, Goes, Gone, Closed, Dead, Listed, Admitted, Checked, Loop, Reopening,
    Processes, Journals, Devices, Histories
<1>18. CASE Postcheck
  BY <1>18, <1>0, TrustKept DEF Postcheck, Calls, At, Goes, Listed, Admitted, Checked, Loop, Reopening,
    Processes, Journals, Devices, Histories
<1>19. CASE Awaiting
  BY <1>19, <1>0, TrustKept DEF Awaiting, At, Listed, Admitted, Checked, Loop, Reopening,
    Processes, Journals, Devices, Histories
<1>20. CASE Reopen
  <2>1. /\ dev' = dev /\ p'.sg = p.sg /\ p.pc \in Loop /\ jr' = jr
        /\ p'.accepted = p.accepted /\ p'.id \in {p.id, Fingerprint(dev)}
    BY <1>20, <1>0 DEF Reopen, At, Processes, Loop, Reopening
  <2>2. past.taken \subseteq past'.taken /\ dev.unit \in past'.taken
    BY <1>20, <1>0, InTheMiddle, PortEffect DEF Reopen, At, Reopening, Commit
  <2> QED
    BY <2>1, <2>2, TrustKept DEF Listed, Admitted, Fingerprint
<1>21. CASE GiveUp
  BY <1>21, <1>0, TrustKept DEF GiveUp, At, Goes, Listed, Admitted, Checked, Loop, Reopening,
    Processes, Journals, Devices, Histories
<1>22. CASE ReopenDevice
  BY <1>22, <1>0, TrustKept DEF ReopenDevice, At, Listed, Admitted, Checked, Loop, Reopening,
    Processes, Journals, Devices, Histories
<1>23. CASE ReopenExtras
  <2>1. dev' = dev /\ jr' = jr /\ p'.accepted = p.accepted /\ p'.id = p.id
    BY <1>23, <1>0 DEF ReopenExtras, Processes
  <2>2. past.taken \subseteq past'.taken /\ dev.unit \in past'.taken
    BY <1>23, <1>0, InTheMiddle, PortEffect DEF ReopenExtras, At, Reopening, Commit
  <2> QED
    BY <2>1, <2>2, TrustKept DEF Listed, Admitted
<1>24. CASE Rebound
  BY <1>24, <1>0, TrustKept DEF Rebound, At, ServiceRecord, Reidentified, Listed, Admitted, Checked, Loop, Reopening,
    Processes, Journals, Devices, Histories
<1>25. CASE ReEnumerate
  BY <1>25, <1>0, TrustKept DEF ReEnumerate, At, Goes, Listed, Admitted, Checked, Loop, Reopening,
    Processes, Journals, Devices, Histories
<1>26. CASE Reidentify
  <2>1. /\ dev' = dev /\ p'.id = p.id /\ p'.sg = p.sg /\ p.pc \in Loop
        /\ jr'.accepted \subseteq jr.accepted \cup {Fingerprint(dev)}
        /\ p'.accepted \subseteq p.accepted \cup {Fingerprint(dev)}
    BY <1>26, <1>0 DEF Reidentify, At, Goes, Processes, Journals, CapacityRecord, ServiceRecord, Reidentified,
      Loop, Reopening
  <2>2. past.taken \subseteq past'.taken /\ ((jr' = jr /\ p'.accepted = p.accepted) \/ dev.unit \in past'.taken)
    BY <1>26, <1>0, InTheMiddle, PortEffect DEF Reidentify, At, Reopening, Commit
  <2> QED
    BY <2>1, <2>2, TrustKept DEF Listed, Admitted, Fingerprint
<1>27. CASE Lookup
  <2>1. /\ dev' = dev /\ p'.id = p.id /\ jr' = jr /\ p'.pc \notin Checked \cup Loop
        /\ p'.accepted \subseteq p.accepted \cup {Fingerprint(dev)}
    BY <1>27, <1>0 DEF Lookup, At, Processes, Checked, Loop, Reopening
  <2>2. past.taken \subseteq past'.taken /\ dev.unit \in past'.taken
    BY <1>27, <1>0, InTheMiddle, PortEffect DEF Lookup, At, Commit
  <2> QED
    BY <2>1, <2>2, TrustKept DEF Listed, Admitted, Fingerprint
<1>28. CASE Return
  BY <1>28, <1>0, TrustKept DEF Return, Listed, Admitted, Checked, Loop, Reopening,
    Processes, Journals, Devices, Histories
<1>29. CASE Mount
  BY <1>29, <1>0, TrustKept DEF Mount, Event, Listed, Admitted, Checked, Loop, Reopening,
    Processes, Journals, Devices, Histories
<1>30. CASE Replug
  BY <1>30, <1>0, TrustKept DEF Replug, Event, Reset, Closed, Dead, Listed, Admitted, Checked, Loop, Reopening,
    Processes, Journals, Devices, Histories
<1>31. CASE SwapUnit
  BY <1>31, <1>0, TrustKept DEF SwapUnit, Event, Reset, Closed, Dead, Listed, Admitted, Checked, Loop, Reopening,
    Processes, Journals, Devices, Histories
<1>32. CASE Kill
  BY <1>32, <1>0, TrustKept DEF Kill, Crashes, Listed, Admitted, Checked, Loop, Reopening,
    Processes, Journals, Devices, Histories
<1>33. CASE PowerCut
  BY <1>33, <1>0, TrustKept DEF PowerCut, Crashes, Reset, Listed, Admitted, Checked, Loop, Reopening,
    Processes, Journals, Devices, Histories
<1>34. CASE Resume
  <2>1. /\ p'.pc \in {"lookup", "check"} /\ jr' = jr /\ past'.taken = past.taken
        /\ p'.accepted = jr.accepted /\ p'.id = PlanFingerprint
    BY <1>34, <1>0 DEF Resume, Fresh, Histories
  <2> QED
    BY <2>1, TrustKept DEF Listed, Admitted, PlanFingerprint, Checked, Loop, Reopening
<1> QED
  BY <1>1, <1>2, <1>3, <1>4, <1>5, <1>6, <1>7, <1>8, <1>9, <1>10, <1>11, <1>12, <1>13, <1>14, <1>15, <1>16, <1>17, <1>18, <1>19, <1>20, <1>21, <1>22, <1>23, <1>24, <1>25, <1>26, <1>27, <1>28, <1>29, <1>30, <1>31, <1>32, <1>33, <1>34 DEF SessionNext, Process, Environment

-----------------------------------------------------------------------------
(* What a first run does about a mount at its prompt. *)

\* Every step keeps a warned run off the medium.
LEMMA UnwarnedStep ==
  ASSUME SafeInv, SessionNext
  PROVE  Unwarned'
<1>0. /\ SessionTypeOK /\ dev \in Devices /\ jr \in Journals /\ p \in Processes
      /\ past \in Histories /\ Position /\ Unwarned
  BY DEF SafeInv, SessionTypeOK
<1>1. CASE Check
  BY <1>1, <1>0, LeftLess, DropsSpared DEF Check, At, Goes, Verified, Named, Preflight, Unwarned, Loop, Reopening, Stopped, Processes, Devices, Histories
<1>2. CASE OpenDevice
  BY <1>2, <1>0, LeftLess, DropsSpared DEF OpenDevice, At, Named, Unwarned, Loop, Reopening, Stopped, Processes, Devices, Histories
<1>3. CASE OpenExtras
  BY <1>3, <1>0, LeftLess, DropsSpared DEF OpenExtras, At, Named, Unwarned, Loop, Reopening, Stopped, Processes, Devices, Histories
<1>4. CASE ProbeRun
  BY <1>4, <1>0, LeftLess, DropsSpared DEF ProbeRun, At, Goes, Usable, SameDevice, Unwarned, Loop, Reopening, Stopped, Processes, Devices, Histories
<1>5. CASE Recheck
  BY <1>5, <1>0, LeftLess, DropsSpared DEF Recheck, At, Goes, Unchanged, Verified, Named, ServiceRecord, Reidentified, Unwarned, Loop, Reopening, Stopped, Processes, Devices, Histories, Position
<1>6. CASE Status
  BY <1>6, <1>0, LeftLess, DropsSpared DEF Status, At, Goes, Usable, SameDevice, Unwarned, Loop, Reopening, Stopped, Processes, Devices, Histories
<1>7. CASE Confirm
  BY <1>7, <1>0, LeftLess, DropsSpared DEF Confirm, At, Goes, NextAction, Unwarned, Loop, Reopening, Stopped, Processes, Devices, Histories
<1>8. CASE Ready
  BY <1>8, <1>0, LeftLess, DropsSpared DEF Ready, At, Boundary, Unchanged, Verified, Named, Unwarned, Loop, Reopening, Stopped, Processes, Devices, Histories, Position
<1>9. CASE Begin
  <2>1. CASE p' = [p EXCEPT !.pc = "done"]
    BY <1>9, <2>1, <1>0, LeftLess DEF Begin, At, Unwarned, Loop, Reopening, Stopped, Processes
  <2>2. CASE /\ p.act <= Len(kind.plan) /\ jr'.done = jr.done /\ p'.pc \in {"reopen", "call"}
             /\ (p'.pc = "reopen" => Action = "re-enumeration")
             /\ p'.run = p.run /\ p'.sg = p.sg
    BY <1>9, <2>2, <1>0, LeftLess, DropsSpared DEF Begin, At, Unwarned, Loop, Reopening
  <2> QED
    BY <1>9, <1>0, <2>1, <2>2 DEF Begin, Goes, Processes, Journals
<1>10. CASE Complete
  <2>1. /\ p.pc = "complete" /\ p'.pc = "begin" /\ p'.run = p.run /\ p'.sg = p.sg
        /\ jr'.done = jr.done + 1 /\ kind' = kind /\ past' = past
    BY <1>10, <1>0 DEF Complete, At, Position, Loop, Processes, Journals
  <2> QED
    BY <2>1, <1>0, LeftLess DEF Unwarned, Loop, Reopening
<1>11. CASE CallFails
  BY <1>11, <1>0, LeftLess, DropsSpared DEF CallFails, At, Goes, Unwarned, Loop, Reopening, Stopped, Processes, Devices, Histories
<1>12. CASE Enter
  <2>1. /\ p.pc = "call" /\ p'.pc \in {"call", "awaiting", "complete", "failed"} /\ p'.run = p.run
        /\ p.sg = "live" /\ jr' = jr /\ kind' = kind /\ past' = past
    BY <1>12, <1>0 DEF Enter, Calls, At, Goes, Transit, Closed, Usable, Processes
  <2> QED
    BY <2>1, <1>0, LeftLess DEF Unwarned, Loop, Reopening, Stopped
<1>13. CASE Exit
  <2>1. /\ p.pc = "call" /\ p'.pc \in {"call", "awaiting", "complete", "failed"} /\ p'.run = p.run
        /\ p.sg = "live" /\ jr' = jr /\ kind' = kind /\ past' = past
    BY <1>13, <1>0 DEF Exit, Calls, At, Goes, Transit, Closed, Usable, Processes
  <2> QED
    BY <2>1, <1>0, LeftLess DEF Unwarned, Loop, Reopening, Stopped
<1>14. CASE Erase
  BY <1>14, <1>0, LeftLess, DropsSpared DEF Erase, Calls, At, Goes, Destroyed, Usable, SameDevice, Unwarned, Loop, Reopening, Stopped, Processes, Devices, Histories
<1>15. CASE Rebuild
  BY <1>15, <1>0, LeftLess, DropsSpared DEF Rebuild, Calls, At, Goes, Destroyed, Usable, SameDevice, Unwarned, Loop, Reopening, Stopped, Processes, Devices, Histories
<1>16. CASE Commit
  <2>1. /\ p.pc = "commit" /\ p'.pc \in {"complete", "failed"} /\ p'.run = p.run /\ p'.sg = p.sg
        /\ jr'.done = jr.done /\ kind' = kind /\ past'.mountedAtYes = past.mountedAtYes
    BY <1>16, <1>0, PortEffect DEF Commit, At, Goes, CapacityRecord, ServiceRecord, Reidentified,
      Processes, Journals
  <2> QED
    BY <2>1, <1>0, LeftLess DEF Unwarned, Loop, Reopening, Stopped
<1>17. CASE PowerCycle
  <2>1. /\ p.pc = "call" /\ p'.pc = "complete" /\ p'.run = p.run /\ Action = "power-cycle"
        /\ jr' = jr /\ kind' = kind /\ past' = past
    BY <1>17, <1>0 DEF PowerCycle, At, Goes, Closed, Processes
  <2>2. Spared
    BY <2>1, <1>0, DropsSpared DEF Position, Loop
  <2> QED
    BY <2>1, <2>2, <1>0, LeftLess DEF Unwarned, Loop, Reopening
<1>18. CASE Postcheck
  BY <1>18, <1>0, LeftLess, DropsSpared DEF Postcheck, Calls, At, Goes, Usable, SameDevice, Unwarned, Loop, Reopening, Stopped, Processes, Devices, Histories
<1>19. CASE Awaiting
  BY <1>19, <1>0, LeftLess, DropsSpared DEF Awaiting, At, MaximumTransitions, Unwarned, Loop, Reopening, Stopped, Processes, Devices, Histories
<1>20. CASE Reopen
  <2>1. /\ p.pc \in Reopening /\ p'.pc \in Loop \cup {"failed"} /\ p'.run = p.run
        /\ jr' = jr /\ kind' = kind /\ past'.mountedAtYes = past.mountedAtYes
    BY <1>20, <1>0, PortEffect DEF Reopen, At, Processes, Loop, Reopening
  <2> QED
    BY <2>1, <1>0, LeftLess DEF Unwarned, Loop, Reopening, Stopped
<1>21. CASE GiveUp
  BY <1>21, <1>0, LeftLess, DropsSpared DEF GiveUp, At, Goes, Unwarned, Loop, Reopening, Stopped, Processes, Devices, Histories
<1>22. CASE ReopenDevice
  BY <1>22, <1>0, LeftLess, DropsSpared DEF ReopenDevice, At, Named, Unwarned, Loop, Reopening, Stopped, Processes, Devices, Histories
<1>23. CASE ReopenExtras
  <2>1. /\ p.pc \in Reopening /\ p'.pc \in Loop \cup {"failed"} /\ p'.run = p.run
        /\ jr' = jr /\ kind' = kind /\ past'.mountedAtYes = past.mountedAtYes
    BY <1>23, <1>0, PortEffect DEF ReopenExtras, At, Processes, Loop, Reopening
  <2> QED
    BY <2>1, <1>0, LeftLess DEF Unwarned, Loop, Reopening, Stopped
<1>24. CASE Rebound
  BY <1>24, <1>0, LeftLess, DropsSpared DEF Rebound, At, ServiceRecord, Reidentified, Unwarned, Loop, Reopening, Stopped, Processes, Devices, Histories
<1>25. CASE ReEnumerate
  <2>1. /\ p.pc = "call" /\ p'.pc \in {"reidentify", "reopen"} /\ p'.run = p.run /\ p'.sg = p.sg
        /\ jr' = jr /\ kind' = kind /\ past' = past /\ Action = "re-enumeration"
    BY <1>25, <1>0 DEF ReEnumerate, At, Goes, Processes
  <2>2. Spared
    BY <2>1, <1>0, DropsSpared DEF Position, Loop
  <2> QED
    BY <2>1, <2>2, <1>0, LeftLess DEF Unwarned, Loop, Reopening
<1>26. CASE Reidentify
  <2>1. /\ p.pc = "reidentify" /\ p'.pc \in {"complete", "reopen"} /\ p'.run = p.run /\ p'.sg = p.sg
        /\ jr'.done = jr.done /\ kind' = kind /\ past'.mountedAtYes = past.mountedAtYes
    BY <1>26, <1>0, PortEffect DEF Reidentify, At, Goes, CapacityRecord, ServiceRecord, Reidentified,
      Processes, Journals
  <2> QED
    BY <2>1, <1>0, LeftLess DEF Unwarned, Loop, Reopening, Stopped
<1>27. CASE Lookup
  <2>1. /\ p.pc = "lookup" /\ ~p.run /\ p'.run = p.run
    BY <1>27, <1>0 DEF Lookup, At, Position, Processes
  <2> QED
    BY <2>1 DEF Unwarned
<1>28. CASE Return
  BY <1>28, <1>0, LeftLess, DropsSpared DEF Return, Unwarned, Loop, Reopening, Stopped, Processes, Devices, Histories
<1>29. CASE Mount
  BY <1>29, <1>0, LeftLess, DropsSpared DEF Mount, Event, Unwarned, Loop, Reopening, Stopped, Processes, Devices, Histories
<1>30. CASE Replug
  BY <1>30, <1>0, LeftLess, DropsSpared DEF Replug, Event, Reset, Rebuilt, Closed, Dead, Unwarned, Loop, Reopening, Stopped, Processes, Devices, Histories
<1>31. CASE SwapUnit
  BY <1>31, <1>0, LeftLess, DropsSpared DEF SwapUnit, Event, Reset, Rebuilt, Closed, Dead, Unwarned, Loop, Reopening, Stopped, Processes, Devices, Histories
<1>32. CASE Kill
  BY <1>32, <1>0, LeftLess, DropsSpared DEF Kill, Crashes, At, Unwarned, Loop, Reopening, Stopped, Processes, Devices, Histories
<1>33. CASE PowerCut
  BY <1>33, <1>0, LeftLess, DropsSpared DEF PowerCut, Crashes, At, Reset, Rebuilt, Unwarned, Loop, Reopening, Stopped, Processes, Devices, Histories
<1>34. CASE Resume
  BY <1>34, <1>0, LeftLess, DropsSpared DEF Resume, Fresh, Unwarned, Loop, Reopening, Stopped, Processes, Devices, Histories
<1> QED
  BY <1>1, <1>2, <1>3, <1>4, <1>5, <1>6, <1>7, <1>8, <1>9, <1>10, <1>11, <1>12, <1>13, <1>14, <1>15, <1>16, <1>17, <1>18, <1>19, <1>20, <1>21, <1>22, <1>23, <1>24, <1>25, <1>26, <1>27, <1>28, <1>29, <1>30, <1>31, <1>32, <1>33, <1>34 DEF SessionNext, Process, Environment

\* A destructive step is one of a checked session.
LEMMA DestroyedSafe ==
  ASSUME SafeInv, Usable, p.pc = "call", Action \in Destructive, Destroyed
  PROVE  /\ past'.erased \subseteq {"ours"} \cup past'.taken /\ ~past'.unpaired
         /\ TRUE \notin past'.erasedMounted
<1>0. past \in Histories /\ OnlyOurs /\ BoundaryChecked
  BY DEF SafeInv, SessionTypeOK
<1>1. /\ jr.done \in Nat /\ Len(kind.plan) \in Nat
      /\ p.act = jr.done + 1 /\ p.act <= Len(kind.plan)
  BY PlanType DEF SafeInv, SessionTypeOK, Position, Journals, Loop
<1>2. ~Spared
  BY <1>1 DEF Spared, Left, Action
<1>3. dev.unit \in {"ours"} \cup past.taken
  BY DEF SafeInv, Trust, Admitted, Usable, Loop
<1>4. p.fd = "live"
  BY DEF Usable, SameDevice
<1>5. ~(p.run /\ past.mountedAtYes)
  BY <1>2 DEF SafeInv, Unwarned, Usable, Loop
<1>6. p.run \in BOOLEAN
  BY DEF SafeInv, SessionTypeOK, Processes
<1>7. past'.erased \subseteq {"ours"} \cup past'.taken /\ ~past'.unpaired
  BY <1>0, <1>3, <1>4 DEF Destroyed, OnlyOurs, Histories
<1>8. TRUE \notin past'.erasedMounted
  BY <1>0, <1>5, <1>6 DEF Destroyed, BoundaryChecked, Histories
<1> QED
  BY <1>7, <1>8

LEMMA HistoryKept ==
  ASSUME SafeInv, SessionNext, ~Erase, ~Rebuild
  PROVE  /\ past'.erased = past.erased /\ past'.unpaired = past.unpaired
         /\ past'.erasedMounted = past.erasedMounted /\ past.taken \subseteq past'.taken
<1>0. past \in Histories
  BY DEF SafeInv, SessionTypeOK
<1>1. CASE Check
  BY <1>1, <1>0 DEF Check, Histories
<1>2. CASE OpenDevice
  BY <1>2, <1>0 DEF OpenDevice, Histories
<1>3. CASE OpenExtras
  BY <1>3, <1>0 DEF OpenExtras, Histories
<1>4. CASE ProbeRun
  BY <1>4, <1>0 DEF ProbeRun, Histories
<1>5. CASE Recheck
  BY <1>5, <1>0 DEF Recheck, Histories
<1>6. CASE Status
  BY <1>6, <1>0 DEF Status, Histories
<1>7. CASE Confirm
  BY <1>7, <1>0 DEF Confirm, Histories
<1>8. CASE Ready
  BY <1>8, <1>0 DEF Ready, Histories
<1>9. CASE Begin
  BY <1>9, <1>0 DEF Begin, Histories
<1>10. CASE Complete
  BY <1>10, <1>0 DEF Complete, Histories
<1>11. CASE CallFails
  BY <1>11, <1>0 DEF CallFails, Histories
<1>12. CASE Enter
  BY <1>12, <1>0 DEF Enter, Histories
<1>13. CASE Exit
  BY <1>13, <1>0 DEF Exit, Histories
<1>14. CASE Commit
  BY <1>14, PortEffect
<1>15. CASE PowerCycle
  BY <1>15, <1>0 DEF PowerCycle, Histories
<1>16. CASE Postcheck
  BY <1>16, <1>0 DEF Postcheck, Histories
<1>17. CASE Awaiting
  BY <1>17, <1>0 DEF Awaiting, Histories
<1>18. CASE Reopen
  BY <1>18, PortEffect
<1>19. CASE GiveUp
  BY <1>19, <1>0 DEF GiveUp, Histories
<1>20. CASE ReopenDevice
  BY <1>20, <1>0 DEF ReopenDevice, Histories
<1>21. CASE ReopenExtras
  BY <1>21, PortEffect
<1>22. CASE Rebound
  BY <1>22, <1>0 DEF Rebound, Histories
<1>23. CASE ReEnumerate
  BY <1>23, <1>0 DEF ReEnumerate, Histories
<1>24. CASE Reidentify
  BY <1>24, PortEffect
<1>25. CASE Lookup
  BY <1>25, PortEffect
<1>26. CASE Return
  BY <1>26, <1>0 DEF Return, Histories
<1>27. CASE Mount
  BY <1>27, <1>0 DEF Mount, Event, Histories
<1>28. CASE Replug
  BY <1>28, <1>0 DEF Replug, Event, Histories
<1>29. CASE SwapUnit
  BY <1>29, <1>0 DEF SwapUnit, Event, Histories
<1>30. CASE Kill
  BY <1>30, <1>0 DEF Kill, Crashes, Histories
<1>31. CASE PowerCut
  BY <1>31, <1>0 DEF PowerCut, Crashes, Histories
<1>32. CASE Resume
  BY <1>32, <1>0 DEF Resume, Histories
<1> QED
  BY <1>1, <1>2, <1>3, <1>4, <1>5, <1>6, <1>7, <1>8, <1>9, <1>10, <1>11, <1>12, <1>13, <1>14, <1>15, <1>16, <1>17, <1>18, <1>19, <1>20, <1>21, <1>22, <1>23, <1>24, <1>25, <1>26, <1>27, <1>28, <1>29, <1>30, <1>31, <1>32 DEF SessionNext, Process, Environment

LEMMA SafeStep == SafeInv /\ [SessionNext]_sessionVars => SafeInv'
<1>1. CASE UNCHANGED sessionVars /\ SafeInv
  BY <1>1 DEF SafeInv, SessionTypeOK, KindOK, Position, Trust, Unwarned, OnlyOurs,
    BoundaryChecked, sessionVars, Action, Admitted, Spared, Listed, Left
<1>2. CASE SafeInv /\ SessionNext
  <2>1. SessionTypeOK' /\ Position' /\ Trust' /\ Unwarned'
    BY <1>2, TypeStep, PositionStep, TrustStep, UnwarnedStep
  <2>2. KindOK'
    BY <1>2 DEF SafeInv, KindOK, SessionNext, Process, Environment, Check, OpenDevice, OpenExtras, ProbeRun, Recheck, Status, Confirm, Ready, Begin, Complete, CallFails, Enter, Exit, Erase, Rebuild, Commit, PowerCycle, Postcheck, Awaiting, Reopen, GiveUp, ReopenDevice, ReopenExtras, Rebound, ReEnumerate, Reidentify, Lookup, Return, Mount, Replug, SwapUnit, Kill, PowerCut, Resume
  <2>3. OnlyOurs' /\ BoundaryChecked'
    <3>1. CASE Erase
      BY <1>2, <2>1, <3>1, DestroyedSafe
      DEF Erase, Calls, At, SafeInv, OnlyOurs, BoundaryChecked, Destructive
    <3>2. CASE Rebuild
      BY <1>2, <2>1, <3>2, DestroyedSafe
      DEF Rebuild, Calls, At, SafeInv, OnlyOurs, BoundaryChecked, Destructive
    <3>3. CASE ~Erase /\ ~Rebuild
      BY <1>2, <2>1, <3>3, HistoryKept DEF SafeInv, OnlyOurs, BoundaryChecked
    <3> QED
      BY <3>1, <3>2, <3>3
  <2> QED
    BY <2>1, <2>2, <2>3 DEF SafeInv
<1> QED
  BY <1>1, <1>2

LEMMA SafeInit == SessionInit => SafeInv
<1> SUFFICES ASSUME SessionInit PROVE SafeInv
  OBVIOUS
<1>1. PICK k \in Kinds, pl \in Plans :
        kind = [enter |-> k.enter, loader |-> k.loader, exit |-> k.exit, plan |-> pl]
  BY DEF SessionInit
<1>2. PICK n \in Names, u \in BOOLEAN, m \in BOOLEAN :
        /\ dev = [unit |-> "ours", present |-> TRUE, name |-> n, mounted |-> m,
                  mode |-> "normal", shown |-> "normal",
                  cap |-> [v \in PortUnits |-> "planned"]]
        /\ p = [Fresh(TRUE, {PlanFingerprint}, n) EXCEPT !.unmount = u]
  BY DEF SessionInit
<1>3. /\ jr = [plan |-> FALSE, path |-> "none", accepted |-> {}, pending |-> FALSE, done |-> 0]
      /\ past = [erased |-> {}, mountedAtYes |-> FALSE, erasedMounted |-> {},
                 unpaired |-> FALSE, lost |-> FALSE, reset |-> FALSE, adopted |-> FALSE,
                 taken |-> {}]
      /\ svc = "normal"
  BY DEF SessionInit
<1>4. KindOK
  BY <1>1, DeviceSessionAssumption DEF KindOK
<1>5. Len(kind.plan) \in Nat /\ kind.plan \in Plans
  BY <1>1, DeviceSessionAssumption
<1>6. PlanFingerprint \in Fingerprints
  BY DEF PlanFingerprint, Fingerprints, PortUnits, Modes, Capacities
<1>7. SessionTypeOK
  <2>1. dev \in Devices
    BY <1>2 DEF Devices, PortUnits, Modes, Capacities
  <2>2. p \in Processes
    BY <1>2, <1>6 DEF Processes, Fresh, Control, Stopped, Descriptors
  <2>3. jr \in Journals /\ past \in Histories /\ svc \in Services
    BY <1>3 DEF Journals, Histories, Services
  <2> QED
    BY <1>2, <1>3, <1>5, <2>1, <2>2, <2>3 DEF SessionTypeOK, Fresh
<1>8. p.pc = "check" /\ p.run /\ p.trans = 0 /\ p.accepted = {PlanFingerprint} /\ p.id = PlanFingerprint
  BY <1>2 DEF Fresh
<1>9. Position /\ Trust /\ Unwarned
  BY <1>3, <1>8, <1>2
  DEF Position, Trust, Admitted, Unwarned, Listed, Loop, Reopening, Stopped, Checked, PlanFingerprint
<1> QED
  BY <1>3, <1>4, <1>7, <1>9 DEF SafeInv, OnlyOurs, BoundaryChecked

THEOREM SessionSafe == SessionSpec => []SafeInv
<1> QED
  BY SafeInit, SafeStep, PTL DEF SessionSpec

-----------------------------------------------------------------------------
(* What a unit shows after its enumerations. *)

\* Every step keeps what a unit shows in line with its mode.
LEMMA EnumeratedStep ==
  ASSUME AnchorInv, SessionNext
  PROVE  Enumerated'
<1>0. /\ SessionTypeOK /\ dev \in Devices /\ jr \in Journals /\ p \in Processes
      /\ past \in Histories /\ SafeInv
  BY DEF AnchorInv, SafeInv, SessionTypeOK
<1>1. CASE Check
  BY <1>1, <1>0 DEF Check, At, Goes, Verified, Named, Preflight, AnchorInv, Enumerated, Devices, Modes
<1>2. CASE OpenDevice
  BY <1>2, <1>0 DEF OpenDevice, At, Named, AnchorInv, Enumerated, Devices, Modes
<1>3. CASE OpenExtras
  BY <1>3, <1>0 DEF OpenExtras, At, Named, AnchorInv, Enumerated, Devices, Modes
<1>4. CASE ProbeRun
  BY <1>4, <1>0 DEF ProbeRun, At, Goes, Usable, SameDevice, AnchorInv, Enumerated, Devices, Modes
<1>5. CASE Recheck
  BY <1>5, <1>0 DEF Recheck, At, Goes, Unchanged, Verified, Named, Accepted, ServiceRecord, Reidentified, AnchorInv, Enumerated, Devices, Modes
<1>6. CASE Status
  BY <1>6, <1>0 DEF Status, At, Goes, Usable, SameDevice, AnchorInv, Enumerated, Devices, Modes
<1>7. CASE Confirm
  BY <1>7, <1>0 DEF Confirm, At, Goes, NextAction, AnchorInv, Enumerated, Devices, Modes
<1>8. CASE Ready
  BY <1>8, <1>0 DEF Ready, At, Boundary, Unchanged, Verified, Named, Accepted, AnchorInv, Enumerated, Devices, Modes
<1>9. CASE Begin
  BY <1>9, <1>0 DEF Begin, At, Goes, AnchorInv, Enumerated, Devices, Modes
<1>10. CASE Complete
  BY <1>10, <1>0 DEF Complete, At, AnchorInv, Enumerated, Devices, Modes
<1>11. CASE CallFails
  BY <1>11, <1>0 DEF CallFails, At, Goes, AnchorInv, Enumerated, Devices, Modes
<1>12. CASE Enter
  BY <1>12, <1>0 DEF Enter, Calls, At, Goes, Transit, Gone, Closed, Dead, Usable, SameDevice, AnchorInv, Enumerated, Devices, Modes, KindOK, SafeInv
<1>13. CASE Exit
  BY <1>13, <1>0 DEF Exit, Calls, At, Goes, Transit, Gone, Closed, Dead, Usable, SameDevice, AnchorInv, Enumerated, Devices, Modes
<1>14. CASE Erase
  BY <1>14, <1>0 DEF Erase, Calls, At, Goes, Destroyed, Usable, SameDevice, AnchorInv, Enumerated, Devices, Modes
<1>15. CASE Rebuild
  BY <1>15, <1>0 DEF Rebuild, Calls, At, Goes, Destroyed, Usable, SameDevice, AnchorInv, Enumerated, Devices, Modes
<1>16. CASE Commit
  BY <1>16, <1>0 DEF Commit, At, Goes, Named, CapacityRecord, Reidentified, AnchorInv, Enumerated, Devices, Modes
<1>17. CASE PowerCycle
  BY <1>17, <1>0 DEF PowerCycle, At, Goes, Gone, Closed, Dead, AnchorInv, Enumerated, Devices, Modes
<1>18. CASE Postcheck
  BY <1>18, <1>0 DEF Postcheck, Calls, At, Goes, Usable, SameDevice, AnchorInv, Enumerated, Devices, Modes
<1>19. CASE Awaiting
  BY <1>19, <1>0 DEF Awaiting, At, MaximumTransitions, AnchorInv, Enumerated, Devices, Modes
<1>20. CASE Reopen
  BY <1>20, <1>0 DEF Reopen, At, AnchorInv, Enumerated, Devices, Modes
<1>21. CASE GiveUp
  BY <1>21, <1>0 DEF GiveUp, At, Goes, AnchorInv, Enumerated, Devices, Modes
<1>22. CASE ReopenDevice
  BY <1>22, <1>0 DEF ReopenDevice, At, Named, AnchorInv, Enumerated, Devices, Modes
<1>23. CASE ReopenExtras
  BY <1>23, <1>0 DEF ReopenExtras, At, Named, AnchorInv, Enumerated, Devices, Modes
<1>24. CASE Rebound
  BY <1>24, <1>0 DEF Rebound, At, ServiceRecord, Reidentified, AnchorInv, Enumerated, Devices, Modes
<1>25. CASE ReEnumerate
  BY <1>25, <1>0 DEF ReEnumerate, At, Goes, Usable, SameDevice, AnchorInv, Enumerated, Devices, Modes
<1>26. CASE Reidentify
  BY <1>26, <1>0 DEF Reidentify, At, Goes, Named, ServiceRecord, Reidentified, AnchorInv, Enumerated, Devices, Modes
<1>27. CASE Lookup
  BY <1>27, <1>0 DEF Lookup, At, Accepted, AnchorInv, Enumerated, Devices, Modes
<1>28. CASE Return
  BY <1>28, <1>0 DEF Return, AnchorInv, Enumerated, Devices, Modes
<1>29. CASE Mount
  BY <1>29, <1>0 DEF Mount, Event, AnchorInv, Enumerated, Devices, Modes
<1>30. CASE Replug
  BY <1>30, <1>0 DEF Replug, Event, Reset, Rebuilt, Closed, Dead, AnchorInv, Enumerated, Devices, Modes
<1>31. CASE SwapUnit
  BY <1>31, <1>0 DEF SwapUnit, Event, Reset, Rebuilt, Closed, Dead, AnchorInv, Enumerated, Devices, Modes
<1>32. CASE Kill
  BY <1>32, <1>0 DEF Kill, Crashes, At, AnchorInv, Enumerated, Devices, Modes
<1>33. CASE PowerCut
  BY <1>33, <1>0 DEF PowerCut, Crashes, At, Reset, Rebuilt, AnchorInv, Enumerated, Devices, Modes
<1>34. CASE Resume
  BY <1>34, <1>0 DEF Resume, Fresh, AnchorInv, Enumerated, Devices, Modes
<1> QED
  BY <1>1, <1>2, <1>3, <1>4, <1>5, <1>6, <1>7, <1>8, <1>9, <1>10, <1>11, <1>12, <1>13, <1>14, <1>15, <1>16, <1>17, <1>18, <1>19, <1>20, <1>21, <1>22, <1>23, <1>24, <1>25, <1>26, <1>27, <1>28, <1>29, <1>30, <1>31, <1>32, <1>33, <1>34 DEF SessionNext, Process, Environment

\* What is left of the plan still takes the unit out of service mode.
LEMMA ExitsOn ==
  ASSUME SafeInv, kind' = kind, jr'.done = jr.done
  PROVE  /\ Exits(jr.done + 2)' <=> Exits(jr.done + 2)
         /\ Exits(jr.done + 1)' <=> Exits(jr.done + 1)
         /\ Exits(jr.done + 2) => Exits(jr.done + 1)
<1>1. jr.done \in Nat /\ Len(kind.plan) \in Nat
  BY PlanType DEF SafeInv, SessionTypeOK, Journals
<1> QED
  BY <1>1 DEF Exits

\* The action in force, against the exits that are left.
LEMMA ExitsNow ==
  ASSUME SafeInv, p.pc \in Loop \ {"begin"}
  PROVE  /\ Action # "exit-service-mode" /\ Exits(jr.done + 1) => Exits(jr.done + 2)
         /\ Action = "enter-service-mode" => Exits(jr.done + 2)
         /\ Action = "power-cycle" => ~Exits(jr.done + 1)
<1>1. /\ jr.done \in Nat /\ Len(kind.plan) \in Nat /\ Recipe(kind.plan)
      /\ p.act = jr.done + 1 /\ p.act <= Len(kind.plan)
  BY PlanType DEF SafeInv, SessionTypeOK, Journals, Position
<1>2. p.act \in 1..Len(kind.plan) /\ Action = kind.plan[p.act]
  BY <1>1 DEF Action
<1>3. Action = "enter-service-mode" => Exits(jr.done + 2)
  <2>1. p.act + 1 = jr.done + 2
    BY <1>1
  <2>2. Action = "enter-service-mode" => \E j \in p.act + 1..Len(kind.plan) : kind.plan[j] = "exit-service-mode"
    BY <1>1, <1>2 DEF Recipe
  <2> QED
    BY <2>1, <2>2 DEF Exits
<1>4. Action = "power-cycle" => ~Exits(jr.done + 1)
  <2> SUFFICES ASSUME Action = "power-cycle", NEW i \in jr.done + 1..Len(kind.plan)
               PROVE  kind.plan[i] # "exit-service-mode"
    BY DEF Exits
  <2>1. CASE i = p.act
    BY <2>1, <1>2
  <2>2. CASE i # p.act
    <3>1. i \in p.act + 1..Len(kind.plan)
      BY <2>2, <1>1
    <3> QED
      BY <3>1, <1>1, <1>2 DEF Recipe
  <2> QED
    BY <2>1, <2>2
<1>5. Action # "exit-service-mode" /\ Exits(jr.done + 1) => Exits(jr.done + 2)
  BY <1>1, <1>2 DEF Exits
<1> QED
  BY <1>3, <1>4, <1>5

\* Every step keeps a way out of service mode.
LEMMA LeavesStep ==
  ASSUME AnchorInv, SessionNext
  PROVE  Leaves'
<1>0. /\ SessionTypeOK /\ dev \in Devices /\ jr \in Journals /\ p \in Processes
      /\ past \in Histories /\ SafeInv
  BY DEF AnchorInv, SafeInv, SessionTypeOK
<1>1. CASE Check
  BY <1>1, <1>0, ExitsOn DEF Check, At, Goes, Verified, Named, Preflight, AnchorInv, Leaves, Stopped, Processes, Journals, Devices, Modes
<1>2. CASE OpenDevice
  BY <1>2, <1>0, ExitsOn DEF OpenDevice, At, Named, AnchorInv, Leaves, Stopped, Processes, Journals, Devices, Modes
<1>3. CASE OpenExtras
  BY <1>3, <1>0, ExitsOn DEF OpenExtras, At, Named, AnchorInv, Leaves, Stopped, Processes, Journals, Devices, Modes
<1>4. CASE ProbeRun
  BY <1>4, <1>0, ExitsOn DEF ProbeRun, At, Goes, Usable, SameDevice, AnchorInv, Leaves, Stopped, Processes, Journals, Devices, Modes
<1>5. CASE Recheck
  BY <1>5, <1>0, ExitsOn DEF Recheck, At, Goes, Unchanged, Verified, Named, Accepted, ServiceRecord, Reidentified, AnchorInv, Leaves, Stopped, Processes, Journals, Devices, Modes
<1>6. CASE Status
  BY <1>6, <1>0, ExitsOn DEF Status, At, Goes, Usable, SameDevice, AnchorInv, Leaves, Stopped, Processes, Journals, Devices, Modes
<1>7. CASE Confirm
  BY <1>7, <1>0, ExitsOn DEF Confirm, At, Goes, NextAction, AnchorInv, Leaves, Stopped, Processes, Journals, Devices, Modes
<1>8. CASE Ready
  BY <1>8, <1>0, ExitsOn DEF Ready, At, Boundary, Unchanged, Verified, Named, Accepted, AnchorInv, Leaves, Stopped, Processes, Journals, Devices, Modes
<1>9. CASE Begin
  BY <1>9, <1>0, ExitsOn DEF Begin, At, Goes, AnchorInv, Leaves, Stopped, Processes, Journals, Devices, Modes
<1>10. CASE Complete
  <2>1. /\ p.pc = "complete" /\ p'.pc = "begin" /\ jr'.done = jr.done + 1
        /\ dev' = dev /\ kind' = kind /\ jr.done \in Nat
    BY <1>10, <1>0 DEF Complete, At, SafeInv, Position, Loop, Processes, Journals
  <2>2. Exits(jr.done + 1)' <=> Exits(jr.done + 2)
    <3>1. jr'.done + 1 = jr.done + 2
      BY <2>1
    <3> QED
      BY <2>1, <3>1 DEF Exits
  <2> QED
    BY <2>1, <2>2 DEF AnchorInv, Leaves
<1>11. CASE CallFails
  BY <1>11, <1>0, ExitsOn DEF CallFails, At, Goes, AnchorInv, Leaves, Stopped, Processes, Journals, Devices, Modes
<1>12. CASE Enter
  <2>1. /\ p.pc = "call" /\ p'.pc \in {"call", "awaiting", "complete", "failed"}
        /\ Action = "enter-service-mode" /\ jr' = jr /\ kind' = kind
    BY <1>12, <1>0 DEF Enter, Calls, At, Goes, Transit, Closed, Processes
  <2>2. Exits(jr.done + 2)
    BY <2>1, <1>0, ExitsNow DEF Loop
  <2> QED
    BY <2>1, <2>2, <1>0, ExitsOn DEF Leaves
<1>13. CASE Exit
  BY <1>13, <1>0, ExitsOn DEF Exit, Calls, At, Goes, Transit, Gone, Closed, Dead, Usable, SameDevice, AnchorInv, Leaves, Stopped, Processes, Journals, Devices, Modes
<1>14. CASE Erase
  <2>1. /\ p.pc = "call" /\ p'.pc \in {"complete", "failed"} /\ dev' = dev
        /\ Action # "exit-service-mode" /\ jr' = jr /\ kind' = kind
    BY <1>14, <1>0 DEF Erase, Calls, At, Goes, Processes
  <2> QED
    BY <2>1, <1>0, ExitsOn, ExitsNow DEF AnchorInv, Leaves, Loop
<1>15. CASE Rebuild
  BY <1>15, <1>0, ExitsOn DEF Rebuild, Calls, At, Goes, Destroyed, Usable, SameDevice, AnchorInv, Leaves, Stopped, Processes, Journals, Devices, Modes
<1>16. CASE Commit
  <2>1. /\ p.pc = "commit" /\ p'.pc \in {"complete", "failed"} /\ dev' = dev
        /\ Action # "exit-service-mode" /\ jr'.done = jr.done /\ kind' = kind
    BY <1>16, <1>0 DEF Commit, At, Goes, CapacityRecord, ServiceRecord, Reidentified,
      SafeInv, Position, Processes, Journals
  <2> QED
    BY <2>1, <1>0, ExitsOn, ExitsNow DEF AnchorInv, Leaves, Loop, Reopening
<1>17. CASE PowerCycle
  <2>1. /\ p.pc = "call" /\ p'.pc = "complete" /\ dev'.mode \in {dev.mode, "normal"}
        /\ Action = "power-cycle" /\ jr' = jr /\ kind' = kind /\ dev'.unit = dev.unit
    BY <1>17, <1>0 DEF PowerCycle, At, Goes, Gone, Closed, Processes, Devices
  <2>2. dev.unit = "ours" => dev.mode # "service"
    BY <2>1, <1>0, ExitsNow DEF AnchorInv, Leaves, Loop
  <2> QED
    BY <2>1, <2>2 DEF Leaves
<1>18. CASE Postcheck
  BY <1>18, <1>0, ExitsOn DEF Postcheck, Calls, At, Goes, Usable, SameDevice, AnchorInv, Leaves, Stopped, Processes, Journals, Devices, Modes
<1>19. CASE Awaiting
  BY <1>19, <1>0, ExitsOn DEF Awaiting, At, MaximumTransitions, AnchorInv, Leaves, Stopped, Processes, Journals, Devices, Modes
<1>20. CASE Reopen
  BY <1>20, <1>0, ExitsOn DEF Reopen, At, AnchorInv, Leaves, Stopped, Processes, Journals, Devices, Modes
<1>21. CASE GiveUp
  BY <1>21, <1>0, ExitsOn DEF GiveUp, At, Goes, AnchorInv, Leaves, Stopped, Processes, Journals, Devices, Modes
<1>22. CASE ReopenDevice
  BY <1>22, <1>0, ExitsOn DEF ReopenDevice, At, Named, AnchorInv, Leaves, Stopped, Processes, Journals, Devices, Modes
<1>23. CASE ReopenExtras
  BY <1>23, <1>0, ExitsOn DEF ReopenExtras, At, Named, AnchorInv, Leaves, Stopped, Processes, Journals, Devices, Modes
<1>24. CASE Rebound
  BY <1>24, <1>0, ExitsOn DEF Rebound, At, ServiceRecord, Reidentified, AnchorInv, Leaves, Stopped, Processes, Journals, Devices, Modes
<1>25. CASE ReEnumerate
  BY <1>25, <1>0, ExitsOn DEF ReEnumerate, At, Goes, Usable, SameDevice, AnchorInv, Leaves, Stopped, Processes, Journals, Devices, Modes
<1>26. CASE Reidentify
  <2>1. /\ p.pc = "reidentify" /\ p'.pc \in {"complete", "reopen"} /\ dev' = dev
        /\ Action # "exit-service-mode" /\ jr'.done = jr.done /\ kind' = kind
    BY <1>26, <1>0 DEF Reidentify, At, Goes, CapacityRecord, ServiceRecord, Reidentified,
      SafeInv, Position, Processes, Journals
  <2> QED
    BY <2>1, <1>0, ExitsOn, ExitsNow DEF AnchorInv, Leaves, Loop, Reopening
<1>27. CASE Lookup
  BY <1>27, <1>0, ExitsOn DEF Lookup, At, Accepted, AnchorInv, Leaves, Stopped, Processes, Journals, Devices, Modes
<1>28. CASE Return
  BY <1>28, <1>0, ExitsOn DEF Return, AnchorInv, Leaves, Stopped, Processes, Journals, Devices, Modes
<1>29. CASE Mount
  BY <1>29, <1>0, ExitsOn DEF Mount, Event, AnchorInv, Leaves, Stopped, Processes, Journals, Devices, Modes
<1>30. CASE Replug
  BY <1>30, <1>0, ExitsOn DEF Replug, Event, Reset, Rebuilt, Closed, Dead, AnchorInv, Leaves, Stopped, Processes, Journals, Devices, Modes
<1>31. CASE SwapUnit
  BY <1>31, <1>0, ExitsOn DEF SwapUnit, Event, Reset, Rebuilt, Closed, Dead, AnchorInv, Leaves, Stopped, Processes, Journals, Devices, Modes
<1>32. CASE Kill
  BY <1>32, <1>0, ExitsOn DEF Kill, Crashes, At, AnchorInv, Leaves, Stopped, Processes, Journals, Devices, Modes
<1>33. CASE PowerCut
  BY <1>33, <1>0, ExitsOn DEF PowerCut, Crashes, At, Reset, Rebuilt, AnchorInv, Leaves, Stopped, Processes, Journals, Devices, Modes
<1>34. CASE Resume
  BY <1>34, <1>0, ExitsOn DEF Resume, Fresh, AnchorInv, Leaves, Stopped, Processes, Journals, Devices, Modes
<1> QED
  BY <1>1, <1>2, <1>3, <1>4, <1>5, <1>6, <1>7, <1>8, <1>9, <1>10, <1>11, <1>12, <1>13, <1>14, <1>15, <1>16, <1>17, <1>18, <1>19, <1>20, <1>21, <1>22, <1>23, <1>24, <1>25, <1>26, <1>27, <1>28, <1>29, <1>30, <1>31, <1>32, <1>33, <1>34 DEF SessionNext, Process, Environment

\* The record of identities only grows, and a unit that was reset shows what
\* the plan says of it, unless it was rebuilt.
LEMMA NotedOn ==
  ASSUME dev'.unit = dev.unit, Coming' = Coming, jr.accepted \subseteq jr'.accepted
  PROVE  Noted => Noted'
  BY DEF Noted, PlanFingerprint

LEMMA ResetNoted ==
  ASSUME SafeInv, ~Rebuilt(dev), dev'.present, dev'.cap = dev.cap,
         dev'.unit = "ours" => dev'.shown = "normal"
  PROVE  Noted'
<1>1. dev.cap["ours"] = "planned"
  BY DEF SafeInv, SessionTypeOK, Devices, PortUnits, Capacities, Rebuilt
<1> QED
  BY <1>1 DEF Noted, Coming, Fingerprint, PlanFingerprint

\* Every step keeps the identity of the unit on record.
LEMMA AnchoringStep ==
  ASSUME AnchorInv, SessionNext
  PROVE  Anchoring'
<1>0. /\ SessionTypeOK /\ dev \in Devices /\ jr \in Journals /\ p \in Processes
      /\ past \in Histories /\ SafeInv
  BY DEF AnchorInv, SafeInv, SessionTypeOK
<1>1. CASE Check
  <2>1. /\ p.pc = "check" /\ p'.pc \in {"check", "open", "refused"}
        /\ past' = past /\ jr' = jr /\ dev'.unit = dev.unit /\ Coming' = Coming
    BY <1>1, <1>0 DEF Check, At, Goes, Coming, Fingerprint, Processes, Devices
  <2> QED
    BY <2>1, NotedOn DEF AnchorInv, Anchoring, Steady, Opening, Checked, Clear
<1>2. CASE OpenDevice
  BY <1>2, <1>0 DEF OpenDevice, At, Named, AnchorInv, Anchoring, Steady, Opening, Checked, Noted, Coming, Clear, Fingerprint, Action, Stopped, Processes, Journals, Devices, Histories
<1>3. CASE OpenExtras
  BY <1>3, <1>0 DEF OpenExtras, At, Named, AnchorInv, Anchoring, Steady, Opening, Checked, Noted, Coming, Clear, Fingerprint, Action, Stopped, Processes, Journals, Devices, Histories
<1>4. CASE ProbeRun
  BY <1>4, <1>0 DEF ProbeRun, At, Goes, Usable, SameDevice, AnchorInv, Anchoring, Steady, Opening, Checked, Noted, Coming, Clear, Fingerprint, Action, Stopped, Processes, Journals, Devices, Histories
<1>5. CASE Recheck
  <2>1. /\ p.pc = "recheck" /\ p'.pc \in {"refused", "prompt", "status"}
        /\ past' = past /\ dev' = dev /\ Coming' = Coming
    BY <1>5, <1>0 DEF Recheck, At, Goes, Coming, Fingerprint, Processes
  <2>2. jr.accepted \subseteq jr'.accepted
    BY <1>5, <1>0 DEF Recheck, ServiceRecord, Reidentified, Journals
  <2> QED
    BY <2>1, <2>2, NotedOn DEF AnchorInv, Anchoring, Steady, Opening, Checked, Clear
<1>6. CASE Status
  BY <1>6, <1>0 DEF Status, At, Goes, Usable, SameDevice, AnchorInv, Anchoring, Steady, Opening, Checked, Noted, Coming, Clear, Fingerprint, Action, Stopped, Processes, Journals, Devices, Histories
<1>7. CASE Confirm
  <2>1. /\ p.pc = "prompt" /\ p'.pc \in {"refused", "ready", "begin"}
        /\ Clear' = Clear /\ dev' = dev /\ jr' = jr /\ Coming' = Coming
    BY <1>7, <1>0 DEF Confirm, At, Goes, Clear, Coming, Fingerprint, Processes, Histories
  <2> QED
    BY <2>1, NotedOn DEF AnchorInv, Anchoring, Steady, Opening, Checked
<1>8. CASE Ready
  BY <1>8, <1>0 DEF Ready, At, Boundary, Unchanged, Verified, Named, Accepted, AnchorInv, Anchoring, Steady, Opening, Checked, Noted, Coming, Clear, Fingerprint, Action, Stopped, Processes, Journals, Devices, Histories
<1>9. CASE Begin
  BY <1>9, <1>0 DEF Begin, At, Goes, AnchorInv, Anchoring, Steady, Opening, Checked, Noted, Coming, Clear, Fingerprint, Action, Stopped, Processes, Journals, Devices, Histories
<1>10. CASE Complete
  BY <1>10, <1>0 DEF Complete, At, AnchorInv, Anchoring, Steady, Opening, Checked, Noted, Coming, Clear, Fingerprint, Action, Stopped, Processes, Journals, Devices, Histories
<1>11. CASE CallFails
  BY <1>11, <1>0 DEF CallFails, At, Goes, AnchorInv, Anchoring, Steady, Opening, Checked, Noted, Coming, Clear, Fingerprint, Action, Stopped, Processes, Journals, Devices, Histories
<1>12. CASE Enter
  <2>1. /\ p.pc = "call" /\ p'.pc \in {"call", "awaiting", "complete", "failed"}
        /\ past' = past /\ jr' = jr /\ kind' = kind /\ p'.act = p.act
        /\ Action = "enter-service-mode" /\ dev.present
        /\ p'.pc = "awaiting" \/ (dev'.unit = dev.unit /\ Coming' = Coming)
    BY <1>12, <1>0 DEF Enter, Calls, Usable, At, Goes, Transit, Closed, Coming, Fingerprint, Processes, Devices
  <2>2. jr.pending
    BY <2>1, <1>0 DEF SafeInv, Position, Loop, Transitions
  <2> QED
    BY <2>1, <2>2, NotedOn DEF AnchorInv, Anchoring, Steady, Opening, Checked, Clear, Action
<1>13. CASE Exit
  <2>1. /\ p.pc = "call" /\ p'.pc \in {"call", "awaiting", "complete", "failed"}
        /\ past' = past /\ jr' = jr /\ kind' = kind /\ p'.act = p.act
        /\ Action = "exit-service-mode" /\ dev.present
        /\ p'.pc = "awaiting" \/ (dev'.unit = dev.unit /\ Coming' = Coming)
    BY <1>13, <1>0 DEF Exit, Calls, Usable, At, Goes, Transit, Closed, Coming, Fingerprint, Processes, Devices
  <2>2. jr.pending
    BY <2>1, <1>0 DEF SafeInv, Position, Loop, Transitions
  <2> QED
    BY <2>1, <2>2, NotedOn DEF AnchorInv, Anchoring, Steady, Opening, Checked, Clear, Action
<1>14. CASE Erase
  <2>1. /\ p.pc = "call" /\ p'.pc \in {"complete", "failed"} /\ Action = "erase"
        /\ Clear' = Clear /\ dev' = dev /\ jr' = jr /\ Coming' = Coming
    BY <1>14, <1>0 DEF Erase, Calls, Destroyed, At, Goes, Clear, Coming, Fingerprint, Processes, Histories
  <2> QED
    BY <2>1, NotedOn DEF AnchorInv, Anchoring, Steady, Opening, Checked
<1>15. CASE Rebuild
  BY <1>15, <1>0 DEF Rebuild, Calls, At, Goes, Destroyed, Usable, SameDevice, AnchorInv, Anchoring, Steady, Opening, Checked, Noted, Coming, Clear, Fingerprint, Action, Stopped, Processes, Journals, Devices, Histories
<1>16. CASE Commit
  <2>1. CASE Named(p.path)
    <3>1. p'.pc = "complete" /\ dev' = dev /\ dev.present
      BY <1>16, <2>1, <1>0 DEF Commit, Named, Processes
    <3>0. Fingerprint(dev) \in jr'.accepted
      BY <1>16, <2>1, <1>0 DEF Commit, CapacityRecord, Reidentified, Journals
    <3>2. Noted'
      BY <3>1, <3>0 DEF Noted, Coming, Fingerprint
    <3> QED
      BY <3>1, <3>2 DEF Anchoring
  <2>2. CASE ~Named(p.path)
    BY <1>16, <2>2, <1>0 DEF Commit, Goes, Anchoring, Clear, Processes, Histories
  <2> QED
    BY <2>1, <2>2
<1>17. CASE PowerCycle
  <2>1. /\ p.pc = "call" /\ p'.pc = "complete" /\ Action = "power-cycle"
        /\ past' = past /\ jr' = jr /\ dev'.unit = dev.unit
        /\ dev' = dev \/ dev' = Gone(dev, "normal")
    BY <1>17, <1>0 DEF PowerCycle, At, Goes, Gone, Closed, Processes, Devices
  <2>2. dev.unit = "ours" => dev.mode = "normal"
    BY <2>1, <1>0, ExitsNow DEF AnchorInv, Leaves, Loop, Devices, Modes
  <2>3. dev.unit = "ours" => Coming' = Coming
    BY <2>1, <2>2, <1>0 DEF AnchorInv, Enumerated, Coming, Fingerprint, Gone, Devices
  <2>4. Noted => Noted'
    BY <2>1, <2>3, NotedOn DEF Noted
  <2> QED
    BY <2>1, <2>4 DEF AnchorInv, Anchoring, Steady, Clear
<1>18. CASE Postcheck
  BY <1>18, <1>0 DEF Postcheck, Calls, At, Goes, Usable, SameDevice, AnchorInv, Anchoring, Steady, Opening, Checked, Noted, Coming, Clear, Fingerprint, Action, Stopped, Processes, Journals, Devices, Histories
<1>19. CASE Awaiting
  BY <1>19, <1>0 DEF Awaiting, At, MaximumTransitions, AnchorInv, Anchoring, Steady, Opening, Checked, Noted, Coming, Clear, Fingerprint, Action, Stopped, Processes, Journals, Devices, Histories
<1>20. CASE Reopen
  <2>1. /\ p.pc = "reopen" /\ jr' = jr /\ dev' = dev /\ kind' = kind /\ dev.present
        /\ p'.act = p.act /\ (p'.pc = "failed" \/ (p'.pc = "reopen-fd" /\ p'.id = Fingerprint(dev)))
    BY <1>20, <1>0 DEF Reopen, At, Processes
  <2>2. Coming' = Coming /\ Clear' = Clear /\ jr.pending
    BY <1>20, <2>1, <1>0, PortEffect DEF Coming, Fingerprint, Clear, Commit, Lookup, At, SafeInv, Position, Loop, Reopening
  <2>3. p'.pc = "reopen-fd" => Coming' = p'.id
    BY <2>1, <2>2 DEF Coming
  <2> QED
    BY <2>1, <2>2, <2>3 DEF Anchoring, Steady, Opening, Checked, Noted
<1>21. CASE GiveUp
  BY <1>21, <1>0 DEF GiveUp, At, Goes, AnchorInv, Anchoring, Steady, Opening, Checked, Noted, Coming, Clear, Fingerprint, Action, Stopped, Processes, Journals, Devices, Histories
<1>22. CASE ReopenDevice
  BY <1>22, <1>0 DEF ReopenDevice, At, Named, AnchorInv, Anchoring, Steady, Opening, Checked, Noted, Coming, Clear, Fingerprint, Action, Stopped, Processes, Journals, Devices, Histories
<1>23. CASE ReopenExtras
  <2>1. /\ p.pc = "reopen-sg" /\ jr' = jr /\ dev' = dev /\ kind' = kind
        /\ p'.act = p.act /\ p'.id = p.id
        /\ \/ p'.pc = "failed"
           \/ p'.pc = "rebound" /\ Action # "re-enumeration"
           \/ p'.pc = "call" /\ Action = "re-enumeration"
    BY <1>23, <1>0 DEF ReopenExtras, At, Processes
  <2>2. Coming' = Coming /\ Clear' = Clear /\ Action' = Action /\ jr.pending
    BY <1>23, <2>1, <1>0, PortEffect DEF Coming, Fingerprint, Clear, Commit, Lookup, At, Action, SafeInv, Position, Loop, Reopening
  <2> QED
    BY <2>1, <2>2 DEF AnchorInv, Anchoring, Steady, Opening, Checked, Noted
<1>24. CASE Rebound
  BY <1>24, <1>0 DEF Rebound, At, ServiceRecord, Reidentified, AnchorInv, Anchoring, Steady, Opening, Checked, Noted, Coming, Clear, Fingerprint, Action, Stopped, Processes, Journals, Devices, Histories
<1>25. CASE ReEnumerate
  BY <1>25, <1>0 DEF ReEnumerate, At, Goes, Usable, SameDevice, AnchorInv, Anchoring, Steady, Opening, Checked, Noted, Coming, Clear, Fingerprint, Action, Stopped, Processes, Journals, Devices, Histories
<1>26. CASE Reidentify
  <2>1. CASE Named(p.path)
    <3>1. p'.pc = "complete" /\ dev' = dev /\ dev.present
      BY <1>26, <2>1, <1>0 DEF Reidentify, Named, Processes
    <3>3. jr' = ServiceRecord(jr, Fingerprint(dev), p.path)
      BY <1>26, <2>1 DEF Reidentify
    <3>4. jr'.accepted = jr.accepted \cup {Fingerprint(dev)}
      BY <3>3, <1>0 DEF ServiceRecord, Reidentified, Journals
    <3>0. Fingerprint(dev) \in jr'.accepted
      BY <3>4
    <3>2. Noted'
      BY <3>1, <3>0 DEF Noted, Coming, Fingerprint
    <3> QED
      BY <3>1, <3>2 DEF Anchoring
  <2>2. CASE ~Named(p.path)
    <3>1. p'.pc = "reopen" /\ jr' = jr
      BY <1>26, <2>2, <1>0 DEF Reidentify, Goes, Processes
    <3>2. jr.pending
      BY <1>26, <1>0 DEF Reidentify, At, SafeInv, Position, Loop, Reopening
    <3> QED
      BY <3>1, <3>2 DEF Anchoring, Steady, Opening, Checked
  <2> QED
    BY <2>1, <2>2
<1>27. CASE Lookup
  <2>1. /\ p.pc = "lookup" /\ jr' = jr /\ dev' = dev /\ p'.pc \in {"check", "interrupted"}
        /\ p'.pc = "check" => dev.present
    BY <1>27, <1>0 DEF Lookup, At, Processes
  <2>2. Coming' = Coming /\ past'.lost = past.lost /\ past'.reset = past.reset /\ jr.pending
    BY <1>27, <2>1, <1>0, PortEffect DEF Coming, Fingerprint, Commit, At, SafeInv, Position
  <2>3. CASE p'.pc = "interrupted"
    BY <2>1, <2>2, <2>3 DEF Anchoring, Steady, Opening, Checked
  <2>4. CASE p'.pc = "check"
    <3>1. Clear' => Accepted(Fingerprint(dev))
      <4>0. PICK h : h = Taken
        OBVIOUS
      <4>1. past' = [h EXCEPT !.adopted = h.adopted \/ (dev.present /\ ~Accepted(Fingerprint(dev)))]
        BY <1>27, <4>0, Zenon DEF Lookup
      <4>2. PICK b \in BOOLEAN : b <=> h.adopted \/ (dev.present /\ ~Accepted(Fingerprint(dev)))
        OBVIOUS
      <4>3. past' = [h EXCEPT !.adopted = b]
        BY <4>1, <4>2
      <4>4. h \in Histories
        BY <4>0, <1>0, FingerprintType, TakeEffect
      <4>5. past'.adopted = b
        BY <4>3, <4>4 DEF Histories
      <4> QED
        BY <4>2, <4>5, <2>1, <2>4 DEF Clear
    <3>2. Accepted(Fingerprint(dev)) => Noted'
      BY <2>1, <2>2, <2>4 DEF AnchorInv, Anchoring, Accepted, Noted, Coming
    <3> QED
      BY <2>4, <3>1, <3>2 DEF Anchoring
  <2> QED
    BY <2>1, <2>3, <2>4
<1>28. CASE Return
  BY <1>28, <1>0 DEF Return, AnchorInv, Anchoring, Steady, Opening, Checked, Noted, Coming, Clear, Fingerprint, Action, Stopped, Processes, Journals, Devices, Histories
<1>29. CASE Mount
  BY <1>29, <1>0 DEF Mount, Event, AnchorInv, Anchoring, Steady, Opening, Checked, Noted, Coming, Clear, Fingerprint, Action, Stopped, Processes, Journals, Devices, Histories
<1>30. CASE Replug
  <2>1. /\ dev'.present /\ dev'.shown = "normal" /\ dev'.cap = dev.cap /\ jr' = jr
        /\ Clear' => ~Rebuilt(dev)
        /\ p'.pc \in {p.pc, "dead"} /\ p'.accepted = p.accepted
    BY <1>30, <1>0 DEF Replug, Closed, Reset, Clear, Processes, Devices, Histories
  <2> QED
    BY <2>1, <1>0, ResetNoted DEF AnchorInv, Anchoring
<1>31. CASE SwapUnit
  <2>1. /\ dev'.present /\ dev'.cap = dev.cap /\ (dev'.unit = "ours" => dev'.shown = "normal") /\ jr' = jr
        /\ Clear' => ~Rebuilt(dev)
        /\ p'.pc \in {p.pc, "dead"} /\ p'.accepted = p.accepted
    <3>1. PICK n \in Names, u \in PortUnits, m \in Modes :
            /\ u = "ours" => m = "normal"
            /\ dev' = [Reset(dev, n) EXCEPT !.unit = u, !.mode = m, !.shown = m]
      BY <1>31 DEF SwapUnit, PortUnits, Modes
    <3>2. /\ dev'.present /\ dev'.cap = dev.cap /\ dev'.unit = u /\ dev'.shown = m
      BY <3>1, <1>0 DEF Reset, Devices
    <3> QED
      BY <1>31, <3>1, <3>2, <1>0 DEF SwapUnit, Closed, Clear, Rebuilt, Processes, Histories
  <2> QED
    BY <2>1, <1>0, ResetNoted DEF AnchorInv, Anchoring
<1>32. CASE Kill
  BY <1>32, <1>0 DEF Kill, Crashes, At, AnchorInv, Anchoring, Steady, Opening, Checked, Noted, Coming, Clear, Fingerprint, Action, Stopped, Processes, Journals, Devices, Histories
<1>33. CASE PowerCut
  <2>1. /\ dev'.present /\ dev'.shown = "normal" /\ dev'.cap = dev.cap /\ jr' = jr
        /\ Clear' => ~Rebuilt(dev)
        /\ p'.pc \in {p.pc, "dead"} /\ p'.accepted = p.accepted
    BY <1>33, <1>0 DEF PowerCut, Reset, Clear, Processes, Devices, Histories
  <2> QED
    BY <2>1, <1>0, ResetNoted DEF AnchorInv, Anchoring
<1>34. CASE Resume
  BY <1>34, <1>0 DEF Resume, Fresh, AnchorInv, Anchoring, Steady, Opening, Checked, Noted, Coming, Clear, Fingerprint, Action, Stopped, Processes, Journals, Devices, Histories
<1> QED
  BY <1>1, <1>2, <1>3, <1>4, <1>5, <1>6, <1>7, <1>8, <1>9, <1>10, <1>11, <1>12, <1>13, <1>14, <1>15, <1>16, <1>17, <1>18, <1>19, <1>20, <1>21, <1>22, <1>23, <1>24, <1>25, <1>26, <1>27, <1>28, <1>29, <1>30, <1>31, <1>32, <1>33, <1>34 DEF SessionNext, Process, Environment

LEMMA AnchorStep == AnchorInv /\ [SessionNext]_sessionVars => AnchorInv'
<1>1. CASE AnchorInv /\ SessionNext
  <2>1. SafeInv'
    BY <1>1, SafeStep DEF AnchorInv
  <2>2. kind' = kind
    BY <1>1 DEF SessionNext, Process, Environment, Check, OpenDevice, OpenExtras, ProbeRun, Recheck,
       Status, Confirm, Ready, Begin, Complete, CallFails, Enter, Exit, Erase, Rebuild, Commit,
       PowerCycle, Postcheck, Awaiting, Reopen, GiveUp, ReopenDevice, ReopenExtras, Rebound,
       ReEnumerate, Reidentify, Lookup, Return, Mount, Replug, SwapUnit, Kill, PowerCut, Resume
  <2> QED
    BY <1>1, <2>1, <2>2, EnumeratedStep, LeavesStep, AnchoringStep DEF AnchorInv
<1>2. CASE AnchorInv /\ UNCHANGED sessionVars
  <2>1. SafeInv'
    BY <1>2, SafeStep DEF AnchorInv
  <2>2. /\ kind' = kind /\ dev' = dev /\ jr' = jr /\ p' = p /\ past' = past
    BY <1>2 DEF sessionVars
  <2>3. Enumerated' /\ Leaves'
    BY <1>2, <2>2 DEF AnchorInv, Enumerated, Leaves, Exits
  <2>4. Anchoring'
    BY <1>2, <2>2 DEF AnchorInv, Anchoring, Clear, Steady, Noted, Coming, Fingerprint, Action
  <2> QED
    BY <1>2, <2>1, <2>2, <2>3, <2>4 DEF AnchorInv
<1> QED
  BY <1>1, <1>2

LEMMA AnchorInit ==
  ASSUME SessionInit, \A k \in Kinds : k.enter => k.exit
  PROVE  AnchorInv
<1>1. SafeInv
  BY SafeInit
<1>2. kind.enter => kind.exit
  BY DEF SessionInit
<1>3. PICK n \in Names, u \in BOOLEAN, m \in BOOLEAN :
        /\ dev = [unit |-> "ours", present |-> TRUE, name |-> n, mounted |-> m,
                  mode |-> "normal", shown |-> "normal",
                  cap |-> [v \in PortUnits |-> "planned"]]
        /\ p = [Fresh(TRUE, {PlanFingerprint}, n) EXCEPT !.unmount = u]
  BY DEF SessionInit
<1>4. dev.mode = "normal" /\ dev.shown = "normal" /\ dev.present /\ p.pc = "check"
  BY <1>3 DEF Fresh
<1>5. Noted
  BY <1>3 DEF Noted, Coming, Fingerprint, PlanFingerprint, PortUnits
<1> QED
  BY <1>1, <1>2, <1>4, <1>5 DEF AnchorInv, Enumerated, Leaves, Anchoring

-----------------------------------------------------------------------------
(* The properties. *)

\* Whatever units are exchanged at the port, and whenever, another than the one
\* that was planned is erased or rebuilt only if it stood there when the code
\* takes what it finds, in a transition or right after the rebuild: an exchange
\* between the checks, at the prompt or between two actions leads to none,
\* however often the run is stopped and resumed; and it goes through a pair of
\* descriptors of one device (nclr.rs open_for_run, verify_plan_device,
\* reopen_controller_transport, resume).
THEOREM OnlyPlanned == SessionSpec => []OnlyOurs
<1>1. SafeInv => OnlyOurs
  BY DEF SafeInv
<1> QED
  BY <1>1, SessionSafe, PTL

\* A medium that was mounted while the operator confirmed is never erased by a
\* first run: it looks once more before the first action, and what is mounted
\* after that was not mounted then (nclr.rs, the destructive boundary).
THEOREM MountSeen == SessionSpec => []BoundaryChecked
<1>1. SafeInv => BoundaryChecked
  BY DEF SafeInv
<1> QED
  BY <1>1, SessionSafe, PTL

\* Where leaving service mode re-enumerates whenever entering it does, a run
\* that stopped anywhere leaves a journal that knows the unit by the identity
\* it shows, but for a lost capacity record, a reset of a rebuilt unit and an
\* adoption by port (journal.rs summarize, nclr.rs execute_plan_actions).
THEOREM StaysAnchored ==
  ASSUME \A k \in Kinds : k.enter => k.exit
  PROVE  SessionSpec => []Anchored
<1>1. SessionInit => AnchorInv
  BY AnchorInit
<1>2. AnchorInv => Anchored
  BY DEF AnchorInv, Anchoring, Anchored, Waiting, Known, Clear, Steady, Noted, Coming, Stopped
<1> QED
  BY <1>1, <1>2, AnchorStep, PTL DEF SessionSpec

-----------------------------------------------------------------------------
(* The write test of `nclr check`: what the backend saved is what the      *)
(* range held before, and it is the only thing that reaches the sectors    *)
(* last; the range lies on the opened device from the second look at its   *)
(* capacity on.                                                            *)


USE DEF Units

CorePcs == {"identify", "open", "probe", "sample", "scratch", "ended"}
CoreCodes == {"none", "ok", "io", "refused", "failed"}
\* The backend is past the look at the capacity: it works on the range.
InSpan == {"save", "write", "flush", "read", "restore", "reflush"}
HasSaved == {"write", "flush", "read", "restore", "reflush"}

-----------------------------------------------------------------------------
(* The inductive invariant, in parts. *)

Media ==
  /\ medium = [u \in Units |-> [view |-> medium[u].view, stable |-> medium[u].stable]]
  /\ \A u \in Units : /\ medium[u].view \in [Sectors(u) -> Data]
                      /\ medium[u].stable \in [Sectors(u) -> Data]
Shape ==
  /\ Media
  /\ named \in Units /\ mounted \subseteq Units
  /\ core \in [pc : CorePcs, kind : {"block", "sim"}, start : 0..MaxInt, count : 0..MaxInt,
               fd : Units \cup {"none"}, errors : BOOLEAN, code : CoreCodes]
  /\ job = [pc |-> job.pc, saved |-> job.saved, found |-> job.found, answer |-> job.answer]
  /\ job.pc \in Working \cup {"none", "answered", "dead"}
  /\ job.found \in {"ok", "error"} /\ job.answer \in {"none", "ok", "error"}
  /\ eraser \in {"off", "write", "verify", "ok", "failed"}
  /\ used \in [faults : 0..MaxFaults, swaps : 0..MaxSwaps]
  /\ hist = [before |-> hist.before, foreign |-> hist.foreign, corrupt |-> hist.corrupt,
             touched |-> hist.touched]
  /\ hist.foreign \in BOOLEAN /\ hist.corrupt \in BOOLEAN

\* Where core and backend stand to each other.
Phases ==
  /\ core.pc \in {"identify", "open"} => job.pc = "none"
  /\ core.pc \in {"probe", "sample", "scratch"} \/ job.pc # "none" => core.fd \in Units
  /\ job.pc # "none" => core.pc \in {"scratch", "ended"}
  /\ job.pc \in Working => core.pc = "scratch"
  /\ job.pc = "answered" <=> job.answer # "none"
  /\ core.code = "ok" => core.pc = "ended" /\ job.answer = "ok"
  /\ eraser # "off" => hist.foreign

\* The range lies on the device, and nothing else was written.
Contained ==
  /\ job.pc \in InSpan => Asked \subseteq Sectors(core.fd)
  /\ job.pc = "none" => hist.touched = {}
  /\ job.pc # "none" => hist.touched \subseteq {core.fd} \X (Asked \cap Sectors(core.fd))

\* What was saved, and what the range holds.
View == medium[core.fd].view
Held ==
  /\ job.pc # "none" => hist.before \in [Sectors(core.fd) -> Data]
  /\ job.pc \in HasSaved => job.saved \in [Asked -> Data]
  /\ ~hist.foreign /\ ~hist.corrupt =>
       /\ job.pc \in {"bounds", "save", "write"} => View = hist.before
       /\ job.pc \in HasSaved => \A s \in Asked : job.saved[s] = hist.before[s]
       /\ job.pc \in Working \cup {"answered"} =>
            \A s \in Sectors(core.fd) \ Asked : View[s] = hist.before[s]
       /\ job.pc = "reflush" => \A s \in Asked : View[s] = hist.before[s]
       /\ job.answer = "ok" =>
            \A s \in Sectors(core.fd) :
              View[s] = hist.before[s] /\ (s \in Asked => medium[core.fd].stable[s] = hist.before[s])

ScratchInv == Shape /\ Phases /\ Contained /\ Held

-----------------------------------------------------------------------------
(* Lemmas about ranges. *)

LEMMA Scale ==
    ASSUME NEW m \in Nat, NEW n \in Nat, NEW k \in Nat \ {0}, m * k <= n * k
    PROVE  m <= n
<1> SUFFICES ASSUME m >= n + 1 PROVE FALSE
  OBVIOUS
<1>1. PICK d \in Nat : m = n + 1 + d
  <2>1. m - (n + 1) \in Nat /\ m = n + 1 + (m - (n + 1))
    OBVIOUS
  <2> QED BY <2>1
<1>2. m * k = n * k + k + d * k
  BY <1>1
<1>3. d * k >= 0 /\ n * k \in Nat
  OBVIOUS
<1> QED BY <1>2, <1>3

\* The check in bytes, without wrapping, is the check in sectors.
LEMMA WithinFits ==
    ASSUME NEW start \in Nat, NEW count \in Nat, NEW u \in Units,
           Within(start, count, Capacity(u))
    PROVE  Span(start, count) \subseteq Sectors(u)
<1>1. Sector \in Nat \ {0} /\ Size[u] \in Nat
  BY ScratchAssumption
<1>2. start * Sector + count * Sector <= Size[u] * Sector
  BY DEF Within, Capacity
<1>3. (start + count) * Sector = start * Sector + count * Sector
  BY <1>1
<1>4. start + count <= Size[u]
  BY <1>1, <1>2, <1>3, Scale
<1> QED BY <1>1, <1>4 DEF Span, Sectors

LEMMA Constants ==
    /\ MaxInt \in Nat /\ MaxFaults \in Nat /\ MaxSwaps \in Nat /\ Limit \in Nat
    /\ \A u \in Units : Size[u] \in Nat
    /\ \A r \in Requests : r[1] \in 0..MaxInt /\ r[2] \in 0..MaxInt
    /\ Backends \subseteq {"block", "sim"}
  BY ScratchAssumption

LEMMA FaultCounts ==
    ASSUME used \in [faults : 0..MaxFaults, swaps : 0..MaxSwaps], Fault
    PROVE  used' \in [faults : 0..MaxFaults, swaps : 0..MaxSwaps]
  BY Constants DEF Fault

\* The first n sectors of the range are in it.
LEMMA SpanIn ==
    ASSUME Shape, NEW n \in 0..core.count
    PROVE  Span(core.start, n) \subseteq Asked
  BY Constants DEF Shape, Span, Asked

-----------------------------------------------------------------------------
(* What the steps do to the medium. *)

LEMMA StoreEffect ==
    ASSUME Media, core.fd \in Units, NEW f, NEW n, Writes(f, n),
           \A s \in Span(core.start, n) \cap Sectors(core.fd) : f[s] \in Data
    PROVE  /\ Media'
           /\ medium'[core.fd].view = Stored(f, n)
           /\ medium'[core.fd].stable = medium[core.fd].stable
<1>1. medium[core.fd] = [view |-> medium[core.fd].view,
                         stable |-> medium[core.fd].stable]
  BY DEF Media
<1>2. Stored(f, n) \in [Sectors(core.fd) -> Data]
  BY DEF Stored, Media
<1> DEFINE g == Stored(f, n)
<1> HIDE DEF g
<1>3. medium' = [u \in Units |-> IF u = core.fd THEN [medium[u] EXCEPT !.view = g]
                                               ELSE medium[u]]
  BY DEF Writes, Media, g
<1>4. medium'[core.fd] = [view |-> g, stable |-> medium[core.fd].stable]
  BY <1>1, <1>3
<1>5. \A u \in Units : u # core.fd => medium'[u] = medium[u]
  BY <1>3
<1>6. \A u \in Units :
         /\ medium'[u] = [view |-> medium'[u].view, stable |-> medium'[u].stable]
         /\ medium'[u].view \in [Sectors(u) -> Data]
         /\ medium'[u].stable \in [Sectors(u) -> Data]
  BY <1>2, <1>4, <1>5 DEF Media, g
<1>7. Media'
  BY <1>3, <1>6 DEF Media
<1> QED BY <1>4, <1>7 DEF g

LEMMA SyncEffect ==
    ASSUME Media, NEW u \in Units, medium' = Synced(u)
    PROVE  /\ Media'
           /\ \A v \in Units : medium'[v].view = medium[v].view
           /\ medium'[u].stable = medium[u].view
<1> DEFINE g == medium[u].view
<1> HIDE DEF g
<1>1. medium' = [v \in Units |-> IF v = u THEN [medium[v] EXCEPT !.stable = g]
                                         ELSE medium[v]]
  BY DEF Synced, Media, g
<1>2. medium'[u] = [view |-> g, stable |-> g]
  BY <1>1 DEF Media, g
<1>3. \A v \in Units : v # u => medium'[v] = medium[v]
  BY <1>1
<1>4. \A v \in Units :
         /\ medium'[v] = [view |-> medium'[v].view, stable |-> medium'[v].stable]
         /\ medium'[v].view \in [Sectors(v) -> Data]
         /\ medium'[v].stable \in [Sectors(v) -> Data]
         /\ medium'[v].view = medium[v].view
  BY <1>2, <1>3 DEF Media, g
<1>5. Media'
  BY <1>1, <1>4 DEF Media
<1> QED BY <1>2, <1>4, <1>5 DEF g

-----------------------------------------------------------------------------
(* A step that leaves the work of the backend as it is. *)

Settled ==
  /\ UNCHANGED <<medium, job, hist>>
  /\ core'.start = core.start /\ core'.count = core.count /\ core'.fd = core.fd

LEMMA SettledKeeps ==
    ASSUME ScratchInv, Settled PROVE Contained' /\ Held'
<1>1. Asked' = Asked /\ View' = View
  BY DEF Settled, Asked, Span, View
<1>2. Contained'
  BY <1>1 DEF ScratchInv, Contained, Settled
<1>3. Held'
  BY <1>1 DEF ScratchInv, Held, Settled
<1> QED BY <1>2, <1>3

LEMMA CoreStep ==
    ASSUME ScratchInv, Probe \/ Sample \/ Collect \/ Swap \/ EraserVerifies
    PROVE  ScratchInv'
<1>0. Shape /\ Phases
  BY DEF ScratchInv
<1>1. Settled
  BY <1>0 DEF Settled, Shape, Probe, Sample, Collect, Swap, EraserVerifies, End
<1>2. core' \in [pc : CorePcs, kind : {"block", "sim"}, start : 0..MaxInt,
                 count : 0..MaxInt, fd : Units \cup {"none"},
                 errors : BOOLEAN, code : CoreCodes]
  BY <1>0, ZenonT(40) DEF Shape, Probe, Sample, Collect, Swap, EraserVerifies, End,
     CorePcs, CoreCodes
<1>3. used' \in [faults : 0..MaxFaults, swaps : 0..MaxSwaps]
  <2>1. used \in [faults : 0..MaxFaults, swaps : 0..MaxSwaps]
    BY <1>0 DEF Shape
  <2>2. CASE UNCHANGED used
    BY <2>1, <2>2
  <2>3. CASE Fault
    BY <2>1, <2>3, FaultCounts
  <2>4. CASE used.swaps < MaxSwaps /\ used' = [used EXCEPT !.swaps = @ + 1]
    BY <2>1, <2>4, Constants
  <2> QED
    BY <2>2, <2>3, <2>4 DEF Probe, Sample, Collect, Swap, EraserVerifies
<1>4. named' \in Units /\ UNCHANGED mounted
      /\ eraser' \in {"off", "write", "verify", "ok", "failed"}
  <2>1. CASE Swap
    <3>1. (CHOOSE u \in Units : u # named) \in Units
      <4>1. \E u \in Units : u # named
        BY "ours" # "other"
      <4> QED BY <4>1
    <3> QED BY <1>0, <2>1, <3>1 DEF Swap, Shape
  <2>2. CASE Probe \/ Sample \/ Collect \/ EraserVerifies
    BY <1>0, <2>2 DEF Shape, Probe, Sample, Collect, EraserVerifies
  <2> QED BY <2>1, <2>2
<1>5. Shape'
  <2>1. Media'
    BY <1>0, <1>1 DEF Shape, Settled, Media
  <2> QED BY <1>0, <1>1, <1>2, <1>3, <1>4, <2>1 DEF Shape, Settled
<1>6. Phases'
  <2>1. CASE Probe \/ Sample
    <3>1. /\ core.pc \in {"probe", "sample"} /\ eraser' = eraser
          /\ core'.pc \in {"sample", "scratch", "ended"}
          /\ core'.code \in {core.code, "failed"}
      BY <1>0, <2>1 DEF Shape, Probe, Sample, End
    <3>2. job.pc = "none" /\ core.fd \in Units
      BY <1>0, <3>1 DEF Phases
    <3> QED BY <1>0, <1>1, <3>1, <3>2 DEF Phases, Settled, Working
  <2>2. CASE Collect
    <3>1. /\ core'.pc = "ended" /\ job.pc = "answered" /\ eraser' = eraser
          /\ core'.code = "ok" => job.answer # "error"
          /\ job.answer # "none" => job.answer \in {"ok", "error"}
      BY <1>0, <2>2 DEF Shape, Collect, End, Refused
    <3>2. job.answer # "none"
      BY <1>0, <3>1 DEF Phases
    <3> QED BY <1>0, <1>1, <3>1, <3>2 DEF Phases, Settled, Working
  <2>3. CASE Swap \/ EraserVerifies
    <3>1. core' = core /\ (eraser' # "off" => eraser # "off")
      BY <2>3 DEF Swap, EraserVerifies
    <3> QED BY <1>0, <1>1, <3>1 DEF Phases, Settled
  <2> QED BY <2>1, <2>2, <2>3
<1> QED BY <1>1, <1>5, <1>6, SettledKeeps DEF ScratchInv

-----------------------------------------------------------------------------
(* The steps up to the request: nothing has been written. *)

LEMMA IdentifyStep == ASSUME ScratchInv, Identify PROVE ScratchInv'
<1>0. /\ Shape /\ Phases /\ core.pc = "identify" /\ job.pc = "none"
      /\ hist.touched = {} /\ job.answer = "none"
      /\ UNCHANGED <<medium, named, mounted, job, eraser, used, hist>>
  BY DEF ScratchInv, Phases, Contained, Identify, Shape
<1>1. PICK r \in Requests, k \in Backends, to \in {"open", "ended"},
           c \in {"none", "refused"} :
         core' = [core EXCEPT !.kind = k, !.start = r[1], !.count = r[2],
                              !.pc = to, !.code = c]
  BY DEF Identify
<1>2. /\ core' \in [pc : CorePcs, kind : {"block", "sim"}, start : 0..MaxInt,
                    count : 0..MaxInt, fd : Units \cup {"none"},
                    errors : BOOLEAN, code : CoreCodes]
      /\ core'.pc \in {"open", "ended"} /\ core'.code # "ok"
      /\ core'.fd = core.fd
  BY <1>0, <1>1, Constants DEF Shape, CorePcs, CoreCodes
<1>3. Shape'
  <2>1. Media'
    BY <1>0 DEF Shape, Media
  <2> QED BY <1>0, <1>2, <2>1 DEF Shape
<1>4. Phases'
  BY <1>0, <1>2 DEF Phases, Working
<1>5. Contained' /\ Held'
  BY <1>0 DEF Contained, Held, InSpan, HasSaved, Working
<1> QED BY <1>3, <1>4, <1>5 DEF ScratchInv

LEMMA OpenStep == ASSUME ScratchInv, Open PROVE ScratchInv'
<1>0. /\ Shape /\ Phases /\ core.pc = "open" /\ job.pc = "none"
      /\ hist.touched = {} /\ job.answer = "none"
      /\ UNCHANGED <<medium, named, mounted, job, eraser, used, hist>>
      /\ core' = [core EXCEPT !.pc = "probe", !.fd = named]
  BY DEF ScratchInv, Phases, Contained, Open, Shape
<1>1. /\ core' \in [pc : CorePcs, kind : {"block", "sim"}, start : 0..MaxInt,
                    count : 0..MaxInt, fd : Units \cup {"none"},
                    errors : BOOLEAN, code : CoreCodes]
      /\ core'.pc = "probe" /\ core'.code = core.code /\ core'.fd \in Units
  BY <1>0 DEF Shape, CorePcs, CoreCodes
<1>2. Shape'
  <2>1. Media'
    BY <1>0 DEF Shape, Media
  <2> QED BY <1>0, <1>1, <2>1 DEF Shape
<1>3. Phases'
  BY <1>0, <1>1 DEF Phases, Working
<1>4. Contained' /\ Held'
  BY <1>0 DEF Contained, Held, InSpan, HasSaved, Working
<1> QED BY <1>2, <1>3, <1>4 DEF ScratchInv

LEMMA CallStep == ASSUME ScratchInv, Call PROVE ScratchInv'
<1>0. /\ Shape /\ Phases /\ core.pc = "scratch" /\ job.pc = "none"
      /\ hist.touched = {} /\ job.answer = "none" /\ core.fd \in Units
      /\ UNCHANGED <<medium, named, mounted, core, eraser, used>>
      /\ job' = [job EXCEPT !.pc = "bounds"]
      /\ hist' = [hist EXCEPT !.before = medium[core.fd].view]
  BY DEF ScratchInv, Phases, Contained, Call, Shape
<1>1. /\ job'.pc = "bounds" /\ job'.saved = job.saved
      /\ job'.found = job.found /\ job'.answer = "none"
      /\ job' = [pc |-> job'.pc, saved |-> job'.saved, found |-> job'.found,
                 answer |-> job'.answer]
  BY <1>0 DEF Shape
<1>2. /\ hist'.before = View /\ hist'.foreign = hist.foreign
      /\ hist'.corrupt = hist.corrupt /\ hist'.touched = {}
      /\ hist' = [before |-> hist'.before, foreign |-> hist'.foreign,
                  corrupt |-> hist'.corrupt, touched |-> hist'.touched]
  BY <1>0 DEF Shape, View
<1>3. Media' /\ View' = View /\ View \in [Sectors(core.fd) -> Data]
  BY <1>0 DEF Shape, Media, View
<1>4. Shape'
  BY <1>0, <1>1, <1>2, <1>3 DEF Shape, Working
<1>5. Phases'
  BY <1>0, <1>1, <1>2 DEF Phases, Working
<1>6. Contained'
  BY <1>0, <1>1, <1>2 DEF Contained, InSpan
<1>7. Held'
  BY <1>0, <1>1, <1>2, <1>3 DEF Held, HasSaved, Working
<1> QED BY <1>4, <1>5, <1>6, <1>7 DEF ScratchInv

-----------------------------------------------------------------------------
(* The steps of the backend. *)

\* A backend at work, and what its steps leave alone.
Job(pc, saved, found, answer) ==
  job' = [pc |-> pc, saved |-> saved, found |-> found, answer |-> answer]

LEMMA AtWork ==
    ASSUME ScratchInv, job.pc \in Working
    PROVE  /\ Shape /\ Phases /\ Contained /\ Held /\ Media
           /\ core.pc = "scratch" /\ core.fd \in Units /\ core.code # "ok"
           /\ job.answer = "none" /\ View \in [Sectors(core.fd) -> Data]
           /\ core.count \in Nat
           /\ hist.touched \subseteq {core.fd} \X (Asked \cap Sectors(core.fd))
  BY Constants
     DEF ScratchInv, Shape, Phases, Contained, Held, Media, View, Working

\* The three ways on: to the next step, to an answer, to the end by Stop.
LEMMA GotoEffect ==
    ASSUME Shape, NEW pc, Goto(pc) PROVE Job(pc, job.saved, job.found, job.answer)
  BY DEF Shape, Goto, Job
LEMMA AnswerEffect ==
    ASSUME Shape, NEW a, Answer(a) PROVE Job("answered", job.saved, job.found, a)
  BY DEF Shape, Answer, Job

\* A step of the backend after which the work goes on or is answered keeps
\* the shape of the state and the phases.
LEMMA WorkShape ==
    ASSUME ScratchInv, job.pc \in Working, Media',
           UNCHANGED <<named, mounted, core, eraser>>,
           NEW pc \in Working \cup {"answered"}, NEW saved,
           NEW found \in {"ok", "error"}, NEW a \in {"none", "ok", "error"},
           Job(pc, saved, found, a), pc = "answered" <=> a # "none",
           UNCHANGED used \/ Fault, hist'.foreign = hist.foreign,
           hist'.corrupt \in BOOLEAN,
           hist' = [before |-> hist'.before, foreign |-> hist'.foreign,
                    corrupt |-> hist'.corrupt, touched |-> hist'.touched]
    PROVE  Shape' /\ Phases'
<1>0. Shape /\ Phases /\ core.pc = "scratch" /\ core.fd \in Units
      /\ core.code # "ok"
  BY AtWork
<1>1. job'.pc = pc /\ job'.saved = saved /\ job'.found = found /\ job'.answer = a
  BY DEF Job
<1>2. used' \in [faults : 0..MaxFaults, swaps : 0..MaxSwaps]
  BY <1>0, FaultCounts DEF Shape
<1>3. Shape'
  BY <1>0, <1>1, <1>2 DEF Shape, Job
<1>4. Phases'
  BY <1>0, <1>1 DEF Phases, Working
<1> QED BY <1>3, <1>4

LEMMA BoundsStep == ASSUME ScratchInv, Bounds PROVE ScratchInv'
<1>0. /\ job.pc = "bounds" /\ job.pc \in Working
      /\ UNCHANGED <<medium, named, mounted, core, eraser, used, hist>>
  BY DEF Bounds, Working
<1>1. /\ Shape /\ Phases /\ Contained /\ Held /\ Media /\ core.fd \in Units
      /\ core.start \in Nat /\ core.count \in Nat /\ job.answer = "none"
  BY <1>0, AtWork, Constants DEF Shape
<1>2. /\ Asked' = Asked /\ View' = View /\ Media'
  BY <1>0, <1>1 DEF Asked, View, Media
<1>3. \/ Job("answered", job.saved, job.found, "ok") /\ core.count = 0
      \/ Job("save", job.saved, job.found, "none")
            /\ Within(core.start, core.count, Capacity(core.fd))
      \/ Job("answered", job.saved, job.found, "error")
  BY <1>1, GotoEffect, AnswerEffect DEF Bounds
<1>4. hist = [before |-> hist.before, foreign |-> hist.foreign,
              corrupt |-> hist.corrupt, touched |-> hist.touched]
      /\ hist.corrupt \in BOOLEAN /\ job.found \in {"ok", "error"}
  BY <1>1 DEF Shape
<1>5. CASE Job("answered", job.saved, job.found, "ok") /\ core.count = 0
  <2>1. Shape' /\ Phases'
    BY <1>0, <1>2, <1>4, <1>5, WorkShape
  <2>2. Asked = {} /\ job'.pc = "answered"
    BY <1>1, <1>5 DEF Asked, Span, Job
  <2>3. Contained'
    BY <1>0, <1>1, <1>2, <2>2 DEF Contained, InSpan
  <2>4. Held'
    BY <1>0, <1>1, <1>2, <2>2 DEF Held, HasSaved, Working
  <2> QED BY <2>1, <2>3, <2>4 DEF ScratchInv
<1>6. CASE Job("save", job.saved, job.found, "none")
            /\ Within(core.start, core.count, Capacity(core.fd))
  <2>1. Shape' /\ Phases'
    BY <1>0, <1>2, <1>4, <1>6, WorkShape DEF Working
  <2>2. job'.pc = "save" /\ job'.answer = "none"
    BY <1>6 DEF Job
  <2>3. Asked \subseteq Sectors(core.fd)
    BY <1>1, <1>6, WithinFits DEF Asked
  <2>4. Contained'
    BY <1>0, <1>1, <1>2, <2>2, <2>3 DEF Contained
  <2>5. Held'
    BY <1>0, <1>1, <1>2, <2>2 DEF Held, HasSaved, Working
  <2> QED BY <2>1, <2>4, <2>5 DEF ScratchInv
<1>7. CASE Job("answered", job.saved, job.found, "error")
  <2>1. Shape' /\ Phases'
    BY <1>0, <1>2, <1>4, <1>7, WorkShape
  <2>2. job'.pc = "answered" /\ job'.answer = "error"
    BY <1>7 DEF Job
  <2>3. Contained'
    BY <1>0, <1>1, <1>2, <2>2 DEF Contained, InSpan
  <2>4. Held'
    BY <1>0, <1>1, <1>2, <2>2 DEF Held, HasSaved, Working
  <2> QED BY <2>1, <2>3, <2>4 DEF ScratchInv
<1> QED BY <1>3, <1>5, <1>6, <1>7

\* A step that fails without touching the medium is an answer "error".
LEMMA FailStep ==
    ASSUME ScratchInv, job.pc \in Working, Fails,
           UNCHANGED <<medium, named, mounted, core, eraser, hist>>
    PROVE  ScratchInv'
<1>1. /\ Shape /\ Contained /\ Held /\ Media
  BY AtWork
<1>2. /\ Asked' = Asked /\ View' = View /\ Media'
  BY <1>1 DEF Asked, View, Media
<1>3. Job("answered", job.saved, job.found, "error") /\ Fault
  BY <1>1, AnswerEffect DEF Fails
<1>4. Shape' /\ Phases'
  BY <1>1, <1>2, <1>3, WorkShape DEF Shape
<1>5. job'.pc = "answered" /\ job'.answer = "error" /\ job.pc # "none"
  BY <1>3 DEF Job, Working
<1>6. Contained'
  BY <1>1, <1>2, <1>5 DEF Contained, InSpan
<1>7. Held'
  BY <1>1, <1>2, <1>5 DEF Held, HasSaved, Working
<1> QED BY <1>4, <1>6, <1>7 DEF ScratchInv

LEMMA SaveStep == ASSUME ScratchInv, Save PROVE ScratchInv'
<1>0. /\ job.pc = "save" /\ job.pc \in Working
      /\ UNCHANGED <<medium, named, mounted, core, eraser, hist>>
  BY DEF Save, Working
<1>1. /\ Shape /\ Contained /\ Held /\ Media /\ job.answer = "none"
      /\ View \in [Sectors(core.fd) -> Data]
  BY <1>0, AtWork
<1>2. CASE Fails
  BY <1>0, <1>2, FailStep
<1>3. CASE /\ job' = [job EXCEPT !.pc = "write",
                                 !.saved = [s \in Asked |-> medium[core.fd].view[s]]]
           /\ UNCHANGED used
  <2>1. Asked' = Asked /\ View' = View /\ Media'
    BY <1>0, <1>1 DEF Asked, View, Media
  <2> DEFINE f == [s \in Asked |-> View[s]]
  <2>2. Job("write", f, job.found, "none")
    BY <1>1, <1>3 DEF Shape, Job, View
  <2>3. Asked \subseteq Sectors(core.fd)
    BY <1>0, <1>1 DEF Contained, InSpan
  <2>4. f \in [Asked -> Data] /\ \A s \in Asked : f[s] = View[s]
    BY <1>1, <2>3
  <2> HIDE DEF f
  <2>5. Shape' /\ Phases'
    <3>1. /\ hist.corrupt \in BOOLEAN /\ job.found \in {"ok", "error"}
          /\ hist = [before |-> hist.before, foreign |-> hist.foreign,
                     corrupt |-> hist.corrupt, touched |-> hist.touched]
          /\ "write" \in Working
      BY <1>1 DEF Shape, Working
    <3> QED BY <1>0, <1>3, <2>1, <2>2, <3>1, WorkShape
  <2>6. job'.pc = "write" /\ job'.saved = f /\ job'.answer = "none"
    BY <2>2 DEF Job
  <2>7. Contained'
    BY <1>0, <1>1, <2>1, <2>3, <2>6 DEF Contained
  <2>8. Held'
    BY <1>0, <1>1, <2>1, <2>4, <2>6 DEF Held, HasSaved, Working
  <2> QED BY <2>5, <2>7, <2>8 DEF ScratchInv
<1> QED BY <1>2, <1>3 DEF Save

\* A write into the range, whole or in part, of what the type allows.
LEMMA WroteEffect ==
    ASSUME ScratchInv, job.pc \in InSpan, UNCHANGED core,
           NEW n \in 0..core.count, NEW f \in [Asked -> Data], Writes(f, n),
           hist'.touched = Touch(n), hist'.before = hist.before
    PROVE  /\ Media' /\ Asked' = Asked
           /\ hist'.touched \subseteq {core.fd} \X (Asked \cap Sectors(core.fd))
           /\ \A s \in Sectors(core.fd) \ Asked : View'[s] = View[s]
           /\ n = core.count => \A s \in Asked : View'[s] = f[s]
<1>1. /\ Media /\ Shape /\ core.fd \in Units /\ Asked \subseteq Sectors(core.fd)
      /\ hist.touched \subseteq {core.fd} \X (Asked \cap Sectors(core.fd))
  <2>1. job.pc \in Working
    BY DEF InSpan, Working
  <2> QED BY <2>1, AtWork DEF Contained
<1>2. Span(core.start, n) \subseteq Asked
  BY <1>1, SpanIn
<1>3. Media' /\ View' = Stored(f, n)
  BY <1>1, <1>2, StoreEffect DEF View
<1>4. \A s \in Sectors(core.fd) \ Asked : View'[s] = View[s]
  BY <1>2, <1>3 DEF Stored, View
<1>5. n = core.count => \A s \in Asked : View'[s] = f[s]
  BY <1>1, <1>3 DEF Stored, Asked
<1>6. hist'.touched \subseteq {core.fd} \X (Asked \cap Sectors(core.fd))
  BY <1>1, <1>2 DEF Touch
<1>7. Asked' = Asked
  BY DEF Asked
<1> QED BY <1>3, <1>4, <1>5, <1>6, <1>7

\* What a step that writes comes to, whatever the device makes of it.
WriteComesTo(f, n, pc, a) ==
  /\ Writes(f, n) /\ hist'.touched = Touch(n) /\ hist'.before = hist.before
  /\ hist'.foreign = hist.foreign /\ hist'.corrupt \in BOOLEAN
  /\ hist' = [before |-> hist'.before, foreign |-> hist'.foreign,
              corrupt |-> hist'.corrupt, touched |-> hist'.touched]
  /\ Job(pc, job.saved, job.found, a)
  /\ UNCHANGED used \/ Fault
  /\ UNCHANGED <<named, mounted, core, eraser>>

LEMMA WriteKeeps ==
    ASSUME ScratchInv, job.pc \in InSpan,
           NEW n \in 0..core.count, NEW f \in [Asked -> Data],
           NEW pc \in Working \cup {"answered"}, NEW a \in {"none", "error"},
           pc = "answered" <=> a # "none", WriteComesTo(f, n, pc, a)
    PROVE  /\ Shape' /\ Phases' /\ Contained' /\ Asked' = Asked
           /\ hist'.before \in [Sectors(core.fd) -> Data]
           /\ \A s \in Sectors(core.fd) \ Asked : View'[s] = View[s]
           /\ n = core.count => \A s \in Asked : View'[s] = f[s]
<1>0. /\ job.pc \in Working /\ Shape /\ Contained /\ Held /\ job.pc # "none"
  BY AtWork DEF InSpan, Working
<1>1. /\ Media' /\ Asked' = Asked
      /\ hist'.touched \subseteq {core.fd} \X (Asked \cap Sectors(core.fd))
      /\ \A s \in Sectors(core.fd) \ Asked : View'[s] = View[s]
      /\ n = core.count => \A s \in Asked : View'[s] = f[s]
  BY WroteEffect DEF WriteComesTo
<1>2. Shape' /\ Phases'
  <2>1. job.found \in {"ok", "error"}
    BY <1>0 DEF Shape
  <2> QED BY <1>0, <1>1, <2>1, WorkShape DEF WriteComesTo
<1>3. Asked \subseteq Sectors(core.fd) /\ core' = core /\ job'.pc = pc
      /\ pc # "none"
  BY <1>0 DEF Contained, WriteComesTo, Job, Working
<1>4. Contained'
  BY <1>1, <1>3 DEF Contained
<1>5. hist'.before \in [Sectors(core.fd) -> Data]
  BY <1>0 DEF Held, WriteComesTo
<1> QED BY <1>1, <1>2, <1>4, <1>5

\* Both writing steps, in the words of WriteComesTo.
LEMMA WroteComesTo ==
    ASSUME ScratchInv, job.pc \in Working, NEW f, NEW n, Wrote(f, n),
           NEW pc, NEW a, Job(pc, job.saved, job.found, a),
           UNCHANGED used \/ Fault, UNCHANGED <<named, mounted, core, eraser>>
    PROVE  WriteComesTo(f, n, pc, a) /\ hist'.corrupt = hist.corrupt
<1>1. /\ hist = [before |-> hist.before, foreign |-> hist.foreign,
                 corrupt |-> hist.corrupt, touched |-> hist.touched]
      /\ hist.corrupt \in BOOLEAN
  BY DEF ScratchInv, Shape
<1> DEFINE t == Touch(n)
<1> HIDE DEF t
<1>2. Writes(f, n) /\ hist' = [hist EXCEPT !.touched = t]
  BY DEF Wrote, t
<1>3. /\ hist'.touched = t /\ hist'.before = hist.before
      /\ hist'.foreign = hist.foreign /\ hist'.corrupt = hist.corrupt
      /\ hist' = [before |-> hist'.before, foreign |-> hist'.foreign,
                  corrupt |-> hist'.corrupt, touched |-> hist'.touched]
  BY <1>1, <1>2
<1> QED BY <1>1, <1>2, <1>3 DEF WriteComesTo, t

LEMMA WriteStep == ASSUME ScratchInv, Write PROVE ScratchInv'
<1>0. /\ job.pc = "write" /\ job.pc \in Working /\ job.pc \in InSpan
      /\ UNCHANGED <<named, mounted, core, eraser>>
  BY DEF Write, Working, InSpan
<1>1. /\ Shape /\ Held /\ job.answer = "none" /\ core.count \in Nat
  BY <1>0, AtWork
<1>2. /\ Pattern \in [Asked -> Data]
      /\ \A b \in Asked : [Pattern EXCEPT ![b] = "bad"] \in [Asked -> Data]
      /\ core.count \in 0..core.count
  BY <1>1 DEF Pattern, Data
<1>3. \/ /\ UNCHANGED used \/ Fault
         /\ Job("flush", job.saved, job.found, "none")
         /\ \E f \in [Asked -> Data], n \in 0..core.count : Wrote(f, n)
      \/ /\ UNCHANGED used \/ Fault
         /\ Job("answered", job.saved, job.found, "error")
         /\ \E f \in [Asked -> Data], n \in 0..core.count : Wrote(f, n)
  BY <1>1, <1>2, GotoEffect, AnswerEffect DEF Write, Fails
<1>4. PICK f \in [Asked -> Data], n \in 0..core.count : Wrote(f, n)
  BY <1>3
<1>5. CASE /\ UNCHANGED used \/ Fault
           /\ Job("flush", job.saved, job.found, "none")
  <2>1. WriteComesTo(f, n, "flush", "none") /\ hist'.corrupt = hist.corrupt
    BY <1>0, <1>4, <1>5, WroteComesTo
  <2>2. "flush" \in Working
    BY DEF Working
  <2>3. /\ Shape' /\ Phases' /\ Contained' /\ Asked' = Asked
        /\ hist'.before \in [Sectors(core.fd) -> Data]
        /\ \A s \in Sectors(core.fd) \ Asked : View'[s] = View[s]
    BY <1>0, <2>1, <2>2, WriteKeeps
  <2>4. /\ job'.pc = "flush" /\ job'.saved = job.saved /\ job'.answer = "none"
        /\ hist'.before = hist.before /\ hist'.foreign = hist.foreign
    BY <1>5, <2>1 DEF Job, WriteComesTo
  <2>5. Held'
    BY <1>0, <1>1, <2>1, <2>3, <2>4 DEF Held, HasSaved, Working
  <2> QED BY <2>3, <2>5 DEF ScratchInv
<1>6. CASE /\ UNCHANGED used \/ Fault
           /\ Job("answered", job.saved, job.found, "error")
  <2>1. WriteComesTo(f, n, "answered", "error") /\ hist'.corrupt = hist.corrupt
    BY <1>0, <1>4, <1>6, WroteComesTo
  <2>2. /\ Shape' /\ Phases' /\ Contained' /\ Asked' = Asked
        /\ hist'.before \in [Sectors(core.fd) -> Data]
        /\ \A s \in Sectors(core.fd) \ Asked : View'[s] = View[s]
    BY <1>0, <2>1, WriteKeeps
  <2>3. /\ job'.pc = "answered" /\ job'.answer = "error"
        /\ hist'.before = hist.before /\ hist'.foreign = hist.foreign
    BY <1>6, <2>1 DEF Job, WriteComesTo
  <2>4. Held'
    BY <1>0, <1>1, <2>1, <2>2, <2>3 DEF Held, HasSaved, Working
  <2> QED BY <2>2, <2>4 DEF ScratchInv
<1> QED BY <1>3, <1>5, <1>6

LEMMA RestoreStep == ASSUME ScratchInv, Restore PROVE ScratchInv'
<1>0. /\ job.pc = "restore" /\ job.pc \in Working /\ job.pc \in InSpan
      /\ UNCHANGED <<named, mounted, core, eraser>>
  BY DEF Restore, Working, InSpan
<1>1. /\ Shape /\ Held /\ job.answer = "none" /\ core.count \in Nat
      /\ job.saved \in [Asked -> Data]
  BY <1>0, AtWork DEF Held, HasSaved
<1>2. /\ \A b \in Asked : [job.saved EXCEPT ![b] = "bad"] \in [Asked -> Data]
      /\ core.count \in 0..core.count /\ "reflush" \in Working
  BY <1>1 DEF Data, Working
<1>3. CASE Wrote(Restored, core.count) /\ Goto("reflush") /\ UNCHANGED used
  <2>1. Wrote(job.saved, core.count)
        /\ Job("reflush", job.saved, job.found, "none")
    BY <1>1, <1>3, GotoEffect DEF Restored
  <2>2. WriteComesTo(job.saved, core.count, "reflush", "none")
        /\ hist'.corrupt = hist.corrupt
    BY <1>0, <1>3, <2>1, WroteComesTo
  <2>3. /\ Shape' /\ Phases' /\ Contained' /\ Asked' = Asked
        /\ hist'.before \in [Sectors(core.fd) -> Data]
        /\ \A s \in Sectors(core.fd) \ Asked : View'[s] = View[s]
        /\ \A s \in Asked : View'[s] = job.saved[s]
    BY <1>0, <1>1, <1>2, <2>2, WriteKeeps
  <2>4. /\ job'.pc = "reflush" /\ job'.saved = job.saved /\ job'.answer = "none"
        /\ hist'.before = hist.before /\ hist'.foreign = hist.foreign
    BY <2>1, <2>2 DEF Job, WriteComesTo
  <2>5. Held'
    BY <1>0, <1>1, <2>2, <2>3, <2>4 DEF Held, HasSaved, Working
  <2> QED BY <2>3, <2>5 DEF ScratchInv
<1>4. CASE /\ Fault /\ Goto("reflush")
           /\ \E b \in Asked : Writes([Restored EXCEPT ![b] = "bad"], core.count)
           /\ hist' = [hist EXCEPT !.touched = Touch(core.count), !.corrupt = TRUE]
  <2>1. PICK f \in [Asked -> Data] : Writes(f, core.count)
    BY <1>2, <1>4 DEF Restored
  <2>2. Job("reflush", job.saved, job.found, "none")
    BY <1>1, <1>4, GotoEffect
  <2> DEFINE t == Touch(core.count)
  <2>3. /\ hist'.touched = t /\ hist'.before = hist.before
        /\ hist'.foreign = hist.foreign /\ hist'.corrupt = TRUE
        /\ hist' = [before |-> hist'.before, foreign |-> hist'.foreign,
                    corrupt |-> hist'.corrupt, touched |-> hist'.touched]
    <3> HIDE DEF t
    <3>1. hist' = [hist EXCEPT !.touched = t, !.corrupt = TRUE]
      BY <1>4 DEF t
    <3> QED BY <1>1, <3>1 DEF Shape
  <2>4. WriteComesTo(f, core.count, "reflush", "none")
    BY <1>0, <1>4, <2>1, <2>2, <2>3 DEF WriteComesTo
  <2>5. /\ Shape' /\ Phases' /\ Contained' /\ Asked' = Asked
        /\ hist'.before \in [Sectors(core.fd) -> Data]
    BY <1>0, <1>2, <2>4, WriteKeeps
  <2>6. job'.pc = "reflush" /\ job'.saved = job.saved
    BY <2>2 DEF Job
  <2>7. Held'
    BY <1>0, <1>1, <2>3, <2>5, <2>6 DEF Held
  <2> QED BY <2>5, <2>7 DEF ScratchInv
<1>5. CASE Fails /\ \E n \in 0..core.count : Wrote(Restored, n)
  <2>1. PICK n \in 0..core.count : Wrote(job.saved, n)
    BY <1>5 DEF Restored
  <2>2. Job("answered", job.saved, job.found, "error") /\ Fault
    BY <1>1, <1>5, AnswerEffect DEF Fails
  <2>3. WriteComesTo(job.saved, n, "answered", "error")
        /\ hist'.corrupt = hist.corrupt
    BY <1>0, <2>1, <2>2, WroteComesTo
  <2>4. /\ Shape' /\ Phases' /\ Contained' /\ Asked' = Asked
        /\ hist'.before \in [Sectors(core.fd) -> Data]
        /\ \A s \in Sectors(core.fd) \ Asked : View'[s] = View[s]
    BY <1>0, <1>1, <2>3, WriteKeeps
  <2>5. /\ job'.pc = "answered" /\ job'.answer = "error"
        /\ hist'.before = hist.before /\ hist'.foreign = hist.foreign
    BY <2>2, <2>3 DEF Job, WriteComesTo
  <2>6. Held'
    BY <1>0, <1>1, <2>3, <2>4, <2>5 DEF Held, HasSaved, Working
  <2> QED BY <2>4, <2>6 DEF ScratchInv
<1> QED BY <1>3, <1>4, <1>5 DEF Restore

LEMMA FlushPatternStep == ASSUME ScratchInv, FlushPattern PROVE ScratchInv'
<1>0. /\ job.pc = "flush" /\ job.pc \in Working
      /\ UNCHANGED <<named, mounted, core, eraser, hist>>
  BY DEF FlushPattern, Flush, Working
<1>1. /\ Shape /\ Contained /\ Held /\ Media /\ core.fd \in Units
      /\ job.answer = "none"
  BY <1>0, AtWork
<1>2. CASE Fails /\ UNCHANGED medium
  BY <1>0, <1>2, FailStep
<1>3. CASE medium' = Synced(core.fd) /\ Goto("read") /\ UNCHANGED used
  <2>1. Media' /\ View' = View /\ Asked' = Asked
    BY <1>0, <1>1, <1>3, SyncEffect DEF View, Asked
  <2>2. Job("read", job.saved, job.found, "none")
    BY <1>1, <1>3, GotoEffect
  <2>3. Shape' /\ Phases'
    <3>1. /\ hist.corrupt \in BOOLEAN /\ job.found \in {"ok", "error"}
          /\ hist = [before |-> hist.before, foreign |-> hist.foreign,
                     corrupt |-> hist.corrupt, touched |-> hist.touched]
          /\ "read" \in Working
      BY <1>1 DEF Shape, Working
    <3> QED BY <1>0, <1>3, <2>1, <2>2, <3>1, WorkShape
  <2>4. job'.pc = "read" /\ job'.saved = job.saved /\ job'.answer = "none"
    BY <2>2 DEF Job
  <2>5. Contained'
    BY <1>0, <1>1, <2>1, <2>4 DEF Contained, InSpan
  <2>6. Held'
    BY <1>0, <1>1, <2>1, <2>4 DEF Held, HasSaved, Working
  <2> QED BY <2>3, <2>5, <2>6 DEF ScratchInv
<1> QED BY <1>2, <1>3 DEF FlushPattern, Flush

LEMMA ReadBackStep == ASSUME ScratchInv, ReadBack PROVE ScratchInv'
<1>0. /\ job.pc = "read" /\ job.pc \in Working
      /\ UNCHANGED <<medium, named, mounted, core, eraser, hist>>
  BY DEF ReadBack, Working
<1>1. /\ Shape /\ Contained /\ Held /\ Media /\ job.answer = "none"
  BY <1>0, AtWork
<1>2. CASE Fails
  BY <1>0, <1>2, FailStep
<1>3. ASSUME UNCHANGED used, NEW found \in {"ok", "error"},
             job' = [job EXCEPT !.pc = "restore", !.found = found]
      PROVE  ScratchInv'
  <2>1. Media' /\ View' = View /\ Asked' = Asked
    BY <1>0, <1>1 DEF View, Asked, Media
  <2>2. Job("restore", job.saved, found, "none")
    BY <1>1, <1>3 DEF Shape, Job
  <2>3. Shape' /\ Phases'
    <3>1. /\ hist.corrupt \in BOOLEAN
          /\ hist = [before |-> hist.before, foreign |-> hist.foreign,
                     corrupt |-> hist.corrupt, touched |-> hist.touched]
          /\ "restore" \in Working
      BY <1>1 DEF Shape, Working
    <3> QED BY <1>0, <1>3, <2>1, <2>2, <3>1, WorkShape
  <2>4. job'.pc = "restore" /\ job'.saved = job.saved /\ job'.answer = "none"
    BY <2>2 DEF Job
  <2>5. Contained'
    BY <1>0, <1>1, <2>1, <2>4 DEF Contained, InSpan
  <2>6. Held'
    BY <1>0, <1>1, <2>1, <2>4 DEF Held, HasSaved, Working
  <2> QED BY <2>3, <2>5, <2>6 DEF ScratchInv
<1> QED BY <1>2, <1>3 DEF ReadBack

LEMMA FlushRestoredStep == ASSUME ScratchInv, FlushRestored PROVE ScratchInv'
<1>0. /\ job.pc = "reflush" /\ job.pc \in Working
      /\ UNCHANGED <<named, mounted, core, eraser, hist>>
  BY DEF FlushRestored, Flush, Working
<1>1. /\ Shape /\ Contained /\ Held /\ Media /\ core.fd \in Units
      /\ Asked \subseteq Sectors(core.fd)
  BY <1>0, AtWork DEF Contained, InSpan
<1>2. CASE Fails /\ UNCHANGED medium
  BY <1>0, <1>2, FailStep
<1>3. CASE medium' = Synced(core.fd) /\ Answer("ok") /\ UNCHANGED used
  <2>1. /\ Media' /\ View' = View /\ Asked' = Asked
        /\ medium'[core.fd].stable = View
    BY <1>0, <1>1, <1>3, SyncEffect DEF View, Asked
  <2>2. Job("answered", job.saved, job.found, "ok")
    BY <1>1, <1>3, AnswerEffect
  <2>3. Shape' /\ Phases'
    <3>1. /\ hist.corrupt \in BOOLEAN /\ job.found \in {"ok", "error"}
          /\ hist = [before |-> hist.before, foreign |-> hist.foreign,
                     corrupt |-> hist.corrupt, touched |-> hist.touched]
      BY <1>1 DEF Shape
    <3> QED BY <1>0, <1>3, <2>1, <2>2, <3>1, WorkShape
  <2>4. job'.pc = "answered" /\ job.pc # "none"
    BY <1>0, <2>2 DEF Job
  <2>5. Contained'
    BY <1>0, <1>1, <2>1, <2>4 DEF Contained, InSpan
  <2>6. ASSUME ~hist.foreign, ~hist.corrupt, NEW s \in Sectors(core.fd)
        PROVE  View[s] = hist.before[s]
    <3>1. /\ \A i \in Sectors(core.fd) \ Asked : View[i] = hist.before[i]
          /\ \A i \in Asked : View[i] = hist.before[i]
      BY <1>0, <1>1, <2>6 DEF Held
    <3> QED BY <3>1
  <2>7. Held'
    BY <1>0, <1>1, <2>1, <2>4, <2>6 DEF Held, HasSaved, Working
  <2> QED BY <2>3, <2>5, <2>7 DEF ScratchInv
<1> QED BY <1>2, <1>3 DEF FlushRestored, Flush

-----------------------------------------------------------------------------
(* The world. *)

LEMMA StopStep == ASSUME ScratchInv, Stop PROVE ScratchInv'
<1>0. /\ job.pc \in Working /\ UNCHANGED <<named, mounted, eraser, hist>>
      /\ Goto("dead") /\ End("failed") /\ Fault
  BY DEF Stop
<1>1. /\ Shape /\ Phases /\ Contained /\ Held /\ Media /\ job.answer = "none"
      /\ core.fd \in Units /\ job.pc # "none"
  BY <1>0, AtWork DEF Working
<1>2. Job("dead", job.saved, job.found, "none")
  BY <1>0, <1>1, GotoEffect
<1>3. /\ core' \in [pc : CorePcs, kind : {"block", "sim"}, start : 0..MaxInt,
                    count : 0..MaxInt, fd : Units \cup {"none"},
                    errors : BOOLEAN, code : CoreCodes]
      /\ core'.pc = "ended" /\ core'.code = "failed" /\ core'.fd = core.fd
      /\ core'.start = core.start /\ core'.count = core.count
  BY <1>0, <1>1 DEF Shape, End, CorePcs, CoreCodes
<1>4. Media'
  <2>1. CASE UNCHANGED medium
    BY <1>1, <2>1 DEF Media
  <2>2. CASE medium' = [u \in Units |-> [medium[u] EXCEPT !.view = medium[u].stable]]
    <3>1. \A u \in Units : medium'[u] = [view |-> medium[u].stable,
                                         stable |-> medium[u].stable]
      BY <1>1, <2>2 DEF Media
    <3>2. medium' = [u \in Units |-> medium'[u]]
      BY <2>2
    <3>3. \A u \in Units : medium'[u] = [view |-> medium'[u].view,
                                         stable |-> medium'[u].stable]
      BY <3>1
    <3>4. medium' = [u \in Units |-> [view |-> medium'[u].view,
                                      stable |-> medium'[u].stable]]
      BY <3>2, <3>3
    <3>5. \A u \in Units : /\ medium'[u].view \in [Sectors(u) -> Data]
                           /\ medium'[u].stable \in [Sectors(u) -> Data]
      BY <1>1, <3>1 DEF Media
    <3> QED BY <3>4, <3>5 DEF Media
  <2> QED BY <2>1, <2>2 DEF Stop
<1>5. used' \in [faults : 0..MaxFaults, swaps : 0..MaxSwaps]
  BY <1>0, <1>1, FaultCounts DEF Shape
<1>6. job'.pc = "dead" /\ job'.answer = "none" /\ Asked' = Asked
  BY <1>2, <1>3 DEF Job, Asked
<1>7. Shape'
  BY <1>0, <1>1, <1>2, <1>3, <1>4, <1>5 DEF Shape, Job
<1>8. Phases'
  BY <1>0, <1>1, <1>3, <1>6 DEF Phases, Working
<1>9. Contained'
  BY <1>0, <1>1, <1>3, <1>6 DEF Contained, InSpan
<1>10. Held'
  BY <1>0, <1>1, <1>3, <1>6 DEF Held, HasSaved, Working
<1> QED BY <1>7, <1>8, <1>9, <1>10 DEF ScratchInv

LEMMA EraserStep == ASSUME ScratchInv, EraserWrites \/ EraserFlushes PROVE ScratchInv'
<1>0. /\ Shape /\ Phases /\ Contained /\ Held /\ Media
      /\ UNCHANGED <<named, mounted, core, job, used>>
  BY DEF ScratchInv, Shape, EraserWrites, EraserFlushes
<1>1. Media'
  <2>1. CASE EraserWrites
    <3> DEFINE z == [s \in Sectors("ours") |-> "zero"]
    <3>1. medium' = [medium EXCEPT !["ours"].view = z]
      BY <2>1 DEF EraserWrites
    <3>2. z \in [Sectors("ours") -> Data]
      BY DEF Data
    <3> HIDE DEF z
    <3>3. medium' = [u \in Units |-> IF u = "ours" THEN [medium[u] EXCEPT !.view = z]
                                                   ELSE medium[u]]
      BY <1>0, <3>1 DEF Media
    <3>4. /\ medium'["ours"] = [view |-> z, stable |-> medium["ours"].stable]
          /\ medium'["other"] = medium["other"]
      BY <1>0, <3>3 DEF Media
    <3>5. \A u \in Units :
             /\ medium'[u] = [view |-> medium'[u].view, stable |-> medium'[u].stable]
             /\ medium'[u].view \in [Sectors(u) -> Data]
             /\ medium'[u].stable \in [Sectors(u) -> Data]
      BY <1>0, <3>2, <3>4 DEF Media
    <3> QED BY <3>3, <3>5 DEF Media
  <2>2. CASE EraserFlushes
    BY <1>0, <2>2, SyncEffect DEF EraserFlushes
  <2> QED BY <2>1, <2>2
<1>2. /\ hist'.foreign = TRUE /\ hist'.before = hist.before
      /\ hist'.touched = hist.touched /\ hist'.corrupt = hist.corrupt
      /\ hist' = [before |-> hist'.before, foreign |-> hist'.foreign,
                  corrupt |-> hist'.corrupt, touched |-> hist'.touched]
  <2>1. CASE EraserWrites
    BY <1>0, <2>1 DEF EraserWrites, Shape
  <2>2. CASE EraserFlushes
    BY <1>0, <2>2 DEF EraserFlushes, Shape, Phases
  <2> QED BY <2>1, <2>2
<1>3. eraser' \in {"write", "verify"}
  BY DEF EraserWrites, EraserFlushes
<1>4. Shape'
  BY <1>0, <1>1, <1>2, <1>3, ZenonT(40) DEF Shape
<1>5. Phases'
  BY <1>0, <1>2 DEF Phases
<1>6. Contained' /\ Held'
  BY <1>0, <1>2 DEF Contained, Held, Asked
<1> QED BY <1>4, <1>5, <1>6 DEF ScratchInv

-----------------------------------------------------------------------------
(* The theorems. *)

LEMMA InitScratch == Init => ScratchInv
<1> SUFFICES ASSUME Init PROVE ScratchInv
  OBVIOUS
<1>1. Media
  BY DEF Init, Media, Data
<1>2. Shape
  BY <1>1, Constants DEF Init, Shape, CorePcs, CoreCodes, Working
<1>3. Phases /\ Contained /\ Held
  BY DEF Init, Phases, Contained, Held, Working, InSpan, HasSaved
<1> QED BY <1>2, <1>3 DEF ScratchInv

LEMMA NextScratch == ScratchInv /\ [Next]_vars => ScratchInv'
<1> SUFFICES ASSUME ScratchInv, [Next]_vars PROVE ScratchInv'
  OBVIOUS
<1>1. CASE UNCHANGED vars
  <2>1. Settled
    BY <1>1 DEF vars, Settled
  <2>2. Shape' /\ Phases'
    BY <1>1 DEF vars, ScratchInv, Shape, Media, Phases
  <2> QED BY <2>1, <2>2, SettledKeeps DEF ScratchInv
<1> QED
  BY <1>1, CoreStep, IdentifyStep, OpenStep, CallStep, BoundsStep, SaveStep,
     WriteStep, RestoreStep, FlushPatternStep, ReadBackStep, FlushRestoredStep,
     StopStep, EraserStep DEF Next

LEMMA RangeHolds == ScratchInv => InRange
<1> SUFFICES ASSUME ScratchInv PROVE InRange
  OBVIOUS
<1>1. TypeOK
  <2>1. \A u \in Units : \A c \in {"view", "stable"} :
           medium[u][c] \in [Sectors(u) -> Data]
    BY DEF ScratchInv, Shape, Media
  <2> QED BY <2>1 DEF ScratchInv, Shape, TypeOK, CorePcs, CoreCodes
<1>2. ASSUME NEW t \in hist.touched
      PROVE  t[1] = core.fd /\ t[2] \in Asked \cap Sectors(core.fd)
  <2>1. hist.touched \subseteq {core.fd} \X (Asked \cap Sectors(core.fd))
    BY DEF ScratchInv, Contained
  <2> QED BY <2>1
<1> QED BY <1>1, <1>2 DEF InRange

\* Whatever range is asked for, of whatever size the two devices are and
\* whatever the path names when: the test writes only sectors of that range,
\* and the arithmetic of the bounds never wraps (parse_scratch_range,
\* scratch_test of the backends).
THEOREM StaysInRange == Spec => []InRange
  BY InitScratch, NextScratch, RangeHolds, PTL DEF Spec

\* A check that exits 0 has left on the medium what it found there, through
\* any number of failed commands, stops and swaps, unless another program
\* wrote meanwhile or the device stored what it was not sent (scratch_test).
THEOREM RestoresOnOk == Spec => []OkMeansRestored
<1>1. ScratchInv => OkMeansRestored
  BY DEF ScratchInv, Phases, Held, View, OkMeansRestored
<1> QED BY <1>1, InitScratch, NextScratch, PTL DEF Spec
=============================================================================
