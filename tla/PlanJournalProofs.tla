-------------------------- MODULE PlanJournalProofs --------------------------
(***************************************************************************)
(* Proofs about the two files a run leaves behind: the plan (Planning) and *)
(* the journal (Journal).                                                  *)
(***************************************************************************)
EXTENDS Journal, Planning, FiniteSetTheorems, TLAPS

(***************************************************************************)
(* The journal, for any number of processes, any plan, and any failures,   *)
(* kills and losses of power: every reader accepts it, a resume finds its  *)
(* boundary, and it implements a durable log.                              *)
(***************************************************************************)

(* The inductive invariant.  The process that holds the lock knows the end  *)
(* of the file and what the lines say of its action, until a record fails.  *)

Exclusive == \A p, q \in Procs :
                proc[p].pc \in Holding /\ proc[q].pc \in Holding => p = q
Single == used.overlap \/ \A p, q \in Procs :
                proc[p].pc # "off" /\ proc[q].pc # "off" => p = q

\* The plan is recorded, except by the process about to do so.
Seeds(c) == c.pc = "write" /\ c.rec = "locked"
Seeded(c) == /\ Seeds(c) => file.lines = <<>>
             /\ c.pc # "off" /\ ~Seeds(c) => file.lines # <<>>

\* Where in the file f the next record goes, and what it follows.
Aligned(f, c) ==
    c.pc \in Holding /\ ~c.failed =>
        /\ ~f.torn
        /\ IF c.pc = "sync"
           THEN Last(f.lines).seq = c.seq
           ELSE c.seq = NextSeq(f.lines) /\ c.prev = LastDigest(f.lines)

\* The action with this index is started and not completed.
Begun(lines, act) ==
    \E j \in 1..Len(lines) :
        /\ lines[j].state = "action-started" /\ Plan[lines[j].act] = Plan[act]
        /\ \A k \in (j + 1)..Len(lines) :
             ~(lines[k].state = "action-completed" /\ Plan[lines[k].act] = Plan[act])

InAction(c) ==
    \/ c.pc = "acting"
    \/ c.pc = "write" /\ c.rec \in {"awaiting-device", "action-completed"}
    \/ c.pc = "sync" /\ c.rec \in {"action-started", "awaiting-device"}

\* The boundary of the process is that of the file.
Ended(c) == c.pc = "sync" /\ c.rec = "action-completed"
AtBoundary(c) ==
    c.pc # "off" /\ ~c.failed =>
        c.idx = Done(file.lines, Len(file.lines)) + (IF Ended(c) THEN 0 ELSE 1)
InPlan(c) ==
    InAction(c) \/ (c.pc \in {"write", "sync"} /\ c.rec \in {"action-started", "action-completed"})
        => c.idx \in 1..Len(Plan)

Chained == /\ Parses(file.lines)
           /\ \A p \in Procs : InAction(proc[p]) => Begun(file.lines, proc[p].idx)
Bounded == /\ ExactPrefix(file.lines)
           /\ \A p \in Procs : AtBoundary(proc[p])

JournalInv ==
    /\ TypeOK /\ Exclusive /\ Single
    /\ \A p \in Procs : Seeded(proc[p]) /\ Aligned(file, proc[p]) /\ InPlan(proc[p])
    /\ used.behind \/ Chained
    /\ used.behind \/ used.overlap \/ Bounded

-----------------------------------------------------------------------------
(* What a line that is appended, and a tail that is lost, do to the lines.  *)

LEMMA DoneFinite ==
  ASSUME NEW lines, NEW i \in Nat
  PROVE  /\ IsFiniteSet({j \in 1..i : lines[j].state = "action-completed"})
         /\ Done(lines, i) \in Nat
<1> DEFINE Dn == {j \in 1..i : lines[j].state = "action-completed"}
<1>1. IsFiniteSet(Dn)
  <2>1. IsFiniteSet(1..i) /\ Dn \subseteq 1..i
    BY FS_Interval
  <2> QED
    BY <2>1, FS_Subset
<1> QED
  BY <1>1, FS_CardinalityType DEF Done

LEMMA DoneNone == \A lines : Done(lines, 0) = 0
<1> SUFFICES ASSUME NEW lines PROVE Done(lines, 0) = 0
  OBVIOUS
<1>1. {j \in 1..0 : lines[j].state = "action-completed"} = {}
  OBVIOUS
<1> QED
  BY <1>1, FS_EmptySet DEF Done

\* Lines that begin alike have the same completions there.
LEMMA DoneAlike ==
  ASSUME NEW s \in Seq(Lines), NEW t \in Seq(Lines), NEW i \in Nat,
         \A j \in 1..i : s[j] = t[j]
  PROVE  Done(s, i) = Done(t, i)
<1>1. {j \in 1..i : s[j].state = "action-completed"}
        = {j \in 1..i : t[j].state = "action-completed"}
  OBVIOUS
<1> QED
  BY <1>1 DEF Done

LEMMA DoneAppend ==
  ASSUME NEW lines \in Seq(Lines), NEW x \in Lines
  PROVE  /\ \A i \in 0..Len(lines) : Done(Append(lines, x), i) = Done(lines, i)
         /\ Done(Append(lines, x), Len(lines) + 1)
              = Done(lines, Len(lines)) + (IF x.state = "action-completed" THEN 1 ELSE 0)
<1> DEFINE n == Len(lines)
           t == Append(lines, x)
           Dn(s, i) == {j \in 1..i : s[j].state = "action-completed"}
<1>0. /\ n \in Nat /\ t \in Seq(Lines) /\ t[n + 1] = x
      /\ \A j \in 1..n : t[j] = lines[j]
  OBVIOUS
<1>1. ASSUME NEW i \in 0..n PROVE Done(t, i) = Done(lines, i)
  <2>1. i \in Nat /\ \A j \in 1..i : t[j] = lines[j]
    BY <1>0
  <2> HIDE DEF t
  <2> QED
    BY <1>0, <2>1, DoneAlike
<1>2. IsFiniteSet(Dn(t, n)) /\ Cardinality(Dn(t, n)) \in Nat
  BY <1>0, DoneFinite DEF Done
<1>3. CASE x.state = "action-completed"
  <2>1. Dn(t, n + 1) = Dn(t, n) \cup {n + 1} /\ n + 1 \notin Dn(t, n)
    BY <1>0, <1>3
  <2>2. Cardinality(Dn(t, n + 1)) = Cardinality(Dn(t, n)) + 1
    BY <2>1, <1>2, FS_AddElement
  <2> QED
    BY <2>2, <1>1, <1>0, <1>3 DEF Done
<1>4. CASE x.state # "action-completed"
  <2>1. Dn(t, n + 1) = Dn(t, n)
    BY <1>0, <1>4
  <2>2. Done(t, n + 1) = Done(t, n) /\ Done(lines, n) \in Nat
    BY <2>1, <1>0, DoneFinite DEF Done
  <2> QED
    BY <2>2, <1>1, <1>0, <1>4
<1> QED
  BY <1>1, <1>3, <1>4

LEMMA Ends ==
  ASSUME NEW lines \in Seq(Lines), Parses(lines)
  PROVE  /\ NextSeq(lines) = Len(lines)
         /\ lines # <<>> => LastDigest(lines) = lines[Len(lines)].stamp
         /\ lines = <<>> => LastDigest(lines) = 0
  BY DEF Parses, NextSeq, LastDigest, Last

LEMMA ParsesAppend ==
  ASSUME NEW lines \in Seq(Lines), Parses(lines), NEW x \in Lines,
         x.seq = NextSeq(lines), x.prev = LastDigest(lines),
         x.state # "junk", x.state = "locked" <=> lines = <<>>,
         x.state = "action-completed" => Begun(lines, x.act)
  PROVE  Parses(Append(lines, x))
<1> DEFINE n == Len(lines)
           t == Append(lines, x)
<1>0. /\ n \in Nat /\ DOMAIN t = 1..(n + 1) /\ DOMAIN lines = 1..n
      /\ t[n + 1] = x /\ \A j \in 1..n : t[j] = lines[j]
      /\ n = 0 <=> lines = <<>>
  OBVIOUS
<1> HIDE DEF n, t
<1>1. ASSUME NEW i \in 1..n
      PROVE  /\ t[i].state # "junk" /\ t[i].seq = i - 1
             /\ t[i].prev = IF i = 1 THEN 0 ELSE t[i - 1].stamp
             /\ t[i].state = "locked" <=> i = 1
  <2>1. i = 1 \/ i - 1 \in 1..n
    BY <1>0
  <2> QED
    BY <1>0, <2>1, ZenonT(40) DEF Parses
<1>2. ASSUME NEW i \in 1..n, t[i].state = "action-completed"
      PROVE  StartedFor(t, i)
  <2>1. StartedFor(lines, i)
    BY <1>0, <1>2 DEF Parses
  <2>2. \A j \in 1..i : t[j] = lines[j]
    BY <1>0
  <2> QED
    BY <2>1, <2>2, SMTT(20) DEF StartedFor
<1>3. /\ x.seq = n
      /\ x.prev = IF n + 1 = 1 THEN 0 ELSE t[n].stamp
  BY <1>0, Ends DEF n
<1>4. ASSUME x.state = "action-completed" PROVE StartedFor(t, n + 1)
  BY <1>0, <1>4 DEF Begun, StartedFor, n
<1>5. ASSUME NEW i \in 1..(n + 1)
      PROVE  /\ t[i].state # "junk" /\ t[i].seq = i - 1
             /\ t[i].prev = IF i = 1 THEN 0 ELSE t[i - 1].stamp
             /\ t[i].state = "locked" <=> i = 1
             /\ t[i].state = "action-completed" => StartedFor(t, i)
  <2>1. CASE i \in 1..n
    BY <2>1, <1>1, <1>2
  <2>2. CASE i = n + 1
    BY <2>2, <1>0, <1>3, <1>4
  <2> QED
    BY <2>1, <2>2, <1>0
<1> QED
  BY <1>0, <1>5 DEF Parses, t

LEMMA ParsesPrefix ==
  ASSUME NEW lines \in Seq(Lines), Parses(lines), NEW k \in 0..Len(lines)
  PROVE  Parses(SubSeq(lines, 1, k))
<1> DEFINE t == SubSeq(lines, 1, k)
<1>0. DOMAIN t = 1..k /\ \A j \in 1..k : t[j] = lines[j] /\ j \in DOMAIN lines
  OBVIOUS
<1> HIDE DEF t
<1>1. ASSUME NEW i \in 1..k
      PROVE  /\ t[i].state # "junk" /\ t[i].seq = i - 1
             /\ t[i].prev = IF i = 1 THEN 0 ELSE t[i - 1].stamp
             /\ t[i].state = "locked" <=> i = 1
  <2>1. i = 1 \/ i - 1 \in 1..k
    OBVIOUS
  <2> QED
    BY <1>0, <2>1 DEF Parses
<1>2. ASSUME NEW i \in 1..k, t[i].state = "action-completed"
      PROVE  StartedFor(t, i)
  <2>1. StartedFor(lines, i)
    BY <1>0, <1>2 DEF Parses
  <2>2. \A j \in 1..i : t[j] = lines[j]
    BY <1>0
  <2> QED
    BY <2>1, <2>2 DEF StartedFor
<1> QED
  BY <1>0, <1>1, <1>2 DEF Parses, t

LEMMA BegunAppend ==
  ASSUME NEW lines \in Seq(Lines), NEW x \in Lines, NEW act \in Nat
  PROVE  /\ Begun(lines, act) /\ x.state # "action-completed" => Begun(Append(lines, x), act)
         /\ x.state = "action-started" /\ x.act = act => Begun(Append(lines, x), act)
<1> DEFINE n == Len(lines)
           t == Append(lines, x)
<1>0. n \in Nat /\ Len(t) = n + 1 /\ t[n + 1] = x /\ \A j \in 1..n : t[j] = lines[j]
  OBVIOUS
<1> HIDE DEF n, t
<1>1. ASSUME Begun(lines, act), x.state # "action-completed" PROVE Begun(t, act)
  <2>1. PICK j \in 1..n :
          /\ lines[j].state = "action-started" /\ Plan[lines[j].act] = Plan[act]
          /\ \A k \in (j + 1)..n :
               ~(lines[k].state = "action-completed" /\ Plan[lines[k].act] = Plan[act])
    BY <1>1 DEF Begun, n
  <2>2. ASSUME NEW k \in (j + 1)..(n + 1)
        PROVE  ~(t[k].state = "action-completed" /\ Plan[t[k].act] = Plan[act])
    <3>1. k \in (j + 1)..n \/ k = n + 1
      BY <1>0
    <3> QED
      BY <3>1, <2>1, <1>0, <1>1
  <2> QED
    BY <2>1, <2>2, <1>0 DEF Begun
<1>2. ASSUME x.state = "action-started", x.act = act PROVE Begun(t, act)
  BY <1>0, <1>2 DEF Begun
<1> QED
  BY <1>1, <1>2 DEF t

LEMMA ExactAppend ==
  ASSUME NEW lines \in Seq(Lines), NEW x \in Lines, ExactPrefix(lines),
         x.state = "action-completed" =>
            x.act = Done(lines, Len(lines)) + 1 /\ x.act <= Len(Plan)
  PROVE  ExactPrefix(Append(lines, x))
<1> DEFINE n == Len(lines)
           t == Append(lines, x)
<1>0. /\ n \in Nat /\ DOMAIN t = 1..(n + 1) /\ DOMAIN lines = 1..n
      /\ t[n + 1] = x /\ \A j \in 1..n : t[j] = lines[j]
  OBVIOUS
<1>1. /\ \A i \in 1..n : Done(t, i) = Done(lines, i)
      /\ x.state = "action-completed" => Done(t, n + 1) = x.act
  BY <1>0, DoneAppend
<1> QED
  BY <1>0, <1>1 DEF ExactPrefix

LEMMA ExactCut ==
  ASSUME NEW lines \in Seq(Lines), ExactPrefix(lines), NEW k \in 0..Len(lines)
  PROVE  ExactPrefix(SubSeq(lines, 1, k))
<1> DEFINE t == SubSeq(lines, 1, k)
<1>0. /\ DOMAIN t = 1..k /\ t \in Seq(Lines)
      /\ \A j \in 1..k : t[j] = lines[j] /\ j \in DOMAIN lines
  OBVIOUS
<1>1. ASSUME NEW i \in 1..k PROVE Done(t, i) = Done(lines, i)
  <2>1. i \in Nat /\ \A j \in 1..i : t[j] = lines[j]
    BY <1>0
  <2> HIDE DEF t
  <2> QED
    BY <1>0, <2>1, DoneAlike
<1> QED
  BY <1>0, <1>1 DEF ExactPrefix

-----------------------------------------------------------------------------
(* Steps that leave the lines alone and move one process, to the record c.  *)

LEMMA OffType == Off \in Processes
  BY DEF Off, Processes, Holding, RecordStates

\* Process p becomes c, and knows what c must know.
Becomes(p, c) ==
    /\ proc' = [proc EXCEPT ![p] = c]
    /\ file' \in Files /\ file'.lines = file.lines
    /\ synced' \in Nat /\ synced' <= Len(file.lines) /\ acked' \subseteq Lines
    /\ used' \in Usage /\ used'.behind = used.behind
    /\ used.overlap => used'.overlap
    /\ c.pc \in Holding => proc[p].pc \in Holding \/ LockFree
    /\ \/ c.pc = "off" \/ used'.overlap \/ proc[p].pc # "off"
       \/ \A q \in Procs : proc[q].pc = "off"
    /\ \A q \in Procs \ {p} : proc[q].pc \in Holding => file'.torn = file.torn
    /\ Seeded(c) /\ Aligned(file', c) /\ InPlan(c)
    /\ InAction(c) => used.behind \/ Begun(file.lines, c.idx)
    /\ used.behind \/ used'.overlap \/ AtBoundary(c)

LEMMA OneProcess ==
  ASSUME JournalInv, NEW p \in Procs, NEW c \in Processes, Becomes(p, c)
  PROVE  JournalInv'
<1> USE DEF Becomes
<1>1. /\ proc'[p] = c
      /\ \A q \in Procs \ {p} : proc'[q] = proc[q]
      /\ \A q \in Procs : proc'[q] = c \/ q # p
  BY DEF JournalInv, TypeOK
<1>2. TypeOK'
  BY DEF JournalInv, TypeOK
<1>3. Exclusive'
  BY <1>1 DEF JournalInv, Exclusive, LockFree
<1>4. Single'
  BY <1>1 DEF JournalInv, Single
<1>5. ASSUME NEW q \in Procs
      PROVE  Seeded(proc[q])' /\ Aligned(file, proc[q])' /\ InPlan(proc[q])'
  <2>1. CASE q = p
    BY <2>1, <1>1 DEF Seeded, Seeds, InPlan, InAction, Aligned
  <2>2. CASE q # p
    BY <2>2, <1>1 DEF JournalInv, Seeded, Seeds, InPlan, InAction, Aligned
  <2> QED
    BY <2>1, <2>2
<1>6. (used.behind \/ Chained)'
  <2> SUFFICES ASSUME ~used.behind PROVE Chained'
    OBVIOUS
  <2>1. Parses(file.lines)'
    <3>1. Parses(file'.lines)
      BY DEF JournalInv, Chained
    <3> QED
      BY <3>1 DEF Parses, StartedFor
  <2>2. ASSUME NEW q \in Procs, InAction(proc[q])' PROVE Begun(file.lines, proc[q].idx)'
    <3>1. InAction(proc'[q])
      BY <2>2 DEF InAction
    <3>2. Begun(file.lines, proc'[q].idx)
      <4>1. CASE q = p
        BY <4>1, <3>1, <1>1
      <4>2. CASE q # p
        BY <4>2, <3>1, <1>1 DEF JournalInv, Chained
      <4> QED
        BY <4>1, <4>2
    <3> QED
      BY <3>2 DEF Begun
  <2> QED
    BY <2>1, <2>2 DEF Chained
<1>7. (used.behind \/ used.overlap \/ Bounded)'
  <2> SUFFICES ASSUME ~used.behind, ~used'.overlap PROVE Bounded'
    OBVIOUS
  <2>1. ExactPrefix(file.lines)'
    BY DEF JournalInv, Bounded, ExactPrefix, Done
  <2>2. ASSUME NEW q \in Procs PROVE AtBoundary(proc[q])'
    <3>1. AtBoundary(proc'[q])
      <4>1. CASE q = p
        BY <4>1, <1>1
      <4>2. CASE q # p
        BY <4>2, <1>1 DEF JournalInv, Bounded
      <4> QED
        BY <4>1, <4>2
    <3> QED
      BY <3>1 DEF AtBoundary, Ended, Done
  <2> QED
    BY <2>1, <2>2 DEF Bounded
<1> QED
  BY <1>2, <1>3, <1>4, <1>5, <1>6, <1>7 DEF JournalInv

-----------------------------------------------------------------------------
(* The steps.                                                               *)

\* What an opened process knows of the file.
LEMMA Opening ==
  ASSUME JournalInv, NEW p \in Procs, NEW c \in Processes, Open(p, c)
  PROVE  /\ file' \in Files /\ file'.lines = file.lines /\ ~file'.torn
         /\ synced' \in Nat /\ synced' <= Len(file.lines)
         /\ NextSeq(file.lines) \in Nat /\ LastDigest(file.lines) \in Nat
<1>1. /\ file \in Files /\ file.lines \in Seq(Lines) /\ synced \in Nat
      /\ synced <= Len(file.lines) /\ Parses(file.lines)
  BY DEF JournalInv, TypeOK, Open, Files
<1>2. file' = [file EXCEPT !.torn = FALSE]
  BY DEF Open, Repaired
<1>3. NextSeq(file.lines) \in Nat /\ LastDigest(file.lines) \in Nat
  <2>1. CASE file.lines = <<>>
    BY <2>1, <1>1 DEF NextSeq, LastDigest
  <2>2. CASE file.lines # <<>>
    <3>1. Last(file.lines) \in Lines
      BY <2>2, <1>1 DEF Last
    <3> QED
      BY <3>1, <2>2 DEF NextSeq, LastDigest, Lines
  <2> QED
    BY <2>1, <2>2
<1>4. file' \in Files /\ file'.lines = file.lines /\ ~file'.torn
  BY <1>1, <1>2 DEF Files
<1>5. synced' \in Nat /\ synced' <= Len(file.lines)
  BY <1>1 DEF Open
<1> QED
  BY <1>3, <1>4, <1>5

LEMMA UsageStart ==
  ASSUME JournalInv, JournalAssumption, Start
  PROVE  /\ used' \in Usage /\ used'.behind = used.behind
         /\ used.overlap => used'.overlap
         /\ used'.overlap \/ \A q \in Procs : proc[q].pc = "off"
<1> DEFINE busy == \E q \in Procs : proc[q].pc # "off"
<1>1. used \in Usage /\ MaxStarts \in Nat
  BY DEF JournalInv, TypeOK, JournalAssumption
<1>2. used.starts + 1 \in 0..MaxStarts
  BY <1>1 DEF Start, Usage
<1>3. used' = [used EXCEPT !.starts = used.starts + 1, !.overlap = used.overlap \/ busy]
  BY DEF Start
<1>4. (used.overlap \/ busy) \in BOOLEAN
  OBVIOUS
<1>5. /\ used' \in Usage /\ used'.behind = used.behind
      /\ used'.overlap = (used.overlap \/ busy)
  <2> HIDE DEF busy
  <2> QED
    BY <1>1, <1>2, <1>3, <1>4 DEF Usage
<1> QED
  BY <1>5

LEMMA RunStep ==
  ASSUME JournalInv, JournalAssumption, NEW p \in Procs, Run(p)
  PROVE  JournalInv'
<1> DEFINE o == IF file.lines = <<>> THEN [Off EXCEPT !.pc = "write"] ELSE Off
           c == IF o.pc = "off" THEN Off
                ELSE [o EXCEPT !.seq = NextSeq(file.lines), !.prev = LastDigest(file.lines)]
<1>1. Open(p, o) /\ Start /\ proc[p].pc = "off" /\ LockFree
  BY DEF Run, Open
<1>2. o \in Processes
  <2>1. [Off EXCEPT !.pc = "write"] \in Processes
    BY OffType DEF Processes, Holding
  <2> QED
    BY <2>1, OffType
<1>3. /\ file' \in Files /\ file'.lines = file.lines /\ ~file'.torn
      /\ synced' \in Nat /\ synced' <= Len(file.lines)
      /\ NextSeq(file.lines) \in Nat /\ LastDigest(file.lines) \in Nat
  BY <1>1, <1>2, Opening
<1>4. proc' = [proc EXCEPT ![p] = c] /\ acked' = acked
  BY <1>1 DEF Open
<1>5. c \in Processes
  BY <1>2, <1>3 DEF Processes, Off
<1>6. \/ c = Off
      \/ /\ file.lines = <<>> /\ c.pc = "write" /\ c.rec = "locked" /\ c.idx = 1
         /\ c.seq = NextSeq(file.lines) /\ c.prev = LastDigest(file.lines) /\ ~c.failed
  BY DEF Off
<1>7. /\ Seeded(c) /\ InPlan(c) /\ ~InAction(c)
      /\ c.pc # "off" => c.pc \in Holding
  BY <1>6 DEF Seeded, Seeds, InPlan, InAction, Off, Holding
<1>8. Aligned(file', c)
  BY <1>6, <1>3 DEF Aligned, Off, Holding, NextSeq, LastDigest
<1>9. AtBoundary(c)
  <2>1. CASE c = Off
    BY <2>1 DEF AtBoundary, Off
  <2>2. CASE file.lines = <<>> /\ c.pc = "write" /\ c.idx = 1
    BY <2>2, DoneNone DEF AtBoundary, Ended
  <2> QED
    BY <2>1, <2>2, <1>6
<1>10. /\ used' \in Usage /\ used'.behind = used.behind
       /\ used.overlap => used'.overlap
       /\ used'.overlap \/ \A q \in Procs : proc[q].pc = "off"
  BY <1>1, UsageStart
<1>11. acked' \subseteq Lines
  BY <1>4 DEF JournalInv, TypeOK
<1>12. \A q \in Procs \ {p} : proc[q].pc \notin Holding
  BY <1>1 DEF LockFree
<1> HIDE DEF c
<1>13. Becomes(p, c)
  BY <1>1, <1>3, <1>4, <1>7, <1>8, <1>9, <1>10, <1>11, <1>12 DEF Becomes
<1> QED
  BY <1>5, <1>13, OneProcess

LEMMA SummarizeStep ==
  ASSUME JournalInv, JournalAssumption, NEW p \in Procs, Summarize(p)
  PROVE  JournalInv'
<1> DEFINE b == Boundary(file.lines)
           c == [Off EXCEPT !.pc = "summarized", !.kind = "resume", !.idx = b]
<1>1. b \in Nat \ {0} /\ b = Done(file.lines, Len(file.lines)) + 1
  <2>1. Len(file.lines) \in Nat
    BY DEF JournalInv, TypeOK, Files
  <2>2. Done(file.lines, Len(file.lines)) \in Nat
    BY <2>1, DoneFinite, Zenon
  <2> QED
    BY <2>2 DEF Boundary
<1>2. c \in Processes
  BY <1>1 DEF Off, Processes, Holding, RecordStates
<1>3. proc' = [proc EXCEPT ![p] = c]
  BY DEF Summarize
<1>4. /\ used' \in Usage /\ used'.behind = used.behind
      /\ used.overlap => used'.overlap
      /\ used'.overlap \/ \A q \in Procs : proc[q].pc = "off"
  BY UsageStart DEF Summarize
<1>5. Seeded(c) /\ Aligned(file', c) /\ InPlan(c) /\ ~InAction(c) /\ AtBoundary(c)
  BY <1>1 DEF Summarize, Seeded, Seeds, Aligned, Holding, InPlan, InAction,
              AtBoundary, Ended, Off
<1>6. /\ file' = file /\ file' \in Files
      /\ synced' \in Nat /\ synced' <= Len(file.lines) /\ acked' \subseteq Lines
  BY DEF Summarize, JournalInv, TypeOK
<1>7. c.pc \notin Holding
  BY DEF Holding, Off
<1> HIDE DEF c
<1>8. Becomes(p, c)
  BY <1>3, <1>4, <1>5, <1>6, <1>7 DEF Becomes
<1> QED
  BY <1>2, <1>8, OneProcess

LEMMA AcquireStep ==
  ASSUME JournalInv, NEW p \in Procs, Acquire(p)
  PROVE  JournalInv'
<1>0. /\ proc[p] \in Processes /\ proc[p].pc = "summarized" /\ used' = used
      /\ used \in Usage /\ acked \subseteq Lines
  BY DEF JournalInv, TypeOK, Acquire
<1>1. CASE Open(p, [proc[p] EXCEPT !.pc = "loop"])
  <2> DEFINE o == [proc[p] EXCEPT !.pc = "loop"]
             c == [o EXCEPT !.seq = NextSeq(file.lines), !.prev = LastDigest(file.lines)]
  <2>1. o \in Processes
    BY <1>0 DEF Processes, Holding
  <2>2. /\ file' \in Files /\ file'.lines = file.lines /\ ~file'.torn
        /\ synced' \in Nat /\ synced' <= Len(file.lines)
        /\ NextSeq(file.lines) \in Nat /\ LastDigest(file.lines) \in Nat
    BY <1>1, <2>1, Opening
  <2>3. c \in Processes
    BY <2>1, <2>2 DEF Processes
  <2>4. proc' = [proc EXCEPT ![p] = c] /\ acked' = acked /\ LockFree
    BY <1>1, <1>0 DEF Open, Processes
  <2>5. /\ c.pc = "loop" /\ c.idx = proc[p].idx /\ c.failed = proc[p].failed
        /\ c.seq = NextSeq(file.lines) /\ c.prev = LastDigest(file.lines)
    BY <1>0 DEF Processes
  <2> HIDE DEF c
  <2>6. Seeded(c) /\ InPlan(c) /\ ~InAction(c)
    <3>1. file.lines # <<>>
      BY <1>0 DEF JournalInv, Seeded, Seeds
    <3> QED
      BY <3>1, <2>5 DEF Seeded, Seeds, InPlan, InAction
  <2>7. Aligned(file', c)
    BY <2>2, <2>5 DEF Aligned
  <2>8. used.behind \/ used'.overlap \/ AtBoundary(c)
    <3>1. CASE used.behind \/ used.overlap
      BY <3>1, <1>0
    <3>2. CASE AtBoundary(proc[p])
      BY <3>2, <2>5, <1>0 DEF AtBoundary, Ended
    <3> QED
      BY <3>1, <3>2 DEF JournalInv, Bounded
  <2>9. \A q \in Procs \ {p} : proc[q].pc \notin Holding
    BY <2>4 DEF LockFree
  <2>10. Becomes(p, c)
    BY <1>0, <2>2, <2>4, <2>6, <2>7, <2>8, <2>9 DEF Becomes
  <2> QED
    BY <2>3, <2>10, OneProcess
<1>2. CASE proc' = [proc EXCEPT ![p] = Off] /\ UNCHANGED <<file, synced, acked>>
  <2>1. Seeded(Off) /\ Aligned(file', Off) /\ InPlan(Off) /\ ~InAction(Off) /\ AtBoundary(Off)
    BY DEF Off, Seeded, Seeds, Aligned, Holding, InPlan, InAction, AtBoundary
  <2>2. Becomes(p, Off)
    BY <1>0, <1>2, <2>1 DEF Becomes, JournalInv, TypeOK, Off, Holding
  <2> QED
    BY <2>2, OffType, OneProcess
<1> QED
  BY <1>1, <1>2 DEF Acquire

\* A step of a process that ends it, or makes it write a record, with or
\* without a failure behind it; the file may be torn by that.
LEMMA MoveOn ==
  ASSUME JournalInv, NEW p \in Procs, NEW c \in Processes,
         proc[p].pc \in Holding, ~Seeds(proc[p]),
         proc' = [proc EXCEPT ![p] = c], UNCHANGED <<synced, acked>>,
         file' \in Files, file'.lines = file.lines,
         used' \in Usage, used'.behind = used.behind, used'.overlap = used.overlap,
         c.pc \in {"write", "acting"}, ~Seeds(c),
         c.failed \/ (proc[p].pc \in {"loop", "acting"} /\ ~proc[p].failed /\ file' = file),
         c.idx = proc[p].idx, c.seq = proc[p].seq, c.prev = proc[p].prev,
         InPlan(c),
         InAction(c) => used.behind \/ Begun(file.lines, c.idx)
  PROVE  JournalInv'
<1>1. Seeded(c)
  BY DEF JournalInv, Seeded, Seeds, Holding
<1>2. Aligned(file', c)
  BY DEF JournalInv, Aligned, Holding, NextSeq, LastDigest
<1>3. used.behind \/ used'.overlap \/ AtBoundary(c)
  BY DEF JournalInv, Bounded, AtBoundary, Ended
<1>4. /\ \A q \in Procs \ {p} : proc[q].pc \notin Holding
      /\ proc[p].pc # "off"
  BY DEF JournalInv, Exclusive, Holding
<1>5. synced' \in Nat /\ synced' <= Len(file.lines) /\ acked' \subseteq Lines
  BY DEF JournalInv, TypeOK
<1>6. Becomes(p, c)
  BY <1>1, <1>2, <1>3, <1>4, <1>5 DEF Becomes
<1> QED
  BY <1>6, OneProcess

LEMMA MoveOff ==
  ASSUME JournalInv, NEW p \in Procs, proc' = [proc EXCEPT ![p] = Off],
         file' \in Files, file'.lines = file.lines,
         file'.torn = file.torn \/ proc[p].pc \in Holding,
         synced' \in Nat, synced' <= Len(file.lines), acked' \subseteq Lines,
         used' \in Usage, used'.behind = used.behind, used'.overlap = used.overlap
  PROVE  JournalInv'
<1>1. Seeded(Off) /\ Aligned(file', Off) /\ InPlan(Off) /\ ~InAction(Off) /\ AtBoundary(Off)
  BY DEF Off, Seeded, Seeds, Aligned, Holding, InPlan, InAction, AtBoundary
<1>2. Off.pc = "off" /\ Off.pc \notin Holding
  BY DEF Off, Holding
<1>3. \A q \in Procs \ {p} : proc[q].pc \in Holding => file'.torn = file.torn
  BY DEF JournalInv, Exclusive
<1>4. Becomes(p, Off)
  BY <1>1, <1>2, <1>3 DEF Becomes
<1> QED
  BY <1>4, OffType, OneProcess

LEMMA Leaves ==
  ASSUME JournalInv, NEW p \in Procs, NEW d \in Processes,
         proc[p].pc \in Holding, ~Seeds(proc[p]),
         proc' = [proc EXCEPT ![p] = Left(d)], UNCHANGED <<synced, acked>>,
         file' \in Files, file'.lines = file.lines,
         used' \in Usage, used'.behind = used.behind, used'.overlap = used.overlap,
         d.failed \/ (proc[p].pc \in {"loop", "acting"} /\ ~proc[p].failed /\ file' = file),
         d.idx = proc[p].idx, d.seq = proc[p].seq, d.prev = proc[p].prev
  PROVE  JournalInv'
<1>1. CASE d.kind = "run"
  <2> DEFINE c == [d EXCEPT !.pc = "write", !.rec = "complete"]
  <2>1. /\ c \in Processes /\ c.pc = "write" /\ c.rec = "complete" /\ c.failed = d.failed
        /\ c.idx = d.idx /\ c.seq = d.seq /\ c.prev = d.prev
    BY DEF Processes, Holding, RecordStates
  <2>2. proc' = [proc EXCEPT ![p] = c]
    BY <1>1 DEF Left
  <2> HIDE DEF c
  <2>3. ~Seeds(c) /\ InPlan(c) /\ ~InAction(c)
    BY <2>1 DEF Seeds, InPlan, InAction
  <2> QED
    BY <2>1, <2>2, <2>3, MoveOn
<1>2. CASE d.kind # "run"
  <2>1. synced' \in Nat /\ synced' <= Len(file.lines) /\ acked' \subseteq Lines
    BY DEF JournalInv, TypeOK
  <2>2. proc' = [proc EXCEPT ![p] = Off]
    BY <1>2 DEF Left
  <2> QED
    BY <2>1, <2>2, MoveOff
<1> QED
  BY <1>1, <1>2

LEMMA LoopStep ==
  ASSUME JournalInv, NEW p \in Procs, Loop(p)
  PROVE  JournalInv'
<1>0. /\ proc[p] \in Processes /\ proc[p].pc = "loop" /\ UNCHANGED <<file, synced, acked, used>>
      /\ file \in Files /\ used \in Usage /\ proc[p].pc \in Holding /\ ~Seeds(proc[p])
      /\ proc[p].failed \in BOOLEAN
  BY DEF JournalInv, TypeOK, Loop, Holding, Seeds, Processes
<1>1. CASE Leave(p)
  BY <1>0, <1>1, Leaves DEF Leave
<1>2. CASE proc[p].idx <= Len(Plan) /\ Record(p, "action-started")
  <2> DEFINE c == [proc[p] EXCEPT !.pc = "write", !.rec = "action-started"]
  <2>1. /\ c \in Processes /\ c.pc = "write" /\ c.rec = "action-started"
        /\ c.failed = proc[p].failed /\ c.idx = proc[p].idx
        /\ c.seq = proc[p].seq /\ c.prev = proc[p].prev
        /\ c.idx \in Nat \ {0} /\ c.idx <= Len(Plan)
    BY <1>0, <1>2 DEF Processes, Holding, RecordStates
  <2>2. proc' = [proc EXCEPT ![p] = c]
    BY <1>2 DEF Record
  <2> HIDE DEF c
  <2>3. ~Seeds(c) /\ InPlan(c) /\ ~InAction(c)
    BY <2>1 DEF Seeds, InPlan, InAction
  <2> QED
    BY <1>0, <2>1, <2>2, <2>3, MoveOn
<1> QED
  BY <1>1, <1>2 DEF Loop

LEMMA ActStep ==
  ASSUME JournalInv, NEW p \in Procs, Act(p)
  PROVE  JournalInv'
<1>0. /\ proc[p] \in Processes /\ proc[p].pc = "acting" /\ UNCHANGED <<file, synced, acked, used>>
      /\ file \in Files /\ used \in Usage /\ proc[p].pc \in Holding /\ ~Seeds(proc[p])
      /\ proc[p].failed \in BOOLEAN
  BY DEF JournalInv, TypeOK, Act, Holding, Seeds, Processes
<1>1. CASE Leave(p)
  BY <1>0, <1>1, Leaves DEF Leave
<1>2. ASSUME NEW rec \in {"action-completed", "awaiting-device"}, Record(p, rec)
      PROVE  JournalInv'
  <2> DEFINE c == [proc[p] EXCEPT !.pc = "write", !.rec = rec]
  <2>1. /\ c \in Processes /\ c.pc = "write" /\ c.rec = rec
        /\ c.failed = proc[p].failed /\ c.idx = proc[p].idx
        /\ c.seq = proc[p].seq /\ c.prev = proc[p].prev
    BY <1>0 DEF Processes, Holding, RecordStates
  <2>2. proc' = [proc EXCEPT ![p] = c]
    BY <1>2 DEF Record
  <2> HIDE DEF c
  <2>3. InAction(proc[p])
    BY <1>0 DEF InAction
  <2>4. c.idx \in 1..Len(Plan) /\ (used.behind \/ Begun(file.lines, c.idx))
    BY <2>1, <2>3 DEF JournalInv, InPlan, Chained
  <2>5. ~Seeds(c) /\ InPlan(c)
    BY <2>1, <2>4 DEF Seeds, InPlan
  <2> QED
    BY <1>0, <2>1, <2>2, <2>4, <2>5, MoveOn
<1> QED
  BY <1>1, <1>2 DEF Act

LEMMA FailedStep ==
  ASSUME JournalInv, JournalAssumption, NEW p \in Procs, Failed(p),
         proc[p].pc \in {"write", "sync"}, UNCHANGED <<synced, acked>>,
         file' \in Files, file'.lines = file.lines
  PROVE  JournalInv'
<1> DEFINE d == [proc[p] EXCEPT !.failed = TRUE]
<1>0. /\ proc[p] \in Processes /\ proc[p].pc \in Holding
      /\ d \in Processes /\ d.failed /\ d.idx = proc[p].idx
      /\ d.seq = proc[p].seq /\ d.prev = proc[p].prev
  BY DEF JournalInv, TypeOK, Holding, Processes
<1>1. used' \in Usage /\ used'.behind = used.behind /\ used'.overlap = used.overlap
  BY DEF JournalInv, TypeOK, Usage, Failed, JournalAssumption
<1>2. proc' = [proc EXCEPT ![p] = AfterFailure(proc[p])]
  BY DEF Failed
<1>3. CASE proc[p].rec = "awaiting-device"
  <2> DEFINE c == [proc[p] EXCEPT !.pc = "acting", !.failed = TRUE]
  <2>1. /\ c \in Processes /\ c.pc = "acting" /\ c.failed
        /\ c.idx = proc[p].idx /\ c.seq = proc[p].seq /\ c.prev = proc[p].prev
    BY <1>0 DEF Processes, Holding
  <2>2. proc' = [proc EXCEPT ![p] = c]
    BY <1>2, <1>3 DEF AfterFailure
  <2> HIDE DEF c
  <2>3. InAction(proc[p])
    BY <1>3 DEF InAction
  <2>4. c.idx \in 1..Len(Plan) /\ (used.behind \/ Begun(file.lines, c.idx))
    BY <2>1, <2>3 DEF JournalInv, InPlan, Chained
  <2>5. ~Seeds(c) /\ InPlan(c) /\ ~Seeds(proc[p])
    BY <2>1, <2>4, <1>3 DEF Seeds, InPlan
  <2> QED
    BY <1>0, <1>1, <2>1, <2>2, <2>4, <2>5, MoveOn
<1>4. CASE proc[p].rec \in {"action-started", "action-completed"}
  <2>1. proc' = [proc EXCEPT ![p] = Left(d)]
    BY <1>2, <1>4 DEF AfterFailure
  <2>2. ~Seeds(proc[p])
    BY <1>4 DEF Seeds
  <2> HIDE DEF d
  <2> QED
    BY <1>0, <1>1, <2>1, <2>2, Leaves
<1>5. CASE proc[p].rec \in {"locked", "complete"}
  <2>1. proc' = [proc EXCEPT ![p] = Off]
    BY <1>2, <1>5 DEF AfterFailure
  <2>2. synced' \in Nat /\ synced' <= Len(file.lines) /\ acked' \subseteq Lines
    BY DEF JournalInv, TypeOK
  <2> QED
    BY <1>0, <1>1, <2>1, <2>2, MoveOff
<1> QED
  BY <1>0, <1>3, <1>4, <1>5 DEF Processes, RecordStates

\* The whole line is written.
LEMMA AppendStep ==
  ASSUME JournalInv, JournalAssumption, NEW p \in Procs, proc[p].pc = "write",
         file' = [lines |-> Append(file.lines, Written(p)), torn |-> FALSE],
         used' = [used EXCEPT !.stamps = @ + 1, !.behind = @ \/ proc[p].failed],
         proc' = [proc EXCEPT ![p].pc = "sync"], UNCHANGED <<synced, acked>>
  PROVE  JournalInv'
<1> DEFINE c == [proc[p] EXCEPT !.pc = "sync"]
           x == Written(p)
           lines == file.lines
           n == Len(lines)
<1>0. /\ proc[p] \in Processes /\ used \in Usage /\ file \in Files /\ lines \in Seq(Lines)
      /\ n \in Nat /\ synced \in Nat /\ synced <= n /\ acked \subseteq Lines
      /\ proc[p].pc \in Holding /\ proc[p].failed \in BOOLEAN
  BY DEF JournalInv, TypeOK, Holding, Files, Processes
<1>1. x \in Lines /\ x.seq = proc[p].seq /\ x.prev = proc[p].prev /\ x.act = proc[p].idx
  <2>1. /\ proc[p].seq \in Nat /\ proc[p].prev \in Nat /\ proc[p].idx \in Nat
        /\ proc[p].rec \in RecordStates /\ used.stamps + 1 \in Nat
    BY <1>0 DEF Processes, Usage
  <2>2. NewLine(p) \in Lines
    BY <2>1 DEF NewLine, Lines
  <2>3. [NewLine(p) EXCEPT !.state = "junk"] \in Lines
    BY <2>2 DEF Lines
  <2> QED
    BY <2>2, <2>3 DEF Written, NewLine
<1>2. ~file.torn => x.state = proc[p].rec
  BY DEF Written, NewLine
<1>3. /\ c \in Processes /\ c.pc = "sync" /\ c.rec = proc[p].rec /\ c.idx = proc[p].idx
      /\ c.failed = proc[p].failed /\ c.seq = proc[p].seq
  BY <1>0 DEF Processes, Holding
<1>4. /\ proc'[p] = c /\ \A q \in Procs \ {p} : proc'[q] = proc[q]
      /\ \A q \in Procs \ {p} : proc[q].pc \notin Holding
  BY <1>0 DEF JournalInv, TypeOK, Exclusive
<1>5. /\ file'.lines = Append(lines, x) /\ file'.lines \in Seq(Lines) /\ file'.lines # <<>>
      /\ Len(file'.lines) = n + 1 /\ file'.lines[n + 1] = x /\ ~file'.torn
  BY <1>0, <1>1
<1>6. /\ used'.behind = (used.behind \/ proc[p].failed)
      /\ used'.overlap = used.overlap /\ used' \in Usage
  <2> DEFINE b == used.behind \/ proc[p].failed
  <2>1. b \in BOOLEAN /\ used.stamps + 1 \in Nat
    BY <1>0 DEF Usage
  <2>2. used' = [used EXCEPT !.stamps = used.stamps + 1, !.behind = b]
    OBVIOUS
  <2> HIDE DEF b
  <2>3. used'.behind = b /\ used'.overlap = used.overlap /\ used' \in Usage
    BY <1>0, <2>1, <2>2 DEF Usage
  <2> QED
    BY <2>3 DEF b
<1> HIDE DEF c, x
<1>7. TypeOK'
  <2>1. file' \in Files
    BY <1>5 DEF Files
  <2>2. proc' \in [Procs -> Processes]
    BY <1>3, <1>4 DEF JournalInv, TypeOK, c
  <2>3. synced' \in Nat /\ synced' <= Len(file'.lines)
    BY <1>0, <1>5
  <2> QED
    BY <2>1, <2>2, <2>3, <1>0, <1>6 DEF TypeOK
<1>8. Exclusive'
  BY <1>4 DEF Exclusive
<1>9. Single'
  BY <1>4, <1>6, <1>0 DEF JournalInv, Single, Holding
<1>10. ASSUME NEW q \in Procs
       PROVE  Seeded(proc[q])' /\ Aligned(file, proc[q])' /\ InPlan(proc[q])'
  <2>1. CASE q = p
    <3>1. InPlan(c)
      BY <1>3 DEF JournalInv, InPlan, InAction
    <3>2. Aligned(file', c)
      BY <1>3, <1>1, <1>5, <1>0 DEF JournalInv, Aligned, Last
    <3>3. Seeded(proc[q])'
      BY <2>1, <1>3, <1>4, <1>5 DEF Seeded, Seeds
    <3> QED
      BY <3>1, <3>2, <3>3, <2>1, <1>4 DEF InPlan, InAction, Aligned
  <2>2. CASE q # p
    <3>1. proc'[q] = proc[q] /\ proc[q].pc \notin Holding
      BY <2>2, <1>4
    <3>2. Seeded(proc[q])'
      BY <3>1, <1>5 DEF Seeded, Seeds, Holding
    <3>3. Aligned(file, proc[q])'
      BY <3>1 DEF Aligned
    <3>4. InPlan(proc[q])'
      BY <3>1 DEF InPlan, InAction, Holding
    <3> QED
      BY <3>2, <3>3, <3>4
  <2> QED
    BY <2>1, <2>2
<1>11. ASSUME ~used'.behind PROVE Chained'
  <2>1. ~used.behind /\ ~proc[p].failed
    BY <1>11, <1>6, <1>0
  <2>2. /\ Parses(lines) /\ ~file.torn /\ x.seq = NextSeq(lines) /\ x.prev = LastDigest(lines)
        /\ x.state = proc[p].rec /\ x.state \in RecordStates
    BY <2>1, <1>0, <1>1, <1>2 DEF JournalInv, Chained, Aligned, Processes
  <2>3. x.state = "locked" <=> lines = <<>>
    BY <2>2 DEF JournalInv, Seeded, Seeds
  <2>4. x.state = "action-completed" => Begun(lines, x.act)
    BY <2>1, <2>2, <1>1 DEF JournalInv, Chained, InAction
  <2>5. Parses(file'.lines)
    BY <1>0, <1>1, <1>5, <2>2, <2>3, <2>4, ParsesAppend DEF RecordStates
  <2>6. ASSUME NEW q \in Procs, InAction(proc'[q]) PROVE Begun(file'.lines, proc'[q].idx)
    <3>1. q = p /\ proc'[q] = c
      BY <2>6, <1>4 DEF InAction, Holding
    <3>2. x.state \in {"action-started", "awaiting-device"} /\ x.act = c.idx /\ c.idx \in Nat
      BY <2>6, <3>1, <1>3, <1>1, <2>2 DEF InAction, Processes
    <3>3. x.state = "awaiting-device" => Begun(lines, c.idx)
      BY <2>1, <2>2, <1>3 DEF JournalInv, Chained, InAction
    <3> QED
      BY <3>1, <3>2, <3>3, <1>0, <1>1, <1>5, BegunAppend
  <2> QED
    BY <2>5, <2>6 DEF Chained, Parses, StartedFor, InAction, Begun
<1>12. ASSUME ~used'.behind, ~used'.overlap PROVE Bounded'
  <2>1. ~used.behind /\ ~proc[p].failed /\ ~used.overlap
    BY <1>12, <1>6, <1>0
  <2>2. ExactPrefix(lines) /\ AtBoundary(proc[p]) /\ ~file.torn /\ x.state = proc[p].rec
    BY <2>1, <1>0, <1>2 DEF JournalInv, Bounded, Aligned
  <2>3. proc[p].idx = Done(lines, n) + 1
    BY <2>1, <2>2 DEF AtBoundary, Ended
  <2>4. x.state = "action-completed" => x.act <= Len(Plan)
    <3>1. InPlan(proc[p])
      BY DEF JournalInv
    <3> QED
      BY <3>1, <2>2, <1>1 DEF InPlan, InAction
  <2>5. ExactPrefix(file'.lines)
    BY <1>0, <1>1, <1>5, <2>2, <2>3, <2>4, ExactAppend
  <2>6. Done(file'.lines, n + 1)
          = Done(lines, n) + (IF x.state = "action-completed" THEN 1 ELSE 0)
    BY <1>0, <1>1, <1>5, DoneAppend
  <2>7. Done(lines, n) \in Nat
    BY <1>0, DoneFinite, Zenon
  <2>8. c.idx = Done(file'.lines, Len(file'.lines)) + (IF Ended(c) THEN 0 ELSE 1)
    BY <2>2, <2>3, <2>6, <2>7, <1>3, <1>5 DEF Ended
  <2>9. ASSUME NEW q \in Procs
        PROVE  proc'[q].pc # "off" /\ ~proc'[q].failed =>
                 proc'[q].idx = Done(file'.lines, Len(file'.lines))
                                  + (IF Ended(proc'[q]) THEN 0 ELSE 1)
    <3>1. CASE q = p
      BY <3>1, <2>8, <1>4
    <3>2. CASE q # p
      BY <3>2, <1>4, <2>1 DEF JournalInv, Single
    <3> QED
      BY <3>1, <3>2
  <2> QED
    BY <2>5, <2>9 DEF Bounded, ExactPrefix, AtBoundary, Ended, Done
<1> QED
  BY <1>7, <1>8, <1>9, <1>10, <1>11, <1>12 DEF JournalInv

LEMMA WriteStep ==
  ASSUME JournalInv, JournalAssumption, NEW p \in Procs, Write(p)
  PROVE  JournalInv'
<1>0. proc[p].pc = "write" /\ UNCHANGED <<synced, acked>> /\ file \in Files
  BY DEF Write, JournalInv, TypeOK
<1>1. CASE /\ file' = [lines |-> Append(file.lines, Written(p)), torn |-> FALSE]
           /\ used' = [used EXCEPT !.stamps = @ + 1, !.behind = @ \/ proc[p].failed]
           /\ proc' = [proc EXCEPT ![p].pc = "sync"]
  BY <1>0, <1>1, AppendStep
<1>2. CASE Failed(p) /\ (UNCHANGED file \/ file' = [file EXCEPT !.torn = TRUE])
  <2>1. file' \in Files /\ file'.lines = file.lines
    BY <1>0, <1>2 DEF Files
  <2> QED
    BY <1>0, <1>2, <2>1, FailedStep
<1> QED
  BY <1>1, <1>2 DEF Write

\* The record is on stable storage.
LEMMA AcknowledgeStep ==
  ASSUME JournalInv, NEW p \in Procs, proc[p].pc = "sync",
         synced' = Len(file.lines), acked' = acked \cup {Last(file.lines)},
         proc' = [proc EXCEPT ![p] = AfterRecord(Chain(proc[p], Last(file.lines)))],
         UNCHANGED <<file, used>>
  PROVE  JournalInv'
<1> DEFINE lines == file.lines
           l == Last(file.lines)
           d == Chain(proc[p], l)
           c == AfterRecord(d)
<1>0. /\ proc[p] \in Processes /\ used \in Usage /\ file \in Files /\ lines \in Seq(Lines)
      /\ acked \subseteq Lines /\ proc[p].pc \in Holding /\ lines # <<>>
  BY DEF JournalInv, TypeOK, Holding, Files, Seeded, Seeds
<1>1. l \in Lines /\ l.seq \in Nat /\ l.stamp \in Nat
  <2>1. l \in Lines
    BY <1>0 DEF Last
  <2> HIDE DEF l
  <2> QED
    BY <2>1 DEF Lines
<1>2. /\ synced' \in Nat /\ synced' <= Len(file.lines) /\ acked' \subseteq Lines
      /\ \A q \in Procs \ {p} : proc[q].pc \notin Holding
  BY <1>0, <1>1 DEF JournalInv, Exclusive
<1>3. /\ d \in Processes /\ d.rec = proc[p].rec /\ d.idx = proc[p].idx
      /\ d.failed = proc[p].failed /\ d.seq = proc[p].seq + 1 /\ d.prev = l.stamp
      /\ d.idx \in Nat \ {0}
  <2>1. proc[p].seq + 1 \in Nat
    BY <1>0 DEF Processes
  <2> HIDE DEF l
  <2> QED
    BY <1>0, <1>1, <2>1 DEF Processes, Chain
<1>4. proc' = [proc EXCEPT ![p] = c]
  OBVIOUS
<1>5. \/ d.seq = NextSeq(lines) /\ d.prev = LastDigest(lines) /\ ~file.torn
      \/ d.failed
  <2>1. Aligned(file, proc[p])
    BY DEF JournalInv
  <2> QED
    BY <2>1, <1>0, <1>3 DEF Aligned, NextSeq, LastDigest
<1> HIDE DEF d, l
\* It goes on in its loop.
<1>6. ASSUME NEW e \in Processes, proc' = [proc EXCEPT ![p] = e],
             e.pc = "loop" \/ (e.pc = "acting" /\ d.rec \in {"action-started", "awaiting-device"}),
             e.failed = d.failed, e.seq = d.seq, e.prev = d.prev,
             e.idx = d.idx + (IF d.rec = "action-completed" THEN 1 ELSE 0)
      PROVE  JournalInv'
  <2>1. Seeded(e)
    BY <1>6, <1>0 DEF Seeded, Seeds
  <2>2. Aligned(file', e)
    BY <1>5, <1>6 DEF Aligned
  <2>3. InPlan(proc[p])
    BY DEF JournalInv
  <2>4. InPlan(e)
    BY <2>3, <1>3, <1>6 DEF InPlan, InAction
  <2>5. InAction(e) => used.behind \/ Begun(lines, e.idx)
    <3>1. InAction(e) => InAction(proc[p]) /\ e.idx = proc[p].idx
      BY <1>3, <1>6 DEF InAction
    <3> QED
      BY <3>1 DEF JournalInv, Chained
  <2>6. used.behind \/ used.overlap \/ AtBoundary(e)
    <3>1. Done(lines, Len(lines)) \in Nat
      <4>1. Len(lines) \in Nat
        BY <1>0
      <4> QED
        BY <4>1, DoneFinite, Zenon
    <3>2. AtBoundary(proc[p]) => AtBoundary(e)
      BY <3>1, <1>3, <1>6 DEF AtBoundary, Ended
    <3> QED
      BY <3>2 DEF JournalInv, Bounded
  <2>7. Becomes(p, e)
    BY <1>0, <1>2, <1>6, <2>1, <2>2, <2>4, <2>5, <2>6 DEF Becomes
  <2> QED
    BY <2>7, OneProcess
<1>7. CASE d.rec = "locked"
  <2> DEFINE e == [d EXCEPT !.pc = "loop"]
  <2>1. c = e
    BY <1>7 DEF AfterRecord
  <2>2. /\ e \in Processes /\ e.pc = "loop" /\ e.failed = d.failed
        /\ e.seq = d.seq /\ e.prev = d.prev /\ e.idx = d.idx + 0
    BY <1>3 DEF Processes, Holding
  <2> HIDE DEF e
  <2> QED
    BY <2>1, <2>2, <1>4, <1>6, <1>7
<1>8. CASE d.rec = "action-completed"
  <2> DEFINE e == [d EXCEPT !.pc = "loop", !.idx = d.idx + 1]
  <2>1. c = e
    BY <1>8 DEF AfterRecord
  <2>2. /\ e \in Processes /\ e.pc = "loop" /\ e.failed = d.failed
        /\ e.seq = d.seq /\ e.prev = d.prev /\ e.idx = d.idx + 1
    <3>1. d.idx + 1 \in Nat \ {0}
      BY <1>3
    <3> QED
      BY <3>1, <1>3 DEF Processes, Holding
  <2> HIDE DEF e
  <2> QED
    BY <2>1, <2>2, <1>4, <1>6, <1>8
<1>9. CASE d.rec \in {"action-started", "awaiting-device"}
  <2> DEFINE e == [d EXCEPT !.pc = "acting"]
  <2>1. c = e
    BY <1>9 DEF AfterRecord
  <2>2. /\ e \in Processes /\ e.pc = "acting" /\ e.failed = d.failed
        /\ e.seq = d.seq /\ e.prev = d.prev /\ e.idx = d.idx + 0
    BY <1>3 DEF Processes, Holding
  <2> HIDE DEF e
  <2> QED
    BY <2>1, <2>2, <1>4, <1>6, <1>9
<1>10. CASE d.rec = "complete"
  <2>1. c = Off
    BY <1>10 DEF AfterRecord
  <2> QED
    BY <2>1, <1>0, <1>2, <1>4, MoveOff
<1> QED
  BY <1>3, <1>7, <1>8, <1>9, <1>10 DEF Processes, RecordStates

LEMMA SyncStep ==
  ASSUME JournalInv, JournalAssumption, NEW p \in Procs, Sync(p)
  PROVE  JournalInv'
<1>0. proc[p].pc = "sync" /\ UNCHANGED file /\ file \in Files
  BY DEF Sync, JournalInv, TypeOK
<1>1. CASE Failed(p) /\ UNCHANGED <<synced, acked>>
  BY <1>0, <1>1, FailedStep
<1>2. CASE ~(Failed(p) /\ UNCHANGED <<synced, acked>>)
  <2>1. /\ synced' = Len(file.lines) /\ acked' = acked \cup {Last(file.lines)}
        /\ UNCHANGED used
    BY <1>2 DEF Sync, AfterSync
  <2>2. proc' = [proc EXCEPT ![p] = AfterRecord(Chain(proc[p], Last(file.lines)))]
    BY <1>2 DEF Sync
  <2> QED
    BY <1>0, <2>1, <2>2, AcknowledgeStep
<1> QED
  BY <1>1, <1>2

LEMMA KillStep ==
  ASSUME JournalInv, NEW p \in Procs, Kill(p)
  PROVE  JournalInv'
<1>0. /\ file \in Files /\ synced \in Nat /\ synced <= Len(file.lines) /\ acked \subseteq Lines
      /\ used \in Usage /\ UNCHANGED <<synced, acked, used>>
      /\ proc' = [proc EXCEPT ![p] = Off]
  BY DEF Kill, JournalInv, TypeOK
<1>1. /\ file' \in Files /\ file'.lines = file.lines
      /\ file'.torn = file.torn \/ proc[p].pc \in Holding
  BY <1>0 DEF Kill, Files, Holding
<1> QED
  BY <1>0, <1>1, MoveOff

LEMMA PowerLossStep ==
  ASSUME JournalInv, PowerLoss
  PROVE  JournalInv'
<1> DEFINE lines == file.lines
<1>0. lines \in Seq(Lines) /\ used \in Usage /\ synced \in Nat /\ synced <= Len(lines)
  BY DEF JournalInv, TypeOK, Files
<1>1. PICK k \in synced..Len(lines), t \in BOOLEAN :
        file' = [lines |-> SubSeq(lines, 1, k), torn |-> t] /\ synced' = k
  BY DEF PowerLoss
<1>2. proc' = [p \in Procs |-> Off] /\ UNCHANGED <<acked, used>>
  BY DEF PowerLoss
<1>3. /\ k \in 0..Len(lines) /\ file'.lines = SubSeq(lines, 1, k) /\ Len(file'.lines) = k
      /\ file'.lines \in Seq(Lines) /\ file' \in Files
  BY <1>0, <1>1 DEF Files
<1>4. TypeOK'
  BY <1>0, <1>1, <1>2, <1>3, OffType DEF JournalInv, TypeOK
<1>5. \A p \in Procs : proc'[p] = Off
  BY <1>2
<1>6. Exclusive' /\ Single'
  BY <1>5 DEF Exclusive, Single, Off, Holding
<1>7. \A p \in Procs : (Seeded(proc[p]) /\ Aligned(file, proc[p]) /\ InPlan(proc[p]))'
  BY <1>5 DEF Seeded, Seeds, Aligned, InPlan, InAction, Off, Holding
<1>8. (used.behind \/ Chained)'
  <2>1. used.behind \/ Parses(file'.lines)
    BY <1>0, <1>3, ParsesPrefix DEF JournalInv, Chained
  <2>2. \A p \in Procs : ~InAction(proc[p])'
    BY <1>5 DEF InAction, Off
  <2> QED
    BY <2>1, <2>2, <1>2 DEF Chained, Parses, StartedFor
<1>9. (used.behind \/ used.overlap \/ Bounded)'
  <2>1. used.behind \/ used.overlap \/ ExactPrefix(file'.lines)
    BY <1>0, <1>3, ExactCut DEF JournalInv, Bounded
  <2>2. \A p \in Procs : AtBoundary(proc[p])'
    BY <1>5 DEF AtBoundary, Off
  <2> QED
    BY <2>1, <2>2, <1>2 DEF Bounded, ExactPrefix, Done
<1> QED
  BY <1>4, <1>6, <1>7, <1>8, <1>9 DEF JournalInv

-----------------------------------------------------------------------------
(* Theorems. *)

LEMMA InitInv == ASSUME JournalAssumption, Init PROVE JournalInv
<1>1. /\ file = [lines |-> <<>>, torn |-> FALSE] /\ synced = 0 /\ acked = {}
      /\ \A p \in Procs : proc[p] = Off
  BY DEF Init
<1>2. TypeOK
  BY OffType DEF Init, TypeOK, Files, Usage, JournalAssumption
<1>3. Exclusive /\ Single
  BY <1>1 DEF Exclusive, Single, Off, Holding
<1>4. \A p \in Procs : Seeded(proc[p]) /\ Aligned(file, proc[p]) /\ InPlan(proc[p])
  BY <1>1 DEF Seeded, Seeds, Aligned, InPlan, InAction, Off, Holding
<1>5. Chained
  BY <1>1 DEF Chained, Parses, InAction, Off
<1>6. Bounded
  BY <1>1 DEF Bounded, ExactPrefix, AtBoundary, Off
<1> QED
  BY <1>2, <1>3, <1>4, <1>5, <1>6 DEF JournalInv

LEMMA StepInv == ASSUME JournalAssumption, JournalInv, [Next]_vars PROVE JournalInv'
<1>1. CASE \E p \in Procs : \/ Run(p) \/ Summarize(p) \/ Acquire(p) \/ Loop(p)
                            \/ Act(p) \/ Write(p) \/ Sync(p) \/ Kill(p)
  <2>1. PICK p \in Procs : \/ Run(p) \/ Summarize(p) \/ Acquire(p) \/ Loop(p)
                           \/ Act(p) \/ Write(p) \/ Sync(p) \/ Kill(p)
    BY <1>1
  <2> QED
    BY <2>1, RunStep, SummarizeStep, AcquireStep, LoopStep, ActStep, WriteStep,
       SyncStep, KillStep
<1>2. CASE PowerLoss
  BY <1>2, PowerLossStep
<1>3. CASE UNCHANGED vars
  <2>1. TypeOK' /\ Exclusive' /\ Single'
    BY <1>3 DEF vars, JournalInv, TypeOK, Exclusive, Single
  <2>2. \A p \in Procs : (Seeded(proc[p]) /\ Aligned(file, proc[p]) /\ InPlan(proc[p]))'
    BY <1>3 DEF vars, JournalInv, Seeded, Seeds, Aligned, InPlan, InAction
  <2>3. (used.behind \/ Chained)'
    BY <1>3, SMTT(20) DEF vars, JournalInv, Chained, Parses, StartedFor, InAction, Begun
  <2>4. (used.behind \/ used.overlap \/ Bounded)'
    BY <1>3 DEF vars, JournalInv, Bounded, ExactPrefix, AtBoundary, Ended, Done
  <2> QED
    BY <2>1, <2>2, <2>3, <2>4 DEF JournalInv
<1> QED
  BY <1>1, <1>2, <1>3 DEF Next

LEMMA JournalCorrect == ASSUME JournalAssumption PROVE Spec => []JournalInv
<1>1. Init => JournalInv
  BY InitInv
<1>2. JournalInv /\ [Next]_vars => JournalInv'
  BY StepInv
<1> QED BY <1>1, <1>2, PTL DEF Spec

\* Whatever processes are killed, records fail and losses of power tear the
\* file, what is in it is a chain of records that every reader accepts, unless
\* a process wrote on behind a record that had failed.
THEOREM AlwaysReadable == ASSUME JournalAssumption PROVE Spec => []Readable
<1>1. JournalInv => Readable
  BY DEF JournalInv, Readable, Chained
<1> QED BY <1>1, JournalCorrect, PTL

\* Its completed actions are an exact prefix of the plan, whatever ids the
\* plan repeats, however often it was cut short and resumed, unless a process
\* wrote on so or two commands overlapped.
THEOREM AlwaysResumable == ASSUME JournalAssumption PROVE Spec => []Resumable
<1>1. JournalInv => Resumable
  BY DEF JournalInv, Resumable, Bounded
<1> QED BY <1>1, JournalCorrect, PTL

-----------------------------------------------------------------------------
(* The durable log.  Only a sync, the repair of a torn tail and a loss of   *)
(* power move the synced lines, and only forwards.                          *)

LEMMA SyncedGrows ==
  ASSUME NEW lines \in Seq(Lines), NEW j \in Nat, NEW k \in Nat, j <= k, k <= Len(lines)
  PROVE  Log!IsPrefix(SubSeq(lines, 1, j), SubSeq(lines, 1, k))
  BY DEF Log!IsPrefix

LEMMA LogStep ==
  ASSUME JournalInv, [Next]_vars
  PROVE  [Log!Next]_<<SubSeq(file.lines, 1, synced), acked>>
<1> DEFINE lines == file.lines
           log == SubSeq(lines, 1, synced)
<1>0. /\ lines \in Seq(Lines) /\ synced \in Nat /\ synced <= Len(lines)
      /\ Len(lines) \in Nat
  BY DEF JournalInv, TypeOK, Files
<1>1. ASSUME NEW k \in Nat, synced <= k, k <= Len(lines),
             SubSeq(file'.lines, 1, synced') = SubSeq(lines, 1, k), UNCHANGED acked
      PROVE  Log!Persist
  BY <1>0, <1>1, SyncedGrows DEF Log!Persist
<1>2. CASE UNCHANGED <<file, synced, acked>>
  BY <1>2
<1>3. ASSUME NEW p \in Procs, NEW c, Open(p, c) PROVE Log!Next
  <2>1. file'.lines = lines /\ UNCHANGED acked /\ synced' \in {synced, Len(lines)}
    BY <1>3, <1>0 DEF Open, Repaired, JournalInv, TypeOK, Files
  <2> QED
    BY <2>1, <1>0, <1>1 DEF Log!Next
<1>4. ASSUME NEW p \in Procs, Write(p) PROVE UNCHANGED <<log, acked>>
  <2>1. UNCHANGED <<synced, acked>>
    BY <1>4 DEF Write
  <2>2. CASE file'.lines = lines
    BY <2>1, <2>2
  <2>3. CASE file' = [lines |-> Append(lines, Written(p)), torn |-> FALSE]
    BY <2>1, <2>3, <1>0
  <2>4. file'.lines = lines \/ file' = [lines |-> Append(lines, Written(p)), torn |-> FALSE]
    BY <1>4 DEF Write, JournalInv, TypeOK, Files
  <2> QED
    BY <2>2, <2>3, <2>4
<1>5. ASSUME NEW p \in Procs, Sync(p) PROVE Log!Next \/ UNCHANGED <<log, acked>>
  <2>1. CASE synced' = Len(lines) /\ acked' = acked \cup {Last(lines)}
    <3>1. lines # <<>> /\ file' = file
      BY <1>5 DEF Sync, JournalInv, Seeded, Seeds
    <3>2. SubSeq(file'.lines, 1, synced') = lines
      BY <2>1, <3>1, <1>0
    <3>3. Log!IsPrefix(log, SubSeq(file'.lines, 1, synced'))
      BY <2>1, <3>1, <1>0, SyncedGrows
    <3>4. Last(lines) \in Log!Range(lines)
      BY <3>1, <1>0 DEF Last, Log!Range
    <3> QED
      BY <2>1, <3>2, <3>3, <3>4 DEF Log!Next, Log!PersistAndAcknowledge
  <2>2. CASE UNCHANGED <<file, synced, acked>>
    BY <2>2
  <2> QED
    BY <1>5, <2>1, <2>2 DEF Sync, AfterSync
<1>6. ASSUME NEW p \in Procs, Kill(p) PROVE UNCHANGED <<log, acked>>
  BY <1>6 DEF Kill, JournalInv, TypeOK, Files
<1>7. CASE PowerLoss
  <2>1. PICK k \in synced..Len(lines) : file'.lines = SubSeq(lines, 1, k) /\ synced' = k
    BY <1>7 DEF PowerLoss
  <2>2. SubSeq(file'.lines, 1, synced') = SubSeq(lines, 1, k) /\ UNCHANGED acked
    BY <1>0, <1>7, <2>1 DEF PowerLoss
  <2> QED
    BY <1>0, <1>1, <2>1, <2>2 DEF Log!Next
<1> QED
  BY <1>2, <1>3, <1>4, <1>5, <1>6, <1>7
  DEF Next, vars, Run, Summarize, Acquire, Loop, Act

\* The journal implements a durable append-only log: whatever is killed, fails
\* or loses power, the lines on stable storage are only ever extended, and
\* record returns Ok only for a line that is there.
THEOREM JournalRefines == ASSUME JournalAssumption PROVE Spec => ImplementsDurableLog
<1>1. Init => Log!Init
  BY DEF Init, Log!Init
<1>2. JournalInv /\ [Next]_vars => [Log!Next]_<<SubSeq(file.lines, 1, synced), acked>>
  BY LogStep
<1> QED
  BY <1>1, <1>2, JournalCorrect, PTL DEF Spec, ImplementsDurableLog, Log!Spec

(***************************************************************************)
(* Planning, for every command line, every unit and every policy.  What a  *)
(* builder lists is what the validator expects of that grade (Matches),    *)
(* and in each recipe a power cycle and a reading follow what destroys     *)
(* (Verifies): that is shown recipe by recipe.  From it every plan that    *)
(* plan or run builds is Promised, every plan that is valid is sound, and  *)
(* every plan that is enforced obeys the policy; PlanInv says that of the  *)
(* plan file and of the plan that runs.                                    *)
(***************************************************************************)

-----------------------------------------------------------------------------
(* Levels and grades. *)

LEMMA MaxPair ==
  ASSUME NEW a \in Nat, NEW b \in Nat
  PROVE  Max({a, b}) = IF a >= b THEN a ELSE b
<1> DEFINE m == IF a >= b THEN a ELSE b
<1>1. m \in {a, b} /\ \A y \in {a, b} : m >= y
  OBVIOUS
<1>2. \A x \in {a, b} : (\A y \in {a, b} : x >= y) => x = m
  OBVIOUS
<1> QED
  BY <1>1, <1>2 DEF Max

LEMMA MinPair ==
  ASSUME NEW a \in Nat, NEW b \in Nat
  PROVE  Min({a, b}) = IF a <= b THEN a ELSE b
<1> DEFINE m == IF a <= b THEN a ELSE b
<1>1. m \in {a, b} /\ \A y \in {a, b} : m =< y
  OBVIOUS
<1>2. \A x \in {a, b} : (\A y \in {a, b} : x =< y) => x = m
  OBVIOUS
<1> QED
  BY <1>1, <1>2 DEF Min

LEMMA MaxOne ==
  ASSUME NEW a \in Nat
  PROVE  Max({a}) = a
  BY DEF Max

LEMMA MaxGrade ==
  ASSUME NEW grades \in SUBSET Grades, grades # {}
  PROVE  Max(grades) \in grades /\ \A y \in grades : Max(grades) >= y
<1>1. \E x \in grades : \A y \in grades : x >= y
  <2>1. grades \subseteq {0, 1, 2, 3, 4}
    BY DEF Grades
  <2>2. CASE 4 \in grades
    BY <2>1, <2>2
  <2>3. CASE 4 \notin grades /\ 3 \in grades
    BY <2>1, <2>3
  <2>4. CASE 4 \notin grades /\ 3 \notin grades /\ 2 \in grades
    BY <2>1, <2>4
  <2>5. CASE 4 \notin grades /\ 3 \notin grades /\ 2 \notin grades /\ 1 \in grades
    BY <2>1, <2>5
  <2>6. CASE 4 \notin grades /\ 3 \notin grades /\ 2 \notin grades /\ 1 \notin grades
    <3>1. \A y \in grades : y = 0
      BY <2>1, <2>6
    <3>2. 0 \in grades
      BY <3>1
    <3> QED
      BY <3>1, <3>2
  <2> QED
    BY <2>2, <2>3, <2>4, <2>5, <2>6
<1> QED
  BY <1>1 DEF Max

\* The one grade of an option, or none: 0.
LEMMA HighestOf ==
  ASSUME NEW grades \in Option(Grades)
  PROVE  Highest(grades) \in Grades /\ \A f \in grades : Highest(grades) = f
<1>1. grades \cup {0} \in SUBSET Grades /\ grades \cup {0} # {}
  BY DEF Option, Grades
<1>2. /\ Highest(grades) \in grades \cup {0}
      /\ \A y \in grades \cup {0} : Highest(grades) >= y
  BY <1>1, MaxGrade DEF Highest
<1>3. ASSUME NEW f \in grades
      PROVE  f \in Nat /\ grades = {f}
  <2>1. f \in Grades /\ \A x \in grades : x = f
    BY DEF Option
  <2>2. f \in Nat
    BY <2>1 DEF Grades
  <2> QED
    BY <2>1, <2>2
<1>4. ASSUME NEW f \in grades
      PROVE  Highest(grades) = f
  <2>1. f \in Nat /\ Highest(grades) \in {f, 0} /\ Highest(grades) >= f
    BY <1>2, <1>3
  <2> QED
    BY <2>1
<1> QED
  BY <1>1, <1>2, <1>4

\* The name of a grade is parsed to no lower grade (CGrade::from_level).
LEMMA LevelOf ==
  /\ \A g \in Grades : LevelName(g) \in DOMAIN LevelGrades /\ LevelGrades[LevelName(g)] >= g
                       /\ LevelGrades[LevelName(g)] \in 1..4
  /\ \A l \in DOMAIN LevelGrades : LevelGrades[l] \in 1..4
<1>1. /\ DOMAIN LevelGrades = {"best", "lba", "device", "controller", "physical"}
      /\ LevelGrades["best"] = 4 /\ LevelGrades["lba"] = 1 /\ LevelGrades["device"] = 2
      /\ LevelGrades["controller"] = 3 /\ LevelGrades["physical"] = 4
  BY DEF LevelGrades
<1>2. /\ LevelNames[1] = "lba" /\ LevelNames[2] = "device" /\ LevelNames[3] = "controller"
  BY DEF LevelNames
<1>3. LevelName(0) = "physical" /\ LevelName(4) = "physical" /\ LevelName(1) = "lba"
      /\ LevelName(2) = "device" /\ LevelName(3) = "controller"
  BY <1>2 DEF LevelName
<1>4. Grades = {0, 1, 2, 3, 4}
  BY DEF Grades
<1> QED
  BY <1>1, <1>3, <1>4

\* No minimum of a command line or a policy is lost when they are merged.
LEMMA MinimumOf ==
  ASSUME NEW asked \in Option(Grades), NEW floor \in Option(Grades)
  PROVE  /\ Minimum(asked, floor) \in Option(Grades)
         /\ asked \cup floor # {} => Minimum(asked, floor) # {}
         /\ \A m \in Minimum(asked, floor), g \in asked \cup floor : m >= g
<1>1. \A a, f \in Grades : /\ HigherMinimum(a, f) \in Grades
                           /\ HigherMinimum(a, f) >= a /\ HigherMinimum(a, f) >= f
  BY LevelOf DEF HigherMinimum, Grades
<1>2. /\ asked \subseteq Grades /\ floor \subseteq Grades
      /\ \A a, b \in asked : a = b
      /\ \A a, b \in floor : a = b
  BY DEF Option
<1>6. \A g \in Grades : g >= g /\ {g} \in Option(Grades)
  BY DEF Grades, Option
<1>3. CASE floor = {}
  <2>1. Minimum(asked, floor) = asked
    BY <1>3 DEF Minimum
  <2> QED
    BY <2>1, <1>2, <1>3, <1>6
<1>4. CASE asked = {}
  <2>1. Minimum(asked, floor) = floor
    BY <1>4 DEF Minimum
  <2> QED
    BY <2>1, <1>2, <1>4, <1>6
<1>5. CASE floor # {} /\ asked # {}
  <2>1. PICK a \in asked, f \in floor : asked = {a} /\ floor = {f}
    BY <1>2, <1>5
  <2>2. Minimum(asked, floor) = {HigherMinimum(a, f)}
    BY <2>1, <1>5 DEF Minimum
  <2> QED
    <3>1. HigherMinimum(a, f) \in Grades
      BY <1>1, <1>2
    <3>2. HigherMinimum(a, f) >= a /\ HigherMinimum(a, f) >= f
      BY <1>1, <1>2
    <3> QED
      BY <2>1, <2>2, <3>1, <3>2, <1>6
<1> QED
  BY <1>3, <1>4, <1>5

LEMMA EffectiveOf ==
  ASSUME NEW level \in DOMAIN LevelGrades, NEW floor \in Option(Grades)
  PROVE  EffectiveLevel(level, floor) \in DOMAIN LevelGrades
  BY LevelOf, HighestOf DEF EffectiveLevel

LEMMA ReachesOf ==
  ASSUME NEW probe
  PROVE  Reaches(probe) \in SUBSET (1..4) /\ Reaches(probe) # {} /\ Max(Reaches(probe)) \in 1..4
<1>1. Reaches(probe) \in SUBSET (1..4) /\ Reaches(probe) # {}
  BY DEF Reaches
<1>2. Reaches(probe) \in SUBSET Grades
  BY <1>1 DEF Grades
<1> QED
  BY <1>1, <1>2, MaxGrade

LEMMA TargetOf ==
  ASSUME NEW level, NEW probe
  PROVE  Target(level, probe) \in SUBSET (1..4)
  BY ReachesOf DEF Target

-----------------------------------------------------------------------------
(* The recipes: what a builder lists is what the validator expects. *)

\* A tuple of action ids, as the provers see it, is a sequence.
LEMMA FunctionSeq ==
  ASSUME NEW n \in Nat, NEW f, f = [i \in 1..n |-> f[i]], \A i \in 1..n : f[i] \in Ids
  PROVE  f \in Seq(Ids)
<1>1. f \in [1..n -> Ids]
  OBVIOUS
<1> QED
  BY <1>1

\* The kind each action is given.
LEMMA KindOf ==
  /\ Kind("inventory") = "read-only" /\ Kind("lba-prbs-write") = "destructive"
  /\ Kind("flush") = "reversible" /\ Kind("power-cycle") = "power-cycle"
  /\ Kind("lba-prbs-verify") = "read-only" /\ Kind("lba-zero-write") = "destructive"
  /\ Kind("lba-zero-verify") = "read-only" /\ Kind("signature-check") = "read-only"
  /\ Kind("postcheck-l1") = "read-only" /\ Kind("lba-prbs-write-churn-0") = "destructive"
  /\ Kind("lba-prbs-verify-churn-0") = "read-only" /\ Kind("lba-prbs-write-churn-1") = "destructive"
  /\ Kind("lba-prbs-verify-churn-1") = "read-only" /\ Kind("device-user-area-erase") = "destructive"
  /\ Kind("blank-verify") = "read-only" /\ Kind("postcheck-p2") = "read-only"
  /\ Kind("capture-old-bbt") = "read-only" /\ Kind("enter-service-mode") = "reversible"
  /\ Kind("erase-old-rbb") = "destructive" /\ Kind("qualify-blocks") = "destructive"
  /\ Kind("final-erase") = "destructive" /\ Kind("rebuild-bbt-ftl") = "destructive"
  /\ Kind("exit-service-mode") = "reversible" /\ Kind("re-enumeration") = "read-only"
  /\ Kind("postcheck-c3") = "read-only" /\ Kind("enumerate-blocks") = "read-only"
  /\ Kind("erase-data-blocks") = "destructive" /\ Kind("verify-physical-erasure") = "read-only"
  /\ Kind("postcheck-c4") = "read-only" /\ Kind("salvage-physical") = "read-only"
  BY DEF Kind, Writes, PatternWrites, PrbsWrites, Erase, Moves

LEMMA NamesOf ==
  /\ "inventory" \in Ids /\ "lba-prbs-write" \in Ids /\ "flush" \in Ids
  /\ "power-cycle" \in Ids /\ "lba-prbs-verify" \in Ids /\ "lba-zero-write" \in Ids
  /\ "lba-zero-verify" \in Ids /\ "signature-check" \in Ids /\ "postcheck-l1" \in Ids
  /\ "lba-prbs-write-churn-0" \in Ids /\ "lba-prbs-verify-churn-0" \in Ids /\ "lba-prbs-write-churn-1" \in Ids
  /\ "lba-prbs-verify-churn-1" \in Ids /\ "device-user-area-erase" \in Ids /\ "blank-verify" \in Ids
  /\ "postcheck-p2" \in Ids /\ "capture-old-bbt" \in Ids /\ "enter-service-mode" \in Ids
  /\ "erase-old-rbb" \in Ids /\ "qualify-blocks" \in Ids /\ "final-erase" \in Ids
  /\ "rebuild-bbt-ftl" \in Ids /\ "exit-service-mode" \in Ids /\ "re-enumeration" \in Ids
  /\ "postcheck-c3" \in Ids /\ "enumerate-blocks" \in Ids /\ "erase-data-blocks" \in Ids
  /\ "verify-physical-erasure" \in Ids /\ "postcheck-c4" \in Ids /\ "salvage-physical" \in Ids
  BY DEF Ids, Writes, Moves, PatternWrites, PrbsWrites, PatternReads, PrbsReads, Erase

LEMMA WriteOf ==
  /\ "lba-prbs-write" \in Writes /\ "lba-zero-write" \in Writes /\ "lba-prbs-write-churn-0" \in Writes
  /\ "lba-prbs-write-churn-1" \in Writes /\ "device-user-area-erase" \in Writes /\ "erase-old-rbb" \in Writes
  /\ "qualify-blocks" \in Writes /\ "final-erase" \in Writes /\ "rebuild-bbt-ftl" \in Writes
  /\ "erase-data-blocks" \in Writes
  /\ "inventory" \notin Writes /\ "flush" \notin Writes /\ "power-cycle" \notin Writes
  /\ "lba-prbs-verify" \notin Writes /\ "lba-zero-verify" \notin Writes /\ "signature-check" \notin Writes
  /\ "postcheck-l1" \notin Writes /\ "lba-prbs-verify-churn-0" \notin Writes /\ "lba-prbs-verify-churn-1" \notin Writes
  /\ "blank-verify" \notin Writes /\ "postcheck-p2" \notin Writes /\ "capture-old-bbt" \notin Writes
  /\ "enter-service-mode" \notin Writes /\ "exit-service-mode" \notin Writes /\ "re-enumeration" \notin Writes
  /\ "postcheck-c3" \notin Writes /\ "enumerate-blocks" \notin Writes /\ "verify-physical-erasure" \notin Writes
  /\ "postcheck-c4" \notin Writes /\ "salvage-physical" \notin Writes
  BY DEF Writes, PatternWrites, PrbsWrites, Erase

Matches(recipe, ids) ==
  Len(recipe) = Len(ids) /\ \A i \in 1..Len(ids) : recipe[i] = <<ids[i], Kind(ids[i])>>

\* After the last destructive action come a power cycle and a reading.
Verifies(recipe) ==
  /\ \A i \in 1..Len(recipe) : recipe[i][1] \in Writes <=> recipe[i][2] = "destructive"
  /\ \/ \A i \in 1..Len(recipe) : recipe[i][2] # "destructive"
     \/ \E c \in 1..Len(recipe) - 1 :
          /\ recipe[c] = PowerCycle /\ recipe[c + 1][2] = "read-only"
          /\ \A i \in 1..Len(recipe) : recipe[i][2] = "destructive" => i < c

\* C1 without the churn rounds.
LEMMA C1Plain ==
  ASSUME NEW aggressive \in BOOLEAN, ~aggressive
  PROVE
  /\ Matches(C1Expected(aggressive), L1Recipe(aggressive)) /\ Verifies(C1Expected(aggressive))
  /\ L1Recipe(aggressive) \in Seq(Ids) /\ Len(L1Recipe(aggressive)) >= 1
  /\ \A i \in 1..Len(L1Recipe(aggressive)) : L1Recipe(aggressive)[i] # "rebuild-bbt-ftl"
<1> DEFINE r == C1Expected(aggressive)
           a == L1Recipe(aggressive)
<1>1. Len(r) = 11
  BY DEF C1Expected, L1Recipe
<1>2. Len(a) = 11
  BY DEF C1Expected, L1Recipe
<1>3. /\ r[1] = R("inventory") /\ r[2] = D("lba-prbs-write") /\ r[3] = S("flush")
      /\ r[4] = PowerCycle /\ r[5] = R("lba-prbs-verify") /\ r[6] = D("lba-zero-write")
      /\ r[7] = S("flush") /\ r[8] = PowerCycle /\ r[9] = R("lba-zero-verify")
      /\ r[10] = R("signature-check") /\ r[11] = R("postcheck-l1")
  BY DEF C1Expected, L1Recipe
<1>4. /\ a[1] = "inventory" /\ a[2] = "lba-prbs-write" /\ a[3] = "flush"
      /\ a[4] = "power-cycle" /\ a[5] = "lba-prbs-verify" /\ a[6] = "lba-zero-write"
      /\ a[7] = "flush" /\ a[8] = "power-cycle" /\ a[9] = "lba-zero-verify"
      /\ a[10] = "signature-check" /\ a[11] = "postcheck-l1"
  BY DEF C1Expected, L1Recipe
<1>11. a = [i \in 1..11 |-> a[i]]
  BY DEF C1Expected, L1Recipe
<1> HIDE DEF r, a
<1>5. \A i \in 1..11 : i = 1 \/ i = 2 \/ i = 3 \/ i = 4 \/ i = 5 \/ i = 6 \/ i = 7 \/ i = 8 \/ i = 9 \/ i = 10 \/ i = 11
  OBVIOUS
<1>6. Matches(r, a)
  BY <1>1, <1>2, <1>3, <1>4, <1>5, KindOf DEF Matches, R, S, D, PowerCycle
<1>7. \A i \in 1..11 : r[i][1] \in Writes <=> r[i][2] = "destructive"
  BY <1>3, <1>5, WriteOf DEF R, S, D, PowerCycle
<1>8. \A i \in 1..11 : r[i][2] = "destructive" => i < 8
  BY <1>3, <1>5 DEF R, S, D, PowerCycle
<1>9. r[8] = PowerCycle /\ r[8 + 1][2] = "read-only"
  BY <1>3 DEF R, S, D
<1>10. Verifies(r)
  BY <1>1, <1>7, <1>8, <1>9, 8 \in 1..11 - 1 DEF Verifies
<1>12. \A i \in 1..11 : a[i] \in Ids
  BY <1>4, <1>5, NamesOf
<1>13. a \in Seq(Ids) /\ Len(a) >= 1
  BY <1>2, <1>11, <1>12, FunctionSeq, 11 \in Nat
<1>14. \A i \in 1..Len(a) : a[i] # "rebuild-bbt-ftl"
  BY <1>2, <1>4, <1>5
<1> QED
  BY <1>6, <1>10, <1>13, <1>14 DEF r, a

\* C1 with two rounds of churn.
LEMMA C1Aggressive ==
  ASSUME NEW aggressive \in BOOLEAN, aggressive
  PROVE
  /\ Matches(C1Expected(aggressive), L1Recipe(aggressive)) /\ Verifies(C1Expected(aggressive))
  /\ L1Recipe(aggressive) \in Seq(Ids) /\ Len(L1Recipe(aggressive)) >= 1
  /\ \A i \in 1..Len(L1Recipe(aggressive)) : L1Recipe(aggressive)[i] # "rebuild-bbt-ftl"
<1> DEFINE r == C1Expected(aggressive)
           a == L1Recipe(aggressive)
<1>1. Len(r) = 15
  BY DEF C1Expected, L1Recipe
<1>2. Len(a) = 15
  BY DEF C1Expected, L1Recipe
<1>3. /\ r[1] = R("inventory") /\ r[2] = D("lba-prbs-write") /\ r[3] = S("flush")
      /\ r[4] = PowerCycle /\ r[5] = R("lba-prbs-verify") /\ r[6] = D("lba-prbs-write-churn-0")
      /\ r[7] = R("lba-prbs-verify-churn-0") /\ r[8] = D("lba-prbs-write-churn-1") /\ r[9] = R("lba-prbs-verify-churn-1")
      /\ r[10] = D("lba-zero-write") /\ r[11] = S("flush") /\ r[12] = PowerCycle
      /\ r[13] = R("lba-zero-verify") /\ r[14] = R("signature-check") /\ r[15] = R("postcheck-l1")
  BY DEF C1Expected, L1Recipe
<1>4. /\ a[1] = "inventory" /\ a[2] = "lba-prbs-write" /\ a[3] = "flush"
      /\ a[4] = "power-cycle" /\ a[5] = "lba-prbs-verify" /\ a[6] = "lba-prbs-write-churn-0"
      /\ a[7] = "lba-prbs-verify-churn-0" /\ a[8] = "lba-prbs-write-churn-1" /\ a[9] = "lba-prbs-verify-churn-1"
      /\ a[10] = "lba-zero-write" /\ a[11] = "flush" /\ a[12] = "power-cycle"
      /\ a[13] = "lba-zero-verify" /\ a[14] = "signature-check" /\ a[15] = "postcheck-l1"
  BY DEF C1Expected, L1Recipe
<1>11. a = [i \in 1..15 |-> a[i]]
  BY DEF C1Expected, L1Recipe
<1> HIDE DEF r, a
<1>5. \A i \in 1..15 : i = 1 \/ i = 2 \/ i = 3 \/ i = 4 \/ i = 5 \/ i = 6 \/ i = 7 \/ i = 8 \/ i = 9 \/ i = 10 \/ i = 11 \/ i = 12 \/ i = 13 \/ i = 14 \/ i = 15
  OBVIOUS
<1>6. Matches(r, a)
  BY <1>1, <1>2, <1>3, <1>4, <1>5, KindOf DEF Matches, R, S, D, PowerCycle
<1>7. \A i \in 1..15 : r[i][1] \in Writes <=> r[i][2] = "destructive"
  BY <1>3, <1>5, WriteOf DEF R, S, D, PowerCycle
<1>8. \A i \in 1..15 : r[i][2] = "destructive" => i < 12
  BY <1>3, <1>5 DEF R, S, D, PowerCycle
<1>9. r[12] = PowerCycle /\ r[12 + 1][2] = "read-only"
  BY <1>3 DEF R, S, D
<1>10. Verifies(r)
  BY <1>1, <1>7, <1>8, <1>9, 12 \in 1..15 - 1 DEF Verifies
<1>12. \A i \in 1..15 : a[i] \in Ids
  BY <1>4, <1>5, NamesOf
<1>13. a \in Seq(Ids) /\ Len(a) >= 1
  BY <1>2, <1>11, <1>12, FunctionSeq, 15 \in Nat
<1>14. \A i \in 1..Len(a) : a[i] # "rebuild-bbt-ftl"
  BY <1>2, <1>4, <1>5
<1> QED
  BY <1>6, <1>10, <1>13, <1>14 DEF r, a

\* The erase of the device.
LEMMA C2Steps ==
  /\ Matches(C2Expected, C2Recipe) /\ Verifies(C2Expected)
  /\ C2Recipe \in Seq(Ids) /\ Len(C2Recipe) >= 1
<1> DEFINE r == C2Expected
           a == C2Recipe
<1>1. Len(r) = 6
  BY DEF C2Expected, C2Recipe, Erase
<1>2. Len(a) = 6
  BY DEF C2Expected, C2Recipe, Erase
<1>3. /\ r[1] = R("inventory") /\ r[2] = D("device-user-area-erase") /\ r[3] = R("blank-verify")
      /\ r[4] = R("signature-check") /\ r[5] = PowerCycle /\ r[6] = R("postcheck-p2")
  BY DEF C2Expected, C2Recipe, Erase
<1>4. /\ a[1] = "inventory" /\ a[2] = "device-user-area-erase" /\ a[3] = "blank-verify"
      /\ a[4] = "signature-check" /\ a[5] = "power-cycle" /\ a[6] = "postcheck-p2"
  BY DEF C2Expected, C2Recipe, Erase
<1>11. a = [i \in 1..6 |-> a[i]]
  BY DEF C2Expected, C2Recipe, Erase
<1> HIDE DEF r, a
<1>5. \A i \in 1..6 : i = 1 \/ i = 2 \/ i = 3 \/ i = 4 \/ i = 5 \/ i = 6
  OBVIOUS
<1>6. Matches(r, a)
  BY <1>1, <1>2, <1>3, <1>4, <1>5, KindOf DEF Matches, R, S, D, PowerCycle
<1>7. \A i \in 1..6 : r[i][1] \in Writes <=> r[i][2] = "destructive"
  BY <1>3, <1>5, WriteOf DEF R, S, D, PowerCycle
<1>8. \A i \in 1..6 : r[i][2] = "destructive" => i < 5
  BY <1>3, <1>5 DEF R, S, D, PowerCycle
<1>9. r[5] = PowerCycle /\ r[5 + 1][2] = "read-only"
  BY <1>3 DEF R, S, D
<1>10. Verifies(r)
  BY <1>1, <1>7, <1>8, <1>9, 5 \in 1..6 - 1 DEF Verifies
<1>12. \A i \in 1..6 : a[i] \in Ids
  BY <1>4, <1>5, NamesOf
<1>13. a \in Seq(Ids) /\ Len(a) >= 1
  BY <1>2, <1>11, <1>12, FunctionSeq, 6 \in Nat
<1> QED
  BY <1>6, <1>10, <1>13 DEF r, a

\* The controller's data area.
LEMMA C3Steps ==
  /\ Matches((ServiceEntry \o << D("erase-old-rbb"), D("qualify-blocks"), D("final-erase") >>
             \o Rebuild("postcheck-c3")), C3Actions)
  /\ Verifies((ServiceEntry \o << D("erase-old-rbb"), D("qualify-blocks"), D("final-erase") >>
             \o Rebuild("postcheck-c3")))
  /\ C3Actions \in Seq(Ids) /\ Len(C3Actions) >= 1
<1> DEFINE r == (ServiceEntry \o << D("erase-old-rbb"), D("qualify-blocks"), D("final-erase") >>
             \o Rebuild("postcheck-c3"))
           a == C3Actions
<1>1. Len(r) = 11
  BY DEF ServiceEntry, Rebuild, C3Actions
<1>2. Len(a) = 11
  BY DEF ServiceEntry, Rebuild, C3Actions
<1>3. /\ r[1] = R("inventory") /\ r[2] = R("capture-old-bbt") /\ r[3] = S("enter-service-mode")
      /\ r[4] = D("erase-old-rbb") /\ r[5] = D("qualify-blocks") /\ r[6] = D("final-erase")
      /\ r[7] = D("rebuild-bbt-ftl") /\ r[8] = S("exit-service-mode") /\ r[9] = PowerCycle
      /\ r[10] = R("re-enumeration") /\ r[11] = R("postcheck-c3")
  BY DEF ServiceEntry, Rebuild, C3Actions
<1>4. /\ a[1] = "inventory" /\ a[2] = "capture-old-bbt" /\ a[3] = "enter-service-mode"
      /\ a[4] = "erase-old-rbb" /\ a[5] = "qualify-blocks" /\ a[6] = "final-erase"
      /\ a[7] = "rebuild-bbt-ftl" /\ a[8] = "exit-service-mode" /\ a[9] = "power-cycle"
      /\ a[10] = "re-enumeration" /\ a[11] = "postcheck-c3"
  BY DEF ServiceEntry, Rebuild, C3Actions
<1>11. a = [i \in 1..11 |-> a[i]]
  BY DEF ServiceEntry, Rebuild, C3Actions
<1> HIDE DEF r, a
<1>5. \A i \in 1..11 : i = 1 \/ i = 2 \/ i = 3 \/ i = 4 \/ i = 5 \/ i = 6 \/ i = 7 \/ i = 8 \/ i = 9 \/ i = 10 \/ i = 11
  OBVIOUS
<1>6. Matches(r, a)
  BY <1>1, <1>2, <1>3, <1>4, <1>5, KindOf DEF Matches, R, S, D, PowerCycle
<1>7. \A i \in 1..11 : r[i][1] \in Writes <=> r[i][2] = "destructive"
  BY <1>3, <1>5, WriteOf DEF R, S, D, PowerCycle
<1>8. \A i \in 1..11 : r[i][2] = "destructive" => i < 9
  BY <1>3, <1>5 DEF R, S, D, PowerCycle
<1>9. r[9] = PowerCycle /\ r[9 + 1][2] = "read-only"
  BY <1>3 DEF R, S, D
<1>10. Verifies(r)
  BY <1>1, <1>7, <1>8, <1>9, 9 \in 1..11 - 1 DEF Verifies
<1>12. \A i \in 1..11 : a[i] \in Ids
  BY <1>4, <1>5, NamesOf
<1>13. a \in Seq(Ids) /\ Len(a) >= 1
  BY <1>2, <1>11, <1>12, FunctionSeq, 11 \in Nat
<1> QED
  BY <1>6, <1>10, <1>13 DEF r, a

\* Every physical block.
LEMMA C4Steps ==
  /\ Matches((ServiceEntry \o << R("enumerate-blocks"), D("erase-old-rbb"), D("erase-data-blocks"),
                              D("qualify-blocks"), D("final-erase"),
                              R("verify-physical-erasure") >> \o Rebuild("postcheck-c4")), C4Actions)
  /\ Verifies((ServiceEntry \o << R("enumerate-blocks"), D("erase-old-rbb"), D("erase-data-blocks"),
                              D("qualify-blocks"), D("final-erase"),
                              R("verify-physical-erasure") >> \o Rebuild("postcheck-c4")))
  /\ C4Actions \in Seq(Ids) /\ Len(C4Actions) >= 1
<1> DEFINE r == (ServiceEntry \o << R("enumerate-blocks"), D("erase-old-rbb"), D("erase-data-blocks"),
                              D("qualify-blocks"), D("final-erase"),
                              R("verify-physical-erasure") >> \o Rebuild("postcheck-c4"))
           a == C4Actions
<1>1. Len(r) = 14
  BY DEF ServiceEntry, Rebuild, C4Actions
<1>2. Len(a) = 14
  BY DEF ServiceEntry, Rebuild, C4Actions
<1>3. /\ r[1] = R("inventory") /\ r[2] = R("capture-old-bbt") /\ r[3] = S("enter-service-mode")
      /\ r[4] = R("enumerate-blocks") /\ r[5] = D("erase-old-rbb") /\ r[6] = D("erase-data-blocks")
      /\ r[7] = D("qualify-blocks") /\ r[8] = D("final-erase") /\ r[9] = R("verify-physical-erasure")
      /\ r[10] = D("rebuild-bbt-ftl") /\ r[11] = S("exit-service-mode") /\ r[12] = PowerCycle
      /\ r[13] = R("re-enumeration") /\ r[14] = R("postcheck-c4")
  BY DEF ServiceEntry, Rebuild, C4Actions
<1>4. /\ a[1] = "inventory" /\ a[2] = "capture-old-bbt" /\ a[3] = "enter-service-mode"
      /\ a[4] = "enumerate-blocks" /\ a[5] = "erase-old-rbb" /\ a[6] = "erase-data-blocks"
      /\ a[7] = "qualify-blocks" /\ a[8] = "final-erase" /\ a[9] = "verify-physical-erasure"
      /\ a[10] = "rebuild-bbt-ftl" /\ a[11] = "exit-service-mode" /\ a[12] = "power-cycle"
      /\ a[13] = "re-enumeration" /\ a[14] = "postcheck-c4"
  BY DEF ServiceEntry, Rebuild, C4Actions
<1>11. a = [i \in 1..14 |-> a[i]]
  BY DEF ServiceEntry, Rebuild, C4Actions
<1> HIDE DEF r, a
<1>5. \A i \in 1..14 : i = 1 \/ i = 2 \/ i = 3 \/ i = 4 \/ i = 5 \/ i = 6 \/ i = 7 \/ i = 8 \/ i = 9 \/ i = 10 \/ i = 11 \/ i = 12 \/ i = 13 \/ i = 14
  OBVIOUS
<1>6. Matches(r, a)
  BY <1>1, <1>2, <1>3, <1>4, <1>5, KindOf DEF Matches, R, S, D, PowerCycle
<1>7. \A i \in 1..14 : r[i][1] \in Writes <=> r[i][2] = "destructive"
  BY <1>3, <1>5, WriteOf DEF R, S, D, PowerCycle
<1>8. \A i \in 1..14 : r[i][2] = "destructive" => i < 12
  BY <1>3, <1>5 DEF R, S, D, PowerCycle
<1>9. r[12] = PowerCycle /\ r[12 + 1][2] = "read-only"
  BY <1>3 DEF R, S, D
<1>10. Verifies(r)
  BY <1>1, <1>7, <1>8, <1>9, 12 \in 1..14 - 1 DEF Verifies
<1>12. \A i \in 1..14 : a[i] \in Ids
  BY <1>4, <1>5, NamesOf
<1>13. a \in Seq(Ids) /\ Len(a) >= 1
  BY <1>2, <1>11, <1>12, FunctionSeq, 14 \in Nat
<1> QED
  BY <1>6, <1>10, <1>13 DEF r, a

\* A salvage only reads.
LEMMA SalvageSteps ==
  /\ Matches((ServiceEntry \o << R("enumerate-blocks"), R("salvage-physical"),
                                   S("exit-service-mode"), R("re-enumeration") >>), SalvageActions)
  /\ Verifies((ServiceEntry \o << R("enumerate-blocks"), R("salvage-physical"),
                                   S("exit-service-mode"), R("re-enumeration") >>))
  /\ SalvageActions \in Seq(Ids) /\ Len(SalvageActions) >= 1
<1> DEFINE r == (ServiceEntry \o << R("enumerate-blocks"), R("salvage-physical"),
                                   S("exit-service-mode"), R("re-enumeration") >>)
           a == SalvageActions
<1>1. Len(r) = 7
  BY DEF ServiceEntry, SalvageActions
<1>2. Len(a) = 7
  BY DEF ServiceEntry, SalvageActions
<1>3. /\ r[1] = R("inventory") /\ r[2] = R("capture-old-bbt") /\ r[3] = S("enter-service-mode")
      /\ r[4] = R("enumerate-blocks") /\ r[5] = R("salvage-physical") /\ r[6] = S("exit-service-mode")
      /\ r[7] = R("re-enumeration")
  BY DEF ServiceEntry, SalvageActions
<1>4. /\ a[1] = "inventory" /\ a[2] = "capture-old-bbt" /\ a[3] = "enter-service-mode"
      /\ a[4] = "enumerate-blocks" /\ a[5] = "salvage-physical" /\ a[6] = "exit-service-mode"
      /\ a[7] = "re-enumeration"
  BY DEF ServiceEntry, SalvageActions
<1>11. a = [i \in 1..7 |-> a[i]]
  BY DEF ServiceEntry, SalvageActions
<1> HIDE DEF r, a
<1>5. \A i \in 1..7 : i = 1 \/ i = 2 \/ i = 3 \/ i = 4 \/ i = 5 \/ i = 6 \/ i = 7
  OBVIOUS
<1>6. Matches(r, a)
  BY <1>1, <1>2, <1>3, <1>4, <1>5, KindOf DEF Matches, R, S, D, PowerCycle
<1>7. \A i \in 1..7 : r[i][1] \in Writes <=> r[i][2] = "destructive"
  BY <1>3, <1>5, WriteOf DEF R, S, D, PowerCycle
<1>8. \A i \in 1..7 : r[i][2] # "destructive"
  BY <1>3, <1>5 DEF R, S
<1>10. Verifies(r)
  BY <1>1, <1>7, <1>8 DEF Verifies
<1>12. \A i \in 1..7 : a[i] \in Ids
  BY <1>4, <1>5, NamesOf
<1>13. a \in Seq(Ids) /\ Len(a) >= 1
  BY <1>2, <1>11, <1>12, FunctionSeq, 7 \in Nat
<1> QED
  BY <1>6, <1>10, <1>13 DEF r, a

LEMMA C1Steps ==
  ASSUME NEW aggressive \in BOOLEAN
  PROVE  /\ Matches(C1Expected(aggressive), L1Recipe(aggressive)) /\ Verifies(C1Expected(aggressive))
         /\ L1Recipe(aggressive) \in Seq(Ids) /\ Len(L1Recipe(aggressive)) >= 1
         /\ \A i \in 1..Len(L1Recipe(aggressive)) : L1Recipe(aggressive)[i] # "rebuild-bbt-ftl"
<1>1. CASE aggressive
  BY <1>1, C1Aggressive
<1>2. CASE ~aggressive
  BY <1>2, C1Plain
<1> QED
  BY <1>1, <1>2

LEMMA ActionsType ==
  ASSUME NEW g \in Grades, NEW aggressive \in BOOLEAN
  PROVE  ActionsFor(g, aggressive) \in Seq(Ids) /\ Len(ActionsFor(g, aggressive)) >= 1
<1>1. CASE g = 0
  BY <1>1, SalvageSteps DEF ActionsFor
<1>2. CASE g = 1
  BY <1>2, C1Steps DEF ActionsFor, Recipe
<1>4. CASE g = 2
  BY <1>4, C2Steps DEF ActionsFor, Recipe
<1>5. CASE g = 3
  BY <1>5, C3Steps DEF ActionsFor
<1>6. CASE g = 4
  BY <1>6, C4Steps DEF ActionsFor
<1> QED
  BY <1>1, <1>2, <1>4, <1>5, <1>6 DEF Grades

\* The recipe that the validator expects of a grade is the one the builder lists.
LEMMA RecipeMatches ==
  ASSUME NEW plan, plan.expected \in Grades, plan.aggressive \in BOOLEAN,
         plan.expected = 0 => plan.level = "salvage"
  PROVE  Matches(ExpectedRecipe(plan), ActionsFor(plan.expected, plan.aggressive))
<1>1. CASE plan.expected = 0
  BY <1>1, SalvageSteps DEF ActionsFor, ExpectedRecipe
<1>2. CASE plan.expected = 1
  BY <1>2, C1Steps DEF ActionsFor, ExpectedRecipe, Recipe
<1>4. CASE plan.expected = 2
  BY <1>4, C2Steps DEF ActionsFor, ExpectedRecipe, Recipe
<1>5. CASE plan.expected = 3
  BY <1>5, C3Steps DEF ActionsFor, ExpectedRecipe
<1>6. CASE plan.expected = 4
  BY <1>6, C4Steps DEF ActionsFor, ExpectedRecipe
<1> QED
  BY <1>1, <1>2, <1>4, <1>5, <1>6 DEF Grades

\* Every expected recipe reads back, after a power cycle, what it destroys.
LEMMA RecipeVerifies ==
  ASSUME NEW plan, plan.expected \in Grades, plan.aggressive \in BOOLEAN
  PROVE  /\ Verifies(ExpectedRecipe(plan))
         /\ plan.expected = 0 =>
              \A i \in 1..Len(ExpectedRecipe(plan)) : ExpectedRecipe(plan)[i][2] # "destructive"
<1>1. CASE plan.expected = 0 /\ plan.level = "salvage"
  <2> DEFINE r == ServiceEntry \o << R("enumerate-blocks"), R("salvage-physical"),
                                     S("exit-service-mode"), R("re-enumeration") >>
  <2>1. ExpectedRecipe(plan) = r
    BY <1>1 DEF ExpectedRecipe
  <2>2. Verifies(r)
    BY SalvageSteps
  <2>3. \A i \in 1..7 : i = 1 \/ i = 2 \/ i = 3 \/ i = 4 \/ i = 5 \/ i = 6 \/ i = 7
    OBVIOUS
  <2>4. Len(r) = 7 /\ r[1] = R("inventory") /\ r[2] = R("capture-old-bbt")
        /\ r[3] = S("enter-service-mode") /\ r[4] = R("enumerate-blocks")
        /\ r[5] = R("salvage-physical") /\ r[6] = S("exit-service-mode")
        /\ r[7] = R("re-enumeration")
    BY DEF ServiceEntry
  <2> HIDE DEF r
  <2>5. \A i \in 1..Len(r) : r[i][2] # "destructive"
    BY <2>3, <2>4 DEF R, S
  <2> QED
    BY <2>1, <2>2, <2>5
<1>2. CASE plan.expected = 0 /\ plan.level # "salvage"
  <2>1. ExpectedRecipe(plan) = <<>>
    BY <1>2 DEF ExpectedRecipe
  <2> QED
    BY <2>1 DEF Verifies
<1>3. CASE plan.expected = 1
  BY <1>3, C1Steps DEF ExpectedRecipe
<1>5. CASE plan.expected = 2
  BY <1>5, C2Steps DEF ExpectedRecipe
<1>6. CASE plan.expected = 3
  BY <1>6, C3Steps DEF ExpectedRecipe
<1>7. CASE plan.expected = 4
  BY <1>7, C4Steps DEF ExpectedRecipe
<1> QED
  BY <1>1, <1>2, <1>3, <1>5, <1>6, <1>7 DEF Grades

-----------------------------------------------------------------------------
(* What the builders build. *)

\* An action as a builder states it is valid.
LEMMA ActionOf ==
  ASSUME NEW id \in Ids, NEW request, request.timeout \in Nat, request.power \in BOOLEAN,
         NEW probe, NEW ratio \in Option(Nat)
  PROVE  /\ Action(id, request, probe, ratio) \in Steps
         /\ Action(id, request, probe, ratio).id = id
         /\ Action(id, request, probe, ratio).kind = Kind(id)
         /\ ActionValid(Action(id, request, probe, ratio))
         /\ id = "rebuild-bbt-ftl" => Action(id, request, probe, ratio).params = {ratio}
<1> DEFINE a == Action(id, request, probe, ratio)
           params == CASE id = "rebuild-bbt-ftl" -> {ratio} [] id = Erase -> {{}} [] OTHER -> {}
           method == IF id = "power-cycle" THEN {PowerMethod(request, probe)} ELSE {}
           timeout == IF request.timeout > 0 THEN {request.timeout} ELSE {}
<1>1. a = [id |-> id, kind |-> Kind(id), retries |-> 0, method |-> method, params |-> params,
           timeout |-> timeout]
  BY DEF Action
<1>2. params \in Option(Option(Nat))
  BY DEF Option, Erase
<1>3. method \in Option(Methods)
  BY DEF Option, PowerMethod, Methods
<1>4. timeout \in Option(Nat) /\ timeout # {0}
  BY DEF Option
<1>5. Kind(id) \in {"destructive", "reversible", "power-cycle", "read-only"}
      /\ (Kind(id) = "power-cycle" <=> id = "power-cycle")
  BY WriteOf DEF Kind, Moves
<1>6. (params # {} => id \in {Erase, "rebuild-bbt-ftl"}) /\ (id = "rebuild-bbt-ftl" => params = {ratio})
  BY DEF Erase
<1>7. method # {} <=> id = "power-cycle"
  OBVIOUS
<1> HIDE DEF params, method, timeout
<1>8. a \in Steps
  BY <1>1, <1>2, <1>3, <1>4, <1>5 DEF Steps
<1>9. ActionValid(a)
  BY <1>1, <1>4, <1>5, <1>6, <1>7 DEF ActionValid
<1> QED
  BY <1>1, <1>6, <1>8, <1>9

BuiltWell(plan, g, minimum, probe, ratio, fallback) ==
  /\ plan \in PlanFields({fallback})
  /\ plan.expected = g /\ plan.minimum = minimum /\ plan.fallback = fallback
  /\ plan.backend = probe.backend /\ plan.profile = probe.profile
  /\ plan.digest = probe.digest /\ plan.device = "ours"
  /\ plan.actions # <<>>
  /\ \A i \in DOMAIN plan.actions :
       /\ ActionValid(plan.actions[i])
       /\ plan.actions[i].id = "rebuild-bbt-ftl" => plan.actions[i].params = {ratio}
  /\ Follows(plan.actions, ExpectedRecipe(plan))
  /\ minimum <= g /\ (probe.profile # {} => probe.digest) => Whole(plan)

LEMMA PlanOfGood ==
  ASSUME NEW g \in Grades, NEW minimum \in Grades, NEW request,
         request.level \in DOMAIN LevelGrades \cup {"salvage"}, request.timeout \in Nat,
         request.power \in BOOLEAN, request.aggressive \in BOOLEAN,
         g = 0 => request.level = "salvage",
         NEW probe, probe.backend \in STRING, probe.profile \in Option(STRING),
         probe.digest \in BOOLEAN, NEW ratio \in Option(Nat), NEW fallback
  PROVE  BuiltWell(PlanOf(g, minimum, request, probe, ratio, fallback),
                   g, minimum, probe, ratio, fallback)
<1>0. PICK plan : plan = PlanOf(g, minimum, request, probe, ratio, fallback)
  OBVIOUS
<1> DEFINE ids == ActionsFor(g, request.aggressive)
           actions == [i \in DOMAIN ids |-> Action(ids[i], request, probe, ratio)]
<1>1. plan = [level |-> request.level, minimum |-> minimum, expected |-> g, actions |-> actions,
              domains |-> Domains, fallback |-> fallback, aggressive |-> request.aggressive,
              backend |-> probe.backend, profile |-> probe.profile, digest |-> probe.digest,
              device |-> "ours", sealed |-> TRUE]
  BY <1>0 DEF PlanOf
<1>2. ids \in Seq(Ids) /\ Len(ids) >= 1 /\ DOMAIN ids = 1..Len(ids) /\ Len(ids) \in Nat
  BY ActionsType
<1>3. \A i \in 1..Len(ids) : ids[i] \in Ids
  BY <1>2
<1>4. \A i \in 1..Len(ids) :
        /\ Action(ids[i], request, probe, ratio) \in Steps
        /\ Action(ids[i], request, probe, ratio).id = ids[i]
        /\ Action(ids[i], request, probe, ratio).kind = Kind(ids[i])
        /\ ActionValid(Action(ids[i], request, probe, ratio))
        /\ ids[i] = "rebuild-bbt-ftl" => Action(ids[i], request, probe, ratio).params = {ratio}
  BY <1>3, ActionOf
<1>5. Matches(ExpectedRecipe(plan), ids)
  BY <1>1, RecipeMatches
<1> HIDE DEF ids
<1>6. actions = [i \in 1..Len(ids) |-> actions[i]]
      /\ \A i \in 1..Len(ids) : actions[i] = Action(ids[i], request, probe, ratio)
  BY <1>2
<1> HIDE DEF actions
<1>7. actions \in Seq(Steps) /\ Len(actions) = Len(ids) /\ DOMAIN actions = 1..Len(ids)
  <2>1. actions \in [1..Len(ids) -> Steps]
    BY <1>4, <1>6
  <2> QED
    BY <2>1, <1>2
<1>8. \A i \in 1..Len(ids) :
        /\ ActionValid(actions[i])
        /\ actions[i].id = "rebuild-bbt-ftl" => actions[i].params = {ratio}
        /\ actions[i].id = ids[i] /\ actions[i].kind = Kind(ids[i])
  BY <1>4, <1>6
<1>9. Follows(actions, ExpectedRecipe(plan))
  BY <1>5, <1>7, <1>8 DEF Follows, Matches
<1>10. actions # <<>>
  BY <1>2, <1>7
<1>11. plan \in PlanFields({fallback})
  BY <1>1, <1>7 DEF PlanFields
<1>12. minimum <= g /\ (probe.profile # {} => probe.digest) => Whole(plan)
  BY <1>1, <1>7, <1>8, <1>9, <1>10 DEF Whole, Grades
<1> QED
  BY <1>0, <1>1, <1>7, <1>8, <1>9, <1>10, <1>11, <1>12 DEF BuiltWell

\* A fallback is a whole C1 plan for the same device.
LEMMA FallbackGood ==
  ASSUME NEW request \in Asking, NEW probe \in Answers
  PROVE  /\ FallbackOf(request, probe) \in Option(PlanFields({{}}))
         /\ \A f \in FallbackOf(request, probe) :
              /\ f.expected = 1 /\ f.device = "ours" /\ f.backend = probe.backend
              /\ \A i \in DOMAIN f.actions : f.actions[i].id # "rebuild-bbt-ftl"
              /\ (probe.profile # {} => probe.digest) => Whole(f)
<1> DEFINE asked == [request EXCEPT !.level = "best"]
           f == PlanOf(1, 1, asked, probe, {}, {})
<1>1. asked.level \in DOMAIN LevelGrades /\ asked.timeout \in Nat /\ asked.power \in BOOLEAN
      /\ asked.aggressive \in BOOLEAN
  BY DEF Asking, LevelGrades
<1>2. 1 \in Grades /\ {} \in Option(Nat)
  BY DEF Grades, Option
<1> HIDE DEF asked
<1>3. /\ f \in PlanFields({{}}) /\ f.expected = 1 /\ f.device = "ours"
      /\ f.backend = probe.backend
      /\ (probe.profile # {} => probe.digest) => Whole(f)
      /\ Follows(f.actions, ExpectedRecipe(f))
  <2>1. asked.level \in DOMAIN LevelGrades \cup {"salvage"}
    BY <1>1
  <2>2. 1 = 0 => asked.level = "salvage"
    OBVIOUS
  <2> HIDE DEF f
  <2>3. BuiltWell(PlanOf(1, 1, asked, probe, {}, {}), 1, 1, probe, {}, {})
    <3>1. probe.backend \in STRING /\ probe.profile \in Option(STRING) /\ probe.digest \in BOOLEAN
      BY DEF Answers
    <3> QED
      BY <2>1, <2>2, <3>1, <1>1, <1>2, PlanOfGood
  <2> QED
    BY <2>3 DEF BuiltWell, f
<1>4. \A i \in DOMAIN f.actions : f.actions[i].id # "rebuild-bbt-ftl"
  <2>1. f.aggressive \in BOOLEAN /\ ExpectedRecipe(f) = C1Expected(f.aggressive)
    BY <1>3 DEF ExpectedRecipe, PlanFields
  <2>2. /\ Matches(C1Expected(f.aggressive), L1Recipe(f.aggressive))
        /\ \A i \in 1..Len(L1Recipe(f.aggressive)) : L1Recipe(f.aggressive)[i] # "rebuild-bbt-ftl"
    BY <2>1, C1Steps
  <2>3. DOMAIN f.actions = 1..Len(f.actions)
    BY <1>3 DEF PlanFields
  <2> QED
    BY <1>3, <2>1, <2>2, <2>3 DEF Follows, Matches
<1>5. FallbackOf(request, probe) \in {{}, {f}}
  BY DEF FallbackOf, f, asked
<1> QED
  BY <1>3, <1>4, <1>5 DEF Option

\* A clamped ratio lies within the bounds, which are the right way round.
LEMMA ClampedOf ==
  ASSUME NEW s \in Policies, \A b \in s.ratio : b[1] <= b[2], NEW ratio \in Option(Nat)
  PROVE  /\ Clamped(s, ratio) \in Option(Nat)
         /\ \A b \in s.ratio, r \in Clamped(s, ratio) : r \in b[1]..b[2]
<1>1. /\ ratio \subseteq Nat /\ \A x, y \in ratio : x = y
      /\ s.ratio \subseteq Nat \X Nat /\ \A x, y \in s.ratio : x = y
  BY DEF Policies, Option
<1>2. CASE s.ratio = {}
  BY <1>1, <1>2 DEF Clamped
<1>3. CASE s.ratio # {} /\ ratio = {}
  BY <1>1, <1>3 DEF Clamped, Option
<1>4. CASE s.ratio # {} /\ ratio # {}
  <2>1. PICK b \in s.ratio, r \in ratio : s.ratio = {b} /\ ratio = {r}
    BY <1>1, <1>4
  <2>2. b[1] \in Nat /\ b[2] \in Nat /\ r \in Nat /\ b[1] <= b[2]
    BY <1>1
  <2>3. Min({b[2], r}) \in Nat /\ Min({b[2], r}) <= b[2]
    BY <2>2, MinPair
  <2>4. Max({b[1], Min({b[2], r})}) \in b[1]..b[2]
    <3>1. PICK n \in Nat : n = Min({b[2], r})
      BY <2>3
    <3>2. Max({b[1], n}) = IF b[1] >= n THEN b[1] ELSE n
      BY <2>2, MaxPair
    <3>3. (IF b[1] >= n THEN b[1] ELSE n) \in b[1]..b[2]
      BY <2>2, <2>3, <3>1
    <3> QED
      BY <3>1, <3>2, <3>3
  <2>5. Clamped(s, ratio) = {Max({b[1], Min({b[2], r})})}
    BY <1>4, <2>1 DEF Clamped
  <2>6. Max({b[1], Min({b[2], r})}) \in Nat
    BY <2>2, <2>4
  <2> QED
    BY <2>1, <2>4, <2>5, <2>6 DEF Option
<1> QED
  BY <1>2, <1>3, <1>4

\* What is built reaches the minimum and more.
LEMMA BuiltGood ==
  ASSUME NEW request \in Asking, NEW level \in DOMAIN LevelGrades, NEW minimum \in Option(Grades),
         NEW probe \in Answers, NEW ratio \in Option(Nat),
         NEW p \in Built(request, level, minimum, probe, ratio)
  PROVE  \E g \in 1..4, m \in Grades :
           /\ g >= m /\ \A x \in minimum : m >= x
           /\ BuiltWell(p, g, m, probe, ratio, IF g = 2 THEN FallbackOf(request, probe) ELSE {})
<1>1. PICK g \in Target(level, probe) :
        /\ p = PlanOf(g, IF minimum = {} THEN g ELSE Max(minimum), request, probe, ratio,
                      IF g = 2 THEN FallbackOf(request, probe) ELSE {})
        /\ MinimumHeld(p)
  BY DEF Built
<1>2. g \in 1..4 /\ g \in Grades /\ g # 0
  BY TargetOf DEF Grades
<1>3. PICK m : m = IF minimum = {} THEN g ELSE Max(minimum)
  OBVIOUS
<1>4. m \in Grades /\ \A x \in minimum : m >= x
  <2>1. CASE minimum = {}
    BY <1>2, <1>3, <2>1
  <2>2. CASE minimum # {}
    <3>1. minimum \in SUBSET Grades
      BY DEF Option
    <3>2. Max(minimum) \in minimum /\ \A x \in minimum : Max(minimum) >= x
      BY <2>2, <3>1, MaxGrade
    <3> QED
      BY <1>3, <2>2, <3>1, <3>2
  <2> QED
    BY <2>1, <2>2
<1>5. PICK fallback : fallback = IF g = 2 THEN FallbackOf(request, probe) ELSE {}
  OBVIOUS
<1>6. /\ request.level \in DOMAIN LevelGrades \cup {"salvage"} /\ request.timeout \in Nat
      /\ request.power \in BOOLEAN /\ request.aggressive \in BOOLEAN
  BY DEF Asking
<1>7. g = 0 => request.level = "salvage"
  BY <1>2
<1>8. BuiltWell(p, g, m, probe, ratio, fallback)
  <2>1. BuiltWell(PlanOf(g, m, request, probe, ratio, fallback), g, m, probe, ratio, fallback)
    <3>1. probe.backend \in STRING /\ probe.profile \in Option(STRING) /\ probe.digest \in BOOLEAN
      BY DEF Answers
    <3> QED
      BY <3>1, <1>2, <1>4, <1>6, <1>7, PlanOfGood
  <2> QED
    BY <1>1, <1>3, <1>5, <2>1
<1>9. g >= m
  BY <1>1, <1>8 DEF MinimumHeld, BuiltWell
<1> QED
  BY <1>2, <1>4, <1>5, <1>8, <1>9

\* What every plan is that plan or run builds for min under policy s.
Promised(p, s, min) ==
  /\ p \in PlanSet
  /\ p.expected >= p.minimum /\ (\A f \in s.floor \cup min : p.minimum >= f)
  /\ Allows(s, p.backend) /\ p.actions # <<>>
  /\ \A i \in DOMAIN p.actions :
       /\ ActionValid(p.actions[i])
       /\ p.actions[i].id = "rebuild-bbt-ftl" =>
            \E ratio \in Option(Nat) :
              /\ p.actions[i].params = {ratio}
              /\ \A b \in s.ratio, r \in ratio : r \in b[1]..b[2]
  /\ Follows(p.actions, ExpectedRecipe(p))
  /\ (p.profile # {} => p.digest) => Whole(p) /\ \A f \in p.fallback : Whole(f)
  /\ \A f \in p.fallback :
       Replaces(f, p) /\ \A i \in DOMAIN f.actions : f.actions[i].id # "rebuild-bbt-ftl"

LEMMA PickedGood ==
  ASSUME NEW s, NEW unit \in [usb : BOOLEAN, standard : Answers, controller : SUBSET Answers],
         NEW forced, NEW p \in Picked(s, unit, forced)
  PROVE  p \in Answers /\ Allows(s, p.backend)
  BY DEF Picked

\* A probe that is used comes from a backend the policy allows.
LEMMA ProbedGood ==
  ASSUME NEW s, NEW unit \in Units, NEW request, NEW p \in Probed(s, unit, request)
  PROVE  p \in Answers /\ Allows(s, p.backend)
<1>1. unit \in [usb : BOOLEAN, standard : Answers, controller : SUBSET Answers]
  BY PlanningAssumption
<1>2. \E forced : p \in Picked(s, unit, forced)
  BY DEF Probed
<1> QED
  BY <1>1, <1>2, PickedGood

\* Whatever is planned is promised.
LEMMA PlannedGood ==
  ASSUME NEW s \in Policies, \A b \in s.ratio : b[1] <= b[2], NEW unit \in Units,
         NEW request \in Asking, NEW p \in Planned(s, unit, request)
  PROVE  Promised(p, s, request.min)
<1>1. PICK probe \in Probed(s, unit, request) :
        p \in Built(request, EffectiveLevel(request.level, s.floor),
                    Minimum(request.min, s.floor), probe, Clamped(s, probe.ratio))
  BY DEF Planned
<1>2. probe \in Answers /\ Allows(s, probe.backend)
  BY ProbedGood
<1>3. request.level \in DOMAIN LevelGrades /\ request.min \in Option(Grades)
      /\ s.floor \in Option(Grades) /\ probe.ratio \in Option(Nat)
  BY <1>2 DEF Asking, Policies, Answers
<1>4. EffectiveLevel(request.level, s.floor) \in DOMAIN LevelGrades
  BY <1>3, EffectiveOf
<1>5. /\ Minimum(request.min, s.floor) \in Option(Grades)
      /\ request.min \cup s.floor # {} => Minimum(request.min, s.floor) # {}
      /\ \A m \in Minimum(request.min, s.floor), g \in request.min \cup s.floor : m >= g
  BY <1>3, MinimumOf
<1>6. PICK ratio : ratio = Clamped(s, probe.ratio)
  OBVIOUS
<1>7. ratio \in Option(Nat) /\ \A b \in s.ratio, r \in ratio : r \in b[1]..b[2]
  BY <1>3, <1>6, ClampedOf
<1>8. PICK g \in 1..4, m \in Grades :
        /\ g >= m /\ \A x \in Minimum(request.min, s.floor) : m >= x
        /\ BuiltWell(p, g, m, probe, ratio, IF g = 2 THEN FallbackOf(request, probe) ELSE {})
  BY <1>1, <1>2, <1>4, <1>5, <1>6, <1>7, BuiltGood
<1>9. PICK fallback : fallback = IF g = 2 THEN FallbackOf(request, probe) ELSE {}
  OBVIOUS
<1>10. BuiltWell(p, g, m, probe, ratio, fallback)
  BY <1>8, <1>9
<1>11. /\ fallback \in Option(PlanFields({{}}))
       /\ \A f \in fallback :
            /\ g = 2 /\ f.expected = 1 /\ f.device = "ours" /\ f.backend = probe.backend
            /\ \A i \in DOMAIN f.actions : f.actions[i].id # "rebuild-bbt-ftl"
            /\ (probe.profile # {} => probe.digest) => Whole(f)
  <2>1. CASE g = 2
    BY <1>2, <1>9, <2>1, FallbackGood
  <2>2. CASE g # 2
    BY <1>9, <2>2 DEF Option
  <2> QED
    BY <2>1, <2>2
<1>12. p \in PlanSet
  <2>1. p \in PlanFields({fallback})
    BY <1>10 DEF BuiltWell
  <2> QED
    BY <1>11, <2>1 DEF PlanSet, PlanFields
<1>13. p.expected = g /\ p.minimum = m /\ g >= m
       /\ \A f \in s.floor \cup request.min : p.minimum >= f
  <2>1. p.expected = g /\ p.minimum = m
    BY <1>10 DEF BuiltWell
  <2>2. \A f \in s.floor \cup request.min : m >= f
    <3> TAKE f \in s.floor \cup request.min
    <3>1. PICK x \in Minimum(request.min, s.floor) : TRUE
      BY <1>5
    <3>2. x \in Grades /\ f \in Grades /\ x >= f /\ m >= x
      BY <1>3, <1>5, <1>8 DEF Option
    <3> QED
      BY <3>2 DEF Grades
  <2> QED
    BY <2>1, <2>2, <1>8
<1>14. \A f \in p.fallback :
         Replaces(f, p) /\ \A i \in DOMAIN f.actions : f.actions[i].id # "rebuild-bbt-ftl"
  BY <1>10, <1>11, <1>13 DEF BuiltWell, Replaces
<1>15. (p.profile # {} => p.digest) => Whole(p) /\ \A f \in p.fallback : Whole(f)
  BY <1>8, <1>10, <1>11 DEF BuiltWell
<1>16. \A i \in DOMAIN p.actions :
       /\ ActionValid(p.actions[i])
       /\ p.actions[i].id = "rebuild-bbt-ftl" => p.actions[i].params = {ratio}
  BY <1>10 DEF BuiltWell
<1>17. p.backend = probe.backend /\ p.actions # <<>> /\ Follows(p.actions, ExpectedRecipe(p))
  BY <1>10 DEF BuiltWell
<1> QED
  BY <1>2, <1>7, <1>12, <1>13, <1>14, <1>15, <1>16, <1>17 DEF Promised

LEMMA FallbackTyped ==
  ASSUME NEW p \in PlanSet
  PROVE  /\ p \in PlanFields(Option(PlanFields({{}})))
         /\ \A f \in p.fallback : f \in PlanFields({{}})
  BY DEF PlanSet, PlanFields, Option

\* A salvage plan is one whose recipe only reads.
LEMMA SalvageGood ==
  ASSUME NEW unit \in Units, NEW request \in Asking, NEW s \in Policies,
         \A b \in s.ratio : b[1] <= b[2], NEW p \in SalvagePlanned(s, unit, request)
  PROVE  /\ p \in PlanSet /\ p.fallback = {}
         /\ \A i \in DOMAIN p.actions : ActionValid(p.actions[i])
         /\ Follows(p.actions, ExpectedRecipe(p))
<1> DEFINE asked == [request EXCEPT !.level = "controller", !.min = {3}, !.noFallback = TRUE,
                                    !.aggressive = FALSE, !.power = FALSE]
           free == [s EXCEPT !.floor = {}]
           salvage == [asked EXCEPT !.level = "salvage"]
<1>1. PICK base \in Planned(free, unit, asked) : p = PlanOf(0, 0, salvage, base, {}, {})
  BY DEF SalvagePlanned
<1>2. asked \in Asking
  <2>1. {3} \in Option(Grades) /\ "controller" \in DOMAIN LevelGrades
    BY DEF Option, Grades, LevelGrades
  <2> QED
    BY <2>1 DEF Asking
<1>3. free \in Policies /\ \A b \in free.ratio : b[1] <= b[2]
  BY DEF Policies, Option
<1>4. salvage.level = "salvage" /\ salvage.timeout \in Nat /\ salvage.power \in BOOLEAN
      /\ salvage.aggressive \in BOOLEAN
  BY <1>2 DEF Asking
<1> HIDE DEF asked, free, salvage
<1>5. Promised(base, free, asked.min)
  BY <1>2, <1>3, PlannedGood
<1>6. base.backend \in STRING /\ base.profile \in Option(STRING) /\ base.digest \in BOOLEAN
  BY <1>5, FallbackTyped DEF Promised, PlanFields
<1>7. 0 \in Grades /\ {} \in Option(Nat)
  BY DEF Grades, Option
<1>8. BuiltWell(p, 0, 0, base, {}, {})
  BY <1>1, <1>4, <1>6, <1>7, PlanOfGood
<1>9. p \in PlanFields({{}}) /\ p.fallback = {}
  BY <1>8 DEF BuiltWell
<1>10. p \in PlanSet
  BY <1>9 DEF PlanSet, PlanFields, Option
<1> QED
  BY <1>8, <1>9, <1>10 DEF BuiltWell

-----------------------------------------------------------------------------
(* What is valid is sound, and what is enforced obeys. *)

\* A plan that follows the recipe of its grade is sound.
LEMMA FollowsSound ==
  ASSUME NEW fallbacks, NEW p \in PlanFields(fallbacks), Follows(p.actions, ExpectedRecipe(p)),
         \A i \in DOMAIN p.actions : ActionValid(p.actions[i])
  PROVE  Sound(p)
<1> DEFINE r == ExpectedRecipe(p)
<1>1. /\ p.actions \in Seq(Steps) /\ p.expected \in Grades /\ p.aggressive \in BOOLEAN
      /\ DOMAIN p.actions = 1..Len(p.actions) /\ Len(p.actions) \in Nat
  BY DEF PlanFields
<1>2. /\ Verifies(r)
      /\ p.expected = 0 => \A i \in 1..Len(r) : r[i][2] # "destructive"
  BY <1>1, RecipeVerifies
<1> HIDE DEF r
<1>3. /\ Len(p.actions) = Len(r)
      /\ \A i \in 1..Len(r) : r[i][1] = p.actions[i].id /\ r[i][2] = p.actions[i].kind
  BY <1>1 DEF Follows, r
<1> SUFFICES ASSUME NEW i \in 1..Len(r)
             PROVE  /\ p.actions[i].id \in Writes <=> p.actions[i].kind = "destructive"
                    /\ p.actions[i].kind = "destructive" =>
                         /\ p.level # "salvage" \/ p.expected > 0
                         /\ \E j, k \in 1..Len(r) :
                              /\ i < j /\ j < k
                              /\ p.actions[j].id = "power-cycle" /\ p.actions[j].method # {}
                              /\ p.actions[k].kind = "read-only"
  BY <1>1, <1>3 DEF Sound
<1>4. p.actions[i].id \in Writes <=> p.actions[i].kind = "destructive"
  BY <1>2, <1>3 DEF Verifies
<1>5. ASSUME p.actions[i].kind = "destructive"
      PROVE  /\ p.level # "salvage" \/ p.expected > 0
             /\ \E j, k \in 1..Len(r) :
                  /\ i < j /\ j < k
                  /\ p.actions[j].id = "power-cycle" /\ p.actions[j].method # {}
                  /\ p.actions[k].kind = "read-only"
  <2>1. p.expected > 0
    BY <1>1, <1>2, <1>3, <1>5 DEF Grades
  <2>2. PICK c \in 1..Len(r) - 1 :
          /\ r[c] = PowerCycle /\ r[c + 1][2] = "read-only"
          /\ \A h \in 1..Len(r) : r[h][2] = "destructive" => h < c
    BY <1>2, <1>3, <1>5 DEF Verifies
  <2>3. c \in 1..Len(r) /\ c + 1 \in 1..Len(r) /\ c < c + 1 /\ i < c
    BY <1>1, <1>3, <1>5, <2>2
  <2>4. p.actions[c].id = "power-cycle" /\ p.actions[c].kind = "power-cycle"
    BY <1>3, <2>2, <2>3 DEF PowerCycle
  <2>5. p.actions[c].method # {}
    BY <1>1, <1>3, <2>3, <2>4 DEF ActionValid
  <2>6. p.actions[c + 1].kind = "read-only"
    BY <1>3, <2>2, <2>3
  <2> QED
    BY <2>1, <2>3, <2>4, <2>5, <2>6
<1> QED
  BY <1>4, <1>5

\* A plan, and what it may fall back to, is sound.
SoundPlan(p) == Sound(p) /\ \A f \in p.fallback :
                  Sound(f) /\ f.expected < p.expected /\ f.device = p.device

\* So is a plan that is valid, with its fallback.
LEMMA ValidSound ==
  ASSUME NEW p \in PlanSet, Valid(p)
  PROVE  SoundPlan(p)
<1>1. Sound(p)
  BY FallbackTyped, FollowsSound DEF Valid, Whole
<1>2. ASSUME NEW f \in p.fallback
      PROVE  Sound(f) /\ f.expected < p.expected /\ f.device = p.device
  <2>1. f \in PlanFields({{}})
    BY FallbackTyped
  <2>2. Sound(f)
    BY <2>1, FollowsSound DEF Valid, Whole
  <2> QED
    BY <2>2 DEF Valid, Replaces
<1> QED
  BY <1>1, <1>2 DEF SoundPlan

\* What a plan that is run owes to the policy s.
Obeys(p, s) ==
  /\ \A ids \in s.allowed : p.backend \in ids
  /\ p.expected >= p.minimum /\ p.minimum >= Highest(s.floor)
  /\ \A q \in {p} \cup p.fallback, b \in s.ratio : \A i \in DOMAIN q.actions :
       q.actions[i].id = "rebuild-bbt-ftl" =>
           UNION q.actions[i].params # {}
           /\ UNION q.actions[i].params \subseteq b[1]..b[2]

LEMMA HighestBelow ==
  ASSUME NEW grades \in Option(Grades), NEW g \in Grades, \A f \in grades : g >= f
  PROVE  g >= Highest(grades)
<1>1. grades \cup {0} \in SUBSET Grades /\ grades \cup {0} # {}
  BY DEF Option, Grades
<1>2. Highest(grades) \in grades \cup {0}
  BY <1>1, MaxGrade DEF Highest
<1> QED
  BY <1>2 DEF Grades

\* A plan that the policy lets pass obeys it.
LEMMA EnforcedObeys ==
  ASSUME NEW p \in PlanSet, NEW s \in Policies, p.expected >= p.minimum, Enforced(s, p)
  PROVE  Obeys(p, s)
<1>1. /\ \A ids \in s.allowed : p.backend \in ids
      /\ \A f \in s.floor : p.minimum >= f
  BY DEF Enforced, Allows, FloorHeld
<1>2. p.minimum \in Grades /\ s.floor \in Option(Grades)
  BY FallbackTyped DEF PlanFields, Policies
<1>3. p.minimum >= Highest(s.floor)
  BY <1>1, <1>2, HighestBelow
<1>4. ASSUME NEW q \in {p} \cup p.fallback, NEW b \in s.ratio, NEW i \in DOMAIN q.actions,
             q.actions[i].id = "rebuild-bbt-ftl"
      PROVE  UNION q.actions[i].params # {} /\ UNION q.actions[i].params \subseteq b[1]..b[2]
  <2>1. q.actions \in Seq(Steps)
    BY FallbackTyped DEF PlanFields
  <2>2. q.actions[i] \in Steps
    BY <2>1
  <2>3. q.actions[i].params \in Option(Option(Nat))
    BY <2>2 DEF Steps
  <2>4. PICK ratio \in q.actions[i].params : \E r \in ratio : r \in b[1]..b[2]
    BY <1>4 DEF Enforced, RatioHeld
  <2>5. q.actions[i].params = {ratio} /\ \A x, y \in ratio : x = y
    BY <2>3, <2>4 DEF Option
  <2> QED
    BY <2>4, <2>5
<1> QED
  BY <1>1, <1>3, <1>4 DEF Obeys

\* A plan that run builds is sound without having been validated.
LEMMA PromisedSound ==
  ASSUME NEW p, NEW s, NEW min, Promised(p, s, min), \A f \in p.fallback : Whole(f)
  PROVE  SoundPlan(p)
<1>1. p \in PlanSet /\ Sound(p)
  BY FallbackTyped, FollowsSound DEF Promised
<1>2. ASSUME NEW f \in p.fallback
      PROVE  Sound(f) /\ f.expected < p.expected /\ f.device = p.device
  <2>1. f \in PlanFields({{}})
    BY <1>1, FallbackTyped
  <2>2. Sound(f)
    BY <2>1, FollowsSound DEF Whole
  <2> QED
    BY <2>2 DEF Promised, Replaces
<1> QED
  BY <1>1, <1>2 DEF SoundPlan

\* Where the profile has its digest, and the rebuild a ratio if one is bounded.
Complete(p, s) ==
  /\ p.profile # {} => p.digest
  /\ s.ratio # {} =>
       \A i \in DOMAIN p.actions :
           p.actions[i].id = "rebuild-bbt-ftl" => {} \notin p.actions[i].params

\* A complete plan is valid and passes its policy.
LEMMA PromisedRuns ==
  ASSUME NEW p, NEW s \in Policies, NEW min, Promised(p, s, min), Complete(p, s)
  PROVE  Valid(p) /\ Enforced(s, p)
<1>1. Valid(p)
  BY DEF Promised, Complete, Valid
<1>2. Allows(s, p.backend)
  BY DEF Promised
<1>3. FloorHeld(s, p)
  <2>1. p.expected \in Nat /\ p.minimum \in Nat /\ \A f \in s.floor : f \in Nat
    BY FallbackTyped DEF Promised, PlanFields, Policies, Option, Grades
  <2> QED
    BY <2>1 DEF Promised, FloorHeld
<1>4. RatioHeld(s, p)
  <2> SUFFICES ASSUME NEW b \in s.ratio, NEW i \in DOMAIN p.actions,
                      p.actions[i].id = "rebuild-bbt-ftl"
               PROVE  \E ratio \in p.actions[i].params : \E r \in ratio : r \in b[1]..b[2]
    BY DEF RatioHeld
  <2>1. PICK ratio \in Option(Nat) :
          p.actions[i].params = {ratio} /\ \A c \in s.ratio, r \in ratio : r \in c[1]..c[2]
    BY DEF Promised
  <2>2. ratio # {}
    BY <2>1 DEF Complete
  <2> QED
    BY <2>1, <2>2
<1>5. \A f \in p.fallback : RatioHeld(s, f)
  BY DEF Promised, RatioHeld
<1> QED
  BY <1>1, <1>2, <1>3, <1>4, <1>5 DEF Enforced

-----------------------------------------------------------------------------
(* Steps. *)

\* An edited plan is still a plan.
LEMMA AlteredTyped ==
  ASSUME NEW p \in PlanSet, p.actions # <<>>, NEW q \in Altered(p)
  PROVE  q \in PlanSet
<1>1. /\ p \in PlanFields(Option(PlanFields({{}}))) /\ p.fallback \in Option(PlanFields({{}}))
      /\ p.actions \in Seq(Steps)
  BY DEF PlanSet, PlanFields
<1>2. ASSUME NEW a \in Seq(Steps)
      PROVE  [p EXCEPT !.actions = a] \in PlanSet
  BY <1>1 DEF PlanSet, PlanFields
<1>3. ASSUME NEW f \in Option(PlanFields({{}}))
      PROVE  [p EXCEPT !.fallback = f] \in PlanSet
  BY <1>1 DEF PlanSet, PlanFields
<1>4. CASE q = [p EXCEPT !.sealed = FALSE]
  BY <1>1, <1>4 DEF PlanSet, PlanFields
<1>5. CASE \E g \in Grades : q = [p EXCEPT !.minimum = g] \/ q = [p EXCEPT !.expected = g]
  BY <1>1, <1>5 DEF PlanSet, PlanFields
<1>6. CASE q = [p EXCEPT !.actions = Tail(@)]
  <2>1. Tail(p.actions) \in Seq(Steps)
    BY <1>1
  <2> QED
    BY <1>2, <1>6, <2>1
<1>7. CASE \/ q = [p EXCEPT !.domains = @ \ {"D0"}] \/ q = [p EXCEPT !.aggressive = ~@]
           \/ q = [p EXCEPT !.level = "salvage"]
  <2>1. CASE q = [p EXCEPT !.domains = @ \ {"D0"}]
    BY <1>1, <2>1 DEF PlanSet, PlanFields
  <2>2. CASE q = [p EXCEPT !.aggressive = ~@]
    BY <1>1, <2>2 DEF PlanSet, PlanFields
  <2>3. CASE q = [p EXCEPT !.level = "salvage"]
    BY <1>1, <2>3 DEF PlanSet, PlanFields
  <2> QED
    BY <1>7, <2>1, <2>2, <2>3
<1>8. ASSUME NEW i \in Touched(p)
      PROVE  /\ [p EXCEPT !.actions[i].kind = "read-only"] \in PlanSet
             /\ [p EXCEPT !.actions[i].timeout = {0}] \in PlanSet
             /\ [p EXCEPT !.actions[i].method = {}] \in PlanSet
             /\ [p EXCEPT !.actions[i].params = {{}}] \in PlanSet
             /\ [p EXCEPT !.actions[i].retries = 1] \in PlanSet
  <2>1. i \in DOMAIN p.actions /\ p.actions[i] \in Steps
    BY <1>1, <1>8 DEF Touched
  <2>2. {} \in Option(Methods)
    BY DEF Option
  <2>3. {0} \in Option(Nat)
    BY DEF Option
  <2>4. {{}} \in Option(Option(Nat))
    BY DEF Option
  <2>5. ASSUME NEW step \in Steps
        PROVE  [p EXCEPT !.actions = [@ EXCEPT ![i] = step]] \in PlanSet
    <3>1. p.actions = [j \in 1..Len(p.actions) |-> p.actions[j]] /\ Len(p.actions) \in Nat
          /\ \A j \in 1..Len(p.actions) : p.actions[j] \in Steps
      BY <1>1
    <3>2. [p.actions EXCEPT ![i] = step]
            = [j \in 1..Len(p.actions) |-> IF j = i THEN step ELSE p.actions[j]]
      BY <3>1
    <3>3. [j \in 1..Len(p.actions) |-> IF j = i THEN step ELSE p.actions[j]] \in Seq(Steps)
      BY <3>1
    <3>4. [p.actions EXCEPT ![i] = step] \in Seq(Steps)
      BY <3>2, <3>3
    <3> QED
      BY <1>2, <3>4
  <2>6. [p EXCEPT !.actions[i].kind = "read-only"] \in PlanSet
    <3>1. [p.actions[i] EXCEPT !.kind = "read-only"] \in Steps
      BY <2>1 DEF Steps
    <3> QED
      BY <2>5, <3>1
  <2>7. [p EXCEPT !.actions[i].timeout = {0}] \in PlanSet
    <3>1. [p.actions[i] EXCEPT !.timeout = {0}] \in Steps
      BY <2>1, <2>3 DEF Steps
    <3> QED
      BY <2>5, <3>1
  <2>8. [p EXCEPT !.actions[i].method = {}] \in PlanSet
    <3>1. [p.actions[i] EXCEPT !.method = {}] \in Steps
      BY <2>1, <2>2 DEF Steps
    <3> QED
      BY <2>5, <3>1
  <2>9. [p EXCEPT !.actions[i].params = {{}}] \in PlanSet
    <3>1. [p.actions[i] EXCEPT !.params = {{}}] \in Steps
      BY <2>1, <2>4 DEF Steps
    <3> QED
      BY <2>5, <3>1
  <2>10. [p EXCEPT !.actions[i].retries = 1] \in PlanSet
    <3>1. [p.actions[i] EXCEPT !.retries = 1] \in Steps
      BY <2>1 DEF Steps
    <3> QED
      BY <2>5, <3>1
  <2> QED
    BY <2>6, <2>7, <2>8, <2>9, <2>10
<1>9. CASE q = [p EXCEPT !.fallback = {[p EXCEPT !.fallback = {}]}]
  <2>1. [p EXCEPT !.fallback = {}] \in PlanFields({{}})
    BY <1>1 DEF PlanFields
  <2>2. {[p EXCEPT !.fallback = {}]} \in Option(PlanFields({{}}))
    BY <2>1 DEF Option
  <2> QED
    BY <1>3, <1>9, <2>2
<1>10. CASE q = [p EXCEPT !.fallback = {[f EXCEPT !.device = "other"] : f \in @}]
  <2>1. ASSUME NEW f \in p.fallback
        PROVE  [f EXCEPT !.device = "other"] \in PlanFields({{}})
    <3>1. f \in PlanFields({{}})
      BY FallbackTyped
    <3> QED
      BY <3>1 DEF PlanFields
  <2>2. {[f EXCEPT !.device = "other"] : f \in p.fallback} \in Option(PlanFields({{}}))
    BY <1>1, <2>1 DEF Option
  <2> QED
    BY <1>3, <1>10, <2>2
<1>11. CASE q = [p EXCEPT !.fallback = {[f EXCEPT !.minimum = 0] : f \in @}]
  <2>1. ASSUME NEW f \in p.fallback
        PROVE  [f EXCEPT !.minimum = 0] \in PlanFields({{}})
    <3>0. 0 \in Grades
      BY DEF Grades
    <3>1. f \in PlanFields({{}})
      BY FallbackTyped
    <3> QED
      BY <3>0, <3>1 DEF PlanFields
  <2>2. {[f EXCEPT !.minimum = 0] : f \in p.fallback} \in Option(PlanFields({{}}))
    BY <1>1, <2>1 DEF Option
  <2> QED
    BY <1>3, <1>11, <2>2
<1>12. CASE \E i \in Touched(p) :
             q \in {[p EXCEPT !.actions[i].kind = "read-only"], [p EXCEPT !.actions[i].timeout = {0}],
                    [p EXCEPT !.actions[i].method = {}], [p EXCEPT !.actions[i].params = {{}}],
                    [p EXCEPT !.actions[i].retries = 1]}
  BY <1>8, <1>12
<1> DEFINE fields == {[p EXCEPT !.sealed = FALSE], [p EXCEPT !.actions = Tail(@)],
                     [p EXCEPT !.domains = @ \ {"D0"}], [p EXCEPT !.aggressive = ~@],
                     [p EXCEPT !.level = "salvage"]}
           minima == {[p EXCEPT !.minimum = g] : g \in Grades}
           grades == {[p EXCEPT !.expected = g] : g \in Grades}
           falls == {[p EXCEPT !.fallback = {[p EXCEPT !.fallback = {}]}],
                     [p EXCEPT !.fallback = {[f EXCEPT !.device = "other"] : f \in @}],
                     [p EXCEPT !.fallback = {[f EXCEPT !.minimum = 0] : f \in @}]}
           steps == UNION {{[p EXCEPT !.actions[i].kind = "read-only"],
                            [p EXCEPT !.actions[i].timeout = {0}],
                            [p EXCEPT !.actions[i].method = {}], [p EXCEPT !.actions[i].params = {{}}],
                            [p EXCEPT !.actions[i].retries = 1]} : i \in Touched(p)}
<1>13. Altered(p) = fields \cup minima \cup grades \cup falls \cup steps
  BY DEF Altered
<1>14. q \in steps => q \in PlanSet
  BY <1>12, Zenon
<1>15. q \in minima \cup grades => q \in PlanSet
  BY <1>5, Zenon
<1>16. q \in fields => q \in PlanSet
  BY <1>4, <1>6, <1>7, Zenon
<1>17. q \in falls => q \in PlanSet
  BY <1>9, <1>10, <1>11, Zenon
<1> HIDE DEF fields, minima, grades, falls, steps
<1> QED
  BY <1>13, <1>14, <1>15, <1>16, <1>17

LEMMA OptionOf ==
  ASSUME NEW elems, NEW o \in Option(elems), NEW x \in o
  PROVE  x \in elems /\ o = {x}
<1> QED
  BY DEF Option

LEMMA FileTyped ==
  ASSUME NEW p \in PlanSet, NEW s \in Sites, NEW e \in BOOLEAN
  PROVE  {[plan |-> p, under |-> s, edited |-> e]}
           \in Option([plan : PlanSet, under : Sites, edited : BOOLEAN])
<1>1. [plan |-> p, under |-> s, edited |-> e] \in [plan : PlanSet, under : Sites, edited : BOOLEAN]
  OBVIOUS
<1> QED
  BY <1>1 DEF Option

\* What a file holds that plan wrote.
Kept(f) == ~f.edited => \E min \in Option(Grades) : Promised(f.plan, f.under, min)

PlanInv ==
  /\ PlanTypeOK
  /\ \A f \in planFile : Kept(f)
  /\ run.how = "none" => run.plan = {}
  /\ \A p \in run.plan :
       /\ run.how # "salvage" => Obeys(p, run.under)
       /\ run.how = "direct" =>
            p.expected >= Highest(run.min)
            /\ (~run.resumed => p.expected >= Highest(run.under.floor))
       /\ SoundPlan(p)

LEMMA PolicyTyped ==
  ASSUME NEW s \in Sites
  PROVE  s \in Policies /\ (\A b \in s.ratio : b[1] <= b[2]) /\ s.floor \in Option(Grades)
  BY PlanningAssumption DEF Policies

LEMMA RequestTyped ==
  ASSUME NEW r \in Requests
  PROVE  /\ r \in Asking /\ r.min \in Option(Grades)
         /\ [r EXCEPT !.power = FALSE] \in Asking /\ [r EXCEPT !.power = FALSE].min = r.min
<1>1. r \in Asking
  BY PlanningAssumption
<1> QED
  BY <1>1 DEF Asking

\* A plan that is started by a command which may start it keeps the invariant.
LEMMA Started ==
  ASSUME PlanInv, NEW how \in {"file", "direct", "salvage"}, NEW min \in Option(Grades),
         NEW p \in PlanSet, StartPlan(how, min, p), SoundPlan(p),
         how # "salvage" => Obeys(p, site),
         how = "direct" => p.expected >= Highest(min) /\ p.expected >= Highest(site.floor)
  PROVE  PlanInv'
<1>1. /\ run' = [how |-> how, min |-> min, plan |-> {p}, under |-> site, resumed |-> FALSE]
      /\ site' = site /\ planFile' = planFile
  BY DEF StartPlan
<1>2. {p} \in Option(PlanSet)
  BY DEF Option
<1>3. PlanTypeOK'
  BY <1>1, <1>2 DEF PlanInv, PlanTypeOK
<1>4. \A f \in planFile' : Kept(f)
  BY <1>1 DEF PlanInv
<1> QED
  BY <1>1, <1>3, <1>4 DEF PlanInv

LEMMA PlanInitInv == PlanInit => PlanInv
<1> SUFFICES ASSUME PlanInit PROVE PlanInv
  OBVIOUS
<1>1. {} \in Option(PlanSet) /\ {} \in Option(Grades)
      /\ {} \in Option([plan : PlanSet, under : Sites, edited : BOOLEAN])
  BY DEF Option
<1> QED
  BY <1>1 DEF PlanInit, PlanInv, PlanTypeOK

LEMMA PlanStep == PlanInv /\ [PlanNext]_planVars => PlanInv'
<1> SUFFICES ASSUME PlanInv, [PlanNext]_planVars PROVE PlanInv'
  OBVIOUS
<1>1. CASE WritePlan
  <2>1. PICK u \in Units, r \in Requests : \E p \in Planned(site, u, [r EXCEPT !.power = FALSE]) :
          planFile' = {[plan |-> p, under |-> site, edited |-> FALSE]}
    BY <1>1 DEF WritePlan
  <2>2. PICK p \in Planned(site, u, [r EXCEPT !.power = FALSE]) :
          planFile' = {[plan |-> p, under |-> site, edited |-> FALSE]}
    BY <2>1
  <2>3. site' = site /\ run' = run /\ site \in Sites
    BY <1>1 DEF WritePlan, PlanInv, PlanTypeOK
  <2>4. Promised(p, site, r.min) /\ r.min \in Option(Grades)
    BY <2>3, PolicyTyped, RequestTyped, PlannedGood
  <2>5. p \in PlanSet
    BY <2>4 DEF Promised
  <2>6. PlanTypeOK'
    BY <2>2, <2>3, <2>5, FileTyped DEF PlanInv, PlanTypeOK
  <2>7. \A f \in planFile' : Kept(f)
    BY <2>2, <2>4 DEF Kept
  <2> QED
    BY <2>3, <2>6, <2>7 DEF PlanInv
<1>2. CASE Edit
  <2>0. PICK f \in planFile :
          /\ ~f.edited
          /\ \E p \in Altered(f.plan) : planFile' = {[f EXCEPT !.plan = p, !.edited = TRUE]}
    BY <1>2 DEF Edit
  <2>1. PICK p \in Altered(f.plan) :
          ~f.edited /\ planFile' = {[f EXCEPT !.plan = p, !.edited = TRUE]}
    BY <2>0
  <2>2. f \in [plan : PlanSet, under : Sites, edited : BOOLEAN]
    <3>1. planFile \in Option([plan : PlanSet, under : Sites, edited : BOOLEAN])
      BY DEF PlanInv, PlanTypeOK
    <3> QED
      BY <3>1, OptionOf
  <2>3. f.plan.actions # <<>>
    BY <2>1 DEF PlanInv, Kept, Promised
  <2>4. p \in PlanSet
    BY <2>2, <2>3, AlteredTyped
  <2>5. site' = site /\ run' = run
    BY <1>2 DEF Edit
  <2>6. PICK e \in [plan : PlanSet, under : Sites, edited : BOOLEAN] : planFile' = {e} /\ e.edited
    <3>1. /\ [f EXCEPT !.plan = p, !.edited = TRUE] \in [plan : PlanSet, under : Sites, edited : BOOLEAN]
          /\ [f EXCEPT !.plan = p, !.edited = TRUE].edited
      BY <2>2, <2>4
    <3> QED
      BY <2>1, <3>1
  <2>7. PlanTypeOK'
    BY <2>5, <2>6 DEF PlanInv, PlanTypeOK, Option
  <2>8. \A f1 \in planFile' : Kept(f1)
    BY <2>6 DEF Kept
  <2> QED
    BY <2>5, <2>7, <2>8 DEF PlanInv
<1>3. CASE RunFile
  <2>1. PICK f \in planFile, min \in {r.min : r \in Requests} :
          Valid(f.plan) /\ Enforced(site, f.plan) /\ StartPlan("file", min, f.plan)
    BY <1>3 DEF RunFile
  <2>2. f.plan \in PlanSet /\ min \in Option(Grades) /\ site \in Policies
    <3>1. planFile \in Option([plan : PlanSet, under : Sites, edited : BOOLEAN])
      BY DEF PlanInv, PlanTypeOK
    <3>2. f \in [plan : PlanSet, under : Sites, edited : BOOLEAN]
      BY <3>1, OptionOf
    <3> QED
      BY <3>2, PolicyTyped, RequestTyped DEF PlanInv, PlanTypeOK
  <2>3. f.plan.expected >= f.plan.minimum
    BY <2>1 DEF Valid, Whole
  <2>4. SoundPlan(f.plan) /\ Obeys(f.plan, site)
    BY <2>1, <2>2, <2>3, ValidSound, EnforcedObeys
  <2> QED
    BY <2>1, <2>2, <2>4, Started
<1>4. CASE RunDirect
  <2>1. PICK u \in Units, r \in Requests : \E p \in Planned(site, u, r) :
          /\ \A fb \in p.fallback : Valid(fb)
          /\ Enforced(site, p) /\ StartPlan("direct", r.min, p)
    BY <1>4 DEF RunDirect
  <2>2. PICK p \in Planned(site, u, r) :
          /\ \A fb \in p.fallback : Valid(fb)
          /\ Enforced(site, p) /\ StartPlan("direct", r.min, p)
    BY <2>1
  <2>3. site \in Sites /\ site \in Policies /\ site.floor \in Option(Grades)
    BY PolicyTyped DEF PlanInv, PlanTypeOK
  <2>4. Promised(p, site, r.min) /\ r.min \in Option(Grades)
    BY <2>3, PolicyTyped, RequestTyped, PlannedGood
  <2>5. p \in PlanSet /\ p.expected >= p.minimum
        /\ \A f \in site.floor \cup r.min : p.minimum >= f
    BY <2>4 DEF Promised
  <2>6. p.expected \in Grades /\ p.minimum \in Grades
    BY <2>5, FallbackTyped DEF PlanFields
  <2>7. p.minimum >= Highest(r.min) /\ p.minimum >= Highest(site.floor)
    BY <2>3, <2>4, <2>5, <2>6, HighestBelow
  <2>8. p.expected >= Highest(r.min) /\ p.expected >= Highest(site.floor)
    BY <2>3, <2>4, <2>5, <2>6, <2>7, HighestOf DEF Grades
  <2>9. SoundPlan(p)
    BY <2>2, <2>4, PromisedSound DEF Valid
  <2>10. Obeys(p, site)
    BY <2>2, <2>3, <2>5, EnforcedObeys
  <2> QED
    BY <2>2, <2>4, <2>5, <2>8, <2>9, <2>10, Started
<1>5. CASE Salvage
  <2>1. PICK u \in Units, r \in Requests : \E p \in SalvagePlanned(site, u, r) :
          StartPlan("salvage", {}, p)
    BY <1>5 DEF Salvage
  <2>2. PICK p \in SalvagePlanned(site, u, r) : StartPlan("salvage", {}, p)
    BY <2>1
  <2>3. site \in Sites
    BY DEF PlanInv, PlanTypeOK
  <2>4. /\ p \in PlanSet /\ p.fallback = {}
        /\ \A i \in DOMAIN p.actions : ActionValid(p.actions[i])
        /\ Follows(p.actions, ExpectedRecipe(p))
    BY <2>3, PolicyTyped, RequestTyped, SalvageGood
  <2>5. SoundPlan(p)
    BY <2>4, FallbackTyped, FollowsSound DEF SoundPlan
  <2>6. {} \in Option(Grades)
    BY DEF Option
  <2> QED
    BY <2>2, <2>4, <2>5, <2>6, Started
<1>6. CASE ResumePlan
  <2>1. /\ run' = [run EXCEPT !.resumed = TRUE, !.under = site]
        /\ site' = site /\ planFile' = planFile
        /\ \E p \in run.plan : Acceptable(site, p)
    BY <1>6 DEF ResumePlan
  <2>2. PICK p \in run.plan : Acceptable(site, p)
    BY <2>1
  <2>3. run.plan = {p} /\ p \in PlanSet /\ site \in Policies /\ site \in Sites
    BY PolicyTyped DEF PlanInv, PlanTypeOK, Option
  <2>4. p.expected >= p.minimum /\ Enforced(site, p)
    BY <2>2 DEF Acceptable, Valid, Whole
  <2>5. Obeys(p, site)
    BY <2>3, <2>4, EnforcedObeys
  <2>6. PlanTypeOK'
    BY <2>1, <2>3 DEF PlanInv, PlanTypeOK
  <2>7. run'.plan = {p} /\ run'.how = run.how /\ run'.min = run.min /\ run'.resumed
        /\ run'.under = site
    BY <2>1, <2>3 DEF PlanInv, PlanTypeOK
  <2> QED
    BY <2>1, <2>3, <2>5, <2>6, <2>7 DEF PlanInv
<1>7. CASE ChangePolicy
  BY <1>7 DEF ChangePolicy, PlanInv, PlanTypeOK
<1>8. CASE UNCHANGED planVars
  BY <1>8 DEF planVars, PlanInv, PlanTypeOK
<1> QED
  BY <1>1, <1>2, <1>3, <1>4, <1>5, <1>6, <1>7, <1>8 DEF PlanNext

-----------------------------------------------------------------------------
(* The properties. *)

LEMMA PlanCorrect == PlanSpec => []PlanInv
<1> QED
  BY PlanInitInv, PlanStep, PTL DEF PlanSpec

\* Whatever file, command line and edit a plan comes from, and whenever the
\* policy changes, what is started or resumed obeys the policy then in force,
\* and what run built promises what was asked for (config.rs enforce_plan).
THEOREM AlwaysObeyed == PlanSpec => []PolicyHolds
<1>1. PlanInv => PolicyHolds
  BY DEF PlanInv, PolicyHolds, MinimumMet, Obeys
<1> QED
  BY <1>1, PlanCorrect, PTL

\* What is started destroys only by actions declared destructive, each before
\* a power cycle and a reading, and falls back only to a sound plan of lower
\* reach for the same device (plan.rs validate_invariants).
THEOREM AlwaysSound == PlanSpec => []SoundPlans
<1>1. PlanInv => SoundPlans
  BY DEF PlanInv, SoundPlans, SoundPlan
<1> QED
  BY <1>1, PlanCorrect, PTL

\* The builders and the validator agree on every plan there is: what plan
\* wrote runs under the same policy (plan.rs plan_l1 to plan_c4, validate).
THEOREM OwnAccepted == PlanSpec => []OwnPlanRuns
<1>1. PlanInv => OwnPlanRuns
  <2> SUFFICES ASSUME PlanInv, NEW f \in planFile,
                      ~f.edited /\ f.under = site, Complete(f.plan, site)
               PROVE  Valid(f.plan) /\ Enforced(site, f.plan)
    BY DEF OwnPlanRuns, Complete
  <2>1. PICK min : Promised(f.plan, site, min)
    BY DEF PlanInv, Kept
  <2>2. site \in Policies
    BY PolicyTyped DEF PlanInv, PlanTypeOK
  <2> QED
    BY <2>1, <2>2, PromisedRuns
<1> QED
  BY <1>1, PlanCorrect, PTL
=============================================================================
