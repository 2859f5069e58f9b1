---------------------------- MODULE SalvageProofs ----------------------------
(***************************************************************************)
(* Proofs about the physical salvage, for any number of pages, lost and    *)
(* uncorrectable pages, faults and resumes: what is reported as acquired   *)
(* is one sweep.                                                           *)
(***************************************************************************)
EXTENDS Salvage, SequenceTheorems, TLAPS

\* Sequences of whatever.
IsSeq(s) == \E S : s \in Seq(S)

\* The outputs were last created or cut at record e of the journal ...
OutputsAt(e) ==
  /\ e \in 1 .. Len(journal) /\ journal[e].st \in {"created", "restarted"}
  /\ \A j \in e + 1 .. Len(journal) : journal[j].st = "completed"
\* ... and no sweep was completed since, or one was, and this is its summary.
Unswept ==
  \E e \in 1 .. Len(journal) :
    /\ OutputsAt(e)
    /\ \A j \in e + 1 .. Len(journal) : journal[j].id # "salvage-physical"
SweptAt(n) ==
  /\ n \in 1 .. Len(journal)
  /\ journal[n].st = "completed" /\ journal[n].id = "salvage-physical"
  /\ \E e \in 1 .. n - 1 : OutputsAt(e)
  /\ \A j \in n + 1 .. Len(journal) : journal[j].id # "salvage-physical"

\* The first n pages are in the image and the map, all of one sweep.
Empty == file["image"] = <<>> /\ file["map"] = <<>>
Pair(n, ep) ==
  LET cells == file["image"]
      lines == file["map"]
  IN  /\ Len(cells) = n /\ Len(lines) = n + 1 /\ lines[1] = Header(ep)
      /\ \A p \in 1 .. n : /\ lines[p + 1].page = p /\ lines[p + 1].ep = ep
                           /\ cells[p] = Cell(p, lines[p + 1].st, ep)
\* The counts of the summary are zero only if no page was lost or is bad.
Counts(n, lost, bad) ==
  /\ lost \in Nat /\ bad \in Nat
  /\ lost + bad = 0 => \A p \in 1 .. n : file["map"][p + 1].st = "ok"
Progress(w) ==
  /\ w.page \in 0 .. Pages /\ w.wrote = file["image"]
  /\ Pair(w.page, w.ep) /\ Counts(w.page, w.lost, w.bad)
Acquired ==
  \E n \in 1 .. Len(journal) :
    /\ SweptAt(n)
    /\ LET d == journal[n].d
       IN  /\ d # None /\ d.digest = file["image"] /\ Counts(Pages, d.lost, d.bad)
    /\ \E ep \in {file["map"][1].ep} : Pair(Pages, ep)

Results == {"none", "exists", "unbound", "busy", "no-match", "mismatch", "complete",
            "partial", "failed", "interrupted"}
Modes == [service : BOOLEAN, state : {"normal", "entry", "in-service", "exit"}]
Shapes ==
  /\ IsSeq(journal) /\ file = [k \in Kinds |-> file[k]]
  /\ \A k \in Kinds : IsSeq(file[k])
Cores == [pc : PCs, idx : 0 .. 8, ended : {"ok", "failed", "interrupted"}, clean : BOOLEAN]
Lengths == Len(file["map"]) <= Pages + 1 /\ Len(file["image"]) <= Pages
Orphaned == \A w \in orphans : \E n \in 0 .. Pages, ep \in {w.ep} : w = [page |-> n, ep |-> ep]
Types ==
  /\ core \in Cores
  /\ dev \in Modes
  /\ path \in [Kinds -> {"none", "other", "own", "linked"}]
  /\ report \in [result : Results]
  /\ foreign = [k \in Kinds |-> "kept"]
  /\ Lengths /\ Orphaned
  /\ overlap \in BOOLEAN

\* What orphans cannot disturb.
BaseInv ==
  /\ IF core.pc = "sweeping"
     THEN /\ core.idx = 5
          /\ \E w \in {sweeps[i] : i \in 1 .. Len(sweeps)} :
               sweeps = <<w>> /\ w.page \in 0 .. Pages
     ELSE sweeps = <<>>
  /\ core.pc = "act" => core.idx > 0
  /\ core.pc = "map" => path["image"] = "own"
  /\ core.pc \in {"image", "map", "bind"} \/ journal = <<>> => orphans = {} /\ ~overlap
  /\ core.pc = "reopen-image" =>
       Unswept /\ report.result = "none" /\ core.ended = "ok"

\* Where the run stands decides what the files and the journal hold.
SweepInv ==
  /\ core.pc = "sweeping" => Unswept /\ \A w : sweeps = <<w>> => Progress(w)
  /\ journal = <<>> \/ core.pc \in {"image", "map", "bind"} => Empty
  /\ core.pc \in {"reopen-image", "reopen-map", "restart"} => Unswept
  /\ core.pc \in {"reopen-map", "restart"} => file["image"] = <<>>
  /\ core.pc = "restart" => file["map"] = <<>>
  /\ core.pc = "act" /\ core.idx <= 5 => Empty /\ Unswept
  /\ core.pc = "act" /\ core.idx > 5 => Acquired
  /\ core.pc \in {"recover", "finish"} => Unswept \/ Acquired
  /\ core.pc = "finish" /\ core.ended = "ok" => Acquired
  /\ report.result # "mismatch"
  /\ report.result \in {"complete", "partial"} =>
       /\ core.pc = "over" /\ \E ep \in {file["map"][1].ep} : Pair(Pages, ep)
       /\ report.result = "complete" => \A p \in 1 .. Pages : file["map"][p + 1].st = "ok"
\* And so it does for service mode and for what a run without faults ends as.
CleanInv ==
  /\ core.pc \in {"reopen-image", "reopen-map", "restart", "image", "map", "bind",
                 "act", "sweeping"} => core.ended = "ok"
  /\ journal = <<>> \/ core.pc \in {"image", "map", "bind"} => dev = NormalMode
  /\ core.clean =>
       /\ core.pc = "act" /\ core.idx <= 3 =>
            ~dev.service /\ dev.state \in {"normal", "entry"}
       /\ core.pc = "act" /\ core.idx \in 4 .. 6 => dev = ServiceMode
       /\ core.pc = "sweeping" => dev = ServiceMode
       /\ core.pc = "act" /\ core.idx > 6 => dev = NormalMode
       /\ core.pc # "recover"
       /\ core.pc = "finish" => core.ended = "ok" /\ ~dev.service
  /\ core.pc = "recover" => core.ended # "ok"
  /\ CleanRunEnds

SalvageInv == Shapes /\ Types /\ BaseInv /\ (~overlap => SweepInv /\ CleanInv)

-----------------------------------------------------------------------------
(* Sequences, and the journal they are the records of. *)

LEMMA SeqLen ==
  ASSUME NEW s, IsSeq(s)
  PROVE  Len(s) \in Nat /\ DOMAIN s = 1 .. Len(s) /\ (Len(s) = 0 <=> s = <<>>)
  BY DEF IsSeq

LEMMA SeqAppend ==
  ASSUME NEW s, IsSeq(s), NEW e
  PROVE  /\ IsSeq(Append(s, e)) /\ Len(Append(s, e)) = Len(s) + 1
         /\ \A i \in 1 .. Len(s) : Append(s, e)[i] = s[i]
         /\ Append(s, e)[Len(s) + 1] = e
<1>1. PICK S : s \in Seq(S)
  BY DEF IsSeq
<1> DEFINE T == S \cup {e}
<1>2. s \in Seq(T) /\ e \in T
  BY <1>1
<1>3. Append(s, e) \in Seq(T)
  BY <1>2
<1> HIDE DEF T
<1> QED BY <1>2, <1>3 DEF IsSeq

LEMMA SeqPut ==
  ASSUME NEW s, IsSeq(s), NEW c
  PROVE  Put(s, Len(s) + 1, c) = Append(s, c)
<1>1. Len(s) \in Nat /\ Len(s) + 1 > Len(s)
  BY SeqLen
<1>2. PICK T : Append(s, c) \in Seq(T)
  BY SeqAppend DEF IsSeq
<1> DEFINE t == Append(s, c)
<1>3. /\ Len(t) = Len(s) + 1 /\ t[Len(s) + 1] = c
      /\ \A k \in 1 .. Len(s) : t[k] = s[k]
  BY SeqAppend
<1> HIDE DEF t
<1>4. t = [k \in 1 .. Len(s) + 1 |-> t[k]]
  <2>1. t \in Seq(T)
    BY <1>2 DEF t
  <2>2. t = [k \in 1 .. Len(t) |-> t[k]]
    BY <2>1
  <2> QED BY <1>3, <2>2
<1>5. ASSUME NEW k \in 1 .. Len(s) + 1
      PROVE  t[k] = IF k = Len(s) + 1 THEN c ELSE IF k <= Len(s) THEN s[k] ELSE Hole
  BY <1>1, <1>3
<1>6. Put(s, Len(s) + 1, c) = [k \in 1 .. Len(s) + 1 |->
         IF k = Len(s) + 1 THEN c ELSE IF k <= Len(s) THEN s[k] ELSE Hole]
  BY <1>1 DEF Put
<1> QED BY <1>4, <1>5, <1>6 DEF t

LEMMA MaxIs ==
  ASSUME NEW S, S \subseteq Nat, NEW m \in S, \A x \in S : m >= x
  PROVE  Max(S) = m
<1>1. \A x \in S : (\A y \in S : x >= y) => x = m
  OBVIOUS
<1> QED BY <1>1 DEF Max

LEMMA DetailsAre ==
  ASSUME IsSeq(journal)
  PROVE  /\ Unswept => Details = None
         /\ \A n : SweptAt(n) => Details = journal[n].d
<1>0. Len(journal) \in Nat
  BY SeqLen
<1>1. ASSUME NEW e, OutputsAt(e)
      PROVE  LastOutputs = e
  <2> DEFINE S == {i \in 1 .. Len(journal) : journal[i].st \in {"created", "restarted"}}
  <2>1. e \in S /\ S \subseteq Nat
    BY <1>0, <1>1 DEF OutputsAt
  <2>2. ASSUME NEW x \in S PROVE e >= x
    BY <1>0, <1>1, <2>2 DEF OutputsAt
  <2> QED BY <2>1, <2>2, MaxIs DEF LastOutputs
<1>2. ASSUME Unswept PROVE Details = None
  <2>1. PICK e : /\ OutputsAt(e)
                 /\ \A j \in e + 1 .. Len(journal) : journal[j].id # "salvage-physical"
    BY <1>2 DEF Unswept
  <2> QED BY <1>1, <2>1 DEF Details, Swept
<1>3. ASSUME NEW n, SweptAt(n) PROVE Details = journal[n].d
  <2>1. PICK e \in 1 .. n - 1 : OutputsAt(e)
    BY <1>3 DEF SweptAt
  <2>2. LastOutputs = e /\ e \in Nat /\ n \in e + 1 .. Len(journal)
    BY <1>0, <1>1, <1>3, <2>1 DEF SweptAt, OutputsAt
  <2>3. n \in Swept /\ Swept \subseteq Nat
    BY <1>0, <1>3, <2>2 DEF Swept, SweptAt
  <2>4. \A x \in Swept : n >= x
    BY <1>0, <1>3, <2>2 DEF Swept, SweptAt
  <2> QED BY <2>3, <2>4, MaxIs DEF Details
<1> QED BY <1>2, <1>3

\* What a record that is appended does to all this.
LEMMA JournalGrows ==
  ASSUME IsSeq(journal), NEW r, journal' = Append(journal, r)
  PROVE  /\ IsSeq(journal)'
         /\ r.st \in {"created", "restarted"} => Unswept'
         /\ r.st = "completed" /\ r.id # "salvage-physical" =>
              /\ Unswept => Unswept'
              /\ \A n : SweptAt(n) => SweptAt(n)' /\ journal'[n] = journal[n]
         /\ r.st = "completed" /\ r.id = "salvage-physical" /\ Unswept =>
              \E n : n = Len(journal) + 1 /\ SweptAt(n)' /\ journal'[n] = r
<1>1. /\ Len(journal) \in Nat /\ IsSeq(journal') /\ Len(journal') = Len(journal) + 1
      /\ \A i \in 1 .. Len(journal) : journal'[i] = journal[i]
      /\ journal'[Len(journal) + 1] = r
  BY SeqLen, SeqAppend
<1>2. ASSUME NEW e, OutputsAt(e), r.st = "completed"
      PROVE  OutputsAt(e)'
  BY <1>1, <1>2 DEF OutputsAt
<1>3. ASSUME r.st \in {"created", "restarted"} PROVE Unswept'
  <2>1. PICK e : e = Len(journal) + 1
    OBVIOUS
  <2>2. OutputsAt(e)' /\ e \in 1 .. Len(journal')
    BY <1>1, <1>3, <2>1 DEF OutputsAt
  <2>3. \A j \in e + 1 .. Len(journal') : FALSE
    BY <1>1, <2>1
  <2> QED BY <2>2, <2>3 DEF Unswept
<1>4. ASSUME r.st = "completed", r.id # "salvage-physical", Unswept PROVE Unswept'
  <2>1. PICK e \in 1 .. Len(journal) :
          /\ OutputsAt(e)
          /\ \A j \in e + 1 .. Len(journal) : journal[j].id # "salvage-physical"
    BY <1>4 DEF Unswept
  <2>2. OutputsAt(e)' /\ e \in 1 .. Len(journal')
    BY <1>1, <1>2, <1>4, <2>1
  <2>3. \A j \in e + 1 .. Len(journal') : journal'[j].id # "salvage-physical"
    BY <1>1, <1>4, <2>1
  <2> QED BY <2>2, <2>3 DEF Unswept
<1>5. ASSUME r.st = "completed", r.id # "salvage-physical", NEW n, SweptAt(n)
      PROVE  SweptAt(n)' /\ journal'[n] = journal[n]
  <2>1. PICK e \in 1 .. n - 1 : OutputsAt(e)
    BY <1>5 DEF SweptAt
  <2>2. OutputsAt(e)' /\ n \in 1 .. Len(journal) /\ n \in 1 .. Len(journal') /\ journal'[n] = journal[n]
    BY <1>1, <1>2, <1>5, <2>1 DEF SweptAt
  <2>3. \A j \in n + 1 .. Len(journal') : journal'[j].id # "salvage-physical"
    BY <1>1, <1>5, <2>2 DEF SweptAt
  <2> QED BY <1>5, <2>1, <2>2, <2>3 DEF SweptAt
<1>6. ASSUME r.st = "completed", r.id = "salvage-physical", Unswept
      PROVE  \E n : n = Len(journal) + 1 /\ SweptAt(n)' /\ journal'[n] = r
  <2>1. PICK e \in 1 .. Len(journal) : OutputsAt(e)
    BY <1>6 DEF Unswept
  <2>2. PICK n : n = Len(journal) + 1
    OBVIOUS
  <2>3. OutputsAt(e)' /\ e \in 1 .. n - 1 /\ n \in 1 .. Len(journal')
    BY <1>1, <1>2, <1>6, <2>1, <2>2
  <2>4. journal'[n] = r /\ \A j \in n + 1 .. Len(journal') : FALSE
    BY <1>1, <2>2
  <2>5. SweptAt(n)'
    BY <1>6, <2>3, <2>4 DEF SweptAt
  <2> QED BY <2>2, <2>4, <2>5
<1> QED BY <1>1, <1>3, <1>4, <1>5, <1>6

-----------------------------------------------------------------------------
(* Steps that leave the files and the journal alone. *)

LEMMA ActionsAre ==
  ASSUME core.idx \in 1 .. Len(Actions)
  PROVE  /\ core.idx \in 1 .. 7 /\ Len(Actions) = 7
         /\ Action = "enter-service-mode" <=> core.idx = 3
         /\ Action = "enumerate-blocks" <=> core.idx = 4
         /\ Action = "salvage-physical" <=> core.idx = 5
         /\ Action = "exit-service-mode" <=> core.idx = 6
<1>1. Len(Actions) = 7
  BY DEF Actions
<1>2. CASE core.idx = 1
  BY <1>1, <1>2 DEF Action, Actions
<1>3. CASE core.idx = 2
  BY <1>1, <1>3 DEF Action, Actions
<1>4. CASE core.idx = 3
  BY <1>1, <1>4 DEF Action, Actions
<1>5. CASE core.idx = 4
  BY <1>1, <1>5 DEF Action, Actions
<1>6. CASE core.idx = 5
  BY <1>1, <1>6 DEF Action, Actions
<1>7. CASE core.idx = 6
  BY <1>1, <1>7 DEF Action, Actions
<1>8. CASE core.idx = 7
  BY <1>1, <1>8 DEF Action, Actions
<1> QED BY <1>1, <1>2, <1>3, <1>4, <1>5, <1>6, <1>7, <1>8

LEMMA WorksAre ==
  ASSUME core.idx \in 1 .. Len(Actions), dev \in Modes
  PROVE  /\ After \in Modes /\ CutOff \subseteq Modes
         /\ core.idx = 3 => After = ServiceMode
         /\ core.idx = 6 => After = NormalMode
         /\ core.idx \notin {3, 6} => After = dev
         /\ core.idx \in {1, 2, 7} => Works
         /\ core.idx = 3 /\ dev.state \in {"normal", "entry"} => Works
         /\ core.idx \in {4, 5, 6} /\ dev = ServiceMode => Works
         /\ core.idx = 5 /\ Works => dev = ServiceMode
<1>0. /\ core.idx \in 1 .. 7
      /\ Action = "enter-service-mode" <=> core.idx = 3
      /\ Action = "enumerate-blocks" <=> core.idx = 4
      /\ Action = "salvage-physical" <=> core.idx = 5
      /\ Action = "exit-service-mode" <=> core.idx = 6
  BY ActionsAre
<1>m. NormalMode \in Modes /\ ServiceMode \in Modes
  BY DEF Modes, NormalMode, ServiceMode
<1>d. dev.service \in BOOLEAN /\ dev.state \in {"normal", "entry", "in-service", "exit"}
      /\ dev = [service |-> dev.service, state |-> dev.state]
  BY DEF Modes
<1>1. CASE core.idx = 3
  <2>1. After = ServiceMode
    BY <1>0, <1>1 DEF After
  <2>2. Halfway = [service : {dev.service, TRUE}, state : {dev.state, "entry"}]
    BY <1>0, <1>1 DEF Halfway
  <2>3. Halfway \subseteq Modes
    BY <1>d, <2>2 DEF Modes
  <2>4. Works <=> dev.service \/ dev.state \in {"normal", "entry"}
    BY <1>0, <1>1 DEF Works
  <2> QED BY <1>1, <1>m, <2>1, <2>3, <2>4 DEF CutOff
<1>2. CASE core.idx = 6
  <2>1. After = NormalMode
    BY <1>0, <1>2 DEF After
  <2>2. Halfway = [service : {dev.service, FALSE}, state : {"exit"}]
    BY <1>0, <1>2 DEF Halfway
  <2>3. Halfway \subseteq Modes
    BY <1>d, <2>2 DEF Modes
  <2>4. Works <=> dev.state \in {"in-service", "exit"} \/ dev = NormalMode
    BY <1>0, <1>2 DEF Works
  <2> QED BY <1>2, <1>m, <2>1, <2>3, <2>4 DEF CutOff, ServiceMode
<1>3. CASE core.idx \notin {3, 6}
  <2>1. After = dev /\ Halfway = {dev}
    BY <1>0, <1>3 DEF After, Halfway
  <2>2. core.idx \in {1, 2, 7} => Works
    BY <1>0, <1>3 DEF Works
  <2>3. core.idx = 4 => (Works <=> dev.service)
    BY <1>0 DEF Works
  <2>4. core.idx = 5 => (Works <=> dev.service /\ dev.state = "in-service")
    BY <1>0 DEF Works
  <2>5. dev.service /\ dev.state = "in-service" <=> dev = ServiceMode
    BY <1>d DEF ServiceMode
  <2> QED BY <1>3, <2>1, <2>2, <2>3, <2>4, <2>5 DEF CutOff
<1> QED BY <1>1, <1>2, <1>3

LEMMA CoresAre ==
  /\ \A p \in PCs : [Off EXCEPT !.pc = p] \in Cores
  /\ \A c \in Cores, p \in PCs : [c EXCEPT !.pc = p] \in Cores
  /\ \A c \in Cores, p \in PCs, i \in 0 .. 8 : [c EXCEPT !.pc = p, !.idx = i] \in Cores
<1>1. Off \in Cores
  BY DEF Off, Cores, PCs
<1>2. \A c \in Cores, p \in PCs : [c EXCEPT !.pc = p] \in Cores
  BY DEF Cores
<1>3. \A c \in Cores, p \in PCs, i \in 0 .. 8 : [c EXCEPT !.pc = p, !.idx = i] \in Cores
  BY DEF Cores
<1> QED BY <1>1, <1>2, <1>3

LEMMA Frame ==
  ASSUME file' = file, journal' = journal
  PROVE  /\ Shapes' = Shapes /\ Unswept' = Unswept /\ Acquired' = Acquired /\ Empty' = Empty
         /\ \A n, ep : Pair(n, ep)' = Pair(n, ep)
         /\ Lengths' = Lengths
  BY DEF Shapes, Unswept, OutputsAt, Acquired, SweptAt, Empty, Pair, Counts, Lengths

\* The core's own steps.
LEMMA FailStep ==
  ASSUME SalvageInv, ActFails \/ Interrupt
  PROVE  SalvageInv'
<1>0. Shapes /\ Types /\ BaseInv /\ (~overlap => SweepInv /\ CleanInv)
  BY DEF SalvageInv
<1>1. file' = file /\ journal' = journal /\ sweeps' = sweeps /\ report' = report
      /\ path' = path /\ foreign' = foreign /\ orphans' = orphans /\ overlap' = overlap
  BY DEF ActFails, Interrupt
<1>2. core.pc = "act" /\ core.idx \in 1 .. Len(Actions)
  BY <1>0 DEF ActFails, Interrupt, Acting, Types, BaseInv, Actions, Cores
<1>3. core.idx \in 1 .. 7 /\ dev \in Modes /\ CutOff \subseteq Modes
  BY <1>0, <1>2, ActionsAre, WorksAre DEF Types
<1>4. PICK e \in {"failed", "interrupted"}, c \in BOOLEAN :
        /\ core' = [core EXCEPT !.pc = "recover", !.ended = e, !.clean = c]
        /\ c => c = core.clean /\ ~Works
  <2>1. core.clean \in BOOLEAN /\ core = [core EXCEPT !.clean = core.clean]
    BY <1>0 DEF Types, Cores
  <2>2. CASE core' = [core EXCEPT !.pc = "recover", !.ended = "failed"] /\ ~Works
    <3>1. core' = [core EXCEPT !.pc = "recover", !.ended = "failed", !.clean = core.clean]
      BY <1>0, <2>1, <2>2 DEF Types, Cores
    <3> QED BY <2>1, <2>2, <3>1
  <2> QED BY <2>2 DEF ActFails, Interrupt
<1>5. dev' \in Modes
  BY <1>3 DEF ActFails, Interrupt
<1>6. Types'
  BY <1>0, <1>1, <1>4, <1>5, Frame DEF Types, PCs, Cores, Orphaned
<1>7. BaseInv'
  BY <1>0, <1>1, <1>2, <1>4 DEF BaseInv, Types, Cores
<1>8. ASSUME ~overlap PROVE SweepInv' /\ CleanInv'
  <2>1. SweepInv /\ CleanInv
    BY <1>0, <1>8
  <2>2. (Unswept \/ Acquired) /\ journal # <<>>
    <3>1. Unswept \/ Acquired
      BY <1>2, <1>3, <2>1 DEF SweepInv
    <3> QED BY <3>1 DEF Unswept, Acquired
  <2>3. SweepInv'
    BY <1>0, <1>1, <1>2, <1>4, <2>1, <2>2, Frame DEF Types, SweepInv, Cores
  <2>4. core.clean => Works
    <3>1. core.idx \in 1 .. 3 => (core.clean => dev.state \in {"normal", "entry"})
      BY <1>2, <2>1 DEF CleanInv
    <3>2. core.idx \in 4 .. 6 => (core.clean => dev = ServiceMode)
      BY <1>2, <2>1 DEF CleanInv
    <3> QED BY <1>2, <1>3, <3>1, <3>2, WorksAre
  <2>5. CleanInv'
    BY <1>0, <1>1, <1>4, <2>2, <2>4 DEF Types, CleanInv, CleanRunEnds, Cores
  <2> QED BY <2>3, <2>5
<1> QED BY <1>0, <1>1, <1>6, <1>7, <1>8, Frame DEF SalvageInv

LEMMA RecoverStep ==
  ASSUME SalvageInv, Recover
  PROVE  SalvageInv'
<1>0. Shapes /\ Types /\ BaseInv /\ (~overlap => SweepInv /\ CleanInv)
  BY DEF SalvageInv
<1>1. file' = file /\ journal' = journal /\ sweeps' = sweeps /\ report' = report
      /\ path' = path /\ foreign' = foreign /\ orphans' = orphans /\ overlap' = overlap
  BY DEF Recover
<1>2. core.pc = "recover" /\ core' = [core EXCEPT !.pc = "finish"]
  BY DEF Recover, Goto
<1>3. dev' \in Modes
  <2>1. NormalMode \in Modes /\ dev \in Modes
    BY <1>0 DEF Modes, NormalMode, Types
  <2>2. dev' = NormalMode \/ dev' = dev
    BY DEF Recover
  <2> QED BY <2>1, <2>2
<1>4. Types'
  BY <1>0, <1>1, <1>2, <1>3, Frame DEF Types, PCs, Cores, Orphaned
<1>5. BaseInv'
  BY <1>0, <1>1, <1>2 DEF BaseInv, Types, Cores
<1>6. ASSUME ~overlap PROVE SweepInv' /\ CleanInv'
  <2>1. SweepInv /\ CleanInv
    BY <1>0, <1>6
  <2>2. (Unswept \/ Acquired) /\ journal # <<>> /\ ~core.clean /\ core.ended # "ok"
    <3>1. (Unswept \/ Acquired) /\ ~core.clean /\ core.ended # "ok"
      BY <1>2, <2>1 DEF SweepInv, CleanInv
    <3> QED BY <3>1 DEF Unswept, Acquired
  <2>3. SweepInv'
    BY <1>0, <1>1, <1>2, <2>1, <2>2, Frame DEF Types, SweepInv, Cores
  <2>4. CleanInv'
    BY <1>0, <1>1, <1>2, <2>1, <2>2 DEF Types, CleanInv, CleanRunEnds, Cores
  <2> QED BY <2>3, <2>4
<1> QED BY <1>0, <1>1, <1>4, <1>5, <1>6, Frame DEF SalvageInv

LEMMA AllDoneStep ==
  ASSUME SalvageInv, AllDone
  PROVE  SalvageInv'
<1>0. Shapes /\ Types /\ BaseInv /\ (~overlap => SweepInv /\ CleanInv)
  BY DEF SalvageInv
<1>1. file' = file /\ journal' = journal /\ sweeps' = sweeps /\ report' = report /\ dev' = dev
      /\ path' = path /\ foreign' = foreign /\ orphans' = orphans /\ overlap' = overlap
  BY DEF AllDone
<1>2. /\ core.pc = "act" /\ core.idx > 7 /\ core.idx \in Int
      /\ core' = [core EXCEPT !.pc = "finish"]
  BY <1>0 DEF AllDone, Goto, Actions, Types, Cores
<1>3. Types'
  BY <1>0, <1>1, <1>2, Frame DEF Types, PCs, Cores, Orphaned
<1>4. BaseInv'
  BY <1>0, <1>1, <1>2 DEF BaseInv, Types, Cores
<1>5. ASSUME ~overlap PROVE SweepInv' /\ CleanInv'
  <2>1. SweepInv /\ CleanInv
    BY <1>0, <1>5
  <2>2. Acquired /\ core.ended = "ok" /\ (core.clean => dev = NormalMode)
    BY <1>2, <2>1 DEF SweepInv, CleanInv
  <2>3. journal # <<>> /\ (core.clean => ~dev.service)
    BY <2>2 DEF Acquired, NormalMode
  <2>4. SweepInv'
    BY <1>0, <1>1, <1>2, <2>1, <2>2, <2>3, Frame DEF Types, SweepInv, Cores
  <2>5. CleanInv'
    BY <1>0, <1>1, <1>2, <2>1, <2>2, <2>3 DEF Types, CleanInv, CleanRunEnds, Cores
  <2> QED BY <2>4, <2>5
<1> QED BY <1>0, <1>1, <1>3, <1>4, <1>5, Frame DEF SalvageInv

LEMMA RestartStep ==
  ASSUME SalvageInv, Restart
  PROVE  SalvageInv'
<1>0. Shapes /\ Types /\ BaseInv /\ (~overlap => SweepInv /\ CleanInv)
  BY DEF SalvageInv
<1>1. file' = file /\ journal' = journal /\ sweeps' = sweeps /\ report' = report /\ dev' = dev
      /\ path' = path /\ foreign' = foreign /\ orphans' = orphans /\ overlap' = overlap
  BY DEF Restart
<1>2. PICK i, a : /\ i = (IF dev.service THEN EnterSeq + 1 ELSE 1) /\ a = Agree
                  /\ core' = [core EXCEPT !.pc = "act", !.clean = a, !.idx = i]
  BY DEF Restart
<1>2a. i \in {1, 4} /\ (i = 4 <=> dev.service)
  <2>1. EnterSeq + 1 = 4
    BY DEF EnterSeq
  <2>2. CASE dev.service
    BY <1>2, <2>1, <2>2
  <2>3. CASE ~dev.service
    BY <1>2, <2>3
  <2> QED BY <2>2, <2>3
<1>2b. a \in BOOLEAN
  BY <1>2 DEF Agree
<1>3. core.pc = "restart"
  BY DEF Restart
<1>4. core' \in Cores
  <2>1. core \in Cores /\ "act" \in PCs /\ i \in 0 .. 8
    BY <1>0, <1>2a DEF Types, PCs
  <2> QED BY <1>2, <1>2b, <2>1 DEF Cores
<1>5. Types'
  BY <1>0, <1>1, <1>4, Frame DEF Types, Orphaned
<1>6. BaseInv'
  BY <1>0, <1>1, <1>2, <1>2a, <1>3 DEF BaseInv, Types, Cores
<1>7. ASSUME ~overlap PROVE SweepInv' /\ CleanInv'
  <2>1. SweepInv /\ CleanInv
    BY <1>0, <1>7
  <2>2. Empty /\ Unswept /\ core.ended = "ok" /\ journal # <<>>
    <3>1. Empty /\ Unswept /\ core.ended = "ok"
      BY <1>3, <2>1 DEF SweepInv, CleanInv, Empty
    <3> QED BY <3>1 DEF Unswept
  <2>3. SweepInv'
    BY <1>0, <1>1, <1>2, <1>2a, <1>3, <2>1, <2>2, Frame DEF Types, SweepInv, Cores
  <2>4. core'.clean = a /\ core'.pc = "act" /\ core'.idx = i /\ core'.ended = "ok"
    BY <1>0, <1>2, <2>2 DEF Types, Cores
  <2>5. a /\ i = 4 => dev = ServiceMode
    BY <1>0, <1>2, <1>2a DEF Agree, Types, Modes, ServiceMode
  <2>6. a /\ i = 1 => ~dev.service /\ dev.state \in {"normal", "entry"}
    <3>1. ASSUME a, i = 1 PROVE ~dev.service
      BY <1>2a, <3>1
    <3>2. a <=> Agree
      BY <1>2, <1>2b
    <3>3. Agree /\ ~dev.service => dev.state \in {"normal", "entry"}
      BY DEF Agree
    <3> QED BY <3>1, <3>2, <3>3
  <2>7. CleanInv'
    <3>1. CASE i = 1
      BY <1>1, <2>2, <2>4, <2>6, <3>1 DEF CleanInv, CleanRunEnds
    <3>2. CASE i = 4
      BY <1>1, <2>2, <2>4, <2>5, <3>2 DEF CleanInv, CleanRunEnds
    <3> QED BY <1>2a, <3>1, <3>2
  <2> QED BY <2>3, <2>7
<1> QED BY <1>0, <1>1, <1>5, <1>6, <1>7, Frame DEF SalvageInv

\* The commands, up to the plan's first action.
LEMMA CreateStep ==
  ASSUME SalvageInv, CreateImage \/ CreateMap
  PROVE  SalvageInv'
<1>0. Shapes /\ Types /\ BaseInv /\ (~overlap => SweepInv /\ CleanInv)
  BY DEF SalvageInv
<1>1. /\ file' = file /\ journal' = journal /\ sweeps' = sweeps /\ dev' = dev
      /\ orphans' = orphans /\ overlap' = overlap
      /\ core.pc \in {"image", "map"}
  BY DEF CreateImage, CreateMap
<1>2. path' \in [Kinds -> {"none", "other", "own", "linked"}]
  BY <1>0 DEF CreateImage, CreateMap, Types, Kinds, Cores
<1>3. \/ core' = [core EXCEPT !.pc = "over"] /\ report' = [result |-> "exists"]
      \/ /\ core' = [core EXCEPT !.pc = "map"] /\ report' = report
         /\ path' = [path EXCEPT !["image"] = "own"]
      \/ core' = [core EXCEPT !.pc = "bind"] /\ report' = report
  BY DEF CreateImage, CreateMap, Refuse, Goto
\* What is created was not there, and what is removed was created.
<1>4. foreign' = foreign
  <2>1. CASE CreateImage
    BY <2>1 DEF CreateImage, Creatable, Touched
  <2>2. CASE CreateMap
    <3>1. path["image"] = "own"
      BY <1>0, <2>2 DEF CreateMap, BaseInv
    <3>2. Touched("image") = foreign
      BY <3>1 DEF Touched
    <3>3. CASE Creatable("map")
      BY <2>2, <3>3 DEF CreateMap, Creatable, Touched
    <3>4. CASE ~Creatable("map")
      BY <2>2, <3>2, <3>4 DEF CreateMap
    <3> QED BY <3>3, <3>4
  <2> QED BY <2>1, <2>2
<1>5. Types'
  BY <1>0, <1>1, <1>2, <1>3, <1>4, Frame DEF Types, PCs, Cores, Results, Orphaned
<1>6. BaseInv'
  BY <1>0, <1>1, <1>3 DEF BaseInv, Types, Cores, Kinds
<1>7. ASSUME ~overlap PROVE SweepInv' /\ CleanInv'
  <2>1. /\ SweepInv /\ CleanInv
        /\ report.result \notin {"complete", "partial", "mismatch"}
        /\ Empty /\ sweeps = <<>> /\ core.ended = "ok" /\ dev = NormalMode
    BY <1>0, <1>1, <1>7 DEF BaseInv, SweepInv, CleanInv
  <2>2. SweepInv'
    BY <1>0, <1>1, <1>3, <2>1, Frame DEF Types, SweepInv, Cores
  <2>3. CleanInv'
    BY <1>0, <1>1, <1>3, <2>1 DEF Types, CleanInv, CleanRunEnds, Cores
  <2> QED BY <2>2, <2>3
<1> QED BY <1>0, <1>1, <1>5, <1>6, <1>7, Frame DEF SalvageInv

\* What the user does to the paths between two commands.
LEMMA MeddleStep ==
  ASSUME SalvageInv, Meddle
  PROVE  SalvageInv'
<1>0. Shapes /\ Types /\ BaseInv /\ (~overlap => SweepInv /\ CleanInv)
  BY DEF SalvageInv
<1>1. /\ file' = file /\ journal' = journal /\ foreign' = foreign /\ dev' = dev
      /\ report' = report /\ core' = core /\ sweeps' = sweeps /\ orphans' = orphans
      /\ overlap' = overlap /\ core.pc \in {"off", "over"}
  BY DEF Meddle
<1>2. path' \in [Kinds -> {"none", "other", "own", "linked"}]
  BY <1>0 DEF Meddle, Types, Cores
<1>3. Types'
  BY <1>0, <1>1, <1>2, Frame DEF Types, Orphaned
<1>4. BaseInv'
  BY <1>0, <1>1, Frame DEF BaseInv
<1>5. ASSUME ~overlap PROVE SweepInv' /\ CleanInv'
  <2>1. SweepInv /\ CleanInv
    BY <1>0, <1>5
  <2>2. SweepInv'
    BY <1>1, <2>1, Frame DEF SweepInv
  <2>3. CleanInv'
    BY <1>1, <2>1 DEF CleanInv, CleanRunEnds
  <2> QED BY <2>2, <2>3
<1> QED BY <1>0, <1>1, <1>3, <1>4, <1>5, Frame DEF SalvageInv

LEMMA CutOffModes ==
  ASSUME Types, BaseInv
  PROVE  dev \in Modes /\ (IF Acting THEN CutOff ELSE {dev}) \subseteq Modes
<1>1. dev \in Modes
  BY DEF Types
<1>2. CASE Acting
  <2>1. core.idx \in 1 .. Len(Actions)
    BY <1>2 DEF Acting, Types, BaseInv, Cores, Actions
  <2>2. CutOff \subseteq Modes
    BY <1>1, <2>1, WorksAre
  <2> QED BY <1>1, <1>2, <2>2
<1>3. CASE ~Acting
  BY <1>1, <1>3
<1> QED BY <1>2, <1>3

\* The core is killed, and its backend is not; or every process goes.
LEMMA DownStep ==
  ASSUME SalvageInv, Crash \/ Blackout
  PROVE  SalvageInv'
<1>0. Shapes /\ Types /\ BaseInv /\ (~overlap => SweepInv /\ CleanInv)
  BY DEF SalvageInv
<1>1. /\ file' = file /\ journal' = journal /\ foreign' = foreign /\ path' = path
      /\ report' = report /\ core' = Off /\ sweeps' = <<>>
      /\ overlap' = overlap /\ core.pc \notin {"off", "over"}
  BY DEF Crash, Blackout, Down
<1>2. dev' \in Modes
  <2> DEFINE Left == IF Acting THEN CutOff ELSE {dev}
  <2>1. Left \subseteq Modes
    BY <1>0, CutOffModes
  <2>2. \A d \in Modes : [d EXCEPT !.service = FALSE] \in Modes
    BY DEF Modes
  <2>3. dev' \in Left \/ \E d \in Left : dev' \in {d, [d EXCEPT !.service = FALSE]}
    BY DEF Crash, Blackout
  <2> HIDE DEF Left
  <2> QED BY <2>1, <2>2, <2>3
<1>3. Orphaned' /\ (core.pc # "sweeping" /\ orphans = {} => orphans' = {})
  <2>1. CASE Blackout
    BY <2>1 DEF Blackout, Orphaned
  <2>2. CASE Crash /\ core.pc = "sweeping"
    <3>1. PICK w \in {sweeps[i] : i \in 1 .. Len(sweeps)} :
            sweeps = <<w>> /\ w.page \in 0 .. Pages
      BY <1>0, <2>2 DEF BaseInv
    <3>2. {[page |-> sweeps[i].page, ep |-> sweeps[i].ep] : i \in 1 .. Len(sweeps)}
             = {[page |-> w.page, ep |-> w.ep]}
      BY <3>1
    <3>3. orphans' = orphans \cup {[page |-> w.page, ep |-> w.ep]}
      BY <2>2, <3>2 DEF Crash
    <3>4. Orphaned
      BY <1>0 DEF Types
    <3>5. ASSUME NEW o \in orphans'
          PROVE  \E n \in 0 .. Pages, ep \in {o.ep} : o = [page |-> n, ep |-> ep]
      <4>1. CASE o \in orphans
        BY <3>4, <4>1 DEF Orphaned
      <4>2. CASE o = [page |-> w.page, ep |-> w.ep]
        BY <3>1, <4>2
      <4> QED BY <3>3, <4>1, <4>2
    <3> QED BY <2>2, <3>5 DEF Orphaned
  <2>3. CASE Crash /\ core.pc # "sweeping"
    <3>1. sweeps = <<>> /\ Len(<<>>) = 0
      BY <1>0, <2>3 DEF BaseInv
    <3>2. {[page |-> sweeps[i].page, ep |-> sweeps[i].ep] : i \in 1 .. Len(sweeps)} = {}
      BY <3>1
    <3>3. orphans' = orphans
      BY <2>3, <3>2 DEF Crash
    <3> QED BY <1>0, <3>3 DEF Types, Orphaned
  <2> QED BY <2>1, <2>2, <2>3
<1>4. Types'
  <2>1. core' \in Cores
    BY <1>1 DEF Off, Cores, PCs
  <2>2. Lengths'
    BY <1>0, <1>1, Frame DEF Types
  <2> QED BY <1>0, <1>1, <1>2, <1>3, <2>1, <2>2 DEF Types
\* A sweep is behind the records of its outputs.
<1>5. journal # <<>> \/ core.pc \in {"image", "map", "bind"} \/ orphans' = {}
  <2>1. core.pc = "sweeping" /\ ~overlap => journal # <<>>
    BY <1>0 DEF SweepInv, Unswept
  <2>2. overlap \/ orphans # {} => journal # <<>>
    BY <1>0 DEF BaseInv
  <2> QED BY <1>3, <2>1, <2>2
<1>6. journal = <<>> => orphans' = {} /\ ~overlap
  <2>1. journal = <<>> => orphans = {} /\ ~overlap
    BY <1>0 DEF BaseInv
  <2> QED BY <1>3, <1>5, <2>1
<1>7. BaseInv'
  BY <1>1, <1>6 DEF BaseInv, Off
<1>8. ASSUME ~overlap PROVE SweepInv' /\ CleanInv'
  <2>1. SweepInv /\ CleanInv
    BY <1>0, <1>8
  <2>2. report.result \notin {"complete", "partial", "mismatch"}
    BY <1>1, <2>1 DEF SweepInv
  <2>3. SweepInv'
    BY <1>1, <2>1, <2>2, Frame DEF SweepInv, Off
  <2>4. journal = <<>> => dev' = NormalMode
    <3>1. CASE Acting
      <4>1. Unswept \/ Acquired
        BY <1>0, <2>1, <3>1 DEF Acting, SweepInv, Types, Cores
      <4> QED BY <4>1 DEF Unswept, Acquired
    <3>2. CASE ~Acting
      <4>1. dev' \in {dev, [dev EXCEPT !.service = FALSE]}
        <5>1. (IF Acting THEN CutOff ELSE {dev}) = {dev}
          BY <3>2
        <5>2. CASE Crash
          BY <5>1, <5>2 DEF Crash
        <5>3. CASE Blackout
          <6>1. PICK d \in IF Acting THEN CutOff ELSE {dev} :
                  dev' \in {d, [d EXCEPT !.service = FALSE]}
            BY <5>3 DEF Blackout
          <6> QED BY <5>1, <6>1
        <5> QED BY <5>2, <5>3
      <4>2. [NormalMode EXCEPT !.service = FALSE] = NormalMode
        <5>1. \A m \in Modes : m.service = FALSE => [m EXCEPT !.service = FALSE] = m
          BY DEF Modes
        <5>2. NormalMode \in Modes /\ NormalMode.service = FALSE
          BY DEF NormalMode, Modes
        <5> QED BY <5>1, <5>2
      <4> QED BY <2>1, <4>1, <4>2 DEF CleanInv
    <3> QED BY <3>1, <3>2
  <2>5. CleanInv'
    BY <1>1, <2>1, <2>4 DEF CleanInv, CleanRunEnds, Off
  <2> QED BY <2>3, <2>5
<1> QED BY <1>0, <1>1, <1>4, <1>7, <1>8, Frame DEF SalvageInv

-----------------------------------------------------------------------------
(* Steps that write the journal. *)

LEMMA FileFrame ==
  ASSUME file' = file
  PROVE  /\ Empty' = Empty /\ \A n, ep : Pair(n, ep)' = Pair(n, ep)
         /\ \A n, l, b : Counts(n, l, b)' = Counts(n, l, b)
  BY DEF Empty, Pair, Counts

LEMMA UnsweptBegun ==
  ASSUME Unswept
  PROVE  journal # <<>>
<1>1. 1 .. Len(journal) # {}
  BY DEF Unswept
<1> QED BY <1>1

LEMMA StartStep ==
  ASSUME SalvageInv, Start
  PROVE  SalvageInv'
<1>0. Shapes /\ Types /\ BaseInv /\ (~overlap => SweepInv /\ CleanInv)
  BY DEF SalvageInv
<1>1. /\ core.pc = "off" /\ journal = <<>> /\ core' = [Off EXCEPT !.pc = "image"]
      /\ journal' = <<[st |-> "locked"]>> /\ file' = file /\ sweeps' = sweeps
      /\ path' = path /\ foreign' = foreign /\ dev' = dev /\ report' = report
      /\ orphans' = orphans /\ overlap' = overlap
  BY DEF Start
<1>2. IsSeq(journal')
  <2>1. journal' \in Seq({[st |-> "locked"]})
    BY <1>1
  <2> QED BY <2>1 DEF IsSeq
<1>3. Shapes'
  BY <1>0, <1>1, <1>2 DEF Shapes
<1>4. core'.pc = "image" /\ core'.ended = "ok" /\ core' \in Cores
  BY <1>1, CoresAre DEF PCs, Off
<1>5. Types'
  BY <1>0, <1>1, <1>4 DEF Types, Orphaned, Lengths
<1>6. ~overlap /\ orphans = {} /\ sweeps = <<>> /\ SweepInv /\ CleanInv
  BY <1>0, <1>1 DEF BaseInv
<1>7. BaseInv'
  BY <1>1, <1>4, <1>6 DEF BaseInv
<1>8. Empty' /\ report.result \notin {"complete", "partial", "mismatch"} /\ dev = NormalMode
  BY <1>1, <1>6, FileFrame DEF SweepInv, CleanInv
<1>9. SweepInv'
  BY <1>1, <1>4, <1>8 DEF SweepInv
<1>10. CleanInv'
  BY <1>1, <1>4, <1>8 DEF CleanInv, CleanRunEnds
<1> QED BY <1>3, <1>5, <1>7, <1>9, <1>10 DEF SalvageInv

LEMMA BindStep ==
  ASSUME SalvageInv, Bind
  PROVE  SalvageInv'
<1>0. Shapes /\ Types /\ BaseInv /\ IsSeq(journal)
  BY DEF SalvageInv, Shapes
<1>1. /\ core.pc = "bind" /\ core' = [core EXCEPT !.pc = "act", !.idx = 1]
      /\ journal' = Append(journal, [st |-> "created"]) /\ file' = file /\ sweeps' = sweeps
      /\ path' = path /\ foreign' = foreign /\ dev' = dev /\ report' = report
      /\ orphans' = orphans /\ overlap' = overlap
  BY DEF Bind
<1>2. IsSeq(journal)' /\ Unswept'
  BY <1>0, <1>1, JournalGrows
<1>3. Shapes'
  BY <1>0, <1>1, <1>2 DEF Shapes
<1>4. core'.pc = "act" /\ core'.idx = 1 /\ core'.ended = core.ended /\ core' \in Cores
  <2>1. core \in Cores /\ "act" \in PCs /\ 1 \in 0 .. 8
    BY <1>0 DEF Types, PCs
  <2> QED BY <1>1, <2>1, CoresAre DEF Cores
<1>5. Types'
  BY <1>0, <1>1, <1>4 DEF Types, Orphaned, Lengths
<1>6. ~overlap /\ orphans = {} /\ sweeps = <<>> /\ SweepInv /\ CleanInv
  BY <1>0, <1>1 DEF BaseInv, SalvageInv
<1>7. BaseInv'
  BY <1>1, <1>4, <1>6 DEF BaseInv
<1>8. /\ Empty' /\ report.result \notin {"complete", "partial", "mismatch"}
      /\ core.ended = "ok" /\ dev = NormalMode
  BY <1>1, <1>6, FileFrame DEF SweepInv, CleanInv
<1>9. journal' # <<>>
  BY <1>0, <1>1, SeqLen, SeqAppend
<1>10. SweepInv'
  BY <1>1, <1>2, <1>4, <1>8, <1>9 DEF SweepInv
<1>11. ~dev.service /\ dev.state \in {"normal", "entry"}
  BY <1>8 DEF NormalMode
<1>12. CleanInv'
  BY <1>1, <1>4, <1>8, <1>9, <1>11 DEF CleanInv, CleanRunEnds
<1> QED BY <1>3, <1>5, <1>7, <1>10, <1>12 DEF SalvageInv

LEMMA ActStep ==
  ASSUME SalvageInv, Act
  PROVE  SalvageInv'
<1>0. Shapes /\ Types /\ BaseInv /\ (~overlap => SweepInv /\ CleanInv) /\ IsSeq(journal)
  BY DEF SalvageInv, Shapes
<1>1. /\ core.pc = "act" /\ Action # "salvage-physical" /\ Works /\ dev' = After
      /\ core' = [core EXCEPT !.idx = core.idx + 1]
      /\ journal' = Append(journal, Done(Action)) /\ file' = file /\ sweeps' = sweeps
      /\ path' = path /\ foreign' = foreign /\ report' = report
      /\ orphans' = orphans /\ overlap' = overlap
  BY DEF Act, Acting
<1>2. core.idx \in 1 .. Len(Actions)
  BY <1>0, <1>1 DEF Act, Acting, Types, BaseInv, Actions, Cores
<1>3. core.idx \in 1 .. 7 /\ core.idx # 5 /\ Len(Actions) = 7
  BY <1>1, <1>2, ActionsAre
<1>4. Done(Action).st = "completed" /\ Done(Action).id # "salvage-physical"
  BY <1>1 DEF Done
<1>5. /\ IsSeq(journal)' /\ (Unswept => Unswept')
      /\ \A n : SweptAt(n) => SweptAt(n)' /\ journal'[n] = journal[n]
  <2> DEFINE r == Done(Action)
  <2>1. r.st = "completed" /\ r.id # "salvage-physical" /\ journal' = Append(journal, r)
    BY <1>1, <1>4
  <2> HIDE DEF r
  <2> QED BY <1>0, <2>1, JournalGrows
<1>6. dev \in Modes
  BY <1>0 DEF Types
<1>7. /\ dev' \in Modes /\ (core.idx = 3 => dev' = ServiceMode)
      /\ (core.idx = 6 => dev' = NormalMode) /\ (core.idx \notin {3, 6} => dev' = dev)
  BY <1>1, <1>2, <1>6, WorksAre
<1>8. /\ core'.pc = "act" /\ core'.idx = core.idx + 1 /\ core'.ended = core.ended
      /\ core'.clean = core.clean /\ core' \in Cores
  BY <1>0, <1>1, <1>3 DEF Types, Cores
<1>9. Shapes'
  BY <1>0, <1>1, <1>5 DEF Shapes
<1>10. Types'
  BY <1>0, <1>1, <1>7, <1>8 DEF Types, Orphaned, Lengths
<1>11. journal' # <<>>
  BY <1>0, <1>1, SeqLen, SeqAppend
<1>12. BaseInv'
  BY <1>0, <1>1, <1>3, <1>8, <1>11 DEF BaseInv
<1>13. Acquired => Acquired'
  <2> SUFFICES ASSUME Acquired PROVE Acquired'
    OBVIOUS
  <2>1. PICK n \in 1 .. Len(journal) :
          /\ SweptAt(n)
          /\ LET d == journal[n].d
             IN  /\ d # None /\ d.digest = file["image"] /\ Counts(Pages, d.lost, d.bad)
          /\ \E ep \in {file["map"][1].ep} : Pair(Pages, ep)
    BY DEF Acquired
  <2>2. SweptAt(n)' /\ journal'[n] = journal[n]
    BY <1>5, <2>1
  <2>3. n \in 1 .. Len(journal')
    BY <2>2 DEF SweptAt
  <2> QED BY <1>1, <2>1, <2>2, <2>3, FileFrame DEF Acquired
<1>14. ASSUME ~overlap PROVE SweepInv' /\ CleanInv'
  <2>1. SweepInv /\ CleanInv
    BY <1>0, <1>14
  <2>2. core.ended = "ok" /\ report.result \notin {"complete", "partial", "mismatch"}
    BY <1>1, <2>1 DEF SweepInv, CleanInv
  <2>3. CASE core.idx <= 4
    <3>1. Empty' /\ Unswept' /\ ~(core'.idx > 5)
      BY <1>1, <1>3, <1>5, <1>8, <2>1, <2>3, FileFrame DEF SweepInv
    <3>2. SweepInv'
      BY <1>1, <1>8, <1>11, <2>2, <3>1 DEF SweepInv
    <3>3. core.clean /\ core.idx <= 2 => ~dev'.service /\ dev'.state \in {"normal", "entry"}
      <4>1. core.idx <= 2 => core.idx <= 3 /\ dev' = dev
        BY <1>3, <1>7
      <4> QED BY <1>1, <2>1, <4>1 DEF CleanInv
    <3>4. core.clean /\ core.idx \in {3, 4} => dev' = ServiceMode
      BY <1>1, <1>7, <2>1 DEF CleanInv
    <3>5. core.idx \in {1, 2, 3, 4}
      BY <1>3, <2>3
    <3>6. /\ core'.clean /\ core'.idx <= 3 => ~dev'.service /\ dev'.state \in {"normal", "entry"}
          /\ core'.clean /\ core'.idx \in 4 .. 6 => dev' = ServiceMode
          /\ ~(core'.idx > 6)
      BY <1>8, <3>3, <3>4, <3>5
    <3>7. CleanInv'
      BY <1>8, <1>11, <2>2, <3>6 DEF CleanInv, CleanRunEnds
    <3> QED BY <3>2, <3>7
  <2>4. CASE core.idx > 5
    <3>1. Acquired' /\ core'.idx > 6
      BY <1>1, <1>3, <1>8, <1>13, <2>1, <2>4 DEF SweepInv
    <3>2. ~(core'.idx <= 5) /\ ~(core'.idx <= 3) /\ core'.idx \notin 4 .. 6
      BY <1>3, <1>8, <2>4
    <3>3. SweepInv'
      BY <1>1, <1>8, <1>11, <2>2, <3>1, <3>2 DEF SweepInv
    <3>4. core.clean => dev' = NormalMode
      BY <1>1, <1>3, <1>7, <2>1, <2>4 DEF CleanInv
    <3>5. CleanInv'
      BY <1>8, <1>11, <2>2, <3>2, <3>4 DEF CleanInv, CleanRunEnds
    <3> QED BY <3>3, <3>5
  <2> QED BY <1>3, <2>3, <2>4
<1> QED BY <1>1, <1>9, <1>10, <1>12, <1>14 DEF SalvageInv

LEMMA ResumeStep ==
  ASSUME SalvageInv, Resume
  PROVE  SalvageInv'
<1>0. Shapes /\ Types /\ BaseInv /\ (~overlap => SweepInv /\ CleanInv) /\ IsSeq(journal)
  BY DEF SalvageInv, Shapes
<1>1. /\ core.pc \in {"off", "over"} /\ file' = file /\ sweeps' = sweeps
      /\ path' = path /\ foreign' = foreign /\ dev' = dev /\ sweeps = <<>>
      /\ orphans' = orphans /\ overlap' = overlap
  BY <1>0 DEF Resume, BaseInv
<1>2. CASE \E why \in {"unbound", "busy"} :
             /\ core' = [core EXCEPT !.pc = "over"] /\ report' = [result |-> why]
             /\ journal' = journal
  <2>1. PICK why \in {"unbound", "busy"} :
             /\ core' = [core EXCEPT !.pc = "over"] /\ report' = [result |-> why]
             /\ journal' = journal
    BY <1>2
  <2>2. core'.pc = "over" /\ core' \in Cores /\ report'.result = why
    <3>1. core \in Cores /\ "over" \in PCs
      BY <1>0 DEF Types, PCs
    <3>2. core' \in Cores
      BY <2>1, <3>1, CoresAre
    <3> QED BY <2>1, <3>1, <3>2 DEF Cores
  <2>3. Types'
    BY <1>0, <1>1, <2>1, <2>2, Frame DEF Types, Results, Orphaned
  <2>4. BaseInv'
    BY <1>0, <1>1, <2>1, <2>2, Frame DEF BaseInv
  <2>5. ASSUME ~overlap PROVE SweepInv' /\ CleanInv'
    <3>1. SweepInv /\ CleanInv
      BY <1>0, <2>5
    <3>2. SweepInv'
      BY <1>1, <2>1, <2>2, <3>1, Frame DEF SweepInv
    <3>3. CleanInv'
      BY <1>1, <2>1, <2>2, <3>1 DEF CleanInv, CleanRunEnds
    <3> QED BY <3>2, <3>3
  <2> QED BY <1>0, <1>1, <2>1, <2>3, <2>4, <2>5, Frame DEF SalvageInv
<1>3. CASE /\ core' = [Off EXCEPT !.pc = "reopen-image"] /\ report' = NoReport
           /\ journal' = Append(journal, [st |-> "restarted"])
  <2>1. IsSeq(journal)' /\ Unswept'
    BY <1>0, <1>3, JournalGrows
  <2>2. journal' # <<>> /\ (journal = <<>> \/ journal # <<>>)
    BY <1>0, <1>3, SeqLen, SeqAppend
  <2>3. core' \in Cores /\ core'.pc = "reopen-image" /\ core'.ended = "ok"
    BY <1>3, CoresAre DEF PCs, Off
  <2>4. report' \in [result : Results] /\ report'.result = "none"
    BY <1>3 DEF NoReport, Results
  <2>5. Types'
    BY <1>0, <1>1, <2>3, <2>4 DEF Types, Orphaned, Lengths
  <2>6. BaseInv'
    BY <1>1, <2>1, <2>2, <2>3, <2>4 DEF BaseInv
  <2>7. SweepInv' /\ CleanInv'
    BY <1>1, <2>1, <2>2, <2>3, <2>4 DEF SweepInv, CleanInv, CleanRunEnds
  <2>8. Shapes'
    BY <1>0, <1>1, <2>1 DEF Shapes
  <2> QED BY <2>5, <2>6, <2>7, <2>8 DEF SalvageInv
<1> QED BY <1>2, <1>3 DEF Resume, Refuse, Goto

-----------------------------------------------------------------------------
(* Steps that cut or write the files. *)

\* What matches is the salvage's own, and nobody else's.
LEMMA MatchesOwn ==
  ASSUME NEW k \in Kinds, path \in [Kinds -> {"none", "other", "own", "linked"}], Matches(k)
  PROVE  SameInode(k) /\ Touched(k) = foreign
<1>1. path[k] = "own"
  BY DEF Matches, SameInode
<1> QED BY <1>1 DEF SameInode, Touched

LEMMA ReopenStep ==
  ASSUME SalvageInv, ReopenImage \/ ReopenMap
  PROVE  SalvageInv'
<1>0. Shapes /\ Types /\ BaseInv /\ (~overlap => SweepInv /\ CleanInv)
  BY DEF SalvageInv
<1>1. /\ core.pc \in {"reopen-image", "reopen-map"} /\ orphans' = orphans
      /\ journal' = journal /\ sweeps' = sweeps /\ path' = path /\ dev' = dev
  BY DEF ReopenImage, ReopenMap, Reopen
<1>2. PICK k \in Kinds, next \in {"reopen-map", "restart"} :
        /\ Reopen(k, next)
        /\ \/ k = "image" /\ next = "reopen-map" /\ core.pc = "reopen-image"
           \/ k = "map" /\ next = "restart" /\ core.pc = "reopen-map"
        /\ overlap' = (overlap /\ (core'.pc = "over" \/ k = "map"))
  <2>1. overlap \in BOOLEAN
    BY <1>0 DEF Types
  <2>2. CASE ReopenImage
    BY <2>1, <2>2 DEF ReopenImage, Kinds
  <2>3. CASE ReopenMap
    BY <2>1, <2>3 DEF ReopenMap, Kinds
  <2> QED BY <2>2, <2>3
<1>3. sweeps = <<>>
  BY <1>0, <1>1 DEF BaseInv
<1>4. core.pc = "reopen-image" \/ ~overlap =>
        Unswept /\ core.ended = "ok" /\ journal # <<>>
        /\ report.result \notin {"complete", "partial", "mismatch"}
  <2>1. core.pc = "reopen-image" \/ ~overlap =>
          Unswept /\ core.ended = "ok" /\ report.result \notin {"complete", "partial", "mismatch"}
    BY <1>0, <1>1 DEF BaseInv, SweepInv, CleanInv
  <2> QED BY <2>1, UnsweptBegun
<1>5. overlap => journal # <<>>
  BY <1>0 DEF BaseInv
<1>6. CASE /\ core' = [core EXCEPT !.pc = "over"] /\ report' = [result |-> "no-match"]
           /\ file' = file /\ foreign' = foreign
  <2>1. core' \in Cores /\ core'.pc = "over" /\ report'.result = "no-match"
    <3>1. core \in Cores /\ "over" \in PCs
      BY <1>0 DEF Types, PCs
    <3>2. core' \in Cores
      BY <1>6, <3>1, CoresAre
    <3> QED BY <1>6, <3>1, <3>2 DEF Cores
  <2>2. overlap' = overlap
    BY <1>0, <1>2, <2>1 DEF Types
  <2>3. Types'
    BY <1>0, <1>1, <1>6, <2>1, <2>2, Frame DEF Types, Results, Orphaned
  <2>4. BaseInv'
    BY <1>0, <1>1, <1>3, <1>6, <2>1, <2>2 DEF BaseInv
  <2>5. ASSUME ~overlap PROVE SweepInv' /\ CleanInv'
    BY <1>0, <1>1, <1>4, <1>6, <2>1, <2>5 DEF SweepInv, CleanInv, CleanRunEnds
  <2> QED BY <1>0, <1>1, <1>6, <2>2, <2>3, <2>4, <2>5, Frame DEF SalvageInv
<1>7. CASE /\ core' = [core EXCEPT !.pc = next] /\ report' = report
           /\ file' = [file EXCEPT ![k] = <<>>] /\ foreign' = foreign
  <2>1. file'[k] = <<>> /\ \A j \in Kinds \ {k} : file'[j] = file[j]
    BY <1>0, <1>7 DEF Shapes
  <2>2. IsSeq(<<>>) /\ Len(<<>>) = 0
    BY DEF IsSeq
  <2>3. Shapes'
    BY <1>0, <1>1, <1>7, <2>1, <2>2 DEF Shapes
  <2>4. core' \in Cores /\ core'.pc = next /\ core'.ended = core.ended
    <3>1. core \in Cores /\ next \in PCs
      BY <1>0 DEF Types, PCs
    <3>2. core' \in Cores
      BY <1>7, <3>1, CoresAre
    <3> QED BY <1>7, <3>1, <3>2 DEF Cores
  <2>5. Lengths'
    BY <1>0, <2>1, <2>2, SalvageAssumption DEF Types, Kinds, Lengths
  <2>6. Types'
    BY <1>0, <1>1, <1>2, <1>7, <2>4, <2>5 DEF Types, Orphaned
  <2>7. BaseInv'
    BY <1>0, <1>1, <1>2, <1>3, <1>4, <1>5, <2>4 DEF BaseInv
  <2>8. ASSUME ~overlap' PROVE SweepInv' /\ CleanInv'
    <3>1. core.pc = "reopen-image" \/ ~overlap
      BY <1>2, <2>8
    <3>2. Unswept' /\ core'.ended = "ok" /\ journal' # <<>>
          /\ report'.result \notin {"complete", "partial", "mismatch"}
      BY <1>1, <1>4, <1>7, <2>4, <3>1 DEF Unswept, OutputsAt
    <3>3. file'["image"] = <<>> /\ (next = "restart" => file'["map"] = <<>>)
      BY <1>0, <1>2, <2>1, <3>1 DEF SweepInv, Kinds
    <3> QED BY <1>2, <2>4, <3>2, <3>3 DEF SweepInv, CleanInv, CleanRunEnds
  <2> QED BY <2>3, <2>6, <2>7, <2>8 DEF SalvageInv
<1>8. CASE path[k] # "none" /\ Matches(k)
  <2>1. SameInode(k) /\ Touched(k) = foreign
    BY <1>0, <1>8, MatchesOwn DEF Types
  <2> QED BY <1>2, <1>7, <1>8, <2>1 DEF Reopen, Goto
<1>9. CASE ~(path[k] # "none" /\ Matches(k))
  BY <1>2, <1>6, <1>9 DEF Reopen, Refuse, Goto
<1> QED BY <1>8, <1>9

LEMMA PutIs ==
  ASSUME NEW s, IsSeq(s), NEW i \in Nat \ {0}, NEW c
  PROVE  /\ IsSeq(Put(s, i, c))
         /\ Len(Put(s, i, c)) = IF i > Len(s) THEN i ELSE Len(s)
<1>1. PICK n : n = IF i > Len(s) THEN i ELSE Len(s)
  OBVIOUS
<1>2. n \in Nat
  BY <1>1, SeqLen
<1> DEFINE v(k) == IF k = i THEN c ELSE IF k <= Len(s) THEN s[k] ELSE Hole
           t == [k \in 1 .. n |-> v(k)]
           T == {v(k) : k \in 1 .. n}
<1>3. Put(s, i, c) = t
  BY <1>1 DEF Put
<1>4. t \in [1 .. n -> T]
  OBVIOUS
<1> HIDE DEF t, T, v
<1>5. t \in Seq(T) /\ Len(t) = n
  BY <1>2, <1>4, SeqDef, LenProperties
<1> QED BY <1>1, <1>3, <1>5 DEF IsSeq

\* What any sweep, also an orphan, leaves the two files as.
LEMMA WrittenIs ==
  ASSUME Shapes, Lengths, NEW p \in 1 .. Pages, NEW st, NEW ep,
         file' = Written(p, st, ep), journal' = journal
  PROVE  Shapes' /\ Lengths'
<1> DEFINE image == Put(file["image"], p, Cell(p, st, ep))
           map == Put(file["map"], p + 1, Line(p, st, ep))
<1>1. IsSeq(file["image"]) /\ IsSeq(file["map"]) /\ Pages \in Nat
  BY SalvageAssumption DEF Shapes, Kinds
<1>2. p \in Nat \ {0} /\ p + 1 \in Nat \ {0}
  BY SalvageAssumption
<1>3. /\ file' = [file EXCEPT !["image"] = image, !["map"] = map]
      /\ file'["image"] = image /\ file'["map"] = map
      /\ file' = [k \in Kinds |-> file'[k]]
  BY DEF Written, Shapes, Kinds
<1>4. IsSeq(image) /\ Len(image) = IF p > Len(file["image"]) THEN p ELSE Len(file["image"])
  BY <1>1, <1>2, PutIs
<1>5. IsSeq(map) /\ Len(map) = IF p + 1 > Len(file["map"]) THEN p + 1 ELSE Len(file["map"])
  BY <1>1, <1>2, PutIs
<1> HIDE DEF image, map
<1>6. Lengths'
  BY <1>1, <1>3, <1>4, <1>5 DEF Lengths
<1>7. Shapes'
  BY <1>3, <1>4, <1>5 DEF Shapes, Kinds
<1> QED BY <1>6, <1>7

\* The steps of an orphan: they tell of themselves, and nothing else changes.
LEMMA OrphanStep ==
  ASSUME SalvageInv, NEW w \in orphans, OrphanPage(w) \/ OrphanEnd(w) \/ OrphanDies(w)
  PROVE  SalvageInv'
<1>0. Shapes /\ Types /\ BaseInv /\ (~overlap => SweepInv /\ CleanInv)
  BY DEF SalvageInv
<1>1. /\ path' = path /\ foreign' = foreign /\ journal' = journal /\ core' = core
      /\ sweeps' = sweeps /\ report' = report
  BY DEF OrphanPage, OrphanEnd, OrphanDies
<1>2. Orphaned /\ core.pc \notin {"image", "map", "bind"} /\ journal # <<>>
  BY <1>0 DEF Types, BaseInv
<1>3. PICK n \in 0 .. Pages, ep \in {w.ep} : w = [page |-> n, ep |-> ep]
  BY <1>2 DEF Orphaned
<1>4. CASE OrphanPage(w)
  <2>1. n + 1 \in 1 .. Pages /\ w.page + 1 = n + 1
    BY <1>3, <1>4, SalvageAssumption DEF OrphanPage
  <2>2. PICK st : file' = Written(w.page + 1, st, w.ep)
    BY <1>4 DEF OrphanPage
  <2>3. Shapes' /\ Lengths'
    BY <1>0, <1>1, <2>1, <2>2, WrittenIs DEF Types
  <2>4. orphans' = (orphans \ {w}) \cup {[page |-> n + 1, ep |-> ep]} /\ overlap' = TRUE
        /\ dev' = dev
    BY <1>3, <1>4 DEF OrphanPage
  <2>5. Orphaned'
    <3>1. ASSUME NEW o \in orphans'
          PROVE  \E m \in 0 .. Pages, e \in {o.ep} : o = [page |-> m, ep |-> e]
      <4>1. CASE o \in orphans
        BY <1>2, <4>1 DEF Orphaned
      <4>2. CASE o = [page |-> n + 1, ep |-> ep]
        BY <2>1, <4>2, SalvageAssumption
      <4> QED BY <2>4, <4>1, <4>2
    <3> QED BY <3>1 DEF Orphaned
  <2>6. Types'
    BY <1>0, <1>1, <2>3, <2>4, <2>5 DEF Types
  <2>7. BaseInv'
    BY <1>0, <1>1, <1>2, <2>4 DEF BaseInv, Unswept, OutputsAt
  <2> QED BY <2>3, <2>4, <2>6, <2>7 DEF SalvageInv
<1>5. CASE OrphanEnd(w)
  <2>1. /\ orphans' \subseteq orphans /\ overlap' = TRUE /\ file' = file
        /\ dev' = [dev EXCEPT !.state = "in-service"]
    BY <1>5 DEF OrphanEnd
  <2>2. Orphaned' /\ dev' \in Modes
    BY <1>0, <1>2, <2>1 DEF Orphaned, Types, Modes
  <2>3. Types'
    BY <1>0, <1>1, <2>1, <2>2, Frame DEF Types
  <2>4. BaseInv'
    BY <1>0, <1>1, <1>2, <2>1, Frame DEF BaseInv
  <2> QED BY <1>0, <1>1, <2>1, <2>3, <2>4, Frame DEF SalvageInv
<1>6. CASE OrphanDies(w)
  <2>1. /\ orphans' \subseteq orphans /\ overlap' = overlap /\ file' = file /\ dev' = dev
    BY <1>6 DEF OrphanDies
  <2>2. Orphaned'
    BY <1>2, <2>1 DEF Orphaned
  <2>3. Types'
    BY <1>0, <1>1, <2>1, <2>2, Frame DEF Types
  <2>4. BaseInv'
    BY <1>0, <1>1, <1>2, <2>1, Frame DEF BaseInv
  <2>5. ASSUME ~overlap PROVE SweepInv' /\ CleanInv'
    <3>1. SweepInv /\ CleanInv
      BY <1>0, <2>5
    <3>2. \A v : Progress(v)' = Progress(v)
      BY <2>1, FileFrame DEF Progress
    <3>3. SweepInv'
      BY <1>1, <2>1, <3>1, <3>2, Frame DEF SweepInv
    <3>4. CleanInv'
      BY <1>1, <2>1, <3>1 DEF CleanInv, CleanRunEnds
    <3> QED BY <3>3, <3>4
  <2> QED BY <1>0, <1>1, <2>1, <2>3, <2>4, <2>5, Frame DEF SalvageInv
<1> QED BY <1>4, <1>5, <1>6

LEMMA SweepStartStep ==
  ASSUME SalvageInv, SweepStart
  PROVE  SalvageInv'
<1>0. Shapes /\ Types /\ BaseInv /\ (~overlap => SweepInv /\ CleanInv)
  BY DEF SalvageInv
<1>1. core.pc = "act" /\ core.idx \in 1 .. Len(Actions) /\ Works
  BY <1>0 DEF SweepStart, Acting, Types, Cores, BaseInv, Actions
<1>2. core.idx = 5 /\ dev \in Modes /\ dev = ServiceMode
  <2>1. core.idx = 5
    BY <1>1, ActionsAre DEF SweepStart
  <2> QED BY <1>0, <1>1, <2>1, WorksAre DEF Types
<1>3. sweeps = <<>> /\ path' = path /\ foreign' = foreign /\ journal' = journal /\ dev' = dev
      /\ report' = report /\ orphans' = orphans /\ overlap' = overlap
  BY <1>0, <1>1 DEF BaseInv, SweepStart
<1>4. ~overlap => /\ Empty /\ Unswept /\ journal # <<>> /\ core.ended = "ok"
                  /\ report.result \notin {"complete", "partial", "mismatch"}
  <2>1. ~overlap => /\ Empty /\ Unswept /\ core.ended = "ok"
                    /\ report.result \notin {"complete", "partial", "mismatch"}
    BY <1>0, <1>1, <1>2 DEF SweepInv, CleanInv
  <2> QED BY <2>1, UnsweptBegun
<1>5. overlap => journal # <<>>
  BY <1>0 DEF BaseInv
<1>6. CASE /\ core' = [core EXCEPT !.pc = "recover", !.ended = "failed"]
           /\ sweeps' = sweeps /\ file' = file /\ file["image"] # <<>>
  <2>1. core' \in Cores /\ core'.pc = "recover"
    BY <1>0, <1>6 DEF Types, Cores, PCs
  <2>2. Types'
    BY <1>0, <1>3, <1>6, <2>1, Frame DEF Types, Orphaned
  <2>3. BaseInv'
    BY <1>0, <1>3, <1>6, <2>1 DEF BaseInv
  <2>4. overlap
    BY <1>4, <1>6 DEF Empty
  <2> QED BY <1>0, <1>3, <1>6, <2>2, <2>3, <2>4, Frame DEF SalvageInv
<1>7. CASE file["image"] = <<>>
  <2>1. PICK ep : ep = Epoch
    OBVIOUS
  <2>2. /\ sweeps' = Append(sweeps, Fresh(ep))
        /\ file' = [file EXCEPT !["map"] = Put(file["map"], 1, Header(ep))]
        /\ core' = [core EXCEPT !.pc = "sweeping"]
    BY <1>7, <2>1 DEF SweepStart, Goto
  <2>3. IsSeq(file["map"]) /\ file'["map"] = Put(file["map"], 1, Header(ep))
        /\ file'["image"] = <<>>
    BY <1>0, <1>7, <2>2 DEF Shapes, Kinds
  <2>4. IsSeq(file'["map"]) /\ Len(file'["map"]) = IF 1 > Len(file["map"]) THEN 1 ELSE Len(file["map"])
    BY <2>3, PutIs
  <2>5. IsSeq(<<>>) /\ Len(<<>>) = 0
    BY DEF IsSeq
  <2>6. Shapes'
    <3>1. file' = [k \in Kinds |-> file'[k]]
      BY <1>0, <2>2 DEF Shapes
    <3>2. \A k \in Kinds : IsSeq(file'[k])
      BY <2>3, <2>4, <2>5 DEF Kinds
    <3> QED BY <1>0, <1>3, <3>1, <3>2 DEF Shapes
  <2>7. Lengths'
    BY <1>0, <2>3, <2>4, <2>5, SalvageAssumption DEF Types, Lengths
  <2>8. core' \in Cores /\ core'.pc = "sweeping" /\ core'.idx = 5 /\ core'.ended = core.ended
        /\ core'.clean = core.clean
    BY <1>0, <1>2, <2>2 DEF Types, Cores, PCs
  <2>9. Types'
    BY <1>0, <1>3, <2>7, <2>8 DEF Types, Orphaned
  <2>10. sweeps' = <<Fresh(ep)>> /\ Fresh(ep) \in {sweeps'[i] : i \in 1 .. Len(sweeps')}
    BY <1>3, <2>2
  <2>11. Fresh(ep).page \in 0 .. Pages
    BY SalvageAssumption DEF Fresh
  <2>12. BaseInv'
    BY <1>0, <1>3, <1>4, <1>5, <2>8, <2>10, <2>11 DEF BaseInv
  <2>13. ASSUME ~overlap PROVE SweepInv' /\ CleanInv'
    <3>1. file["map"] = <<>>
      BY <1>4, <2>13 DEF Empty
    <3>2. Put(<<>>, 1, Header(ep)) = Append(<<>>, Header(ep))
      <4>1. Put(<<>>, Len(<<>>) + 1, Header(ep)) = Append(<<>>, Header(ep))
        BY <2>5, SeqPut
      <4>2. Len(<<>>) + 1 = 1
        BY <2>5
      <4> QED BY <4>1, <4>2
    <3>3. file'["map"] = <<Header(ep)>>
      BY <2>3, <3>1, <3>2
    <3>4. <<Header(ep)>> \in Seq({Header(ep)}) /\ Len(<<Header(ep)>>) = 1
      OBVIOUS
    <3>5. Progress(Fresh(ep))'
      <4>1. PICK w : w = Fresh(ep)
        OBVIOUS
      <4>2. w.page = 0 /\ w.ep = ep /\ w.wrote = <<>> /\ w.lost = 0 /\ w.bad = 0
        BY <4>1 DEF Fresh
      <4>3. PICK h : h = Header(ep)
        OBVIOUS
      <4>4. file'["map"] = <<h>> /\ Len(file'["map"]) = 1 /\ file'["map"][1] = h
        BY <3>3, <3>4, <4>3
      <4>5. Pair(0, ep)'
        BY <2>3, <2>5, <4>3, <4>4 DEF Pair
      <4>6. Counts(0, 0, 0)'
        BY DEF Counts
      <4>7. Progress(w)'
        BY <2>3, <4>2, <4>5, <4>6, SalvageAssumption DEF Progress
      <4> QED BY <4>1, <4>7
    <3>6. Unswept'
      BY <1>3, <1>4, <2>13 DEF Unswept, OutputsAt
    <3>7. \A w : sweeps' = <<w>> => w = Fresh(ep)
      BY <2>10
    <3>8. SweepInv'
      BY <1>3, <1>4, <2>8, <2>13, <3>5, <3>6, <3>7 DEF SweepInv
    <3>9. CleanInv'
      BY <1>2, <1>3, <1>4, <2>8, <2>13 DEF CleanInv, CleanRunEnds
    <3> QED BY <3>8, <3>9
  <2> QED BY <1>3, <2>6, <2>9, <2>12, <2>13 DEF SalvageInv
<1> QED BY <1>6, <1>7 DEF SweepStart

\* While it sweeps there is one sweep.
LEMMA Sweeping ==
  ASSUME BaseInv, NEW i \in 1 .. Len(sweeps)
  PROVE  /\ core.pc = "sweeping" /\ core.idx = 5 /\ i = 1
         /\ sweeps = <<sweeps[1]>> /\ Len(sweeps) = 1 /\ sweeps[1].page \in 0 .. Pages
         /\ RemoveAt(sweeps, i) = <<>>
<1>1. core.pc = "sweeping"
  <2>1. CASE core.pc # "sweeping"
    <3>1. sweeps = <<>>
      BY <2>1 DEF BaseInv
    <3> QED BY <3>1
  <2> QED BY <2>1
<1>2. PICK w : sweeps = <<w>> /\ w.page \in 0 .. Pages
  BY <1>1 DEF BaseInv
<1>3. i = 1 /\ Len(sweeps) = 1 /\ sweeps[1] = w
  BY <1>2
<1>4. RemoveAt(<<w>>, 1) = <<>>
  <2>1. SubSeq(<<w>>, 1, 0) = <<>> /\ SubSeq(<<w>>, 2, 1) = <<>>
    BY SubSeqEmpty
  <2>2. <<>> \o <<>> = <<>>
    OBVIOUS
  <2>3. Len(<<w>>) = 1 /\ 1 - 1 = 0 /\ 1 + 1 = 2
    OBVIOUS
  <2> QED BY <2>1, <2>2, <2>3 DEF RemoveAt
<1> QED BY <1>1, <1>2, <1>3, <1>4 DEF BaseInv

\* The next page of a sweep that no orphan wrote into.
LEMMA PageProgress ==
  ASSUME Shapes, NEW w, Progress(w), NEW st \in Outcomes(w.page + 1), w.page + 1 <= Pages,
         file' = Written(w.page + 1, st, w.ep)
  PROVE  Progress(Read(w, st))'
<1> DEFINE image == file["image"]
           map == file["map"]
           p == w.page + 1
<1>2. Progress(w)
  OBVIOUS
<1>3. /\ w.page \in 0 .. Pages /\ p \in Nat /\ p <= Pages /\ w.wrote = image
      /\ Len(image) = w.page /\ Len(map) = p /\ Pages \in Nat
  BY SalvageAssumption DEF Progress, Pair
<1>4a. st \in Outcomes(p)
  OBVIOUS
<1>6. PICK c, l, v : /\ c = Cell(p, st, w.ep) /\ l = Line(p, st, w.ep)
                     /\ v = [page |-> p, ep |-> w.ep, wrote |-> Append(image, c),
                             lost |-> w.lost + (IF st = "lost" THEN 1 ELSE 0),
                             bad |-> w.bad + (IF st = "bad" THEN 1 ELSE 0)]
  OBVIOUS
<1>7. IsSeq(image) /\ IsSeq(map)
  BY DEF Shapes, Kinds
<1>8. Put(image, p, c) = Append(image, c) /\ Put(map, p + 1, l) = Append(map, l)
  BY <1>3, <1>7, SeqPut
<1>9. file'["image"] = Append(image, c) /\ file'["map"] = Append(map, l)
  BY <1>6, <1>8 DEF Shapes, Kinds, Written
<1>10. /\ IsSeq(Append(image, c)) /\ Len(Append(image, c)) = p
       /\ \A q \in 1 .. w.page : Append(image, c)[q] = image[q]
       /\ Append(image, c)[p] = c
  BY <1>3, <1>7, SeqAppend
<1>10a. /\ IsSeq(Append(map, l)) /\ Len(Append(map, l)) = p + 1
      /\ \A q \in 1 .. p : Append(map, l)[q] = map[q]
      /\ Append(map, l)[p + 1] = l
  <2> HIDE DEF p, map
  <2> QED BY <1>3, <1>7, SeqAppend
<1>14. Pair(p, w.ep)'
  <2>1. ASSUME NEW q \in 1 .. p
        PROVE  /\ file'["map"][q + 1].page = q /\ file'["map"][q + 1].ep = w.ep
               /\ file'["image"][q] = Cell(q, file'["map"][q + 1].st, w.ep)
    <3>1. CASE q = p
      BY <1>6, <1>9, <1>10, <1>10a, <3>1 DEF Line
    <3>2. CASE q # p
      <4>1. q \in 1 .. w.page /\ q + 1 \in 1 .. p
        BY <1>3, <3>2
      <4>2. file'["map"][q + 1] = map[q + 1] /\ file'["image"][q] = image[q]
        BY <1>9, <1>10, <1>10a, <4>1
      <4> QED BY <1>2, <4>1, <4>2 DEF Progress, Pair
    <3> QED BY <3>1, <3>2
  <2>2. file'["map"][1] = Header(w.ep)
    <3>1. 1 \in 1 .. p /\ map[1] = Header(w.ep)
      BY <1>2, <1>3 DEF Progress, Pair
    <3> QED BY <1>9, <1>10, <1>10a, <3>1
  <2> QED BY <1>9, <1>10, <1>10a, <2>1, <2>2 DEF Pair
<1>15. Counts(p, v.lost, v.bad)'
  <2>1. w.lost \in Nat /\ w.bad \in Nat
    BY <1>2 DEF Progress, Counts
  <2>2. v.lost \in Nat /\ v.bad \in Nat
    BY <1>6, <2>1
  <2>3. ASSUME v.lost + v.bad = 0, NEW q \in 1 .. p
        PROVE  file'["map"][q + 1].st = "ok"
    <3>1. st = "ok" /\ w.lost + w.bad = 0
      BY <1>6, <1>4a, <2>1, <2>3 DEF Outcomes
    <3>2. CASE q = p
      BY <1>6, <1>9, <1>10, <1>10a, <3>1, <3>2 DEF Line
    <3>3. CASE q # p
      <4>1. q \in 1 .. w.page /\ q + 1 \in 1 .. p
        BY <1>3, <3>3
      <4>2. file'["map"][q + 1] = map[q + 1]
        BY <1>9, <1>10, <1>10a, <4>1
      <4> QED BY <1>2, <3>1, <4>1, <4>2 DEF Progress, Counts
    <3> QED BY <3>2, <3>3
  <2> QED BY <2>2, <2>3 DEF Counts
<1>16. Progress(v)'
  <2>1. v.page = p /\ v.ep = w.ep /\ v.wrote = Append(image, c)
    BY <1>6
  <2> HIDE DEF p
  <2>2. p \in 0 .. Pages
    BY <1>3
  <2> QED BY <1>9, <1>14, <1>15, <2>1, <2>2 DEF Progress
<1>17. Read(w, st) = v
  BY <1>3, <1>6 DEF Read
<1> QED BY <1>16, <1>17

LEMMA SweepPageStep ==
  ASSUME SalvageInv, NEW i \in 1 .. Len(sweeps), SweepPage(i)
  PROVE  SalvageInv'
<1>0. Shapes /\ Types /\ BaseInv /\ (~overlap => SweepInv /\ CleanInv)
  BY DEF SalvageInv
<1>1. PICK w : w = sweeps[1]
  OBVIOUS
<1>2. /\ core.pc = "sweeping" /\ core.idx = 5 /\ i = 1
      /\ sweeps = <<w>> /\ Len(sweeps) = 1 /\ w.page \in 0 .. Pages
  BY <1>0, <1>1, Sweeping
<1>3. w.page + 1 <= Pages /\ sweeps[i] = w
  BY <1>1, <1>2 DEF SweepPage
<1>4. PICK st \in Outcomes(w.page + 1) :
        file' = Written(w.page + 1, st, w.ep) /\ sweeps' = [sweeps EXCEPT ![i] = Read(w, st)]
  BY <1>3 DEF SweepPage
<1>5. /\ core' = core /\ path' = path /\ foreign' = foreign /\ journal' = journal
      /\ dev' = dev /\ report' = report /\ orphans' = orphans /\ overlap' = overlap
  BY DEF SweepPage
<1>6. w.page + 1 \in 1 .. Pages
  BY <1>2, <1>3, SalvageAssumption
<1>7. Shapes' /\ Lengths'
  BY <1>0, <1>4, <1>5, <1>6, WrittenIs DEF Types
<1>8. sweeps' = <<Read(w, st)>> /\ Read(w, st).page \in 0 .. Pages
  <2>1. sweeps' = <<Read(w, st)>>
    BY <1>2, <1>4
  <2>2. Read(w, st).page = w.page + 1
    BY DEF Read
  <2> QED BY <1>6, <2>1, <2>2
<1>9. Types'
  BY <1>0, <1>5, <1>7 DEF Types, Orphaned
<1>10. BaseInv'
  <2>1. Read(w, st) \in {sweeps'[j] : j \in 1 .. Len(sweeps')}
    BY <1>8
  <2> QED BY <1>0, <1>2, <1>5, <1>8, <2>1 DEF BaseInv
<1>11. ASSUME ~overlap PROVE SweepInv' /\ CleanInv'
  <2>1. SweepInv /\ CleanInv
    BY <1>0, <1>11
  <2>2. Progress(w) /\ Unswept /\ report.result \notin {"complete", "partial", "mismatch"}
    BY <1>2, <2>1 DEF SweepInv
  <2>3. Progress(Read(w, st))'
    BY <1>0, <1>3, <1>4, <2>2, PageProgress
  <2>4. Unswept' /\ journal # <<>>
    BY <1>5, <2>2, UnsweptBegun DEF Unswept, OutputsAt
  <2>5. \A v : sweeps' = <<v>> => v = Read(w, st)
    BY <1>8
  <2>6. SweepInv'
    BY <1>2, <1>5, <2>2, <2>3, <2>4, <2>5 DEF SweepInv
  <2>7. CleanInv'
    BY <1>5, <2>1 DEF CleanInv, CleanRunEnds
  <2> QED BY <2>6, <2>7
<1> QED BY <1>5, <1>7, <1>9, <1>10, <1>11 DEF SalvageInv

LEMMA SweepEndStep ==
  ASSUME SalvageInv, NEW i \in 1 .. Len(sweeps), SweepEnd(i)
  PROVE  SalvageInv'
<1>0. Shapes /\ Types /\ BaseInv /\ (~overlap => SweepInv /\ CleanInv) /\ IsSeq(journal)
  BY DEF SalvageInv, Shapes
<1>1. PICK w : w = sweeps[1]
  OBVIOUS
<1>2. /\ core.pc = "sweeping" /\ core.idx = 5 /\ i = 1
      /\ sweeps = <<w>> /\ RemoveAt(sweeps, i) = <<>>
  BY <1>0, <1>1, Sweeping
<1>3. PICK r : r = [st |-> "completed", id |-> "salvage-physical", d |-> Summary(w)]
  OBVIOUS
<1>4. /\ w.page = Pages /\ sweeps' = <<>> /\ journal' = Append(journal, r)
      /\ core' = [core EXCEPT !.pc = "act", !.idx = 6]
      /\ file' = file /\ path' = path /\ foreign' = foreign /\ dev' = dev /\ report' = report
      /\ orphans' = orphans /\ overlap' = overlap
  BY <1>1, <1>2, <1>3 DEF SweepEnd
<1>5. /\ r.st = "completed" /\ r.id = "salvage-physical" /\ r.d = Summary(w)
  BY <1>3
<1>6. IsSeq(journal)' /\ journal' # <<>>
  BY <1>0, <1>4, JournalGrows, SeqLen, SeqAppend
<1>7. Shapes'
  BY <1>0, <1>4, <1>6 DEF Shapes
<1>8. core' \in Cores /\ core'.pc = "act" /\ core'.idx = 6 /\ core'.ended = core.ended
      /\ core'.clean = core.clean
  <2>1. core \in Cores /\ "act" \in PCs /\ 6 \in 0 .. 8
    BY <1>0 DEF Types, PCs
  <2>2. core' \in Cores
    BY <1>4, <2>1, CoresAre
  <2> QED BY <1>4, <2>1, <2>2 DEF Cores
<1>9. Types'
  BY <1>0, <1>4, <1>8 DEF Types, Orphaned, Lengths
<1>10. BaseInv'
  BY <1>0, <1>4, <1>6, <1>8 DEF BaseInv
<1>11. ASSUME ~overlap PROVE SweepInv' /\ CleanInv'
  <2>1. SweepInv /\ CleanInv
    BY <1>0, <1>11
  <2>2. /\ Progress(w) /\ Unswept /\ report.result \notin {"complete", "partial", "mismatch"}
        /\ core.ended = "ok" /\ (core.clean => dev = ServiceMode)
    BY <1>2, <2>1 DEF SweepInv, CleanInv
  <2>3. PICK n : n = Len(journal) + 1 /\ SweptAt(n)' /\ journal'[n] = r
    BY <1>0, <1>4, <1>5, <2>2, JournalGrows
  <2>4. Summary(w) # None
    BY DEF Summary, None
  <2>5. Summary(w).digest = file["image"] /\ Counts(Pages, Summary(w).lost, Summary(w).bad)
    BY <1>4, <2>2 DEF Progress, Summary
  <2>6. Pair(Pages, w.ep) /\ w.ep = file["map"][1].ep
    BY <1>4, <2>2 DEF Progress, Pair, Header, Line
  <2>7. Acquired'
    <3>1. n \in 1 .. Len(journal')
      BY <2>3 DEF SweptAt
    <3>2. journal'[n].d = Summary(w)
      BY <1>5, <2>3
    <3> QED BY <1>4, <2>3, <2>4, <2>5, <2>6, <3>1, <3>2, FileFrame DEF Acquired
  <2>8. SweepInv'
    BY <1>4, <1>6, <1>8, <2>2, <2>7 DEF SweepInv
  <2>9. CleanInv'
    BY <1>4, <1>6, <1>8, <2>2 DEF CleanInv, CleanRunEnds
  <2> QED BY <2>8, <2>9
<1> QED BY <1>4, <1>7, <1>9, <1>10, <1>11 DEF SalvageInv

LEMMA SweepDiesStep ==
  ASSUME SalvageInv, NEW i \in 1 .. Len(sweeps), SweepDies(i)
  PROVE  SalvageInv'
<1>0. Shapes /\ Types /\ BaseInv /\ (~overlap => SweepInv /\ CleanInv)
  BY DEF SalvageInv
<1>1. core.pc = "sweeping" /\ RemoveAt(sweeps, i) = <<>>
  BY <1>0, Sweeping
<1>2. /\ core' = [core EXCEPT !.pc = "recover", !.ended = "failed", !.clean = FALSE]
      /\ file' = file /\ path' = path /\ foreign' = foreign /\ journal' = journal
      /\ dev' = dev /\ report' = report /\ sweeps' = <<>>
      /\ orphans' = orphans /\ overlap' = overlap
  BY <1>1 DEF SweepDies
<1>3. core' \in Cores /\ core'.pc = "recover" /\ core'.ended = "failed" /\ ~core'.clean
  BY <1>0, <1>2 DEF Types, PCs, Cores
<1>4. Types'
  BY <1>0, <1>2, <1>3, Frame DEF Types, Orphaned
<1>5. BaseInv'
  BY <1>0, <1>2, <1>3 DEF BaseInv
<1>6. ASSUME ~overlap PROVE SweepInv' /\ CleanInv'
  <2>1. Unswept /\ report.result \notin {"complete", "partial", "mismatch"}
    BY <1>0, <1>1, <1>6 DEF SweepInv
  <2>2. Unswept' /\ journal # <<>>
    BY <1>2, <2>1, UnsweptBegun, Frame
  <2>3. SweepInv' /\ CleanInv'
    BY <1>2, <1>3, <2>1, <2>2 DEF SweepInv, CleanInv, CleanRunEnds
  <2> QED BY <2>3
<1> QED BY <1>0, <1>2, <1>4, <1>5, <1>6, Frame DEF SalvageInv

\* Every summary the outputs may be held against is of the image as it is.
LEMMA DetailsAgree ==
  ASSUME IsSeq(journal), Unswept \/ Acquired
  PROVE  /\ Details = None \/ Details.digest = file["image"]
         /\ Acquired => /\ Details # None /\ Counts(Pages, Details.lost, Details.bad)
                        /\ \E ep \in {file["map"][1].ep} : Pair(Pages, ep)
         /\ journal # <<>>
<1>1. CASE Acquired
  <2>1. PICK n \in 1 .. Len(journal) :
          /\ SweptAt(n)
          /\ LET d == journal[n].d
             IN  /\ d # None /\ d.digest = file["image"] /\ Counts(Pages, d.lost, d.bad)
          /\ \E ep \in {file["map"][1].ep} : Pair(Pages, ep)
    BY <1>1 DEF Acquired
  <2>2. Details = journal[n].d
    BY <2>1, DetailsAre
  <2>3. journal # <<>>
    BY <2>1
  <2> QED BY <2>1, <2>2, <2>3
<1>2. CASE Unswept /\ ~Acquired
  BY <1>2, DetailsAre, UnsweptBegun
<1> QED BY <1>1, <1>2

LEMMA FinishStep ==
  ASSUME SalvageInv, Finish
  PROVE  SalvageInv'
<1>0. Shapes /\ Types /\ BaseInv /\ (~overlap => SweepInv /\ CleanInv) /\ IsSeq(journal)
  BY DEF SalvageInv, Shapes
<1>1. /\ core.pc = "finish" /\ core' = [core EXCEPT !.pc = "over"]
      /\ file' = file /\ path' = path /\ foreign' = foreign /\ journal' = journal
      /\ dev' = dev /\ sweeps' = sweeps /\ orphans' = orphans /\ overlap' = overlap
  BY DEF Finish, Goto
<1>2. PICK d : d = Details
  OBVIOUS
<1>3. core.ended \in {"ok", "failed", "interrupted"} /\ core \in Cores /\ "over" \in PCs
  BY <1>0 DEF Types, Cores, PCs
<1>4. core' \in Cores /\ core'.pc = "over" /\ core'.clean = core.clean
  BY <1>1, <1>3, CoresAre DEF Cores
<1>5. PICK r \in Results : report' = [result |-> r]
  BY <1>2, <1>3 DEF Finish, Results
<1>6. Types'
  BY <1>0, <1>1, <1>4, <1>5, Frame DEF Types, Orphaned
<1>7. BaseInv'
  BY <1>0, <1>1, <1>4 DEF BaseInv
<1>8. ASSUME ~overlap PROVE SweepInv' /\ CleanInv'
  <2>0. SweepInv /\ CleanInv
    BY <1>0, <1>8
  <2>1. (Unswept \/ Acquired) /\ (core.ended = "ok" => Acquired)
    BY <1>1, <2>0 DEF SweepInv
  <2>2. /\ d = None \/ d.digest = file["image"]
        /\ Acquired => /\ d # None /\ Counts(Pages, d.lost, d.bad)
                       /\ \E ep \in {file["map"][1].ep} : Pair(Pages, ep)
        /\ journal # <<>>
    BY <1>0, <1>2, <2>1, DetailsAgree
  <2>3. report' = [result |-> IF core.ended # "ok" THEN core.ended
                              ELSE IF d # None /\ d.lost + d.bad = 0 THEN "complete"
                              ELSE "partial"]
    BY <1>2, <2>2 DEF Finish
  <2>4. CASE core.ended # "ok"
    <3>1. report'.result \in {"failed", "interrupted"} /\ ~core.clean
      BY <1>1, <1>3, <2>0, <2>3, <2>4 DEF CleanInv
    <3>2. SweepInv'
      BY <1>1, <1>4, <2>2, <3>1 DEF SweepInv
    <3>3. CleanInv'
      BY <1>1, <1>4, <2>2, <3>1 DEF CleanInv, CleanRunEnds
    <3> QED BY <3>2, <3>3
  <2>5. CASE core.ended = "ok"
    <3>1. /\ report'.result \in {"complete", "partial"}
          /\ report'.result = "complete" => d.lost + d.bad = 0
      BY <2>3, <2>5
    <3>2. Counts(Pages, d.lost, d.bad) /\ \E ep \in {file["map"][1].ep} : Pair(Pages, ep)
      BY <2>1, <2>2, <2>5
    <3>3. report'.result = "complete" => \A p \in 1 .. Pages : file["map"][p + 1].st = "ok"
      BY <3>1, <3>2 DEF Counts
    <3>4. (\E ep \in {file["map"][1].ep} : Pair(Pages, ep))'
      BY <1>1, <3>2, FileFrame
    <3>5. SweepInv'
      BY <1>1, <1>4, <2>2, <3>1, <3>3, <3>4 DEF SweepInv
    <3>6. core.clean => ~dev.service
      BY <1>1, <2>0 DEF CleanInv
    <3>7. CleanInv'
      BY <1>1, <1>4, <2>2, <3>1, <3>6 DEF CleanInv, CleanRunEnds
    <3> QED BY <3>5, <3>7
  <2> QED BY <2>4, <2>5
<1> QED BY <1>0, <1>1, <1>6, <1>7, <1>8, Frame DEF SalvageInv

-----------------------------------------------------------------------------
(* The invariant, and what it says of a salvage. *)

LEMMA InitSalvage ==
  ASSUME SalvageInit
  PROVE  SalvageInv
<1>1. IsSeq(<<>>) /\ Len(<<>>) = 0
  <2>1. <<>> \in Seq({})
    OBVIOUS
  <2> QED BY <2>1 DEF IsSeq
<1>2. /\ file = [k \in Kinds |-> <<>>] /\ journal = <<>> /\ core = Off /\ sweeps = <<>>
      /\ report = NoReport /\ foreign = [k \in Kinds |-> "kept"] /\ dev = NormalMode
      /\ path \in [Kinds -> {"none", "other"}] /\ orphans = {} /\ overlap = FALSE
  BY DEF SalvageInit
<1>3. file["map"] = <<>> /\ file["image"] = <<>>
  BY <1>2 DEF Kinds
<1>4. Shapes
  BY <1>1, <1>2 DEF Shapes
<1>5. core \in Cores /\ core.pc = "off" /\ core.ended = "ok" /\ core.clean
  BY <1>2 DEF Off, Cores, PCs
<1>6. Types
  <2>1. path \in [Kinds -> {"none", "other", "own", "linked"}]
    BY <1>2
  <2>2. Lengths
    BY <1>1, <1>3, SalvageAssumption DEF Lengths
  <2> QED BY <1>2, <1>5, <2>1, <2>2 DEF Types, NoReport, Results, Modes, NormalMode, Orphaned
<1>7. BaseInv
  BY <1>2, <1>5 DEF BaseInv
<1>8. SweepInv
  BY <1>2, <1>3, <1>5 DEF SweepInv, NoReport, Empty
<1>9. CleanInv
  BY <1>2, <1>5 DEF CleanInv, CleanRunEnds, NoReport
<1> QED BY <1>4, <1>6, <1>7, <1>8, <1>9 DEF SalvageInv

LEMMA SalvageStep ==
  ASSUME SalvageInv, [SalvageNext]_salvageVars
  PROVE  SalvageInv'
<1>1. CASE Start
  BY <1>1, StartStep
<1>2. CASE CreateImage \/ CreateMap
  BY <1>2, CreateStep
<1>3. CASE Bind
  BY <1>3, BindStep
<1>4. CASE Act
  BY <1>4, ActStep
<1>5. CASE ActFails \/ Interrupt
  BY <1>5, FailStep
<1>6. CASE SweepStart
  BY <1>6, SweepStartStep
<1>7. ASSUME NEW i \in 1 .. Len(sweeps), SweepPage(i) \/ SweepEnd(i) \/ SweepDies(i)
      PROVE  SalvageInv'
  BY <1>7, SweepPageStep, SweepEndStep, SweepDiesStep
<1>8. CASE Recover
  BY <1>8, RecoverStep
<1>9. CASE AllDone
  BY <1>9, AllDoneStep
<1>10. CASE Finish
  BY <1>10, FinishStep
<1>11. CASE Resume
  BY <1>11, ResumeStep
<1>12. CASE ReopenImage \/ ReopenMap
  BY <1>12, ReopenStep
<1>13. CASE Restart
  BY <1>13, RestartStep
<1>14. ASSUME NEW w \in orphans, OrphanPage(w) \/ OrphanEnd(w) \/ OrphanDies(w)
       PROVE  SalvageInv'
  BY <1>14, OrphanStep
<1>15. CASE Crash \/ Blackout
  BY <1>15, DownStep
<1>16. CASE Meddle
  BY <1>16, MeddleStep
<1>17. CASE UNCHANGED salvageVars
  <2>1. /\ path' = path /\ file' = file /\ foreign' = foreign /\ journal' = journal
        /\ core' = core /\ sweeps' = sweeps /\ dev' = dev /\ report' = report
        /\ orphans' = orphans /\ overlap' = overlap
    BY <1>17 DEF salvageVars
  <2>2. Types' = Types /\ CleanInv' = CleanInv
    BY <2>1, Frame DEF Types, Orphaned, CleanInv, CleanRunEnds
  <2>3. \A w : Progress(w)' = Progress(w)
    BY <2>1, FileFrame DEF Progress
  <2>4. Unswept' = Unswept /\ Acquired' = Acquired /\ Empty' = Empty /\ Shapes' = Shapes
    BY <2>1, Frame
  <2>5. BaseInv' = BaseInv
    BY <2>1, <2>4 DEF BaseInv
  <2>6. SweepInv' = SweepInv
    BY <2>1, <2>3, <2>4, FileFrame DEF SweepInv
  <2> QED BY <2>1, <2>2, <2>4, <2>5, <2>6 DEF SalvageInv
<1> QED
  BY <1>1, <1>2, <1>3, <1>4, <1>5, <1>6, <1>7, <1>8, <1>9, <1>10, <1>11, <1>12,
     <1>13, <1>14, <1>15, <1>16, <1>17 DEF SalvageNext

LEMMA SalvageSays ==
  ASSUME SalvageInv
  PROVE  SalvageTrue
<1>0. Types /\ BaseInv /\ (~overlap => SweepInv /\ CleanInv)
  BY DEF SalvageInv
<1>1. \A i \in 1 .. Len(sweeps) : sweeps[i].page \in 0 .. Pages
  BY <1>0, Sweeping
<1>2. core.pc = "sweeping" <=> sweeps # <<>>
  <2>1. ASSUME NEW w, sweeps = <<w>> PROVE sweeps # <<>>
    BY <2>1
  <2> QED BY <1>0, <2>1 DEF BaseInv
<1>3. SalvageTypeOK
  <2>1. core.pc \in PCs /\ core.idx \in 0 .. Len(Actions) + 1
    BY <1>0 DEF Types, Cores, Actions
  <2>2. \A w \in orphans : w.page \in 0 .. Pages
    BY <1>0 DEF Types, Orphaned
  <2> QED BY <1>0, <1>1, <1>2, <2>1, <2>2 DEF SalvageTypeOK, Types, Lengths, Modes
<1>4. OneSweep
  BY <1>0 DEF OneSweep, SweepInv, Pair
<1>5. DigestAgrees
  BY <1>0 DEF DigestAgrees, SweepInv
<1>6. CleanRunEnds
  BY <1>0 DEF CleanRunEnds, CleanInv
<1>7. OthersUntouched
  BY <1>0 DEF Types, OthersUntouched
<1> QED BY <1>3, <1>4, <1>5, <1>6, <1>7 DEF SalvageTrue

\* What a salvage reports as acquired is one sweep, whatever crashed, was resumed,
\* moved or linked before, as long as no backend that outlived its core has
\* written since the image was cut: image and map agree cell by cell, no earlier
\* digest is held against outputs that were cut since, and a command without a
\* fault acquires the medium.  In every run no file of another is created over,
\* cut or removed: the checks of reopen_salvage_output and create_new see to it
\* (cmd_salvage, cmd_resume_salvage, finish_salvage_run; physical.rs).
THEOREM SalvageHolds == SalvageSpec => []SalvageTrue
<1>1. SalvageInit => SalvageInv
  BY InitSalvage
<1>2. SalvageInv /\ [SalvageNext]_salvageVars => SalvageInv'
  BY SalvageStep
<1>3. SalvageInv => SalvageTrue
  BY SalvageSays
<1> QED BY <1>1, <1>2, <1>3, PTL DEF SalvageSpec
=============================================================================
