---------------------------- MODULE UsbBotProofs ----------------------------
(***************************************************************************)
(* Proofs about UsbBot, for any number of devices and of commands, whatever*)
(* the devices answer, however late, and whenever the host gives up: a     *)
(* command that succeeds was completed by its own device, with the units   *)
(* that command moved, over the one interface that is claimed.             *)
(*                                                                         *)
(* The argument.  A tag is handed out once, so a status wrapper with the   *)
(* tag of the command in progress is the answer to it, and says what the   *)
(* device did.  Left to show is that the data read before it are that      *)
(* command's own.  A device answers in order and each answer ends with its *)
(* wrapper, so what an abandoned command left in the pipe ends with a      *)
(* wrapper of another tag (Behind).  Either the host still has that one    *)
(* ahead of it when it asks for a wrapper, and fails on it, or it read it  *)
(* as data (Spoiled): then its next transfer is a data packet, which is no *)
(* wrapper, or a wrapper that claims no data for a command that read some. *)
(*                                                                         *)
(* The second half is about the trace importer (CaptureInv): the records   *)
(* it emits are of commands that were on the bus, whatever the capture     *)
(* lost.                                                                   *)
(***************************************************************************)
EXTENDS UsbBot, TLAPS

(***************************************************************************)
(* The inductive invariant, device by device: h is the host's side, q the  *)
(* bulk IN pipe, c the OUT data stage, T what the device did, l the last   *)
(* result, n the number of commands submitted on the bus.                  *)
(***************************************************************************)
IsSeq(s) == \E S : s \in Seq(S)
Wrapper(f) == f.kind = "csw"
Bare(f) == f.kind \in {"empty", "stall"}

\* The k-th tag a device hands out, counted from zero.
Nth(k) == IF FirstTag + k <= MaxTag THEN FirstTag + k ELSE FirstTag + k - MaxTag

\* The counter is ahead of every tag in use.
Numbered(h, T, n) ==
  \E k \in 0 .. n :
    /\ h.next = Nth(k)
    /\ \A t \in DOMAIN T : \E j \in 0 .. k - 1 : t = Nth(j)
    /\ h.pc # "idle" => k > 0 /\ h.tag = Nth(k - 1)

\* Every answer in the pipe is to a known command and ends with its wrapper.
Ordered(q, T) ==
  /\ \A i \in 1 .. Len(q) : Wrapper(q[i]) => q[i].tag \in DOMAIN T
  /\ q # <<>> => Wrapper(q[Len(q)])

\* A wrapper for the command in progress says what the device did.
Tells(f, h, T) ==
  f.tag = h.tag => T[h.tag] = [n |-> h.len - f.residue, status |-> f.status]

\* A command whose data the device still takes has no wrapper yet.
Taking(h, q, c, T, l) ==
  c.left > 0 =>
    /\ c.tag \in DOMAIN T /\ c.csw.tag = c.tag /\ Wrapper(c.csw)
    /\ \A i \in 1 .. Len(q) : Wrapper(q[i]) => q[i].tag # c.tag
    /\ l.ok => l.tag # c.tag
    /\ h.pc # "idle" /\ c.tag = h.tag =>
         \E m \in Int : /\ T[h.tag] = [n |-> m, status |-> c.csw.status]
                        /\ m + c.left = h.len - c.csw.residue

\* What was read and what is in the pipe belong to the command in progress.
Own(h, q) ==
  /\ \A i \in 1 .. Len(h.got) : h.got[i] = h.tag
  /\ \A i \in 1 .. Len(q) : ~Bare(q[i]) => q[i].tag = h.tag

\* The wrapper of an abandoned command is still ahead.
Behind(h, q) ==
  /\ \E i \in 1 .. Len(q) - 1 : Wrapper(q[i])
  /\ \A i \in 1 .. Len(q) - 1 : Wrapper(q[i]) => q[i].tag # h.tag
  /\ \A i \in 1 .. Len(q) - 1 :
       Wrapper(q[i]) /\ (\A j \in i + 1 .. Len(q) - 1 : ~Wrapper(q[j])) =>
         q[Len(q)].residue = h.len \/ q[i + 1].kind = "data"

\* That wrapper was read as data.
Spoiled(h, q) ==
  /\ h.pc = "csw" /\ h.got # <<>>
  /\ \A i \in 1 .. Len(q) - 1 : ~Wrapper(q[i])
  /\ q # <<>> => q[Len(q)].residue = h.len \/ q[1].kind = "data"

\* The command in progress.
InProgress(h, q, T) ==
  /\ h.pc = "cbw" => h.tag \notin DOMAIN T /\ h.got = <<>>
  /\ h.pc = "in" => h.dir = "from_device"
  /\ h.pc = "out" => h.dir = "to_device"
  /\ h.dir # "from_device" => \A i \in 1 .. Len(h.got) : h.got[i] = h.tag
  /\ h.pc # "idle" /\ h.tag \in DOMAIN T =>
       /\ \A i \in 1 .. Len(q) : Wrapper(q[i]) => Tells(q[i], h, T)
       /\ h.dir = "from_device" => Own(h, q) \/ Behind(h, q) \/ Spoiled(h, q)

\* The result of the last command, as OkIsOurs says it.
Told(T, l) ==
  l.ok => /\ l.tag \in DOMAIN T
          /\ T[l.tag] = [n |-> Len(l.got), status |-> 0]
          /\ \A i \in DOMAIN l.got : l.got[i] = l.tag

\* Shapes.
Stages == {"idle", "cbw", "in", "out", "csw"}
Hosts(S) == [pc : Stages, next : Nat, tag : Nat, dir : Directions, len : Nat, got : Seq(S),
             stalled : BOOLEAN, retried : BOOLEAN]
Takers(S) == [tag : Nat, left : Nat, csw : S]
Shaped(h, q, c) ==
  /\ \E S : h \in Hosts(S)
  /\ \E S : c \in Takers(S)
  /\ IsSeq(q)

LinkInv(h, q, c, T, l, n) ==
  /\ Shaped(h, q, c) /\ Numbered(h, T, n) /\ Ordered(q, T) /\ Taking(h, q, c, T, l)
  /\ InProgress(h, q, T) /\ Told(T, l)

Mapped ==
  /\ DOMAIN bot = Devices /\ DOMAIN last = Devices /\ DOMAIN dev = Devices
  /\ DOMAIN inq = Devices /\ DOMAIN truth = Devices
Linked(d) == LinkInv(bot[d], inq[d], dev[d], truth[d], last[d], submitted)
UsbInv ==
  /\ Mapped /\ submitted \in 0 .. MaxCommands
  /\ \A d \in Devices : Linked(d)

-----------------------------------------------------------------------------
(* Sequences. *)

LEMMA SeqLen ==
  ASSUME NEW s, IsSeq(s)
  PROVE  Len(s) \in Nat /\ DOMAIN s = 1 .. Len(s) /\ (Len(s) = 0 <=> s = <<>>)
  BY DEF IsSeq

LEMMA SeqAppend ==
  ASSUME NEW s, IsSeq(s), NEW e
  PROVE  /\ IsSeq(Append(s, e)) /\ Len(Append(s, e)) = Len(s) + 1 /\ Append(s, e) # <<>>
         /\ \A i \in 1 .. Len(s) : Append(s, e)[i] = s[i]
         /\ Append(s, e)[Len(s) + 1] = e
<1>1. PICK S : s \in Seq(S)
  BY DEF IsSeq
<1> DEFINE T == S \cup {e}
<1>2. s \in Seq(T) /\ e \in T
  BY <1>1
<1>3. Append(s, e) \in Seq(T)
  BY <1>2
<1> HIDE DEF T
<1>4. Len(Append(s, e)) = Len(s) + 1 /\ Len(s) \in Nat
  BY <1>2
<1> QED BY <1>2, <1>3, <1>4 DEF IsSeq

LEMMA SeqConcat ==
  ASSUME NEW s, IsSeq(s), NEW t, IsSeq(t)
  PROVE  /\ IsSeq(s \o t) /\ Len(s \o t) = Len(s) + Len(t)
         /\ \A i \in 1 .. Len(s) : (s \o t)[i] = s[i]
         /\ \A i \in 1 .. Len(t) : (s \o t)[Len(s) + i] = t[i]
<1>1. PICK S : s \in Seq(S)
  BY DEF IsSeq
<1>2. PICK R : t \in Seq(R)
  BY DEF IsSeq
<1> DEFINE U == S \cup R
<1>3. s \in Seq(U) /\ t \in Seq(U)
  BY <1>1, <1>2
<1> HIDE DEF U
<1>4. s \o t \in Seq(U)
  BY <1>3
<1> QED BY <1>3, <1>4 DEF IsSeq

\* What is left when the first frame is read.
Rest(q, r) ==
  /\ Len(q) \in Nat \ {0} /\ Len(r) = Len(q) - 1 /\ (r # <<>> <=> Len(q) > 1)
  /\ \A i \in 1 .. Len(q) - 1 : r[i] = q[i + 1]

LEMMA SeqTail ==
  ASSUME NEW s, IsSeq(s), s # <<>>
  PROVE  IsSeq(Tail(s)) /\ Head(s) = s[1] /\ Rest(s, Tail(s))
<1>1. PICK S : s \in Seq(S)
  BY DEF IsSeq
<1>2. Tail(s) \in Seq(S) /\ Len(Tail(s)) = Len(s) - 1 /\ Len(s) \in Nat \ {0}
  BY <1>1
<1>3. \A i \in 1 .. Len(s) - 1 : Tail(s)[i] = s[i + 1]
  BY <1>1, <1>2
<1>5. Head(s) = s[1] /\ IsSeq(Tail(s))
  BY <1>1, <1>2 DEF IsSeq
<1>4. Tail(s) # <<>> <=> Len(s) > 1
  <2>1. Len(Tail(s)) = 0 <=> Tail(s) = <<>>
    BY <1>5, SeqLen
  <2> QED BY <1>2, <2>1
<1> QED BY <1>2, <1>3, <1>4, <1>5 DEF Rest

-----------------------------------------------------------------------------
(* Tags. *)

LEMMA NthIs ==
  ASSUME NEW k \in 0 .. MaxTag
  PROVE  Nth(k) \in 1 .. MaxTag /\ (k < MaxTag => NextTag(Nth(k)) = Nth(k + 1))
<1>1. MaxTag \in Nat \ {0} /\ FirstTag \in 1 .. MaxTag
  BY UsbBotAssumption
<1>2. Nth(k) \in 1 .. MaxTag
  BY <1>1 DEF Nth
<1>3. k < MaxTag => NextTag(Nth(k)) = Nth(k + 1)
  BY <1>1 DEF Nth, NextTag
<1> QED BY <1>2, <1>3

\* No tag is handed out twice before the counter has been round.
LEMMA NthOnce ==
  ASSUME NEW k \in 0 .. MaxTag - 1, NEW j \in 0 .. k - 1
  PROVE  Nth(j) # Nth(k)
  BY UsbBotAssumption DEF Nth

-----------------------------------------------------------------------------
(* The pipe, after its first frame was read. *)

LEMMA OrderedRest ==
  ASSUME NEW q, NEW r, NEW T, Ordered(q, T), Rest(q, r)
  PROVE  Ordered(r, T)
<1>1. \A i \in 1 .. Len(r) : i + 1 \in 1 .. Len(q) /\ r[i] = q[i + 1]
  BY DEF Rest
<1>2. r # <<>> => r[Len(r)] = q[Len(q)] /\ q # <<>>
  BY <1>1 DEF Rest
<1> QED BY <1>1, <1>2 DEF Ordered, Rest

LEMMA OwnRest ==
  ASSUME NEW h, NEW g, NEW q, NEW r, Own(h, q), Rest(q, r), g.tag = h.tag, g.got = h.got
  PROVE  Own(g, r)
<1>1. \A i \in 1 .. Len(r) : i + 1 \in 1 .. Len(q) /\ r[i] = q[i + 1]
  BY DEF Rest
<1> QED BY <1>1 DEF Own

LEMMA BehindRest ==
  ASSUME NEW h, NEW g, NEW q, NEW r, Behind(h, q), Rest(q, r), g.tag = h.tag, g.len = h.len
  PROVE  \/ Behind(g, r)
         \/ /\ Wrapper(q[1]) /\ r # <<>>
            /\ \A i \in 1 .. Len(r) - 1 : ~Wrapper(r[i])
            /\ r[Len(r)].residue = h.len \/ r[1].kind = "data"
<1>0. Len(r) = Len(q) - 1 /\ Len(q) \in Nat /\ Len(q) > 1 /\ Len(r) \in Nat \ {0} /\ r # <<>>
  BY DEF Behind, Rest
<1>1. \A i \in 1 .. Len(r) : i + 1 \in 1 .. Len(q) /\ r[i] = q[i + 1]
  BY DEF Rest
<1>2. \A i \in 1 .. Len(r) - 1 : i + 1 \in 1 .. Len(q) - 1
  BY <1>0
<1>3. \A i \in 1 .. Len(r) - 1 : Wrapper(r[i]) => r[i].tag # g.tag
  <2>1. \A i \in 1 .. Len(q) - 1 : Wrapper(q[i]) => q[i].tag # h.tag
    BY DEF Behind
  <2>2. TAKE i \in 1 .. Len(r) - 1
  <2>3. i \in 1 .. Len(r) /\ i + 1 \in 1 .. Len(q) - 1
    BY <1>0, <1>2
  <2>4. r[i] = q[i + 1]
    BY <1>1, <2>3
  <2> QED BY <2>1, <2>3, <2>4
<1>4. r[Len(r)] = q[Len(q)]
  BY <1>0, <1>1
<1>5. ASSUME NEW i \in 1 .. Len(r) - 1, Wrapper(r[i]), \A j \in i + 1 .. Len(r) - 1 : ~Wrapper(r[j])
      PROVE  r[Len(r)].residue = g.len \/ r[i + 1].kind = "data"
  <2>1. i + 1 \in 1 .. Len(q) - 1 /\ Wrapper(q[i + 1]) /\ r[i + 1] = q[i + 1 + 1]
    BY <1>0, <1>1, <1>5
  <2>2. ASSUME NEW j \in i + 1 + 1 .. Len(q) - 1
        PROVE  ~Wrapper(q[j])
    <3>1. j - 1 \in i + 1 .. Len(r) - 1 /\ j - 1 \in 1 .. Len(r) /\ (j - 1) + 1 = j
      BY <1>0
    <3>2. r[j - 1] = q[j]
      BY <1>1, <3>1
    <3> QED BY <1>5, <3>1, <3>2
  <2> QED BY <1>4, <2>1, <2>2 DEF Behind
<1>6. CASE \E i \in 1 .. Len(r) - 1 : Wrapper(r[i])
  BY <1>3, <1>5, <1>6 DEF Behind
<1>7. CASE \A i \in 1 .. Len(r) - 1 : ~Wrapper(r[i])
  <2>1. PICK i \in 1 .. Len(q) - 1 : Wrapper(q[i])
    BY DEF Behind
  <2>2. \A j \in 2 .. Len(q) - 1 : ~Wrapper(q[j])
    <3>1. TAKE j \in 2 .. Len(q) - 1
    <3>2. j - 1 \in 1 .. Len(r) - 1 /\ j - 1 \in 1 .. Len(r) /\ (j - 1) + 1 = j
      BY <1>0
    <3> QED BY <1>1, <1>7, <3>2
  <2>3. i = 1
    BY <1>0, <2>1, <2>2
  <2>4. q[Len(q)].residue = h.len \/ q[1 + 1].kind = "data"
    BY <1>0, <2>1, <2>2, <2>3 DEF Behind
  <2>5. r[1] = q[1 + 1]
    BY <1>0, <1>1
  <2> QED BY <1>0, <1>4, <1>7, <2>1, <2>3, <2>4, <2>5
<1> QED BY <1>6, <1>7

LEMMA SpoiledRest ==
  ASSUME NEW h, NEW g, NEW q, NEW r, Spoiled(h, q), Rest(q, r), q[1].kind # "data",
         g.tag = h.tag, g.len = h.len, g.got = h.got, g.pc = "csw"
  PROVE  Spoiled(g, r)
<1>0. Len(r) = Len(q) - 1 /\ Len(q) \in Nat \ {0} /\ q # <<>>
  BY DEF Rest
<1>1. \A i \in 1 .. Len(r) : i + 1 \in 1 .. Len(q) /\ r[i] = q[i + 1]
  BY DEF Rest
<1>2. \A i \in 1 .. Len(r) - 1 : ~Wrapper(r[i])
  BY <1>0, <1>1 DEF Spoiled
<1>3. r # <<>> => r[Len(r)] = q[Len(q)]
  BY <1>0, <1>1 DEF Rest
<1> QED BY <1>0, <1>2, <1>3 DEF Spoiled

-----------------------------------------------------------------------------
(* Steps that leave the device alone. *)

LEMMA TakingRest ==
  ASSUME NEW h, NEW g, NEW q, NEW r, NEW c, NEW T, NEW l, NEW m, Taking(h, q, c, T, l), r = q \/ Rest(q, r),
         g.pc # "idle" => h.pc # "idle" /\ g.tag = h.tag /\ g.len = h.len,
         c.left > 0 /\ m.ok => m.tag # c.tag
  PROVE  Taking(g, r, c, T, m)
<1>1. ASSUME NEW i \in 1 .. Len(r)
      PROVE  \E j \in 1 .. Len(q) : r[i] = q[j]
  <2>1. CASE r = q
    BY <2>1
  <2>2. CASE Rest(q, r)
    <3>1. i + 1 \in 1 .. Len(q) /\ r[i] = q[i + 1]
      BY <2>2 DEF Rest
    <3> QED BY <3>1
  <2> QED BY <2>1, <2>2
<1>2. SUFFICES ASSUME c.left > 0
               PROVE  /\ c.tag \in DOMAIN T /\ c.csw.tag = c.tag /\ Wrapper(c.csw)
                      /\ \A i \in 1 .. Len(r) : Wrapper(r[i]) => r[i].tag # c.tag
                      /\ m.ok => m.tag # c.tag
                      /\ g.pc # "idle" /\ c.tag = g.tag =>
                           \E v \in Int : /\ T[g.tag] = [n |-> v, status |-> c.csw.status]
                                          /\ v + c.left = g.len - c.csw.residue
  BY DEF Taking
<1>3. /\ c.tag \in DOMAIN T /\ c.csw.tag = c.tag /\ Wrapper(c.csw)
      /\ \A i \in 1 .. Len(q) : Wrapper(q[i]) => q[i].tag # c.tag
  BY <1>2 DEF Taking
<1>4. \A i \in 1 .. Len(r) : Wrapper(r[i]) => r[i].tag # c.tag
  BY <1>1, <1>3
<1>5. ASSUME g.pc # "idle", c.tag = g.tag
      PROVE  \E v \in Int : /\ T[g.tag] = [n |-> v, status |-> c.csw.status]
                            /\ v + c.left = g.len - c.csw.residue
  BY <1>2, <1>5 DEF Taking
<1> QED BY <1>2, <1>3, <1>4, <1>5

LEMMA HostStep ==
  ASSUME NEW h, NEW g, NEW q, NEW r, NEW c, NEW T, NEW l, NEW n, LinkInv(h, q, c, T, l, n),
         h.pc # "idle", \E S : g \in Hosts(S), g.next = h.next, g.tag = h.tag, g.len = h.len,
         IsSeq(r), r = q \/ Rest(q, r), InProgress(g, r, T)
  PROVE  LinkInv(g, r, c, T, l, n)
<1>1. Shaped(g, r, c)
  BY DEF LinkInv, Shaped
<1>2. Numbered(g, T, n)
  BY DEF LinkInv, Numbered
<1>3. Ordered(r, T)
  BY OrderedRest DEF LinkInv
<1>4. Taking(g, r, c, T, l)
  <2>1. c.left > 0 /\ l.ok => l.tag # c.tag
    BY DEF LinkInv, Taking
  <2>2. Taking(h, q, c, T, l)
    BY DEF LinkInv
  <2> QED BY <2>1, <2>2, TakingRest
<1> QED BY <1>1, <1>2, <1>3, <1>4 DEF LinkInv

LEMMA HostDone ==
  ASSUME NEW h, NEW q, NEW r, NEW c, NEW T, NEW l, NEW m, NEW n, LinkInv(h, q, c, T, l, n),
         IsSeq(r), r = q \/ Rest(q, r), Told(T, m), c.left > 0 /\ m.ok => m.tag # c.tag
  PROVE  LinkInv(Idle(h.next), r, c, T, m, n)
<1> DEFINE g == Idle(h.next)
<1>0. /\ g.pc = "idle" /\ g.next = h.next /\ g.dir = "none" /\ g.got = <<>>
      /\ g.tag = 0 /\ g.len = 0 /\ g.stalled = FALSE /\ g.retried = FALSE
  BY DEF Idle
<1>1. Shaped(g, r, c)
  <2>1. PICK S : h \in Hosts(S)
    BY DEF LinkInv, Shaped
  <2>2. h.next \in Nat /\ <<>> \in Seq(S) /\ "idle" \in Stages /\ "none" \in Directions
    BY <2>1 DEF Hosts, Stages, Directions
  <2>3. g \in Hosts(S)
    BY <2>2 DEF Hosts, Idle
  <2> QED BY <2>3 DEF LinkInv, Shaped
<1>2. Numbered(g, T, n)
  BY <1>0 DEF LinkInv, Numbered
<1>3. Ordered(r, T)
  BY OrderedRest DEF LinkInv
<1>4. Taking(g, r, c, T, m)
  <2>2. Taking(h, q, c, T, l)
    BY DEF LinkInv
  <2> HIDE DEF g
  <2> QED BY <1>0, <2>2, TakingRest
<1>5. InProgress(g, r, T)
  BY <1>0 DEF InProgress
<1> QED BY <1>1, <1>2, <1>3, <1>4, <1>5 DEF LinkInv

\* Timeout, and every read that ends in an error.
LEMMA GivesUp ==
  ASSUME NEW h, NEW q, NEW r, NEW c, NEW T, NEW l, NEW n, LinkInv(h, q, c, T, l, n),
         r = q \/ (q # <<>> /\ r = Tail(q))
  PROVE  LinkInv(Idle(h.next), r, c, T, Failed, n)
<1>1. IsSeq(q)
  BY DEF LinkInv, Shaped
<1>2. IsSeq(r) /\ (r = q \/ Rest(q, r))
  BY <1>1, SeqTail
<1>3. ~Failed.ok
  BY DEF Failed
<1>4. Told(T, Failed)
  BY <1>3 DEF Told
<1> QED BY <1>2, <1>3, <1>4, HostDone

\* What the wrappers still in the pipe say does not change.
LEMMA TellsRest ==
  ASSUME NEW h, NEW g, NEW q, NEW r, NEW T, Rest(q, r), g.tag = h.tag, g.len = h.len,
         \A i \in 1 .. Len(q) : Wrapper(q[i]) => Tells(q[i], h, T)
  PROVE  \A i \in 1 .. Len(r) : Wrapper(r[i]) => Tells(r[i], g, T)
<1>1. TAKE i \in 1 .. Len(r)
<1>2. i + 1 \in 1 .. Len(q) /\ r[i] = q[i + 1]
  BY DEF Rest
<1> QED BY <1>2 DEF Tells

LEMMA ReadDataStep ==
  ASSUME NEW h, NEW q, NEW c, NEW T, NEW l, NEW n, LinkInv(h, q, c, T, l, n),
         h.pc = "in", q # <<>>, Head(q).kind # "stall", NEW pc \in {"in", "csw"},
         Head(q).kind # "data" => pc = "csw",
         NEW got, got = IF Head(q).kind = "empty" THEN h.got ELSE Append(h.got, Head(q).tag)
  PROVE  LinkInv([h EXCEPT !.got = got, !.pc = pc], Tail(q), c, T, l, n)
<1> DEFINE f == Head(q)
           r == Tail(q)
           g == [h EXCEPT !.got = got, !.pc = pc]
<1>1. PICK S : h \in Hosts(S)
  BY DEF LinkInv, Shaped
<1>2. IsSeq(q) /\ IsSeq(r) /\ f = q[1] /\ Rest(q, r)
  BY SeqTail DEF LinkInv, Shaped
<1>3. /\ g.pc = pc /\ g.got = got /\ g.next = h.next /\ g.tag = h.tag /\ g.dir = h.dir
      /\ g.len = h.len /\ g.stalled = h.stalled /\ g.retried = h.retried
  BY <1>1 DEF Hosts
<1>4. IsSeq(h.got)
  BY <1>1 DEF Hosts, IsSeq
<1>5. IsSeq(got)
  BY <1>4, SeqAppend
<1>6. PICK U : got \in Seq(U)
  BY <1>5 DEF IsSeq
<1>7. g \in Hosts(U)
  BY <1>1, <1>6 DEF Hosts, Stages
<1> HIDE DEF f, r, g
<1>8. h.dir = "from_device" /\ InProgress(h, q, T)
  BY DEF LinkInv, InProgress
<1>9. ASSUME h.tag \in DOMAIN T
      PROVE  Own(g, r) \/ Behind(g, r) \/ Spoiled(g, r)
  <2>1. Own(h, q) \/ Behind(h, q)
    BY <1>8, <1>9 DEF InProgress, Spoiled
  <2>2. CASE Own(h, q)
    <3>1. 1 \in 1 .. Len(q)
      BY <1>2 DEF Rest
    <3>2. f.kind # "empty" => f.tag = h.tag
      BY <1>2, <2>2, <3>1 DEF Own, Bare, f
    <3>3. \A i \in 1 .. Len(got) : got[i] = h.tag
      <4>1. CASE f.kind = "empty"
        BY <2>2, <4>1 DEF Own, f
      <4>2. CASE f.kind # "empty"
        <5>1. got = Append(h.got, f.tag)
          BY <4>2 DEF f
        <5>2. Len(h.got) \in Nat
          BY <1>4, SeqLen
        <5>3. \A i \in 1 .. Len(h.got) : h.got[i] = h.tag
          BY <2>2 DEF Own
        <5>4. /\ Len(got) = Len(h.got) + 1 /\ got[Len(h.got) + 1] = f.tag
              /\ \A i \in 1 .. Len(h.got) : got[i] = h.got[i]
          BY <1>4, <5>1, SeqAppend
        <5> QED BY <3>2, <4>2, <5>2, <5>3, <5>4
      <4> QED BY <4>1, <4>2
    <3>4. Own([h EXCEPT !.got = h.got], r)
      BY <1>1, <1>2, <2>2, OwnRest DEF Hosts
    <3>5. \A i \in 1 .. Len(r) : ~Bare(r[i]) => r[i].tag = h.tag
      BY <1>1, <3>4 DEF Own, Hosts
    <3> QED BY <1>3, <3>3, <3>5 DEF Own
  <2>3. CASE Behind(h, q)
    <3>1. CASE Behind(g, r)
      BY <3>1
    <3>2. CASE /\ Wrapper(q[1]) /\ r # <<>>
               /\ \A i \in 1 .. Len(r) - 1 : ~Wrapper(r[i])
               /\ r[Len(r)].residue = h.len \/ r[1].kind = "data"
      <4>1. f.kind = "csw" /\ pc = "csw"
        BY <1>2, <3>2 DEF Wrapper, f
      <4>2. got = Append(h.got, f.tag)
        BY <4>1 DEF f
      <4>3. got # <<>>
        BY <1>4, <4>2, SeqAppend
      <4> QED BY <1>3, <3>2, <4>1, <4>3 DEF Spoiled
    <3> QED BY <1>2, <1>3, <2>3, <3>1, <3>2, BehindRest
  <2> QED BY <2>1, <2>2, <2>3
<1>10. ASSUME h.tag \in DOMAIN T
       PROVE  \A i \in 1 .. Len(r) : Wrapper(r[i]) => Tells(r[i], g, T)
  BY <1>2, <1>3, <1>8, <1>10, TellsRest DEF InProgress
<1>11. InProgress(g, r, T)
  BY <1>3, <1>8, <1>9, <1>10 DEF InProgress
<1>12. LinkInv(g, r, c, T, l, n)
  BY <1>2, <1>3, <1>7, <1>11, HostStep
<1> QED BY <1>12 DEF g, r

LEMMA ReadStalledStep ==
  ASSUME NEW h, NEW q, NEW c, NEW T, NEW l, NEW n, LinkInv(h, q, c, T, l, n),
         h.pc = "in", q # <<>>, Head(q) = Stall
  PROVE  LinkInv([h EXCEPT !.pc = "csw", !.stalled = TRUE], Tail(q), c, T, l, n)
<1> DEFINE r == Tail(q)
           g == [h EXCEPT !.pc = "csw", !.stalled = TRUE]
<1>1. PICK S : h \in Hosts(S)
  BY DEF LinkInv, Shaped
<1>2. IsSeq(q) /\ IsSeq(r) /\ q[1] = Stall /\ Rest(q, r)
  BY SeqTail DEF LinkInv, Shaped
<1>3. /\ g.pc = "csw" /\ g.got = h.got /\ g.next = h.next /\ g.tag = h.tag /\ g.dir = h.dir
      /\ g.len = h.len
  BY <1>1 DEF Hosts
<1>4. g \in Hosts(S)
  BY <1>1 DEF Hosts, Stages
<1> HIDE DEF r, g
<1>5. h.dir = "from_device" /\ InProgress(h, q, T)
  BY DEF LinkInv, InProgress
<1>6. ASSUME h.tag \in DOMAIN T
      PROVE  Own(g, r) \/ Behind(g, r)
  <2>1. Own(h, q) \/ Behind(h, q)
    BY <1>5, <1>6 DEF InProgress, Spoiled
  <2>2. ~Wrapper(q[1])
    BY <1>2 DEF Wrapper, Stall
  <2> QED BY <1>2, <1>3, <2>1, <2>2, OwnRest, BehindRest
<1>7. ASSUME h.tag \in DOMAIN T
      PROVE  \A i \in 1 .. Len(r) : Wrapper(r[i]) => Tells(r[i], g, T)
  BY <1>2, <1>3, <1>5, <1>7, TellsRest DEF InProgress
<1>8. InProgress(g, r, T)
  BY <1>3, <1>5, <1>6, <1>7 DEF InProgress
<1>9. LinkInv(g, r, c, T, l, n)
  BY <1>2, <1>3, <1>4, <1>8, HostStep
<1> QED BY <1>9 DEF g, r

LEMMA CswStalledStep ==
  ASSUME NEW h, NEW q, NEW c, NEW T, NEW l, NEW n, LinkInv(h, q, c, T, l, n),
         h.pc = "csw", q # <<>>, Head(q) = Stall
  PROVE  LinkInv([h EXCEPT !.retried = TRUE], Tail(q), c, T, l, n)
<1> DEFINE r == Tail(q)
           g == [h EXCEPT !.retried = TRUE]
<1>1. PICK S : h \in Hosts(S)
  BY DEF LinkInv, Shaped
<1>2. IsSeq(q) /\ IsSeq(r) /\ q[1] = Stall /\ Rest(q, r)
  BY SeqTail DEF LinkInv, Shaped
<1>3. /\ g.pc = "csw" /\ g.got = h.got /\ g.next = h.next /\ g.tag = h.tag /\ g.dir = h.dir
      /\ g.len = h.len
  BY <1>1 DEF Hosts
<1>4. g \in Hosts(S)
  BY <1>1 DEF Hosts
<1> HIDE DEF r, g
<1>5. InProgress(h, q, T)
  BY DEF LinkInv
<1>6. ASSUME h.tag \in DOMAIN T, h.dir = "from_device"
      PROVE  Own(g, r) \/ Behind(g, r) \/ Spoiled(g, r)
  <2>1. Own(h, q) \/ Behind(h, q) \/ Spoiled(h, q)
    BY <1>5, <1>6 DEF InProgress
  <2>2. ~Wrapper(q[1]) /\ q[1].kind # "data"
    BY <1>2 DEF Wrapper, Stall
  <2> QED BY <1>2, <1>3, <2>1, <2>2, OwnRest, BehindRest, SpoiledRest
<1>7. ASSUME h.tag \in DOMAIN T
      PROVE  \A i \in 1 .. Len(r) : Wrapper(r[i]) => Tells(r[i], g, T)
  BY <1>2, <1>3, <1>5, <1>7, TellsRest DEF InProgress
<1>8. InProgress(g, r, T)
  BY <1>3, <1>5, <1>6, <1>7 DEF InProgress
<1>9. LinkInv(g, r, c, T, l, n)
  BY <1>2, <1>3, <1>4, <1>8, HostStep
<1> QED BY <1>9 DEF g, r

LEMMA WriteStalledStep ==
  ASSUME NEW h, NEW q, NEW c, NEW T, NEW l, NEW n, LinkInv(h, q, c, T, l, n), h.pc = "out"
  PROVE  LinkInv([h EXCEPT !.pc = "csw", !.stalled = TRUE], q, c, T, l, n)
<1> DEFINE g == [h EXCEPT !.pc = "csw", !.stalled = TRUE]
<1>1. PICK S : h \in Hosts(S)
  BY DEF LinkInv, Shaped
<1>3. /\ g.pc = "csw" /\ g.got = h.got /\ g.next = h.next /\ g.tag = h.tag /\ g.dir = h.dir
      /\ g.len = h.len
  BY <1>1 DEF Hosts
<1>4. g \in Hosts(S)
  BY <1>1 DEF Hosts, Stages
<1> HIDE DEF g
<1>5. InProgress(h, q, T) /\ IsSeq(q) /\ h.dir = "to_device"
  BY DEF LinkInv, Shaped, InProgress
<1>6. InProgress(g, q, T)
  BY <1>3, <1>5 DEF InProgress, Tells
<1>7. LinkInv(g, q, c, T, l, n)
  BY <1>3, <1>4, <1>5, <1>6, HostStep
<1> QED BY <1>7 DEF g

\* The end of execute: a wrapper that is taken for an answer is the answer.
LEMMA ReadCswStep ==
  ASSUME NEW h, NEW q, NEW c, NEW T, NEW l, NEW n, LinkInv(h, q, c, T, l, n),
         h.pc = "csw", q # <<>>, Head(q).kind = "csw"
  PROVE  LinkInv(Idle(h.next), Tail(q), c, T, Result(h, Head(q)), n)
<1> DEFINE f == Head(q)
           r == Tail(q)
           m == Result(h, f)
<1>1. PICK S : h \in Hosts(S)
  BY DEF LinkInv, Shaped
<1>2. IsSeq(q) /\ IsSeq(r) /\ f = q[1] /\ Rest(q, r) /\ 1 \in 1 .. Len(q)
  BY SeqTail DEF LinkInv, Shaped, Rest
<1>3. InProgress(h, q, T) /\ Ordered(q, T) /\ Taking(h, q, c, T, l) /\ Wrapper(f)
  BY DEF LinkInv, Wrapper
<1> HIDE DEF f, r
<1>4. CASE ~(CswAccepted(h, f) /\ ~h.stalled /\ f.status = 0 /\ Len(h.got) = h.len - f.residue)
  <2>1. m = Failed
    BY <1>4 DEF Result
  <2> QED BY <2>1, GivesUp DEF f, r
<1>5. CASE CswAccepted(h, f) /\ ~h.stalled /\ f.status = 0 /\ Len(h.got) = h.len - f.residue
  <2>1. m = [ok |-> TRUE, tag |-> h.tag, got |-> h.got]
    BY <1>5 DEF Result
  <2>2. f.tag = h.tag
    BY <1>5 DEF CswAccepted
  <2>3. h.tag \in DOMAIN T
    BY <1>2, <1>3, <2>2 DEF Ordered
  <2>4. T[h.tag] = [n |-> Len(h.got), status |-> 0]
    BY <1>2, <1>3, <1>5, <2>2, <2>3 DEF InProgress, Tells
  <2>5. \A i \in 1 .. Len(h.got) : h.got[i] = h.tag
    <3>1. CASE h.dir # "from_device"
      BY <1>3, <3>1 DEF InProgress
    <3>2. CASE h.dir = "from_device"
      <4>1. Own(h, q) \/ Behind(h, q) \/ Spoiled(h, q)
        BY <1>3, <2>3, <3>2 DEF InProgress
      <4>2. CASE Own(h, q)
        BY <4>2 DEF Own
      <4>3. CASE Behind(h, q)
        BY <1>2, <1>3, <2>2, <4>3 DEF Behind
      <4>4. CASE Spoiled(h, q)
        <5>1. Len(q) = 1
          BY <1>2, <1>3, <4>4 DEF Spoiled, Rest
        <5>2. f.residue = h.len
          BY <1>2, <1>3, <4>4, <5>1 DEF Spoiled, Wrapper
        <5>3. Len(h.got) = 0
          BY <1>1, <1>5, <5>2 DEF Hosts
        <5>4. h.got # <<>> /\ IsSeq(h.got)
          BY <1>1, <4>4 DEF Spoiled, Hosts, IsSeq
        <5> QED BY <5>3, <5>4, SeqLen
      <4> QED BY <4>1, <4>2, <4>3, <4>4
    <3> QED BY <3>1, <3>2
  <2>6. IsSeq(h.got)
    BY <1>1 DEF Hosts, IsSeq
  <2>7. Told(T, m)
    BY <2>1, <2>3, <2>4, <2>5, <2>6, SeqLen DEF Told
  <2>8. c.left > 0 => m.tag # c.tag
    BY <1>2, <1>3, <2>1, <2>2 DEF Taking
  <2> HIDE DEF m
  <2>9. LinkInv(Idle(h.next), r, c, T, m, n)
    BY <1>2, <2>7, <2>8, HostDone
  <2> QED BY <2>9 DEF m, f, r
<1> QED BY <1>4, <1>5

LEMMA SubmitStep ==
  ASSUME NEW h, NEW q, NEW c, NEW T, NEW l, NEW n \in 0 .. MaxCommands - 1,
         LinkInv(h, q, c, T, l, n), h.pc = "idle", NEW dir \in Directions, NEW len \in Nat
  PROVE  LinkInv([Idle(NextTag(h.next)) EXCEPT !.pc = "cbw", !.tag = h.next, !.dir = dir, !.len = len],
                 q, c, T, l, n + 1)
<1> DEFINE g == [Idle(NextTag(h.next)) EXCEPT !.pc = "cbw", !.tag = h.next, !.dir = dir, !.len = len]
<1>1. PICK k \in 0 .. n : /\ h.next = Nth(k)
                          /\ \A t \in DOMAIN T : \E j \in 0 .. k - 1 : t = Nth(j)
  BY DEF LinkInv, Numbered
<1>2. k \in 0 .. MaxTag - 1 /\ k + 1 \in 0 .. n + 1 /\ k + 1 \in 0 .. MaxTag /\ k < MaxTag
  BY UsbBotAssumption
<1>3. NextTag(h.next) = Nth(k + 1) /\ h.next \in Nat /\ Nth(k + 1) \in Nat
  BY <1>1, <1>2, NthIs, UsbBotAssumption
<1>4. g = [pc |-> "cbw", next |-> NextTag(h.next), tag |-> h.next, dir |-> dir, len |-> len,
           got |-> <<>>, stalled |-> FALSE, retried |-> FALSE]
  <2> DEFINE x == NextTag(h.next)
             y == h.next
  <2>1. g = [Idle(x) EXCEPT !.pc = "cbw", !.tag = y, !.dir = dir, !.len = len]
    OBVIOUS
  <2> HIDE DEF x, y, g
  <2>2. g = [pc |-> "cbw", next |-> x, tag |-> y, dir |-> dir, len |-> len,
             got |-> <<>>, stalled |-> FALSE, retried |-> FALSE]
    BY <2>1 DEF Idle
  <2> QED BY <2>2 DEF x, y
<1>5. /\ g.pc = "cbw" /\ g.next = Nth(k + 1) /\ g.tag = Nth(k) /\ g.dir = dir /\ g.len = len
      /\ g.got = <<>>
  BY <1>1, <1>3, <1>4
<1>6. g \in Hosts({})
  <2>1. <<>> \in Seq({}) /\ "cbw" \in Stages
    BY DEF Stages
  <2> QED BY <1>3, <1>4, <2>1 DEF Hosts
<1> HIDE DEF g
<1>7. g.tag \notin DOMAIN T
  BY <1>1, <1>2, <1>5, NthOnce
<1>8. Numbered(g, T, n + 1)
  <2>1. (k + 1) - 1 = k /\ k + 1 > 0 /\ \A j \in 0 .. k - 1 : j \in 0 .. (k + 1) - 1
    BY <1>2
  <2>2. \A t \in DOMAIN T : \E j \in 0 .. (k + 1) - 1 : t = Nth(j)
    BY <1>1, <2>1
  <2> QED BY <1>2, <1>5, <2>1, <2>2 DEF Numbered
<1>9. Taking(g, q, c, T, l)
  BY <1>7 DEF LinkInv, Taking
<1>10. InProgress(g, q, T)
  <2>1. \A i \in 1 .. Len(g.got) : g.got[i] = g.tag
    BY <1>5
  <2> QED BY <1>5, <1>7, <2>1 DEF InProgress
<1>11. LinkInv(g, q, c, T, l, n + 1)
  BY <1>6, <1>8, <1>9, <1>10 DEF LinkInv, Shaped
<1> QED BY <1>11 DEF g

-----------------------------------------------------------------------------
(* Steps of the device. *)

\* One packet of data of the command tag.
Packet(f, tag) == f.kind = "data" /\ f.in = TRUE /\ f.tag = tag

\* An answer: packets of the command, then its wrapper.
LEMMA ItemsAre ==
  ASSUME NEW tag, NEW len \in Nat, NEW k \in 0 .. len, NEW items \in InData(tag, k, len)
  PROVE  /\ IsSeq(items)
         /\ \A i \in 1 .. Len(items) : ~Wrapper(items[i]) /\ (~Bare(items[i]) => Packet(items[i], tag))
         /\ Len(items) >= k /\ \A i \in 1 .. k : items[i].kind = "data"
<1> DEFINE full == [i \in 1 .. k |-> DataIn(tag, FALSE)]
           short == [i \in 1 .. k |-> DataIn(tag, i = k)]
<1>0. ASSUME NEW f, Packet(f, tag)
      PROVE  ~Wrapper(f) /\ (~Bare(f) => Packet(f, tag)) /\ f.kind = "data"
  BY <1>0 DEF Wrapper, Packet
<1>1. IsSeq(full) /\ Len(full) = k /\ \A i \in 1 .. k : Packet(full[i], tag)
  <2> DEFINE D == DataIn(tag, FALSE)
  <2>1. Packet(D, tag)
    BY DEF DataIn, Packet
  <2> HIDE DEF D
  <2>2. full = [i \in 1 .. k |-> D]
    BY DEF D
  <2>3. full \in [1 .. k -> {D}] /\ \A i \in 1 .. k : full[i] = D
    BY <2>2
  <2> HIDE DEF full
  <2>4. full \in Seq({D}) /\ Len(full) = k
    BY <2>3
  <2>5. IsSeq(full)
    BY <2>4 DEF IsSeq
  <2> QED BY <2>1, <2>3, <2>4, <2>5
<1>2. IsSeq(short) /\ Len(short) = k /\ \A i \in 1 .. k : Packet(short[i], tag)
  <2> DEFINE D == {DataIn(tag, i = k) : i \in 1 .. k}
  <2>1. \A i \in 1 .. k : DataIn(tag, i = k) \in D
    OBVIOUS
  <2>2. short \in [1 .. k -> D]
    BY <2>1
  <2>3. \A i \in 1 .. k : Packet(short[i], tag)
    <3>1. TAKE i \in 1 .. k
    <3>2. short[i] = DataIn(tag, i = k)
      OBVIOUS
    <3> DEFINE b == i = k
    <3> HIDE DEF b, short
    <3>3. short[i] = DataIn(tag, b)
      BY <3>2 DEF b
    <3> QED BY <3>3 DEF DataIn, Packet
  <2> HIDE DEF D, short
  <2>4. short \in Seq(D) /\ Len(short) = k
    BY <2>2
  <2>5. IsSeq(short)
    BY <2>4 DEF IsSeq
  <2> QED BY <2>3, <2>4, <2>5
<1>3. IsSeq(<<Stall>>) /\ Len(<<Stall>>) = 1 /\ <<Stall>>[1] = Stall
  <2>1. <<Stall>> \in Seq({Stall})
    OBVIOUS
  <2> QED BY <2>1 DEF IsSeq
<1>4. IsSeq(<<EmptyPacket>>) /\ Len(<<EmptyPacket>>) = 1 /\ <<EmptyPacket>>[1] = EmptyPacket
  <2>1. <<EmptyPacket>> \in Seq({EmptyPacket})
    OBVIOUS
  <2> QED BY <2>1 DEF IsSeq
<1>5. /\ Bare(Stall) /\ ~Wrapper(Stall) /\ Bare(EmptyPacket) /\ ~Wrapper(EmptyPacket)
  BY DEF Bare, Wrapper, Stall, EmptyPacket
<1>6. \/ items = full
      \/ items = full \o <<Stall>>
      \/ k = 0 /\ items = <<EmptyPacket>>
      \/ items = short
  BY DEF InData, ShortTails, full, short
<1> HIDE DEF full, short
<1>11. ASSUME NEW t, IsSeq(t), Len(t) = k, \A i \in 1 .. k : Packet(t[i], tag)
       PROVE  /\ \A i \in 1 .. Len(t) : ~Wrapper(t[i]) /\ (~Bare(t[i]) => Packet(t[i], tag))
              /\ Len(t) >= k /\ \A i \in 1 .. k : t[i].kind = "data"
  <2>1. \A i \in 1 .. Len(t) : ~Wrapper(t[i]) /\ (~Bare(t[i]) => Packet(t[i], tag))
    BY <1>0, <1>11
  <2>2. \A i \in 1 .. k : t[i].kind = "data"
    BY <1>0, <1>11
  <2> QED BY <1>11, <2>1, <2>2
<1>7. CASE items = full
  BY <1>1, <1>7, <1>11
<1>8. CASE items = full \o <<Stall>>
  <2>0. IsSeq(full) /\ IsSeq(<<Stall>>)
    BY <1>1, <1>3
  <2>1. /\ IsSeq(items) /\ Len(items) = Len(full) + Len(<<Stall>>)
        /\ \A i \in 1 .. Len(full) : items[i] = full[i]
        /\ \A i \in 1 .. Len(<<Stall>>) : items[Len(full) + i] = <<Stall>>[i]
    <3> DEFINE e == <<Stall>>
    <3> HIDE DEF e
    <3>1. items = full \o e /\ IsSeq(full) /\ IsSeq(e)
      BY <1>8, <2>0 DEF e
    <3>2. /\ IsSeq(items) /\ Len(items) = Len(full) + Len(e)
          /\ \A i \in 1 .. Len(full) : items[i] = full[i]
          /\ \A i \in 1 .. Len(e) : items[Len(full) + i] = e[i]
      BY <3>1, SeqConcat
    <3> QED BY <3>2 DEF e
  <2>2. Len(items) = k + 1 /\ \A i \in 1 .. k : items[i] = full[i]
    BY <1>1, <1>3, <2>1
  <2>3. items[k + 1] = Stall
    <3>1. 1 \in 1 .. Len(<<Stall>>)
      BY <1>3
    <3> QED BY <1>1, <1>3, <2>1, <3>1
  <2>4. ASSUME NEW i \in 1 .. k + 1
        PROVE  ~Wrapper(items[i]) /\ (~Bare(items[i]) => Packet(items[i], tag))
    <3>1. CASE i = k + 1
      BY <1>5, <2>3, <3>1
    <3>2. CASE i # k + 1
      <4>1. i \in 1 .. k
        BY <3>2
      <4>2. Packet(items[i], tag)
        BY <1>1, <2>2, <4>1
      <4> QED BY <1>0, <4>2
    <3> QED BY <3>1, <3>2
  <2>5. \A i \in 1 .. k : items[i].kind = "data"
    BY <1>0, <1>1, <2>2
  <2> QED BY <2>1, <2>2, <2>4, <2>5
<1>9. CASE k = 0 /\ items = <<EmptyPacket>>
  BY <1>4, <1>5, <1>9
<1>10. CASE items = short
  BY <1>2, <1>10, <1>11
<1> QED BY <1>6, <1>7, <1>8, <1>9, <1>10

\* The pipe r holds old, then the answer to the command tag: k units, and csw.
Answered(r, old, tag, k, csw) ==
  /\ IsSeq(r) /\ Len(r) > Len(old) /\ r[Len(r)] = csw
  /\ \A i \in 1 .. Len(old) : r[i] = old[i]
  /\ \A i \in Len(old) + 1 .. Len(r) - 1 :
       ~Wrapper(r[i]) /\ (~Bare(r[i]) => Packet(r[i], tag))
  /\ \A i \in 1 .. k : Len(old) + i < Len(r) /\ r[Len(old) + i].kind = "data"

LEMMA AnswerIs ==
  ASSUME NEW tag, NEW len \in Nat, NEW k \in 0 .. len, NEW items \in InData(tag, k, len),
         NEW pre \in {<<>>, <<Stall>>}, NEW old, IsSeq(old), NEW csw
  PROVE  Answered(old \o items \o pre \o <<csw>>, old, tag, k, csw)
<1>1. /\ IsSeq(items)
      /\ \A i \in 1 .. Len(items) : ~Wrapper(items[i]) /\ (~Bare(items[i]) => Packet(items[i], tag))
      /\ Len(items) >= k /\ \A i \in 1 .. k : items[i].kind = "data"
  BY ItemsAre
<1>2. IsSeq(pre) /\ \A i \in 1 .. Len(pre) : ~Wrapper(pre[i]) /\ Bare(pre[i])
  <2>1. <<>> \in Seq({Stall}) /\ <<Stall>> \in Seq({Stall}) /\ Len(<<>>) = 0 /\ Len(<<Stall>>) = 1
    OBVIOUS
  <2>2. IsSeq(pre)
    BY <2>1 DEF IsSeq
  <2>3. \A i \in 1 .. Len(pre) : pre[i] = Stall
    BY <2>1
  <2> QED BY <2>2, <2>3 DEF Bare, Wrapper, Stall
<1>3. IsSeq(<<csw>>) /\ Len(<<csw>>) = 1 /\ <<csw>>[1] = csw
  <2>1. <<csw>> \in Seq({csw})
    OBVIOUS
  <2> QED BY <2>1 DEF IsSeq
<1>4. Len(old) \in Nat /\ Len(items) \in Nat /\ Len(pre) \in Nat
  BY <1>1, <1>2, SeqLen
<1> DEFINE a == old \o items
           b == a \o pre
           r == b \o <<csw>>
<1>5. /\ IsSeq(a) /\ Len(a) = Len(old) + Len(items)
      /\ \A i \in 1 .. Len(old) : a[i] = old[i]
      /\ \A i \in 1 .. Len(items) : a[Len(old) + i] = items[i]
  BY <1>1, SeqConcat
<1> HIDE DEF a
<1>6. /\ IsSeq(b) /\ Len(b) = Len(a) + Len(pre)
      /\ \A i \in 1 .. Len(a) : b[i] = a[i]
      /\ \A i \in 1 .. Len(pre) : b[Len(a) + i] = pre[i]
  <2>1. IsSeq(a) /\ IsSeq(pre)
    BY <1>2, <1>5
  <2> QED BY <2>1, SeqConcat
<1> HIDE DEF b
<1>7. /\ IsSeq(r) /\ Len(r) = Len(b) + 1
      /\ \A i \in 1 .. Len(b) : r[i] = b[i]
      /\ \A i \in 1 .. 1 : r[Len(b) + i] = <<csw>>[i]
  <2>1. IsSeq(b) /\ IsSeq(<<csw>>) /\ Len(<<csw>>) = 1
    BY <1>3, <1>6
  <2>2. /\ IsSeq(r) /\ Len(r) = Len(b) + Len(<<csw>>)
        /\ \A i \in 1 .. Len(b) : r[i] = b[i]
        /\ \A i \in 1 .. Len(<<csw>>) : r[Len(b) + i] = <<csw>>[i]
    BY <2>1, SeqConcat
  <2> HIDE DEF r
  <2> QED BY <2>1, <2>2
<1>8. r[Len(r)] = csw
  BY <1>3, <1>7
<1> HIDE DEF r
<1>9. Len(a) \in Nat /\ Len(b) \in Nat /\ Len(r) > Len(old)
  BY <1>4, <1>5, <1>6, <1>7
<1>10. \A i \in 1 .. Len(old) : r[i] = old[i]
  <2>1. TAKE i \in 1 .. Len(old)
  <2>2. i \in 1 .. Len(a) /\ i \in 1 .. Len(b)
    BY <1>4, <1>5, <1>6
  <2> QED BY <1>5, <1>6, <1>7, <2>2
<1>11. \A i \in 1 .. Len(items) : Len(old) + i \in 1 .. Len(b) /\ r[Len(old) + i] = items[i]
  <2>1. TAKE i \in 1 .. Len(items)
  <2>2. Len(old) + i \in 1 .. Len(a) /\ Len(old) + i \in 1 .. Len(b)
    BY <1>4, <1>5, <1>6
  <2> QED BY <1>5, <1>6, <1>7, <2>2
<1>12. ASSUME NEW i \in Len(old) + 1 .. Len(r) - 1
       PROVE  ~Wrapper(r[i]) /\ (~Bare(r[i]) => Packet(r[i], tag))
  <2>1. CASE i <= Len(a)
    <3>1. i - Len(old) \in 1 .. Len(items) /\ Len(old) + (i - Len(old)) = i
      BY <1>4, <1>5, <1>9, <2>1
    <3>2. r[i] = items[i - Len(old)]
      BY <1>11, <3>1
    <3> QED BY <1>1, <3>1, <3>2
  <2>2. CASE i > Len(a)
    <3>1. i - Len(a) \in 1 .. Len(pre) /\ Len(a) + (i - Len(a)) = i /\ i \in 1 .. Len(b)
      BY <1>4, <1>6, <1>7, <1>9, <2>2
    <3>2. r[i] = pre[i - Len(a)]
      BY <1>6, <1>7, <3>1
    <3> QED BY <1>2, <3>1, <3>2
  <2> QED BY <1>4, <1>5, <1>9, <2>1, <2>2
<1>13. \A i \in 1 .. k : Len(old) + i < Len(r) /\ r[Len(old) + i].kind = "data"
  <2>1. TAKE i \in 1 .. k
  <2>2. i \in 1 .. Len(items) /\ items[i].kind = "data"
    BY <1>1, <1>4
  <2>3. Len(old) + i \in 1 .. Len(b) /\ r[Len(old) + i] = items[i]
    BY <1>11, <2>2
  <2> QED BY <1>7, <1>9, <2>2, <2>3
<1>14. r = old \o items \o pre \o <<csw>>
  BY DEF r, b, a
<1>15. Answered(r, old, tag, k, csw)
  BY <1>7, <1>8, <1>9, <1>10, <1>12, <1>13 DEF Answered
<1> QED BY <1>14, <1>15

\* What the device did so far, with the outcome v of the command tag.
With(T, tag, v) == [t \in DOMAIN T \union {tag} |-> IF t = tag THEN v ELSE T[t]]

LEMMA WithIs ==
  ASSUME NEW h, NEW g, NEW T, NEW v, NEW l, NEW n, Numbered(h, T, n), h.pc = "cbw", h.tag \notin DOMAIN T,
         g.next = h.next, g.tag = h.tag, Told(T, l)
  PROVE  /\ DOMAIN With(T, h.tag, v) = DOMAIN T \union {h.tag} /\ With(T, h.tag, v)[h.tag] = v
         /\ Numbered(g, With(T, h.tag, v), n) /\ Told(With(T, h.tag, v), l)
<1> DEFINE U == With(T, h.tag, v)
<1>1. /\ DOMAIN U = DOMAIN T \union {h.tag} /\ U[h.tag] = v
      /\ \A t \in DOMAIN T : U[t] = T[t]
  BY DEF With
<1> HIDE DEF U
<1>2. Told(U, l)
  BY <1>1 DEF Told
<1>3. PICK k \in 0 .. n : /\ h.next = Nth(k)
                          /\ \A t \in DOMAIN T : \E j \in 0 .. k - 1 : t = Nth(j)
                          /\ k > 0 /\ h.tag = Nth(k - 1)
  BY DEF Numbered
<1>4. k - 1 \in 0 .. k - 1
  BY <1>3
<1>5. \A t \in DOMAIN U : \E j \in 0 .. k - 1 : t = Nth(j)
  BY <1>1, <1>3, <1>4
<1>6. Numbered(g, U, n)
  BY <1>3, <1>5 DEF Numbered
<1> QED BY <1>1, <1>2, <1>6 DEF U

\* A command without data for the device: its whole answer goes to the pipe.
LEMMA AcceptInStep ==
  ASSUME NEW h, NEW q, NEW c, NEW T, NEW l, NEW n, LinkInv(h, q, c, T, l, n),
         h.pc = "cbw", c.left = 0, h.dir # "to_device",
         NEW k \in 0 .. h.len, NEW s, NEW old \in {q, <<>>},
         NEW items \in InData(h.tag, k, h.len), NEW pre \in {<<>>, <<Stall>>},
         NEW pc \in {"csw", "in"}, pc = "in" => h.dir = "from_device"
  PROVE  LinkInv([h EXCEPT !.pc = pc], old \o items \o pre \o <<Csw(h.tag, h.len - k, s)>>,
                 c, With(T, h.tag, [n |-> k, status |-> s]), l, n)
<1> DEFINE csw == Csw(h.tag, h.len - k, s)
           r == old \o items \o pre \o <<csw>>
           v == [n |-> k, status |-> s]
           U == With(T, h.tag, v)
           g == [h EXCEPT !.pc = pc]
<1>1. PICK S : h \in Hosts(S)
  BY DEF LinkInv, Shaped
<1>2. /\ g.pc = pc /\ g.got = h.got /\ g.next = h.next /\ g.tag = h.tag /\ g.dir = h.dir
      /\ g.len = h.len
  BY <1>1 DEF Hosts
<1>3. g \in Hosts(S)
  BY <1>1 DEF Hosts, Stages
<1>4. csw.tag = h.tag /\ csw.residue = h.len - k /\ csw.status = s /\ Wrapper(csw) /\ ~Bare(csw)
  BY DEF Csw, Wrapper, Bare
<1>5. IsSeq(old)
  <2>1. <<>> \in Seq({})
    OBVIOUS
  <2> QED BY <2>1 DEF LinkInv, Shaped, IsSeq
<1>6. h.len \in Nat
  BY <1>1 DEF Hosts
<1>8. v.n = k /\ v.status = s
  OBVIOUS
<1> HIDE DEF csw, v, U, g
<1>7. /\ IsSeq(r) /\ Len(r) > Len(old) /\ r[Len(r)] = csw
      /\ \A i \in 1 .. Len(old) : r[i] = old[i]
      /\ \A i \in Len(old) + 1 .. Len(r) - 1 :
           ~Wrapper(r[i]) /\ (~Bare(r[i]) => r[i].tag = h.tag)
      /\ k > 0 => Len(old) + 1 < Len(r) /\ r[Len(old) + 1].kind = "data"
  <2>1. Answered(old \o items \o pre \o <<csw>>, old, h.tag, k, csw)
    BY <1>5, <1>6, AnswerIs
  <2>2. Answered(r, old, h.tag, k, csw)
    BY <2>1
  <2> HIDE DEF r
  <2>3. k > 0 => 1 \in 1 .. k
    OBVIOUS
  <2> QED BY <2>2, <2>3 DEF Answered, Packet
<1> HIDE DEF r
<1>9. /\ Numbered(h, T, n) /\ InProgress(h, q, T) /\ Told(T, l) /\ Ordered(q, T)
      /\ h.tag \notin DOMAIN T /\ h.got = <<>>
  BY DEF LinkInv, InProgress
<1>10. DOMAIN U = DOMAIN T \union {h.tag} /\ U[h.tag] = v /\ Numbered(g, U, n) /\ Told(U, l)
  <2>1. /\ DOMAIN With(T, h.tag, v) = DOMAIN T \union {h.tag} /\ With(T, h.tag, v)[h.tag] = v
        /\ Numbered(g, With(T, h.tag, v), n) /\ Told(With(T, h.tag, v), l)
    <3>1. h.pc = "cbw" /\ g.next = h.next /\ g.tag = h.tag
      BY <1>2
    <3> QED BY <1>9, <3>1, WithIs
  <2> QED BY <2>1 DEF U
<1>11. Len(old) \in Nat /\ Len(r) \in Nat /\ r # <<>>
  BY <1>5, <1>7, SeqLen
<1>12. \A i \in 1 .. Len(old) : Wrapper(old[i]) => old[i].tag \in DOMAIN T
  BY <1>9 DEF Ordered
<1>13. old # <<>> => Len(old) \in 1 .. Len(old) /\ Wrapper(old[Len(old)])
  BY <1>5, <1>9, <1>11, SeqLen DEF Ordered
<1>14. ASSUME NEW i \in 1 .. Len(r), Wrapper(r[i])
       PROVE  \/ i = Len(r)
              \/ i \in 1 .. Len(old) /\ r[i].tag \in DOMAIN T
  <2>1. CASE i <= Len(old)
    <3>1. i \in 1 .. Len(old) /\ r[i] = old[i]
      BY <1>7, <1>11, <2>1
    <3> QED BY <1>12, <1>14, <3>1
  <2>2. CASE i > Len(old) /\ i # Len(r)
    <3>1. i \in Len(old) + 1 .. Len(r) - 1
      BY <1>11, <2>2
    <3> QED BY <1>7, <1>14, <3>1
  <2> QED BY <1>11, <2>1, <2>2
<1>15. Ordered(r, U)
  BY <1>4, <1>7, <1>10, <1>14 DEF Ordered
<1>16. \A i \in 1 .. Len(r) : Wrapper(r[i]) => Tells(r[i], g, U)
  <2>1. TAKE i \in 1 .. Len(r)
  <2>2. SUFFICES ASSUME Wrapper(r[i]), r[i].tag = h.tag
                 PROVE  U[h.tag] = [n |-> h.len - r[i].residue, status |-> r[i].status]
    BY <1>2 DEF Tells
  <2>3. r[i] = csw
    BY <1>7, <1>9, <1>14, <2>2
  <2>4. h.len - r[i].residue = k /\ r[i].status = s
    BY <1>4, <1>6, <2>3
  <2> QED BY <1>10, <2>4 DEF v
<1>17. \A i \in 1 .. Len(h.got) : h.got[i] = h.tag
  BY <1>9
<1>18. CASE old = <<>>
  <2>1. Len(old) = 0
    BY <1>18
  <2>2. ASSUME NEW i \in 1 .. Len(r), ~Bare(r[i])
        PROVE  r[i].tag = h.tag
    <3>1. CASE i = Len(r)
      BY <1>4, <1>7, <3>1
    <3>2. CASE i # Len(r)
      <4>1. i \in Len(old) + 1 .. Len(r) - 1
        BY <1>11, <2>1, <3>2
      <4> QED BY <1>7, <2>2, <4>1
    <3> QED BY <3>1, <3>2
  <2>3. Own(g, r)
    BY <1>2, <1>17, <2>2 DEF Own
  <2>4. InProgress(g, r, U)
    BY <1>2, <1>16, <1>17, <2>3 DEF InProgress
  <2> QED BY <1>3, <1>7, <1>10, <1>15, <2>4 DEF LinkInv, Shaped, Taking, U, v, r, csw, g
<1>19. CASE old # <<>>
  <2>1. Len(old) \in 1 .. Len(r) - 1 /\ r[Len(old)] = old[Len(old)] /\ Wrapper(r[Len(old)])
    BY <1>7, <1>11, <1>13, <1>19
  <2>2. \A i \in 1 .. Len(r) - 1 : Wrapper(r[i]) => r[i].tag # g.tag
    BY <1>2, <1>9, <1>11, <1>14
  <2>3. ASSUME NEW i \in 1 .. Len(r) - 1, Wrapper(r[i]), \A j \in i + 1 .. Len(r) - 1 : ~Wrapper(r[j])
        PROVE  r[Len(r)].residue = g.len \/ r[i + 1].kind = "data"
    <3>1. i = Len(old)
      <4>1. i <= Len(old)
        BY <1>11, <1>14, <2>3
      <4>2. ~(i < Len(old))
        BY <1>11, <2>1, <2>3
      <4> QED BY <1>11, <4>1, <4>2
    <3>2. k = 0 => r[Len(r)].residue = g.len
      BY <1>2, <1>4, <1>6, <1>7
    <3> QED BY <1>6, <1>7, <3>1, <3>2
  <2>4. Behind(g, r)
    BY <2>1, <2>2, <2>3 DEF Behind
  <2>5. InProgress(g, r, U)
    BY <1>2, <1>16, <1>17, <2>4 DEF InProgress
  <2> QED BY <1>3, <1>7, <1>10, <1>15, <2>5 DEF LinkInv, Shaped, Taking, U, v, r, csw, g
<1> QED BY <1>18, <1>19

\* A command with data for the device: its wrapper waits for the last of them.
LEMMA AcceptOutStep ==
  ASSUME NEW h, NEW q, NEW c, NEW T, NEW l, NEW n, LinkInv(h, q, c, T, l, n),
         h.pc = "cbw", h.dir = "to_device",
         NEW k \in 0 .. h.len, NEW s, NEW old \in {q, <<>>},
         NEW csw, csw = Csw(h.tag, h.len - k, s),
         NEW r, r = IF k = 0 THEN Append(old, csw) ELSE old
  PROVE  LinkInv([h EXCEPT !.pc = "out"], r, [tag |-> h.tag, left |-> k, csw |-> csw],
                 With(T, h.tag, [n |-> 0, status |-> s]), l, n)
<1> DEFINE v == [n |-> 0, status |-> s]
           U == With(T, h.tag, v)
           g == [h EXCEPT !.pc = "out"]
           e == [tag |-> h.tag, left |-> k, csw |-> csw]
<1>1. PICK S : h \in Hosts(S)
  BY DEF LinkInv, Shaped
<1>2. /\ g.pc = "out" /\ g.got = h.got /\ g.next = h.next /\ g.tag = h.tag /\ g.dir = h.dir
      /\ g.len = h.len
  BY <1>1 DEF Hosts
<1>3. g \in Hosts(S)
  BY <1>1 DEF Hosts, Stages
<1>4. csw.tag = h.tag /\ csw.residue = h.len - k /\ csw.status = s /\ Wrapper(csw)
  BY DEF Csw, Wrapper
<1>5. IsSeq(old)
  <2>1. <<>> \in Seq({})
    OBVIOUS
  <2> QED BY <2>1 DEF LinkInv, Shaped, IsSeq
<1>6. h.len \in Nat /\ h.tag \in Nat /\ k \in Nat
  BY <1>1 DEF Hosts
<1>7. e.tag = h.tag /\ e.left = k /\ e.csw = csw /\ e \in Takers({csw})
  BY <1>6 DEF Takers
<1> HIDE DEF v, U, g, e
<1>8. /\ Numbered(h, T, n) /\ Told(T, l) /\ Ordered(q, T)
      /\ h.tag \notin DOMAIN T /\ h.got = <<>>
  BY DEF LinkInv, InProgress
<1>9. DOMAIN U = DOMAIN T \union {h.tag} /\ U[h.tag] = v /\ Numbered(g, U, n) /\ Told(U, l)
  <2>1. /\ DOMAIN With(T, h.tag, v) = DOMAIN T \union {h.tag} /\ With(T, h.tag, v)[h.tag] = v
        /\ Numbered(g, With(T, h.tag, v), n) /\ Told(With(T, h.tag, v), l)
    <3>1. h.pc = "cbw" /\ g.next = h.next /\ g.tag = h.tag
      BY <1>2
    <3> QED BY <1>8, <3>1, WithIs
  <2> QED BY <2>1 DEF U
<1>10. /\ \A i \in 1 .. Len(old) : Wrapper(old[i]) => old[i].tag \in DOMAIN T
       /\ old # <<>> => Wrapper(old[Len(old)])
  BY <1>8 DEF Ordered
<1>11. IsSeq(r)
  BY <1>5, SeqAppend
<1>12. Ordered(r, U)
  <2>1. CASE k = 0
    <3>1. /\ Len(r) = Len(old) + 1 /\ r[Len(old) + 1] = csw /\ Len(old) \in Nat
          /\ \A i \in 1 .. Len(old) : r[i] = old[i]
      BY <1>5, <2>1, SeqAppend, SeqLen
    <3> QED BY <1>4, <1>9, <1>10, <3>1 DEF Ordered
  <2>2. CASE k # 0
    BY <1>9, <1>10, <2>2 DEF Ordered
  <2> QED BY <2>1, <2>2
<1>13. Taking(g, r, e, U, l)
  <2>1. SUFFICES ASSUME k > 0
                 PROVE  Taking(g, r, e, U, l)
    BY <1>7 DEF Taking
  <2>2. r = old
    BY <2>1
  <2>3. \A i \in 1 .. Len(r) : Wrapper(r[i]) => r[i].tag # h.tag
    BY <1>8, <1>10, <2>2
  <2>4. l.ok => l.tag # h.tag
    BY <1>8 DEF Told
  <2>5. U[h.tag] = [n |-> 0, status |-> csw.status] /\ 0 + k = h.len - csw.residue
    BY <1>4, <1>6, <1>9 DEF v
  <2> QED BY <1>2, <1>4, <1>7, <1>9, <2>3, <2>4, <2>5 DEF Taking
<1>14. InProgress(g, r, U)
  <2>1. \A i \in 1 .. Len(g.got) : g.got[i] = g.tag
    BY <1>2, <1>8
  <2>2. ASSUME NEW i \in 1 .. Len(r), Wrapper(r[i]), r[i].tag = h.tag
        PROVE  U[h.tag] = [n |-> h.len - r[i].residue, status |-> r[i].status]
    <3>1. CASE k = 0
      <4>1. /\ Len(r) = Len(old) + 1 /\ r[Len(old) + 1] = csw /\ Len(old) \in Nat
            /\ \A j \in 1 .. Len(old) : r[j] = old[j]
        BY <1>5, <3>1, SeqAppend, SeqLen
      <4>2. i = Len(old) + 1
        BY <1>8, <1>10, <2>2, <4>1
      <4>3. r[i] = csw /\ h.len - csw.residue = 0
        BY <1>4, <1>6, <3>1, <4>1, <4>2
      <4> QED BY <1>4, <1>9, <4>3 DEF v
    <3>2. CASE k # 0
      BY <1>8, <1>10, <2>2, <3>2
    <3> QED BY <3>1, <3>2
  <2>3. \A i \in 1 .. Len(r) : Wrapper(r[i]) => Tells(r[i], g, U)
    BY <1>2, <2>2 DEF Tells
  <2> QED BY <1>2, <2>1, <2>3 DEF InProgress
<1>15. Shaped(g, r, e)
  BY <1>3, <1>7, <1>11 DEF Shaped
<1>16. LinkInv(g, r, e, U, l, n)
  BY <1>9, <1>12, <1>13, <1>14, <1>15 DEF LinkInv
<1> QED BY <1>16 DEF v, U, g, e

\* The device takes data, of the command in progress or of an abandoned one,
\* and with the last of them answers that command.
LEMMA TakeStep ==
  ASSUME NEW h, NEW g, NEW q, NEW c, NEW T, NEW l, NEW n, LinkInv(h, q, c, T, l, n),
         h.pc # "idle", \E S : g \in Hosts(S), g.next = h.next, g.tag = h.tag, g.len = h.len,
         g.dir = h.dir, g.pc \in {"in", "out", "csw"},
         g.pc = "in" => g.dir = "from_device", g.pc = "out" => g.dir = "to_device",
         g.dir # "from_device" => \A i \in 1 .. Len(g.got) : g.got[i] = g.tag,
         h.tag \in DOMAIN T => h.dir = "to_device",
         c.left > 0, NEW k \in Nat \ {0}, NEW m, m = IF k > c.left THEN c.left ELSE k,
         NEW r, r = IF m = c.left THEN Append(q, c.csw) ELSE q
  PROVE  LinkInv(g, r, [c EXCEPT !.left = @ - m], [T EXCEPT ![c.tag].n = @ + m], l, n)
<1> DEFINE e == [c EXCEPT !.left = @ - m]
           U == [T EXCEPT ![c.tag].n = @ + m]
<1>1. PICK S : c \in Takers(S)
  BY DEF LinkInv, Shaped
<1>2. c.left \in Nat /\ m \in Nat /\ m <= c.left /\ m > 0
  BY <1>1 DEF Takers
<1>3. e.tag = c.tag /\ e.left = c.left - m /\ e.csw = c.csw /\ e \in Takers(S)
  BY <1>1, <1>2 DEF Takers
<1>4. /\ Numbered(h, T, n) /\ Told(T, l) /\ Ordered(q, T) /\ InProgress(h, q, T)
      /\ Taking(h, q, c, T, l) /\ IsSeq(q)
  BY DEF LinkInv, Shaped
<1>5. /\ c.tag \in DOMAIN T /\ c.csw.tag = c.tag /\ Wrapper(c.csw)
      /\ \A i \in 1 .. Len(q) : Wrapper(q[i]) => q[i].tag # c.tag
      /\ l.ok => l.tag # c.tag
      /\ c.tag = h.tag =>
           \E v \in Int : /\ T[h.tag] = [n |-> v, status |-> c.csw.status]
                          /\ v + c.left = h.len - c.csw.residue
  BY <1>4 DEF Taking
<1>6. /\ DOMAIN U = DOMAIN T /\ U[c.tag] = [T[c.tag] EXCEPT !.n = @ + m]
      /\ \A t \in DOMAIN T : t # c.tag => U[t] = T[t]
  BY <1>5
<1> HIDE DEF e, U
<1>7. Len(q) \in Nat /\ IsSeq(r)
  BY <1>4, SeqLen, SeqAppend
<1>8. Ordered(r, U) /\ Taking(g, r, e, U, l)
  <2>1. CASE m = c.left
    <3>1. /\ Len(r) = Len(q) + 1 /\ r[Len(q) + 1] = c.csw
          /\ \A i \in 1 .. Len(q) : r[i] = q[i]
      BY <1>4, <2>1, SeqAppend
    <3>2. \A i \in 1 .. Len(r) : Wrapper(r[i]) => r[i].tag \in DOMAIN U
      BY <1>4, <1>5, <1>6, <1>7, <3>1 DEF Ordered
    <3>3. Wrapper(r[Len(r)])
      BY <1>5, <3>1
    <3>4. Ordered(r, U)
      BY <3>2, <3>3 DEF Ordered
    <3>5. Taking(g, r, e, U, l)
      BY <1>2, <1>3, <2>1 DEF Taking
    <3> QED BY <3>4, <3>5
  <2>2. CASE m # c.left
    <3>1. r = q
      BY <2>2
    <3>2. Ordered(r, U)
      BY <1>4, <1>6, <3>1 DEF Ordered
    <3>3. ASSUME c.tag = g.tag
          PROVE  \E v \in Int : /\ U[g.tag] = [n |-> v, status |-> e.csw.status]
                                /\ v + e.left = g.len - e.csw.residue
      <4>1. PICK v \in Int : /\ T[h.tag] = [n |-> v, status |-> c.csw.status]
                             /\ v + c.left = h.len - c.csw.residue
        BY <1>5, <3>3
      <4>2. U[g.tag] = [n |-> v + m, status |-> c.csw.status]
        BY <1>6, <3>3, <4>1
      <4>3. v + m \in Int /\ (v + m) + e.left = g.len - e.csw.residue
        BY <1>2, <1>3, <4>1
      <4> QED BY <1>3, <4>2, <4>3
    <3>4. Taking(g, r, e, U, l)
      BY <1>3, <1>5, <1>6, <3>1, <3>3 DEF Taking
    <3> QED BY <3>2, <3>4
  <2> QED BY <2>1, <2>2
<1>9. ASSUME h.tag \in DOMAIN T, NEW i \in 1 .. Len(r), Wrapper(r[i]), r[i].tag = h.tag
      PROVE  U[h.tag] = [n |-> h.len - r[i].residue, status |-> r[i].status]
  <2>1. CASE i \in 1 .. Len(q)
    <3>1. r[i] = q[i]
      BY <1>4, <2>1, SeqAppend
    <3>2. h.tag # c.tag
      BY <1>5, <1>9, <2>1, <3>1
    <3>3. T[h.tag] = [n |-> h.len - q[i].residue, status |-> q[i].status]
      BY <1>4, <1>9, <2>1, <3>1 DEF InProgress, Tells
    <3> QED BY <1>6, <1>9, <3>1, <3>2, <3>3
  <2>2. CASE i \notin 1 .. Len(q)
    <3>1. m = c.left
      BY <2>2
    <3>2. i = Len(q) + 1 /\ r[i] = c.csw
      BY <1>4, <1>7, <2>2, <3>1, SeqAppend
    <3>3. c.tag = h.tag
      BY <1>5, <1>9, <3>2
    <3>4. PICK v \in Int : /\ T[h.tag] = [n |-> v, status |-> c.csw.status]
                           /\ v + c.left = h.len - c.csw.residue
      BY <1>5, <3>3
    <3>5. U[h.tag] = [n |-> v + m, status |-> c.csw.status]
      BY <1>6, <3>3, <3>4
    <3> QED BY <3>1, <3>2, <3>4, <3>5
  <2> QED BY <2>1, <2>2
<1>10. InProgress(g, r, U)
  <2>1. \A i \in 1 .. Len(r) : Wrapper(r[i]) /\ h.tag \in DOMAIN T => Tells(r[i], g, U)
    BY <1>9 DEF Tells
  <2> QED BY <1>6, <2>1 DEF InProgress
<1>11. Told(U, l)
  BY <1>4, <1>5, <1>6 DEF Told
<1>12. Numbered(g, U, n)
  BY <1>4, <1>6 DEF Numbered
<1>13. LinkInv(g, r, e, U, l, n)
  BY <1>3, <1>7, <1>8, <1>10, <1>11, <1>12 DEF LinkInv, Shaped
<1> QED BY <1>13 DEF e, U

-----------------------------------------------------------------------------
(* The steps of the specification. *)

LEMMA LinkGrows ==
  ASSUME NEW h, NEW q, NEW c, NEW T, NEW l, NEW m \in Nat, NEW n \in Nat, n >= m, LinkInv(h, q, c, T, l, m)
  PROVE  LinkInv(h, q, c, T, l, n)
<1>1. \A k \in 0 .. m : k \in 0 .. n
  OBVIOUS
<1>2. Numbered(h, T, n)
  BY <1>1 DEF LinkInv, Numbered
<1> QED BY <1>2 DEF LinkInv

\* f becomes g, which has v for d and is unchanged for the other devices.
Moved(f, g, d, v) ==
  DOMAIN g = Devices /\ g[d] = v /\ \A x \in Devices \ {d} : g[x] = f[x]

LEMMA MovedIs ==
  ASSUME NEW f, DOMAIN f = Devices, NEW d \in Devices, NEW v
  PROVE  Moved(f, [f EXCEPT ![d] = v], d, v) /\ Moved(f, f, d, f[d])
  BY DEF Moved

LEMMA Lift ==
  ASSUME UsbInv, NEW d \in Devices, NEW h, NEW q, NEW c, NEW T, NEW l, NEW n \in submitted .. MaxCommands,
         LinkInv(h, q, c, T, l, n), Moved(bot, bot', d, h), Moved(inq, inq', d, q),
         Moved(dev, dev', d, c), Moved(truth, truth', d, T), Moved(last, last', d, l), submitted' = n
  PROVE  UsbInv'
<1>1. submitted \in Nat /\ n \in Nat /\ n >= submitted /\ n \in 0 .. MaxCommands
  BY UsbBotAssumption DEF UsbInv
<1>2. ASSUME NEW x \in Devices
      PROVE  LinkInv(bot'[x], inq'[x], dev'[x], truth'[x], last'[x], n)
  <2>1. CASE x = d
    BY <2>1 DEF Moved
  <2>2. CASE x # d
    <3>1. LinkInv(bot[x], inq[x], dev[x], truth[x], last[x], submitted)
      BY DEF UsbInv, Linked
    <3>2. LinkInv(bot[x], inq[x], dev[x], truth[x], last[x], n)
      BY <1>1, <3>1, LinkGrows
    <3> QED BY <2>2, <3>2 DEF Moved
  <2> QED BY <2>1, <2>2
<1>3. Mapped'
  BY DEF Mapped, Moved
<1>4. \A x \in Devices : Linked(x)'
  BY <1>2 DEF Linked
<1> QED BY <1>1, <1>3, <1>4 DEF UsbInv

LEMMA BotStarts ==
  ASSUME BotInit
  PROVE  UsbInv
<1>1. Mapped /\ submitted \in 0 .. MaxCommands
  BY UsbBotAssumption DEF BotInit, Mapped
<1>2. ASSUME NEW d \in Devices
      PROVE  Linked(d)
  <2> DEFINE h == Idle(FirstTag)
             c == [tag |-> 0, left |-> 0, csw |-> None]
  <2>1. bot[d] = h /\ inq[d] = <<>> /\ dev[d] = c /\ truth[d] = <<>> /\ last[d] = Failed /\ submitted = 0
    BY DEF BotInit
  <2>2. h.pc = "idle" /\ h.next = FirstTag /\ h.dir = "none" /\ h.got = <<>> /\ c.left = 0
    BY DEF Idle
  <2>3. h \in Hosts({})
    <3>1. <<>> \in Seq({}) /\ FirstTag \in Nat /\ "idle" \in Stages /\ "none" \in Directions
      BY UsbBotAssumption DEF Stages, Directions
    <3> QED BY <3>1 DEF Hosts, Idle
  <2>4. c \in Takers({None})
    BY DEF Takers
  <2>5. IsSeq(<<>>) /\ Len(<<>>) = 0 /\ DOMAIN <<>> = {}
    <3>1. <<>> \in Seq({})
      OBVIOUS
    <3> QED BY <3>1 DEF IsSeq
  <2> HIDE DEF h, c
  <2>6. Nth(0) = FirstTag
    BY UsbBotAssumption DEF Nth
  <2>7. Numbered(h, <<>>, 0)
    BY <2>2, <2>5, <2>6 DEF Numbered
  <2>8. InProgress(h, <<>>, <<>>)
    BY <2>2, <2>5 DEF InProgress
  <2>9. ~Failed.ok
    BY DEF Failed
  <2>10. Shaped(h, <<>>, c)
    BY <2>3, <2>4, <2>5 DEF Shaped
  <2>11. LinkInv(h, <<>>, c, <<>>, Failed, 0)
    BY <2>2, <2>5, <2>7, <2>8, <2>9, <2>10 DEF LinkInv, Ordered, Taking, Told
  <2> QED BY <2>1, <2>11 DEF Linked
<1> QED BY <1>1, <1>2 DEF UsbInv

\* What holds of the device that acts.
LEMMA Here ==
  ASSUME UsbInv, NEW d \in Devices
  PROVE  /\ LinkInv(bot[d], inq[d], dev[d], truth[d], last[d], submitted)
         /\ DOMAIN bot = Devices /\ DOMAIN inq = Devices /\ DOMAIN dev = Devices
         /\ DOMAIN truth = Devices /\ DOMAIN last = Devices
         /\ submitted \in Nat /\ submitted \in submitted .. MaxCommands
  BY UsbBotAssumption DEF UsbInv, Linked, Mapped

\* The host gives up, with the pipe read or not.
LEMMA GiveUpKeeps ==
  ASSUME UsbInv, NEW d \in Devices, GiveUp(d), UNCHANGED <<submitted, dev, truth>>,
         inq' = inq \/ (inq[d] # <<>> /\ inq' = [inq EXCEPT ![d] = Tail(@)])
  PROVE  UsbInv'
<1>1. PICK r : /\ Moved(inq, inq', d, r)
               /\ r = inq[d] \/ (inq[d] # <<>> /\ r = Tail(inq[d]))
  BY Here, MovedIs
<1>2. LinkInv(Idle(bot[d].next), r, dev[d], truth[d], Failed, submitted)
  BY <1>1, Here, GivesUp
<1>3. Moved(bot, bot', d, Idle(bot[d].next)) /\ Moved(last, last', d, Failed)
  BY Here, MovedIs DEF GiveUp, Set
<1>4. Moved(dev, dev', d, dev[d]) /\ Moved(truth, truth', d, truth[d]) /\ submitted' = submitted
  BY Here, MovedIs
<1> QED BY <1>1, <1>2, <1>3, <1>4, Here, Lift

\* The pipe is read, the device untouched.
LEMMA ReadKeeps ==
  ASSUME UsbInv, NEW d \in Devices, NEW h, Set(d, h), UNCHANGED <<submitted, last, dev, truth>>,
         inq' = [inq EXCEPT ![d] = Tail(@)],
         LinkInv(h, Tail(inq[d]), dev[d], truth[d], last[d], submitted)
  PROVE  UsbInv'
<1>1. Moved(bot, bot', d, h) /\ Moved(inq, inq', d, Tail(inq[d]))
  BY Here, MovedIs DEF Set
<1>2. /\ Moved(dev, dev', d, dev[d]) /\ Moved(truth, truth', d, truth[d])
      /\ Moved(last, last', d, last[d]) /\ submitted' = submitted
  BY Here, MovedIs
<1> QED BY <1>1, <1>2, Here, Lift

LEMMA SubmitKeeps ==
  ASSUME UsbInv, NEW d \in Devices, Submit(d)
  PROVE  UsbInv'
<1>1. PICK t \in IF d \in Quiet THEN {<<"none", 0>>} ELSE ValidTransfers :
        Set(d, [Idle(NextTag(bot[d].next)) EXCEPT
                  !.pc = "cbw", !.tag = bot[d].next, !.dir = t[1], !.len = t[2]])
  BY DEF Submit
<1> DEFINE g == [Idle(NextTag(bot[d].next)) EXCEPT
                   !.pc = "cbw", !.tag = bot[d].next, !.dir = t[1], !.len = t[2]]
<1>2. t[1] \in Directions /\ t[2] \in Nat
  BY UsbBotAssumption DEF ValidTransfers, Directions
<1>3. /\ bot[d].pc = "idle" /\ submitted \in 0 .. MaxCommands - 1 /\ submitted' = submitted + 1
      /\ submitted + 1 \in submitted .. MaxCommands
  BY Here, UsbBotAssumption DEF Submit
<1>4. LinkInv(g, inq[d], dev[d], truth[d], last[d], submitted + 1)
  BY <1>2, <1>3, Here, SubmitStep
<1>5. Moved(bot, bot', d, g)
  BY <1>1, Here, MovedIs DEF Set
<1>6. /\ Moved(inq, inq', d, inq[d]) /\ Moved(dev, dev', d, dev[d])
      /\ Moved(truth, truth', d, truth[d]) /\ Moved(last, last', d, last[d])
  BY Here, MovedIs DEF Submit
<1> HIDE DEF g
<1> QED BY <1>3, <1>4, <1>5, <1>6, Lift

\* The stage that follows the command block.
Follows(h) == CASE h.dir = "none" -> "csw"
                [] h.dir = "from_device" -> "in"
                [] OTHER -> "out"

LEMMA FollowsIs ==
  ASSUME NEW S, NEW h \in Hosts(S)
  PROVE  /\ Follows(h) \in {"in", "out", "csw"}
         /\ Follows(h) = "in" <=> h.dir = "from_device"
         /\ Follows(h) = "out" <=> h.dir = "to_device"
  BY DEF Follows, Hosts, Directions

LEMMA AcceptKeeps ==
  ASSUME UsbInv, NEW d \in Devices, SendCbw(d), dev[d].left = 0
  PROVE  UsbInv'
<1> DEFINE h == bot[d]
           g == [h EXCEPT !.pc = Follows(h)]
<1>1. /\ h.pc = "cbw" /\ Set(d, g) /\ Accept(d, h) /\ submitted' = submitted /\ last' = last
  BY DEF SendCbw, Follows
<1>2. /\ LinkInv(h, inq[d], dev[d], truth[d], last[d], submitted)
  BY Here
<1>3. PICK S : h \in Hosts(S)
  BY <1>2 DEF LinkInv, Shaped
<1>4. Moved(bot, bot', d, g) /\ Moved(last, last', d, last[d])
  BY <1>1, Here, MovedIs DEF Set
<1> HIDE DEF h
<1>5. PICK k \in 0 .. h.len, s \in Answers, old \in {inq[d], <<>>} :
        /\ Learn(d, h.tag, IF h.dir = "to_device" THEN 0 ELSE k, s)
        /\ \/ /\ h.dir = "to_device"
              /\ dev' = [dev EXCEPT ![d] = [tag |-> h.tag, left |-> k, csw |-> Csw(h.tag, h.len - k, s)]]
              /\ inq' = [inq EXCEPT ![d] = IF k = 0 THEN Append(old, Csw(h.tag, h.len - k, s)) ELSE old]
           \/ /\ h.dir # "to_device"
              /\ \E items \in InData(h.tag, k, h.len), pre \in IF s = 0 THEN {<<>>} ELSE {<<>>, <<Stall>>} :
                   inq' = [inq EXCEPT ![d] = old \o items \o pre \o <<Csw(h.tag, h.len - k, s)>>]
              /\ UNCHANGED dev
  BY <1>1 DEF Accept
<1>6. ASSUME NEW v, v = IF h.dir = "to_device" THEN 0 ELSE k
      PROVE  Moved(truth, truth', d, With(truth[d], h.tag, [n |-> v, status |-> s]))
  <2>1. truth' = [truth EXCEPT ![d] = With(truth[d], h.tag, [n |-> v, status |-> s])]
    BY <1>5, <1>6 DEF Learn, With
  <2> QED BY <2>1, Here, MovedIs
<1>7. CASE h.dir = "to_device"
  <2> DEFINE csw == Csw(h.tag, h.len - k, s)
             r == IF k = 0 THEN Append(old, csw) ELSE old
             e == [tag |-> h.tag, left |-> k, csw |-> csw]
             U == With(truth[d], h.tag, [n |-> 0, status |-> s])
  <2>1. Follows(h) = "out"
    BY <1>3, <1>7, FollowsIs
  <2>2. LinkInv([h EXCEPT !.pc = "out"], r, e, U, last[d], submitted)
    BY <1>1, <1>2, <1>7, AcceptOutStep
  <2>3. dev' = [dev EXCEPT ![d] = e] /\ inq' = [inq EXCEPT ![d] = r]
    BY <1>5, <1>7
  <2>4. Moved(truth, truth', d, U)
    BY <1>6, <1>7
  <2> HIDE DEF csw, r, e, U
  <2>5. Moved(dev, dev', d, e) /\ Moved(inq, inq', d, r)
    BY <2>3, Here, MovedIs
  <2> QED BY <1>1, <1>4, <2>1, <2>2, <2>4, <2>5, Here, Lift
<1>8. CASE h.dir # "to_device"
  <2>1. PICK items \in InData(h.tag, k, h.len), pre \in {<<>>, <<Stall>>} :
          inq' = [inq EXCEPT ![d] = old \o items \o pre \o <<Csw(h.tag, h.len - k, s)>>]
    BY <1>5, <1>8
  <2> DEFINE r == old \o items \o pre \o <<Csw(h.tag, h.len - k, s)>>
             U == With(truth[d], h.tag, [n |-> k, status |-> s])
  <2>2. Follows(h) \in {"csw", "in"} /\ (Follows(h) = "in" => h.dir = "from_device")
    BY <1>3, <1>8, FollowsIs
  <2>3. LinkInv(g, r, dev[d], U, last[d], submitted)
    BY <1>1, <1>2, <1>8, <2>2, AcceptInStep
  <2>6. inq' = [inq EXCEPT ![d] = r] /\ dev' = dev
    BY <1>5, <1>8, <2>1
  <2>5. Moved(truth, truth', d, U)
    BY <1>6, <1>8
  <2> HIDE DEF r, U, g
  <2>4. Moved(dev, dev', d, dev[d]) /\ Moved(inq, inq', d, r)
    BY <2>6, Here, MovedIs
  <2> QED BY <1>1, <1>4, <2>3, <2>4, <2>5, Here, Lift
<1> QED BY <1>7, <1>8

\* The device takes k units while the host goes on to g.
LEMMA TakeKeeps ==
  ASSUME UsbInv, NEW d \in Devices, NEW k \in Nat \ {0}, Take(d, k), dev[d].left > 0, NEW g, Set(d, g),
         bot[d].pc # "idle", \E S : g \in Hosts(S), g.next = bot[d].next, g.tag = bot[d].tag,
         g.len = bot[d].len, g.dir = bot[d].dir, g.pc \in {"in", "out", "csw"},
         g.pc = "in" => g.dir = "from_device", g.pc = "out" => g.dir = "to_device",
         g.dir # "from_device" => \A i \in 1 .. Len(g.got) : g.got[i] = g.tag,
         bot[d].tag \in DOMAIN truth[d] => bot[d].dir = "to_device",
         UNCHANGED <<submitted, last>>
  PROVE  UsbInv'
<1> DEFINE c == dev[d]
           m == IF k > c.left THEN c.left ELSE k
           r == IF m = c.left THEN Append(inq[d], c.csw) ELSE inq[d]
           e == [c EXCEPT !.left = @ - m]
           U == [truth[d] EXCEPT ![c.tag].n = @ + m]
<1>1. LinkInv(g, r, e, U, last[d], submitted)
  BY Here, TakeStep
<1>2. /\ dev' = [dev EXCEPT ![d] = e] /\ truth' = [truth EXCEPT ![d] = U]
  BY DEF Take
<1>3. inq' = [inq EXCEPT ![d] = r]
  BY DEF Take
<1> HIDE DEF r, e, U
<1>4. Moved(dev, dev', d, e) /\ Moved(truth, truth', d, U) /\ Moved(inq, inq', d, r)
  BY <1>2, <1>3, Here, MovedIs
<1>5. Moved(bot, bot', d, g) /\ Moved(last, last', d, last[d]) /\ submitted' = submitted
  BY Here, MovedIs DEF Set
<1> QED BY <1>1, <1>4, <1>5, Here, Lift

LEMMA SendCbwKeeps ==
  ASSUME UsbInv, NEW d \in Devices, SendCbw(d)
  PROVE  UsbInv'
<1> DEFINE h == bot[d]
           g == [h EXCEPT !.pc = Follows(h)]
<1>1. h.pc = "cbw" /\ Set(d, g) /\ UNCHANGED <<submitted, last>>
  BY DEF SendCbw, Follows
<1>2. LinkInv(h, inq[d], dev[d], truth[d], last[d], submitted)
  BY Here
<1>3. PICK S : h \in Hosts(S)
  BY <1>2 DEF LinkInv, Shaped
<1>4. dev[d].left \in Nat
  BY <1>2 DEF LinkInv, Shaped, Takers
<1>5. CASE dev[d].left > 0
  <2>1. Take(d, 2)
    BY <1>5 DEF SendCbw, CbwLen
  <2>2. /\ g.pc = Follows(h) /\ g.got = h.got /\ g.next = h.next /\ g.tag = h.tag /\ g.dir = h.dir
        /\ g.len = h.len
    BY <1>3 DEF Hosts
  <2>3. g \in Hosts(S)
    BY <1>3, FollowsIs DEF Hosts, Stages
  <2>4. h.got = <<>> /\ h.tag \notin DOMAIN truth[d]
    BY <1>1, <1>2 DEF LinkInv, InProgress
  <2>5. \A i \in 1 .. Len(g.got) : g.got[i] = g.tag
    BY <2>2, <2>4
  <2>6. /\ g.pc \in {"in", "out", "csw"}
        /\ g.pc = "in" => g.dir = "from_device"
        /\ g.pc = "out" => g.dir = "to_device"
    BY <1>3, <2>2, FollowsIs
  <2> HIDE DEF g
  <2> QED BY <1>1, <1>5, <2>1, <2>2, <2>3, <2>4, <2>5, <2>6, TakeKeeps
<1>6. CASE dev[d].left = 0
  BY <1>6, AcceptKeeps
<1> QED BY <1>4, <1>5, <1>6

LEMMA WriteDataKeeps ==
  ASSUME UsbInv, NEW d \in Devices, WriteData(d)
  PROVE  UsbInv'
<1> DEFINE h == bot[d]
           sent == Append(h.got, h.tag)
           pc == IF Len(sent) = h.len THEN "csw" ELSE "out"
           g == [h EXCEPT !.got = sent, !.pc = pc]
<1>1. /\ h.pc = "out" /\ dev[d].left > 0 /\ Set(d, g) /\ Take(d, 1) /\ UNCHANGED <<submitted, last>>
  BY DEF WriteData
<1>2. LinkInv(h, inq[d], dev[d], truth[d], last[d], submitted)
  BY Here
<1>3. PICK S : h \in Hosts(S)
  BY <1>2 DEF LinkInv, Shaped
<1>4. h.dir = "to_device" /\ \A i \in 1 .. Len(h.got) : h.got[i] = h.tag
  BY <1>1, <1>2 DEF LinkInv, InProgress
<1>5. IsSeq(h.got) /\ Len(h.got) \in Nat
  BY <1>3, SeqLen DEF Hosts, IsSeq
<1>6. IsSeq(sent) /\ \A i \in 1 .. Len(sent) : sent[i] = h.tag
  BY <1>4, <1>5, SeqAppend
<1> HIDE DEF sent
<1>7. PICK V : sent \in Seq(V)
  BY <1>6 DEF IsSeq
<1>8. pc \in {"csw", "out"}
  OBVIOUS
<1> HIDE DEF pc
<1>9. /\ g.pc = pc /\ g.got = sent /\ g.next = h.next /\ g.tag = h.tag /\ g.dir = h.dir
      /\ g.len = h.len
  BY <1>3 DEF Hosts
<1>10. g \in Hosts(V)
  BY <1>3, <1>7, <1>8 DEF Hosts, Stages
<1> HIDE DEF g
<1> QED BY <1>1, <1>4, <1>6, <1>8, <1>9, <1>10, TakeKeeps

LEMMA ReadDataKeeps ==
  ASSUME UsbInv, NEW d \in Devices, ReadData(d)
  PROVE  UsbInv'
<1> DEFINE h == bot[d]
           f == Head(inq[d])
           got == IF f.kind = "empty" THEN h.got ELSE Append(h.got, f.tag)
           ends == f.kind # "data" \/ f.short \/ Len(got) = h.len
           pc == IF ends THEN "csw" ELSE "in"
           g == [h EXCEPT !.got = got, !.pc = pc]
<1>1. /\ h.pc = "in" /\ inq[d] # <<>> /\ f.kind # "stall" /\ Set(d, g)
      /\ inq' = [inq EXCEPT ![d] = Tail(@)] /\ UNCHANGED <<submitted, last, dev, truth>>
  BY DEF ReadData
<1>2. pc \in {"in", "csw"} /\ (f.kind # "data" => pc = "csw")
  OBVIOUS
<1>3. LinkInv(g, Tail(inq[d]), dev[d], truth[d], last[d], submitted)
  <2> HIDE DEF pc
  <2> QED BY <1>1, <1>2, Here, ReadDataStep
<1> HIDE DEF g
<1> QED BY <1>1, <1>3, ReadKeeps

LEMMA ReadStalledKeeps ==
  ASSUME UsbInv, NEW d \in Devices, ReadStalled(d)
  PROVE  UsbInv'
<1> DEFINE g == [bot[d] EXCEPT !.pc = "csw", !.stalled = TRUE]
<1>1. LinkInv(g, Tail(inq[d]), dev[d], truth[d], last[d], submitted)
  BY Here, ReadStalledStep DEF ReadStalled
<1> HIDE DEF g
<1> QED BY <1>1, ReadKeeps DEF ReadStalled, g

LEMMA WriteStalledKeeps ==
  ASSUME UsbInv, NEW d \in Devices, WriteStalled(d)
  PROVE  UsbInv'
<1> DEFINE g == [bot[d] EXCEPT !.pc = "csw", !.stalled = TRUE]
<1>1. LinkInv(g, inq[d], dev[d], truth[d], last[d], submitted)
  BY Here, WriteStalledStep DEF WriteStalled
<1>2. Moved(bot, bot', d, g)
  BY Here, MovedIs DEF WriteStalled, Set
<1>3. /\ Moved(inq, inq', d, inq[d]) /\ Moved(dev, dev', d, dev[d]) /\ submitted' = submitted
      /\ Moved(truth, truth', d, truth[d]) /\ Moved(last, last', d, last[d])
  BY Here, MovedIs DEF WriteStalled
<1> HIDE DEF g
<1> QED BY <1>1, <1>2, <1>3, Here, Lift

LEMMA CswStalledKeeps ==
  ASSUME UsbInv, NEW d \in Devices, CswStalled(d)
  PROVE  UsbInv'
<1>1. CASE bot[d].retried
  BY <1>1, GiveUpKeeps DEF CswStalled
<1>2. CASE ~bot[d].retried
  <2> DEFINE g == [bot[d] EXCEPT !.retried = TRUE]
  <2>1. LinkInv(g, Tail(inq[d]), dev[d], truth[d], last[d], submitted)
    BY Here, CswStalledStep DEF CswStalled
  <2>2. Set(d, g) /\ UNCHANGED <<submitted, last, dev, truth>> /\ inq' = [inq EXCEPT ![d] = Tail(@)]
    BY <1>2 DEF CswStalled
  <2> HIDE DEF g
  <2> QED BY <2>1, <2>2, ReadKeeps
<1> QED BY <1>1, <1>2

LEMMA ReadCswKeeps ==
  ASSUME UsbInv, NEW d \in Devices, ReadCsw(d)
  PROVE  UsbInv'
<1> DEFINE g == Idle(bot[d].next)
           m == Result(bot[d], Head(inq[d]))
<1>1. LinkInv(g, Tail(inq[d]), dev[d], truth[d], m, submitted)
  BY Here, ReadCswStep DEF ReadCsw
<1>2. Moved(bot, bot', d, g) /\ Moved(last, last', d, m) /\ Moved(inq, inq', d, Tail(inq[d]))
  BY Here, MovedIs DEF ReadCsw, Set
<1>3. Moved(dev, dev', d, dev[d]) /\ Moved(truth, truth', d, truth[d]) /\ submitted' = submitted
  BY Here, MovedIs DEF ReadCsw
<1> HIDE DEF g, m
<1> QED BY <1>1, <1>2, <1>3, Here, Lift

LEMMA ExecuteKeeps ==
  ASSUME UsbInv, NEW d \in Devices, Execute(d)
  PROVE  UsbInv'
<1>1. CASE Timeout(d)
  BY <1>1, GiveUpKeeps DEF Timeout
<1>2. CASE CswGarbled(d)
  BY <1>2, GiveUpKeeps DEF CswGarbled
<1> QED BY <1>1, <1>2, SubmitKeeps, SendCbwKeeps, WriteDataKeeps, WriteStalledKeeps,
           ReadDataKeeps, ReadStalledKeeps, CswStalledKeeps, ReadCswKeeps DEF Execute

-----------------------------------------------------------------------------
(* Claims. *)

Sessions == [selected : Transports, state : Transports \union {"unopened", "closed"},
             claims : SUBSET Transports, unit : {"expected", "other"}]
SessionInv ==
  /\ session \in [Devices -> Sessions] /\ port \in [Devices -> {"expected", "other"}]
  /\ ClaimsFit

LEMMA SessionStarts ==
  ASSUME BotInit
  PROVE  SessionInv
  BY DEF BotInit, SessionInv, Sessions, Transports, ClaimsFit

LEMMA SessionKeeps ==
  ASSUME SessionInv, NEW d \in Devices, Session(d)
  PROVE  SessionInv'
<1> DEFINE s == session[d]
<1>0. /\ s \in Sessions /\ port[d] \in {"expected", "other"}
      /\ s.claims = {s.state} \intersect Transports
  BY DEF SessionInv, ClaimsFit
<1>1. ASSUME NEW r \in Sessions, session' = [session EXCEPT ![d] = r], port' = port,
             r.claims = {r.state} \intersect Transports, r.state = "usb" => r.unit = "expected"
      PROVE  SessionInv'
  <2>1. session' \in [Devices -> Sessions]
    BY <1>1 DEF SessionInv
  <2>2. ClaimsFit'
    BY <1>1 DEF SessionInv, ClaimsFit
  <2> QED BY <1>1, <2>1, <2>2 DEF SessionInv
<1>2. ASSUME NEW t \in Transports, Select(d, t), port' = port
      PROVE  SessionInv'
  <2>1. PICK closed \in BOOLEAN :
          session' = [session EXCEPT ![d] = [s EXCEPT !.state = "unopened", !.claims = Released,
                                               !.selected = IF closed THEN t ELSE @]]
    BY <1>2 DEF Select
  <2> DEFINE r == [s EXCEPT !.state = "unopened", !.claims = Released,
                            !.selected = IF closed THEN t ELSE @]
  <2>2. r \in Sessions /\ r.state = "unopened" /\ r.claims = {}
    BY <1>0 DEF Sessions, Released
  <2> HIDE DEF r
  <2>3. r.claims = {r.state} \intersect Transports
    BY <2>2 DEF Transports
  <2> QED BY <1>1, <1>2, <2>1, <2>2, <2>3 DEF r
<1>3. ASSUME Open(d), port' = port
      PROVE  SessionInv'
  <2>1. PICK works \in BOOLEAN :
          session' = IF IF s.selected = "usb" THEN OpensUsb(d, works) ELSE OpensScsi(d, works)
                     THEN [session EXCEPT ![d].state = s.selected, ![d].claims = {s.selected},
                                          ![d].unit = port[d]]
                     ELSE session
    BY <1>3 DEF Open
  <2> DEFINE r == [s EXCEPT !.state = s.selected, !.claims = {s.selected}, !.unit = port[d]]
  <2>2. CASE session' = session
    BY <1>3, <2>2 DEF SessionInv, ClaimsFit
  <2>3. CASE /\ session' = [session EXCEPT ![d] = r]
             /\ s.selected = "usb" => port[d] = "expected"
    <3>1. /\ r \in Sessions /\ r.state = s.selected /\ r.claims = {s.selected} /\ r.unit = port[d]
          /\ s.selected \in Transports
      BY <1>0 DEF Sessions
    <3> HIDE DEF r
    <3> QED BY <1>1, <1>3, <2>3, <3>1
  <2> QED BY <2>1, <2>2, <2>3 DEF OpensUsb, OpensScsi, Authentic
<1>4. ASSUME Close(d), port' = port
      PROVE  SessionInv'
  <2> DEFINE r == [s EXCEPT !.state = "closed", !.claims = Released]
  <2>1. session' = [session EXCEPT ![d] = r]
    BY <1>4 DEF Close
  <2>2. r \in Sessions /\ r.state = "closed" /\ r.claims = {}
    BY <1>0 DEF Sessions, Released
  <2> HIDE DEF r
  <2>3. r.claims = {r.state} \intersect Transports
    BY <2>2 DEF Transports
  <2> QED BY <1>1, <1>4, <2>1, <2>2, <2>3
<1>5. ASSUME Replug(d), session' = session
      PROVE  SessionInv'
  BY <1>5 DEF Replug, SessionInv, ClaimsFit
<1> QED BY <1>2, <1>3, <1>4, <1>5 DEF Session

\* What the steps of the specification keep of the pipes and of the claims.
LEMMA BotKeeps ==
  ASSUME UsbInv, SessionInv, [BotNext]_botVars
  PROVE  UsbInv' /\ SessionInv'
<1>1. CASE UNCHANGED botVars
  BY <1>1 DEF botVars, UsbInv, Mapped, Linked, SessionInv, ClaimsFit
<1>2. ASSUME NEW d \in Devices \ Quiet, Session(d), AtRest
      PROVE  UsbInv' /\ SessionInv'
  <2>1. UsbInv'
    BY <1>2 DEF AtRest, UsbInv, Mapped, Linked
  <2> QED BY <1>2, <2>1, SessionKeeps
<1>3. ASSUME NEW d \in Devices, Execute(d), UNCHANGED <<session, port>>
      PROVE  UsbInv' /\ SessionInv'
  <2>1. SessionInv'
    BY <1>3 DEF SessionInv, ClaimsFit
  <2> QED BY <1>3, <2>1, ExecuteKeeps
<1> QED BY <1>1, <1>2, <1>3 DEF BotNext

-----------------------------------------------------------------------------

(* Whatever the devices answer, lose, stall on or are late with, and       *)
(* whenever the host gives a command up, execute returns success only for  *)
(* a command its own device completed with status 0, with exactly the      *)
(* units that command moved; and each unit is claimed by the transport in  *)
(* use and by no other (macos_usb_bot.rs execute, finish_open, usb_bot.rs  *)
(* command_status_wrapper, nclr-controller.rs MacCommandTransport).        *)
THEOREM TransfersStayTrue == BotSpec => []TransfersTrue
<1> DEFINE Inv == UsbInv /\ SessionInv
<1>1. BotInit => Inv
  BY BotStarts, SessionStarts
<1>2. Inv /\ [BotNext]_botVars => Inv'
  BY BotKeeps
<1>3. Inv => TransfersTrue
  BY DEF UsbInv, Linked, LinkInv, Told, OkIsOurs, Known, SessionInv, TransfersTrue
<1> QED BY <1>1, <1>2, <1>3, PTL DEF BotSpec

-----------------------------------------------------------------------------
(***************************************************************************)
(* The importer, device by device: p is the command its decoder waits for, *)
(* R the records, K the tags whose CBW the capture has, G the devices on   *)
(* which the host gave up, v the number of frames lost, b whether the      *)
(* import has failed.                                                      *)
(*                                                                         *)
(* The argument.  A tag is answered once, so the wrapper that completes a  *)
(* record is the answer to it and gives its status; its residue, which the *)
(* decoder compares with what it collected, gives its length.  The bytes   *)
(* are the command's own if nothing is left of an abandoned one (Mine).  If*)
(* something is, and no frame is lost, what is left ends with a wrapper    *)
(* that the decoder collects as data, so that it has one unit too many     *)
(* when the answer comes (Over), and refuses it.                           *)
(***************************************************************************)
Busy(h) == h.pc \in {"in", "out", "csw"}

\* The tags of K are some of those handed out.
Counted(h, K, n) ==
  \E k \in 0 .. n :
    /\ h.next = Nth(k)
    /\ \A t \in K : \E j \in 0 .. k - 1 : t = Nth(j)
    /\ h.pc # "idle" => k > 0 /\ h.tag = Nth(k - 1)

\* No tag is answered twice.
Unique(q) ==
  \A i \in 1 .. Len(q) : \A j \in 1 .. i - 1 :
    Wrapper(q[i]) /\ Wrapper(q[j]) => q[i].tag # q[j].tag

\* What a bulk IN pipe carries.
Framed(f) ==
  \/ Bare(f)
  \/ f.kind \in {"data", "csw"} /\ f.in = TRUE /\ f.tag \in Tags /\ (Wrapper(f) => f.residue \in Int)

\* While the host gives nothing up, nothing is left of an earlier command.
Calm(h, q, c) ==
  /\ Busy(h) => /\ \A i \in 1 .. Len(q) : ~Bare(q[i]) => q[i].tag = h.tag
                /\ c.left > 0 => c.tag = h.tag
  /\ ~Busy(h) => q = <<>> /\ c.left = 0

Kept(d, h, q, c, n, K, G) ==
  /\ Counted(h, K, n)
  /\ h.pc = "cbw" => h.tag \notin K
  /\ Unique(q)
  /\ \A i \in 1 .. Len(q) : Framed(q[i])
  /\ c.left > 0 => Framed(c.csw) /\ c.tag \in Tags
  /\ d \notin G => Calm(h, q, c)

\* The records say what was on the bus, and no data stage will change it.
Recorded(d, c, T, R, v, G) ==
  \A i \in 1 .. Len(R) :
    /\ R[i].tag \in DOMAIN T
    /\ T[R[i].tag] = [n |-> Len(R[i].payload), status |-> R[i].status]
    /\ R[i].dir /\ (v = 0 \/ d \notin G) =>
         \A j \in 1 .. Len(R[i].payload) : R[i].payload[j] = R[i].tag
    /\ c.left > 0 => R[i].tag # c.tag

IsAnswer(p, f) == Wrapper(f) /\ f.tag = p.tag
\* What the decoder takes for the data of p, up to its answer at e, is its own.
Mine(p, q, e) ==
  /\ \A j \in 1 .. Len(p.payload) : p.payload[j] = p.tag
  /\ \A i \in 1 .. e - 1 : ~Bare(q[i]) => q[i].tag = p.tag
\* There is too much of it: m frames in a row, after b others.
Over(p, q, e) ==
  \E b \in 0 .. e - 1 : \E m \in 0 .. e - 1 :
    /\ b + m < e
    /\ \A i \in b + 1 .. b + m : ~Bare(q[i])
    /\ Len(p.payload) + m > p.len - q[e].residue
Collects(d, p, q, v, G) ==
  p.in => \A e \in 1 .. Len(q) : IsAnswer(p, q[e]) =>
    \/ Mine(p, q, e)
    \/ d \in G /\ (v = 0 => Over(p, q, e))

\* The command the decoder waits for.
Pending(q, c, T, p, K) ==
  /\ p.tag \in K
  /\ \A i \in 1 .. Len(q) : Wrapper(q[i]) => Tells(q[i], p, T)
  /\ c.left > 0 /\ c.tag = p.tag =>
       /\ ~p.in
       /\ \E m \in Int : /\ T[p.tag] = [n |-> m, status |-> c.csw.status]
                         /\ m + c.left = p.len - c.csw.residue

\* No answer to p is to come.
Dead(p, q, c) ==
  /\ \A i \in 1 .. Len(q) : ~IsAnswer(p, q[i])
  /\ c.left > 0 => c.tag # p.tag

\* Every command captured is recorded, or will be, or is missed.
TagsOf(R) == {R[i].tag : i \in 1 .. Len(R)}
Noticed(h, q, c, p, R, K) ==
  /\ p = None => K = TagsOf(R)
  /\ p # None => \/ Busy(h) /\ p.tag = h.tag /\ K = TagsOf(R) \union {p.tag}
                 \/ Dead(p, q, c)

Decodes(d, h, q, c, T, p, R, K, v, G, b) ==
  /\ Recorded(d, c, T, R, v, G)
  /\ p # None => Pending(q, c, T, p, K) /\ Collects(d, p, q, v, G)
  /\ d \notin G /\ ~b => Noticed(h, q, c, p, R, K)

\* Shapes.
Awaited == [tag : Tags, len : Nat, in : BOOLEAN, payload : Seq(Tags)]
Records == [tag : Tags, status : Statuses, dir : BOOLEAN, payload : Seq(Tags)]
Sized(h, c, l) ==
  /\ h.tag \in Tags /\ h.len \in 0 .. MaxLen /\ h.got \in Seq(Tags)
  /\ l.got \in Seq(Tags) /\ c.left \in 0 .. MaxLen
Heard(p, R) == p \in Awaited \union {None} /\ R \in Seq(Records)

-----------------------------------------------------------------------------
(* The pipe and the host, as the capture sees them. *)

\* The host keeps at its command, or is done with it and nothing is left.
Moves(h, g, r, c) ==
  \/ Busy(h) /\ Busy(g) /\ g.tag = h.tag
  \/ r = <<>> /\ c.left = 0

LEMMA KeptRead ==
  ASSUME NEW d, NEW h, NEW g, NEW q, NEW r, NEW c, NEW n, NEW K, NEW G, NEW H,
         Kept(d, h, q, c, n, K, G), r = q \/ Rest(q, r), G \subseteq H,
         g.next = h.next, g.pc # "cbw" \/ g = h, g.pc # "idle" => h.pc # "idle" /\ g.tag = h.tag,
         d \notin H => Moves(h, g, r, c)
  PROVE  Kept(d, g, r, c, n, K, H)
<1>1. Counted(g, K, n)
  BY DEF Kept, Counted
<1>2. CASE r = q
  <2>1. d \notin H => Calm(g, r, c)
    BY <1>2 DEF Kept, Calm, Moves
  <2> QED BY <1>1, <1>2, <2>1 DEF Kept
<1>3. CASE Rest(q, r)
  <2>0. Len(q) \in Nat \ {0} /\ Len(r) = Len(q) - 1
    BY <1>3 DEF Rest
  <2>1. \A i \in 1 .. Len(r) : i + 1 \in 1 .. Len(q) /\ r[i] = q[i + 1]
    BY <1>3 DEF Rest
  <2>2. Unique(r)
    <3>1. SUFFICES ASSUME NEW i \in 1 .. Len(r), NEW j \in 1 .. i - 1, Wrapper(r[i]), Wrapper(r[j])
                   PROVE  r[i].tag # r[j].tag
      BY DEF Unique
    <3>2. j \in 1 .. Len(r) /\ j + 1 \in 1 .. (i + 1) - 1
      BY <2>0
    <3>3. r[i] = q[i + 1] /\ r[j] = q[j + 1] /\ i + 1 \in 1 .. Len(q)
      BY <2>1, <3>2
    <3> QED BY <3>1, <3>2, <3>3 DEF Kept, Unique
  <2>3. \A i \in 1 .. Len(r) : Framed(r[i])
    BY <2>1 DEF Kept
  <2>4. d \notin H => Calm(g, r, c)
    <3>1. SUFFICES ASSUME d \notin H
                   PROVE  Calm(g, r, c)
      OBVIOUS
    <3>2. CASE r = <<>> /\ c.left = 0
      <4>1. Len(r) = 0
        BY <3>2
      <4> QED BY <3>2, <4>1 DEF Calm
    <3>3. CASE Busy(h) /\ Busy(g) /\ g.tag = h.tag
      <4>1. Calm(h, q, c)
        BY <3>1 DEF Kept
      <4>2. \A i \in 1 .. Len(r) : ~Bare(r[i]) => r[i].tag = g.tag
        BY <2>1, <3>3, <4>1 DEF Calm
      <4> QED BY <3>3, <4>1, <4>2 DEF Calm
    <3> QED BY <3>1, <3>2, <3>3 DEF Moves
  <2> QED BY <1>1, <2>2, <2>3, <2>4 DEF Kept
<1> QED BY <1>2, <1>3

LEMMA KeptSubmit ==
  ASSUME NEW d, NEW h, NEW g, NEW q, NEW c, NEW n \in 0 .. MaxCommands - 1, NEW K, NEW G,
         Kept(d, h, q, c, n, K, G), h.pc = "idle",
         g.pc = "cbw", g.next = NextTag(h.next), g.tag = h.next
  PROVE  Kept(d, g, q, c, n + 1, K, G)
<1>0. MaxCommands \in Nat /\ MaxTag \in Nat \ {0} /\ MaxCommands <= MaxTag
  BY UsbBotAssumption
<1>1. PICK k \in 0 .. n : h.next = Nth(k) /\ \A t \in K : \E j \in 0 .. k - 1 : t = Nth(j)
  BY DEF Kept, Counted
<1>2. k \in 0 .. MaxTag - 1 /\ k \in 0 .. MaxTag /\ k < MaxTag /\ k + 1 \in 0 .. n + 1
  BY <1>0
<1>3. g.next = Nth(k + 1) /\ g.tag = Nth((k + 1) - 1)
  BY <1>1, <1>2, NthIs
<1>4. \A t \in K : \E j \in 0 .. (k + 1) - 1 : t = Nth(j)
  <2>1. \A j \in 0 .. k - 1 : j \in 0 .. (k + 1) - 1
    OBVIOUS
  <2> QED BY <1>1, <2>1
<1>5. Counted(g, K, n + 1)
  BY <1>2, <1>3, <1>4 DEF Counted
<1>6. g.tag \notin K
  <2>1. \A j \in 0 .. k - 1 : Nth(j) # Nth(k)
    BY <1>2, NthOnce
  <2> QED BY <1>1, <2>1
<1>7. d \notin G => Calm(g, q, c)
  BY DEF Kept, Calm, Busy
<1> QED BY <1>5, <1>6, <1>7 DEF Kept

\* What the capture has seen of the command in progress.
LEMMA KeptSees ==
  ASSUME NEW d, NEW h, NEW q, NEW c, NEW n, NEW K, NEW G, Kept(d, h, q, c, n, K, G), Busy(h)
  PROVE  Kept(d, h, q, c, n, K \union {h.tag}, G)
<1>1. PICK k \in 0 .. n : /\ h.next = Nth(k) /\ \A t \in K : \E j \in 0 .. k - 1 : t = Nth(j)
                          /\ k > 0 /\ h.tag = Nth(k - 1)
  BY DEF Kept, Counted, Busy
<1>2. k - 1 \in 0 .. k - 1
  BY <1>1
<1>3. \A t \in K \union {h.tag} : \E j \in 0 .. k - 1 : t = Nth(j)
  BY <1>1, <1>2
<1>4. Counted(h, K \union {h.tag}, n)
  BY <1>1, <1>3 DEF Counted
<1> QED BY <1>4 DEF Kept, Busy

LEMMA KeptLater ==
  ASSUME NEW d, NEW h, NEW q, NEW c, NEW m \in Nat, NEW n \in Nat, n >= m, NEW K, NEW G,
         NEW H, Kept(d, h, q, c, m, K, G), d \in H <=> d \in G
  PROVE  Kept(d, h, q, c, n, K, H)
<1>1. \A k \in 0 .. m : k \in 0 .. n
  OBVIOUS
<1>2. Counted(h, K, n)
  BY <1>1 DEF Kept, Counted
<1> QED BY <1>2 DEF Kept

\* The pipe keeps or drops what it had and gains frames of one command, the
\* last of which may be its answer.
Grown(q, r, old, tag) ==
  /\ old \in {q, <<>>} /\ IsSeq(q) /\ IsSeq(r) /\ Len(r) >= Len(old)
  /\ \A i \in 1 .. Len(old) : r[i] = old[i]
  /\ \A i \in Len(old) + 1 .. Len(r) :
       /\ Framed(r[i]) /\ (~Bare(r[i]) => r[i].tag = tag)
       /\ Wrapper(r[i]) => i = Len(r)

LEMMA GrownIs ==
  ASSUME NEW q, NEW r, NEW old, NEW tag, Grown(q, r, old, tag)
  PROVE  /\ Len(old) \in Nat /\ Len(r) \in Nat /\ Len(q) \in Nat /\ (old = q \/ Len(old) = 0)
         /\ \A i \in 1 .. Len(r) :
              \/ i \in 1 .. Len(old) /\ i \in 1 .. Len(q) /\ r[i] = q[i] /\ old = q
              \/ i \in Len(old) + 1 .. Len(r)
<1>1. Len(<<>>) = 0 /\ Len(q) \in Nat /\ Len(r) \in Nat
  BY SeqLen DEF Grown
<1>2. old = q \/ Len(old) = 0
  BY <1>1 DEF Grown
<1> QED BY <1>1, <1>2 DEF Grown

LEMMA KeptGrows ==
  ASSUME NEW d, NEW h, NEW g, NEW q, NEW r, NEW old, NEW tag, NEW c, NEW e, NEW n, NEW K, NEW G,
         Kept(d, h, q, c, n, K, G), Grown(q, r, old, tag), tag \in Tags,
         \A i \in 1 .. Len(q) : Wrapper(q[i]) => q[i].tag # tag,
         e.left > 0 => Framed(e.csw) /\ e.tag = tag,
         h.pc # "idle", Busy(g), g.next = h.next, g.tag = h.tag,
         d \notin G => tag = h.tag /\ \A i \in 1 .. Len(q) : ~Bare(q[i]) => q[i].tag = h.tag
  PROVE  Kept(d, g, r, e, n, K, G)
<1>0. /\ Len(old) \in Nat /\ Len(r) \in Nat /\ Len(q) \in Nat
      /\ \A i \in 1 .. Len(r) :
           \/ i \in 1 .. Len(old) /\ i \in 1 .. Len(q) /\ r[i] = q[i] /\ old = q
           \/ i \in Len(old) + 1 .. Len(r)
  BY GrownIs
<1>1. Counted(g, K, n)
  BY DEF Kept, Counted
<1>2. Unique(r)
  <2>1. SUFFICES ASSUME NEW i \in 1 .. Len(r), NEW j \in 1 .. i - 1, Wrapper(r[i]), Wrapper(r[j])
                 PROVE  r[i].tag # r[j].tag
    BY DEF Unique
  <2>2. j \in 1 .. Len(r) /\ j # Len(r)
    BY <1>0
  <2>3. j \in 1 .. Len(q) /\ r[j] = q[j] /\ j \in 1 .. Len(old)
    BY <1>0, <2>1, <2>2 DEF Grown
  <2>4. CASE i \in 1 .. Len(q) /\ r[i] = q[i]
    BY <2>1, <2>3, <2>4 DEF Kept, Unique
  <2>5. CASE i \in Len(old) + 1 .. Len(r)
    <3>1. ~Bare(r[i])
      BY <2>1 DEF Bare, Wrapper
    <3>2. r[i].tag = tag
      BY <2>5, <3>1 DEF Grown
    <3> QED BY <2>1, <2>3, <3>2
  <2> QED BY <1>0, <2>4, <2>5
<1>3. \A i \in 1 .. Len(r) : Framed(r[i])
  BY <1>0 DEF Kept, Grown
<1>4. d \notin G => Calm(g, r, e)
  <2>1. SUFFICES ASSUME d \notin G
                 PROVE  Calm(g, r, e)
    OBVIOUS
  <2>2. \A i \in 1 .. Len(r) : ~Bare(r[i]) => r[i].tag = g.tag
    BY <1>0, <2>1 DEF Grown
  <2> QED BY <2>1, <2>2 DEF Calm
<1> QED BY <1>1, <1>2, <1>3, <1>4 DEF Kept, Busy

\* Tags seen are tags handed out.
LEMMA KeptTags ==
  ASSUME NEW d, NEW h, NEW q, NEW c, NEW n \in 0 .. MaxCommands, NEW K, NEW G, Kept(d, h, q, c, n, K, G)
  PROVE  K \subseteq 1 .. MaxTag /\ h.next \in Tags
<1>0. MaxCommands \in Nat /\ MaxTag \in Nat \ {0} /\ MaxCommands <= MaxTag
  BY UsbBotAssumption
<1>1. PICK k \in 0 .. n : h.next = Nth(k) /\ \A t \in K : \E j \in 0 .. k - 1 : t = Nth(j)
  BY DEF Kept, Counted
<1>2. \A j \in 0 .. k : j \in 0 .. MaxTag
  BY <1>0
<1>3. \A j \in 0 .. k : Nth(j) \in 1 .. MaxTag
  BY <1>2, NthIs
<1> QED BY <1>0, <1>1, <1>3 DEF Tags

-----------------------------------------------------------------------------
(* What one frame does to the decoder. *)

Opened(f) == [tag |-> f.tag, len |-> f.len, in |-> f.dir = "from_device", payload |-> <<>>]
Made(p, f) == [tag |-> p.tag, status |-> f.status, dir |-> p.in, payload |-> p.payload]
Extended(p, f) == [p EXCEPT !.payload = @ \o [i \in 1 .. Size(f) |-> f.tag]]
Fed(f, p, R, o, Q) ==
  \/ /\ o = p /\ Q = R
     /\ p = None => f.kind # "cbw" /\ ~Wrapper(f)
     /\ p # None => p.in # f.in
  \/ p = None /\ f.kind = "cbw" /\ o = Opened(f) /\ Q = R
  \/ p # None /\ MatchingCsw(f, p) /\ o = None /\ Q = Append(R, Made(p, f))
  \/ p # None /\ p.in = f.in /\ o = Extended(p, f) /\ Q = R

LEMMA ExtendedIs ==
  ASSUME NEW p \in Awaited, NEW f, f.tag \in Tags
  PROVE  /\ Extended(p, f) \in Awaited
         /\ Extended(p, f).tag = p.tag /\ Extended(p, f).len = p.len /\ Extended(p, f).in = p.in
         /\ f.kind # "cbw" =>
              /\ Len(Extended(p, f).payload) = Len(p.payload) + 1 /\ Len(p.payload) \in Nat
              /\ \A j \in 1 .. Len(p.payload) : Extended(p, f).payload[j] = p.payload[j]
              /\ Extended(p, f).payload[Len(p.payload) + 1] = f.tag
<1> DEFINE s == p.payload
           t == [i \in 1 .. Size(f) |-> f.tag]
           u == s \o t
<1>1. Size(f) \in Nat /\ (f.kind # "cbw" => Size(f) = 1)
  BY DEF Size, CbwLen, CswLen
<1>2. s \in Seq(Tags) /\ p.tag \in Tags /\ p.len \in Nat /\ p.in \in BOOLEAN
  BY DEF Awaited
<1>3. t \in [1 .. Size(f) -> Tags] /\ \A i \in 1 .. Size(f) : t[i] = f.tag
  OBVIOUS
<1> HIDE DEF s, t
<1>4. t \in Seq(Tags) /\ Len(t) = Size(f)
  BY <1>1, <1>3
<1>5. u \in Seq(Tags)
  BY <1>2, <1>4
<1>6. Len(u) = Len(s) + Len(t) /\ \A j \in 1 .. Len(s) : u[j] = s[j]
  BY <1>2, <1>4
<1>7. \A j \in 1 .. Len(t) : u[Len(s) + j] = t[j]
  BY <1>2, <1>4
<1>8. Extended(p, f) = [p EXCEPT !.payload = u]
  BY DEF Extended, s, t
<1> HIDE DEF u
<1>9. /\ Extended(p, f) \in Awaited
      /\ Extended(p, f).tag = p.tag /\ Extended(p, f).len = p.len /\ Extended(p, f).in = p.in
      /\ Extended(p, f).payload = u
  BY <1>5, <1>8 DEF Awaited
<1>10. ASSUME f.kind # "cbw"
       PROVE  Len(u) = Len(s) + 1 /\ Len(s) \in Nat /\ u[Len(s) + 1] = f.tag
  <2>1. Size(f) = 1 /\ Len(t) = 1 /\ 1 \in 1 .. Len(t) /\ 1 \in 1 .. Size(f)
    BY <1>1, <1>4, <1>10
  <2> QED BY <1>2, <1>3, <1>6, <1>7, <2>1
<1> QED BY <1>6, <1>9, <1>10 DEF s

LEMMA HeardFed ==
  ASSUME NEW p, NEW R, NEW o, NEW Q, Heard(p, R), NEW f, Fed(f, p, R, o, Q),
         f.tag \in Tags, f.kind = "cbw" => f.len \in Nat
  PROVE  Heard(o, Q)
<1>1. CASE o = p /\ Q = R
  BY <1>1
<1>2. CASE f.kind = "cbw" /\ o = Opened(f) /\ Q = R
  <2>1. <<>> \in Seq(Tags) /\ (f.dir = "from_device") \in BOOLEAN
    OBVIOUS
  <2>2. o \in Awaited
    BY <1>2, <2>1 DEF Opened, Awaited
  <2> QED BY <1>2, <2>2 DEF Heard
<1>3. CASE p # None /\ MatchingCsw(f, p) /\ o = None /\ Q = Append(R, Made(p, f))
  <2>1. Made(p, f) \in Records
    BY <1>3 DEF Heard, Awaited, Records, Made, MatchingCsw
  <2> HIDE DEF Records
  <2>2. Q \in Seq(Records)
    BY <1>3, <2>1 DEF Heard
  <2> QED BY <1>3, <2>2 DEF Heard
<1>4. CASE p # None /\ o = Extended(p, f) /\ Q = R
  <2>1. o \in Awaited
    BY <1>4, ExtendedIs DEF Heard
  <2> QED BY <1>4, <2>1 DEF Heard
<1> QED BY <1>1, <1>2, <1>3, <1>4 DEF Fed

LEMMA TagsMore ==
  ASSUME NEW S, NEW R \in Seq(S), NEW r
  PROVE  TagsOf(Append(R, r)) = TagsOf(R) \union {r.tag}
<1>1. IsSeq(R)
  BY DEF IsSeq
<1> DEFINE Q == Append(R, r)
<1>2. /\ Len(R) \in Nat /\ Len(Q) = Len(R) + 1 /\ \A i \in 1 .. Len(R) : Q[i] = R[i]
      /\ Q[Len(R) + 1] = r
  BY <1>1, SeqAppend, SeqLen
<1> HIDE DEF Q
<1>3. TagsOf(Q) = TagsOf(R) \union {r.tag}
  <2>1. ASSUME NEW t \in TagsOf(Q)
        PROVE  t \in TagsOf(R) \union {r.tag}
    <3>1. PICK i \in 1 .. Len(Q) : t = Q[i].tag
      BY <2>1 DEF TagsOf
    <3>2. i \in 1 .. Len(R) \/ i = Len(R) + 1
      BY <1>2
    <3> QED BY <1>2, <3>1, <3>2 DEF TagsOf
  <2>2. ASSUME NEW t \in TagsOf(R) \union {r.tag}
        PROVE  t \in TagsOf(Q)
    <3>1. CASE t = r.tag
      <4>1. Len(R) + 1 \in 1 .. Len(Q)
        BY <1>2
      <4> QED BY <1>2, <3>1, <4>1 DEF TagsOf
    <3>2. CASE t \in TagsOf(R)
      <4>1. PICK i \in 1 .. Len(R) : t = R[i].tag
        BY <3>2 DEF TagsOf
      <4>2. i \in 1 .. Len(Q)
        BY <1>2
      <4> QED BY <1>2, <4>1, <4>2 DEF TagsOf
    <3> QED BY <3>1, <3>2
  <2> QED BY <2>1, <2>2
<1> QED BY <1>3 DEF Q

-----------------------------------------------------------------------------
(* A frame leaves the pipe. *)

\* The pipe after a read that gives the decoder nothing, or p one unit.
LEMMA MineRest ==
  ASSUME NEW p, NEW o, NEW q, NEW r, NEW e \in Nat, Mine(p, q, e + 1), Rest(q, r), o.tag = p.tag,
         e \in 1 .. Len(r), \A j \in 1 .. Len(o.payload) : o.payload[j] = p.tag
  PROVE  Mine(o, r, e)
<1>1. ASSUME NEW i \in 1 .. e - 1, ~Bare(r[i])
      PROVE  r[i].tag = o.tag
  <2>1. i + 1 \in 1 .. (e + 1) - 1 /\ i \in 1 .. Len(q) - 1
    BY DEF Rest
  <2>2. r[i] = q[i + 1]
    BY <2>1 DEF Rest
  <2> QED BY <1>1, <2>1, <2>2 DEF Mine
<1> QED BY <1>1 DEF Mine

LEMMA OverRest ==
  ASSUME NEW p, NEW o, NEW q, NEW r, NEW e \in Nat, Over(p, q, e + 1), Rest(q, r), o.len = p.len,
         e \in 1 .. Len(r), p.len \in Int, r[e].residue \in Int, Len(p.payload) \in Int,
         \/ Len(o.payload) = Len(p.payload) + 1
         \/ Bare(q[1]) /\ Len(o.payload) = Len(p.payload)
  PROVE  Over(o, r, e)
<1>0. Len(q) \in Nat \ {0} /\ Len(r) = Len(q) - 1 /\ \A i \in 1 .. Len(q) - 1 : r[i] = q[i + 1]
  BY DEF Rest
<1>1. PICK b \in 0 .. (e + 1) - 1, m \in 0 .. (e + 1) - 1 :
        /\ b + m < e + 1
        /\ \A i \in b + 1 .. b + m : ~Bare(q[i])
        /\ Len(p.payload) + m > p.len - q[e + 1].residue
  BY DEF Over
<1>2. r[e] = q[e + 1]
  BY <1>0
<1>3. CASE b > 0
  <2>0. b \in Nat /\ m \in Nat /\ b + m < e + 1
    BY <1>1
  <2>1. b - 1 \in 0 .. e - 1 /\ m \in 0 .. e - 1 /\ (b - 1) + m < e
    BY <1>3, <2>0
  <2>2. \A i \in (b - 1) + 1 .. (b - 1) + m : ~Bare(r[i])
    <3>1. TAKE i \in (b - 1) + 1 .. (b - 1) + m
    <3>2. i + 1 \in b + 1 .. b + m /\ i \in 1 .. Len(q) - 1
      BY <1>0, <1>1, <1>3
    <3> QED BY <1>0, <1>1, <3>2
  <2>3. Len(o.payload) + m > o.len - r[e].residue
    BY <1>1, <1>2
  <2> QED BY <2>1, <2>2, <2>3 DEF Over
<1>4. CASE b = 0 /\ m > 0
  <2>1. 1 \in b + 1 .. b + m
    BY <1>4
  <2>2. Len(o.payload) = Len(p.payload) + 1
    BY <1>1, <2>1
  <2>3. 0 \in 0 .. e - 1 /\ m - 1 \in 0 .. e - 1 /\ 0 + (m - 1) < e
    BY <1>1, <1>4
  <2>4. \A i \in 0 + 1 .. 0 + (m - 1) : ~Bare(r[i])
    <3>1. TAKE i \in 0 + 1 .. 0 + (m - 1)
    <3>2. i + 1 \in b + 1 .. b + m /\ i \in 1 .. Len(q) - 1
      BY <1>0, <1>1, <1>4
    <3> QED BY <1>0, <1>1, <3>2
  <2>5. Len(o.payload) + (m - 1) > o.len - r[e].residue
    BY <1>1, <1>2, <2>2
  <2> QED BY <2>3, <2>4, <2>5 DEF Over
<1>5. CASE b = 0 /\ m = 0
  <2>1. 0 \in 0 .. e - 1 /\ 0 + 0 < e /\ \A i \in 0 + 1 .. 0 + 0 : ~Bare(r[i])
    OBVIOUS
  <2>2. Len(o.payload) + 0 > o.len - r[e].residue
    BY <1>1, <1>2, <1>5
  <2> QED BY <2>1, <2>2 DEF Over
<1> QED BY <1>3, <1>4, <1>5

LEMMA CollectsRest ==
  ASSUME NEW d, NEW p, NEW o, NEW q, NEW r, NEW v, NEW w, NEW G, NEW H,
         Collects(d, p, q, v, G), Rest(q, r), w = 0 => v = 0, G \subseteq H,
         p \in Awaited, o.tag = p.tag, o.len = p.len, o.in = p.in,
         \A i \in 1 .. Len(q) : Framed(q[i]),
         \/ o = p /\ (Bare(q[1]) \/ w # 0)
         \/ /\ ~Bare(q[1]) /\ Len(o.payload) = Len(p.payload) + 1
            /\ \A j \in 1 .. Len(p.payload) : o.payload[j] = p.payload[j]
            /\ o.payload[Len(p.payload) + 1] = q[1].tag
  PROVE  Collects(d, o, r, w, H)
<1>0. /\ Len(q) \in Nat \ {0} /\ Len(r) = Len(q) - 1 /\ \A i \in 1 .. Len(q) - 1 : r[i] = q[i + 1]
      /\ Len(p.payload) \in Nat /\ p.len \in Nat
  BY DEF Rest, Awaited
<1>1. SUFFICES ASSUME o.in, NEW e \in 1 .. Len(r), IsAnswer(o, r[e])
               PROVE  Mine(o, r, e) \/ (d \in H /\ (w = 0 => Over(o, r, e)))
  BY DEF Collects
<1>2. e + 1 \in 1 .. Len(q) /\ r[e] = q[e + 1] /\ e \in Nat
  BY <1>0
<1>3. Mine(p, q, e + 1) \/ (d \in G /\ (v = 0 => Over(p, q, e + 1)))
  BY <1>1, <1>2 DEF Collects, IsAnswer
<1>4. ASSUME Mine(p, q, e + 1)
      PROVE  Mine(o, r, e)
  <2>1. \A j \in 1 .. Len(p.payload) : p.payload[j] = p.tag
    BY <1>4 DEF Mine
  <2>2. ~Bare(q[1]) => q[1].tag = p.tag
    <3>1. 1 \in 1 .. (e + 1) - 1
      BY <1>2
    <3> QED BY <1>4, <3>1 DEF Mine
  <2>3. \A j \in 1 .. Len(o.payload) : o.payload[j] = p.tag
    <3>1. CASE o = p
      BY <2>1, <3>1
    <3>2. CASE o # p
      <4>1. TAKE j \in 1 .. Len(o.payload)
      <4>2. j \in 1 .. Len(p.payload) \/ j = Len(p.payload) + 1
        BY <1>0, <3>2
      <4> QED BY <2>1, <2>2, <3>2, <4>2
    <3> QED BY <3>1, <3>2
  <2> QED BY <1>2, <1>4, <2>3, MineRest
<1>5. ASSUME Over(p, q, e + 1), w = 0
      PROVE  Over(o, r, e)
  <2>1. r[e].residue \in Int
    <3>1. Framed(r[e]) /\ Wrapper(r[e])
      BY <1>1, <1>2 DEF IsAnswer
    <3> QED BY <3>1 DEF Framed, Bare, Wrapper
  <2>2. \/ Len(o.payload) = Len(p.payload) + 1
        \/ Bare(q[1]) /\ Len(o.payload) = Len(p.payload)
    BY <1>5
  <2> QED BY <1>0, <1>2, <1>5, <2>1, <2>2, OverRest
<1> QED BY <1>3, <1>4, <1>5

LEMMA RestIn ==
  ASSUME NEW q, NEW r, r = q \/ Rest(q, r)
  PROVE  \A i \in 1 .. Len(r) : \E j \in 1 .. Len(q) : r[i] = q[j]
<1>1. CASE r = q
  BY <1>1
<1>2. CASE Rest(q, r)
  <2>1. \A i \in 1 .. Len(r) : i + 1 \in 1 .. Len(q) /\ r[i] = q[i + 1]
    BY <1>2 DEF Rest
  <2> QED BY <2>1
<1> QED BY <1>1, <1>2

LEMMA PendingRest ==
  ASSUME NEW p, NEW o, NEW q, NEW r, NEW c, NEW T, NEW K, Pending(q, c, T, p, K), r = q \/ Rest(q, r),
         o.tag = p.tag, o.len = p.len, o.in = p.in
  PROVE  Pending(r, c, T, o, K)
<1>1. \A i \in 1 .. Len(r) : Wrapper(r[i]) => Tells(r[i], o, T)
  <2>1. \A i \in 1 .. Len(r) : \E j \in 1 .. Len(q) : r[i] = q[j]
    BY RestIn
  <2> QED BY <2>1 DEF Pending, Tells
<1> QED BY <1>1 DEF Pending

LEMMA DeadRest ==
  ASSUME NEW p, NEW o, NEW q, NEW r, NEW c, Dead(p, q, c), r = q \/ Rest(q, r), o.tag = p.tag
  PROVE  Dead(o, r, c)
<1>1. \A i \in 1 .. Len(r) : \E j \in 1 .. Len(q) : r[i] = q[j]
  BY RestIn
<1> QED BY <1>1 DEF Dead, IsAnswer

\* With nothing left, nothing answers.
LEMMA DeadEmpty ==
  ASSUME NEW p, NEW c, c.left = 0
  PROVE  Dead(p, <<>>, c)
<1>1. Len(<<>>) = 0
  OBVIOUS
<1> QED BY <1>1 DEF Dead

\* The decoder sees nothing.
LEMMA DecodesStill ==
  ASSUME NEW d, NEW h, NEW g, NEW q, NEW r, NEW c, NEW T, NEW p, NEW R, NEW K, NEW v, NEW w,
         NEW G, NEW H, NEW b, Decodes(d, h, q, c, T, p, R, K, v, G, b), Heard(p, R),
         \A i \in 1 .. Len(q) : Framed(q[i]),
         r = q \/ (Rest(q, r) /\ (Bare(q[1]) \/ w # 0)), w = 0 => v = 0, G \subseteq H,
         d \notin H /\ Busy(h) => Moves(h, g, r, c)
  PROVE  Decodes(d, g, r, c, T, p, R, K, w, H, b)
<1>1. Recorded(d, c, T, R, w, H)
  BY DEF Decodes, Recorded
<1>2. p # None => Pending(r, c, T, p, K)
  BY PendingRest DEF Decodes
<1>3. p # None => Collects(d, p, r, w, H)
  <2>1. CASE r = q
    BY <2>1 DEF Decodes, Collects
  <2>2. CASE r # q
    BY <2>2, CollectsRest DEF Decodes, Heard
  <2> QED BY <2>1, <2>2
<1>4. d \notin H /\ ~b => Noticed(g, r, c, p, R, K)
  <2>1. SUFFICES ASSUME d \notin H, ~b, p # None
                 PROVE  \/ Busy(g) /\ p.tag = g.tag /\ K = TagsOf(R) \union {p.tag}
                        \/ Dead(p, r, c)
    BY DEF Decodes, Noticed
  <2>2. CASE Dead(p, q, c)
    BY <2>2, DeadRest
  <2>3. CASE ~Dead(p, q, c)
    <3>1. Busy(h) /\ p.tag = h.tag /\ K = TagsOf(R) \union {p.tag}
      BY <2>1, <2>3 DEF Decodes, Noticed
    <3>2. Moves(h, g, r, c)
      BY <2>1, <3>1
    <3> QED BY <3>1, <3>2, DeadEmpty DEF Moves
  <2> QED BY <2>2, <2>3
<1> QED BY <1>1, <1>2, <1>3, <1>4 DEF Decodes

\* A record is added when the answer is read.
LEMMA RecordedMore ==
  ASSUME NEW d, NEW q, NEW c, NEW T, NEW p, NEW R, NEW K, NEW v, NEW w, NEW G, NEW H,
         Recorded(d, c, T, R, v, G), Pending(q, c, T, p, K), Collects(d, p, q, v, G),
         p \in Awaited, R \in Seq(Records), IsSeq(q), q # <<>>, MatchingCsw(q[1], p),
         q[1].tag \in DOMAIN T, c.left > 0 => q[1].tag # c.tag,
         w = 0 => v = 0, G \subseteq H
  PROVE  Recorded(d, c, T, Append(R, Made(p, q[1])), w, H)
<1> DEFINE f == q[1]
           m == Made(p, f)
           Q == Append(R, m)
<1>1. /\ Len(R) \in Nat /\ Len(Q) = Len(R) + 1 /\ \A i \in 1 .. Len(R) : Q[i] = R[i]
      /\ Q[Len(R) + 1] = m
  <2>1. IsSeq(R)
    BY DEF IsSeq
  <2> QED BY <2>1, SeqAppend, SeqLen
<1>2. 1 \in 1 .. Len(q) /\ Wrapper(f) /\ f.tag = p.tag /\ Len(p.payload) = p.len - f.residue
  BY SeqLen DEF MatchingCsw, Wrapper
<1>3. m.tag = p.tag /\ m.status = f.status /\ m.dir = p.in /\ m.payload = p.payload
  BY DEF Made
<1>4. T[p.tag] = [n |-> p.len - f.residue, status |-> f.status]
  BY <1>2 DEF Pending, Tells
<1>5. ASSUME p.in, w = 0 \/ d \notin H
      PROVE  \A j \in 1 .. Len(p.payload) : p.payload[j] = p.tag
  <2>1. IsAnswer(p, q[1])
    BY <1>2 DEF IsAnswer
  <2>2. Mine(p, q, 1) \/ (d \in G /\ (v = 0 => Over(p, q, 1)))
    BY <1>2, <1>5, <2>1 DEF Collects
  <2>3. ~Over(p, q, 1)
    <3>1. Len(p.payload) \in Nat
      BY DEF Awaited
    <3>2. 0 .. 1 - 1 = {0}
      OBVIOUS
    <3> QED BY <1>2, <3>1, <3>2 DEF Over
  <2>4. Mine(p, q, 1)
    BY <1>5, <2>2, <2>3
  <2> QED BY <2>4 DEF Mine
<1> HIDE DEF m, Q
<1>6. SUFFICES ASSUME NEW i \in 1 .. Len(Q)
               PROVE  /\ Q[i].tag \in DOMAIN T
                      /\ T[Q[i].tag] = [n |-> Len(Q[i].payload), status |-> Q[i].status]
                      /\ Q[i].dir /\ (w = 0 \/ d \notin H) =>
                           \A j \in 1 .. Len(Q[i].payload) : Q[i].payload[j] = Q[i].tag
                      /\ c.left > 0 => Q[i].tag # c.tag
  BY DEF Recorded, Q, m
<1>7. CASE i \in 1 .. Len(R)
  BY <1>1, <1>7 DEF Recorded
<1>8. CASE i = Len(R) + 1
  <2>1. Q[i] = m
    BY <1>1, <1>8
  <2>2. m.dir /\ (w = 0 \/ d \notin H) => \A j \in 1 .. Len(m.payload) : m.payload[j] = m.tag
    BY <1>3, <1>5
  <2>3. T[m.tag] = [n |-> Len(m.payload), status |-> m.status]
    BY <1>2, <1>3, <1>4
  <2> QED BY <1>2, <1>3, <2>1, <2>2, <2>3
<1> QED BY <1>1, <1>7, <1>8

\* The frame that is read reaches the decoder, with o and Q for p and R.
Reads(d, h, g, q, r, c, T, p, R, o, Q, K, v, w, G, H) ==
  /\ Heard(p, R) /\ IsSeq(q) /\ q # <<>> /\ Rest(q, r) /\ ~Bare(q[1]) /\ Fed(q[1], p, R, o, Q)
  /\ \A i \in 1 .. Len(q) : Framed(q[i])
  /\ K \subseteq 1 .. MaxTag /\ Ordered(q, T)
  /\ c.left > 0 => \A i \in 1 .. Len(q) : Wrapper(q[i]) => q[i].tag # c.tag
  /\ (w = 0 => v = 0) /\ G \subseteq H
  /\ d \notin H /\ Busy(h) => Moves(h, g, r, c)

LEMMA DecodesRead ==
  ASSUME NEW d, NEW h, NEW g, NEW q, NEW r, NEW c, NEW T, NEW p, NEW R, NEW o, NEW Q, NEW K,
         NEW v, NEW w, NEW G, NEW H, NEW b, Decodes(d, h, q, c, T, p, R, K, v, G, b),
         Reads(d, h, g, q, r, c, T, p, R, o, Q, K, v, w, G, H)
  PROVE  Decodes(d, g, r, c, T, o, Q, K, w, H, b)
<1> USE DEF Reads
<1> DEFINE f == q[1]
<1>0. /\ 1 \in 1 .. Len(q) /\ f.kind \in {"data", "csw"} /\ f.in = TRUE /\ f.tag \in Tags
      /\ None.tag = 0
  BY SeqLen DEF Framed, Rest, None
<1>1. CASE p = None
  <2>1. o = None /\ Q = R
    BY <1>0, <1>1 DEF Fed
  <2>2. Recorded(d, c, T, R, w, H)
    BY DEF Decodes, Recorded
  <2>3. d \notin H /\ ~b => Noticed(g, r, c, None, R, K)
    BY <1>1 DEF Decodes, Noticed
  <2> QED BY <2>1, <2>2, <2>3 DEF Decodes
<1>2. CASE p # None /\ MatchingCsw(f, p) /\ o = None /\ Q = Append(R, Made(p, f))
  <2>0. p \in Awaited /\ R \in Seq(Records)
    BY <1>2 DEF Heard
  <2>1. Wrapper(f) /\ f.tag = p.tag
    BY <1>2 DEF MatchingCsw, Wrapper
  <2>2. Recorded(d, c, T, Q, w, H)
    <3>1. f.tag \in DOMAIN T /\ (c.left > 0 => f.tag # c.tag)
      BY <1>0, <2>1 DEF Ordered
    <3>2. Pending(q, c, T, p, K) /\ Collects(d, p, q, v, G) /\ Recorded(d, c, T, R, v, G)
      BY <1>2 DEF Decodes
    <3> QED BY <1>2, <2>0, <3>1, <3>2, RecordedMore
  <2>3. d \notin H /\ ~b => Noticed(g, r, c, o, Q, K)
    <3>1. SUFFICES ASSUME d \notin H, ~b
                   PROVE  K = TagsOf(Q)
      BY <1>2 DEF Noticed
    <3>2. ~Dead(p, q, c)
      BY <1>0, <2>1 DEF Dead, IsAnswer
    <3>3. K = TagsOf(R) \union {p.tag}
      BY <1>2, <3>1, <3>2 DEF Decodes, Noticed
    <3>4. Made(p, f).tag = p.tag
      BY DEF Made
    <3> HIDE DEF f
    <3> QED BY <1>2, <2>0, <3>3, <3>4, TagsMore
  <2> QED BY <1>2, <2>2, <2>3 DEF Decodes
<1>3. CASE p # None /\ Q = R /\ ((o = p /\ p.in # f.in) \/ o = Extended(p, f))
  <2>0. p \in Awaited
    BY <1>3 DEF Heard
  <2>1. p.in => o = Extended(p, f)
    BY <1>0, <1>3, <2>0 DEF Awaited
  <2>7. Pending(q, c, T, p, K) /\ Collects(d, p, q, v, G)
    BY <1>3 DEF Decodes
  <2>8. p.tag \in K /\ p.tag # 0
    <3>1. p.tag \in 1 .. MaxTag
      BY <2>7 DEF Pending
    <3> QED BY <2>7, <3>1, UsbBotAssumption DEF Pending
  <2>2. o.tag = p.tag /\ o.len = p.len /\ o.in = p.in /\ o # None
    BY <1>0, <1>3, <2>0, <2>8, ExtendedIs
  <2>3. Recorded(d, c, T, R, w, H)
    BY DEF Decodes, Recorded
  <2>4. Pending(r, c, T, o, K)
    BY <2>2, <2>7, PendingRest
  <2>5. Collects(d, o, r, w, H)
    <3>1. CASE ~p.in
      BY <2>2, <3>1 DEF Collects
    <3>2. CASE p.in
      <4>1. o = Extended(p, f) /\ f.kind # "cbw"
        BY <1>0, <1>3, <2>1, <3>2
      <4>2. /\ Len(o.payload) = Len(p.payload) + 1
            /\ \A j \in 1 .. Len(p.payload) : o.payload[j] = p.payload[j]
            /\ o.payload[Len(p.payload) + 1] = f.tag
        BY <1>0, <2>0, <4>1, ExtendedIs
      <4> QED BY <2>0, <2>2, <2>7, <4>2, CollectsRest
    <3> QED BY <3>1, <3>2
  <2>6. d \notin H /\ ~b => Noticed(g, r, c, o, R, K)
    <3>1. SUFFICES ASSUME d \notin H, ~b
                   PROVE  \/ Busy(g) /\ o.tag = g.tag /\ K = TagsOf(R) \union {o.tag}
                          \/ Dead(o, r, c)
      BY <2>2 DEF Noticed
    <3>2. CASE Dead(p, q, c)
      BY <2>2, <3>2, DeadRest
    <3>3. CASE ~Dead(p, q, c)
      <4>1. Busy(h) /\ p.tag = h.tag /\ K = TagsOf(R) \union {p.tag}
        BY <1>3, <3>1, <3>3 DEF Decodes, Noticed
      <4>2. Moves(h, g, r, c)
        BY <3>1, <4>1
      <4> QED BY <2>2, <4>1, <4>2, DeadEmpty DEF Moves
    <3> QED BY <3>2, <3>3
  <2> QED BY <1>3, <2>3, <2>4, <2>5, <2>6 DEF Decodes
<1> QED BY <1>0, <1>1, <1>2, <1>3 DEF Fed

-----------------------------------------------------------------------------
(* The device answers. *)

LEMMA MineGrows ==
  ASSUME NEW p, NEW q, NEW r, NEW e \in Nat, Mine(p, q, e), \A i \in 1 .. e : r[i] = q[i]
  PROVE  Mine(p, r, e)
<1>1. \A i \in 1 .. e - 1 : r[i] = q[i]
  OBVIOUS
<1> QED BY <1>1 DEF Mine

LEMMA DecodesGrows ==
  ASSUME NEW d, NEW h, NEW g, NEW q, NEW r, NEW old, NEW tag, NEW c, NEW e, NEW T, NEW U, NEW p, NEW R,
         NEW K, NEW v, NEW w, NEW G, NEW b, Decodes(d, h, q, c, T, p, R, K, v, G, b), Grown(q, r, old, tag),
         Ordered(q, T), DOMAIN T \subseteq DOMAIN U, \A t \in DOMAIN T : t # tag => U[t] = T[t],
         \A i \in 1 .. Len(R) : R[i].tag # tag, e.left > 0 => e.tag = tag,
         Busy(h) => Busy(g) /\ g.tag = h.tag, w = 0 => v = 0,
         p # None /\ p.tag = tag => Pending(r, e, U, p, K) /\ ~p.in /\ ~Dead(p, q, c)
  PROVE  Decodes(d, g, r, e, U, p, R, K, w, G, b)
<1>0. /\ Len(old) \in Nat /\ Len(r) \in Nat /\ Len(q) \in Nat
      /\ \A i \in 1 .. Len(r) :
           \/ i \in 1 .. Len(old) /\ i \in 1 .. Len(q) /\ r[i] = q[i] /\ old = q
           \/ i \in Len(old) + 1 .. Len(r)
  BY GrownIs
<1>1. \A i \in Len(old) + 1 .. Len(r) : Wrapper(r[i]) => r[i].tag = tag
  BY DEF Grown, Bare, Wrapper
<1>2. Recorded(d, e, U, R, w, G)
  BY DEF Decodes, Recorded
<1>3. ASSUME p # None, p.tag # tag
      PROVE  Pending(r, e, U, p, K)
  <2>1. Pending(q, c, T, p, K)
    BY <1>3 DEF Decodes
  <2>2. ASSUME NEW i \in 1 .. Len(r), Wrapper(r[i]), r[i].tag = p.tag
        PROVE  U[p.tag] = [n |-> p.len - r[i].residue, status |-> r[i].status]
    <3>1. i \in 1 .. Len(q) /\ r[i] = q[i]
      BY <1>0, <1>1, <1>3, <2>2
    <3>2. T[p.tag] = [n |-> p.len - r[i].residue, status |-> r[i].status] /\ p.tag \in DOMAIN T
      BY <2>1, <2>2, <3>1 DEF Pending, Tells, Ordered
    <3> QED BY <1>3, <3>2
  <2> QED BY <1>3, <2>1, <2>2 DEF Pending, Tells
<1>4. p # None => Pending(r, e, U, p, K)
  BY <1>3
<1>5. ASSUME p # None
      PROVE  Collects(d, p, r, w, G)
  <2>1. CASE p.tag = tag
    BY <1>5, <2>1 DEF Collects
  <2>2. CASE p.tag # tag
    <3>1. SUFFICES ASSUME p.in, NEW x \in 1 .. Len(r), IsAnswer(p, r[x])
                   PROVE  Mine(p, r, x) \/ (d \in G /\ (w = 0 => Over(p, r, x)))
      BY DEF Collects
    <3>2. x \in Nat /\ x \in 1 .. Len(q) /\ x \in 1 .. Len(old) /\ r[x] = q[x] /\ old = q
      BY <1>0, <1>1, <2>2, <3>1 DEF IsAnswer
    <3>3. \A i \in 1 .. x : r[i] = q[i]
      <4>1. \A i \in 1 .. x : i \in 1 .. Len(old)
        BY <1>0, <3>2
      <4> QED BY <3>2, <4>1 DEF Grown
    <3>4. Mine(p, q, x) \/ (d \in G /\ (v = 0 => Over(p, q, x)))
      BY <1>5, <3>1, <3>2 DEF Decodes, Collects
    <3>5. Over(p, q, x) => Over(p, r, x)
      <4>1. SUFFICES ASSUME NEW y \in 0 .. x - 1, NEW m \in 0 .. x - 1, y + m < x,
                            \A i \in y + 1 .. y + m : ~Bare(q[i]),
                            Len(p.payload) + m > p.len - q[x].residue
                     PROVE  Over(p, r, x)
        BY DEF Over
      <4>2. x \in Nat /\ y \in Nat /\ m \in Nat /\ y + m < x
        BY <3>2, <4>1
      <4>3. \A i \in y + 1 .. y + m : i \in 1 .. x
        BY <4>2
      <4>4. \A i \in y + 1 .. y + m : r[i] = q[i]
        BY <3>3, <4>3
      <4>5. \A i \in y + 1 .. y + m : ~Bare(r[i])
        BY <4>1, <4>4
      <4>6. Len(p.payload) + m > p.len - r[x].residue
        BY <3>2, <4>1
      <4> QED BY <4>1, <4>5, <4>6 DEF Over
    <3> QED BY <3>3, <3>4, <3>5, MineGrows
  <2> QED BY <2>1, <2>2
<1>6. d \notin G /\ ~b => Noticed(g, r, e, p, R, K)
  <2>1. SUFFICES ASSUME d \notin G, ~b, p # None
                 PROVE  \/ Busy(g) /\ p.tag = g.tag /\ K = TagsOf(R) \union {p.tag}
                        \/ Dead(p, r, e)
    BY DEF Decodes, Noticed
  <2>2. CASE Dead(p, q, c)
    <3>1. p.tag # tag
      BY <2>1, <2>2
    <3>2. \A i \in 1 .. Len(r) : ~IsAnswer(p, r[i])
      <4>1. TAKE i \in 1 .. Len(r)
      <4>2. CASE i \in 1 .. Len(q) /\ r[i] = q[i]
        BY <2>2, <4>2 DEF Dead
      <4>3. CASE i \in Len(old) + 1 .. Len(r)
        BY <1>1, <3>1, <4>3 DEF IsAnswer
      <4> QED BY <1>0, <4>2, <4>3
    <3> QED BY <3>1, <3>2 DEF Dead
  <2>3. CASE ~Dead(p, q, c)
    BY <2>1, <2>3 DEF Decodes, Noticed
  <2> QED BY <2>2, <2>3
<1> QED BY <1>2, <1>4, <1>5, <1>6 DEF Decodes

\* The decoder sees what the host sends: a command block, or data.
LEMMA DecodesSent ==
  ASSUME NEW d, NEW h, NEW q, NEW c, NEW T, NEW p, NEW R, NEW o, NEW Q, NEW K, NEW L, NEW v, NEW G,
         NEW b, NEW f, Decodes(d, h, q, c, T, p, R, K, v, G, b), Heard(p, R), Fed(f, p, R, o, Q),
         f.kind \in {"cbw", "data"}, f.in = FALSE, f.tag \in Tags, f.tag = h.tag, h.tag \in 1 .. MaxTag,
         Busy(h), K \subseteq 1 .. MaxTag,
         L = IF f.kind = "cbw" THEN K \union {f.tag} ELSE K,
         f.kind = "cbw" => /\ f.tag \notin K
                           /\ Pending(q, c, T, Opened(f), L) /\ Collects(d, Opened(f), q, v, G)
  PROVE  Decodes(d, h, q, c, T, o, Q, L, v, G, b)
<1>0. ~Wrapper(f) /\ ~MatchingCsw(f, p) /\ K \subseteq L /\ None.tag = 0 /\ Q = R
  BY DEF Wrapper, MatchingCsw, None, Fed
<1>1. Recorded(d, c, T, R, v, G)
  BY DEF Decodes
<1>2. CASE p = None /\ f.kind # "cbw"
  <2>1. o = None /\ L = K
    BY <1>0, <1>2 DEF Fed
  <2>2. d \notin G /\ ~b => Noticed(h, q, c, None, R, K)
    BY <1>2 DEF Decodes, Noticed
  <2> QED BY <1>0, <1>1, <2>1, <2>2 DEF Decodes
<1>3. CASE p = None /\ f.kind = "cbw"
  <2>1. o = Opened(f) /\ L = K \union {f.tag}
    BY <1>0, <1>3 DEF Fed
  <2>2. o.tag = f.tag
    BY <2>1 DEF Opened
  <2>3. o # None
    BY <1>0, <2>2, UsbBotAssumption
  <2>4. d \notin G /\ ~b => Noticed(h, q, c, o, R, L)
    <3>1. d \notin G /\ ~b => K = TagsOf(R)
      BY <1>3 DEF Decodes, Noticed
    <3> QED BY <2>1, <2>2, <2>3, <3>1 DEF Noticed
  <2> QED BY <1>0, <1>1, <1>3, <2>1, <2>4 DEF Decodes
<1>4. CASE p # None
  <2>0. p \in Awaited /\ Pending(q, c, T, p, K) /\ Collects(d, p, q, v, G)
    BY <1>4 DEF Heard, Decodes
  <2>1. o = p \/ (o = Extended(p, f) /\ ~p.in)
    BY <1>0, <1>4, <2>0 DEF Fed
  <2>2. o.tag = p.tag /\ o.len = p.len /\ o.in = p.in
    BY <2>0, <2>1, ExtendedIs
  <2>3. p.tag \in K /\ p.tag \in 1 .. MaxTag
    BY <2>0 DEF Pending
  <2>4. Pending(q, c, T, o, L)
    <3>1. Pending(q, c, T, o, K)
      BY <2>0, <2>2, PendingRest
    <3> QED BY <1>0, <3>1 DEF Pending
  <2>5. Collects(d, o, q, v, G)
    BY <2>0, <2>1, <2>2 DEF Collects
  <2>6. o # None
    BY <1>0, <2>2, <2>3, UsbBotAssumption
  <2>7. d \notin G /\ ~b => Noticed(h, q, c, o, R, L)
    <3>1. SUFFICES ASSUME d \notin G, ~b
                   PROVE  \/ Busy(h) /\ o.tag = h.tag /\ L = TagsOf(R) \union {o.tag}
                          \/ Dead(o, q, c)
      BY <2>6 DEF Noticed
    <3>2. CASE Dead(p, q, c)
      BY <2>2, <3>2, DeadRest
    <3>3. CASE ~Dead(p, q, c)
      <4>1. Busy(h) /\ p.tag = h.tag /\ K = TagsOf(R) \union {p.tag}
        BY <1>4, <3>1, <3>3 DEF Decodes, Noticed
      <4>2. f.kind # "cbw"
        BY <2>3, <4>1
      <4> QED BY <2>2, <4>1, <4>2
    <3> QED BY <3>2, <3>3
  <2> QED BY <1>0, <1>1, <2>4, <2>5, <2>7 DEF Decodes
<1> QED BY <1>2, <1>3, <1>4

\* An import that fails has no records left, and then all holds of it.
LEMMA DecodesNothing ==
  ASSUME NEW d, NEW h, NEW q, NEW c, NEW T, NEW K, NEW v, NEW G
  PROVE  Decodes(d, h, q, c, T, None, <<>>, K, v, G, TRUE) /\ Heard(None, <<>>)
<1>1. Len(<<>>) = 0 /\ <<>> \in Seq(Records)
  OBVIOUS
<1> QED BY <1>1 DEF Decodes, Recorded, Heard

LEMMA DecodesLater ==
  ASSUME NEW d, NEW h, NEW q, NEW c, NEW T, NEW p, NEW R, NEW K, NEW v, NEW w, NEW G, NEW H, NEW b,
         Decodes(d, h, q, c, T, p, R, K, v, G, b), w = 0 => v = 0, d \in H <=> d \in G
  PROVE  Decodes(d, h, q, c, T, p, R, K, w, H, b)
<1>1. Recorded(d, c, T, R, w, H)
  BY DEF Decodes, Recorded
<1>2. p # None => Collects(d, p, q, w, H)
  BY DEF Decodes, Collects
<1> QED BY <1>1, <1>2 DEF Decodes

-----------------------------------------------------------------------------
(* The invariant of the importer. *)

DecoderInv ==
  /\ decoder = [pending |-> decoder.pending, records |-> decoder.records, failed |-> decoder.failed]
  /\ DOMAIN decoder.pending = Devices /\ DOMAIN decoder.records = Devices
  /\ decoder.failed \in BOOLEAN
  /\ decoder.failed => decoder = Aborted
KeptAt(d) == Kept(d, bot[d], inq[d], dev[d], submitted, captured[d], gone)
DecodesAt(d) ==
  Decodes(d, bot[d], inq[d], dev[d], truth[d], decoder.pending[d], decoder.records[d],
          captured[d], lost, gone, decoder.failed)
SizedAt(d) == Sized(bot[d], dev[d], last[d])
HeardAt(d) == Heard(decoder.pending[d], decoder.records[d])
CaptureInv ==
  /\ DecoderInv /\ DOMAIN captured = Devices /\ gone \subseteq Devices /\ lost \in 0 .. MaxLost
  /\ \A d \in Devices : KeptAt(d) /\ DecodesAt(d) /\ SizedAt(d) /\ HeardAt(d)

LEMMA AbortedIs ==
  /\ Aborted = [pending |-> Aborted.pending, records |-> Aborted.records, failed |-> Aborted.failed]
  /\ DOMAIN Aborted.pending = Devices /\ DOMAIN Aborted.records = Devices /\ Aborted.failed = TRUE
  /\ \A d \in Devices : Aborted.pending[d] = None /\ Aborted.records[d] = <<>>
<1> DEFINE P == [d \in Devices |-> None]
           S == [d \in Devices |-> <<>>]
<1>1. /\ DOMAIN P = Devices /\ DOMAIN S = Devices
      /\ \A d \in Devices : P[d] = None /\ S[d] = <<>>
  OBVIOUS
<1>2. NewDecoder = [pending |-> P, records |-> S, failed |-> FALSE]
  BY DEF NewDecoder
<1> HIDE DEF P, S
<1>3. Aborted = [pending |-> P, records |-> S, failed |-> TRUE]
  <2>1. Aborted = [[pending |-> P, records |-> S, failed |-> FALSE] EXCEPT !.failed = TRUE]
    BY <1>2 DEF Aborted
  <2> QED BY <2>1
<1> QED BY <1>1, <1>3

\* The decoder after one frame of d.
Heeds(d, f) ==
  \/ decoder' = Aborted
  \/ /\ decoder'.failed = decoder.failed
     /\ Moved(decoder.pending, decoder'.pending, d, decoder'.pending[d])
     /\ Moved(decoder.records, decoder'.records, d, decoder'.records[d])
     /\ Fed(f, decoder.pending[d], decoder.records[d], decoder'.pending[d], decoder'.records[d])

LEMMA FeedIs ==
  ASSUME DecoderInv, NEW d \in Devices, NEW f, decoder' = Feed(d, f)
  PROVE  DecoderInv' /\ Heeds(d, f)
<1> DEFINE p == decoder.pending[d]
           R == decoder.records[d]
<1>0. DOMAIN decoder.pending = Devices /\ DOMAIN decoder.records = Devices /\ decoder.failed \in BOOLEAN
  BY DEF DecoderInv
<1>1. CASE decoder' = Aborted
  BY <1>1, AbortedIs DEF DecoderInv, Heeds
<1>2. ASSUME ~decoder.failed, NEW P, NEW S, Moved(decoder.pending, P, d, P[d]),
             Moved(decoder.records, S, d, S[d]), Fed(f, p, R, P[d], S[d]),
             decoder' = [pending |-> P, records |-> S, failed |-> decoder.failed]
      PROVE  DecoderInv' /\ Heeds(d, f)
  <2>1. decoder'.pending = P /\ decoder'.records = S /\ decoder'.failed = decoder.failed
    BY <1>2
  <2>2. DecoderInv'
    BY <1>0, <1>2, <2>1 DEF DecoderInv, Moved
  <2>3. Heeds(d, f)
    BY <1>2, <2>1 DEF Heeds
  <2> QED BY <2>2, <2>3
<1>3. CASE decoder.failed
  <2>1. decoder' = Aborted
    BY <1>3 DEF Feed, DecoderInv
  <2> QED BY <1>1, <2>1
<1>4. CASE ~decoder.failed
  <2>1. \/ p = None /\ decoder' = FeedIdle(d, f)
        \/ p # None /\ decoder' = FeedPending(d, f, p)
    BY <1>4 DEF Feed, Key
  <2>2. ASSUME NEW o, NEW Q, Fed(f, p, R, o, Q), NEW P, P = [decoder.pending EXCEPT ![d] = o],
               NEW S, (S = decoder.records /\ Q = R) \/ S = [decoder.records EXCEPT ![d] = Q],
               decoder' = [pending |-> P, records |-> S, failed |-> decoder.failed]
        PROVE  DecoderInv' /\ Heeds(d, f)
    <3>1. P[d] = o /\ Moved(decoder.pending, P, d, P[d])
      BY <1>0, <2>2, MovedIs DEF Moved
    <3>2. S[d] = Q /\ Moved(decoder.records, S, d, S[d])
      BY <1>0, <2>2, MovedIs DEF Moved
    <3> QED BY <1>2, <1>4, <2>2, <3>1, <3>2
  <2>3. ASSUME decoder' = decoder, Fed(f, p, R, p, R)
        PROVE  DecoderInv' /\ Heeds(d, f)
    <3>1. /\ Moved(decoder.pending, decoder.pending, d, p)
          /\ Moved(decoder.records, decoder.records, d, R)
      BY <1>0, MovedIs
    <3> QED BY <2>3, <3>1 DEF DecoderInv, Heeds
  <2>4. CASE p = None /\ decoder' = FeedIdle(d, f)
    <3>1. CASE f.kind = "cbw"
      <4>1. decoder' = [pending |-> [decoder.pending EXCEPT ![d] = Opened(f)],
                        records |-> decoder.records, failed |-> decoder.failed]
        BY <2>4, <3>1 DEF FeedIdle, Opened, DecoderInv
      <4>2. Fed(f, p, R, Opened(f), R)
        BY <2>4, <3>1 DEF Fed
      <4> QED BY <2>2, <4>1, <4>2
    <3>2. CASE f.kind = "csw"
      <4>1. decoder' = Aborted
        BY <2>4, <3>2 DEF FeedIdle
      <4> QED BY <1>1, <4>1
    <3>3. CASE f.kind # "cbw" /\ f.kind # "csw"
      <4>1. decoder' = decoder
        BY <2>4, <3>3 DEF FeedIdle
      <4>2. Fed(f, p, R, p, R)
        BY <2>4, <3>3 DEF Fed, Wrapper
      <4> QED BY <2>3, <4>1, <4>2
    <3> QED BY <3>1, <3>2, <3>3
  <2>5. CASE p # None /\ decoder' = FeedPending(d, f, p)
    <3>1. \/ decoder' = Complete(d, f, p)
          \/ decoder' = Aborted
          \/ decoder' = decoder /\ p.in # f.in
          \/ /\ decoder' = [decoder EXCEPT !.pending[d].payload = @ \o [i \in 1 .. Size(f) |-> f.tag]]
             /\ p.in = f.in
      BY <2>5 DEF FeedPending
    <3>2. CASE decoder' = Complete(d, f, p)
      <4>1. CASE MatchingCsw(f, p)
        <5>1. decoder' = [decoder EXCEPT !.pending[d] = None, !.records[d] = Append(@, Made(p, f))]
          BY <3>2, <4>1 DEF Complete, Made
        <5>2. decoder' = [pending |-> [decoder.pending EXCEPT ![d] = None],
                          records |-> [decoder.records EXCEPT ![d] = Append(R, Made(p, f))],
                          failed |-> decoder.failed]
          BY <5>1 DEF DecoderInv
        <5>3. Fed(f, p, R, None, Append(R, Made(p, f)))
          BY <2>5, <4>1 DEF Fed
        <5> QED BY <2>2, <5>2, <5>3
      <4>2. CASE ~MatchingCsw(f, p)
        BY <1>1, <3>2, <4>2 DEF Complete
      <4> QED BY <4>1, <4>2
    <3>3. CASE decoder' = decoder /\ p.in # f.in
      <4>1. Fed(f, p, R, p, R)
        BY <2>5, <3>3 DEF Fed
      <4> QED BY <2>3, <3>3, <4>1
    <3>4. CASE /\ decoder' = [decoder EXCEPT !.pending[d].payload = @ \o [i \in 1 .. Size(f) |-> f.tag]]
               /\ p.in = f.in
      <4>1. decoder' = [pending |-> [decoder.pending EXCEPT ![d] = Extended(p, f)],
                        records |-> decoder.records, failed |-> decoder.failed]
        BY <1>0, <3>4 DEF Extended, DecoderInv
      <4>2. Fed(f, p, R, Extended(p, f), R)
        BY <2>5, <3>4 DEF Fed
      <4> QED BY <2>2, <4>1, <4>2
    <3> QED BY <1>1, <3>1, <3>2, <3>3, <3>4
  <2> QED BY <2>1, <2>4, <2>5
<1> QED BY <1>3, <1>4, <1>0

\* What a step of d does to the decoder and to what the capture has.
Wire(d) ==
  /\ DecoderInv' /\ lost' \in 0 .. MaxLost /\ (lost' = 0 => lost = 0)
  /\ Moved(captured, captured', d, captured'[d])
  /\ \/ decoder' = Aborted
     \/ /\ decoder'.failed = decoder.failed
        /\ Moved(decoder.pending, decoder'.pending, d, decoder'.pending[d])
        /\ Moved(decoder.records, decoder'.records, d, decoder'.records[d])
  /\ HeardAt(d)'
\* The frame is captured ...
Caught(d, f) ==
  /\ captured'[d] = IF f.kind = "cbw" THEN captured[d] \union {f.tag} ELSE captured[d]
  /\ lost' = lost /\ Heeds(d, f)
\* ... or not.
Missed(d) == captured'[d] = captured[d] /\ decoder' = decoder

LEMMA OffWireIs ==
  ASSUME CaptureInv, NEW d \in Devices, OffWire
  PROVE  Wire(d) /\ Missed(d) /\ lost' = lost
<1>1. /\ Moved(captured, captured, d, captured[d])
      /\ Moved(decoder.pending, decoder.pending, d, decoder.pending[d])
      /\ Moved(decoder.records, decoder.records, d, decoder.records[d])
  BY MovedIs DEF CaptureInv, DecoderInv
<1>2. captured' = captured /\ decoder' = decoder /\ lost' = lost
  BY DEF OffWire
<1> QED BY <1>1, <1>2 DEF CaptureInv, DecoderInv, Wire, Missed, HeardAt

LEMMA OnWireIs ==
  ASSUME CaptureInv, NEW d \in Devices, NEW f, OnWire(d, f), f.tag \in Tags, f.kind = "cbw" => f.len \in Nat
  PROVE  Wire(d) /\ (Caught(d, f) \/ (Missed(d) /\ lost' # 0))
<1>0. DecoderInv /\ DOMAIN captured = Devices /\ lost \in 0 .. MaxLost /\ MaxLost \in Nat /\ HeardAt(d)
  BY UsbBotAssumption DEF CaptureInv
<1>1. CASE /\ decoder' = Feed(d, f) /\ lost' = lost
           /\ captured' = IF f.kind = "cbw" THEN [captured EXCEPT ![d] = @ \union {f.tag}] ELSE captured
  <2>1. DecoderInv' /\ Heeds(d, f)
    BY <1>0, <1>1, FeedIs
  <2>2. /\ Moved(captured, captured', d, captured'[d])
        /\ captured'[d] = IF f.kind = "cbw" THEN captured[d] \union {f.tag} ELSE captured[d]
    <3>1. CASE f.kind = "cbw"
      <4>1. captured' = [captured EXCEPT ![d] = captured[d] \union {f.tag}]
        BY <1>1, <3>1
      <4>2. Moved(captured, captured', d, captured[d] \union {f.tag})
        BY <1>0, <4>1, MovedIs
      <4> QED BY <3>1, <4>2 DEF Moved
    <3>2. CASE f.kind # "cbw"
      BY <1>0, <1>1, <3>2, MovedIs
    <3> QED BY <3>1, <3>2
  <2>3. HeardAt(d)'
    <3>1. CASE decoder' = Aborted
      BY <3>1, AbortedIs, DecodesNothing DEF HeardAt
    <3>2. CASE Fed(f, decoder.pending[d], decoder.records[d], decoder'.pending[d], decoder'.records[d])
      BY <1>0, <3>2, HeardFed DEF HeardAt
    <3> QED BY <2>1, <3>1, <3>2 DEF Heeds
  <2> QED BY <1>0, <1>1, <2>1, <2>2, <2>3 DEF Wire, Caught, Heeds
<1>2. CASE lost < MaxLost /\ lost' = lost + 1 /\ decoder' = decoder /\ captured' = captured
  <2>1. /\ Moved(captured, captured, d, captured[d])
        /\ Moved(decoder.pending, decoder.pending, d, decoder.pending[d])
        /\ Moved(decoder.records, decoder.records, d, decoder.records[d])
    BY <1>0, MovedIs DEF DecoderInv
  <2>2. lost' \in 0 .. MaxLost /\ lost' # 0
    BY <1>0, <1>2
  <2>3. DecoderInv' /\ HeardAt(d)'
    BY <1>0, <1>2 DEF DecoderInv, HeardAt
  <2> QED BY <1>2, <2>1, <2>2, <2>3 DEF Wire, Missed
<1> QED BY <1>1, <1>2 DEF OnWire

\* The other devices are left alone.
Around(d) ==
  /\ Moved(bot, bot', d, bot'[d]) /\ Moved(inq, inq', d, inq'[d]) /\ Moved(dev, dev', d, dev'[d])
  /\ Moved(truth, truth', d, truth'[d]) /\ Moved(last, last', d, last'[d])
  /\ submitted \in Nat /\ submitted' \in Nat /\ submitted' >= submitted
  /\ gone \subseteq gone' /\ gone' \subseteq gone \union {d}

LEMMA CaptureLift ==
  ASSUME CaptureInv, NEW d \in Devices, Wire(d), Around(d), KeptAt(d)', SizedAt(d)',
         decoder' # Aborted => DecodesAt(d)'
  PROVE  CaptureInv'
<1>1. DecodesAt(d)'
  <2>1. CASE decoder' = Aborted
    BY <2>1, AbortedIs, DecodesNothing DEF DecodesAt
  <2> QED BY <2>1
<1>2. ASSUME NEW x \in Devices, x # d
      PROVE  KeptAt(x)' /\ DecodesAt(x)' /\ SizedAt(x)' /\ HeardAt(x)'
  <2>0. KeptAt(x) /\ DecodesAt(x) /\ SizedAt(x) /\ HeardAt(x)
    BY DEF CaptureInv
  <2>1. /\ bot'[x] = bot[x] /\ inq'[x] = inq[x] /\ dev'[x] = dev[x] /\ truth'[x] = truth[x]
        /\ last'[x] = last[x] /\ captured'[x] = captured[x] /\ (x \in gone' <=> x \in gone)
    BY <1>2 DEF Around, Wire, Moved
  <2>2. KeptAt(x)'
    <3>1. Kept(x, bot[x], inq[x], dev[x], submitted', captured[x], gone')
      BY <2>0, <2>1, KeptLater DEF KeptAt, Around
    <3> QED BY <2>1, <3>1 DEF KeptAt
  <2>3. SizedAt(x)'
    BY <2>0, <2>1 DEF SizedAt
  <2>4. CASE decoder' = Aborted
    <3>1. DecodesAt(x)' /\ HeardAt(x)'
      BY <2>4, AbortedIs, DecodesNothing DEF DecodesAt, HeardAt
    <3> QED BY <2>2, <2>3, <3>1
  <2>5. CASE /\ decoder'.failed = decoder.failed
             /\ Moved(decoder.pending, decoder'.pending, d, decoder'.pending[d])
             /\ Moved(decoder.records, decoder'.records, d, decoder'.records[d])
    <3>1. decoder'.pending[x] = decoder.pending[x] /\ decoder'.records[x] = decoder.records[x]
      BY <1>2, <2>5 DEF Moved
    <3>2. Decodes(x, bot[x], inq[x], dev[x], truth[x], decoder.pending[x], decoder.records[x],
                  captured[x], lost', gone', decoder.failed)
      BY <2>0, <2>1, DecodesLater DEF DecodesAt, Wire
    <3>3. DecodesAt(x)'
      BY <2>1, <2>5, <3>1, <3>2 DEF DecodesAt
    <3>4. HeardAt(x)'
      BY <2>0, <3>1 DEF HeardAt
    <3> QED BY <2>2, <2>3, <3>3, <3>4
  <2> QED BY <2>4, <2>5 DEF Wire
<1>3. gone' \subseteq Devices /\ DOMAIN captured' = Devices
  BY DEF CaptureInv, Around, Wire, Moved
<1>4. \A x \in Devices : KeptAt(x)' /\ DecodesAt(x)' /\ SizedAt(x)' /\ HeardAt(x)'
  BY <1>1, <1>2 DEF Wire
<1> QED BY <1>3, <1>4 DEF CaptureInv, Wire

-----------------------------------------------------------------------------
(* The steps. *)

\* What holds of the device that acts, for the importer.
LEMMA HereToo ==
  ASSUME UsbInv, CaptureInv, NEW d \in Devices
  PROVE  /\ KeptAt(d) /\ DecodesAt(d) /\ SizedAt(d) /\ HeardAt(d)
         /\ captured[d] \subseteq 1 .. MaxTag /\ bot[d].next \in Tags
         /\ \A i \in 1 .. Len(inq[d]) : Framed(inq[d][i])
<1>1. KeptAt(d) /\ DecodesAt(d) /\ SizedAt(d) /\ HeardAt(d)
  BY DEF CaptureInv
<1>2. submitted \in 0 .. MaxCommands
  BY DEF UsbInv
<1>3. captured[d] \subseteq 1 .. MaxTag /\ bot[d].next \in Tags
  BY <1>1, <1>2, KeptTags DEF KeptAt
<1> QED BY <1>1, <1>3 DEF KeptAt, Kept

\* The host reads a frame, or none, and the device does nothing.
LEMMA ReadsKeep ==
  ASSUME UsbInv, CaptureInv, NEW d \in Devices, NEW g, Set(d, g), UNCHANGED <<submitted, dev, truth>>,
         Moved(last, last', d, last'[d]), Sized(g, dev[d], last'[d]),
         NEW r, Moved(inq, inq', d, r),
         \/ r = inq[d] /\ OffWire
         \/ /\ inq[d] # <<>> /\ r = Tail(inq[d])
            /\ \/ Bare(Head(inq[d])) /\ OffWire
               \/ ~Bare(Head(inq[d])) /\ OnWire(d, Head(inq[d])),
         g.next = bot[d].next, g.pc # "cbw" \/ g = bot[d],
         g.pc # "idle" => bot[d].pc # "idle" /\ g.tag = bot[d].tag,
         gone \subseteq gone', gone' \subseteq gone \union {d},
         d \notin gone' => Moves(bot[d], g, r, dev[d])
  PROVE  CaptureInv'
<1> DEFINE h == bot[d]
           q == inq[d]
           c == dev[d]
           T == truth[d]
           p == decoder.pending[d]
           R == decoder.records[d]
           K == captured[d]
           b == decoder.failed
<1>1. /\ Kept(d, h, q, c, submitted, K, gone) /\ Decodes(d, h, q, c, T, p, R, K, lost, gone, b)
      /\ Heard(p, R) /\ K \subseteq 1 .. MaxTag /\ \A i \in 1 .. Len(q) : Framed(q[i])
  BY HereToo DEF KeptAt, DecodesAt, HeardAt
<1>2. IsSeq(q) /\ Ordered(q, T) /\ (c.left > 0 => \A i \in 1 .. Len(q) : Wrapper(q[i]) => q[i].tag # c.tag)
  BY Here DEF LinkInv, Shaped, Taking
<1>3. r = q \/ (q # <<>> /\ Rest(q, r) /\ Head(q) = q[1])
  BY <1>2, SeqTail
<1>4. /\ bot'[d] = g /\ inq'[d] = r /\ dev' = dev /\ truth' = truth /\ submitted' = submitted
      /\ Around(d)
  BY Here, MovedIs DEF Set, Around, Moved
<1>5. SizedAt(d)'
  BY <1>4 DEF SizedAt
<1>6. ASSUME Wire(d), captured'[d] = K
      PROVE  KeptAt(d)'
  <2>1. Kept(d, g, r, c, submitted, K, gone')
    BY <1>1, <1>3, KeptRead
  <2> QED BY <1>4, <1>6, <2>1 DEF KeptAt
<1>7. ASSUME Wire(d), Missed(d), r = q \/ Bare(q[1]) \/ lost' # 0
      PROVE  CaptureInv'
  <2>1. captured'[d] = K /\ decoder' = decoder /\ (lost' = 0 => lost = 0)
    BY <1>7 DEF Missed, Wire
  <2>2. Decodes(d, g, r, c, T, p, R, K, lost', gone', b)
    <3>1. r = q \/ (Rest(q, r) /\ (Bare(q[1]) \/ lost' # 0))
      BY <1>3, <1>7
    <3> HIDE DEF h, q, c, T, p, R, K, b
    <3> QED BY <1>1, <2>1, <3>1, DecodesStill DEF h, c
  <2>3. DecodesAt(d)'
    BY <1>4, <2>1, <2>2 DEF DecodesAt
  <2> QED BY <1>4, <1>5, <1>6, <1>7, <2>1, <2>3, CaptureLift
<1>8. CASE OffWire /\ (r = q \/ Bare(q[1]))
  BY <1>7, <1>8, OffWireIs
<1>9. CASE q # <<>> /\ r = Tail(q) /\ ~Bare(q[1]) /\ OnWire(d, q[1])
  <2> DEFINE f == q[1]
  <2>1. f.kind \in {"data", "csw"} /\ f.tag \in Tags
    <3>1. 1 \in 1 .. Len(q)
      BY <1>2, <1>9, SeqLen
    <3> QED BY <1>1, <1>9, <3>1 DEF Framed
  <2>2. Wire(d) /\ (Caught(d, f) \/ (Missed(d) /\ lost' # 0))
    BY <1>9, <2>1, OnWireIs
  <2>3. CASE Caught(d, f)
    <3>1. captured'[d] = K /\ lost' = lost /\ Heeds(d, f)
      BY <2>1, <2>3 DEF Caught
    <3>2. ASSUME decoder' # Aborted
          PROVE  DecodesAt(d)'
      <4>1. decoder'.failed = b /\ Fed(f, p, R, decoder'.pending[d], decoder'.records[d])
        BY <3>1, <3>2 DEF Heeds
      <4>2. Rest(q, r)
        BY <1>2, <1>9, SeqTail
      <4>3. Decodes(d, g, r, c, T, decoder'.pending[d], decoder'.records[d], K, lost', gone', b)
        <5> DEFINE o == decoder'.pending[d]
                   Q == decoder'.records[d]
        <5> HIDE DEF h, q, c, T, p, R, K, b, o, Q
        <5>1. d \notin gone' /\ Busy(h) => Moves(h, g, r, c)
          BY DEF h, c
        <5>2. Fed(q[1], p, R, o, Q) /\ (lost' = 0 => lost = 0)
          BY <3>1, <4>1 DEF o, Q
        <5>3. Reads(d, h, g, q, r, c, T, p, R, o, Q, K, lost, lost', gone, gone')
          BY <1>1, <1>2, <1>9, <4>2, <5>1, <5>2 DEF Reads
        <5>4. Decodes(d, g, r, c, T, o, Q, K, lost', gone', b)
          BY <1>1, <5>3, DecodesRead
        <5> QED BY <5>4 DEF o, Q
      <4> QED BY <1>4, <3>1, <4>1, <4>3 DEF DecodesAt
    <3> QED BY <1>4, <1>5, <1>6, <2>2, <3>1, <3>2, CaptureLift
  <2>4. CASE Missed(d) /\ lost' # 0
    BY <1>7, <2>2, <2>4
  <2> QED BY <2>2, <2>3, <2>4
<1>10. q # <<>> => Head(q) = q[1]
  BY <1>2, SeqTail
<1> QED BY <1>8, <1>9, <1>10

\* The command block of h is a command the decoder can wait for.
LEMMA OpenedPends ==
  ASSUME NEW h, NEW g, NEW r, NEW e, NEW U, NEW l, NEW n, LinkInv(g, r, e, U, l, n), Busy(g),
         g.tag = h.tag, g.len = h.len, e.left > 0 /\ e.tag = h.tag => h.dir # "from_device",
         NEW L, h.tag \in L
  PROVE  Pending(r, e, U, Opened(Cbw(h)), L)
<1> DEFINE o == Opened(Cbw(h))
<1>0. o.tag = h.tag /\ o.len = h.len /\ o.in = (h.dir = "from_device")
  BY DEF Opened, Cbw
<1> HIDE DEF o
<1>1. \A i \in 1 .. Len(r) : Wrapper(r[i]) => Tells(r[i], o, U)
  <2>1. CASE h.tag \in DOMAIN U
    <3>1. \A i \in 1 .. Len(r) : Wrapper(r[i]) => Tells(r[i], g, U)
      BY <2>1 DEF LinkInv, InProgress, Busy
    <3> QED BY <1>0, <3>1 DEF Tells
  <2>2. CASE h.tag \notin DOMAIN U
    <3>1. \A i \in 1 .. Len(r) : Wrapper(r[i]) => r[i].tag # h.tag
      BY <2>2 DEF LinkInv, Ordered
    <3> QED BY <1>0, <3>1 DEF Tells
  <2> QED BY <2>1, <2>2
<1>2. ASSUME e.left > 0, e.tag = o.tag
      PROVE  /\ ~o.in
             /\ \E m \in Int : /\ U[o.tag] = [n |-> m, status |-> e.csw.status]
                               /\ m + e.left = o.len - e.csw.residue
  <2>1. ~o.in
    BY <1>0, <1>2
  <2>2. \E m \in Int : /\ U[g.tag] = [n |-> m, status |-> e.csw.status]
                       /\ m + e.left = g.len - e.csw.residue
    BY <1>0, <1>2 DEF LinkInv, Taking, Busy
  <2> QED BY <1>0, <2>1, <2>2
<1>3. Pending(r, e, U, o, L)
  BY <1>0, <1>1, <1>2 DEF Pending
<1> QED BY <1>3 DEF o

\* The answer to it carries its own data, or follows what was abandoned.
LEMMA OpenedCollects ==
  ASSUME NEW d, NEW G, NEW o, NEW old, NEW r, NEW k \in Nat, NEW csw, NEW v,
         IsSeq(old), Answered(r, old, o.tag, k, csw), o.payload = <<>>,
         o.len - csw.residue = k,
         \A i \in 1 .. Len(old) : Wrapper(old[i]) => old[i].tag # o.tag,
         old # <<>> => Wrapper(old[Len(old)]), d \notin G => old = <<>>
  PROVE  Collects(d, o, r, v, G)
<1>0. /\ Len(old) \in Nat /\ Len(r) \in Nat /\ Len(r) > Len(old) /\ r[Len(r)] = csw
      /\ Len(o.payload) = 0 /\ (Len(old) = 0 <=> old = <<>>)
  BY SeqLen DEF Answered
<1>1. ASSUME NEW e \in 1 .. Len(r), IsAnswer(o, r[e])
      PROVE  e = Len(r)
  <2>1. ~(e \in 1 .. Len(old))
    BY <1>1 DEF Answered, IsAnswer
  <2>2. ~(e \in Len(old) + 1 .. Len(r) - 1)
    BY <1>1 DEF Answered, IsAnswer
  <2> QED BY <1>0, <2>1, <2>2
<1>2. SUFFICES Mine(o, r, Len(r)) \/ (d \in G /\ Over(o, r, Len(r)))
  BY <1>1 DEF Collects
<1>3. CASE old = <<>>
  <2>1. \A i \in 1 .. Len(r) - 1 : ~Bare(r[i]) => r[i].tag = o.tag
    BY <1>0, <1>3 DEF Answered, Packet
  <2> QED BY <1>0, <2>1 DEF Mine
<1>4. CASE old # <<>>
  <2> DEFINE b == Len(old) - 1
             m == k + 1
  <2>1. Len(old) > 0 /\ Len(old) \in 1 .. Len(old)
    BY <1>0, <1>4
  <2>2. Len(old) + k < Len(r)
    <3>1. CASE k = 0
      BY <1>0, <3>1
    <3>2. CASE k > 0
      <4>1. k \in 1 .. k
        BY <3>2
      <4> QED BY <4>1 DEF Answered
    <3> QED BY <3>1, <3>2
  <2>3. b \in 0 .. Len(r) - 1 /\ m \in 0 .. Len(r) - 1 /\ b + m < Len(r)
    BY <1>0, <2>1, <2>2
  <2>4. ASSUME NEW i \in b + 1 .. b + m
        PROVE  ~Bare(r[i])
    <3>1. CASE i = Len(old)
      <4>1. r[i] = old[Len(old)]
        BY <2>1, <3>1 DEF Answered
      <4> QED BY <1>4, <4>1 DEF Wrapper, Bare
    <3>2. CASE i # Len(old)
      <4>1. i - Len(old) \in 1 .. k /\ Len(old) + (i - Len(old)) = i
        BY <1>0, <2>4, <3>2
      <4>2. r[i].kind = "data"
        BY <4>1 DEF Answered
      <4> QED BY <4>2 DEF Bare
    <3> QED BY <3>1, <3>2
  <2>5. Len(o.payload) + m > o.len - r[Len(r)].residue
    BY <1>0
  <2> HIDE DEF b, m
  <2>6. Over(o, r, Len(r))
    BY <2>3, <2>4, <2>5 DEF Over
  <2> QED BY <1>4, <2>6
<1> QED BY <1>3, <1>4

\* The device moves to e and U and its pipe to r, with frames of tag; the
\* host goes on to g.
Sends(d, g, r, old, tag, e, U) ==
  /\ Set(d, g) /\ Moved(inq, inq', d, r) /\ Moved(dev, dev', d, e) /\ Moved(truth, truth', d, U)
  /\ UNCHANGED <<submitted, last, gone>>
  /\ Grown(inq[d], r, old, tag) /\ tag \in Tags
  /\ \A i \in 1 .. Len(inq[d]) : Wrapper(inq[d][i]) => inq[d][i].tag # tag
  /\ e.left > 0 => Framed(e.csw) /\ e.tag = tag
  /\ bot[d].pc # "idle" /\ Busy(g) /\ g.next = bot[d].next /\ g.tag = bot[d].tag
  /\ Sized(g, e, last[d])
  /\ d \notin gone => /\ tag = bot[d].tag
                      /\ \A i \in 1 .. Len(inq[d]) : ~Bare(inq[d][i]) => inq[d][i].tag = bot[d].tag
  /\ DOMAIN truth[d] \subseteq DOMAIN U /\ \A t \in DOMAIN truth[d] : t # tag => U[t] = truth[d][t]
  /\ \A i \in 1 .. Len(decoder.records[d]) : decoder.records[d][i].tag # tag
  /\ decoder.pending[d] # None /\ decoder.pending[d].tag = tag =>
       /\ Pending(r, e, U, decoder.pending[d], captured[d]) /\ ~decoder.pending[d].in
       /\ ~Dead(decoder.pending[d], inq[d], dev[d])

LEMMA SendsKeep ==
  ASSUME UsbInv, CaptureInv, NEW d \in Devices, NEW g, NEW r, NEW old, NEW tag, NEW e, NEW U,
         Sends(d, g, r, old, tag, e, U), NEW f, OnWire(d, f),
         f.kind \in {"cbw", "data"}, f.in = FALSE, f.tag = bot[d].tag,
         f.kind = "cbw" => /\ f.len \in Nat /\ f.tag \notin captured[d]
                           /\ Pending(r, e, U, Opened(f), captured[d] \union {f.tag})
                           /\ \A v : Collects(d, Opened(f), r, v, gone)
  PROVE  CaptureInv'
<1> DEFINE h == bot[d]
           q == inq[d]
           c == dev[d]
           T == truth[d]
           p == decoder.pending[d]
           R == decoder.records[d]
           K == captured[d]
           b == decoder.failed
<1>1. /\ Kept(d, h, q, c, submitted, K, gone) /\ Decodes(d, h, q, c, T, p, R, K, lost, gone, b)
      /\ Heard(p, R) /\ K \subseteq 1 .. MaxTag
  BY HereToo DEF KeptAt, DecodesAt, HeardAt
<1>2. Ordered(q, T) /\ submitted \in 0 .. MaxCommands
  BY Here DEF LinkInv, UsbInv
<1>3. /\ bot'[d] = g /\ inq'[d] = r /\ dev'[d] = e /\ truth'[d] = U /\ last' = last
      /\ submitted' = submitted /\ gone' = gone /\ Around(d)
  BY Here, MovedIs DEF Sends, Set, Around, Moved
<1>4. SizedAt(d)'
  BY <1>3 DEF SizedAt, Sends
<1>5. Kept(d, g, r, e, submitted, K, gone)
  BY <1>1, KeptGrows DEF Sends
<1>6. Kept(d, g, r, e, submitted, K \union {g.tag}, gone)
  BY <1>5, KeptSees DEF Sends
<1>7. g.tag = f.tag /\ f.tag \in 1 .. MaxTag /\ f.tag \in Tags
  <2>1. g.tag \in 1 .. MaxTag
    BY <1>2, <1>6, KeptTags
  <2> QED BY <2>1, UsbBotAssumption DEF Sends, Tags
<1>8. Wire(d) /\ (Caught(d, f) \/ (Missed(d) /\ lost' # 0))
  BY <1>7, OnWireIs
<1>9. Decodes(d, g, r, e, U, p, R, K, lost', gone, b)
  <2>1. lost' = 0 => lost = 0
    BY <1>8 DEF Wire
  <2>2. Grown(q, r, old, tag) /\ DOMAIN T \subseteq DOMAIN U /\ \A t \in DOMAIN T : t # tag => U[t] = T[t]
    BY DEF Sends
  <2>3. (\A i \in 1 .. Len(R) : R[i].tag # tag) /\ (e.left > 0 => e.tag = tag)
    BY DEF Sends
  <2>4. Busy(h) => Busy(g) /\ g.tag = h.tag
    BY DEF Sends
  <2>5. p # None /\ p.tag = tag => Pending(r, e, U, p, K) /\ ~p.in /\ ~Dead(p, q, c)
    BY DEF Sends
  <2> HIDE DEF h, q, c, T, p, R, K, b
  <2> QED BY <1>1, <1>2, <2>1, <2>2, <2>3, <2>4, <2>5, DecodesGrows
<1>10. CASE Missed(d)
  <2>1. KeptAt(d)' /\ DecodesAt(d)'
    BY <1>3, <1>5, <1>9, <1>10 DEF Missed, KeptAt, DecodesAt
  <2> QED BY <1>3, <1>4, <1>8, <2>1, CaptureLift
<1>11. CASE Caught(d, f)
  <2> DEFINE L == captured'[d]
  <2>1. L = (IF f.kind = "cbw" THEN K \union {f.tag} ELSE K) /\ Heeds(d, f)
    BY <1>11 DEF Caught
  <2>2. KeptAt(d)'
    BY <1>3, <1>5, <1>6, <1>7, <2>1 DEF KeptAt
  <2>3. ASSUME decoder' # Aborted
        PROVE  DecodesAt(d)'
    <3> DEFINE o == decoder'.pending[d]
               Q == decoder'.records[d]
    <3>1. decoder'.failed = b /\ Fed(f, p, R, o, Q)
      BY <2>1, <2>3 DEF Heeds
    <3>2. f.kind = "cbw" => /\ f.tag \notin K
                            /\ Pending(r, e, U, Opened(f), L) /\ Collects(d, Opened(f), r, lost', gone)
      BY <2>1
    <3>3. Busy(g)
      BY DEF Sends
    <3>4. Decodes(d, g, r, e, U, o, Q, L, lost', gone, b)
      <4> HIDE DEF h, q, c, T, p, R, K, b, o, Q, L
      <4> QED BY <1>1, <1>7, <1>9, <2>1, <3>1, <3>2, <3>3, DecodesSent
    <3> QED BY <1>3, <3>1, <3>4 DEF DecodesAt
  <2> QED BY <1>3, <1>4, <1>8, <2>2, <2>3, CaptureLift
<1> QED BY <1>8, <1>10, <1>11

\* The device takes k units of the data stage it is in.
LEMMA TakeSends ==
  ASSUME UsbInv, CaptureInv, NEW d \in Devices, NEW k \in Nat \ {0}, Take(d, k), dev[d].left > 0,
         NEW g, Set(d, g), UNCHANGED <<submitted, last, gone>>, bot[d].pc # "idle", Busy(g),
         g.next = bot[d].next, g.tag = bot[d].tag, Sized(g, dev[d], last[d])
  PROVE  \E r, e, U : /\ Sends(d, g, r, inq[d], dev[d].tag, e, U)
                      /\ DOMAIN U = DOMAIN truth[d] /\ e.tag = dev[d].tag
<1> DEFINE h == bot[d]
           q == inq[d]
           c == dev[d]
           T == truth[d]
           p == decoder.pending[d]
           R == decoder.records[d]
           m == IF k > c.left THEN c.left ELSE k
           r == IF m = c.left THEN Append(q, c.csw) ELSE q
           e == [c EXCEPT !.left = @ - m]
           U == [T EXCEPT ![c.tag].n = @ + m]
<1>1. /\ dev' = [dev EXCEPT ![d] = e] /\ truth' = [truth EXCEPT ![d] = U] /\ inq' = [inq EXCEPT ![d] = r]
  BY DEF Take
<1>2. PICK S : c \in Takers(S)
  BY Here DEF LinkInv, Shaped
<1>3. c.left \in Nat /\ m \in 1 .. c.left /\ c.left \in 0 .. MaxLen
  BY <1>2, HereToo DEF Takers, SizedAt, Sized
<1>4. /\ c.tag \in DOMAIN T /\ c.csw.tag = c.tag /\ Wrapper(c.csw) /\ IsSeq(q)
      /\ \A i \in 1 .. Len(q) : Wrapper(q[i]) => q[i].tag # c.tag
  BY Here DEF LinkInv, Taking, Shaped
<1>5. /\ Framed(c.csw) /\ c.tag \in Tags
      /\ d \notin gone => Calm(h, q, c)
  BY HereToo DEF KeptAt, Kept
<1>6. Recorded(d, c, T, R, lost, gone) /\ (p # None => Pending(q, c, T, p, captured[d]))
  BY HereToo DEF DecodesAt, Decodes
<1>7. e.left = c.left - m /\ e.tag = c.tag /\ e.csw = c.csw
  BY <1>2 DEF Takers
<1>8. /\ DOMAIN U = DOMAIN T /\ \A t \in DOMAIN T : t # c.tag => U[t] = T[t]
      /\ U[c.tag] = [T[c.tag] EXCEPT !.n = @ + m]
  BY <1>4
<1>9. Moved(inq, inq', d, r) /\ Moved(dev, dev', d, e) /\ Moved(truth, truth', d, U)
  <2> HIDE DEF r, e, U
  <2> QED BY <1>1, Here, MovedIs
<1>10. Grown(q, r, q, c.tag)
  <2>1. Len(q) \in Nat
    BY <1>4, SeqLen
  <2>2. CASE m = c.left
    <3>1. /\ r = Append(q, c.csw) /\ IsSeq(r) /\ Len(r) = Len(q) + 1
          /\ \A i \in 1 .. Len(q) : r[i] = q[i]
          /\ r[Len(q) + 1] = c.csw
      <4>1. r = Append(q, c.csw)
        BY <2>2
      <4> HIDE DEF r
      <4> QED BY <1>4, <4>1, SeqAppend
    <3> HIDE DEF r
    <3>2. \A i \in Len(q) + 1 .. Len(r) : i = Len(r) /\ r[i] = c.csw
      BY <2>1, <3>1
    <3> QED BY <1>4, <1>5, <2>1, <3>1, <3>2 DEF Grown
  <2>3. CASE m # c.left
    <3>1. r = q
      BY <2>3
    <3> HIDE DEF r
    <3> QED BY <1>4, <2>1, <3>1 DEF Grown
  <2> QED BY <2>2, <2>3
<1>11. \A i \in 1 .. Len(r) : (r[i] = c.csw /\ m = c.left) \/ \E j \in 1 .. Len(q) : r[i] = q[j]
  <2>1. CASE m = c.left
    <3>1. r = Append(q, c.csw)
      BY <2>1
    <3> HIDE DEF r
    <3>2. /\ Len(r) = Len(q) + 1 /\ Len(q) \in Nat /\ \A i \in 1 .. Len(q) : r[i] = q[i]
          /\ r[Len(q) + 1] = c.csw
      BY <1>4, <3>1, SeqAppend, SeqLen
    <3>3. TAKE i \in 1 .. Len(r)
    <3>4. i \in 1 .. Len(q) \/ i = Len(q) + 1
      BY <3>2
    <3> QED BY <2>1, <3>2, <3>4
  <2>2. CASE m # c.left
    <3>1. r = q
      BY <2>2
    <3> QED BY <3>1
  <2> QED BY <2>1, <2>2
<1>12. ASSUME p # None, p.tag = c.tag
       PROVE  Pending(r, e, U, p, captured[d]) /\ ~p.in /\ ~Dead(p, q, c)
  <2>1. PICK x \in Int : T[p.tag] = [n |-> x, status |-> c.csw.status] /\ x + c.left = p.len - c.csw.residue
    BY <1>6, <1>12 DEF Pending
  <2>2. U[p.tag] = [n |-> x + m, status |-> c.csw.status]
    <3> HIDE DEF m, U
    <3> QED BY <1>8, <1>12, <2>1
  <2>3. ~p.in /\ p.tag \in captured[d]
    BY <1>6, <1>12 DEF Pending
  <2>4. \A i \in 1 .. Len(r) : Wrapper(r[i]) => Tells(r[i], p, U)
    <3>1. SUFFICES ASSUME NEW i \in 1 .. Len(r), Wrapper(r[i]), r[i].tag = p.tag
                   PROVE  U[p.tag] = [n |-> p.len - r[i].residue, status |-> r[i].status]
      BY DEF Tells
    <3>2. r[i] = c.csw /\ m = c.left
      <4> HIDE DEF r, m
      <4> QED BY <1>4, <1>11, <1>12, <3>1
    <3>3. p.len - r[i].residue = x + m
      BY <2>1, <3>2
    <3> HIDE DEF r, m, U
    <3> QED BY <2>2, <3>2, <3>3
  <2>5. x + m \in Int /\ (x + m) + e.left = p.len - e.csw.residue
    <3> HIDE DEF m, e
    <3> QED BY <1>3, <1>7, <2>1
  <2>6. ~Dead(p, q, c)
    BY <1>12 DEF Dead
  <2> HIDE DEF r, e, U, m
  <2>7. e.left > 0 /\ e.tag = p.tag =>
          /\ ~p.in
          /\ \E y \in Int : /\ U[p.tag] = [n |-> y, status |-> e.csw.status]
                            /\ y + e.left = p.len - e.csw.residue
    BY <1>7, <2>2, <2>3, <2>5
  <2> QED BY <2>3, <2>4, <2>6, <2>7 DEF Pending
<1>13. d \notin gone => c.tag = h.tag /\ \A i \in 1 .. Len(q) : ~Bare(q[i]) => q[i].tag = h.tag
  BY <1>5 DEF Calm
<1>14. \A i \in 1 .. Len(R) : R[i].tag # c.tag
  BY <1>6 DEF Recorded
<1>15. Sized(g, e, last[d])
  <2> HIDE DEF m, e
  <2>1. e.left \in 0 .. MaxLen
    BY <1>3, <1>7, UsbBotAssumption
  <2> QED BY <2>1 DEF Sized
<1>16. Sends(d, g, r, q, c.tag, e, U)
  <2> HIDE DEF r, e, U
  <2> QED BY <1>4, <1>5, <1>7, <1>8, <1>9, <1>10, <1>12, <1>13, <1>14, <1>15 DEF Sends
<1>17. DOMAIN U = DOMAIN T /\ e.tag = c.tag
  BY <1>7, <1>8
<1> HIDE DEF r, e, U, m
<1> QED BY <1>16, <1>17

\* The device takes the command block, and starts its answer.
LEMMA AcceptSends ==
  ASSUME UsbInv, CaptureInv, NEW d \in Devices, bot[d].pc = "cbw", dev[d].left = 0, Accept(d, bot[d]),
         NEW g, Set(d, g), UNCHANGED <<submitted, last, gone>>, Busy(g),
         g.next = bot[d].next, g.tag = bot[d].tag, Sized(g, dev[d], last[d])
  PROVE  \E r, old, e, U :
           /\ Sends(d, g, r, old, bot[d].tag, e, U)
           /\ e.left > 0 => bot[d].dir # "from_device"
           /\ \A v : Collects(d, Opened(Cbw(bot[d])), r, v, gone)
<1> DEFINE h == bot[d]
           q == inq[d]
           c == dev[d]
           T == truth[d]
           p == decoder.pending[d]
           R == decoder.records[d]
           o == Opened(Cbw(h))
<1>1. PICK k \in 0 .. h.len, s \in Answers, old \in {q, <<>>} :
        /\ Learn(d, h.tag, IF h.dir = "to_device" THEN 0 ELSE k, s)
        /\ \/ /\ h.dir = "to_device"
              /\ dev' = [dev EXCEPT ![d] = [tag |-> h.tag, left |-> k, csw |-> Csw(h.tag, h.len - k, s)]]
              /\ inq' = [inq EXCEPT ![d] = IF k = 0 THEN Append(old, Csw(h.tag, h.len - k, s)) ELSE old]
           \/ /\ h.dir # "to_device"
              /\ \E items \in InData(h.tag, k, h.len), pre \in IF s = 0 THEN {<<>>} ELSE {<<>>, <<Stall>>} :
                   inq' = [inq EXCEPT ![d] = old \o items \o pre \o <<Csw(h.tag, h.len - k, s)>>]
              /\ UNCHANGED dev
  BY DEF Accept
<1> DEFINE csw == Csw(h.tag, h.len - k, s)
           U == With(T, h.tag, [n |-> IF h.dir = "to_device" THEN 0 ELSE k, status |-> s])
<1>2. PICK S : h \in Hosts(S)
  BY Here DEF LinkInv, Shaped
<1>3. /\ h.len \in 0 .. MaxLen /\ h.tag \in Tags /\ MaxLen \in Nat /\ h.len \in Nat /\ k \in Nat
      /\ k \in 0 .. MaxLen /\ Sized(h, c, last[d])
  <2>1. Sized(h, c, last[d]) /\ MaxLen \in Nat
    BY HereToo, UsbBotAssumption DEF SizedAt
  <2>2. h.len \in 0 .. MaxLen /\ h.tag \in Tags
    BY <2>1 DEF Sized
  <2> HIDE DEF h
  <2> QED BY <2>1, <2>2
<1>4. /\ h.tag \notin DOMAIN T /\ IsSeq(q) /\ Ordered(q, T)
  BY Here DEF LinkInv, InProgress, Shaped
<1>5. /\ h.tag \notin captured[d]
      /\ d \notin gone => q = <<>>
  BY HereToo DEF KeptAt, Kept, Calm, Busy
<1>6. Recorded(d, c, T, R, lost, gone) /\ (p # None => p.tag \in captured[d])
  BY HereToo DEF DecodesAt, Decodes, Pending
<1>7. /\ csw.tag = h.tag /\ csw.residue = h.len - k /\ Wrapper(csw) /\ ~Bare(csw) /\ Framed(csw)
  BY <1>3 DEF Csw, Wrapper, Bare, Framed
<1>8. IsSeq(old) /\ Len(old) \in Nat /\ \A i \in 1 .. Len(old) : Wrapper(old[i]) => old[i].tag # h.tag
  <2>1. <<>> \in Seq({}) /\ Len(<<>>) = 0
    OBVIOUS
  <2>2. IsSeq(old)
    BY <1>4, <2>1 DEF IsSeq
  <2>3. \A i \in 1 .. Len(q) : Wrapper(q[i]) => q[i].tag # h.tag
    BY <1>4 DEF Ordered
  <2> QED BY <2>1, <2>2, <2>3, SeqLen
<1>9. /\ DOMAIN T \subseteq DOMAIN U /\ \A t \in DOMAIN T : t # h.tag => U[t] = T[t]
      /\ Moved(truth, truth', d, U)
  <2>1. truth' = [truth EXCEPT ![d] = U]
    BY <1>1 DEF Learn, With
  <2>2. DOMAIN T \subseteq DOMAIN U /\ \A t \in DOMAIN T : t # h.tag => U[t] = T[t]
    BY DEF With
  <2> HIDE DEF U
  <2> QED BY <2>1, <2>2, Here, MovedIs
<1>10. /\ o.tag = h.tag /\ o.len = h.len /\ o.payload = <<>> /\ o.in = (h.dir = "from_device")
  BY DEF Opened, Cbw
<1> HIDE DEF csw, U, o
<1>11. ASSUME NEW r, NEW e, Moved(inq, inq', d, r), Moved(dev, dev', d, e), Grown(q, r, old, h.tag),
              e.left > 0 => Framed(e.csw) /\ e.tag = h.tag, Sized(g, e, last[d])
       PROVE  Sends(d, g, r, old, h.tag, e, U)
  <2>1. \A i \in 1 .. Len(q) : Wrapper(q[i]) => q[i].tag # h.tag
    BY <1>4 DEF Ordered
  <2>2. d \notin gone => \A i \in 1 .. Len(q) : ~Bare(q[i]) => q[i].tag = h.tag
    <3>1. \A i \in 1 .. Len(<<>>) : FALSE
      OBVIOUS
    <3> QED BY <1>5, <3>1
  <2>3. \A i \in 1 .. Len(R) : R[i].tag # h.tag
    BY <1>4, <1>6 DEF Recorded
  <2>4. ~(p # None /\ p.tag = h.tag)
    BY <1>5, <1>6
  <2> QED BY <1>3, <1>9, <1>11, <2>1, <2>2, <2>3, <2>4 DEF Sends
<1>12. CASE h.dir = "to_device"
  <2> DEFINE r == IF k = 0 THEN Append(old, csw) ELSE old
             e == [tag |-> h.tag, left |-> k, csw |-> csw]
  <2>1. dev' = [dev EXCEPT ![d] = e] /\ inq' = [inq EXCEPT ![d] = r]
    BY <1>1, <1>12 DEF csw
  <2>2. e.tag = h.tag /\ e.left = k /\ e.csw = csw
    OBVIOUS
  <2>3. Grown(q, r, old, h.tag)
    <3>1. CASE k = 0
      <4>1. r = Append(old, csw)
        BY <3>1
      <4> HIDE DEF r
      <4>2. /\ IsSeq(r) /\ Len(r) = Len(old) + 1 /\ r[Len(old) + 1] = csw
            /\ \A i \in 1 .. Len(old) : r[i] = old[i]
        BY <1>8, <4>1, SeqAppend
      <4>3. \A i \in Len(old) + 1 .. Len(r) : i = Len(r) /\ r[i] = csw
        BY <1>8, <4>2
      <4> QED BY <1>4, <1>7, <1>8, <4>2, <4>3 DEF Grown
    <3>2. CASE k # 0
      <4>1. r = old
        BY <3>2
      <4> HIDE DEF r
      <4> QED BY <1>4, <1>8, <4>1 DEF Grown
    <3> QED BY <3>1, <3>2
  <2> HIDE DEF r, e
  <2>4. Moved(dev, dev', d, e) /\ Moved(inq, inq', d, r)
    BY <2>1, Here, MovedIs
  <2>5. Sized(g, e, last[d])
    BY <1>3, <2>2 DEF Sized
  <2>6. Sends(d, g, r, old, h.tag, e, U)
    BY <1>7, <1>11, <2>2, <2>3, <2>4, <2>5
  <2>7. \A v : Collects(d, o, r, v, gone)
    BY <1>10, <1>12 DEF Collects
  <2> QED BY <1>12, <2>6, <2>7 DEF o
<1>13. CASE h.dir # "to_device"
  <2>1. PICK items \in InData(h.tag, k, h.len), pre \in {<<>>, <<Stall>>} :
          inq' = [inq EXCEPT ![d] = old \o items \o pre \o <<csw>>]
    BY <1>1, <1>13 DEF csw
  <2> DEFINE r == old \o items \o pre \o <<csw>>
  <2>2. Answered(r, old, h.tag, k, csw)
    BY <1>3, <1>8, AnswerIs
  <2> HIDE DEF r
  <2>3. Grown(q, r, old, h.tag)
    <3>1. /\ IsSeq(r) /\ Len(r) > Len(old) /\ r[Len(r)] = csw
          /\ \A i \in 1 .. Len(old) : r[i] = old[i]
          /\ \A i \in Len(old) + 1 .. Len(r) - 1 :
               ~Wrapper(r[i]) /\ (~Bare(r[i]) => Packet(r[i], h.tag))
      BY <2>2 DEF Answered
    <3>2. Len(r) \in Nat
      BY <3>1, SeqLen
    <3>3. ASSUME NEW i \in Len(old) + 1 .. Len(r)
          PROVE  /\ Framed(r[i]) /\ (~Bare(r[i]) => r[i].tag = h.tag)
                 /\ Wrapper(r[i]) => i = Len(r)
      <4>1. CASE i = Len(r)
        BY <1>7, <3>1, <4>1
      <4>2. CASE i # Len(r)
        <5>1. i \in Len(old) + 1 .. Len(r) - 1
          BY <1>8, <3>2, <4>2
        <5>2. ~Wrapper(r[i]) /\ (~Bare(r[i]) => Packet(r[i], h.tag))
          BY <3>1, <5>1
        <5> QED BY <1>3, <5>2 DEF Framed, Packet
      <4> QED BY <4>1, <4>2
    <3>4. Len(r) >= Len(old)
      BY <1>8, <3>1, <3>2
    <3> QED BY <1>4, <3>1, <3>3, <3>4 DEF Grown
  <2>4. dev' = dev /\ inq' = [inq EXCEPT ![d] = r]
    BY <1>1, <1>13, <2>1 DEF r
  <2>5. Moved(dev, dev', d, c) /\ Moved(inq, inq', d, r)
    BY <2>4, Here, MovedIs
  <2>6. Sends(d, g, r, old, h.tag, c, U)
    BY <1>11, <2>3, <2>5
  <2>7. \A v : Collects(d, o, r, v, gone)
    <3>1. o.len - csw.residue = k
      BY <1>3, <1>7, <1>10
    <3>2. old # <<>> => Wrapper(old[Len(old)])
      BY <1>4 DEF Ordered
    <3>3. d \notin gone => old = <<>>
      BY <1>5
    <3> QED BY <1>3, <1>8, <1>10, <2>2, <3>1, <3>2, <3>3, OpenedCollects
  <2> QED BY <2>6, <2>7 DEF o
<1> QED BY <1>12, <1>13

LEMMA SendCbwCaptures ==
  ASSUME UsbInv, UsbInv', CaptureInv, NEW d \in Devices, SendCbw(d)
  PROVE  CaptureInv'
<1> DEFINE h == bot[d]
           g == [h EXCEPT !.pc = Follows(h)]
           f == Cbw(h)
           K == captured[d]
<1>1. h.pc = "cbw" /\ Set(d, g) /\ UNCHANGED <<submitted, last, gone>> /\ OnWire(d, f)
  BY DEF SendCbw, Follows
<1>2. PICK S : h \in Hosts(S)
  BY Here DEF LinkInv, Shaped
<1>3. /\ g.pc = Follows(h) /\ g.got = h.got /\ g.next = h.next /\ g.tag = h.tag /\ g.dir = h.dir
      /\ g.len = h.len
  BY <1>2 DEF Hosts
<1> HIDE DEF g
<1>4. Busy(g) /\ Sized(g, dev[d], last[d]) /\ h.len \in Nat
  <2>1. Follows(h) \in {"in", "out", "csw"} /\ h.len \in Nat
    BY <1>2, FollowsIs DEF Hosts
  <2>2. Sized(h, dev[d], last[d])
    BY HereToo DEF SizedAt
  <2> QED BY <1>3, <2>1, <2>2 DEF Busy, Sized
<1>5. f.kind = "cbw" /\ f.in = FALSE /\ f.tag = h.tag /\ f.len = h.len
  BY DEF Cbw
<1>6. h.tag \notin K /\ h.tag \notin DOMAIN truth[d]
  BY <1>1, Here, HereToo DEF KeptAt, Kept, LinkInv, InProgress
<1>7. ASSUME NEW r, NEW old, NEW tag, NEW e, NEW U, Sends(d, g, r, old, tag, e, U)
      PROVE  LinkInv(g, r, e, U, last[d], submitted)
  <2>1. /\ bot'[d] = g /\ inq'[d] = r /\ dev'[d] = e /\ truth'[d] = U /\ last' = last
        /\ submitted' = submitted
    BY <1>7, Here DEF Sends, Set, Moved
  <2> QED BY <2>1 DEF UsbInv, Linked
<1>8. ASSUME NEW r, NEW old, NEW tag, NEW e, NEW U, Sends(d, g, r, old, tag, e, U),
             e.left > 0 /\ e.tag = h.tag => h.dir # "from_device",
             \A v : Collects(d, Opened(f), r, v, gone)
      PROVE  CaptureInv'
  <2>1. h.tag \in K \union {f.tag}
    BY <1>5
  <2>2. Pending(r, e, U, Opened(f), K \union {f.tag})
    <3> HIDE DEF h, K
    <3>1. LinkInv(g, r, e, U, last[d], submitted)
      BY <1>7, <1>8 DEF h
    <3> QED BY <1>3, <1>4, <1>8, <2>1, <3>1, OpenedPends DEF f
  <2> HIDE DEF f
  <2> QED BY <1>1, <1>4, <1>5, <1>6, <1>8, <2>2, SendsKeep
<1>9. CASE dev[d].left = 0
  <2>1. Accept(d, h)
    BY <1>9 DEF SendCbw
  <2>2. PICK r, old, e, U :
           /\ Sends(d, g, r, old, h.tag, e, U)
           /\ e.left > 0 => h.dir # "from_device"
           /\ \A v : Collects(d, Opened(f), r, v, gone)
    BY <1>1, <1>3, <1>4, <1>9, <2>1, AcceptSends
  <2> QED BY <1>8, <2>2
<1>10. CASE dev[d].left > 0
  <2>1. Take(d, 2)
    BY <1>10 DEF SendCbw, CbwLen
  <2>2. PICK r, e, U : /\ Sends(d, g, r, inq[d], dev[d].tag, e, U)
                       /\ DOMAIN U = DOMAIN truth[d] /\ e.tag = dev[d].tag
    BY <1>1, <1>3, <1>4, <1>10, <2>1, TakeSends
  <2>3. dev[d].tag \in DOMAIN truth[d]
    BY <1>10, Here DEF LinkInv, Taking
  <2>4. \A i \in 1 .. Len(r) : ~IsAnswer(Opened(f), r[i])
    <3>1. Ordered(r, U)
      BY <1>7, <2>2 DEF LinkInv
    <3>2. Opened(f).tag = h.tag
      BY <1>5 DEF Opened
    <3> QED BY <1>6, <2>2, <3>1, <3>2 DEF Ordered, IsAnswer
  <2>5. \A v : Collects(d, Opened(f), r, v, gone)
    BY <2>4 DEF Collects
  <2> QED BY <1>6, <1>8, <2>2, <2>3, <2>5
<1>11. dev[d].left \in Nat
  BY Here DEF LinkInv, Shaped, Takers
<1> QED BY <1>9, <1>10, <1>11

LEMMA WriteDataCaptures ==
  ASSUME UsbInv, CaptureInv, NEW d \in Devices, WriteData(d)
  PROVE  CaptureInv'
<1> DEFINE h == bot[d]
           sent == Append(h.got, h.tag)
           pc == IF Len(sent) = h.len THEN "csw" ELSE "out"
           g == [h EXCEPT !.got = sent, !.pc = pc]
           f == OutData(h.tag)
<1>1. /\ h.pc = "out" /\ dev[d].left > 0 /\ Set(d, g) /\ Take(d, 1) /\ UNCHANGED <<submitted, last, gone>>
      /\ OnWire(d, f)
  BY DEF WriteData
<1>2. PICK S : h \in Hosts(S)
  BY Here DEF LinkInv, Shaped
<1>3. Sized(h, dev[d], last[d])
  BY HereToo DEF SizedAt
<1>4. sent \in Seq(Tags)
  BY <1>3 DEF Sized
<1> HIDE DEF sent
<1>5. pc \in {"csw", "out"}
  OBVIOUS
<1> HIDE DEF pc
<1>6. g.pc = pc /\ g.got = sent /\ g.next = h.next /\ g.tag = h.tag /\ g.len = h.len
  BY <1>2 DEF Hosts
<1> HIDE DEF g
<1>7. Busy(g) /\ Sized(g, dev[d], last[d])
  BY <1>3, <1>4, <1>5, <1>6 DEF Busy, Sized
<1>8. f.kind = "data" /\ f.in = FALSE /\ f.tag = h.tag
  BY DEF OutData
<1>9. PICK r, e, U : Sends(d, g, r, inq[d], dev[d].tag, e, U)
  BY <1>1, <1>6, <1>7, TakeSends
<1> HIDE DEF f
<1> QED BY <1>1, <1>8, <1>9, SendsKeep

LEMMA SubmitCaptures ==
  ASSUME UsbInv, CaptureInv, NEW d \in Devices, Submit(d)
  PROVE  CaptureInv'
<1> DEFINE h == bot[d]
           q == inq[d]
           c == dev[d]
           T == truth[d]
           p == decoder.pending[d]
           R == decoder.records[d]
           K == captured[d]
           b == decoder.failed
<1>1. PICK t \in IF d \in Quiet THEN {<<"none", 0>>} ELSE ValidTransfers :
        Set(d, [Idle(NextTag(h.next)) EXCEPT
                  !.pc = "cbw", !.tag = h.next, !.dir = t[1], !.len = t[2]])
  BY DEF Submit
<1>2. h.pc = "idle" /\ submitted \in 0 .. MaxCommands - 1 /\ submitted' = submitted + 1
  BY Here, UsbBotAssumption DEF Submit
<1> DEFINE y == NextTag(h.next)
           g == [pc |-> "cbw", next |-> y, tag |-> h.next, dir |-> t[1], len |-> t[2],
                 got |-> <<>>, stalled |-> FALSE, retried |-> FALSE]
<1>3. Set(d, g)
  <2> DEFINE x == h.next
             u == t[1]
             w == t[2]
             z == [Idle(y) EXCEPT !.pc = "cbw", !.tag = x, !.dir = u, !.len = w]
  <2>1. z = [Idle(y) EXCEPT !.pc = "cbw", !.tag = x, !.dir = u, !.len = w] /\ Set(d, z)
    BY <1>1
  <2> HIDE DEF x, y, u, w, z
  <2>2. z = [pc |-> "cbw", next |-> y, tag |-> x, dir |-> u, len |-> w,
             got |-> <<>>, stalled |-> FALSE, retried |-> FALSE]
    BY <2>1 DEF Idle
  <2> QED BY <2>1, <2>2 DEF x, y, u, w
<1>4. g.pc = "cbw" /\ g.next = NextTag(h.next) /\ g.tag = h.next /\ g.len = t[2] /\ g.got = <<>>
  OBVIOUS
<1> HIDE DEF g
<1>5. t[2] \in 0 .. MaxLen
  BY UsbBotAssumption DEF ValidTransfers
<1>6. /\ Kept(d, h, q, c, submitted, K, gone) /\ Decodes(d, h, q, c, T, p, R, K, lost, gone, b)
      /\ Heard(p, R) /\ (\A i \in 1 .. Len(q) : Framed(q[i])) /\ Sized(h, c, last[d]) /\ h.next \in Tags
  BY HereToo DEF KeptAt, DecodesAt, HeardAt, SizedAt
<1>7. /\ bot'[d] = g /\ inq' = inq /\ dev' = dev /\ truth' = truth /\ last' = last /\ gone' = gone
      /\ OffWire
  BY <1>3, Here DEF Submit, Set
<1>8. Around(d)
  <2>1. Moved(bot, bot', d, bot'[d])
    BY <1>3, <1>7, Here, MovedIs DEF Set
  <2>2. /\ Moved(inq, inq', d, inq'[d]) /\ Moved(dev, dev', d, dev'[d]) /\ Moved(truth, truth', d, truth'[d])
        /\ Moved(last, last', d, last'[d])
    BY <1>7, Here, MovedIs
  <2> QED BY <1>2, <1>7, <2>1, <2>2 DEF Around
<1>9. Wire(d) /\ captured'[d] = K /\ decoder' = decoder /\ lost' = lost
  BY <1>7, OffWireIs DEF Missed
<1>10. Kept(d, g, q, c, submitted + 1, K, gone)
  <2> HIDE DEF h, q, c, K
  <2> QED BY <1>2, <1>4, <1>6, KeptSubmit
<1>11. Decodes(d, g, q, c, T, p, R, K, lost, gone, b)
  <2>1. ~Busy(h)
    BY <1>2 DEF Busy
  <2> HIDE DEF h, q, c, T, p, R, K, b
  <2> QED BY <1>6, <2>1, DecodesStill
<1>12. SizedAt(d)'
  <2>1. <<>> \in Seq(Tags)
    OBVIOUS
  <2>2. Sized(g, c, last[d])
    BY <1>4, <1>5, <1>6, <2>1 DEF Sized
  <2> QED BY <1>7, <2>2 DEF SizedAt
<1>13. KeptAt(d)' /\ DecodesAt(d)'
  BY <1>2, <1>7, <1>9, <1>10, <1>11 DEF KeptAt, DecodesAt
<1> QED BY <1>8, <1>9, <1>12, <1>13, CaptureLift

\* The host is done with its command, whether it got an answer or not.
LEMMA DoneCaptures ==
  ASSUME UsbInv, CaptureInv, NEW d \in Devices, Set(d, Idle(bot[d].next)),
         NEW m, last' = [last EXCEPT ![d] = m], m.got \in Seq(Tags),
         UNCHANGED <<submitted, dev, truth>>, NEW r, Moved(inq, inq', d, r),
         \/ r = inq[d] /\ OffWire
         \/ /\ inq[d] # <<>> /\ r = Tail(inq[d])
            /\ \/ Bare(Head(inq[d])) /\ OffWire
               \/ ~Bare(Head(inq[d])) /\ OnWire(d, Head(inq[d])),
         gone \subseteq gone', gone' \subseteq gone \union {d},
         d \notin gone' => r = <<>> /\ dev[d].left = 0
  PROVE  CaptureInv'
<1> DEFINE g == Idle(bot[d].next)
<1>1. g.pc = "idle" /\ g.next = bot[d].next /\ g.tag = 0 /\ g.len = 0 /\ g.got = <<>>
  BY DEF Idle
<1> HIDE DEF g
<1>2. last'[d] = m /\ Moved(last, last', d, last'[d])
  BY Here, MovedIs
<1>3. Sized(g, dev[d], last'[d])
  <2>1. Sized(bot[d], dev[d], last[d])
    BY HereToo DEF SizedAt
  <2>2. 0 \in Tags /\ 0 \in 0 .. MaxLen /\ <<>> \in Seq(Tags)
    BY UsbBotAssumption DEF Tags
  <2> QED BY <1>1, <1>2, <2>1, <2>2 DEF Sized
<1>4. d \notin gone' => Moves(bot[d], g, r, dev[d])
  BY DEF Moves
<1> QED BY <1>1, <1>2, <1>3, <1>4, ReadsKeep DEF g

LEMMA GiveUpCaptures ==
  ASSUME UsbInv, CaptureInv, NEW d \in Devices, GiveUp(d),
         UNCHANGED <<submitted, dev, truth>>, NEW r, Moved(inq, inq', d, r),
         \/ r = inq[d] /\ OffWire
         \/ /\ inq[d] # <<>> /\ r = Tail(inq[d])
            /\ \/ Bare(Head(inq[d])) /\ OffWire
               \/ ~Bare(Head(inq[d])) /\ OnWire(d, Head(inq[d]))
  PROVE  CaptureInv'
<1>1. Failed.got \in Seq(Tags)
  BY DEF Failed
<1>2. last' = [last EXCEPT ![d] = Failed] /\ Set(d, Idle(bot[d].next)) /\ gone' = gone \union {d}
  BY DEF GiveUp
<1> QED BY <1>1, <1>2, DoneCaptures

\* A stage that ends or repeats, with the pipe read or not.
LEMMA StageCaptures ==
  ASSUME UsbInv, CaptureInv, NEW d \in Devices, NEW g, Set(d, g), UNCHANGED <<submitted, last, dev, truth, gone>>,
         Busy(bot[d]), Busy(g), g.next = bot[d].next, g.tag = bot[d].tag, g.len = bot[d].len,
         g.got \in Seq(Tags), NEW r, Moved(inq, inq', d, r),
         \/ r = inq[d] /\ OffWire
         \/ /\ inq[d] # <<>> /\ r = Tail(inq[d])
            /\ \/ Bare(Head(inq[d])) /\ OffWire
               \/ ~Bare(Head(inq[d])) /\ OnWire(d, Head(inq[d]))
  PROVE  CaptureInv'
<1>1. last'[d] = last[d] /\ Moved(last, last', d, last'[d])
  BY Here, MovedIs
<1>2. Sized(g, dev[d], last'[d])
  BY <1>1, HereToo DEF SizedAt, Sized
<1>3. g.pc # "cbw" /\ bot[d].pc # "idle" /\ Moves(bot[d], g, r, dev[d])
  BY DEF Busy, Moves
<1> QED BY <1>1, <1>2, <1>3, ReadsKeep

LEMMA TimeoutCaptures ==
  ASSUME UsbInv, CaptureInv, NEW d \in Devices, Timeout(d)
  PROVE  CaptureInv'
<1>1. Moved(inq, inq', d, inq[d])
  BY Here, MovedIs DEF Timeout
<1> QED BY <1>1, GiveUpCaptures DEF Timeout

LEMMA WriteStalledCaptures ==
  ASSUME UsbInv, CaptureInv, NEW d \in Devices, WriteStalled(d)
  PROVE  CaptureInv'
<1> DEFINE h == bot[d]
           g == [h EXCEPT !.pc = "csw", !.stalled = TRUE]
<1>1. PICK S : h \in Hosts(S)
  BY Here DEF LinkInv, Shaped
<1>2. g.pc = "csw" /\ g.next = h.next /\ g.tag = h.tag /\ g.len = h.len /\ g.got = h.got
  BY <1>1 DEF Hosts
<1>3. h.got \in Seq(Tags)
  BY HereToo DEF SizedAt, Sized
<1>4. Moved(inq, inq', d, inq[d])
  BY Here, MovedIs DEF WriteStalled
<1>5. Set(d, g) /\ UNCHANGED <<submitted, last, dev, truth, gone>> /\ OffWire /\ h.pc = "out"
  BY DEF WriteStalled
<1> HIDE DEF g
<1> QED BY <1>2, <1>3, <1>4, <1>5, StageCaptures DEF Busy

LEMMA ReadDataCaptures ==
  ASSUME UsbInv, CaptureInv, NEW d \in Devices, ReadData(d)
  PROVE  CaptureInv'
<1> DEFINE h == bot[d]
           q == inq[d]
           f == Head(q)
           got == IF f.kind = "empty" THEN h.got ELSE Append(h.got, f.tag)
           ends == f.kind # "data" \/ f.short \/ Len(got) = h.len
           pc == IF ends THEN "csw" ELSE "in"
           g == [h EXCEPT !.got = got, !.pc = pc]
<1>1. /\ h.pc = "in" /\ q # <<>> /\ f.kind # "stall" /\ Set(d, g)
      /\ inq' = [inq EXCEPT ![d] = Tail(@)] /\ UNCHANGED <<submitted, last, dev, truth, gone>>
      /\ IF f.kind = "empty" THEN OffWire ELSE OnWire(d, f)
  BY DEF ReadData
<1>2. PICK S : h \in Hosts(S)
  BY Here DEF LinkInv, Shaped
<1>3. pc \in {"in", "csw"}
  OBVIOUS
<1>4. Framed(f)
  <2>1. IsSeq(q)
    BY Here DEF LinkInv, Shaped
  <2>2. f = q[1] /\ 1 \in 1 .. Len(q)
    BY <1>1, <2>1, SeqTail, SeqLen
  <2> QED BY <2>2, HereToo
<1>5. got \in Seq(Tags)
  <2>1. h.got \in Seq(Tags)
    BY HereToo DEF SizedAt, Sized
  <2>2. f.kind # "empty" => f.tag \in Tags
    BY <1>1, <1>4 DEF Framed, Bare
  <2> QED BY <2>1, <2>2
<1> HIDE DEF got, pc
<1>6. g.pc = pc /\ g.next = h.next /\ g.tag = h.tag /\ g.len = h.len /\ g.got = got
  BY <1>2 DEF Hosts
<1> HIDE DEF g
<1>7. Moved(inq, inq', d, Tail(q))
  BY <1>1, Here, MovedIs
<1>8. (Bare(f) /\ OffWire) \/ (~Bare(f) /\ OnWire(d, f))
  BY <1>1 DEF Bare
<1> QED BY <1>1, <1>3, <1>5, <1>6, <1>7, <1>8, StageCaptures DEF Busy

LEMMA ReadStalledCaptures ==
  ASSUME UsbInv, CaptureInv, NEW d \in Devices, ReadStalled(d)
  PROVE  CaptureInv'
<1> DEFINE h == bot[d]
           g == [h EXCEPT !.pc = "csw", !.stalled = TRUE]
<1>1. PICK S : h \in Hosts(S)
  BY Here DEF LinkInv, Shaped
<1>2. g.pc = "csw" /\ g.next = h.next /\ g.tag = h.tag /\ g.len = h.len /\ g.got = h.got
  BY <1>1 DEF Hosts
<1>3. h.got \in Seq(Tags)
  BY HereToo DEF SizedAt, Sized
<1>4. Moved(inq, inq', d, Tail(inq[d]))
  BY Here, MovedIs DEF ReadStalled
<1>5. /\ Set(d, g) /\ UNCHANGED <<submitted, last, dev, truth, gone>> /\ OffWire /\ h.pc = "in"
      /\ inq[d] # <<>> /\ Bare(Head(inq[d]))
  BY DEF ReadStalled, Bare, Stall
<1> HIDE DEF g
<1> QED BY <1>2, <1>3, <1>4, <1>5, StageCaptures DEF Busy

LEMMA CswStalledCaptures ==
  ASSUME UsbInv, CaptureInv, NEW d \in Devices, CswStalled(d)
  PROVE  CaptureInv'
<1> DEFINE h == bot[d]
           g == [h EXCEPT !.retried = TRUE]
<1>1. /\ h.pc = "csw" /\ inq[d] # <<>> /\ Bare(Head(inq[d])) /\ OffWire
      /\ Moved(inq, inq', d, Tail(inq[d])) /\ UNCHANGED <<submitted, dev, truth>>
  <2>1. inq' = [inq EXCEPT ![d] = Tail(inq[d])]
    BY DEF CswStalled
  <2>2. Moved(inq, inq', d, Tail(inq[d]))
    BY <2>1, Here, MovedIs
  <2>3. Bare(Head(inq[d]))
    BY DEF CswStalled, Bare, Stall
  <2> QED BY <2>2, <2>3 DEF CswStalled
<1>2. CASE h.retried
  BY <1>1, <1>2, GiveUpCaptures DEF CswStalled
<1>3. CASE ~h.retried
  <2>1. PICK S : h \in Hosts(S)
    BY Here DEF LinkInv, Shaped
  <2>2. g.pc = h.pc /\ g.next = h.next /\ g.tag = h.tag /\ g.len = h.len /\ g.got = h.got
    BY <2>1 DEF Hosts
  <2>3. h.got \in Seq(Tags)
    BY HereToo DEF SizedAt, Sized
  <2>4. Set(d, g) /\ UNCHANGED <<last, gone>>
    BY <1>3 DEF CswStalled
  <2> HIDE DEF g
  <2> QED BY <1>1, <2>2, <2>3, <2>4, StageCaptures DEF Busy
<1> QED BY <1>2, <1>3

LEMMA CswGarbledCaptures ==
  ASSUME UsbInv, CaptureInv, NEW d \in Devices, CswGarbled(d)
  PROVE  CaptureInv'
<1> DEFINE f == Head(inq[d])
<1>1. /\ inq[d] # <<>> /\ GiveUp(d) /\ Moved(inq, inq', d, Tail(inq[d]))
      /\ UNCHANGED <<submitted, dev, truth>>
  BY Here, MovedIs DEF CswGarbled
<1>2. (Bare(f) /\ OffWire) \/ (~Bare(f) /\ OnWire(d, f))
  BY DEF CswGarbled, Bare
<1> QED BY <1>1, <1>2, GiveUpCaptures

\* The answer to the command in progress is the last frame in the pipe,
\* unless the host has given up on a command before.
LEMMA AnsweredLast ==
  ASSUME NEW d, NEW h, NEW q, NEW c, NEW T, NEW l, NEW m, NEW n, NEW K, NEW G,
         LinkInv(h, q, c, T, l, m), Kept(d, h, q, c, n, K, G), Busy(h), d \notin G,
         q # <<>>, Wrapper(q[1]), q[1].tag = h.tag
  PROVE  Tail(q) = <<>> /\ c.left = 0
<1>1. /\ IsSeq(q) /\ Ordered(q, T) /\ Taking(h, q, c, T, l) /\ c.left \in Nat
  BY DEF LinkInv, Shaped, Takers
<1>2. Calm(h, q, c) /\ Unique(q)
  BY DEF Kept
<1>3. Rest(q, Tail(q)) /\ Len(q) \in Nat \ {0} /\ 1 \in 1 .. Len(q) /\ Len(q) \in 1 .. Len(q)
  BY <1>1, SeqTail DEF Rest
<1>4. c.left = 0
  <2>1. c.left > 0 => c.tag = h.tag
    BY <1>2 DEF Calm
  <2> QED BY <1>1, <1>3, <2>1 DEF Taking
<1>5. ~(Len(q) > 1)
  <2>1. SUFFICES ASSUME Len(q) > 1
                 PROVE  FALSE
    OBVIOUS
  <2>2. Wrapper(q[Len(q)]) /\ ~Bare(q[Len(q)])
    BY <1>1 DEF Ordered, Wrapper, Bare
  <2>3. q[Len(q)].tag = h.tag
    BY <1>2, <1>3, <2>2 DEF Calm
  <2>4. 1 \in 1 .. Len(q) - 1
    BY <1>3, <2>1
  <2> QED BY <1>2, <1>3, <2>2, <2>3, <2>4 DEF Unique
<1> QED BY <1>3, <1>4, <1>5 DEF Rest

LEMMA ReadCswCaptures ==
  ASSUME UsbInv, CaptureInv, NEW d \in Devices, ReadCsw(d)
  PROVE  CaptureInv'
<1> DEFINE h == bot[d]
           q == inq[d]
           f == Head(q)
           m == Result(h, f)
<1>1. /\ h.pc = "csw" /\ q # <<>> /\ f.kind = "csw" /\ Set(d, Idle(h.next)) /\ OnWire(d, f)
      /\ last' = [last EXCEPT ![d] = m] /\ UNCHANGED <<submitted, dev, truth>>
      /\ gone' = IF f.tag = h.tag THEN gone ELSE gone \union {d}
  BY DEF ReadCsw
<1>2. m.got \in Seq(Tags)
  <2>1. h.got \in Seq(Tags)
    BY HereToo DEF SizedAt, Sized
  <2> QED BY <2>1 DEF Result, Failed
<1>3. Moved(inq, inq', d, Tail(q))
  BY Here, MovedIs DEF ReadCsw
<1>4. d \notin gone' => Tail(q) = <<>> /\ dev[d].left = 0
  <2>1. SUFFICES ASSUME d \notin gone, f.tag = h.tag
                 PROVE  Tail(q) = <<>> /\ dev[d].left = 0
    BY <1>1
  <2>2. IsSeq(q)
    BY Here DEF LinkInv, Shaped
  <2>3. f = q[1]
    BY <1>1, <2>2, SeqTail
  <2>4. Busy(h) /\ Wrapper(q[1]) /\ q[1].tag = h.tag
    BY <1>1, <2>1, <2>3 DEF Busy, Wrapper
  <2>5. Kept(d, h, q, dev[d], submitted, captured[d], gone)
    BY HereToo DEF KeptAt
  <2> QED BY <1>1, <2>1, <2>4, <2>5, Here, AnsweredLast
<1>5. ~Bare(f) /\ gone \subseteq gone' /\ gone' \subseteq gone \union {d}
  BY <1>1 DEF Bare
<1> HIDE DEF m
<1> QED BY <1>1, <1>2, <1>3, <1>4, <1>5, DoneCaptures

LEMMA ExecuteCaptures ==
  ASSUME UsbInv, UsbInv', CaptureInv, NEW d \in Devices, Execute(d)
  PROVE  CaptureInv'
  BY SubmitCaptures, SendCbwCaptures, TimeoutCaptures, WriteDataCaptures, WriteStalledCaptures,
     ReadDataCaptures, ReadStalledCaptures, CswStalledCaptures, CswGarbledCaptures, ReadCswCaptures
     DEF Execute

LEMMA CaptureStarts ==
  ASSUME BotInit
  PROVE  CaptureInv
<1>1. decoder = NewDecoder /\ captured = [d \in Devices |-> {}] /\ gone = {} /\ lost = 0 /\ submitted = 0
  BY DEF BotInit
<1> DEFINE P == [d \in Devices |-> None]
           S == [d \in Devices |-> <<>>]
<1>2. /\ DOMAIN P = Devices /\ DOMAIN S = Devices
      /\ \A d \in Devices : P[d] = None /\ S[d] = <<>>
  OBVIOUS
<1>3. decoder = [pending |-> P, records |-> S, failed |-> FALSE]
  BY <1>1 DEF NewDecoder
<1> HIDE DEF P, S
<1>4. DecoderInv
  BY <1>2, <1>3 DEF DecoderInv
<1>5. ASSUME NEW d \in Devices
      PROVE  KeptAt(d) /\ DecodesAt(d) /\ SizedAt(d) /\ HeardAt(d)
  <2> DEFINE h == Idle(FirstTag)
             c == [tag |-> 0, left |-> 0, csw |-> None]
  <2>1. /\ bot[d] = h /\ inq[d] = <<>> /\ dev[d] = c /\ last[d] = Failed /\ captured[d] = {}
        /\ decoder.pending[d] = None /\ decoder.records[d] = <<>>
    BY <1>1, <1>2, <1>3 DEF BotInit
  <2>2. h.pc = "idle" /\ h.next = FirstTag /\ h.tag = 0 /\ h.len = 0 /\ h.got = <<>> /\ c.left = 0
    BY DEF Idle
  <2> HIDE DEF h, c
  <2>3. Len(<<>>) = 0 /\ <<>> \in Seq(Tags) /\ <<>> \in Seq(Records)
    OBVIOUS
  <2>4. Failed.got = <<>>
    BY DEF Failed
  <2>5. 0 \in Tags /\ 0 \in 0 .. MaxLen
    BY UsbBotAssumption DEF Tags
  <2>6. Nth(0) = FirstTag
    BY UsbBotAssumption DEF Nth
  <2>7. Counted(h, {}, 0)
    BY <2>2, <2>6 DEF Counted
  <2>8. Kept(d, h, <<>>, c, 0, {}, {})
    BY <2>2, <2>3, <2>7 DEF Kept, Unique, Calm, Busy
  <2>9. TagsOf(<<>>) = {}
    BY <2>3 DEF TagsOf
  <2>10. Decodes(d, h, <<>>, c, truth[d], None, <<>>, {}, 0, {}, decoder.failed)
    BY <2>3, <2>9 DEF Decodes, Recorded, Noticed
  <2> QED BY <1>1, <2>1, <2>2, <2>3, <2>4, <2>5, <2>8, <2>10 DEF KeptAt, DecodesAt, SizedAt, HeardAt, Sized, Heard
<1>6. lost \in 0 .. MaxLost /\ DOMAIN captured = Devices
  BY <1>1, UsbBotAssumption
<1> QED BY <1>1, <1>4, <1>5, <1>6 DEF CaptureInv

\* What the invariant says of one device.
LEMMA CaptureTells ==
  ASSUME UsbInv, SessionInv, CaptureInv
  PROVE  CapturesTrue
<1>1. MaxCommands \in Nat /\ MaxTag \in Nat \ {0} /\ MaxCommands <= MaxTag
  BY UsbBotAssumption
<1>2. ASSUME NEW d \in Devices
      PROVE  /\ bot[d].pc \in Stages /\ bot[d].next \in Tags /\ bot[d].tag \in Tags
             /\ bot[d].got \in Seq(Tags) /\ last[d].got \in Seq(Tags) /\ dev[d].left \in 0 .. MaxLen
             /\ DOMAIN truth[d] \subseteq Tags /\ decoder.records[d] \in Seq(Records)
             /\ captured[d] \subseteq Tags
  <2>1. bot[d].pc \in Stages
    BY Here DEF LinkInv, Shaped, Hosts
  <2>2. captured[d] \subseteq Tags /\ bot[d].next \in Tags
    BY <1>1, HereToo DEF Tags
  <2>3. DOMAIN truth[d] \subseteq Tags
    <3>1. PICK k \in 0 .. submitted : \A t \in DOMAIN truth[d] : \E j \in 0 .. k - 1 : t = Nth(j)
      BY Here DEF LinkInv, Numbered
    <3>2. submitted \in 0 .. MaxCommands
      BY DEF UsbInv
    <3>3. \A j \in 0 .. k - 1 : j \in 0 .. MaxTag
      BY <1>1, <3>2
    <3>4. \A j \in 0 .. k - 1 : Nth(j) \in Tags
      BY <1>1, <3>3, NthIs DEF Tags
    <3> QED BY <3>1, <3>4
  <2> QED BY <2>1, <2>2, <2>3, HereToo DEF SizedAt, Sized, HeardAt, Heard
<1>3. BotTypeOK
  <2>1. \A d \in Devices : session[d] \in Sessions /\ port[d] \in {"expected", "other"}
    BY DEF SessionInv
  <2>2. decoder.failed \in BOOLEAN /\ gone \subseteq Devices /\ lost \in 0 .. MaxLost
    BY DEF CaptureInv, DecoderInv
  <2> QED BY <1>2, <2>1, <2>2 DEF BotTypeOK, Sessions, Stages, Records
<1>4. ASSUME NEW d \in Devices
      PROVE  /\ DOMAIN decoder.records[d] = 1 .. Len(decoder.records[d])
             /\ \A i \in 1 .. Len(decoder.records[d]) :
                  DOMAIN decoder.records[d][i].payload = 1 .. Len(decoder.records[d][i].payload)
  <2>1. decoder.records[d] \in Seq(Records)
    BY <1>2
  <2>2. \A i \in 1 .. Len(decoder.records[d]) : decoder.records[d][i] \in Records
    <3> DEFINE R == decoder.records[d]
    <3> HIDE DEF R, Records
    <3>1. R \in Seq(Records)
      BY <2>1 DEF R
    <3>2. \A i \in 1 .. Len(R) : R[i] \in Records
      BY <3>1
    <3> QED BY <3>2 DEF R
  <2>3. \A r \in Records : DOMAIN r.payload = 1 .. Len(r.payload)
    BY DEF Records
  <2>4. DOMAIN decoder.records[d] = 1 .. Len(decoder.records[d])
    <3> HIDE DEF Records
    <3> QED BY <2>1
  <2> QED BY <2>2, <2>3, <2>4
<1>5. TraceTrue
  <2>1. SUFFICES ASSUME NEW d \in Devices, NEW i \in 1 .. Len(decoder.records[d])
                 PROVE  LET r == decoder.records[d][i] IN
                          /\ Known(d, r.tag)
                          /\ truth[d][r.tag] = [n |-> Len(r.payload), status |-> r.status]
                          /\ r.dir /\ (lost = 0 \/ d \notin gone) =>
                               \A j \in DOMAIN r.payload : r.payload[j] = r.tag
    BY <1>4 DEF TraceTrue
  <2>2. Recorded(d, dev[d], truth[d], decoder.records[d], lost, gone)
    BY HereToo DEF DecodesAt, Decodes
  <2> QED BY <1>4, <2>2 DEF Recorded, Known
<1>6. NoSilentGap
  <2>1. SUFFICES ASSUME NEW d \in Devices, d \notin gone, ~decoder.failed, decoder.pending[d] = None
                 PROVE  captured[d] = {decoder.records[d][i].tag : i \in DOMAIN decoder.records[d]}
    BY DEF NoSilentGap
  <2>2. captured[d] = TagsOf(decoder.records[d])
    BY <2>1, HereToo DEF DecodesAt, Decodes, Noticed
  <2> QED BY <1>4, <2>2 DEF TagsOf
<1> QED BY <1>3, <1>5, <1>6 DEF CapturesTrue

(* Whatever the devices answer, whenever the host gives a command up and   *)
(* whatever frames the capture lost, every record that the importer emits  *)
(* is a command that was on the bus, with the length and the status the    *)
(* device gave it; its data are that command's unless a frame was lost on  *)
(* a device whose command was given up; and an import that ends well has a *)
(* record for every command captured on a device that had none given up    *)
(* (usb_bot.rs BotDecoder, feed, complete, matching_csw).                  *)
THEOREM CapturesStayTrue == BotSpec => []CapturesTrue
<1> DEFINE Inv == UsbInv /\ SessionInv /\ CaptureInv
<1>1. BotInit => Inv
  BY BotStarts, SessionStarts, CaptureStarts
<1>2. Inv /\ [BotNext]_botVars => Inv'
  <2> SUFFICES ASSUME Inv, [BotNext]_botVars
               PROVE  Inv'
    OBVIOUS
  <2>1. UsbInv' /\ SessionInv'
    BY BotKeeps
  <2>2. ASSUME UNCHANGED <<bot, last, dev, inq, truth, decoder, captured, submitted, gone, lost>>
        PROVE  CaptureInv'
    BY <2>2 DEF CaptureInv, DecoderInv, KeptAt, DecodesAt, SizedAt, HeardAt
  <2>3. ASSUME NEW d \in Devices, Execute(d)
        PROVE  CaptureInv'
    BY <2>1, <2>3, ExecuteCaptures
  <2> QED BY <2>1, <2>2, <2>3 DEF BotNext, AtRest, botVars
<1>3. Inv => CapturesTrue
  BY CaptureTells
<1> QED BY <1>1, <1>2, <1>3, PTL DEF BotSpec
=============================================================================
