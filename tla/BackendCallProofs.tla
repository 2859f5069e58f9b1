-------------------------- MODULE BackendCallProofs --------------------------
(***************************************************************************)
(* Proofs about calls of a backend, for any number of processes, actions   *)
(* and steps, and channels of any capacity: no backend runs while its core *)
(* is not waiting for it, a run that ends "ok" had every step done, and no *)
(* event that was written is lost or overtaken.                            *)
(***************************************************************************)
EXTENDS BackendCall, SequenceTheorems, TLAPS

Calling == {"emit", "spawn", "poll", "late", "drain", "done-emit"}

CoreStates ==
  [pc : {"idle", "head", "finish"} \cup Calling \cup Over,
   act : 1..Actions + 1, status : {"none", "ok", "failed", "interrupted"},
   sig : 0..2, open : BOOLEAN, limit : BOOLEAN]
ChildStates ==
  [pc : {"none", "work", "hung", "event", "answer", "exited"},
   step : 0..Steps, left : 0..RespLen, answer : {"none", "ok", "error"}]

RelayStates == [pc : {"read", "write", "ended", "failed", "dead"}, line : Events \cup {<<>>}]
ReaderStates == [pipe : 0..RespCap, got : 0..RespLen]
SinkStates == [kind : Outputs, pipe : 0..PipeCap, state : {"reading", "closed"}]
UsedStates == [deaths : Nat, signals : Nat, done : SUBSET (Runs \X (1..Actions) \X (1..Steps))]

\* The parts of TypeOK, as the sets the actions stay in.
Types ==
  /\ core \in [Runs -> CoreStates]
  /\ child \in [Runs -> ChildStates]
  /\ sock \in [Runs -> Seq(Events)]
  /\ relay \in [Runs -> RelayStates]
  /\ reader \in [Runs -> ReaderStates]
  /\ sink \in SinkStates
  /\ used \in UsedStates

\* The first n steps of action a of run r.
StepsDone(r, a, n) == \A s \in 1..n : <<r, a, s>> \in used.done

\* A live backend belongs to the action its core waits for, or died waiting.
Owned(r) ==
  /\ Alive(r) => core[r].pc \in {"poll", "killed"}
  /\ core[r].pc \in Calling \/ Alive(r) => core[r].act \in 1..Actions
  /\ child[r].pc = "event" => child[r].step \in 1..Steps
  /\ child[r].pc = "work" => child[r].step < Steps

\* What the pipe, the reader and the backend hold of a response is one.
Fits(r) ==
  /\ Len(sock[r]) <= SockCap
  /\ reader[r].got + reader[r].pipe + child[r].left <= RespLen

\* The actions behind the core are done, and the present one as far as its
\* backend has come; a backend answers "ok" after its last step only.
Honest(r) ==
  /\ \A a \in 1..core[r].act - 1 : StepsDone(r, a, Steps)
  /\ core[r].pc \in {"poll", "drain"} =>
       /\ StepsDone(r, core[r].act, child[r].step)
       /\ child[r].answer = "ok" /\ child[r].pc \in {"none", "answer", "exited"}
            => child[r].step = Steps
  /\ core[r].pc = "done-emit" => StepsDone(r, core[r].act, Steps)
  /\ core[r].status = "ok" => core[r].act = Actions + 1

CallInv ==
  /\ Types
  /\ \A r \in Runs : Owned(r) /\ Fits(r) /\ Honest(r)

-----------------------------------------------------------------------------

\* The numbers among the constants.
LEMMA Numbers ==
  /\ MaxRun \in Nat /\ Actions \in Nat /\ Steps \in Nat /\ SockCap \in Nat /\ PipeCap \in Nat
  /\ RespLen \in Nat /\ RespCap \in Nat /\ MaxRun # 0 /\ Actions # 0 /\ Steps # 0
  BY BackendCallAssumption

\* The initial states.
LEMMA InitInv == Init => CallInv
<1> SUFFICES ASSUME Init PROVE CallInv
  OBVIOUS
<1> USE BackendCallAssumption
<1>1. Types
  BY DEF Init, Types, CoreStates, ChildStates, RelayStates, ReaderStates, SinkStates, UsedStates,
            Calling, Over, Runs
<1>2. ASSUME NEW r \in Runs PROVE Owned(r) /\ Fits(r) /\ Honest(r)
  BY DEF Init, Owned, Fits, Honest, StepsDone, Alive, Calling, Runs
<1> QED BY <1>1, <1>2 DEF CallInv

\* What a step of process r leaves of another one.
LEMMA OthersKept ==
  ASSUME NEW r \in Runs, NEW q \in Runs, q # r,
         Owned(q), Fits(q), Honest(q),
         core'[q] = core[q], child'[q] = child[q], sock'[q] = sock[q],
         reader'[q] = reader[q], used.done \subseteq used'.done
  PROVE  Owned(q)' /\ Fits(q)' /\ Honest(q)'
  BY DEF Owned, Fits, Honest, StepsDone, Alive



\* A step of process r keeps the invariant if it keeps its own part of it.
Alone(r) ==
  /\ \A q \in Runs \ {r} : /\ core'[q] = core[q] /\ child'[q] = child[q]
                            /\ sock'[q] = sock[q] /\ reader'[q] = reader[q]
  /\ used.done \subseteq used'.done

\* A step that was done stays done.
LEMMA DoneStays ==
  ASSUME NEW r, used.done \subseteq used'.done
  PROVE  \A a, n : StepsDone(r, a, n) => StepsDone(r, a, n)'
  BY DEF StepsDone

LEMMA StepOf ==
  ASSUME CallInv, NEW r \in Runs, Types', Alone(r), Owned(r)', Fits(r)', Honest(r)'
  PROVE  CallInv'
<1>1. ASSUME NEW q \in Runs PROVE Owned(q)' /\ Fits(q)' /\ Honest(q)'
  <2>1. CASE q = r
    BY <2>1
  <2>2. CASE q # r
    BY <2>2, OthersKept DEF Alone, CallInv
  <2> QED BY <2>1, <2>2
<1> QED BY <1>1 DEF CallInv

\* The events are those lines.
LEMMA EventsOf ==
  /\ \A a \in 1..Actions : <<"action", a>> \in Events /\ <<"action-done", a>> \in Events
  /\ \A a \in 1..Actions, s \in 1..Steps : <<"progress", a, s>> \in Events
  BY DEF Events

-----------------------------------------------------------------------------

\* What an assignment to the fields of a record leaves of its type.
LEMMA CoreEnds ==
  ASSUME core \in [Runs -> CoreStates], NEW r \in Runs,
         NEW s \in {"none", "ok", "failed", "interrupted"}, Ends(r, s)
  PROVE  core' \in [Runs -> CoreStates]
  BY ZenonT(40) DEF CoreStates, Ends

LEMMA CoreEnded ==
  ASSUME core \in [Runs -> CoreStates], NEW r \in Runs,
         NEW s \in {"none", "ok", "failed", "interrupted"}
  PROVE  [core EXCEPT ![r].pc = "ended", ![r].status = s] \in [Runs -> CoreStates]
  BY DEF CoreStates, Over

LEMMA SinkSet ==
  ASSUME sink \in SinkStates, NEW n \in 0..PipeCap, NEW s \in {"reading", "closed"}
  PROVE  [sink EXCEPT !.pipe = n, !.state = s] \in SinkStates
  BY DEF SinkStates

LEMMA ReaderSet ==
  ASSUME reader \in [Runs -> ReaderStates], NEW r \in Runs,
         NEW p \in 0..RespCap, NEW g \in 0..RespLen
  PROVE  [reader EXCEPT ![r].pipe = p, ![r].got = g] \in [Runs -> ReaderStates]
  BY DEF ReaderStates

LEMMA ReaderTakes ==
  ASSUME reader \in [Runs -> ReaderStates], NEW r \in Runs, Read(r)
  PROVE  /\ reader[r].pipe \in 0..RespCap /\ reader[r].got \in 0..RespLen
         /\ reader'[r].pipe = reader[r].pipe - 1 /\ reader'[r].got = reader[r].got + 1
<1>1. reader[r].pipe \in 0..RespCap /\ reader[r].got \in 0..RespLen
  BY DEF ReaderStates
<1>2. reader'[r].pipe = reader[r].pipe - 1 /\ reader'[r].got = reader[r].got + 1
  BY DEF ReaderStates, Read
<1> QED BY <1>1, <1>2


\* The loop starts an action or leaves.
LEMMA KeepsLoopHead == ASSUME CallInv, NEW r \in Runs, LoopHead(r) PROVE CallInv'
<1> USE DEF LoopHead, At, Goto, Ends
<1>1. Types /\ Owned(r) /\ Fits(r) /\ Honest(r)
  BY DEF CallInv
<1>2. /\ core \in [Runs -> CoreStates]
      /\ child \in [Runs -> ChildStates]
  BY <1>1 DEF Types
<1>3. /\ core[r].act \in 1..Actions + 1
      /\ core[r].pc = "head" /\ core'[r].act = core[r].act
      /\ core'[r].pc \in {"emit", "finish"}
      /\ core'[r].pc = "emit" => core[r].act \in 1..Actions
      /\ core'[r].status = "ok" => core[r].act = Actions + 1 \/ core[r].status = "ok"
  BY <1>1, <1>2, Numbers DEF CoreStates, ChildStates
<1>4. core' \in [Runs -> CoreStates]
  BY <1>2, Numbers DEF CoreStates, Calling
<1>5. Types'
  BY <1>1, <1>4 DEF Types
<1>6. Alone(r)
  BY <1>2 DEF Alone
<1>7. Owned(r)'
  BY <1>1, <1>2, <1>3, Numbers DEF Owned, Alive, Calling
<1>8. Fits(r)'
  BY <1>1, <1>2, <1>3, Numbers DEF Fits
<1>9. Honest(r)'
  BY <1>1, <1>3, DoneStays, Numbers DEF Honest
<1> QED BY <1>5, <1>6, <1>7, <1>8, <1>9, StepOf

\* A new backend has done nothing and said nothing.
LEMMA KeepsSpawn == ASSUME CallInv, NEW r \in Runs, Spawn(r) PROVE CallInv'
<1> USE DEF Spawn, At, Goto
<1>1. Types /\ Owned(r) /\ Fits(r) /\ Honest(r)
  BY DEF CallInv
<1>2. /\ core \in [Runs -> CoreStates]
      /\ child \in [Runs -> ChildStates]
      /\ reader \in [Runs -> ReaderStates]
  BY <1>1 DEF Types
<1>3. /\ core[r].act \in 1..Actions + 1
      /\ core[r].pc = "spawn" /\ core'[r].pc = "poll"
      /\ core'[r].act = core[r].act /\ core'[r].status = core[r].status
      /\ child'[r].step = 0 /\ child'[r].pc = "work" /\ child'[r].left = RespLen
      /\ reader'[r].got = 0 /\ reader'[r].pipe = 0
  BY <1>1, <1>2, Numbers DEF CoreStates, ChildStates
<1>4. core' \in [Runs -> CoreStates]
  BY <1>2, Numbers, ZenonT(40) DEF CoreStates, Calling
<1>5. child' \in [Runs -> ChildStates]
  BY <1>2, Numbers DEF ChildStates
<1>6. reader' \in [Runs -> ReaderStates]
  BY <1>2, Numbers DEF ReaderStates
<1>7. Types'
  BY <1>1, <1>4, <1>5, <1>6 DEF Types
<1>8. Alone(r)
  BY <1>2 DEF Alone
<1>9. Owned(r)'
  BY <1>1, <1>2, <1>3, Numbers DEF Owned, Alive, Calling
<1>10. Fits(r)'
  BY <1>1, <1>2, <1>3, Numbers DEF Fits
<1>11. Honest(r)'
  BY <1>1, <1>3, DoneStays, Numbers DEF Honest, StepsDone
<1> QED BY <1>7, <1>8, <1>9, <1>10, <1>11, StepOf

\* The exit of the backend is noticed.
LEMMA KeepsPoll == ASSUME CallInv, NEW r \in Runs, Poll(r) PROVE CallInv'
<1> USE DEF Poll, At, Goto, Alive
<1>1. Types /\ Owned(r) /\ Fits(r) /\ Honest(r)
  BY DEF CallInv
<1>2. /\ core \in [Runs -> CoreStates]
      /\ child \in [Runs -> ChildStates]
  BY <1>1 DEF Types
<1>3. /\ core[r].act \in 1..Actions + 1
      /\ core[r].pc = "poll" /\ core'[r].pc = "drain"
      /\ core'[r].act = core[r].act /\ core'[r].status = core[r].status
  BY <1>1, <1>2, Numbers DEF CoreStates, ChildStates
<1>4. core' \in [Runs -> CoreStates]
  BY <1>2, Numbers DEF CoreStates, Calling
<1>5. Types'
  BY <1>1, <1>4 DEF Types
<1>6. Alone(r)
  BY <1>2 DEF Alone
<1>7. Owned(r)'
  BY <1>1, <1>2, <1>3, Numbers DEF Owned, Alive, Calling
<1>8. Fits(r)'
  BY <1>1, <1>2, <1>3, Numbers DEF Fits
<1>9. Honest(r)'
  BY <1>1, <1>3, DoneStays, Numbers DEF Honest
<1> QED BY <1>5, <1>6, <1>7, <1>8, <1>9, StepOf

\* The backend is killed and waited for at the deadline.
LEMMA KeepsExpire == ASSUME CallInv, NEW r \in Runs, Expire(r) PROVE CallInv'
<1> USE DEF Expire, At, Goto, Alive, Reap, Killed
<1>1. Types /\ Owned(r) /\ Fits(r) /\ Honest(r)
  BY DEF CallInv
<1>2. /\ core \in [Runs -> CoreStates]
      /\ child \in [Runs -> ChildStates]
  BY <1>1 DEF Types
<1>3. /\ core[r].act \in 1..Actions + 1
      /\ core[r].pc = "poll" /\ core'[r].pc = "late"
      /\ core'[r].act = core[r].act /\ core'[r].status = core[r].status
      /\ child'[r].pc = "exited" /\ child'[r].left = child[r].left
  BY <1>1, <1>2, Numbers DEF CoreStates, ChildStates
<1>4. core' \in [Runs -> CoreStates]
  BY <1>2, Numbers DEF CoreStates, Calling
<1>5. child' \in [Runs -> ChildStates]
  BY <1>2, Numbers DEF ChildStates
<1>6. Types'
  BY <1>1, <1>4, <1>5 DEF Types
<1>7. Alone(r)
  BY <1>2 DEF Alone
<1>8. Owned(r)'
  BY <1>1, <1>2, <1>3, Numbers DEF Owned, Alive, Calling
<1>9. Fits(r)'
  BY <1>1, <1>2, <1>3, Numbers DEF Fits
<1>10. Honest(r)'
  BY <1>1, <1>3, DoneStays, Numbers DEF Honest
<1> QED BY <1>6, <1>7, <1>8, <1>9, <1>10, StepOf

\* A call past its deadline fails the run.
LEMMA KeepsLate == ASSUME CallInv, NEW r \in Runs, Late(r) PROVE CallInv'
<1> USE DEF Late, At, Ends, Drained
<1>1. Types /\ Owned(r) /\ Fits(r) /\ Honest(r)
  BY DEF CallInv
<1>2. /\ core \in [Runs -> CoreStates]
      /\ child \in [Runs -> ChildStates]
  BY <1>1 DEF Types
<1>3. /\ core[r].act \in 1..Actions + 1
      /\ core[r].pc = "late" /\ core'[r].pc = "finish" /\ core'[r].act = core[r].act
      /\ core'[r].status = "interrupted"
  BY <1>1, <1>2, Numbers DEF CoreStates, ChildStates
<1>4. core' \in [Runs -> CoreStates]
  BY <1>2, CoreEnds DEF CoreStates, Calling
<1>5. Types'
  BY <1>1, <1>4 DEF Types
<1>6. Alone(r)
  BY <1>2 DEF Alone
<1>7. Owned(r)'
  BY <1>1, <1>2, <1>3, Numbers DEF Owned, Alive, Calling
<1>8. Fits(r)'
  BY <1>1, <1>2, <1>3, Numbers DEF Fits
<1>9. Honest(r)'
  BY <1>1, <1>3, DoneStays, Numbers DEF Honest
<1> QED BY <1>5, <1>6, <1>7, <1>8, <1>9, StepOf

\* A complete answer is taken.
LEMMA KeepsDrain == ASSUME CallInv, NEW r \in Runs, Drain(r) PROVE CallInv'
<1> USE DEF Drain, At, Goto, Ends, Answered, Drained
<1>1. Types /\ Owned(r) /\ Fits(r) /\ Honest(r)
  BY DEF CallInv
<1>2. /\ core \in [Runs -> CoreStates]
      /\ child \in [Runs -> ChildStates]
  BY <1>1 DEF Types
<1>3. /\ core[r].act \in 1..Actions + 1
      /\ core[r].pc = "drain" /\ core'[r].pc \in {"done-emit", "finish"}
      /\ core'[r].act = core[r].act
      /\ core'[r].status \in {core[r].status, "failed"}
      /\ core'[r].pc = "done-emit" => child[r].answer = "ok"
      /\ child[r].pc \in {"none", "exited"}
  BY <1>1, <1>2, Numbers DEF CoreStates, ChildStates, Owned, Alive
<1>4. core' \in [Runs -> CoreStates]
  BY <1>2, Numbers DEF CoreStates, Calling
<1>5. Types'
  BY <1>1, <1>4 DEF Types
<1>6. Alone(r)
  BY <1>2 DEF Alone
<1>7. Owned(r)'
  BY <1>1, <1>2, <1>3, Numbers DEF Owned, Alive, Calling
<1>8. Fits(r)'
  BY <1>1, <1>2, <1>3, Numbers DEF Fits
<1>9. Honest(r)'
  BY <1>1, <1>3, DoneStays, Numbers DEF Honest
<1> QED BY <1>5, <1>6, <1>7, <1>8, <1>9, StepOf

\* The relay may fail a run, never excuse it.
LEMMA KeepsFinish == ASSUME CallInv, NEW r \in Runs, Finish(r) PROVE CallInv'
<1> USE DEF Finish, At, Verdict
<1>1. Types /\ Owned(r) /\ Fits(r) /\ Honest(r)
  BY DEF CallInv
<1>2. /\ core \in [Runs -> CoreStates]
      /\ child \in [Runs -> ChildStates]
  BY <1>1 DEF Types
<1>3. Verdict(r) \in {"none", "ok", "failed", "interrupted"}
  BY <1>2 DEF CoreStates
<1>4. /\ core[r].act \in 1..Actions + 1
      /\ core[r].pc = "finish" /\ core'[r].pc = "ended" /\ core'[r].act = core[r].act
      /\ core'[r].status \in {core[r].status, "failed"}
  BY <1>1, <1>2, <1>3, Numbers DEF CoreStates, ChildStates
<1>5. core' \in [Runs -> CoreStates]
  BY <1>3, <1>2, CoreEnded DEF CoreStates, Calling
<1>6. Types'
  BY <1>1, <1>5 DEF Types
<1>7. Alone(r)
  BY <1>2 DEF Alone
<1>8. Owned(r)'
  BY <1>1, <1>2, <1>4, Numbers DEF Owned, Alive, Calling
<1>9. Fits(r)'
  BY <1>1, <1>2, <1>4, Numbers DEF Fits
<1>10. Honest(r)'
  BY <1>1, <1>4, DoneStays, Numbers DEF Honest
<1> QED BY <1>6, <1>7, <1>8, <1>9, <1>10, StepOf

\* The reader takes from the pipe.
LEMMA KeepsRead == ASSUME CallInv, NEW r \in Runs, Read(r) PROVE CallInv'
<1>1. Types /\ Owned(r) /\ Fits(r) /\ Honest(r)
  BY DEF CallInv
<1>2. core \in [Runs -> CoreStates] /\ child \in [Runs -> ChildStates]
      /\ reader \in [Runs -> ReaderStates]
  BY <1>1 DEF Types
<1>3. /\ reader[r].pipe \in 0..RespCap /\ reader[r].got \in 0..RespLen
      /\ reader'[r].pipe = reader[r].pipe - 1 /\ reader'[r].got = reader[r].got + 1
  BY <1>2, ReaderTakes
<1>4. child[r].left \in 0..RespLen
  BY <1>2 DEF ChildStates
<1>5. reader[r].pipe > 0 /\ reader[r].got + reader[r].pipe + child[r].left <= RespLen
  BY <1>1 DEF Read, Fits
<1>6. /\ reader[r].pipe - 1 \in 0..RespCap /\ reader[r].got + 1 \in 0..RespLen
      /\ reader'[r].got + reader'[r].pipe + child[r].left <= RespLen
  BY <1>3, <1>4, <1>5, Numbers
<1>7. reader' \in [Runs -> ReaderStates]
  BY <1>2, <1>6, ReaderSet DEF Read
<1>8. Types'
  BY <1>1, <1>7 DEF Types, Read
<1>9. Alone(r)
  BY <1>2 DEF Alone, Read
<1>10. Owned(r)'
  BY <1>1 DEF Owned, Alive, Read
<1>11. Fits(r)'
  BY <1>1, <1>6 DEF Fits, Read
<1>12. Honest(r)'
  BY <1>1 DEF Honest, StepsDone, Read
<1> QED BY <1>8, <1>9, <1>10, <1>11, <1>12, StepOf

\* The relay takes the first line.
LEMMA KeepsRelayRead == ASSUME CallInv, NEW r \in Runs, RelayRead(r) PROVE CallInv'
<1> USE DEF RelayRead
<1>1. Types /\ Owned(r) /\ Fits(r) /\ Honest(r)
  BY DEF CallInv
<1>2. /\ core \in [Runs -> CoreStates]
      /\ child \in [Runs -> ChildStates]
      /\ sock \in [Runs -> Seq(Events)]
      /\ relay \in [Runs -> RelayStates]
  BY <1>1 DEF Types
<1>3. sock[r] \in Seq(Events) /\ sock[r] # <<>>
  BY <1>2
<1>4. /\ Head(sock[r]) \in Events /\ Tail(sock[r]) \in Seq(Events)
      /\ Len(Tail(sock[r])) = Len(sock[r]) - 1 /\ Head(sock[r]) = sock[r][1]
  BY <1>3, HeadTailProperties
<1>5. Len(sock[r]) \in Nat
  BY <1>3, LenProperties
<1>6. /\ sock'[r] = Tail(sock[r])
      /\ Len(sock'[r]) <= SockCap
  BY <1>1, <1>2, <1>3, <1>4, <1>5, Numbers DEF Fits
<1>7. sock' \in [Runs -> Seq(Events)]
  BY <1>2, <1>4
<1>8. relay' \in [Runs -> RelayStates]
  BY <1>2, <1>4 DEF RelayStates
<1>9. Types'
  BY <1>1, <1>7, <1>8 DEF Types
<1>10. Alone(r)
  BY <1>2 DEF Alone
<1>11. Owned(r)'
  BY <1>1, <1>2, <1>6, Numbers DEF Owned, Alive, Calling
<1>12. Fits(r)'
  BY <1>1, <1>2, <1>6, Numbers DEF Fits
<1>13. Honest(r)'
  BY <1>1, DoneStays DEF Honest, StepsDone
<1> QED BY <1>9, <1>10, <1>11, <1>12, <1>13, StepOf

\* The relay reads the end of the socket.
LEMMA KeepsRelayEnd == ASSUME CallInv, NEW r \in Runs, RelayEnd(r) PROVE CallInv'
<1> USE DEF RelayEnd
<1>1. Types /\ Owned(r) /\ Fits(r) /\ Honest(r)
  BY DEF CallInv
<1>2. /\ core \in [Runs -> CoreStates]
      /\ child \in [Runs -> ChildStates]
      /\ relay \in [Runs -> RelayStates]
  BY <1>1 DEF Types
<1>3. /\ core[r].act \in 1..Actions + 1
      /\ relay'[r].pc = "ended"
  BY <1>1, <1>2, Numbers DEF CoreStates, RelayStates
<1>4. relay' \in [Runs -> RelayStates]
  BY <1>2, Numbers DEF RelayStates
<1>5. Types'
  BY <1>1, <1>4 DEF Types
<1>6. Alone(r)
  BY <1>2 DEF Alone
<1>7. Owned(r)'
  BY <1>1, <1>2, <1>3, Numbers DEF Owned, Alive, Calling
<1>8. Fits(r)'
  BY <1>1, <1>2, <1>3, Numbers DEF Fits
<1>9. Honest(r)'
  BY <1>1, DoneStays DEF Honest, StepsDone
<1> QED BY <1>5, <1>6, <1>7, <1>8, <1>9, StepOf

\* A signal is counted.
LEMMA KeepsSignal == ASSUME CallInv, NEW r \in Runs, Signal(r) PROVE CallInv'
<1> USE DEF Signal, Counted
<1>1. Types /\ Owned(r) /\ Fits(r) /\ Honest(r)
  BY DEF CallInv
<1>2. /\ core \in [Runs -> CoreStates]
      /\ child \in [Runs -> ChildStates]
      /\ used \in UsedStates
  BY <1>1 DEF Types
<1>3. /\ core[r].act \in 1..Actions + 1
      /\ core'[r].pc = core[r].pc
      /\ core'[r].act = core[r].act /\ core'[r].status = core[r].status
      /\ used'.done = used.done
  BY <1>1, <1>2, Numbers DEF CoreStates, UsedStates
<1>4. core' \in [Runs -> CoreStates]
  BY <1>2, Numbers DEF CoreStates, Calling
<1>5. used' \in UsedStates
  BY <1>2, Numbers DEF UsedStates
<1>6. Types'
  BY <1>1, <1>4, <1>5 DEF Types
<1>7. Alone(r)
  BY <1>2, <1>3 DEF Alone
<1>8. Owned(r)'
  BY <1>1, <1>2, <1>3, Numbers DEF Owned, Alive, Calling
<1>9. Fits(r)'
  BY <1>1, <1>2, <1>3, Numbers DEF Fits
<1>10. Honest(r)'
  BY <1>1, <1>3, DoneStays, Numbers DEF Honest
<1> QED BY <1>6, <1>7, <1>8, <1>9, <1>10, StepOf

\* The next process starts.
LEMMA KeepsStartNext == ASSUME CallInv, NEW r \in Runs, StartNext(r) PROVE CallInv'
<1> USE DEF StartNext, At, Goto
<1>1. Types /\ Owned(r) /\ Fits(r) /\ Honest(r)
  BY DEF CallInv
<1>2. /\ core \in [Runs -> CoreStates]
      /\ child \in [Runs -> ChildStates]
      /\ sink \in SinkStates
  BY <1>1 DEF Types
<1>3. 0 \in 0..PipeCap
  BY Numbers
<1>4. /\ core[r].act \in 1..Actions + 1
      /\ core[r].pc = "idle" /\ core'[r].pc = "head"
      /\ core'[r].act = core[r].act /\ core'[r].status = core[r].status
  BY <1>1, <1>2, <1>3, Numbers DEF CoreStates, ChildStates
<1>5. core' \in [Runs -> CoreStates]
  BY <1>2, Numbers DEF CoreStates, Calling
<1>6. sink' \in SinkStates
  BY <1>3, <1>2, SinkSet DEF SinkStates
<1>7. Types'
  BY <1>1, <1>5, <1>6 DEF Types
<1>8. Alone(r)
  BY <1>2 DEF Alone
<1>9. Owned(r)'
  BY <1>1, <1>2, <1>4, Numbers DEF Owned, Alive, Calling
<1>10. Fits(r)'
  BY <1>1, <1>2, <1>4, Numbers DEF Fits
<1>11. Honest(r)'
  BY <1>1, <1>4, DoneStays, Numbers DEF Honest
<1> QED BY <1>7, <1>8, <1>9, <1>10, <1>11, StepOf

\* nclr dies, whatever else happens to the signals and the consumer.
LEMMA KeepsDies ==
  ASSUME CallInv, NEW r \in Runs, Dies(r), child' = child,
         sink' \in SinkStates, used' \in UsedStates, used.done \subseteq used'.done
  PROVE  CallInv'
<1>1. Types /\ Owned(r) /\ Fits(r) /\ Honest(r)
  BY DEF CallInv
<1>2. /\ core \in [Runs -> CoreStates] /\ child \in [Runs -> ChildStates]
      /\ sock \in [Runs -> Seq(Events)] /\ relay \in [Runs -> RelayStates]
      /\ reader \in [Runs -> ReaderStates]
  BY <1>1 DEF Types
<1>3. core' \in [Runs -> CoreStates]
  BY <1>2, ZenonT(40) DEF Dies, CoreStates, Over
<1>4. /\ core'[r].pc = "killed" /\ core'[r].act = core[r].act
      /\ core'[r].status = core[r].status
  BY <1>2 DEF Dies, CoreStates
<1>5. sock'[r] = <<>> /\ sock' \in [Runs -> Seq(Events)]
  BY <1>2 DEF Dies
<1>6. reader'[r].pipe = 0 /\ reader'[r].got = 0 /\ reader' \in [Runs -> ReaderStates]
  BY <1>2, Numbers DEF Dies, ReaderStates
<1>7. relay' \in [Runs -> RelayStates]
  BY <1>2 DEF Dies, RelayStates
<1>8. Types'
  BY <1>1, <1>3, <1>5, <1>6, <1>7 DEF Types
<1>9. Alone(r)
  BY <1>2 DEF Alone, Dies
<1>10. Owned(r)'
  BY <1>1, <1>4 DEF Owned, Alive, Calling
<1>11. child[r].left \in 0..RespLen
  BY <1>2 DEF ChildStates
<1>12. Fits(r)'
  BY <1>5, <1>6, <1>11, Numbers DEF Fits
<1>13. Honest(r)'
  BY <1>1, <1>4, DoneStays DEF Honest
<1> QED BY <1>8, <1>9, <1>10, <1>12, <1>13, StepOf

\* nclr is killed.
LEMMA KeepsDeath == ASSUME CallInv, NEW r \in Runs, Death(r) PROVE CallInv'
<1>1. sink \in SinkStates /\ used \in UsedStates
  BY DEF CallInv, Types
<1>2. used' \in UsedStates /\ used'.done = used.done
  BY <1>1 DEF Death, UsedStates
<1> QED BY <1>1, <1>2, KeepsDies DEF Death

\* A line that is sent fits and is an event.
LEMMA LineSent ==
  ASSUME sock \in [Runs -> Seq(Events)], NEW r \in Runs, NEW e \in Events, Room(r), Put(r, e)
  PROVE  /\ sock' \in [Runs -> Seq(Events)] /\ Len(sock'[r]) <= SockCap
         /\ \A q \in Runs \ {r} : sock'[q] = sock[q]
<1>1. sock[r] \in Seq(Events)
  OBVIOUS
<1>2. Append(sock[r], e) \in Seq(Events) /\ Len(Append(sock[r], e)) = Len(sock[r]) + 1
  BY <1>1, AppendProperties
<1>3. Len(sock[r]) \in Nat
  BY <1>1, LenProperties
<1>4. sock'[r] = Append(sock[r], e)
  BY <1>1 DEF Put
<1>5. Len(sock'[r]) <= SockCap
  BY <1>2, <1>3, <1>4, Numbers DEF Room
<1> QED BY <1>2, <1>5 DEF Put

\* The core announces an action.
LEMMA KeepsEmitAction == ASSUME CallInv, NEW r \in Runs, EmitAction(r) PROVE CallInv'
<1>1. Types /\ Owned(r) /\ Fits(r) /\ Honest(r)
  BY DEF CallInv
<1>2. /\ core \in [Runs -> CoreStates] /\ child \in [Runs -> ChildStates]
      /\ sock \in [Runs -> Seq(Events)] /\ sink \in SinkStates /\ used \in UsedStates
  BY <1>1 DEF Types
<1>3. core[r].pc = "emit" /\ core[r].act \in 1..Actions
  BY <1>1 DEF Owned, Calling, EmitAction, At
<1>4. ASSUME Goto(r, "spawn"), UNCHANGED <<child, relay, reader, sink, used>>,
             sock' \in [Runs -> Seq(Events)], Len(sock'[r]) <= SockCap,
             \A q \in Runs \ {r} : sock'[q] = sock[q]
      PROVE  CallInv'
  <2>1. core' \in [Runs -> CoreStates]
    BY <1>2, <1>4, ZenonT(40) DEF Goto, CoreStates, Calling
  <2>2. core'[r].pc = "spawn" /\ core'[r].act = core[r].act /\ core'[r].status = core[r].status
    BY <1>2, <1>4 DEF Goto, CoreStates
  <2>3. Types'
    BY <1>1, <1>4, <2>1 DEF Types
  <2>4. Alone(r)
    BY <1>2, <1>4 DEF Alone, Goto
  <2>5. Owned(r)'
    BY <1>1, <1>3, <1>4, <2>2 DEF Owned, Alive, Calling
  <2>6. Fits(r)'
    BY <1>1, <1>4 DEF Fits
  <2>7. Honest(r)'
    BY <1>1, <1>4, <2>2 DEF Honest, StepsDone
  <2> QED BY <2>3, <2>4, <2>5, <2>6, <2>7, StepOf
<1>5. CASE Goto(r, "spawn") /\ UNCHANGED <<sock, relay, reader, out>>
  BY <1>1, <1>2, <1>4, <1>5 DEF EmitAction, Fits
<1>6. CASE Room(r) /\ Put(r, <<"action", core[r].act>>) /\ Goto(r, "spawn")
           /\ UNCHANGED <<relay, reader, out>>
  BY <1>2, <1>3, <1>4, <1>6, LineSent, EventsOf DEF EmitAction
<1>7. CASE Dies(r)
  BY <1>2, <1>7, KeepsDies DEF EmitAction
<1> QED BY <1>5, <1>6, <1>7 DEF EmitAction, Emit

\* The core announces that an action is done, and goes on to the next one.
LEMMA KeepsEmitDone == ASSUME CallInv, NEW r \in Runs, EmitDone(r) PROVE CallInv'
<1> DEFINE Onward == core' = [core EXCEPT ![r].pc = "head", ![r].act = @ + 1]
<1>1. Types /\ Owned(r) /\ Fits(r) /\ Honest(r)
  BY DEF CallInv
<1>2. /\ core \in [Runs -> CoreStates] /\ child \in [Runs -> ChildStates]
      /\ sock \in [Runs -> Seq(Events)] /\ sink \in SinkStates /\ used \in UsedStates
  BY <1>1 DEF Types
<1>3. core[r].pc = "done-emit" /\ core[r].act \in 1..Actions /\ ~Alive(r)
  BY <1>1 DEF Owned, Calling, EmitDone, At
<1>4. ASSUME Onward, UNCHANGED <<child, relay, reader, sink, used>>,
             sock' \in [Runs -> Seq(Events)], Len(sock'[r]) <= SockCap,
             \A q \in Runs \ {r} : sock'[q] = sock[q]
      PROVE  CallInv'
  <2>1. core[r].act + 1 \in 1..Actions + 1
    BY <1>3, Numbers
  <2>2. core' \in [Runs -> CoreStates]
    <3>1. [[core[r] EXCEPT !.pc = "head"] EXCEPT !.act = core[r].act + 1] \in CoreStates
      BY <1>2, <2>1 DEF CoreStates
    <3>2. core' = [core EXCEPT ![r] = [[core[r] EXCEPT !.pc = "head"]
                                         EXCEPT !.act = core[r].act + 1]]
      BY <1>2, <1>4
    <3> QED BY <1>2, <3>1, <3>2
  <2>3. /\ core'[r].pc = "head" /\ core'[r].act = core[r].act + 1
        /\ core'[r].status = core[r].status
    BY <1>2, <1>4 DEF CoreStates
  <2>4. Types'
    BY <1>1, <1>4, <2>2 DEF Types
  <2>5. Alone(r)
    BY <1>2, <1>4 DEF Alone
  <2>6. Owned(r)'
    BY <1>1, <1>3, <1>4, <2>3 DEF Owned, Alive, Calling
  <2>7. Fits(r)'
    BY <1>1, <1>4 DEF Fits
  <2>8. core[r].status # "ok"
    BY <1>1, <1>3, Numbers DEF Honest
  <2>9. \A a \in 1..core[r].act : StepsDone(r, a, Steps)
    BY <1>1, <1>3, Numbers DEF Honest
  <2>10. core'[r].act - 1 = core[r].act
    BY <1>3, <2>3, Numbers
  <2>11. \A a \in 1..core'[r].act - 1 : StepsDone(r, a, Steps)'
    BY <1>4, <2>9, <2>10 DEF StepsDone
  <2>12. Honest(r)'
    BY <2>3, <2>8, <2>11 DEF Honest
  <2> QED BY <2>4, <2>5, <2>6, <2>7, <2>12, StepOf
<1>5. CASE Onward /\ UNCHANGED <<sock, relay, reader, out>>
  BY <1>1, <1>2, <1>4, <1>5 DEF EmitDone, Fits
<1>6. CASE Room(r) /\ Put(r, <<"action-done", core[r].act>>) /\ Onward
           /\ UNCHANGED <<relay, reader, out>>
  BY <1>2, <1>3, <1>4, <1>6, LineSent, EventsOf DEF EmitDone
<1>7. CASE Dies(r)
  BY <1>2, <1>7, KeepsDies DEF EmitDone
<1> QED BY <1>5, <1>6, <1>7 DEF EmitDone, Emit

\* The relay writes a line, fails, or dies of a closed pipe with its process.
LEMMA KeepsRelayWrite == ASSUME CallInv, NEW r \in Runs, RelayWrite(r) PROVE CallInv'
<1>1. Types /\ \A q \in Runs : Owned(q) /\ Fits(q) /\ Honest(q)
  BY DEF CallInv
<1>2. relay \in [Runs -> RelayStates] /\ sink \in SinkStates /\ used \in UsedStates
  BY <1>1 DEF Types
<1>3. ASSUME UNCHANGED <<core, child, sock, reader, used>>,
             relay' \in [Runs -> RelayStates], sink' \in SinkStates
      PROVE  CallInv'
  <2>1. Types'
    BY <1>1, <1>3 DEF Types
  <2>2. \A q \in Runs : Owned(q)' /\ Fits(q)' /\ Honest(q)'
    BY <1>1, <1>3 DEF Owned, Fits, Honest, StepsDone, Alive
  <2> QED BY <2>1, <2>2 DEF CallInv
<1>4. ASSUME sink.state # "closed", sink.kind = "file" \/ sink.pipe < PipeCap,
             sink' = IF sink.kind = "pipe" THEN [sink EXCEPT !.pipe = @ + 1] ELSE sink
      PROVE  sink' \in SinkStates
  BY <1>2, <1>4, Numbers DEF SinkStates
<1>5. ASSUME NEW pc \in {"read", "failed"}, relay' = [relay EXCEPT ![r].pc = pc]
      PROVE  relay' \in [Runs -> RelayStates]
  BY <1>2, <1>5 DEF RelayStates
<1>6. CASE Dies(r) /\ UNCHANGED sink
  BY <1>2, <1>6, KeepsDies DEF RelayWrite
<1>7. CASE ~(Dies(r) /\ UNCHANGED sink)
  BY <1>2, <1>3, <1>4, <1>5, <1>7 DEF RelayWrite
<1> QED BY <1>6, <1>7

\* The consumer reads or leaves.
LEMMA KeepsConsumer == ASSUME CallInv, Consume \/ Leave PROVE CallInv'
<1>1. Types /\ \A q \in Runs : Owned(q) /\ Fits(q) /\ Honest(q)
  BY DEF CallInv
<1>2. sink \in SinkStates
  BY <1>1 DEF Types
<1>3. sink' \in SinkStates
  <2>1. CASE Consume
    BY <1>2, <2>1, Numbers DEF Consume, SinkStates
  <2>2. CASE Leave
    BY <1>2, <2>2 DEF Leave, SinkStates
  <2> QED BY <2>1, <2>2
<1>4. UNCHANGED <<core, child, sock, relay, reader, out, used>>
  BY DEF Consume, Leave
<1>5. Types'
  BY <1>1, <1>3, <1>4 DEF Types
<1>6. \A q \in Runs : Owned(q)' /\ Fits(q)' /\ Honest(q)'
  BY <1>1, <1>4 DEF Owned, Fits, Honest, StepsDone, Alive
<1> QED BY <1>5, <1>6 DEF CallInv

\* A device step is done, or the backend panics or hangs.
LEMMA KeepsWork == ASSUME CallInv, NEW r \in Runs, Work(r) PROVE CallInv'
<1>1. Types /\ Owned(r) /\ Fits(r) /\ Honest(r)
  BY DEF CallInv
<1>2. core \in [Runs -> CoreStates] /\ child \in [Runs -> ChildStates] /\ used \in UsedStates
  BY <1>1 DEF Types
<1>3. /\ child[r].pc = "work" /\ child[r].step \in 0..Steps /\ child[r].step < Steps
      /\ core[r].act \in 1..Actions /\ core[r].pc \in {"poll", "killed"}
      /\ child[r].left \in 0..RespLen
  BY <1>1, <1>2, Numbers DEF Work, Owned, Alive, ChildStates
<1>4. UNCHANGED <<core, sock, relay, reader, out, sink>>
  BY DEF Work
<1>5. CASE /\ child' = [child EXCEPT ![r].pc = "event", ![r].step = @ + 1]
           /\ used' = [used EXCEPT !.done = @ \cup {<<r, core[r].act, child[r].step + 1>>}]
  <2>1. child[r].step + 1 \in 0..Steps /\ child[r].step + 1 \in 1..Steps
    BY <1>3, Numbers
  <2>2. child' \in [Runs -> ChildStates]
    BY <1>2, <1>5, <2>1 DEF ChildStates
  <2>3. /\ child'[r].pc = "event" /\ child'[r].step = child[r].step + 1
        /\ child'[r].left = child[r].left
    BY <1>2, <1>5 DEF ChildStates
  <2>4. used' \in UsedStates /\ used'.done = used.done \cup {<<r, core[r].act, child[r].step + 1>>}
    BY <1>2, <1>3, <1>5, <2>1 DEF UsedStates
  <2>5. Types'
    BY <1>1, <1>4, <2>2, <2>4 DEF Types
  <2>6. Alone(r)
    BY <1>2, <1>4, <1>5, <2>4 DEF Alone
  <2>7. Owned(r)'
    BY <1>3, <1>4, <2>1, <2>3 DEF Owned, Alive, Calling
  <2>8. Fits(r)'
    BY <1>1, <1>4, <2>3 DEF Fits
  <2>9. ASSUME core[r].pc = "poll", NEW s \in 1..child[r].step + 1
        PROVE  <<r, core[r].act, s>> \in used'.done
    <3>1. CASE s = child[r].step + 1
      BY <2>4, <3>1
    <3>2. CASE s # child[r].step + 1
      <4>1. s \in 1..child[r].step
        BY <1>3, <3>2
      <4>2. StepsDone(r, core[r].act, child[r].step)
        BY <1>1, <2>9 DEF Honest
      <4> QED BY <2>4, <4>1, <4>2 DEF StepsDone
    <3> QED BY <3>1, <3>2
  <2>10. core[r].pc = "poll" => StepsDone(r, core[r].act, child[r].step)'
    BY <1>4, <2>3, <2>9 DEF StepsDone
  <2>11. \A a \in 1..core[r].act - 1 : StepsDone(r, a, Steps)'
    BY <1>1, <2>4, DoneStays DEF Honest
  <2>12. Honest(r)'
    BY <1>1, <1>3, <1>4, <2>3, <2>10, <2>11 DEF Honest
  <2> QED BY <2>5, <2>6, <2>7, <2>8, <2>12, StepOf
<1>6. CASE /\ child' = [child EXCEPT ![r] = Killed(child[r])] \/ child' = [child EXCEPT ![r] = Hung(child[r])]
           /\ UNCHANGED used
  <2>1. child' \in [Runs -> ChildStates]
    <3>1. Killed(child[r]) \in ChildStates /\ Hung(child[r]) \in ChildStates
      BY <1>2 DEF ChildStates, Killed, Hung
    <3> QED BY <1>2, <1>6, <3>1
  <2>2. /\ child'[r].step = child[r].step /\ child'[r].left = child[r].left
        /\ \/ child'[r].pc = "hung"
           \/ child'[r].pc = "exited" /\ child'[r].answer = "none"
    <3>1. CASE child' = [child EXCEPT ![r] = Killed(child[r])]
      BY <1>2, <3>1 DEF ChildStates, Killed
    <3>2. CASE child' = [child EXCEPT ![r] = Hung(child[r])]
      BY <1>2, <3>2 DEF ChildStates, Hung
    <3> QED BY <1>6, <3>1, <3>2
  <2>3. Types'
    BY <1>1, <1>4, <1>6, <2>1 DEF Types
  <2>4. Alone(r)
    BY <1>2, <1>4, <1>6 DEF Alone
  <2>5. Owned(r)'
    BY <1>3, <1>4, <2>2 DEF Owned, Alive, Calling
  <2>6. Fits(r)'
    BY <1>1, <1>4, <2>2 DEF Fits
  <2>7. Honest(r)'
    BY <1>1, <1>3, <1>4, <1>6, <2>2 DEF Honest, StepsDone
  <2> QED BY <2>3, <2>4, <2>5, <2>6, <2>7, StepOf
<1> QED BY <1>5, <1>6 DEF Work

\* A progress event is sent, or the relay has left and the action fails.
LEMMA KeepsProgress == ASSUME CallInv, NEW r \in Runs, Progress(r) PROVE CallInv'
<1>1. Types /\ Owned(r) /\ Fits(r) /\ Honest(r)
  BY DEF CallInv
<1>2. /\ core \in [Runs -> CoreStates] /\ child \in [Runs -> ChildStates]
      /\ sock \in [Runs -> Seq(Events)]
  BY <1>1 DEF Types
<1>3. /\ child[r].pc = "event" /\ child[r].step \in 1..Steps
      /\ core[r].act \in 1..Actions /\ core[r].pc \in {"poll", "killed"}
  BY <1>1 DEF Progress, Owned, Alive
<1>4. UNCHANGED <<core, relay, reader, out, sink, used>>
  BY DEF Progress
<1>5. ASSUME child' = [child EXCEPT ![r] = NextStep(@)]
             \/ child' = [child EXCEPT ![r].pc = "answer", ![r].answer = "error"],
             sock' \in [Runs -> Seq(Events)], Len(sock'[r]) <= SockCap,
             \A q \in Runs \ {r} : sock'[q] = sock[q]
      PROVE  CallInv'
  <2>1. child' \in [Runs -> ChildStates]
    <3>1. CASE child' = [child EXCEPT ![r] = NextStep(@)]
      <4>1. NextStep(child[r]) \in ChildStates
        BY <1>2 DEF ChildStates, NextStep
      <4> QED BY <1>2, <3>1, <4>1
    <3>2. CASE child' = [child EXCEPT ![r].pc = "answer", ![r].answer = "error"]
      BY <1>2, <3>2, ZenonT(40) DEF ChildStates
    <3> QED BY <1>5, <3>1, <3>2
  <2>2. /\ child'[r].step = child[r].step /\ child'[r].left = child[r].left
        /\ child'[r].pc = "work" => child[r].step # Steps
        /\ child'[r].pc \in {"work", "answer"}
        /\ child'[r].pc = "answer" /\ child'[r].answer = "ok" => child[r].step = Steps
    BY <1>2, <1>5 DEF ChildStates, NextStep
  <2>3. Types'
    BY <1>1, <1>4, <1>5, <2>1 DEF Types
  <2>4. Alone(r)
    BY <1>2, <1>4, <1>5 DEF Alone
  <2>5. Owned(r)'
    BY <1>3, <1>4, <2>2, Numbers DEF Owned, Alive, Calling
  <2>6. Fits(r)'
    BY <1>1, <1>4, <1>5, <2>2 DEF Fits
  <2>7. Honest(r)'
    BY <1>1, <1>3, <1>4, <2>2 DEF Honest, StepsDone
  <2> QED BY <2>3, <2>4, <2>5, <2>6, <2>7, StepOf
<1>6. CASE UNCHANGED sock
  BY <1>1, <1>2, <1>5, <1>6 DEF Progress, Fits
<1>7. CASE Room(r) /\ Put(r, <<"progress", core[r].act, child[r].step>>)
           /\ child' = [child EXCEPT ![r] = NextStep(@)]
  BY <1>2, <1>3, <1>5, <1>7, LineSent, EventsOf
<1> QED BY <1>6, <1>7 DEF Progress

\* The response is written into the pipe, and the backend exits.
LEMMA KeepsAnswer == ASSUME CallInv, NEW r \in Runs, Answer(r) PROVE CallInv'
<1>1. Types /\ Owned(r) /\ Fits(r) /\ Honest(r)
  BY DEF CallInv
<1>2. /\ core \in [Runs -> CoreStates] /\ child \in [Runs -> ChildStates]
      /\ reader \in [Runs -> ReaderStates]
  BY <1>1 DEF Types
<1>3. /\ child[r].pc = "answer" /\ child[r].left \in 0..RespLen
      /\ reader[r].pipe \in 0..RespCap /\ reader[r].got \in 0..RespLen
      /\ core[r].act \in 1..Actions /\ core[r].pc \in {"poll", "killed"}
  BY <1>1, <1>2 DEF Answer, Owned, Alive, ChildStates, ReaderStates
<1>4. UNCHANGED <<core, sock, relay, out, sink, used>>
  BY DEF Answer
<1>5. ASSUME child' \in [Runs -> ChildStates], reader' \in [Runs -> ReaderStates],
             \A q \in Runs \ {r} : child'[q] = child[q] /\ reader'[q] = reader[q],
             child'[r].pc \in {"answer", "exited"}, child'[r].step = child[r].step,
             child'[r].answer = child[r].answer,
             reader'[r].got + reader'[r].pipe + child'[r].left <= RespLen
      PROVE  CallInv'
  <2>1. Types'
    BY <1>1, <1>4, <1>5 DEF Types
  <2>2. Alone(r)
    BY <1>4, <1>5 DEF Alone
  <2>3. Owned(r)'
    BY <1>3, <1>4, <1>5 DEF Owned, Alive, Calling
  <2>4. Fits(r)'
    BY <1>1, <1>4, <1>5 DEF Fits
  <2>5. Honest(r)'
    BY <1>1, <1>3, <1>4, <1>5 DEF Honest, StepsDone
  <2> QED BY <2>1, <2>2, <2>3, <2>4, <2>5, StepOf
<1>6. CASE child' = [child EXCEPT ![r].pc = "exited"] /\ UNCHANGED reader
  <2>1. child' \in [Runs -> ChildStates]
    BY <1>2, <1>6 DEF ChildStates
  <2>2. /\ child'[r].pc = "exited" /\ child'[r].step = child[r].step
        /\ child'[r].answer = child[r].answer /\ child'[r].left = child[r].left
    BY <1>2, <1>6 DEF ChildStates
  <2> QED BY <1>1, <1>2, <1>5, <1>6, <2>1, <2>2 DEF Fits
<1>7. CASE /\ child[r].left > 0 /\ reader[r].pipe < RespCap
           /\ child' = [child EXCEPT ![r].left = @ - 1]
           /\ reader' = [reader EXCEPT ![r].pipe = @ + 1]
  <2>1. child[r].left - 1 \in 0..RespLen /\ reader[r].pipe + 1 \in 0..RespCap
    BY <1>3, <1>7, Numbers
  <2>2. child' \in [Runs -> ChildStates] /\ reader' \in [Runs -> ReaderStates]
    BY <1>2, <1>7, <2>1 DEF ChildStates, ReaderStates
  <2>3. /\ child'[r].pc = "answer" /\ child'[r].step = child[r].step
        /\ child'[r].answer = child[r].answer /\ child'[r].left = child[r].left - 1
        /\ reader'[r].pipe = reader[r].pipe + 1 /\ reader'[r].got = reader[r].got
    BY <1>2, <1>3, <1>7 DEF ChildStates, ReaderStates
  <2>4. reader[r].got + reader[r].pipe + child[r].left <= RespLen
    BY <1>1 DEF Fits
  <2>5. reader'[r].got + reader'[r].pipe + child'[r].left <= RespLen
    BY <1>3, <2>3, <2>4, Numbers
  <2> QED BY <1>2, <1>5, <1>7, <2>2, <2>3, <2>5
<1> QED BY <1>6, <1>7 DEF Answer

\* Control-C counts as a signal and kills a live backend.
LEMMA KeepsControlC == ASSUME CallInv, NEW r \in Runs, ControlC(r) PROVE CallInv'
<1>1. Types /\ Owned(r) /\ Fits(r) /\ Honest(r)
  BY DEF CallInv
<1>2. core \in [Runs -> CoreStates] /\ child \in [Runs -> ChildStates] /\ used \in UsedStates
  BY <1>1 DEF Types
<1>3. UNCHANGED <<sock, relay, reader, out, sink>>
  BY DEF ControlC
<1>4. core' \in [Runs -> CoreStates]
  BY <1>2 DEF ControlC, CoreStates, Counted
<1>5. /\ core'[r].pc = core[r].pc /\ core'[r].act = core[r].act
      /\ core'[r].status = core[r].status
      /\ \A q \in Runs \ {r} : core'[q] = core[q]
  BY <1>2 DEF ControlC, CoreStates
<1>6. used' \in UsedStates /\ used'.done = used.done
  BY <1>2 DEF ControlC, UsedStates
<1>7. child' \in [Runs -> ChildStates]
  BY <1>2 DEF ControlC, ChildStates, Killed
<1>8. /\ child'[r].step = child[r].step /\ child'[r].left = child[r].left
      /\ \/ child'[r] = child[r]
         \/ Alive(r) /\ child'[r].pc = "exited" /\ child'[r].answer = "none"
      /\ \A q \in Runs \ {r} : child'[q] = child[q]
  BY <1>2 DEF ControlC, ChildStates, Killed
<1>9. Types'
  BY <1>1, <1>3, <1>4, <1>6, <1>7 DEF Types
<1>10. Alone(r)
  BY <1>3, <1>5, <1>6, <1>8 DEF Alone
<1>11. Owned(r)'
  BY <1>1, <1>5, <1>8 DEF Owned, Alive
<1>12. Fits(r)'
  BY <1>1, <1>3, <1>8 DEF Fits
<1>13. Honest(r)'
  BY <1>1, <1>5, <1>6, <1>8 DEF Honest, StepsDone
<1> QED BY <1>9, <1>10, <1>11, <1>12, <1>13, StepOf

-----------------------------------------------------------------------------
\* Every step keeps the invariant.
LEMMA NextInv == CallInv /\ [Next]_vars => CallInv'
<1> SUFFICES ASSUME CallInv, [Next]_vars PROVE CallInv'
  OBVIOUS
<1>1. ASSUME NEW r \in Runs, Main(r) PROVE CallInv'
  BY <1>1, KeepsLoopHead, KeepsEmitAction, KeepsSpawn, KeepsPoll, KeepsExpire, KeepsLate,
     KeepsDrain, KeepsEmitDone, KeepsFinish DEF Main
<1>2. ASSUME NEW r \in Runs, Read(r) \/ Relay(r) PROVE CallInv'
  BY <1>2, KeepsRead, KeepsRelayRead, KeepsRelayEnd, KeepsRelayWrite DEF Relay
<1>3. ASSUME NEW r \in Runs, Backend(r) PROVE CallInv'
  BY <1>3, KeepsWork, KeepsProgress, KeepsAnswer DEF Backend
<1>4. ASSUME NEW r \in Runs, Signal(r) \/ ControlC(r) \/ Death(r) \/ StartNext(r) PROVE CallInv'
  BY <1>4, KeepsSignal, KeepsControlC, KeepsDeath, KeepsStartNext
<1>5. CASE UNCHANGED vars
  BY <1>5 DEF CallInv, Types, Owned, Fits, Honest, StepsDone, Alive, vars
<1> QED BY <1>1, <1>2, <1>3, <1>4, <1>5, KeepsConsumer DEF Next

\* Every state satisfies the invariant.
THEOREM CallCorrect == Spec => []CallInv
  BY InitInv, NextInv, PTL DEF Spec

\* While the core does not wait for a backend, none of its backends runs
\* (call kills and waits for the child at its deadline, mod.rs).
THEOREM AlwaysReaped == Spec => []Reaped
<1>1. CallInv => Reaped
  <2> SUFFICES ASSUME CallInv PROVE Reaped
    OBVIOUS
  <2>1. Types /\ \A r \in Runs : Owned(r) /\ Fits(r)
    BY DEF CallInv
  <2>2. core \in [Runs -> CoreStates] /\ child \in [Runs -> ChildStates]
    BY <2>1 DEF Types
  <2>3. ASSUME NEW r \in Runs
        PROVE  /\ Len(sock[r]) <= SockCap /\ \A i \in 1..Len(sock[r]) : sock[r][i] \in Events
               /\ relay[r].pc \in {"read", "write", "ended", "failed", "dead"}
               /\ reader[r].pipe \in 0..RespCap /\ reader[r].got \in 0..RespLen
    <3>1. sock[r] \in Seq(Events) /\ relay[r] \in RelayStates /\ reader[r] \in ReaderStates
      BY <2>1 DEF Types
    <3>2. \A i \in 1..Len(sock[r]) : sock[r][i] \in Events
      BY <3>1, ElementOfSeq
    <3> QED BY <2>1, <3>1, <3>2 DEF Fits, RelayStates, ReaderStates
  <2>4. /\ sink.kind \in Outputs /\ sink.pipe \in 0..PipeCap /\ sink.state \in {"reading", "closed"}
        /\ used.done \subseteq Runs \X (1..Actions) \X (1..Steps)
    BY <2>1 DEF Types, SinkStates, UsedStates
  <2>5. TypeOK
    BY <2>2, <2>3, <2>4 DEF TypeOK, CoreStates, ChildStates, Calling
  <2> QED BY <2>1, <2>5 DEF Reaped, Owned
<1> QED BY <1>1, CallCorrect, PTL

\* A run that ends "ok" had every device step of every action done: no
\* response is taken from a backend that died or was cut short (call).
THEOREM OkIsDone == Spec => []OkMeansDone
<1>1. CallInv => OkMeansDone
  <2> SUFFICES ASSUME CallInv, NEW r \in Runs, core[r].status = "ok",
                      NEW a \in 1..Actions, NEW s \in 1..Steps
               PROVE  <<r, a, s>> \in used.done
    BY DEF OkMeansDone
  <2>1. core[r].act = Actions + 1 /\ \A b \in 1..core[r].act - 1 : StepsDone(r, b, Steps)
    BY DEF CallInv, Honest
  <2>2. a \in 1..core[r].act - 1
    BY <2>1, Numbers
  <2> QED BY <2>1, <2>2 DEF StepsDone
<1> QED BY <1>1, CallCorrect, PTL

-----------------------------------------------------------------------------
(* The events: what a run has written is on its way, in order, and is what  *)
(* its actions owe.                                                         *)

\* The lines of a run behind the relay, in its hand and before it.
InHand(r) == IF relay[r].pc = "write" THEN <<relay[r].line>> ELSE <<>>
Flow(r) == (out[r] \o InHand(r)) \o sock[r]

\* The lines of action a after n steps, and those a backend has written.
Begun(a, n) == <<<<"action", a>>>> \o [s \in 1..n |-> <<"progress", a, s>>]
Reported(r) == IF child[r].pc = "event" THEN child[r].step - 1 ELSE child[r].step

Watched(r) == /\ sink.kind # "none" /\ core[r].pc # "killed"
              /\ relay[r].pc \in {"read", "write", "ended"}

Streamed(r) ==
  Watched(r) =>
    /\ core[r].pc \in {"idle", "head", "emit"} => Flow(r) = Due[core[r].act - 1]
    /\ core[r].pc = "spawn" => Flow(r) = Due[core[r].act - 1] \o Begun(core[r].act, 0)
    /\ core[r].pc \in {"poll", "drain"} /\ child[r].answer = "ok" =>
         Flow(r) = Due[core[r].act - 1] \o Begun(core[r].act, Reported(r))
    /\ core[r].pc = "done-emit" => Flow(r) = Due[core[r].act - 1] \o Begun(core[r].act, Steps)
    /\ core[r].status = "ok" => Flow(r) = Due[Actions]

\* The relay is joined before a run ends, and its end is the end of the lines.
JoinedOK(r) ==
  /\ core[r].pc = "ended" /\ sink.kind # "none" =>
       /\ relay[r].pc \in {"ended", "failed"}
       /\ relay[r].pc = "failed" => core[r].status = "failed"
  /\ relay[r].pc = "ended" => sock[r] = <<>>
  /\ relay[r].pc = "write" => relay[r].line \in Events
  /\ core[r].status # "none" => core[r].pc \in {"finish", "ended", "killed"}
  /\ Due[core[r].act - 1] \in Seq(Events)

EventInv ==
  /\ out \in [Runs -> Seq(Events)]
  /\ \A r \in Runs : Streamed(r) /\ JoinedOK(r)

-----------------------------------------------------------------------------
\* The lines an action owes are Len = Steps + 2 lines, those of its steps
\* between the two of the core.
LineCount == Steps + 2

LEMMA OneLine ==
  ASSUME NEW S, NEW e \in S
  PROVE  <<e>> \in Seq(S) /\ Len(<<e>>) = 1 /\ <<e>>[1] = e
  OBVIOUS

LEMMA BegunLines ==
  ASSUME NEW a \in 1..Actions, NEW n \in 0..Steps
  PROVE  Begun(a, n) \in Seq(Events) /\ Len(Begun(a, n)) = n + 1
<1> DEFINE body == [s \in 1..n |-> <<"progress", a, s>>]
<1>1. n \in Nat /\ \A s \in 1..n : <<"progress", a, s>> \in Events
  BY EventsOf, Numbers
<1>2. body \in Seq(Events) /\ Len(body) = n
  BY <1>1
<1>3. <<<<"action", a>>>> \in Seq(Events) /\ Len(<<<<"action", a>>>>) = 1
  BY EventsOf, OneLine
<1> HIDE DEF body
<1>4. /\ <<<<"action", a>>>> \o body \in Seq(Events)
      /\ Len(<<<<"action", a>>>> \o body) = 1 + n
  BY <1>2, <1>3, ConcatProperties
<1> QED BY <1>1, <1>4 DEF Begun, body

LEMMA BegunStep ==
  ASSUME NEW a \in 1..Actions, NEW n \in 1..Steps
  PROVE  Begun(a, n) = Begun(a, n - 1) \o <<<<"progress", a, n>>>>
<1> DEFINE body(k) == [s \in 1..k |-> <<"progress", a, s>>]
           last == <<<<"progress", a, n>>>>
<1>1. n \in Nat /\ n - 1 \in Nat /\ \A s \in 1..n : <<"progress", a, s>> \in Events
  BY EventsOf, Numbers
<1>2. /\ body(n) \in Seq(Events) /\ Len(body(n)) = n
      /\ body(n - 1) \in Seq(Events) /\ Len(body(n - 1)) = n - 1
      /\ last \in Seq(Events) /\ Len(last) = 1 /\ last[1] = <<"progress", a, n>>
      /\ <<<<"action", a>>>> \in Seq(Events)
  <2>1. body(n) \in Seq(Events) /\ Len(body(n)) = n
    BY <1>1
  <2>2. body(n - 1) \in Seq(Events) /\ Len(body(n - 1)) = n - 1
    <3>1. \A s \in 1..n - 1 : <<"progress", a, s>> \in Events
      BY <1>1
    <3> QED BY <1>1, <3>1
  <2>3. last \in Seq(Events) /\ Len(last) = 1 /\ last[1] = <<"progress", a, n>>
    BY <1>1, EventsOf, OneLine
  <2> QED BY <2>1, <2>2, <2>3, EventsOf, OneLine
<1>3. \A i \in 1..n - 1 : body(n)[i] = body(n - 1)[i]
  BY <1>1
<1>4. body(n)[n] = <<"progress", a, n>>
  BY <1>1
<1> HIDE DEF body, last
<1>5. /\ body(n - 1) \o last \in Seq(Events) /\ Len(body(n - 1) \o last) = n
      /\ \A i \in 1..n : (body(n - 1) \o last)[i]
                          = IF i <= n - 1 THEN body(n - 1)[i] ELSE last[i - (n - 1)]
  <2>1. Len(body(n - 1)) + Len(last) = n
    BY <1>1, <1>2
  <2> QED BY <1>2, <2>1, ConcatProperties, SMTT(20)
<1>6. ASSUME NEW i \in 1..n PROVE body(n)[i] = (body(n - 1) \o last)[i]
  <2>1. CASE i = n
    <3>1. ~(i <= n - 1) /\ i - (n - 1) = 1
      BY <1>1, <2>1
    <3> QED BY <1>2, <1>4, <1>5, <2>1, <3>1
  <2>2. CASE i # n
    <3>1. i <= n - 1 /\ i \in 1..n - 1
      BY <1>1, <2>2
    <3> QED BY <1>3, <1>5, <3>1
  <2> QED BY <2>1, <2>2
<1>7. body(n) = body(n - 1) \o last
  BY <1>2, <1>5, <1>6, SeqEqual
<1>8. <<<<"action", a>>>> \o body(n) = (<<<<"action", a>>>> \o body(n - 1)) \o last
  BY <1>2, <1>7, ConcatAssociative
<1> QED BY <1>8 DEF Begun, body, last

LEMMA BegunNone == \A a : Begun(a, 0) = <<<<"action", a>>>>
<1> SUFFICES ASSUME NEW a PROVE Begun(a, 0) = <<<<"action", a>>>>
  OBVIOUS
<1>1. [s \in 1..0 |-> <<"progress", a, s>>] = <<>>
  OBVIOUS
<1> QED BY <1>1 DEF Begun

LEMMA OfActionLines ==
  ASSUME NEW a \in 1..Actions
  PROVE  /\ OfAction(a) = Begun(a, Steps) \o <<<<"action-done", a>>>>
         /\ OfAction(a) \in Seq(Events) /\ Len(OfAction(a)) = LineCount
<1>1. Begun(a, Steps) \in Seq(Events) /\ Len(Begun(a, Steps)) = Steps + 1
  BY BegunLines, Numbers
<1>2. <<<<"action-done", a>>>> \in Seq(Events) /\ Len(<<<<"action-done", a>>>>) = 1
  BY EventsOf, OneLine
<1>3. OfAction(a) = Begun(a, Steps) \o <<<<"action-done", a>>>>
  BY DEF OfAction, Begun
<1>4. /\ Begun(a, Steps) \o <<<<"action-done", a>>>> \in Seq(Events)
      /\ Len(Begun(a, Steps) \o <<<<"action-done", a>>>>) = Steps + 1 + 1
  BY <1>1, <1>2, ConcatProperties
<1> QED BY <1>3, <1>4, Numbers DEF LineCount

\* Every line has one place: its action and its place in it.
LEMMA OnePlace ==
  ASSUME NEW a \in 1..Actions, NEW b \in 1..Actions,
         NEW j \in 1..LineCount, NEW k \in 1..LineCount,
         (a - 1) * LineCount + j = (b - 1) * LineCount + k
  PROVE  a = b /\ j = k
<1>1. LineCount \in Nat /\ LineCount > 0 /\ Actions \in Nat
  BY Numbers DEF LineCount
<1>2. \A m, n \in 1..Actions : m < n => m * LineCount <= (n - 1) * LineCount
  BY <1>1
<1>3. \A m \in 1..Actions : m * LineCount = (m - 1) * LineCount + LineCount
  BY <1>1
<1>4. ~(a < b) /\ ~(b < a)
  BY <1>1, <1>2, <1>3
<1>5. a = b
  BY <1>1, <1>4
<1> QED BY <1>1, <1>5

\* The function Due is recursive; this one, written out, satisfies its
\* equation, so Due does too.
Line(i) == CHOOSE e : \E a \in 1..Actions, j \in 1..LineCount :
                        i = (a - 1) * LineCount + j /\ e = OfAction(a)[j]
Lines == [n \in 0..Actions |-> [i \in 1..n * LineCount |-> Line(i)]]

LEMMA LineAt ==
  ASSUME NEW a \in 1..Actions, NEW j \in 1..LineCount
  PROVE  Line((a - 1) * LineCount + j) = OfAction(a)[j]
<1> DEFINE P(e) == \E b \in 1..Actions, k \in 1..LineCount :
                     (a - 1) * LineCount + j = (b - 1) * LineCount + k /\ e = OfAction(b)[k]
<1>1. P(OfAction(a)[j])
  OBVIOUS
<1>2. \A e : P(e) => e = OfAction(a)[j]
  BY OnePlace
<1>3. (CHOOSE e : P(e)) = OfAction(a)[j]
  <2> HIDE DEF P
  <2> QED BY <1>1, <1>2
<1> QED BY <1>3 DEF Line

\* Every number of a line is a place.
LEMMA PlaceOf ==
  ASSUME NEW n \in 0..Actions, NEW i \in 1..n * LineCount
  PROVE  \E a \in 1..Actions, j \in 1..LineCount : i = (a - 1) * LineCount + j
<1>1. LineCount \in Nat /\ LineCount > 0 /\ n \in Nat /\ n * LineCount \in Nat
  BY Numbers DEF LineCount
<1> DEFINE d == (i - 1) \div LineCount
           m == (i - 1) % LineCount
<1>2. /\ d \in Int /\ m \in 0..LineCount - 1
      /\ i - 1 = LineCount * d + m
  BY <1>1
<1> HIDE DEF d, m
<1>3. d >= 0
  <2>1. d < 0 => LineCount * d <= -LineCount
    BY <1>1, <1>2
  <2> QED BY <1>1, <1>2, <2>1
<1>4. d < n
  <2>1. d >= n => LineCount * d >= n * LineCount
    BY <1>1, <1>2
  <2> QED BY <1>1, <1>2, <2>1
<1>5. d + 1 \in 1..Actions /\ m + 1 \in 1..LineCount
  BY <1>1, <1>2, <1>3, <1>4, Numbers
<1>6. i = ((d + 1) - 1) * LineCount + (m + 1)
  <2>1. (d + 1) - 1 = d /\ d * LineCount = LineCount * d
    BY <1>1, <1>2
  <2> QED BY <1>1, <1>2, <2>1
<1> QED BY <1>5, <1>6


LEMMA LinesOf ==
  ASSUME NEW n \in 0..Actions
  PROVE  /\ Lines[n] \in Seq(Events) /\ Len(Lines[n]) = n * LineCount
         /\ \A i \in 1..n * LineCount : Lines[n][i] = Line(i)
<1>1. LineCount \in Nat /\ LineCount > 0 /\ n \in Nat /\ n * LineCount \in Nat
  BY Numbers DEF LineCount
<1>2. ASSUME NEW i \in 1..n * LineCount PROVE Line(i) \in Events
  <2>1. PICK a \in 1..Actions, j \in 1..LineCount : i = (a - 1) * LineCount + j
    BY PlaceOf
  <2>2. OfAction(a)[j] \in Events
    BY OfActionLines, ElementOfSeq
  <2> QED BY <2>1, <2>2, LineAt
<1>3. Lines[n] = [i \in 1..n * LineCount |-> Line(i)]
  BY DEF Lines
<1> DEFINE N == n * LineCount
<1>4. N \in Nat /\ \A i \in 1..N : Line(i) \in Events
  BY <1>1, <1>2
<1> HIDE DEF N
<1>5. ASSUME NEW f, f = [i \in 1..N |-> Line(i)]
      PROVE  f \in Seq(Events) /\ Len(f) = N /\ \A i \in 1..N : f[i] = Line(i)
  <2>1. f \in [1..N -> Events]
    BY <1>4, <1>5
  <2>2. f \in Seq(Events) /\ Len(f) = N
    BY <2>1, <1>4
  <2> QED BY <1>5, <2>2
<1> QED BY <1>3, <1>5 DEF N


LEMMA LinesStep ==
  ASSUME NEW n \in 1..Actions
  PROVE  Lines[n] = Lines[n - 1] \o OfAction(n)
<1>1. /\ LineCount \in Nat /\ LineCount > 0 /\ n \in 0..Actions /\ n - 1 \in 0..Actions
      /\ (n - 1) * LineCount \in Nat /\ n * LineCount = (n - 1) * LineCount + LineCount
  BY Numbers DEF LineCount
<1> DEFINE k == (n - 1) * LineCount
<1>2. /\ Lines[n] \in Seq(Events) /\ Len(Lines[n]) = k + LineCount
      /\ \A i \in 1..k + LineCount : Lines[n][i] = Line(i)
  BY <1>1, LinesOf
<1>3. /\ Lines[n - 1] \in Seq(Events) /\ Len(Lines[n - 1]) = k
      /\ \A i \in 1..k : Lines[n - 1][i] = Line(i)
  BY <1>1, LinesOf
<1>4. OfAction(n) \in Seq(Events) /\ Len(OfAction(n)) = LineCount
  BY OfActionLines
<1>5. \A j \in 1..LineCount : Line(k + j) = OfAction(n)[j]
  BY LineAt
<1>6. k \in Nat
  BY <1>1
<1> HIDE DEF k
<1>7. /\ Lines[n - 1] \o OfAction(n) \in Seq(Events)
      /\ Len(Lines[n - 1] \o OfAction(n)) = k + LineCount
      /\ \A i \in 1..k + LineCount :
           (Lines[n - 1] \o OfAction(n))[i]
             = IF i <= k THEN Lines[n - 1][i] ELSE OfAction(n)[i - k]
  BY <1>3, <1>4, ConcatProperties
<1>8. ASSUME NEW i \in 1..k + LineCount
      PROVE  Lines[n][i] = (Lines[n - 1] \o OfAction(n))[i]
  <2>1. CASE i <= k
    BY <1>2, <1>3, <1>6, <1>7, <2>1
  <2>2. CASE i > k
    <3>1. i - k \in 1..LineCount /\ k + (i - k) = i
      BY <1>1, <1>6, <2>2
    <3> QED BY <1>2, <1>5, <1>6, <1>7, <2>2, <3>1
  <2>3. LineCount \in Nat
    BY <1>1
  <2>4. i <= k \/ i > k
    BY <1>6, <2>3
  <2> QED BY <2>1, <2>2, <2>4
<1> QED BY <1>2, <1>7, <1>8, SeqEqual

LEMMA DueStep ==
  /\ Due[0] = <<>>
  /\ \A n \in 1..Actions : Due[n] = Due[n - 1] \o OfAction(n)
<1> DEFINE Owed(d) == d = [n \in 0..Actions |-> IF n = 0 THEN <<>> ELSE d[n - 1] \o OfAction(n)]
<1>1. Owed(Lines)
  <2>1. Lines[0] = <<>>
    <3>1. 0 \in 0..Actions /\ 0 * LineCount = 0
      BY Numbers DEF LineCount
    <3>2. Len(Lines[0]) = 0 /\ Lines[0] \in Seq(Events)
      BY <3>1, LinesOf
    <3> QED BY <3>2, EmptySeq
  <2>2. \A n \in 0..Actions : Lines[n] = IF n = 0 THEN <<>> ELSE Lines[n - 1] \o OfAction(n)
    <3>1. ASSUME NEW n \in 0..Actions, n # 0 PROVE n \in 1..Actions
      BY <3>1, Numbers
    <3> QED BY <2>1, <3>1, LinesStep
  <2>3. Lines = [n \in 0..Actions |-> Lines[n]]
    BY DEF Lines
  <2> QED BY <2>2, <2>3
<1>2. Owed(Due)
  <2>1. Due = CHOOSE d : Owed(d)
    BY DEF Due
  <2> HIDE DEF Owed
  <2> QED BY <1>1, <2>1
<1>3. \A n \in 0..Actions : Due[n] = IF n = 0 THEN <<>> ELSE Due[n - 1] \o OfAction(n)
  BY <1>2
<1>4. 0 \in 0..Actions /\ \A n \in 1..Actions : n \in 0..Actions /\ n # 0
  BY Numbers
<1> HIDE DEF Owed
<1> QED BY <1>3, <1>4

-----------------------------------------------------------------------------
(* What the steps make of the lines of a run. *)

\* Lines are put together in any grouping.
LEMMA Grouping == \A s, t, u \in Seq(Events) : (s \o t) \o u = s \o (t \o u)
  BY ConcatAssociative

\* The lines on their way are lines.
LEMMA FlowParts ==
  ASSUME Types, out \in [Runs -> Seq(Events)], NEW r \in Runs, JoinedOK(r)
  PROVE  /\ out[r] \in Seq(Events) /\ sock[r] \in Seq(Events) /\ InHand(r) \in Seq(Events)
         /\ out[r] \o InHand(r) \in Seq(Events) /\ Flow(r) \in Seq(Events)
<1>1. out[r] \in Seq(Events) /\ sock[r] \in Seq(Events)
  BY DEF Types
<1>2. InHand(r) \in Seq(Events)
  BY OneLine, EmptySeq DEF InHand, JoinedOK
<1>3. out[r] \o InHand(r) \in Seq(Events)
  BY <1>1, <1>2, ConcatProperties
<1> QED BY <1>1, <1>2, <1>3, ConcatProperties DEF Flow

\* A line that is put into the socket is the last one on its way.
LEMMA FlowPut ==
  ASSUME Types, out \in [Runs -> Seq(Events)], NEW r \in Runs, JoinedOK(r), NEW e \in Events,
         Put(r, e), UNCHANGED <<out, relay>>
  PROVE  Flow(r)' = Flow(r) \o <<e>>
<1>1. /\ out[r] \o InHand(r) \in Seq(Events) /\ sock[r] \in Seq(Events)
      /\ <<e>> \in Seq(Events)
  BY FlowParts, OneLine
<1>2. sock'[r] = sock[r] \o <<e>>
  <2>1. sock'[r] = Append(sock[r], e)
    BY DEF Put, Types
  <2> QED BY <1>1, <2>1, AppendIsConcat
<1>3. Flow(r)' = (out[r] \o InHand(r)) \o (sock[r] \o <<e>>)
  BY <1>2 DEF Flow, InHand
<1> DEFINE before == out[r] \o InHand(r)
<1>4. before \o (sock[r] \o <<e>>) = (before \o sock[r]) \o <<e>>
  <2>1. before \in Seq(Events)
    BY <1>1
  <2> HIDE DEF before
  <2> QED BY <1>1, <2>1, Grouping
<1>5. Flow(r) = before \o sock[r]
  BY DEF Flow
<1> QED BY <1>3, <1>4, <1>5

\* The relay takes the first line in hand, and writes it.
LEMMA FlowRead ==
  ASSUME Types, out \in [Runs -> Seq(Events)], NEW r \in Runs, JoinedOK(r), RelayRead(r)
  PROVE  Flow(r)' = Flow(r)
<1>1. out[r] \in Seq(Events) /\ sock[r] \in Seq(Events) /\ sock[r] # <<>>
  BY FlowParts DEF RelayRead
<1> DEFINE first == sock[r][1]
<1>2. /\ first \in Events /\ Tail(sock[r]) \in Seq(Events)
      /\ sock[r] = <<first>> \o Tail(sock[r])
  <2>1. /\ Head(sock[r]) = first /\ first \in Events /\ Tail(sock[r]) \in Seq(Events)
        /\ Len(Tail(sock[r])) = Len(sock[r]) - 1
        /\ \A i \in 1..Len(Tail(sock[r])) : Tail(sock[r])[i] = sock[r][i + 1]
    BY <1>1, HeadTailProperties
  <2>2. Len(sock[r]) \in Nat
    BY <1>1, LenProperties
  <2>3. <<first>> \in Seq(Events) /\ Len(<<first>>) = 1 /\ <<first>>[1] = first
    BY <2>1, OneLine
  <2> DEFINE both == <<first>> \o Tail(sock[r])
  <2>4. /\ both \in Seq(Events) /\ Len(both) = 1 + (Len(sock[r]) - 1)
        /\ \A i \in 1..1 + (Len(sock[r]) - 1) :
             both[i] = IF i <= 1 THEN <<first>>[i] ELSE Tail(sock[r])[i - 1]
    BY <2>1, <2>3, ConcatProperties
  <2> HIDE DEF both
  <2>5. \A i \in 1..Len(sock[r]) : sock[r][i] = both[i]
    BY <2>1, <2>2, <2>3, <2>4
  <2>6. Len(both) = Len(sock[r]) /\ both \in Seq(Events)
    BY <2>2, <2>4
  <2>7. sock[r] = both
    BY <1>1, <2>5, <2>6, SeqEqual
  <2> QED BY <2>1, <2>7 DEF both
<1>3. relay'[r].pc = "write" /\ relay'[r].line = first /\ sock'[r] = Tail(sock[r])
  BY DEF RelayRead, Types
<1>4. Flow(r)' = (out[r] \o <<first>>) \o Tail(sock[r])
  BY <1>3 DEF Flow, InHand, RelayRead
<1>5. Flow(r) = (out[r] \o <<>>) \o sock[r]
  BY DEF Flow, InHand, RelayRead
<1>6. out[r] \o <<>> = out[r]
  BY <1>1, ConcatEmptySeq
<1>7. (out[r] \o <<first>>) \o Tail(sock[r]) = out[r] \o (<<first>> \o Tail(sock[r]))
  <2>1. <<first>> \in Seq(Events)
    BY <1>2, OneLine
  <2> HIDE DEF first
  <2> QED BY <1>1, <1>2, <2>1, Grouping
<1> HIDE DEF first
<1> QED BY <1>2, <1>4, <1>5, <1>6, <1>7

LEMMA FlowWritten ==
  ASSUME Types, out \in [Runs -> Seq(Events)], NEW r \in Runs, JoinedOK(r),
         relay[r].pc = "write", relay' = [relay EXCEPT ![r].pc = "read"],
         out' = [out EXCEPT ![r] = Append(@, relay[r].line)], sock' = sock
  PROVE  Flow(r)' = Flow(r)
<1>1. out[r] \in Seq(Events) /\ relay[r].line \in Events
  BY FlowParts DEF JoinedOK
<1>2. out'[r] = out[r] \o <<relay[r].line>>
  <2>1. out'[r] = Append(out[r], relay[r].line)
    OBVIOUS
  <2> QED BY <1>1, <2>1, AppendIsConcat
<1>3. out'[r] \in Seq(Events)
  BY <1>1, <1>2, OneLine, ConcatProperties
<1>4. relay'[r].pc = "read"
  BY DEF Types, RelayStates
<1>5. Flow(r)' = (out'[r] \o <<>>) \o sock[r]
  BY <1>4 DEF Flow, InHand
<1>6. out'[r] \o <<>> = out'[r]
  BY <1>3, ConcatEmptySeq
<1>7. Flow(r) = (out[r] \o <<relay[r].line>>) \o sock[r]
  BY DEF Flow, InHand
<1> QED BY <1>2, <1>5, <1>6, <1>7

-----------------------------------------------------------------------------
(* The steps keep the invariant of the events. *)

LEMMA InitEvents == Init => EventInv
<1> SUFFICES ASSUME Init PROVE EventInv
  OBVIOUS
<1>1. out \in [Runs -> Seq(Events)]
  BY EmptySeq DEF Init
<1>2. ASSUME NEW r \in Runs PROVE Streamed(r) /\ JoinedOK(r)
  <2>1. /\ core[r].pc \in {"head", "idle"} /\ core[r].act = 1 /\ core[r].status = "none"
        /\ relay[r].pc = "read" /\ out[r] = <<>> /\ sock[r] = <<>>
    BY DEF Init
  <2>2. Flow(r) = <<>>
    <3>1. <<>> \o <<>> = <<>>
      BY EmptySeq, ConcatEmptySeq
    <3> QED BY <2>1, <3>1 DEF Flow, InHand
  <2>3. Due[core[r].act - 1] = <<>>
    BY <2>1, DueStep
  <2>4. Streamed(r)
    BY <2>1, <2>2, <2>3 DEF Streamed
  <2>5. JoinedOK(r)
    BY <2>1, <2>3, EmptySeq DEF JoinedOK
  <2> QED BY <2>4, <2>5
<1> QED BY <1>1, <1>2 DEF EventInv

\* A step of process r keeps the invariant if it keeps its own part of it.
Apart(r) ==
  /\ sink'.kind = sink.kind
  /\ \A q \in Runs \ {r} : /\ core'[q] = core[q] /\ child'[q] = child[q] /\ out'[q] = out[q]
                            /\ sock'[q] = sock[q] /\ relay'[q] = relay[q]

LEMMA EventStepOf ==
  ASSUME EventInv, NEW r \in Runs, Apart(r), out' \in [Runs -> Seq(Events)],
         Streamed(r)', JoinedOK(r)'
  PROVE  EventInv'
<1>1. ASSUME NEW q \in Runs PROVE Streamed(q)' /\ JoinedOK(q)'
  <2>1. CASE q = r
    BY <2>1
  <2>2. CASE q # r
    <3>1. Streamed(q) /\ JoinedOK(q)
      BY DEF EventInv
    <3>2. /\ sink'.kind = sink.kind /\ core'[q] = core[q] /\ child'[q] = child[q]
          /\ out'[q] = out[q] /\ sock'[q] = sock[q] /\ relay'[q] = relay[q]
      BY <2>2 DEF Apart
    <3>3. Flow(q)' = Flow(q)
      BY <3>2 DEF Flow, InHand
    <3>4. Streamed(q)'
      BY <3>1, <3>2, <3>3 DEF Streamed, Watched, Reported
    <3> QED BY <3>1, <3>2, <3>4 DEF JoinedOK
  <2> QED BY <2>1, <2>2
<1> QED BY <1>1 DEF EventInv

\* A step that leaves the lines alone leaves them.
LEMMA FlowKept ==
  ASSUME NEW r \in Runs, UNCHANGED <<sock, relay, out>>
  PROVE  Flow(r)' = Flow(r)
  BY DEF Flow, InHand

\* The core begins an action, or ends.
LEMMA EventsLoopHead == ASSUME CallInv, EventInv, NEW r \in Runs, LoopHead(r) PROVE EventInv'
<1>1. /\ Types /\ Owned(r) /\ Honest(r) /\ Streamed(r) /\ JoinedOK(r)
      /\ out \in [Runs -> Seq(Events)]
  BY DEF CallInv, EventInv
<1>2. /\ core \in [Runs -> CoreStates] /\ child \in [Runs -> ChildStates]
      /\ sink \in SinkStates
  BY <1>1 DEF Types
<1>3. /\ core'[r].act = core[r].act /\ core'[r].pc \in {"emit", "finish"}
      /\ core'[r].status \in {core[r].status, "ok", "interrupted"}
      /\ core'[r].pc = "emit" => core'[r].status = core[r].status
      /\ core'[r].status = "ok" /\ core'[r].status # core[r].status => core[r].act - 1 = Actions
  BY <1>1, <1>2, Numbers DEF LoopHead, Goto, Ends, CoreStates
<1>4. UNCHANGED <<sock, relay, out>> /\ sink'.kind = sink.kind
  BY <1>2 DEF LoopHead, SinkStates
<1>5. Flow(r)' = Flow(r)
  BY <1>4, FlowKept
<1>6. Streamed(r)'
  BY <1>1, <1>2, <1>3, <1>4, <1>5 DEF Streamed, Watched, Reported, LoopHead, At, Alive, ChildStates
<1>7. JoinedOK(r)'
  BY <1>1, <1>3, <1>4 DEF JoinedOK, LoopHead, At
<1>8. Apart(r)
  BY <1>2, <1>4 DEF Apart, LoopHead, Goto, Ends
<1> QED BY <1>1, <1>4, <1>6, <1>7, <1>8, EventStepOf

\* The backend starts.
LEMMA EventsSpawn == ASSUME CallInv, EventInv, NEW r \in Runs, Spawn(r) PROVE EventInv'
<1>1. /\ Types /\ Owned(r) /\ Honest(r) /\ Streamed(r) /\ JoinedOK(r)
      /\ out \in [Runs -> Seq(Events)]
  BY DEF CallInv, EventInv
<1>2. /\ core \in [Runs -> CoreStates] /\ child \in [Runs -> ChildStates]
      /\ sink \in SinkStates
  BY <1>1 DEF Types
<1>3. /\ core'[r].act = core[r].act /\ core'[r].pc = "poll" /\ core'[r].status = core[r].status
      /\ child'[r].pc = "work" /\ child'[r].step = 0
  BY <1>2 DEF Spawn, Goto, CoreStates, ChildStates
<1>4. UNCHANGED <<sock, relay, out>> /\ sink'.kind = sink.kind
  BY <1>2 DEF Spawn, SinkStates
<1>5. Flow(r)' = Flow(r)
  BY <1>4, FlowKept
<1>6. Streamed(r)'
  BY <1>1, <1>2, <1>3, <1>4, <1>5 DEF Streamed, Watched, Reported, Spawn, At, Alive, ChildStates
<1>7. JoinedOK(r)'
  BY <1>1, <1>3, <1>4 DEF JoinedOK, Spawn, At
<1>8. Apart(r)
  BY <1>2, <1>4 DEF Apart, Spawn, Goto, Ends
<1> QED BY <1>1, <1>4, <1>6, <1>7, <1>8, EventStepOf

\* The core learns that the backend is gone.
LEMMA EventsPoll == ASSUME CallInv, EventInv, NEW r \in Runs, Poll(r) PROVE EventInv'
<1>1. /\ Types /\ Owned(r) /\ Honest(r) /\ Streamed(r) /\ JoinedOK(r)
      /\ out \in [Runs -> Seq(Events)]
  BY DEF CallInv, EventInv
<1>2. /\ core \in [Runs -> CoreStates] /\ child \in [Runs -> ChildStates]
      /\ sink \in SinkStates
  BY <1>1 DEF Types
<1>3. /\ core'[r].act = core[r].act /\ core'[r].pc = "drain" /\ core'[r].status = core[r].status
  BY <1>2 DEF Poll, Goto, CoreStates
<1>4. UNCHANGED <<sock, relay, out>> /\ sink'.kind = sink.kind
  BY <1>2 DEF Poll, SinkStates
<1>5. Flow(r)' = Flow(r)
  BY <1>4, FlowKept
<1>6. Streamed(r)'
  BY <1>1, <1>2, <1>3, <1>4, <1>5 DEF Streamed, Watched, Reported, Poll, At, Alive, ChildStates
<1>7. JoinedOK(r)'
  BY <1>1, <1>3, <1>4 DEF JoinedOK, Poll, At
<1>8. Apart(r)
  BY <1>2, <1>4 DEF Apart, Poll, Goto, Ends
<1> QED BY <1>1, <1>4, <1>6, <1>7, <1>8, EventStepOf

\* The deadline passes.
LEMMA EventsExpire == ASSUME CallInv, EventInv, NEW r \in Runs, Expire(r) PROVE EventInv'
<1>1. /\ Types /\ Owned(r) /\ Honest(r) /\ Streamed(r) /\ JoinedOK(r)
      /\ out \in [Runs -> Seq(Events)]
  BY DEF CallInv, EventInv
<1>2. /\ core \in [Runs -> CoreStates] /\ child \in [Runs -> ChildStates]
      /\ sink \in SinkStates
  BY <1>1 DEF Types
<1>3. /\ core'[r].act = core[r].act /\ core'[r].pc = "late" /\ core'[r].status = core[r].status
  BY <1>2 DEF Expire, Goto, CoreStates
<1>4. UNCHANGED <<sock, relay, out>> /\ sink'.kind = sink.kind
  BY <1>2 DEF Expire, SinkStates
<1>5. Flow(r)' = Flow(r)
  BY <1>4, FlowKept
<1>6. Streamed(r)'
  BY <1>1, <1>2, <1>3, <1>4, <1>5 DEF Streamed, Watched, Reported, Expire, At, Alive, ChildStates
<1>7. JoinedOK(r)'
  BY <1>1, <1>3, <1>4 DEF JoinedOK, Expire, At
<1>8. Apart(r)
  BY <1>2, <1>4 DEF Apart, Expire, Goto, Ends
<1> QED BY <1>1, <1>4, <1>6, <1>7, <1>8, EventStepOf

\* The call that was late is over.
LEMMA EventsLate == ASSUME CallInv, EventInv, NEW r \in Runs, Late(r) PROVE EventInv'
<1>1. /\ Types /\ Owned(r) /\ Honest(r) /\ Streamed(r) /\ JoinedOK(r)
      /\ out \in [Runs -> Seq(Events)]
  BY DEF CallInv, EventInv
<1>2. /\ core \in [Runs -> CoreStates] /\ child \in [Runs -> ChildStates]
      /\ sink \in SinkStates
  BY <1>1 DEF Types
<1>3. /\ core'[r].act = core[r].act /\ core'[r].pc = "finish" /\ core'[r].status = "interrupted"
  BY <1>2 DEF Late, Ends, CoreStates
<1>4. UNCHANGED <<sock, relay, out>> /\ sink'.kind = sink.kind
  BY <1>2 DEF Late, SinkStates
<1>5. Flow(r)' = Flow(r)
  BY <1>4, FlowKept
<1>6. Streamed(r)'
  BY <1>1, <1>2, <1>3, <1>4, <1>5 DEF Streamed, Watched, Reported, Late, At, Alive, ChildStates
<1>7. JoinedOK(r)'
  BY <1>1, <1>3, <1>4 DEF JoinedOK, Late, At
<1>8. Apart(r)
  BY <1>2, <1>4 DEF Apart, Late, Goto, Ends
<1> QED BY <1>1, <1>4, <1>6, <1>7, <1>8, EventStepOf

\* The relay is joined and the run is over.
LEMMA EventsFinish == ASSUME CallInv, EventInv, NEW r \in Runs, Finish(r) PROVE EventInv'
<1>1. /\ Types /\ Owned(r) /\ Honest(r) /\ Streamed(r) /\ JoinedOK(r)
      /\ out \in [Runs -> Seq(Events)]
  BY DEF CallInv, EventInv
<1>2. /\ core \in [Runs -> CoreStates] /\ child \in [Runs -> ChildStates]
      /\ sink \in SinkStates
  BY <1>1 DEF Types
<1>3. /\ core'[r].act = core[r].act /\ core'[r].pc = "ended" /\ core[r].pc = "finish"
      /\ core'[r].status \in {core[r].status, "failed"}
      /\ relay[r].pc = "failed" => core'[r].status = "failed"
      /\ sink.kind # "none" => relay[r].pc \in {"ended", "failed"}
  BY <1>2 DEF Finish, At, Joined, Verdict, CoreStates
<1>4. UNCHANGED <<sock, relay, out>> /\ sink'.kind = sink.kind
  BY <1>2 DEF Finish, SinkStates
<1>5. Flow(r)' = Flow(r)
  BY <1>4, FlowKept
<1>6. Streamed(r)'
  BY <1>1, <1>2, <1>3, <1>4, <1>5 DEF Streamed, Watched, Reported
<1>7. JoinedOK(r)'
  BY <1>1, <1>3, <1>4 DEF JoinedOK
<1>8. Apart(r)
  BY <1>2, <1>4 DEF Apart, Finish, Goto, Ends
<1> QED BY <1>1, <1>4, <1>6, <1>7, <1>8, EventStepOf

\* The reader takes from the pipe.
LEMMA EventsRead == ASSUME CallInv, EventInv, NEW r \in Runs, Read(r) PROVE EventInv'
<1>1. /\ Types /\ Owned(r) /\ Honest(r) /\ Streamed(r) /\ JoinedOK(r)
      /\ out \in [Runs -> Seq(Events)]
  BY DEF CallInv, EventInv
<1>2. /\ core \in [Runs -> CoreStates] /\ child \in [Runs -> ChildStates]
      /\ sink \in SinkStates
  BY <1>1 DEF Types
<1>3. /\ core' = core /\ child' = child
  BY DEF Read
<1>4. UNCHANGED <<sock, relay, out>> /\ sink'.kind = sink.kind
  BY <1>2 DEF Read, SinkStates
<1>5. Flow(r)' = Flow(r)
  BY <1>4, FlowKept
<1>6. Streamed(r)'
  BY <1>1, <1>2, <1>3, <1>4, <1>5 DEF Streamed, Watched, Reported, Read, At, Alive, ChildStates
<1>7. JoinedOK(r)'
  BY <1>1, <1>3, <1>4 DEF JoinedOK, Read, At
<1>8. Apart(r)
  BY <1>2, <1>4 DEF Apart, Read, Goto, Ends
<1> QED BY <1>1, <1>4, <1>6, <1>7, <1>8, EventStepOf

\* A signal is counted.
LEMMA EventsSignal == ASSUME CallInv, EventInv, NEW r \in Runs, Signal(r) PROVE EventInv'
<1>1. /\ Types /\ Owned(r) /\ Honest(r) /\ Streamed(r) /\ JoinedOK(r)
      /\ out \in [Runs -> Seq(Events)]
  BY DEF CallInv, EventInv
<1>2. /\ core \in [Runs -> CoreStates] /\ child \in [Runs -> ChildStates]
      /\ sink \in SinkStates
  BY <1>1 DEF Types
<1>3. /\ core'[r].act = core[r].act /\ core'[r].pc = core[r].pc /\ core'[r].status = core[r].status
  BY <1>2 DEF Signal, CoreStates
<1>4. UNCHANGED <<sock, relay, out>> /\ sink'.kind = sink.kind
  BY <1>2 DEF Signal, SinkStates
<1>5. Flow(r)' = Flow(r)
  BY <1>4, FlowKept
<1>6. Streamed(r)'
  BY <1>1, <1>2, <1>3, <1>4, <1>5 DEF Streamed, Watched, Reported, Signal, At, Alive, ChildStates
<1>7. JoinedOK(r)'
  BY <1>1, <1>3, <1>4 DEF JoinedOK, Signal, At
<1>8. Apart(r)
  BY <1>2, <1>4 DEF Apart, Signal, Goto, Ends
<1> QED BY <1>1, <1>4, <1>6, <1>7, <1>8, EventStepOf

\* The next process starts.
LEMMA EventsStartNext == ASSUME CallInv, EventInv, NEW r \in Runs, StartNext(r) PROVE EventInv'
<1>1. /\ Types /\ Owned(r) /\ Honest(r) /\ Streamed(r) /\ JoinedOK(r)
      /\ out \in [Runs -> Seq(Events)]
  BY DEF CallInv, EventInv
<1>2. /\ core \in [Runs -> CoreStates] /\ child \in [Runs -> ChildStates]
      /\ sink \in SinkStates
  BY <1>1 DEF Types
<1>3. /\ core'[r].act = core[r].act /\ core[r].pc = "idle" /\ core'[r].pc = "head"
      /\ core'[r].status = core[r].status
  BY <1>2 DEF StartNext, Goto, At, CoreStates
<1>4. UNCHANGED <<sock, relay, out>> /\ sink'.kind = sink.kind
  BY <1>2 DEF StartNext, SinkStates
<1>5. Flow(r)' = Flow(r)
  BY <1>4, FlowKept
<1>6. Streamed(r)'
  BY <1>1, <1>2, <1>3, <1>4, <1>5 DEF Streamed, Watched, Reported, StartNext, At, Alive, ChildStates
<1>7. JoinedOK(r)'
  BY <1>1, <1>3, <1>4 DEF JoinedOK, StartNext, At
<1>8. Apart(r)
  BY <1>2, <1>4 DEF Apart, StartNext, Goto, Ends
<1> QED BY <1>1, <1>4, <1>6, <1>7, <1>8, EventStepOf

\* Control-C kills a live backend.
LEMMA EventsControlC == ASSUME CallInv, EventInv, NEW r \in Runs, ControlC(r) PROVE EventInv'
<1>1. /\ Types /\ Owned(r) /\ Honest(r) /\ Streamed(r) /\ JoinedOK(r)
      /\ out \in [Runs -> Seq(Events)]
  BY DEF CallInv, EventInv
<1>2. /\ core \in [Runs -> CoreStates] /\ child \in [Runs -> ChildStates]
      /\ sink \in SinkStates
  BY <1>1 DEF Types
<1>3. /\ core'[r].act = core[r].act /\ core'[r].pc = core[r].pc /\ core'[r].status = core[r].status
      /\ child'[r] = child[r] \/ child'[r].answer = "none"
  BY <1>2 DEF ControlC, Killed, CoreStates, ChildStates
<1>4. UNCHANGED <<sock, relay, out>> /\ sink'.kind = sink.kind
  BY <1>2 DEF ControlC, SinkStates
<1>5. Flow(r)' = Flow(r)
  BY <1>4, FlowKept
<1>6. Streamed(r)'
  BY <1>1, <1>2, <1>3, <1>4, <1>5, ZenonT(40) DEF Streamed, Watched, Reported, ControlC, At, Alive, ChildStates
<1>7. JoinedOK(r)'
  BY <1>1, <1>3, <1>4 DEF JoinedOK, ControlC, At
<1>8. Apart(r)
  BY <1>2, <1>4 DEF Apart, ControlC, Goto, Ends
<1> QED BY <1>1, <1>4, <1>6, <1>7, <1>8, EventStepOf

\* A device step is done, or the backend panics or hangs.
LEMMA EventsWork == ASSUME CallInv, EventInv, NEW r \in Runs, Work(r) PROVE EventInv'
<1>1. /\ Types /\ Owned(r) /\ Honest(r) /\ Streamed(r) /\ JoinedOK(r)
      /\ out \in [Runs -> Seq(Events)]
  BY DEF CallInv, EventInv
<1>2. /\ core \in [Runs -> CoreStates] /\ child \in [Runs -> ChildStates]
      /\ sink \in SinkStates
  BY <1>1 DEF Types
<1>3. /\ core' = core /\ child[r].pc = "work"
      /\ \/ child'[r].pc = "event" /\ child'[r].step = child[r].step + 1
         \/ child'[r].pc = "hung" /\ child'[r].step = child[r].step
         \/ child'[r].answer = "none"
  <2>1. CASE child' = [child EXCEPT ![r].pc = "event", ![r].step = @ + 1]
    BY <1>2, <2>1 DEF Work, ChildStates
  <2>2. CASE child' = [child EXCEPT ![r] = Killed(child[r])]
    BY <1>2, <2>2 DEF Work, Killed, ChildStates
  <2>3. CASE child' = [child EXCEPT ![r] = Hung(child[r])]
    BY <1>2, <2>3 DEF Work, Hung, ChildStates
  <2> QED BY <2>1, <2>2, <2>3 DEF Work
<1>4. UNCHANGED <<sock, relay, out>> /\ sink'.kind = sink.kind
  BY <1>2 DEF Work, SinkStates
<1>5. Flow(r)' = Flow(r)
  BY <1>4, FlowKept
<1>6. Streamed(r)'
  <2>1. child[r].step \in 0..Steps
    BY <1>2 DEF ChildStates
  <2>2. child'[r].answer = "ok" => child[r].answer = "ok" /\ Reported(r)' = Reported(r)
    <3>1. child'[r].answer = "ok" => child[r].answer = "ok"
      BY <1>2, ZenonT(40) DEF Work, Killed, Hung, ChildStates
    <3> QED BY <1>3, <2>1, <3>1, Numbers DEF Reported
  <2> QED BY <1>1, <1>3, <1>4, <1>5, <2>2 DEF Streamed, Watched
<1>7. JoinedOK(r)'
  BY <1>1, <1>3, <1>4 DEF JoinedOK, Work, At
<1>8. Apart(r)
  BY <1>2, <1>4 DEF Apart, Work, Goto, Ends
<1> QED BY <1>1, <1>4, <1>6, <1>7, <1>8, EventStepOf

\* The backend answers.
LEMMA EventsAnswer == ASSUME CallInv, EventInv, NEW r \in Runs, Answer(r) PROVE EventInv'
<1>1. /\ Types /\ Owned(r) /\ Honest(r) /\ Streamed(r) /\ JoinedOK(r)
      /\ out \in [Runs -> Seq(Events)]
  BY DEF CallInv, EventInv
<1>2. /\ core \in [Runs -> CoreStates] /\ child \in [Runs -> ChildStates]
      /\ sink \in SinkStates
  BY <1>1 DEF Types
<1>3. /\ core' = core /\ child[r].pc = "answer" /\ child'[r].pc \in {"answer", "exited"}
      /\ child'[r].step = child[r].step /\ child'[r].answer = child[r].answer
  BY <1>2 DEF Answer, ChildStates
<1>4. UNCHANGED <<sock, relay, out>> /\ sink'.kind = sink.kind
  BY <1>2 DEF Answer, SinkStates
<1>5. Flow(r)' = Flow(r)
  BY <1>4, FlowKept
<1>6. Streamed(r)'
  BY <1>1, <1>2, <1>3, <1>4, <1>5 DEF Streamed, Watched, Reported, Answer, At, Alive, ChildStates
<1>7. JoinedOK(r)'
  BY <1>1, <1>3, <1>4 DEF JoinedOK, Answer, At
<1>8. Apart(r)
  BY <1>2, <1>4 DEF Apart, Answer, Goto, Ends
<1> QED BY <1>1, <1>4, <1>6, <1>7, <1>8, EventStepOf

\* The backend that is gone has answered, or it has not.
LEMMA EventsDrain == ASSUME CallInv, EventInv, NEW r \in Runs, Drain(r) PROVE EventInv'
<1>1. /\ Types /\ Owned(r) /\ Honest(r) /\ Streamed(r) /\ JoinedOK(r)
      /\ out \in [Runs -> Seq(Events)]
  BY DEF CallInv, EventInv
<1>2. /\ core \in [Runs -> CoreStates] /\ child \in [Runs -> ChildStates]
      /\ sock \in [Runs -> Seq(Events)] /\ relay \in [Runs -> RelayStates] /\ sink \in SinkStates
  BY <1>1 DEF Types
<1>3. /\ core'[r].act = core[r].act /\ core[r].pc = "drain"
      /\ \/ core'[r].pc = "done-emit" /\ core'[r].status = core[r].status /\ child[r].answer = "ok"
         \/ core'[r].pc = "finish" /\ core'[r].status = "failed"
  BY <1>2 DEF Drain, Goto, Ends, Answered, At, CoreStates
<1>4. UNCHANGED <<sock, relay, out, child, sink>>
  BY DEF Drain
<1>5. Flow(r)' = Flow(r)
  BY <1>4, FlowKept
<1>6. child[r].answer = "ok" => Reported(r) = Steps
  <2>1. child[r].pc \in {"none", "exited"}
    BY <1>1, <1>2, <1>3 DEF Owned, Alive, ChildStates
  <2> QED BY <1>1, <1>3, <2>1 DEF Honest, Reported
<1>7. Streamed(r)'
  BY <1>1, <1>3, <1>4, <1>5, <1>6 DEF Streamed, Watched, JoinedOK
<1>8. JoinedOK(r)'
  BY <1>1, <1>3, <1>4 DEF JoinedOK
<1>9. Apart(r)
  BY <1>2, <1>4 DEF Apart, Drain, Goto, Ends
<1> QED BY <1>1, <1>4, <1>7, <1>8, <1>9, EventStepOf

\* Of a run that is dead nothing is promised.
LEMMA EventsDies ==
  ASSUME CallInv, EventInv, NEW r \in Runs, Dies(r), child' = child, sink'.kind = sink.kind
  PROVE  EventInv'
<1>1. /\ Types /\ Owned(r) /\ Honest(r) /\ Streamed(r) /\ JoinedOK(r)
      /\ out \in [Runs -> Seq(Events)]
  BY DEF CallInv, EventInv
<1>2. /\ core \in [Runs -> CoreStates] /\ child \in [Runs -> ChildStates]
      /\ sock \in [Runs -> Seq(Events)] /\ relay \in [Runs -> RelayStates] /\ sink \in SinkStates
  BY <1>1 DEF Types
<1>3. /\ core'[r].act = core[r].act /\ core'[r].pc = "killed" /\ core'[r].status = core[r].status
      /\ relay'[r].pc = "dead"
  BY <1>2 DEF Dies, CoreStates
<1>4. out' \in [Runs -> Seq(Events)]
  BY <1>1, EmptySeq DEF Dies
<1>5. Streamed(r)'
  BY <1>3 DEF Streamed, Watched
<1>6. JoinedOK(r)'
  BY <1>1, <1>3 DEF JoinedOK
<1>7. Apart(r)
  BY <1>1, <1>2 DEF Apart, Dies
<1> QED BY <1>4, <1>5, <1>6, <1>7, EventStepOf

LEMMA EventsDeath == ASSUME CallInv, EventInv, NEW r \in Runs, Death(r) PROVE EventInv'
  BY EventsDies DEF Death

\* The core announces an action: its first line.
LEMMA EventsEmitAction == ASSUME CallInv, EventInv, NEW r \in Runs, EmitAction(r) PROVE EventInv'
<1>1. /\ Types /\ Owned(r) /\ Honest(r) /\ Streamed(r) /\ JoinedOK(r)
      /\ out \in [Runs -> Seq(Events)]
  BY DEF CallInv, EventInv
<1>2. /\ core \in [Runs -> CoreStates] /\ child \in [Runs -> ChildStates]
      /\ sock \in [Runs -> Seq(Events)] /\ relay \in [Runs -> RelayStates] /\ sink \in SinkStates
  BY <1>1 DEF Types
<1> DEFINE e == <<"action", core[r].act>>
<1>3. core[r].pc = "emit" /\ core[r].act \in 1..Actions /\ UNCHANGED <<child, sink>>
  BY <1>1 DEF Owned, Calling, EmitAction, At
<1>4. ASSUME Goto(r, "spawn"), UNCHANGED <<relay, out>>,
             \A q \in Runs \ {r} : sock'[q] = sock[q],
             relay[r].pc = "ended" => sock'[r] = sock[r],
             Watched(r) => Flow(r)' = Flow(r) \o <<e>>
      PROVE  EventInv'
  <2>1. /\ core'[r].act = core[r].act /\ core'[r].pc = "spawn"
        /\ core'[r].status = core[r].status
    BY <1>2, <1>4 DEF Goto, CoreStates
  <2>2. Watched(r) => Flow(r) = Due[core[r].act - 1]
    BY <1>1, <1>3 DEF Streamed
  <2>3. Watched(r)' <=> Watched(r)
    BY <1>3, <1>4, <2>1 DEF Watched
  <2>4. core[r].status = "none"
    BY <1>1, <1>2, <1>3 DEF JoinedOK, CoreStates
  <2>5. Watched(r) => Flow(r)' = Due[core[r].act - 1] \o Begun(core[r].act, 0)
    BY <1>4, <2>2, BegunNone
  <2>6. Streamed(r)'
    BY <2>1, <2>3, <2>4, <2>5 DEF Streamed
  <2>7. JoinedOK(r)'
    BY <1>1, <1>4, <2>1, <2>4 DEF JoinedOK
  <2>8. Apart(r)
    BY <1>2, <1>3, <1>4 DEF Apart, Goto
  <2> QED BY <1>1, <1>4, <2>6, <2>7, <2>8, EventStepOf
<1>5. CASE sink.kind = "none" /\ Goto(r, "spawn") /\ UNCHANGED <<sock, relay, reader, out>>
  BY <1>4, <1>5 DEF Watched
<1>6. CASE Room(r) /\ Put(r, e) /\ Goto(r, "spawn") /\ UNCHANGED <<relay, reader, out>>
  <2>1. e \in Events
    BY <1>3, EventsOf
  <2>2. Flow(r)' = Flow(r) \o <<e>>
    <3> HIDE DEF e
    <3> QED BY <1>1, <1>6, <2>1, FlowPut
  <2>3. relay[r].pc # "ended"
    BY <1>6 DEF Room, Listening
  <2>4. \A q \in Runs \ {r} : sock'[q] = sock[q]
    BY <1>2, <1>6 DEF Put
  <2> QED BY <1>4, <1>6, <2>2, <2>3, <2>4
<1>7. CASE Dies(r)
  BY <1>3, <1>7, EventsDies
<1> QED BY <1>5, <1>6, <1>7 DEF EmitAction, Emit

\* The core announces the end of an action: its last line.
LEMMA EventsEmitDone == ASSUME CallInv, EventInv, NEW r \in Runs, EmitDone(r) PROVE EventInv'
<1> DEFINE Onward == core' = [core EXCEPT ![r].pc = "head", ![r].act = @ + 1]
           e == <<"action-done", core[r].act>>
<1>1. /\ Types /\ Owned(r) /\ Honest(r) /\ Streamed(r) /\ JoinedOK(r)
      /\ out \in [Runs -> Seq(Events)]
  BY DEF CallInv, EventInv
<1>2. /\ core \in [Runs -> CoreStates] /\ child \in [Runs -> ChildStates]
      /\ sock \in [Runs -> Seq(Events)] /\ relay \in [Runs -> RelayStates] /\ sink \in SinkStates
  BY <1>1 DEF Types
<1>3. /\ core[r].pc = "done-emit" /\ core[r].act \in 1..Actions /\ UNCHANGED <<child, sink>>
  BY <1>1 DEF Owned, Calling, EmitDone, At
<1>4. ASSUME Onward, UNCHANGED <<relay, out>>,
             \A q \in Runs \ {r} : sock'[q] = sock[q],
             relay[r].pc = "ended" => sock'[r] = sock[r],
             Watched(r) => Flow(r)' = Flow(r) \o <<e>>
      PROVE  EventInv'
  <2>1. /\ core'[r].act = core[r].act + 1 /\ core'[r].pc = "head"
        /\ core'[r].status = core[r].status
    BY <1>2, <1>4 DEF CoreStates
  <2>2. Watched(r) => Flow(r) = Due[core[r].act - 1] \o Begun(core[r].act, Steps)
    BY <1>1, <1>3 DEF Streamed
  <2>3. Watched(r)' <=> Watched(r)
    BY <1>3, <1>4, <2>1 DEF Watched
  <2>4. core[r].status = "none"
    BY <1>1, <1>2, <1>3 DEF JoinedOK, CoreStates
  <2>5. /\ Due[core[r].act] = (Due[core[r].act - 1] \o Begun(core[r].act, Steps)) \o <<e>>
        /\ Due[core[r].act] \in Seq(Events)
    <3>1. Due[core[r].act] = Due[core[r].act - 1] \o OfAction(core[r].act)
      BY <1>3, DueStep
    <3>2. /\ OfAction(core[r].act) = Begun(core[r].act, Steps) \o <<e>>
          /\ OfAction(core[r].act) \in Seq(Events)
      BY <1>3, OfActionLines
    <3>3. /\ Due[core[r].act - 1] \in Seq(Events) /\ Begun(core[r].act, Steps) \in Seq(Events)
          /\ <<e>> \in Seq(Events)
      <4>1. Due[core[r].act - 1] \in Seq(Events)
        BY <1>1 DEF JoinedOK
      <4>2. Begun(core[r].act, Steps) \in Seq(Events)
        BY <1>3, BegunLines, Numbers
      <4>3. <<e>> \in Seq(Events)
        BY <1>3, EventsOf, OneLine
      <4> QED BY <4>1, <4>2, <4>3
    <3> HIDE DEF e
    <3>4. Due[core[r].act - 1] \o OfAction(core[r].act) \in Seq(Events)
      BY <3>2, <3>3, ConcatProperties
    <3>5. (Due[core[r].act - 1] \o Begun(core[r].act, Steps)) \o <<e>>
            = Due[core[r].act - 1] \o (Begun(core[r].act, Steps) \o <<e>>)
      BY <3>3, Grouping
    <3> QED BY <3>1, <3>2, <3>4, <3>5
  <2>6. core'[r].act - 1 = core[r].act
    BY <1>3, <2>1
  <2>7. Watched(r) => Flow(r)' = Due[core'[r].act - 1]
    BY <1>4, <2>2, <2>5, <2>6
  <2>8. Streamed(r)'
    BY <2>1, <2>3, <2>4, <2>7 DEF Streamed
  <2>9. JoinedOK(r)'
    BY <1>1, <1>4, <2>1, <2>4, <2>5, <2>6 DEF JoinedOK
  <2>10. Apart(r)
    BY <1>2, <1>3, <1>4 DEF Apart
  <2> QED BY <1>1, <1>4, <2>8, <2>9, <2>10, EventStepOf
<1>5. CASE sink.kind = "none" /\ Onward /\ UNCHANGED <<sock, relay, reader, out>>
  BY <1>4, <1>5 DEF Watched
<1>6. CASE Room(r) /\ Put(r, e) /\ Onward /\ UNCHANGED <<relay, reader, out>>
  <2>1. e \in Events
    BY <1>3, EventsOf
  <2>2. Flow(r)' = Flow(r) \o <<e>>
    <3> HIDE DEF e
    <3> QED BY <1>1, <1>6, <2>1, FlowPut
  <2>3. relay[r].pc # "ended"
    BY <1>6 DEF Room, Listening
  <2>4. \A q \in Runs \ {r} : sock'[q] = sock[q]
    BY <1>2, <1>6 DEF Put
  <2> QED BY <1>4, <1>6, <2>2, <2>3, <2>4
<1>7. CASE Dies(r)
  BY <1>3, <1>7, EventsDies
<1> QED BY <1>5, <1>6, <1>7 DEF EmitDone, Emit

\* The backend reports a step, or fails the action because it cannot.
LEMMA EventsProgress == ASSUME CallInv, EventInv, NEW r \in Runs, Progress(r) PROVE EventInv'
<1> DEFINE e == <<"progress", core[r].act, child[r].step>>
<1>1. /\ Types /\ Owned(r) /\ Honest(r) /\ Streamed(r) /\ JoinedOK(r)
      /\ out \in [Runs -> Seq(Events)]
  BY DEF CallInv, EventInv
<1>2. /\ core \in [Runs -> CoreStates] /\ child \in [Runs -> ChildStates]
      /\ sock \in [Runs -> Seq(Events)] /\ relay \in [Runs -> RelayStates] /\ sink \in SinkStates
  BY <1>1 DEF Types
<1>3. /\ child[r].pc = "event" /\ core[r].pc \in {"poll", "killed"} /\ core[r].act \in 1..Actions
      /\ child[r].step \in 1..Steps /\ UNCHANGED <<core, relay, out, sink>>
  BY <1>1 DEF Progress, Owned, Alive
<1>4. ASSUME /\ child'[r].answer = "error" /\ sock'[r] = sock[r]
             \/ /\ child'[r].answer = child[r].answer /\ child'[r].step = child[r].step
                /\ child'[r].pc \in {"work", "answer"}
                /\ relay[r].pc = "ended" => sock'[r] = sock[r]
                /\ Watched(r) => Flow(r)' = Flow(r) \o <<e>>,
             \A q \in Runs \ {r} : sock'[q] = sock[q] /\ child'[q] = child[q]
      PROVE  EventInv'
  <2>1. Watched(r)' <=> Watched(r)
    BY <1>3 DEF Watched
  <2>2. core[r].status = "none" \/ core[r].pc = "killed"
    BY <1>1, <1>2, <1>3 DEF JoinedOK, CoreStates
  <2>3. Watched(r) /\ child[r].answer = "ok" =>
          Flow(r) = Due[core[r].act - 1] \o Begun(core[r].act, child[r].step - 1)
    BY <1>1, <1>3 DEF Streamed, Reported, Watched
  <2>4. Watched(r) /\ child'[r].answer = "ok" =>
          Flow(r)' = Due[core[r].act - 1] \o Begun(core[r].act, child[r].step)
    <3>1. /\ Begun(core[r].act, child[r].step) = Begun(core[r].act, child[r].step - 1) \o <<e>>
          /\ <<e>> \in Seq(Events)
      BY <1>3, BegunStep, EventsOf, OneLine
    <3>2. Begun(core[r].act, child[r].step - 1) \in Seq(Events)
      BY <1>3, BegunLines, Numbers, SMTT(20)
    <3>3. Due[core[r].act - 1] \in Seq(Events)
      BY <1>1 DEF JoinedOK
    <3> HIDE DEF e
    <3> QED BY <1>4, <2>3, <3>1, <3>2, <3>3, Grouping, ZenonT(40)
  <2>5. child'[r].answer = "ok" => Reported(r)' = child[r].step
    BY <1>4 DEF Reported
  <2>6. Streamed(r)'
    BY <1>3, <2>1, <2>2, <2>4, <2>5 DEF Streamed, Watched
  <2>7. JoinedOK(r)'
    BY <1>1, <1>3, <1>4 DEF JoinedOK
  <2>8. Apart(r)
    BY <1>3, <1>4 DEF Apart
  <2> QED BY <1>1, <1>3, <2>6, <2>7, <2>8, EventStepOf
<1>5. ASSUME child' = [child EXCEPT ![r] = NextStep(@)]
      PROVE  /\ child'[r].answer = child[r].answer /\ child'[r].step = child[r].step
             /\ child'[r].pc \in {"work", "answer"}
             /\ \A q \in Runs \ {r} : child'[q] = child[q]
  BY <1>2, <1>5 DEF NextStep, ChildStates
<1>6. CASE sink.kind = "none" /\ child' = [child EXCEPT ![r] = NextStep(@)] /\ UNCHANGED sock
  BY <1>4, <1>5, <1>6 DEF Watched
<1>7. CASE Room(r) /\ Put(r, e) /\ child' = [child EXCEPT ![r] = NextStep(@)]
  <2>1. e \in Events
    BY <1>3, EventsOf
  <2>2. Flow(r)' = Flow(r) \o <<e>>
    <3> HIDE DEF e
    <3> QED BY <1>1, <1>3, <1>7, <2>1, FlowPut
  <2>3. relay[r].pc # "ended"
    BY <1>7 DEF Room, Listening
  <2>4. \A q \in Runs \ {r} : sock'[q] = sock[q]
    BY <1>2, <1>7 DEF Put
  <2> QED BY <1>4, <1>5, <1>7, <2>2, <2>3, <2>4
<1>8. CASE child' = [child EXCEPT ![r].pc = "answer", ![r].answer = "error"] /\ UNCHANGED sock
  <2>1. child'[r].answer = "error" /\ \A q \in Runs \ {r} : child'[q] = child[q]
    BY <1>2, <1>8 DEF ChildStates
  <2> QED BY <1>4, <1>8, <2>1
<1> QED BY <1>6, <1>7, <1>8 DEF Progress

\* The relay takes a line, or learns that there is none left.
LEMMA EventsRelayRead == ASSUME CallInv, EventInv, NEW r \in Runs, RelayRead(r) PROVE EventInv'
<1>1. /\ Types /\ Owned(r) /\ Honest(r) /\ Streamed(r) /\ JoinedOK(r)
      /\ out \in [Runs -> Seq(Events)]
  BY DEF CallInv, EventInv
<1>2. /\ core \in [Runs -> CoreStates] /\ child \in [Runs -> ChildStates]
      /\ sock \in [Runs -> Seq(Events)] /\ relay \in [Runs -> RelayStates] /\ sink \in SinkStates
  BY <1>1 DEF Types
<1>3. /\ relay[r].pc = "read" /\ relay'[r].pc = "write" /\ relay'[r].line \in Events
      /\ UNCHANGED <<core, child, out, sink>>
  <2>1. sock[r][1] \in Events
    <3>1. sock[r] \in Seq(Events) /\ sock[r] # <<>>
      BY <1>2 DEF RelayRead
    <3> QED BY <3>1, HeadTailProperties
  <2> QED BY <1>2, <2>1 DEF RelayRead, RelayStates
<1>4. Flow(r)' = Flow(r)
  BY <1>1, FlowRead
<1>5. Streamed(r)'
  BY <1>1, <1>3, <1>4 DEF Streamed, Watched, Reported
<1>6. JoinedOK(r)'
  BY <1>1, <1>3 DEF JoinedOK
<1>7. Apart(r)
  BY <1>2 DEF Apart, RelayRead
<1> QED BY <1>1, <1>3, <1>5, <1>6, <1>7, EventStepOf

LEMMA EventsRelayEnd == ASSUME CallInv, EventInv, NEW r \in Runs, RelayEnd(r) PROVE EventInv'
<1>1. /\ Types /\ Owned(r) /\ Honest(r) /\ Streamed(r) /\ JoinedOK(r)
      /\ out \in [Runs -> Seq(Events)]
  BY DEF CallInv, EventInv
<1>2. /\ core \in [Runs -> CoreStates] /\ child \in [Runs -> ChildStates]
      /\ sock \in [Runs -> Seq(Events)] /\ relay \in [Runs -> RelayStates] /\ sink \in SinkStates
  BY <1>1 DEF Types
<1>3. /\ relay[r].pc = "read" /\ relay'[r].pc = "ended" /\ sock[r] = <<>>
      /\ UNCHANGED <<core, child, out, sock, sink>>
  BY <1>2 DEF RelayEnd, RelayStates
<1>4. Flow(r)' = Flow(r)
  BY <1>3 DEF Flow, InHand
<1>5. Streamed(r)'
  BY <1>1, <1>3, <1>4 DEF Streamed, Watched, Reported
<1>6. JoinedOK(r)'
  BY <1>1, <1>3 DEF JoinedOK
<1>7. Apart(r)
  BY <1>2 DEF Apart, RelayEnd
<1> QED BY <1>1, <1>3, <1>5, <1>6, <1>7, EventStepOf

\* The relay writes its line, fails, or dies with its process.
LEMMA EventsRelayWrite == ASSUME CallInv, EventInv, NEW r \in Runs, RelayWrite(r) PROVE EventInv'
<1>1. /\ Types /\ Owned(r) /\ Honest(r) /\ Streamed(r) /\ JoinedOK(r)
      /\ out \in [Runs -> Seq(Events)]
  BY DEF CallInv, EventInv
<1>2. /\ core \in [Runs -> CoreStates] /\ child \in [Runs -> ChildStates]
      /\ sock \in [Runs -> Seq(Events)] /\ relay \in [Runs -> RelayStates] /\ sink \in SinkStates
  BY <1>1 DEF Types
<1>3. relay[r].pc = "write" /\ child' = child
  BY DEF RelayWrite
<1>4. CASE /\ out' = [out EXCEPT ![r] = Append(@, relay[r].line)]
           /\ sink' = IF sink.kind = "pipe" THEN [sink EXCEPT !.pipe = @ + 1] ELSE sink
           /\ relay' = [relay EXCEPT ![r].pc = "read"]
           /\ UNCHANGED <<core, sock, reader>>
  <2>1. relay'[r].pc = "read" /\ sink'.kind = sink.kind
    BY <1>2, <1>4 DEF RelayStates, SinkStates
  <2>2. Flow(r)' = Flow(r)
    BY <1>1, <1>3, <1>4, FlowWritten
  <2>3. out' \in [Runs -> Seq(Events)]
    <3>1. relay[r].line \in Events /\ out[r] \in Seq(Events)
      BY <1>1, <1>3 DEF JoinedOK
    <3>2. Append(out[r], relay[r].line) \in Seq(Events)
      BY <3>1, AppendProperties
    <3> QED BY <1>1, <1>4, <3>2
  <2>4. Streamed(r)'
    BY <1>1, <1>3, <1>4, <2>1, <2>2 DEF Streamed, Watched, Reported
  <2>5. JoinedOK(r)'
    BY <1>1, <1>3, <1>4, <2>1 DEF JoinedOK
  <2>6. Apart(r)
    BY <1>1, <1>2, <1>3, <1>4, <2>1 DEF Apart
  <2> QED BY <2>3, <2>4, <2>5, <2>6, EventStepOf
<1>5. CASE relay' = [relay EXCEPT ![r].pc = "failed"] /\ UNCHANGED <<core, sock, reader, out, sink>>
  <2>1. relay'[r].pc = "failed"
    BY <1>2, <1>5 DEF RelayStates
  <2>2. Streamed(r)'
    BY <2>1 DEF Streamed, Watched
  <2>3. JoinedOK(r)'
    BY <1>1, <1>3, <1>5, <2>1 DEF JoinedOK
  <2>4. Apart(r)
    BY <1>2, <1>3, <1>5 DEF Apart
  <2> QED BY <1>1, <1>5, <2>2, <2>3, <2>4, EventStepOf
<1>6. CASE Dies(r) /\ UNCHANGED sink
  BY <1>3, <1>6, EventsDies
<1> QED BY <1>4, <1>5, <1>6 DEF RelayWrite

\* The consumer changes no line.
LEMMA EventsConsumer == ASSUME CallInv, EventInv, Consume \/ Leave PROVE EventInv'
<1>1. sink'.kind = sink.kind
  BY DEF CallInv, Types, Consume, Leave, SinkStates
<1>2. UNCHANGED <<core, child, sock, relay, out>>
  BY DEF Consume, Leave
<1>3. ASSUME NEW q \in Runs PROVE Streamed(q)' /\ JoinedOK(q)'
  BY <1>1, <1>2 DEF EventInv, Streamed, JoinedOK, Watched, Flow, InHand, Reported
<1> QED BY <1>2, <1>3 DEF EventInv

LEMMA NextEvents == CallInv /\ EventInv /\ [Next]_vars => EventInv'
<1> SUFFICES ASSUME CallInv, EventInv, [Next]_vars PROVE EventInv'
  OBVIOUS
<1>1. ASSUME NEW r \in Runs, Main(r) PROVE EventInv'
  BY <1>1, EventsLoopHead, EventsEmitAction, EventsSpawn, EventsPoll, EventsExpire, EventsLate,
     EventsDrain, EventsEmitDone, EventsFinish DEF Main
<1>2. ASSUME NEW r \in Runs, Read(r) \/ Relay(r) PROVE EventInv'
  BY <1>2, EventsRead, EventsRelayRead, EventsRelayEnd, EventsRelayWrite DEF Relay
<1>3. ASSUME NEW r \in Runs, Backend(r) PROVE EventInv'
  BY <1>3, EventsWork, EventsProgress, EventsAnswer DEF Backend
<1>4. ASSUME NEW r \in Runs, Signal(r) \/ ControlC(r) \/ Death(r) \/ StartNext(r) PROVE EventInv'
  BY <1>4, EventsSignal, EventsControlC, EventsDeath, EventsStartNext
<1>5. CASE UNCHANGED vars
  <2>1. UNCHANGED <<core, child, sock, relay, out, sink>>
    BY <1>5 DEF vars
  <2>2. ASSUME NEW q \in Runs PROVE Streamed(q)' /\ JoinedOK(q)'
    BY <2>1 DEF EventInv, Streamed, JoinedOK, Watched, Flow, InHand, Reported
  <2> QED BY <2>1, <2>2 DEF EventInv
<1> QED BY <1>1, <1>2, <1>3, <1>4, <1>5, EventsConsumer DEF Next

\* A run that ends "ok" has delivered every event of every action, those of
\* the backend between the two of the core, in order and each once, and a
\* relay that failed fails its run (EventRelay), however slow the consumer
\* and whatever dies.
THEOREM EventsArrive == Spec => []NoEventLost
<1>1. CallInv /\ EventInv => NoEventLost
  <2> SUFFICES ASSUME CallInv, EventInv, NEW r \in Runs, At(r, "ended"), sink.kind # "none"
               PROVE  /\ core[r].status = "ok" => out[r] = Due[Actions]
                      /\ relay[r].pc = "failed" => core[r].status = "failed"
    BY DEF NoEventLost
  <2>1. Streamed(r) /\ JoinedOK(r) /\ Types /\ out \in [Runs -> Seq(Events)]
    BY DEF CallInv, EventInv
  <2>2. /\ relay[r].pc \in {"ended", "failed"}
        /\ relay[r].pc = "failed" => core[r].status = "failed"
        /\ relay[r].pc = "ended" => sock[r] = <<>>
    BY <2>1 DEF JoinedOK, At
  <2>3. ASSUME core[r].status = "ok" PROVE out[r] = Due[Actions]
    <3>1. relay[r].pc = "ended" /\ sock[r] = <<>>
      BY <2>2, <2>3
    <3>2. Flow(r) = Due[Actions]
      BY <2>1, <2>3, <3>1 DEF Streamed, Watched, At
    <3>3. out[r] \o <<>> = out[r]
      BY <2>1, ConcatEmptySeq
    <3> QED BY <3>1, <3>2, <3>3 DEF Flow, InHand
  <2> QED BY <2>2, <2>3
<1>2. Spec => []EventInv
  BY InitEvents, NextEvents, CallCorrect, PTL DEF Spec
<1> QED BY <1>1, <1>2, CallCorrect, PTL

=============================================================================
