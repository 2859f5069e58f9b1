---------------------------- MODULE BackendCall ----------------------------
(***************************************************************************)
(* One nclr process and the backends it starts, one per action: the main   *)
(* thread, which polls the child and its deadline; the thread that reads   *)
(* the child's response; the relay thread, which copies the event lines of *)
(* core and backend to the --events-fd; the backend itself, and whoever    *)
(* reads the events.  Signals reach the process, or, typed at a terminal,  *)
(* its whole group.                                                        *)
(*                                                                         *)
(* A process may die at any time.  A later one, which the device lock lets *)
(* in as soon as the first is gone, is the next member of Runs.            *)
(***************************************************************************)
EXTENDS Integers, Sequences, FiniteSets

CONSTANTS
  MaxRun,    \* number of nclr processes, one after the other
  Actions,   \* actions of the plan
  Steps,     \* device steps of an action, each reported by one event
  SockCap,   \* event lines the socket pair holds
  PipeCap,   \* event lines the consumer's pipe holds
  RespLen,   \* length of a response
  RespCap,   \* capacity of the stdout pipe, in the same unit
  Deadlines, \* may a process have a --backend-timeout, may it have none?
  Outputs,   \* kinds of --events-fd
  MaxDeaths, \* deaths of an nclr process by SIGKILL
  MaxSignals \* signals, to nclr alone or, typed at the terminal, to its group

ASSUME BackendCallAssumption ==
  /\ {MaxRun, Actions, Steps, SockCap, PipeCap, RespLen, RespCap} \subseteq Nat \ {0}
  /\ {MaxDeaths, MaxSignals} \subseteq Nat
  /\ Deadlines \subseteq BOOLEAN
  /\ Outputs \subseteq {"none", "pipe", "file"}

VARIABLES core, child, sock, relay, reader, out, sink, used

vars == <<core, child, sock, relay, reader, out, sink, used>>

Runs == 1..MaxRun
Over == {"ended", "killed"}
Events == {<<"action", a>> : a \in 1..Actions}
          \cup {<<"progress", a, s>> : a \in 1..Actions, s \in 1..Steps}
          \cup {<<"action-done", a>> : a \in 1..Actions}

Init ==
  /\ \E d \in [Runs -> Deadlines] :
       core = [r \in Runs |-> [pc |-> IF r = 1 THEN "head" ELSE "idle", act |-> 1,
                               status |-> "none", sig |-> 0, open |-> TRUE,
                               limit |-> d[r]]]
  /\ child = [r \in Runs |-> [pc |-> "none", step |-> 0, left |-> 0, answer |-> "none"]]
  /\ sock = [r \in Runs |-> <<>>]
  /\ relay = [r \in Runs |-> [pc |-> "read", line |-> <<>>]]
  /\ reader = [r \in Runs |-> [pipe |-> 0, got |-> 0]]
  /\ out = [r \in Runs |-> <<>>]
  /\ sink \in [kind : Outputs, pipe : {0}, state : {"reading"}]
  /\ used = [deaths |-> 0, signals |-> 0, done |-> {}]

TypeOK ==
  /\ core \in [Runs -> [pc : {"idle", "head", "emit", "spawn", "poll", "late", "drain",
                              "done-emit", "finish"} \cup Over,
                        act : 1..Actions + 1,
                        status : {"none", "ok", "failed", "interrupted"},
                        sig : 0..2, open : BOOLEAN, limit : BOOLEAN]]
  /\ child \in [Runs -> [pc : {"none", "work", "hung", "event", "answer", "exited"},
                         step : 0..Steps, left : 0..RespLen,
                         answer : {"none", "ok", "error"}]]
  /\ \A r \in Runs :
       /\ Len(sock[r]) <= SockCap /\ \A i \in 1..Len(sock[r]) : sock[r][i] \in Events
       /\ relay[r].pc \in {"read", "write", "ended", "failed", "dead"}
       /\ reader[r].pipe \in 0..RespCap /\ reader[r].got \in 0..RespLen
  /\ sink.kind \in Outputs /\ sink.pipe \in 0..PipeCap
  /\ sink.state \in {"reading", "closed"}
  /\ used.done \subseteq Runs \X (1..Actions) \X (1..Steps)

-----------------------------------------------------------------------------
Alive(r) == child[r].pc \in {"work", "hung", "event", "answer"}
Goto(r, pc) == core' = [core EXCEPT ![r].pc = pc]
At(r, pc) == core[r].pc = pc
Ends_KeepsWriter(r, status) ==           \* mutant: events_owned is not dropped
  core' = [core EXCEPT ![r].pc = "finish", ![r].status = status]
Ends(r, status) == core' = [core EXCEPT ![r].pc = "finish", ![r].status = status,
                                        ![r].open = FALSE]

(* The write end of the socket pair: the line fits, the writer waits, or    *)
(* the relay has left.                                                      *)
Listening(r) == relay[r].pc \in {"read", "write"}
Room(r) == Listening(r) /\ Len(sock[r]) < SockCap
Put(r, e) == sock' = [sock EXCEPT ![r] = Append(@, e)]

(* The process dies with its threads and its ends of all pipes, and what    *)
(* they held and delivered no longer matters.  Nothing tells the backend:   *)
(* spawn_backend sets no parent-death signal.                               *)
Dies(r) ==
  /\ core' = [core EXCEPT ![r].pc = "killed", ![r].open = FALSE]
  /\ relay' = [relay EXCEPT ![r] = [pc |-> "dead", line |-> <<>>]]
  /\ reader' = [reader EXCEPT ![r] = [pipe |-> 0, got |-> 0]]
  /\ sock' = [sock EXCEPT ![r] = <<>>]
  /\ out' = [out EXCEPT ![r] = <<>>]

(* EventWriter::emit.  nclr takes SIGPIPE: a line for a relay that has      *)
(* left ends the process.                                                   *)
Emit(r, e, next) ==
  \/ /\ sink.kind = "none" /\ next /\ UNCHANGED <<sock, relay, reader, out>>
  \/ /\ sink.kind # "none" /\ Room(r) /\ Put(r, e) /\ next /\ UNCHANGED <<relay, reader, out>>
  \/ /\ sink.kind # "none" /\ ~Listening(r) /\ Dies(r)

-----------------------------------------------------------------------------
(* The main thread: execute_plan_actions and call. *)

LoopHead(r) ==
  /\ At(r, "head")
  /\ IF core[r].sig > 0 THEN Ends(r, "interrupted")
     ELSE IF core[r].act > Actions THEN Ends(r, "ok") ELSE Goto(r, "emit")
  /\ UNCHANGED <<child, sock, relay, reader, out, sink, used>>

EmitAction(r) ==
  /\ At(r, "emit")
  /\ Emit(r, <<"action", core[r].act>>, Goto(r, "spawn"))
  /\ UNCHANGED <<child, sink, used>>

Spawn(r) ==
  /\ At(r, "spawn")
  /\ child' = [child EXCEPT ![r] = [pc |-> "work", step |-> 0, left |-> RespLen,
                                    answer |-> "ok"]]
  /\ reader' = [reader EXCEPT ![r] = [pipe |-> 0, got |-> 0]]
  /\ Goto(r, "poll")
  /\ UNCHANGED <<sock, relay, out, sink, used>>

Poll(r) ==
  /\ At(r, "poll") /\ ~Alive(r)
  /\ Goto(r, "drain")
  /\ UNCHANGED <<child, sock, relay, reader, out, sink, used>>

(* With a --backend-timeout (the default is none) the deadline is looked at *)
(* after try_wait, and the child is killed and waited for.                  *)
Killed(c) == [c EXCEPT !.pc = "exited", !.answer = "none"]
Killed_NotWaited(c) == c                 \* mutant: the kill fails unnoticed
Reap(c) == Killed(c)

Expire(r) ==
  /\ core[r].limit /\ At(r, "poll") /\ Alive(r)
  /\ child' = [child EXCEPT ![r] = Reap(@)]
  /\ Goto(r, "late")
  /\ UNCHANGED <<sock, relay, reader, out, sink, used>>

(* The reader thread has seen the end of the child's stdout. *)
Drained(r) == reader[r].pipe = 0
Late(r) ==
  /\ At(r, "late") /\ Drained(r)
  /\ Ends(r, "interrupted")
  /\ UNCHANGED <<child, sock, relay, reader, out, sink, used>>

(* A truncated response is no JSON; a failed action of a controller plan    *)
(* ends the run.                                                            *)
Answered_Lenient(r) == child[r].answer # "error"   \* mutant: a death is no error
Answered(r) == reader[r].got = RespLen /\ child[r].answer = "ok"

Drain(r) ==
  /\ At(r, "drain") /\ Drained(r)
  /\ IF Answered(r) THEN Goto(r, "done-emit") ELSE Ends(r, "failed")
  /\ UNCHANGED <<child, sock, relay, reader, out, sink, used>>

EmitDone(r) ==
  /\ At(r, "done-emit")
  /\ Emit(r, <<"action-done", core[r].act>>,
          core' = [core EXCEPT ![r].pc = "head", ![r].act = @ + 1])
  /\ UNCHANGED <<child, sink, used>>

(* EventRelay::finish joins the relay, whose error fails the run.           *)
Joined_Never(r) == TRUE                  \* mutant: the relay is not joined
Joined(r) == sink.kind = "none" \/ relay[r].pc \in {"ended", "failed"}
Verdict(r) == IF relay[r].pc = "failed" THEN "failed" ELSE core[r].status

Finish(r) ==
  /\ At(r, "finish") /\ Joined(r)
  /\ core' = [core EXCEPT ![r].pc = "ended", ![r].status = Verdict(r)]
  /\ UNCHANGED <<child, sock, relay, reader, out, sink, used>>

Main(r) ==
  \/ LoopHead(r) \/ EmitAction(r) \/ Spawn(r) \/ Poll(r) \/ Expire(r) \/ Late(r)
  \/ Drain(r) \/ EmitDone(r) \/ Finish(r)

-----------------------------------------------------------------------------
(* The thread that reads stdout, so that a long response cannot block the   *)
(* child while the main thread waits for its exit.                          *)
Read_AfterExit(r) ==      \* mutant: stdout is read only when the child has left
  /\ core[r].pc \notin Over \cup {"poll"} /\ reader[r].pipe > 0
  /\ reader' = [reader EXCEPT ![r].pipe = @ - 1, ![r].got = @ + 1]
  /\ UNCHANGED <<core, child, sock, relay, out, sink, used>>
Read(r) ==
  /\ core[r].pc \notin Over /\ reader[r].pipe > 0
  /\ reader' = [reader EXCEPT ![r].pipe = @ - 1, ![r].got = @ + 1]
  /\ UNCHANGED <<core, child, sock, relay, out, sink, used>>

(* The relay. *)
RelayRead(r) ==
  /\ relay[r].pc = "read" /\ sock[r] # <<>>
  /\ relay' = [relay EXCEPT ![r] = [pc |-> "write", line |-> sock[r][1]]]
  /\ sock' = [sock EXCEPT ![r] = Tail(@)]
  /\ UNCHANGED <<core, child, reader, out, sink, used>>

RelayEnd(r) ==
  /\ relay[r].pc = "read" /\ sock[r] = <<>> /\ ~core[r].open /\ ~Alive(r)
  /\ relay' = [relay EXCEPT ![r].pc = "ended"]
  /\ UNCHANGED <<core, child, sock, reader, out, sink, used>>

(* A pipe blocks when full and kills when closed; a file may be full.       *)
RelayWrite(r) ==
  /\ relay[r].pc = "write"
  /\ \/ /\ sink.state # "closed" /\ (sink.kind = "file" \/ sink.pipe < PipeCap)
        /\ out' = [out EXCEPT ![r] = Append(@, relay[r].line)]
        /\ sink' = IF sink.kind = "pipe" THEN [sink EXCEPT !.pipe = @ + 1] ELSE sink
        /\ relay' = [relay EXCEPT ![r].pc = "read"]
        /\ UNCHANGED <<core, sock, reader>>
     \/ /\ sink.kind = "file"
        /\ relay' = [relay EXCEPT ![r].pc = "failed"]
        /\ UNCHANGED <<core, sock, reader, out, sink>>
     \/ /\ sink.kind = "pipe" /\ sink.state = "closed"
        /\ Dies(r) /\ UNCHANGED sink
  /\ UNCHANGED <<child, used>>

Relay(r) == RelayRead(r) \/ RelayEnd(r) \/ RelayWrite(r)

-----------------------------------------------------------------------------
(* The backend. *)

(* A device step is done and reported, or the backend panics or hangs.      *)
Hung(c) == [c EXCEPT !.pc = "hung"]
Work(r) ==
  /\ child[r].pc = "work"
  /\ \/ /\ child' = [child EXCEPT ![r].pc = "event", ![r].step = @ + 1]
        /\ used' = [used EXCEPT !.done = @ \cup {<<r, core[r].act, child[r].step + 1>>}]
     \/ /\ child' \in {[child EXCEPT ![r] = c] : c \in {Killed(child[r]), Hung(child[r])}}
        /\ UNCHANGED used
  /\ UNCHANGED <<core, sock, relay, reader, out, sink>>

(* A progress event that cannot be written fails the action.                *)
NextStep(c) == [c EXCEPT !.pc = IF c.step = Steps THEN "answer" ELSE "work"]
Progress(r) ==
  /\ child[r].pc = "event"
  /\ \/ /\ sink.kind = "none" /\ child' = [child EXCEPT ![r] = NextStep(@)]
        /\ UNCHANGED sock
     \/ /\ sink.kind # "none" /\ Room(r)
        /\ Put(r, <<"progress", core[r].act, child[r].step>>)
        /\ child' = [child EXCEPT ![r] = NextStep(@)]
     \/ /\ sink.kind # "none" /\ ~Listening(r)
        /\ child' = [child EXCEPT ![r].pc = "answer", ![r].answer = "error"]
        /\ UNCHANGED sock
  /\ UNCHANGED <<core, relay, reader, out, sink, used>>

(* The response goes to a pipe that blocks when full and breaks when the    *)
(* core is gone.                                                            *)
Answer(r) ==
  /\ child[r].pc = "answer"
  /\ \/ /\ child[r].left = 0 \/ core[r].pc \in Over
        /\ child' = [child EXCEPT ![r].pc = "exited"]
        /\ UNCHANGED reader
     \/ /\ child[r].left > 0 /\ core[r].pc \notin Over /\ reader[r].pipe < RespCap
        /\ child' = [child EXCEPT ![r].left = @ - 1]
        /\ reader' = [reader EXCEPT ![r].pipe = @ + 1]
  /\ UNCHANGED <<core, sock, relay, out, sink, used>>

Backend(r) == Work(r) \/ Progress(r) \/ Answer(r)

-----------------------------------------------------------------------------
(* Signals, deaths, and the consumer of the events. *)

(* on_signal: SIGINT counts up to FORCE, SIGTERM stores SAFE_STOP.          *)
Counted(n) == IF n >= 2 THEN 2 ELSE n + 1

Signal(r) ==
  /\ used.signals < MaxSignals /\ core[r].pc \notin Over \cup {"idle"}
  /\ \E n \in {Counted(core[r].sig), 1} : core' = [core EXCEPT ![r].sig = n]
  /\ used' = [used EXCEPT !.signals = @ + 1]
  /\ UNCHANGED <<child, sock, relay, reader, out, sink>>

(* Control-C reaches the backend too, which is in the same process group    *)
(* and has no handler.                                                      *)
ControlC(r) ==
  /\ used.signals < MaxSignals /\ core[r].pc \notin Over \cup {"idle"}
  /\ core' = [core EXCEPT ![r].sig = Counted(@)]
  /\ child' = [child EXCEPT ![r] = IF Alive(r) THEN Killed(@) ELSE @]
  /\ used' = [used EXCEPT !.signals = @ + 1]
  /\ UNCHANGED <<sock, relay, reader, out, sink>>

Death(r) ==
  /\ used.deaths < MaxDeaths /\ core[r].pc \notin Over \cup {"idle"}
  /\ Dies(r)
  /\ used' = [used EXCEPT !.deaths = @ + 1]
  /\ UNCHANGED <<child, sink>>

Consume ==
  /\ sink.pipe > 0 /\ sink.state = "reading"
  /\ sink' = [sink EXCEPT !.pipe = @ - 1]
  /\ UNCHANGED <<core, child, sock, relay, reader, out, used>>

Leave ==
  /\ sink.kind = "pipe" /\ sink.state = "reading"
  /\ sink' = [sink EXCEPT !.state = "closed"]
  /\ UNCHANGED <<core, child, sock, relay, reader, out, used>>

(* The next process takes the lock that died with the last one.             *)
LockFree(r) == r > 1 /\ core[r - 1].pc \in Over
StartNext(r) ==
  /\ At(r, "idle") /\ LockFree(r)
  /\ Goto(r, "head")
  /\ sink' = [sink EXCEPT !.pipe = 0, !.state = "reading"]
  /\ UNCHANGED <<child, sock, relay, reader, out, used>>

Next ==
  \/ \E r \in Runs :
       \/ Main(r) \/ Read(r) \/ Relay(r) \/ Backend(r)
       \/ Signal(r) \/ ControlC(r) \/ Death(r) \/ StartNext(r)
  \/ Consume \/ Leave

Spec == Init /\ [][Next]_vars

(* Every thread and process is scheduled, and a consumer that reads goes on *)
(* reading until it closes its end.                                         *)
FairSpec ==
  /\ Spec
  /\ \A r \in Runs : WF_vars(Main(r)) /\ WF_vars(Read(r)) /\ WF_vars(Relay(r))
                     /\ WF_vars(Progress(r) \/ Answer(r)) /\ WF_vars(Work(r))
  /\ WF_vars(Consume)
-----------------------------------------------------------------------------
(* Properties. *)

(* The events a run must have delivered when it has finished n actions.     *)
OfAction(a) == <<<<"action", a>>>> \o [s \in 1..Steps |-> <<"progress", a, s>>]
               \o <<<<"action-done", a>>>>
Due[n \in 0..Actions] == IF n = 0 THEN <<>> ELSE Due[n - 1] \o OfAction(n)

(* A run that ends "ok" has delivered every event of every action, those of *)
(* the backend between the two of the core, each once (EventRelay); a relay *)
(* that failed is never reported as a success (EventRelay::finish).         *)
NoEventLost ==
  \A r \in Runs : At(r, "ended") /\ sink.kind # "none" =>
    /\ core[r].status = "ok" => out[r] = Due[Actions]
    /\ relay[r].pc = "failed" => core[r].status = "failed"

(* An "ok" run has had every device step of every action done: no response  *)
(* is taken from a backend that died or was cut short.                      *)
OkMeansDone ==
  \A r \in Runs : core[r].status = "ok"
                  => {r} \X (1..Actions) \X (1..Steps) \subseteq used.done

(* While the core is not waiting for a backend, none is running: an         *)
(* interruption or an error never leaves one behind (call kills and waits). *)
Reaped ==
  TypeOK /\ \A r \in Runs : Alive(r) => core[r].pc \in {"poll", "killed"}

(* Without a --backend-timeout nobody ends the wait for a backend that      *)
(* hangs by itself.                                                         *)
Waits(r) == ~core[r].limit /\ child[r].pc = "hung"

(* Every run comes to an end, with a --backend-timeout and without one,     *)
(* however long the responses and however full the pipes: no two of core,   *)
(* reader, relay and backend ever wait for each other.  The one wait        *)
(* without an end is call's for a backend that hangs in its device when     *)
(* there is no --backend-timeout, which is the default.                     *)
Terminates == \A r \in Runs : core[r].pc # "idle" ~> core[r].pc \in Over \/ Waits(r)
=============================================================================
