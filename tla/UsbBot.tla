------------------------------- MODULE UsbBot -------------------------------
(***************************************************************************)
(* USB Mass Storage Bulk-Only Transport, as the controller backend drives  *)
(* it on macOS (macos_usb_bot.rs, usb_bot.rs) and as the trace importer    *)
(* reads it back from a capture (usb_bot.rs, BotDecoder).                  *)
(*                                                                         *)
(* A command is three stages on two pipes: a 31-byte CBW, an optional data *)
(* stage and a 13-byte CSW.  The host waits for each with a timeout, clears*)
(* a stall once and never resets the device, so an abandoned command leaves*)
(* its data and its CSW in the pipe for the next one to read.  Lengths are *)
(* counted in units of 13 bytes: a CSW is one unit, a CBW two (rounded),   *)
(* every data packet one.                                                  *)
(***************************************************************************)
EXTENDS Naturals, Sequences, FiniteSets, SequencesExt

CONSTANTS
  Devices,      \* USB devices on the captured bus, each behind its own interface
  Quiet,        \* those among them that are only sent commands without data
  Answers,      \* the statuses a device ends a command with
  FirstTag,     \* the counter when the model starts: any value a long session reaches
  MaxTag,       \* the tag counter wraps after this value (2^32 - 1 in the code)
  MaxLen,       \* the longest data stage, in units
  MaxCommands,  \* bound on the commands submitted, over all devices
  MaxLost       \* bound on the frames the capture lost

ASSUME UsbBotAssumption ==
  /\ Quiet \subseteq Devices /\ MaxTag \in Nat \ {0} /\ FirstTag \in 1..MaxTag /\ Answers \subseteq 0..2 /\ MaxLen \in Nat
  /\ MaxCommands \in Nat /\ MaxLost \in Nat
  /\ MaxCommands <= MaxTag      \* no tag is reused while an answer to it may be alive

VARIABLES
  session,  \* MacCommandTransport: the transport selected, the one open, what it claims
  port,     \* the unit now behind the disk path: the one nclr expects, or another
  bot,      \* the UsbBotDevice object of each device and its command in progress
  last,     \* what the last execute of each device returned
  dev,      \* the units of an OUT data stage the device still takes
  inq,      \* what the device will put on its bulk IN pipe, oldest first
  truth,    \* what the device did for each tag
  decoder,  \* BotDecoder
  captured, \* tags whose CBW is in the capture
  submitted, \* how many commands were submitted, on all devices
  gone,     \* devices on which the host gave up before the CSW
  lost      \* frames missing from the capture

botVars == <<session, port, bot, last, dev, inq, truth, decoder, captured, submitted, gone, lost>>

Directions == {"none", "from_device", "to_device"}
Statuses == 0..2
CswLen == 1
CbwLen == 2
None == [tag |-> 0]

(***************************************************************************)
(* Host side.                                                              *)
(***************************************************************************)
\* UsbBotDevice::validate_transfer and command_block_wrapper: no data
\* exactly when the direction says so.
ValidTransfers ==
  {t \in Directions \X (0..MaxLen) : (t[1] = "none") = (t[2] = 0)}

\* UsbBotDevice::next_command_tag: the counter wraps and skips zero.
NextTag(tag) == IF tag = MaxTag THEN 1 ELSE tag + 1

Idle(tag) == [pc |-> "idle", next |-> tag, tag |-> 0, dir |-> "none", len |-> 0,
              got |-> <<>>, stalled |-> FALSE, retried |-> FALSE]

Failed == [ok |-> FALSE, tag |-> 0, got |-> <<>>]

CswAccepted_AnyTag(h, csw) ==                                    \* mutant
  csw.residue <= h.len /\ csw.status \in Statuses
\* command_status_wrapper: tag, residue and status of a 13-byte CSW.
CswAccepted(h, csw) ==
  /\ csw.tag = h.tag
  /\ csw.residue <= h.len
  /\ csw.status \in Statuses

\* The end of UsbBotDevice::execute: a stalled data stage, a non-zero status
\* and a length that disagrees with the residue are all errors.
Result(h, csw) ==
  IF /\ CswAccepted(h, csw)
     /\ ~h.stalled
     /\ csw.status = 0
     /\ Len(h.got) = h.len - csw.residue
    THEN [ok |-> TRUE, tag |-> h.tag, got |-> h.got]
    ELSE Failed

(***************************************************************************)
(* MacCommandTransport: opened by the first command, through SCSITask until*)
(* a recipe selects the Bulk-Only interface.  A quiet device is driven by  *)
(* the operating system and is open from the start.                        *)
(***************************************************************************)
Transports == {"scsi", "usb"}
AtRest == UNCHANGED <<bot, last, dev, inq, truth, decoder, captured, submitted, gone, lost>>

\* ScsiDevice::close and UsbBotDevice::close give up every claim, whatever
\* the calls they make return.
Released == {}

\* select_recipe_transport: a seized Bulk-Only session is never given back to
\* SCSITask; an open SCSITask session is closed first, and a failure to close
\* it leaves the selection as it was.
Select(d, t) ==
  /\ session[d].state \in {"unopened", "scsi"} /\ session[d].selected # t
  /\ \E closed \in IF session[d].state = "scsi" THEN BOOLEAN ELSE {TRUE} :
       session' = [session EXCEPT ![d].state = "unopened", ![d].claims = Released,
                                  ![d].selected = IF closed THEN t ELSE @]

\* UsbBotDevice::finish_open: vendor, product, release and location.
Authentic(d) == port[d] = "expected"

\* ScsiDevice::open and UsbBotDevice::open: "works" is all that the system
\* may refuse (no user client, wrong class, exclusive access, pipes missing).
\* Every failure releases what had been taken.
OpensScsi(d, works) == works
OpensUsb(d, works) == works /\ Authentic(d)

\* open_selected
Open(d) ==
  /\ session[d].state = "unopened"
  /\ \E works \in BOOLEAN :
       LET t == session[d].selected
       IN session' = IF IF t = "usb" THEN OpensUsb(d, works) ELSE OpensScsi(d, works)
            THEN [session EXCEPT ![d].state = t, ![d].claims = {t}, ![d].unit = port[d]]
            ELSE session

Close(d) ==
  /\ bot[d].pc = "idle" /\ session[d].state # "closed"
  /\ session' = [session EXCEPT ![d].state = "closed", ![d].claims = Released]

\* Another unit appears behind the path before anything claims it.
Replug(d) ==
  /\ session[d].state = "unopened"
  /\ \E u \in {"expected", "other"} : port' = [port EXCEPT ![d] = u]

(***************************************************************************)
(* BotDecoder.  A frame is what one bulk transfer carried.                 *)
(***************************************************************************)
Size(f) == IF f.kind = "cbw" THEN CbwLen ELSE CswLen

NewDecoder == [pending |-> [d \in Devices |-> None],
               records |-> [d \in Devices |-> <<>>], failed |-> FALSE]
\* An error ends the import and its records with it.
Aborted == [NewDecoder EXCEPT !.failed = TRUE]

MatchingCsw_NoTag(f, p) ==                                       \* mutant
  /\ f.kind = "csw" /\ f.in
  /\ f.residue <= p.len
  /\ Len(p.payload) = p.len - f.residue
  /\ f.status \in Statuses
\* matching_csw
MatchingCsw(f, p) ==
  /\ f.kind = "csw" /\ f.in
  /\ f.tag = p.tag
  /\ f.residue <= p.len
  /\ Len(p.payload) = p.len - f.residue
  /\ f.status \in Statuses

\* BotDecoder::complete: everything matching_csw asks for is an error here.
Complete(d, f, p) ==
  IF MatchingCsw(f, p)
    THEN [decoder EXCEPT !.pending[d] = None,
                         !.records[d] = Append(@, [tag |-> p.tag, status |-> f.status,
                                                   dir |-> p.in, payload |-> p.payload])]
    ELSE Aborted

\* BotDecoder::feed with a command pending on the device.
FeedPending(d, f, p) ==
  LET full == Len(p.payload) + Size(f) > p.len IN
  CASE MatchingCsw(f, p) -> Complete(d, f, p)
    [] f.kind = "csw" /\ f.in /\ (~p.in \/ full) -> Complete(d, f, p)
    [] f.kind = "cbw" /\ ~f.in /\ Len(p.payload) = p.len -> Aborted
    [] p.in # f.in -> decoder
    [] full -> Aborted
    [] OTHER -> [decoder EXCEPT !.pending[d].payload =
                    @ \o [i \in 1..Size(f) |-> f.tag]]

\* BotDecoder::feed with none: parse_cbw opens a command, a CSW is an error,
\* anything else is counted and ignored.
FeedIdle(d, f) ==
  CASE f.kind = "cbw" ->
         [decoder EXCEPT !.pending[d] = [tag |-> f.tag, len |-> f.len,
                                         in |-> f.dir = "from_device", payload |-> <<>>]]
    [] f.kind = "csw" -> Aborted
    [] OTHER -> decoder

\* DeviceKey: bus and device address.
Key(d) == d

\* The importer stops at the first error (import_pcap propagates it).
Feed(d, f) ==
  IF decoder.failed THEN decoder
  ELSE LET p == decoder.pending[Key(d)] IN
       IF p = None THEN FeedIdle(Key(d), f) ELSE FeedPending(Key(d), f, p)

\* A frame crosses the bus: the capture holds it, or lost it.
OnWire(d, f) ==
  \/ /\ decoder' = Feed(d, f)
     /\ captured' = IF f.kind = "cbw" THEN [captured EXCEPT ![d] = @ \union {f.tag}]
                                      ELSE captured
     /\ UNCHANGED lost
  \/ /\ lost < MaxLost
     /\ lost' = lost + 1
     /\ UNCHANGED <<decoder, captured>>

OffWire == UNCHANGED <<decoder, captured, lost>>

Cbw(h) == [kind |-> "cbw", in |-> FALSE, tag |-> h.tag, len |-> h.len, dir |-> h.dir]
Csw(tag, residue, status) ==
  [kind |-> "csw", in |-> TRUE, tag |-> tag, residue |-> residue, status |-> status]
OutData(tag) == [kind |-> "data", in |-> FALSE, tag |-> tag]

(***************************************************************************)
(* The device: a Bulk-Only target that answers in order, may move less     *)
(* than it was asked for, may fail, may stall, and may be late.            *)
(***************************************************************************)
DataIn(tag, short) == [kind |-> "data", in |-> TRUE, tag |-> tag, short |-> short]
EmptyPacket == [kind |-> "empty"]
Stall == [kind |-> "stall"]

\* The ways a device ends a data stage before the requested length.
ShortTails(tag, n) ==
  { [i \in 1..n |-> DataIn(tag, FALSE)],
    [i \in 1..n |-> DataIn(tag, FALSE)] \o <<Stall>>,
    IF n = 0 THEN <<EmptyPacket>> ELSE [i \in 1..n |-> DataIn(tag, i = n)] }

InData(tag, n, len) ==
  IF n = len THEN {[i \in 1..n |-> DataIn(tag, FALSE)]} ELSE ShortTails(tag, n)

Known(d, tag) == tag \in DOMAIN truth[d]
Learn(d, tag, n, status) ==
  truth' = [truth EXCEPT ![d] = [t \in DOMAIN @ \union {tag} |->
              IF t = tag THEN [n |-> n, status |-> status] ELSE @[t]]]

\* A command block reaches a device that is ready for one.  Answers nobody
\* collected are still in its pipe, or were dropped with the old command.
Accept(d, h) ==
  \E n \in 0..h.len, s \in Answers, old \in {inq[d], <<>>} :
    LET csw == Csw(h.tag, h.len - n, s)
    IN /\ Learn(d, h.tag, IF h.dir = "to_device" THEN 0 ELSE n, s)
       /\ \/ /\ h.dir = "to_device"
             /\ dev' = [dev EXCEPT ![d] = [tag |-> h.tag, left |-> n, csw |-> csw]]
             /\ inq' = [inq EXCEPT ![d] = IF n = 0 THEN Append(old, csw) ELSE old]
          \/ /\ h.dir # "to_device"
             /\ \E items \in InData(h.tag, n, h.len), pre \in IF s = 0 THEN {<<>>} ELSE {<<>>, <<Stall>>} :
                  inq' = [inq EXCEPT ![d] = old \o items \o pre \o <<csw>>]
             /\ UNCHANGED dev

\* The device takes k units of the OUT data stage it is in, whatever they are.
Take(d, k) ==
  LET c == dev[d]
      m == IF k > c.left THEN c.left ELSE k
  IN /\ dev' = [dev EXCEPT ![d].left = @ - m]
     /\ truth' = [truth EXCEPT ![d][c.tag].n = @ + m]
     /\ inq' = [inq EXCEPT ![d] = IF m = c.left THEN Append(@, c.csw) ELSE @]

(***************************************************************************)
(* UsbBotDevice::execute, stage by stage.                                  *)
(***************************************************************************)
Set(d, h) == bot' = [bot EXCEPT ![d] = h]
GiveUp(d) ==
  /\ Set(d, Idle(bot[d].next))
  /\ last' = [last EXCEPT ![d] = Failed]
  /\ gone' = gone \union {d}

Submit(d) ==
  /\ session[d].state = "usb" /\ bot[d].pc = "idle" /\ submitted < MaxCommands
  /\ submitted' = submitted + 1
  /\ \E t \in IF d \in Quiet THEN {<<"none", 0>>} ELSE ValidTransfers :
       Set(d, [Idle(NextTag(bot[d].next)) EXCEPT
                 !.pc = "cbw", !.tag = bot[d].next, !.dir = t[1], !.len = t[2]])
  /\ UNCHANGED <<last, dev, inq, truth, gone>> /\ OffWire

\* write_pipe_exact of the CBW succeeds.  A device still in the OUT data
\* stage of an abandoned command takes the block for data.
SendCbw(d) ==
  LET h == bot[d] IN
  /\ h.pc = "cbw"
  /\ Set(d, [h EXCEPT !.pc = CASE h.dir = "none" -> "csw"
                               [] h.dir = "from_device" -> "in"
                               [] OTHER -> "out"])
  /\ IF dev[d].left > 0 THEN Take(d, CbwLen) ELSE Accept(d, h)
  /\ OnWire(d, Cbw(h))
  /\ UNCHANGED <<submitted, last, gone>>

\* A failed CBW write, a data stage that times out ("command state is
\* ambiguous"), a stall that cannot be cleared, a CSW that never comes.
Timeout(d) ==
  /\ bot[d].pc \in {"cbw", "in", "out", "csw"}
  /\ GiveUp(d)
  /\ UNCHANGED <<submitted, dev, inq, truth>> /\ OffWire

WriteData(d) ==
  LET h == bot[d]
      sent == Append(h.got, h.tag)
  IN /\ h.pc = "out" /\ dev[d].left > 0
     /\ Set(d, [h EXCEPT !.got = sent, !.pc = IF Len(sent) = h.len THEN "csw" ELSE "out"])
     /\ Take(d, 1)
     /\ OnWire(d, OutData(h.tag))
     /\ UNCHANGED <<submitted, last, gone>>

\* The device stalls its OUT pipe; the host clears it and asks for the CSW.
WriteStalled(d) ==
  /\ bot[d].pc = "out" /\ dev[d].left = 0
  /\ Set(d, [bot[d] EXCEPT !.pc = "csw", !.stalled = TRUE])
  /\ UNCHANGED <<submitted, last, dev, inq, truth, gone>> /\ OffWire

\* One packet of the data-in read: a short packet ends it, and so does
\* whatever else the pipe holds, a CSW included.
ReadData(d) ==
  LET h == bot[d]
      f == Head(inq[d])
      got == IF f.kind = "empty" THEN h.got ELSE Append(h.got, f.tag)
      ends == f.kind # "data" \/ f.short \/ Len(got) = h.len
  IN /\ h.pc = "in" /\ inq[d] # <<>> /\ f.kind # "stall"
     /\ Set(d, [h EXCEPT !.got = got, !.pc = IF ends THEN "csw" ELSE "in"])
     /\ inq' = [inq EXCEPT ![d] = Tail(@)]
     /\ IF f.kind = "empty" THEN OffWire ELSE OnWire(d, f)
     /\ UNCHANGED <<submitted, last, dev, truth, gone>>

ReadStalled(d) ==
  /\ bot[d].pc = "in" /\ inq[d] # <<>> /\ Head(inq[d]) = Stall
  /\ Set(d, [bot[d] EXCEPT !.pc = "csw", !.stalled = TRUE])
  /\ inq' = [inq EXCEPT ![d] = Tail(@)]
  /\ UNCHANGED <<submitted, last, dev, truth, gone>> /\ OffWire

\* read_csw clears a stall once; a second one is an error.
CswStalled(d) ==
  /\ bot[d].pc = "csw" /\ inq[d] # <<>> /\ Head(inq[d]) = Stall
  /\ inq' = [inq EXCEPT ![d] = Tail(@)]
  /\ IF bot[d].retried THEN GiveUp(d)
     ELSE Set(d, [bot[d] EXCEPT !.retried = TRUE]) /\ UNCHANGED <<last, gone>>
  /\ UNCHANGED <<submitted, dev, truth>> /\ OffWire

\* The transfer read as CSW is some other packet: wrong length or signature.
CswGarbled(d) ==
  LET f == Head(inq[d]) IN
  /\ bot[d].pc = "csw" /\ inq[d] # <<>> /\ f.kind \in {"data", "empty"}
  /\ inq' = [inq EXCEPT ![d] = Tail(@)]
  /\ GiveUp(d)
  /\ IF f.kind = "empty" THEN OffWire ELSE OnWire(d, f)
  /\ UNCHANGED <<submitted, dev, truth>>

ReadCsw(d) ==
  LET h == bot[d]
      f == Head(inq[d])
  IN /\ h.pc = "csw" /\ inq[d] # <<>> /\ f.kind = "csw"
     /\ Set(d, Idle(h.next))
     /\ last' = [last EXCEPT ![d] = Result(h, f)]
     /\ gone' = IF f.tag = h.tag THEN gone ELSE gone \union {d}
     /\ inq' = [inq EXCEPT ![d] = Tail(@)]
     /\ OnWire(d, f)
     /\ UNCHANGED <<submitted, dev, truth>>

BotInit ==
  /\ session = [d \in Devices |->
       IF d \in Quiet
         THEN [selected |-> "usb", state |-> "usb", claims |-> {"usb"}, unit |-> "expected"]
         ELSE [selected |-> "scsi", state |-> "unopened", claims |-> {}, unit |-> "expected"]]
  /\ port = [d \in Devices |-> "expected"]
  /\ bot = [d \in Devices |-> Idle(FirstTag)]
  /\ last = [d \in Devices |-> Failed]
  /\ dev = [d \in Devices |-> [tag |-> 0, left |-> 0, csw |-> None]]
  /\ inq = [d \in Devices |-> <<>>]
  /\ truth = [d \in Devices |-> <<>>]
  /\ decoder = NewDecoder
  /\ captured = [d \in Devices |-> {}]
  /\ submitted = 0 /\ gone = {} /\ lost = 0

Session(d) ==
  \/ \E t \in Transports : Select(d, t) /\ UNCHANGED port
  \/ (Open(d) \/ Close(d)) /\ UNCHANGED port
  \/ Replug(d) /\ UNCHANGED session

Execute(d) ==
  \/ Submit(d) \/ SendCbw(d) \/ Timeout(d)
  \/ WriteData(d) \/ WriteStalled(d)
  \/ ReadData(d) \/ ReadStalled(d)
  \/ CswStalled(d) \/ CswGarbled(d) \/ ReadCsw(d)

BotNext ==
  \/ \E d \in Devices \ Quiet : Session(d) /\ AtRest
  \/ \E d \in Devices : Execute(d) /\ UNCHANGED <<session, port>>

BotSpec == BotInit /\ [][BotNext]_botVars

(***************************************************************************)
(* Properties.                                                             *)
(***************************************************************************)
Tags == 0..MaxTag

\* The shape of every variable.
BotTypeOK ==
  /\ \A d \in Devices :
       /\ session[d] \in [selected : Transports, state : Transports \union {"unopened", "closed"},
                         claims : SUBSET Transports, unit : {"expected", "other"}]
       /\ port[d] \in {"expected", "other"}
       /\ bot[d].pc \in {"idle", "cbw", "in", "out", "csw"}
       /\ bot[d].next \in Tags /\ bot[d].tag \in Tags
       /\ bot[d].got \in Seq(Tags)
       /\ last[d].got \in Seq(Tags)
       /\ dev[d].left \in 0..MaxLen
       /\ DOMAIN truth[d] \subseteq Tags
       /\ decoder.records[d] \in Seq([tag : Tags, status : Statuses, dir : BOOLEAN,
                                      payload : Seq(Tags)])
       /\ captured[d] \subseteq Tags
  /\ decoder.failed \in BOOLEAN
  /\ gone \subseteq Devices /\ lost \in 0..MaxLost

\* The unit is claimed by the transport in use and by no other, nothing stays
\* claimed after a failed open, a switch or a close, and the Bulk-Only
\* interface that is seized belongs to the unit the plan names
\* (nclr-controller.rs MacCommandTransport, macos_usb_bot.rs finish_open).
ClaimsFit ==
  \A d \in Devices :
    /\ session[d].claims = {session[d].state} \intersect Transports
    /\ session[d].state = "usb" => session[d].unit = "expected"

\* execute returns success only for a command its own device completed with
\* status 0, and with exactly the units that command moved: never with the
\* late data or the late CSW of a command abandoned before it
\* (macos_usb_bot.rs execute, usb_bot.rs command_status_wrapper).
OkIsOurs ==
  \A d \in Devices :
    last[d].ok =>
      /\ Known(d, last[d].tag)
      /\ truth[d][last[d].tag] = [n |-> Len(last[d].got), status |-> 0]
      /\ \A i \in DOMAIN last[d].got : last[d].got[i] = last[d].tag

\* What a Bulk-Only command that succeeds has done, and over what.
TransfersTrue == OkIsOurs /\ ClaimsFit

\* Every record the importer emits is a command that was on the bus: it has
\* as many units as that device moved for that tag, and the status the device
\* reported, whatever frames are lost.  Its data are that command's, as long as
\* the capture lost nothing or the host gave up on no command of the device:
\* the data and the status an abandoned command left behind can stand in for
\* a lost packet (usb_bot.rs BotDecoder; see README).
TraceTrue ==
  \A d \in Devices : \A i \in DOMAIN decoder.records[d] :
    LET r == decoder.records[d][i] IN
      /\ Known(d, r.tag)
      /\ truth[d][r.tag] = [n |-> Len(r.payload), status |-> r.status]
      /\ r.dir /\ (lost = 0 \/ d \notin gone) =>
           \A j \in DOMAIN r.payload : r.payload[j] = r.tag

\* An import that ends well (no error, nothing pending) has a record for
\* every command whose CBW is in the capture, even when the capture lost
\* frames, unless the host gave up on a command of that device: a lost CBW,
\* data packet or CSW is always noticed (usb_bot.rs feed, finish).
NoSilentGap ==
  \A d \in Devices \ gone :
    (~decoder.failed /\ decoder.pending[d] = None) =>
       captured[d] = {decoder.records[d][i].tag : i \in DOMAIN decoder.records[d]}

\* What the importer reads out of a capture was on the bus, or the gap is
\* noticed (usb_bot.rs BotDecoder).
CapturesTrue == BotTypeOK /\ TraceTrue /\ NoSilentGap
=============================================================================
