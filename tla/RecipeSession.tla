--------------------------- MODULE RecipeSession ---------------------------
(***************************************************************************)
(* A recipe is loaded and, if its validation accepts it, drives a unit:    *)
(* operations that address a block, answers of any content and length, and *)
(* generations of metadata that are built, staged, activated and read      *)
(* back.  The unit is the hardware the recipe describes: it reads every    *)
(* image and every command block with arithmetic of its own, written from  *)
(* the meaning of the layouts and not from the code.                       *)
(***************************************************************************)
EXTENDS Recipe

CONSTANTS
    RecipeIds,      \* recipe files
    RecipeOf,       \* recipe file -> what it says, with its profile
    Lists,          \* what a run may have to list: block -> class
    Users,          \* user blocks a capacity policy may yield
    Pages,          \* contents of an answer's bytes
    Generations,    \* bound: generations of the metadata a unit comes with
    Probed,         \* bound: blocks whose pages are read
    Damaged         \* bound: bytes at the front of a report that may be damaged

VARIABLES recipe, verdict, call, host, unit

vars == <<recipe, verdict, call, host, unit>>

NoCall == [op |-> "none", block |-> 0, page |-> 0, step |-> 0, waiting |-> FALSE,
           out |-> 0, names |-> <<>>, sent |-> <<>>, result |-> "none"]
NoList == [list |-> << >>, generation |-> 0, user |-> 0, phase |-> "idle", report |-> <<>>, read |-> "none"]
NoImage == [bbt |-> <<>>, ftl |-> <<>>, cap |-> <<>>]

R == RecipeOf[recipe]
G == R.geometry
Blocks == 0 .. TotalBlocks(G) - 1

Context(block, page) == [Coordinate(block, G) EXCEPT !.page = page]
(* The file the core passes for the artifact has the declared size.        *)
File == [i \in 1 .. R.artifact |-> 0]

(***************************************************************************)
(* The hardware, external to the code.                                     *)
(***************************************************************************)
(* The number the hardware means by a coordinate: LUNs in a chip, chips on *)
(* a channel, blocks of a LUN interleaved over its planes.                 *)
Meaning(name, b) ==
    LET lun == b \div G.blocks
        chip == lun \div G.luns
    IN  CASE name = "flat" -> b
          [] name = "block" -> b - lun * G.blocks
          [] name = "lun" -> lun - chip * G.luns
          [] name = "chip" -> chip - (chip \div G.chips) * G.chips
          [] name = "channel" -> chip \div G.chips
          [] name = "plane" -> (b - lun * G.blocks) % G.planes

IsAddress(f) == f.value \in {"flat", "block", "lun", "chip", "channel", "plane"}

(* The blocks that fit every address field of the commands of a call.      *)
Targets(steps, sent) ==
    { b \in Blocks : \A k \in DOMAIN sent :
        LET c == R.commands[steps[k].command]
        IN  /\ \A f \in ToSet(c.fields) :
                 IsAddress(f) => Get(sent[k].cdb, f) = Apply(Meaning(f.value, b), f.ops)
            /\ c.payload.kind = "context" =>
                 \A f \in ToSet(c.payload.fields) :
                   IsAddress(f) => Get(sent[k].data, f) = Apply(Meaning(f.value, b), f.ops) }

Plain(op) ==
    \A s \in ToSet(Steps(R, op)) :
      \A f \in ToSet(Bindings(R.commands[s.command])) : f.ops = <<>>

(* The parts of an entry's address as the hardware counts them.            *)
PartMeaning(a, i, b) ==
    LET name == PartNames(a.kind)[i]
    IN  IF a.kind = "planes" /\ name = "block" THEN Meaning(name, b) \div G.planes
        ELSE Meaning(name, b)

EntryOf(buf, base, a) ==
    { b \in Blocks : \A i \in DOMAIN a.parts :
        Get(buf, At(base, a.parts[i])) = PartMeaning(a, i, b) }

(* The list the hardware finds in a new table.                             *)
Found(l, image) ==
    { <<b, image[Len(l.header) + i * l.stride + l.state + 1]>> :
        <<i, b>> \in { <<j, c>> \in (0 .. Get(image, l.count) - 1) \X Blocks :
                         EntryOf(image, Len(l.header) + j * l.stride, l.address) = {c} } }

(* A cyclic code word by division.  A polynomial over two elements is the  *)
(* set of its exponents: the message, with the initial value added to its  *)
(* first terms, is reduced from its highest exponent downwards.            *)
Exponents(size, d) == { e \in 0 .. size - 1 : (d \div 2 ^ e) % 2 = 1 }
Shift(s, n) == { e + n : e \in s }
Mirror(size, s) == { size - 1 - e : e \in s }
Number(s) == FoldSet(LAMBDA e, sum : sum + 2 ^ e, 0, s)

Remainder(s, terms, polynomial, n) ==
    FoldLeft(LAMBDA rest, i :
               LET e == n + terms - i
               IN  IF e \in rest THEN SymDiff(rest, Shift(polynomial, e - n) \cup {e}) ELSE rest,
             s, [i \in 1 .. terms |-> i])

CodeWord(k, data) ==
    LET n == Bits * k.width
        terms == Bits * Len(data)
        turn(size, s) == IF k.reflected THEN Mirror(size, s) ELSE s
        message == UNION { Shift(turn(Bits, Exponents(Bits, data[i])), n + Bits * (Len(data) - i)) :
                             i \in DOMAIN data }
        start == Shift(turn(n, Exponents(n, k.initial)), terms)
        rest == Remainder(SymDiff(message, start), terms, turn(n, Exponents(n, k.polynomial)), n)
    IN  Number(turn(n, rest)) ^^ k.xor

(* The hardware recomputes a checksum with its own field cleared.          *)
Checks(k, image) ==
    LET f == ChecksumField(k)
        zero == [i \in DOMAIN image |-> IF i - 1 \in Cells(f) THEN 0 ELSE image[i]]
        data == SubSeq(zero, k.start + 1, k.start + k.length)
        sum == FoldLeft(LAMBDA s, d : s + d, 0, data)
    IN  Get(image, f) =
          CASE k.kind = "crc" -> CodeWord(k, data)
            [] k.kind = "sum" -> IF k.negated THEN (Byte ^ k.width - (sum % Byte ^ k.width)) % Byte ^ k.width
                                 ELSE sum % Byte ^ k.width
            [] k.kind = "xor" -> FoldLeft(LAMBDA x, d : x ^^ d, 0, data)

(* The controller's own report of a list, in the layout of the old table:  *)
(* none where a field of the layout cannot hold what it must say.          *)
StateByte(l, class) ==
    CHOOSE s \in 0 .. Byte - 1 : s \in (CASE class = "factory" -> l.factory
                                          [] class = "system" -> l.system
                                          [] OTHER -> l.runtime)

Report(l, list) ==
    LET base(b) == l.entries + Rank(list, b) * l.stride
        parts(b, buf) ==
            FoldLeft(LAMBDA out, i : Put(out, At(base(b), l.address.parts[i]), PartMeaning(l.address, i, b)),
                     buf, [i \in DOMAIN l.address.parts |-> i])
        entry(b, buf) == Place(parts(b, buf), base(b) + l.state, StateByte(l, list[b]))
        blank == [i \in 1 .. PayloadBytes(R, "read-bbt") |-> 0]
        data == FoldSet(entry, Put(blank, l.count, Cardinality(DOMAIN list)), DOMAIN list)
    IN  IF /\ Get(data, l.count) = Cardinality(DOMAIN list)
           /\ \A b \in DOMAIN list : EntryOf(data, base(b), l.address) = {b}
        THEN data ELSE <<>>

(***************************************************************************)
(* Loading, and operations of any number of steps.                         *)
(***************************************************************************)
Init ==
    /\ recipe \in RecipeIds /\ verdict = "new"
    /\ call = NoCall /\ host = NoList
    /\ unit \in [live : {NoImage}, staged : {NoImage}, generation : Generations, list : {<< >>}]

Load ==
    /\ verdict = "new"
    /\ verdict' = IF Accepts(R) THEN "accepted" ELSE "refused"
    /\ UNCHANGED <<recipe, call, host, unit>>

Begin(op, b, p) ==
    /\ verdict = "accepted" /\ call.op = "none" /\ host.phase = "idle"
    /\ call' = [NoCall EXCEPT !.op = op, !.block = b, !.page = p, !.step = 1, !.result = "running"]
    /\ UNCHANGED <<recipe, verdict, host, unit>>

Step == Steps(R, call.op)[call.step]
Command == R.commands[Step.command]

Advanced(c) ==
    IF c.step < Len(Steps(R, c.op)) THEN [c EXCEPT !.step = @ + 1, !.waiting = FALSE]
    ELSE [c EXCEPT !.waiting = FALSE, !.result = "ok"]

(* execute_named's loop body up to the transport.                          *)
Send ==
    /\ call.result = "running" /\ ~call.waiting
    /\ LET ctx == Context(call.block, call.page)
           sent == [call EXCEPT !.sent = Append(@, Wire(Command, ctx, <<>>, File))]
       IN  call' = IF ~CanSend(Command, ctx, <<>>, File) THEN [call EXCEPT !.result = "encode"]
                   ELSE IF Command.dir = "from" THEN [sent EXCEPT !.waiting = TRUE]
                   ELSE Advanced(sent)
    /\ UNCHANGED <<recipe, verdict, host, unit>>

(* The answer is cut to what was transferred, then decoded.                *)
Answer(data) ==
    /\ call.waiting
    /\ LET rule == Command.rule
           kept == [call EXCEPT
                      !.out = @ + (IF Step.payload THEN Len(Window(rule, data)) ELSE 0),
                      !.names = @ \o (IF Step.fields
                                      THEN [i \in DOMAIN rule.fields |-> rule.fields[i].name]
                                      ELSE <<>>)]
       IN  call' = IF ~InBounds(rule, data) \/ ~Signature(rule, data)
                   THEN [call EXCEPT !.result = "answer", !.waiting = FALSE]
                   ELSE IF ~Readable(rule, data)
                   THEN [call EXCEPT !.result = "bounds", !.waiting = FALSE]
                   ELSE IF ~Expected(rule, data)
                   THEN [call EXCEPT !.result = "answer", !.waiting = FALSE]
                   ELSE IF \E i, j \in DOMAIN kept.names : i # j /\ kept.names[i] = kept.names[j]
                   THEN [kept EXCEPT !.result = "duplicate", !.waiting = FALSE]
                   ELSE Advanced(kept)
    /\ UNCHANGED <<recipe, verdict, host, unit>>

(***************************************************************************)
(* Metadata: rebuild-metadata of the engine, without its durable state.    *)
(***************************************************************************)
Images(h) ==
    LET bbt == BuildBbt(R.out, h.list, h.generation, G)
    IN  [bbt |-> bbt,
         ftl |-> BuildFtl(R.ftl, h.generation, h.user, TotalBlocks(G) - h.user, R.out, bbt),
         cap |-> BuildCapacity(R.cap, h.user, G.page)]

Buildable(h) ==
    /\ CanBuildBbt(R.out, h.list, h.generation, G)
    /\ CanBuildFtl(R.ftl, h.generation, h.user, TotalBlocks(G) - h.user)

(* A value that does not fit its field stops the run here, after the erase.*)
Rebuild(list, user) ==
    /\ verdict = "accepted" /\ call.op = "none" /\ host.phase = "idle"
    /\ DOMAIN list \subseteq Blocks /\ user \in Blocks
    /\ LET h == [list |-> list, generation |-> unit.generation + 1, user |-> user,
                 phase |-> "built", report |-> <<>>, read |-> "none"]
       IN  host' = IF Buildable(h) THEN h ELSE [h EXCEPT !.phase = "stopped"]
    /\ UNCHANGED <<recipe, verdict, call, unit>>

StageOf(phase) ==
    CASE phase = "built" -> [image |-> "bbt", command |-> "prepare-bbt", next |-> "bbt-prepared"]
      [] phase = "bbt-prepared" ->
           [image |-> "ftl", command |-> "prepare-ftl", next |-> "ftl-prepared"]
      [] phase = "ftl-prepared" ->
           [image |-> "cap", command |-> "set-capacity", next |-> "capacity-set"]

StageContext == [Context(0, 0) EXCEPT !.generation = host.generation, !.user = host.user,
                                      !.spare = TotalBlocks(G) - host.user]

Stage ==
    /\ host.phase \in {"built", "bbt-prepared", "ftl-prepared"}
    /\ LET s == StageOf(host.phase)
           image == Images(host)[s.image]
           bytes == IF s.image = "ftl" THEN image.bytes ELSE image
       IN  IF s.image = "cap" /\ ~CanBuildCapacity(R.cap, host.user, G.page)
           THEN host' = [host EXCEPT !.phase = "stopped"] /\ UNCHANGED unit
           ELSE IF ~CanSend(R.commands[s.command], StageContext, bytes, File)
           THEN host' = [host EXCEPT !.phase = "unsent"] /\ UNCHANGED unit
           ELSE /\ host' = [host EXCEPT !.phase = s.next]
                /\ unit' = [unit EXCEPT !.staged[s.image] = image]
    /\ UNCHANGED <<recipe, verdict, call>>

Marked(images) ==
    [images EXCEPT !.bbt = Committed(R.out, @),
                   !.ftl.bytes = Place(@, R.ftl.commit, R.ftl.committed)]

(* activate-metadata: the controller writes both commit bytes at once.     *)
Activate ==
    /\ host.phase = "capacity-set"
    /\ IF CanSend(R.commands["activate-metadata"], StageContext, <<>>, File)
       THEN /\ unit' = [unit EXCEPT !.live = Marked(unit.staged), !.staged = NoImage,
                                    !.generation = host.generation, !.list = host.list]
            /\ host' = [host EXCEPT !.phase = "activated"]
       ELSE host' = [host EXCEPT !.phase = "stopped"] /\ UNCHANGED unit
    /\ UNCHANGED <<recipe, verdict, call>>

(* A unit that restarts takes a staged table that says it is committed.     *)
Adoptable == unit.staged.bbt # <<>> /\ unit.staged.bbt[R.out.commit + 1] = R.out.committed

(* read-bbt: what the unit reports, or that with one byte changed.          *)
Hears(data) ==
    IF ~OldTableValid(data, R.bbt, G) THEN "refused"
    ELSE IF OldTable(data, R.bbt, G)
              = { <<b, IF unit.list[b] \in {"factory", "system"} THEN unit.list[b] ELSE "runtime">> :
                    b \in DOMAIN unit.list }
    THEN "same" ELSE "other"

Ask ==
    /\ host.phase = "activated"
    /\ LET data == Report(R.bbt, unit.list)
       IN  host' = IF data = <<>> THEN [host EXCEPT !.phase = "unreported"]
                   ELSE [host EXCEPT !.phase = "asked", !.report = data]
    /\ UNCHANGED <<recipe, verdict, call, unit>>

Hear ==
    /\ host.phase = "asked"
    /\ host' = [host EXCEPT !.phase = "heard", !.read = Hears(host.report)]
    /\ UNCHANGED <<recipe, verdict, call, unit>>

(* No table: more entries than blocks, one that is no block, one twice.    *)
NoTable(data) ==
    LET n == Get(data, R.bbt.count)
        named == { EntryOf(data, EntryBase(R.bbt, i), R.bbt.address) : i \in 1 .. n }
    IN  n <= TotalBlocks(G) => {} \in named \/ Cardinality(named) < n

HearDamaged(at, byte) ==
    /\ host.phase = "asked"
    /\ at \in DOMAIN host.report /\ host.report[at] # byte
    /\ LET data == [host.report EXCEPT ![at] = byte]
       IN  /\ NoTable(data)
           /\ host' = [host EXCEPT !.phase = "heard",
                                   !.read = IF Hears(data) = "refused" THEN "caught" ELSE "accepted"]
    /\ UNCHANGED <<recipe, verdict, call, unit>>

Next ==
    \/ Load \/ Send \/ Stage \/ Activate \/ Ask \/ Hear
    \/ \E b \in Blocks : Begin("erase-block", b, 0)
    \/ \E b \in Probed \cap Blocks, p \in 0 .. G.pages - 1 : Begin("read-page", b, p)
    \/ Begin("read-status", 0, 0)
    \/ \E n \in 0 .. (IF call.waiting THEN Command.bytes ELSE 0) :
         \E data \in [1 .. n -> Pages] : Answer(data)
    \/ \E list \in Lists, user \in Users : Rebuild(list, user)
    \/ \E at \in 1 .. Damaged, byte \in 0 .. Byte - 1 : HearDamaged(at, byte)

Spec == Init /\ [][Next]_vars

(***************************************************************************)
(* Properties.                                                             *)
(***************************************************************************)
Results == {"none", "running", "ok", "encode", "answer", "bounds", "duplicate"}
Phases == {"idle", "built", "bbt-prepared", "ftl-prepared", "capacity-set", "activated",
           "stopped", "unsent", "unreported", "asked", "heard"}

(* Types: an operation sends at most its steps, each of the length of its  *)
(* command, and the metadata of a run has a generation after the unit's.   *)
TypeOK ==
    /\ recipe \in RecipeIds /\ verdict \in {"new", "accepted", "refused"}
    /\ call.result \in Results /\ host.phase \in Phases
    /\ unit.generation \in Generations \cup { n + 1 : n \in Generations }
    /\ call.op # "none" => Len(call.sent) <= Len(Steps(R, call.op))
    /\ \A k \in DOMAIN call.sent :
         LET c == R.commands[Steps(R, call.op)[k].command]
         IN  Len(call.sent[k].cdb) = Len(c.cdb)
             /\ Len(call.sent[k].data) = (IF c.dir = "to" THEN c.bytes ELSE 0)

(* What a recipe may say of blocks and pages is settled when it is loaded: *)
(* no operation on any block of the geometry fails to be encoded, and      *)
(* every generated image has the length of the command that carries it.    *)
EncodesEveryBlock == call.result # "encode" /\ host.phase # "unsent"

(* The hardware that reads the fields of an operation finds the block the  *)
(* engine meant, and no other where the fields carry the plain numbers.    *)
AimsAtTheBlock ==
    call.result = "ok" /\ call.op \in {"erase-block", "read-page"} =>
      LET hit == Targets(Steps(R, call.op), call.sent)
      IN  call.block \in hit /\ (Plain(call.op) => hit = {call.block})

(* Whatever length and content an answer has, decoding reads only bytes    *)
(* the unit sent, and the parts of an operation add up to its size.        *)
AnswersContained ==
    /\ call.result \notin {"bounds", "duplicate"}
    /\ call.result = "ok" /\ call.op = "read-page" => call.out = G.page

(* The table the hardware finds in a live image is the list of the run     *)
(* that built it, class for class.                                         *)
TableSaysTheList ==
    unit.live.bbt # <<>> /\ host.phase = "activated" =>
      /\ Found(R.out, unit.live.bbt)
           = { <<b, NewState(R.out, unit.list[b])>> : b \in DOMAIN unit.list }
      /\ Get(unit.live.bbt, R.out.generation) = unit.generation
      /\ unit.live.ftl.names = unit.live.bbt

(* Both images verify under the checksum of the recipe after the commit    *)
(* bytes were written, computed by division and not by the code's loops.   *)
CommitKeepsChecksums ==
    host.phase = "activated" /\ unit.live.bbt # <<>> =>
      /\ Checks(R.out.checksum, unit.live.bbt)
      /\ Checks(R.ftl.checksum, unit.live.ftl.bytes)

(* A unit that restarts between preparation and activation still has its   *)
(* old table: no prepared image says that it is committed.                 *)
OldTableUntilActivated == ~Adoptable

(* A table the unit reports is read as it was said, and one that names a   *)
(* block twice, or none, is never taken.                                   *)
ReportsReadTrue == host.read \notin {"other", "refused", "accepted"}

-----------------------------------------------------------------------------
(* What is said of the program and TLC refutes: no run checks it (README,  *)
(* Findings).                                                              *)

(* A loader upload in the one form that is allowed can be loaded.          *)
UploadLoads ==
    verdict = "refused" =>
      ~(R.loader /\ AlcorUpload(R, R.commands["enter-service-mode"], R.artifact))
=============================================================================
