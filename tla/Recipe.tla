------------------------------- MODULE Recipe -------------------------------
(***************************************************************************)
(* The protocol recipe of a controller: what its validation accepts        *)
(* (controller_recipe.rs:567-1761), and the codec that turns a command and *)
(* a block into wire bytes and an answer into values (:1762-2902).         *)
(*                                                                         *)
(* A buffer is a sequence of bytes; an offset counts from 0, as in the     *)
(* code.  A byte has Bits bits and an integer at most Widest bytes, so     *)
(* that every border of a width is met with a few blocks.  Names, texts    *)
(* and the syntax of hexadecimal strings are left out.                     *)
(***************************************************************************)
EXTENDS Integers, FiniteSets, SequencesExt, Bitwise

CONSTANTS
    Bits,         \* bits of a byte: 8 in the code
    Widths,       \* widths of an integer field: 1, 2, 4, 8
    Widest,       \* bytes of the widest integer: 8
    CdbSizes,     \* transport -> lengths of a command block it carries
    MaxTransfer,  \* MAX_COMMAND_TRANSFER
    MaxBlocks,    \* MAX_PHYSICAL_BLOCKS
    MaxSteps,     \* MAX_OPERATION_SEQUENCE_STEPS
    MaxFields,    \* MAX_CONTEXT_PAYLOAD_FIELDS
    MaxOps,       \* MAX_VALUE_OPERATIONS
    DigestBytes,  \* bytes of a SHA-256
    Sector        \* SECTOR_BYTES of the Alcor loader

ASSUME RecipeAssumption ==
    /\ Bits \in Nat \ {0} /\ Widest \in Widths /\ Widths \subseteq 1 .. Widest
    /\ {MaxTransfer, MaxBlocks, MaxSteps, MaxFields, MaxOps, DigestBytes, Sector}
         \subseteq Nat \ {0}

Byte == 2 ^ Bits
U64 == Byte ^ Widest - 1
Fail == -1                      \* Err of an integer computation

Cells(f) == f.at .. f.at + f.width - 1

(***************************************************************************)
(* Integers in a buffer.                                                   *)
(***************************************************************************)
IntegerFits(width, v) == v \in 0 .. Byte ^ width - 1

RangeFits(f, len) == f.at + f.width <= len

Digit(f, v, k) ==
    LET place == IF f.endian = "big" THEN f.width - 1 - k ELSE k
    IN  (v \div Byte ^ place) % Byte

CanPut(buf, f, v) == RangeFits(f, Len(buf)) /\ IntegerFits(f.width, v)

Put(buf, f, v) ==
    SubSeq(buf, 1, f.at) \o [k \in 1 .. f.width |-> Digit(f, v, k - 1)]
      \o SubSeq(buf, f.at + f.width + 1, Len(buf))

Get(buf, f) ==
    LET digits == SubSeq(buf, f.at + 1, f.at + f.width)
    IN  FoldLeft(LAMBDA sum, d : sum * Byte + d, 0,
                 IF f.endian = "big" THEN digits ELSE Reverse(digits))

Disjoint(fields) ==      \* fields: a sequence, so that equal ones count twice
    \A i, j \in DOMAIN fields : i # j => Cells(fields[i]) \cap Cells(fields[j]) = {}

(***************************************************************************)
(* Values computed for a field: each operation fails on overflow.          *)
(***************************************************************************)
Checked(v) == IF v \in 0 .. U64 THEN v ELSE Fail

Operate(v, o) ==
    IF v = Fail THEN Fail
    ELSE CASE o.kind = "add" -> Checked(v + o.n)
           [] o.kind = "subtract" -> Checked(v - o.n)
           [] o.kind = "multiply" -> Checked(v * o.n)
           [] o.kind = "divide" -> v \div o.n
           [] o.kind = "modulo" -> v % o.n
           [] o.kind = "xor-modulo" -> v ^^ (v % o.n)
           [] o.kind = "and" -> v & o.n
           [] o.kind = "or" -> v | o.n
           [] o.kind = "shift-left" -> Checked(v * 2 ^ o.n)
           [] o.kind = "shift-right" -> v \div 2 ^ o.n

Apply(v, ops) == FoldLeft(Operate, v, ops)

OperationsValid(ops) ==
    /\ Len(ops) <= MaxOps
    /\ \A i \in DOMAIN ops :
         /\ ops[i].kind \in {"divide", "modulo", "xor-modulo"} => ops[i].n # 0
         /\ ops[i].kind \in {"shift-left", "shift-right"} => ops[i].n < Bits * Widest

(***************************************************************************)
(* Blocks and their coordinates.                                           *)
(***************************************************************************)
TotalBlocks(g) == g.channels * g.chips * g.luns * g.blocks

Coordinate(b, g) ==
    LET upper == b \div g.blocks
    IN  [channel |-> upper \div (g.luns * g.chips), chip |-> (upper \div g.luns) % g.chips,
         lun |-> upper % g.luns, plane |-> (b % g.blocks) % g.planes,
         block |-> b % g.blocks, flat |-> b,
         page |-> 0, bytes |-> 0, generation |-> 0, user |-> 0, spare |-> 0]

GeometryValid(g) ==
    /\ {g.channels, g.chips, g.luns, g.planes, g.blocks, g.pages, g.page} \subseteq Nat \ {0}
    /\ g.blocks % g.planes = 0
    /\ TotalBlocks(g) <= MaxBlocks

(* The three ways an entry of a table names its block.                     *)
PartNames(kind) ==
    CASE kind = "flat" -> <<"flat">>
      [] kind = "coordinates" -> <<"channel", "chip", "lun", "block">>
      [] kind = "planes" -> <<"channel", "chip", "lun", "plane", "block">>

PartValue(a, i, b, g) ==
    LET name == PartNames(a.kind)[i]
        v == Coordinate(b, g)[name]
    IN  IF a.kind = "planes" /\ name = "block" THEN v \div g.planes ELSE v

PartLimit(a, i, g) ==
    LET name == PartNames(a.kind)[i]
    IN  CASE name = "flat" -> TotalBlocks(g)
          [] name = "channel" -> g.channels
          [] name = "chip" -> g.chips
          [] name = "lun" -> g.luns
          [] name = "plane" -> g.planes
          [] name = "block" -> IF a.kind = "planes" THEN g.blocks \div g.planes ELSE g.blocks

At(base, f) == [f EXCEPT !.at = @ + base]

CanEncode(buf, base, a, b, g) ==
    \A i \in DOMAIN a.parts : CanPut(buf, At(base, a.parts[i]), PartValue(a, i, b, g))

Encode(buf, base, a, b, g) ==
    FoldLeft(LAMBDA out, i : Put(out, At(base, a.parts[i]), PartValue(a, i, b, g)),
             buf, [i \in DOMAIN a.parts |-> i])

(* Err for a coordinate outside the geometry; a flat number is compared    *)
(* with the number of blocks by decode_old_bbt, which is the same test.    *)
Decode(buf, base, a, g) ==
    LET part == [i \in DOMAIN a.parts |-> Get(buf, At(base, a.parts[i]))]
        upper == (part[1] * g.chips + part[2]) * g.luns + part[3]
    IN  IF \E i \in DOMAIN part : part[i] >= PartLimit(a, i, g) THEN Fail
        ELSE CASE a.kind = "flat" -> part[1]
               [] a.kind = "coordinates" -> upper * g.blocks + part[4]
               [] a.kind = "planes" -> upper * g.blocks + part[5] * g.planes + part[4]

(***************************************************************************)
(* Commands: the block of a command, the payload of a context.             *)
(***************************************************************************)
(* The values of the bindings of fields in a context, where they all fit.  *)
Bound(f, ctx) == Apply(ctx[f.value], f.ops)

CanBind(buf, fields, ctx) ==
    \A i \in DOMAIN fields : CanPut(buf, fields[i], Bound(fields[i], ctx))

Bind(buf, fields, ctx) ==
    FoldLeft(LAMBDA out, f : Put(out, f, Bound(f, ctx)), buf, fields)

Constants(p) ==
    FoldLeft(LAMBDA out, c : Put(out, c, c.n), [i \in 1 .. p.record |-> p.fill], p.constants)

ContextPayload(p, ctx) ==
    LET record == Bind(Constants(p), p.fields, ctx)
    IN  [i \in 1 .. p.record * p.repeat |-> record[((i - 1) % p.record) + 1]]

(* command_payload: a generated payload is the caller's, an artifact is    *)
(* read from the file the core passed.                                     *)
Payload(c, ctx, caller, file) ==
    CASE c.payload.kind = "none" -> <<>>
      [] c.payload.kind = "context" -> ContextPayload(c.payload, ctx)
      [] c.payload.kind = "artifact" ->
           SubSeq(file, c.payload.offset + 1,
                  IF c.payload.length = 0 THEN Len(file) ELSE c.payload.offset + c.payload.length)
      [] OTHER -> caller

(* execute_recipe_command up to the transport: the payload's length is     *)
(* known only to the fields of the command block.                          *)
Measured(ctx, payload) == [ctx EXCEPT !.bytes = Len(payload)]

CanSend(c, ctx, caller, file) ==
    /\ c.payload.kind = "context" => CanBind(Constants(c.payload), c.payload.fields, ctx)
    /\ LET payload == Payload(c, ctx, caller, file)
       IN  /\ CanBind(c.cdb, c.fields, Measured(ctx, payload))
           /\ Len(payload) = IF c.dir = "to" THEN c.bytes ELSE 0

Wire(c, ctx, caller, file) ==
    LET payload == Payload(c, ctx, caller, file)
    IN  [cdb |-> Bind(c.cdb, c.fields, Measured(ctx, payload)), data |-> payload]

(***************************************************************************)
(* Answers.                                                                *)
(***************************************************************************)
InBounds(rule, data) == Len(data) \in rule.min .. rule.max

Signature(rule, data) ==
    Len(rule.prefix) <= Len(data) /\ SubSeq(data, 1, Len(rule.prefix)) = rule.prefix

Masked(f, data) == IF f.mask = 0 THEN Get(data, f) ELSE Get(data, f) & f.mask

Expected(rule, data) ==
    \A i \in DOMAIN rule.fields :
      rule.fields[i].equals # Fail => Masked(rule.fields[i], data) = rule.fields[i].equals

(* The reads of decode_response and response_payload stay in the answer.   *)
Readable(rule, data) ==
    /\ \A i \in DOMAIN rule.fields : RangeFits(rule.fields[i], Len(data))
    /\ rule.bytes # 0 => rule.start + rule.bytes <= Len(data)

Window(rule, data) ==
    IF rule.bytes = 0 THEN data ELSE SubSeq(data, rule.start + 1, rule.start + rule.bytes)

(***************************************************************************)
(* The table of bad blocks a controller reports.                           *)
(***************************************************************************)
StateClass(l, s) ==
    CASE s \in l.factory -> "factory" [] s \in l.runtime -> "runtime"
      [] s \in l.system -> "system" [] OTHER -> "unknown"

EntryBase(l, i) == l.entries + (i - 1) * l.stride

(* The entries of a table, <<block, class>>.                               *)
Entry(data, l, g, i) ==
    << Decode(data, EntryBase(l, i), l.address, g),
       StateClass(l, data[EntryBase(l, i) + l.state + 1]) >>

OldTable(data, l, g) == { Entry(data, l, g, i) : i \in 1 .. Get(data, l.count) }

OldTableValid(data, l, g) ==
    /\ Get(data, l.count) <= l.maximum /\ Get(data, l.count) <= TotalBlocks(g)
    /\ \A e \in OldTable(data, l, g) : e[1] # Fail /\ e[2] # "unknown"
    /\ Cardinality({ e[1] : e \in OldTable(data, l, g) }) = Get(data, l.count)

(***************************************************************************)
(* Checksums: the loops of checksum_value, a bit at a time.                *)
(***************************************************************************)
ChecksumWidth(k) == IF k.kind = "xor" THEN 1 ELSE k.width

ChecksumValid(k) ==
    CASE k.kind = "crc" -> /\ k.width \in Widths /\ k.polynomial # 0
                           /\ \A n \in {k.polynomial, k.initial, k.xor} : IntegerFits(k.width, n)
      [] k.kind = "sum" -> k.width \in Widths
      [] k.kind = "xor" -> TRUE

Crc(k, data) ==
    LET size == Byte ^ k.width
        low(r) == IF r % 2 = 1 THEN (r \div 2) ^^ k.polynomial ELSE r \div 2
        high(r) == IF r >= size \div 2 THEN ((2 * r) % size) ^^ k.polynomial ELSE 2 * r
        bits == [i \in 1 .. Bits |-> i]
        byte(r, d) == IF k.reflected THEN FoldLeft(LAMBDA x, i : low(x), r ^^ d, bits)
                      ELSE FoldLeft(LAMBDA x, i : high(x), r ^^ (d * (size \div Byte)), bits)
    IN  FoldLeft(byte, k.initial, data) ^^ k.xor

ChecksumOf(k, data) ==
    CASE k.kind = "crc" -> Crc(k, data)
      [] k.kind = "xor" -> FoldLeft(LAMBDA x, d : x ^^ d, 0, data)
      [] k.kind = "sum" -> LET sum == FoldLeft(LAMBDA s, d : s + d, 0, data) % Byte ^ k.width
                           IN  IF k.negated THEN (-sum) % Byte ^ k.width ELSE sum

ChecksumField(k) == [at |-> k.at, width |-> ChecksumWidth(k), endian |-> k.endian]

Covered(k, buf) == SubSeq(buf, k.start + 1, k.start + k.length)

WriteChecksum(buf, k) ==
    LET zero == Put(buf, ChecksumField(k), 0)
    IN  Put(zero, ChecksumField(k), ChecksumOf(k, Covered(k, zero)))

(***************************************************************************)
(* The images of a new generation.  list: block -> class of what the new   *)
(* table lists, in the order of the blocks.                                *)
(***************************************************************************)
Blank(l, size) == [i \in 1 .. size |-> IF i <= Len(l.header) THEN l.header[i] ELSE l.fill]

Place(buf, at, byte) == [buf EXCEPT ![at + 1] = byte]

NewState(l, class) ==
    CASE class = "factory" -> l.factory [] class = "system" -> l.system [] OTHER -> l.quarantined

Rank(list, b) == Cardinality({ c \in DOMAIN list : c < b })

NewBase(l, list, b) == Len(l.header) + Rank(list, b) * l.stride

CanBuildBbt(l, list, generation, g) ==
    LET blank == Blank(l, l.maximum)
    IN  /\ Len(l.header) + Cardinality(DOMAIN list) * l.stride <= l.maximum
        /\ CanPut(blank, l.generation, generation)
        /\ CanPut(blank, l.count, Cardinality(DOMAIN list))
        /\ \A b \in DOMAIN list : CanEncode(blank, NewBase(l, list, b), l.address, b, g)

BuildBbt(l, list, generation, g) ==
    LET head == Put(Put(Blank(l, l.maximum), l.generation, generation),
                    l.count, Cardinality(DOMAIN list))
        entry(buf, b) == Place(Encode(buf, NewBase(l, list, b), l.address, b, g),
                               NewBase(l, list, b) + l.state, NewState(l, list[b]))
        ordered == [i \in 1 .. Cardinality(DOMAIN list) |->
                      CHOOSE b \in DOMAIN list : Rank(list, b) = i - 1]
    IN  WriteChecksum(Place(FoldLeft(entry, head, ordered), l.commit, l.prepare), l.checksum)

Committed(l, image) == Place(image, l.commit, l.committed)

CanBuildFtl(l, generation, user, spare) ==
    LET blank == Blank(l, l.total)
    IN  CanPut(blank, l.generation, generation) /\ CanPut(blank, l.user, user)
        /\ CanPut(blank, l.spare, spare)

(* The digest of the committed table is kept beside the bytes, as itself;  *)
(* its place in the image matters to the validation only.                  *)
BuildFtl(l, generation, user, spare, outLayout, bbt) ==
    [bytes |-> WriteChecksum(
                 Place(Put(Put(Put(Blank(l, l.total), l.generation, generation), l.user, user),
                           l.spare, spare), l.commit, l.prepare), l.checksum),
     names |-> Committed(outLayout, bbt)]

CapacityValue(l, user, blockBytes) ==
    IF l.unit = "user-blocks" THEN user ELSE Checked(user * blockBytes)

CanBuildCapacity(l, user, blockBytes) ==
    CanPut(Blank(l, l.total), l.value, CapacityValue(l, user, blockBytes))

BuildCapacity(l, user, blockBytes) ==
    Put(Blank(l, l.total), l.value, CapacityValue(l, user, blockBytes))

(***************************************************************************)
(* Validation.                                                             *)
(***************************************************************************)
WidthValid(f) == f.width \in Widths

AddressValid(a, len) ==
    /\ \A i \in DOMAIN a.parts : WidthValid(a.parts[i]) /\ RangeFits(a.parts[i], len)
    /\ Disjoint(a.parts)

(* The state byte of an entry lies in it and is not part of the address.   *)
EntryValid(l) ==
    /\ l.stride # 0 /\ AddressValid(l.address, l.stride) /\ l.state < l.stride
    /\ Disjoint(Append(l.address.parts, [at |-> l.state, width |-> 1]))

OldLayoutValid(l) ==
    /\ WidthValid(l.count) /\ l.maximum # 0 /\ EntryValid(l)
    /\ {} \notin {l.factory, l.runtime, l.system}
    /\ l.factory \cap l.runtime = {} /\ l.factory \cap l.system = {}
    /\ l.runtime \cap l.system = {}

ChecksumRange(k, total, commit) ==
    /\ k.length # 0 /\ k.start + k.length <= total
    /\ commit \notin k.start .. k.start + k.length - 1

One(at) == [at |-> at, width |-> 1]

BbtLayoutValid_Marker(l) ==   \* mutant: prepare and commit may be one value
    /\ ChecksumValid(l.checksum) /\ l.maximum \in 1 .. MaxTransfer /\ EntryValid(l)
    /\ Len(l.header) <= l.maximum
    /\ LET managed == <<l.generation, l.count, ChecksumField(l.checksum), One(l.commit)>>
       IN  /\ \A i \in DOMAIN managed : RangeFits(managed[i], Len(l.header))
           /\ WidthValid(l.generation) /\ WidthValid(l.count)
           /\ Disjoint(managed)
    /\ ChecksumRange(l.checksum, l.maximum, l.commit)

BbtLayoutValid(l) ==
    /\ ChecksumValid(l.checksum) /\ l.maximum \in 1 .. MaxTransfer /\ EntryValid(l)
    /\ Len(l.header) <= l.maximum
    /\ LET managed == <<l.generation, l.count, ChecksumField(l.checksum), One(l.commit)>>
       IN  /\ \A i \in DOMAIN managed : RangeFits(managed[i], Len(l.header))
           /\ WidthValid(l.generation) /\ WidthValid(l.count)
           /\ Disjoint(managed)
    /\ l.prepare # l.committed
    /\ ChecksumRange(l.checksum, l.maximum, l.commit)

FtlLayoutValid(l) ==
    /\ ChecksumValid(l.checksum) /\ l.total \in 1 .. MaxTransfer /\ Len(l.header) <= l.total
    /\ LET managed == <<l.generation, l.user, l.spare, [at |-> l.digest, width |-> DigestBytes],
                        ChecksumField(l.checksum), One(l.commit)>>
       IN  /\ \A i \in DOMAIN managed : RangeFits(managed[i], l.total)
           /\ \A i \in 1 .. 3 : WidthValid(managed[i])
           /\ Disjoint(managed)
    /\ l.prepare # l.committed
    /\ ChecksumRange(l.checksum, l.total, l.commit)

CapacityLayoutValid(l) ==
    /\ l.total \in 1 .. MaxTransfer /\ Len(l.header) <= l.total
    /\ WidthValid(l.value) /\ RangeFits(l.value, l.total)


(* The answer of a command: every field, the payload and the signature lie *)
(* in the shortest answer it accepts.                                      *)
ResponseValid(rule) ==
    /\ rule.min <= rule.max /\ rule.max <= MaxTransfer
    /\ Len(rule.prefix) <= rule.min
    /\ IF rule.bytes = 0 THEN rule.start = 0 ELSE rule.start + rule.bytes <= rule.min
    /\ \A i, j \in DOMAIN rule.fields : i # j => rule.fields[i].name # rule.fields[j].name
    /\ \A i \in DOMAIN rule.fields :
         LET f == rule.fields[i]
         IN  /\ WidthValid(f) /\ RangeFits(f, rule.min) /\ IntegerFits(f.width, f.mask)
             /\ f.equals # Fail => /\ IntegerFits(f.width, f.equals)
                                   /\ f.mask # 0 => f.equals & f.mask = f.equals
    /\ Disjoint(rule.fields)

DirectionValid(c) ==
    CASE c.dir = "none" -> c.bytes = 0 /\ c.payload.kind = "none" /\ c.rule.max = 0
      [] c.dir = "from" -> c.bytes # 0 /\ c.payload.kind = "none" /\ c.rule.max <= c.bytes
      [] c.dir = "to" -> c.bytes # 0 /\ c.payload.kind # "none" /\ c.rule.max = 0

ArtifactValid(c, size) ==
    c.payload.kind = "artifact" =>
      LET p == c.payload
          n == IF p.length = 0 THEN size - p.offset ELSE p.length
      IN  n >= 0 /\ p.offset + n <= size /\ n = c.bytes

ContextValid(c) ==
    c.payload.kind = "context" =>
      LET p == c.payload
      IN  /\ c.dir = "to" /\ p.record # 0 /\ p.repeat # 0 /\ p.record * p.repeat = c.bytes
          /\ Len(p.fields) + Len(p.constants) <= MaxFields
          /\ \A i \in DOMAIN p.constants :
               RangeFits(p.constants[i], p.record)
               /\ IntegerFits(p.constants[i].width, p.constants[i].n)
          /\ \A i \in DOMAIN p.fields :
               RangeFits(p.fields[i], p.record) /\ OperationsValid(p.fields[i].ops)
          /\ Disjoint(p.constants \o p.fields)

(* No field reaches the operation code.                                    *)
BindingsValid(c) ==
    /\ \A i \in DOMAIN c.fields :
         /\ c.fields[i].at # 0 /\ WidthValid(c.fields[i]) /\ RangeFits(c.fields[i], Len(c.cdb))
         /\ OperationsValid(c.fields[i].ops)
    /\ Disjoint(c.fields)

CommandValid(c, transport, size) ==
    /\ Len(c.cdb) \in CdbSizes[transport] /\ c.bytes <= MaxTransfer
    /\ DirectionValid(c) /\ ArtifactValid(c, size) /\ ContextValid(c)
    /\ BindingsValid(c) /\ ResponseValid(c.rule)

(* resolve_operation_steps: the steps of an operation, each [command,      *)
(* payload, fields]: what it captures.                                     *)
Steps(r, op) ==
    IF op \in DOMAIN r.sequences THEN r.sequences[op]
    ELSE LET read == r.commands[op].dir = "from"
         IN  << [command |-> op, payload |-> read, fields |-> read] >>

CapturedFields(r, steps) ==
    FoldLeft(LAMBDA out, s : IF s.fields THEN out \o r.commands[s.command].rule.fields ELSE out,
             <<>>, steps)

SequenceValid(r, op) ==
    LET steps == r.sequences[op]
        captured == CapturedFields(r, steps)
    IN  /\ op \in DOMAIN r.commands /\ Len(steps) \in 2 .. MaxSteps
        /\ \A i \in DOMAIN steps : steps[i].command \in DOMAIN r.commands
        /\ \A i, j \in DOMAIN steps : i # j => steps[i].command # steps[j].command
        /\ \E i \in DOMAIN steps : steps[i].command = op
        /\ \A i \in DOMAIN steps :
             LET c == r.commands[steps[i].command]
             IN  /\ steps[i].payload \/ steps[i].fields => c.dir = "from"
                 /\ steps[i].payload => c.rule.bytes # 0
        /\ \A i, j \in DOMAIN captured : i # j => captured[i].name # captured[j].name

(* Every step-* command is part of some sequence.                          *)
SequencesValid(r) ==
    /\ \A op \in DOMAIN r.sequences : SequenceValid(r, op)
    /\ \A name \in DOMAIN r.commands \cap r.helpers :
         \E op \in DOMAIN r.sequences :
           \E i \in DOMAIN r.sequences[op] : r.sequences[op][i].command = name

(* What the bindings of an operation's steps name, wherever they are.      *)
Bindings(c) == c.fields \o (IF c.payload.kind = "context" THEN c.payload.fields ELSE <<>>)

Names(r, op) ==
    UNION { { f.value : f \in ToSet(Bindings(r.commands[Steps(r, op)[i].command])) } :
              i \in DOMAIN Steps(r, op) }

AddressBound(r, op) ==
    ("flat" \in Names(r, op)) # ({"channel", "chip", "lun", "block"} \subseteq Names(r, op))

(* A captured payload has a fixed size, and one captured step is signed.   *)
PayloadFixed(r, op) ==
    \A s \in ToSet(Steps(r, op)) : s.payload => r.commands[s.command].rule.bytes # 0

Signed(r, op) ==
    \E s \in ToSet(Steps(r, op)) :
      (s.payload \/ s.fields) /\ r.commands[s.command].rule.prefix # <<>>

PayloadBytes(r, op) ==
    FoldLeft(LAMBDA n, s : IF s.payload THEN n + r.commands[s.command].rule.bytes ELSE n,
             0, Steps(r, op))

(* Every input a field can be given, but the generation, which has no      *)
(* bound: the result of its operations is computed and fits.               *)
Largest(value, c, g) ==
    CASE value = "channel" -> g.channels - 1 [] value = "chip" -> g.chips - 1
      [] value = "lun" -> g.luns - 1 [] value = "plane" -> g.planes - 1
      [] value = "block" -> g.blocks - 1 [] value = "page" -> g.pages - 1
      [] value = "flat" -> TotalBlocks(g) - 1 [] value = "bytes" -> c.bytes
      [] OTHER -> TotalBlocks(g)

RuntimeFits_Exclusive(c, g) ==   \* mutant: the largest input is left out
    \A f \in ToSet(Bindings(c)) :
      f.value # "generation" =>
        \A v \in 0 .. Largest(f.value, c, g) - 1 : IntegerFits(f.width, Apply(v, f.ops))

RuntimeFits(c, g) ==
    \A f \in ToSet(Bindings(c)) :
      f.value # "generation" =>
        \A v \in 0 .. Largest(f.value, c, g) : IntegerFits(f.width, Apply(v, f.ops))

(* The one form an Alcor loader upload may have.                           *)
AlcorUpload(r, c, size) ==
    /\ r.transport = "usb-bot" /\ c.dir = "to" /\ Len(c.fields) = 1
    /\ c.fields[1].at = 3 /\ c.fields[1].width = 1 /\ c.fields[1].value = "bytes"
    /\ c.fields[1].ops = << [kind |-> "divide", n |-> Sector], [kind |-> "subtract", n |-> 1] >>
    /\ c.payload.kind = "artifact" /\ c.payload.offset = 0 /\ c.payload.length = 0
    /\ size >= 2 * Sector /\ size % Sector = 0 /\ c.bytes = size
    /\ LET ctx == [Coordinate(0, [channels |-> 1, chips |-> 1, luns |-> 1, planes |-> 1,
                                  blocks |-> 1]) EXCEPT !.bytes = size]
       IN  Bind(c.cdb, c.fields, ctx)[4] = size \div Sector - 1

LoaderValid(r) ==
    r.loader => AlcorUpload(r, r.commands["enter-service-mode"], r.artifact)

(* The roles of the commands and the sizes of their transfers.             *)
Contract(r, name, dir, kind) ==
    r.commands[name].dir = dir /\ r.commands[name].payload.kind = kind

ContractsValid(r) ==
    /\ Contract(r, "read-bbt", "from", "none") /\ Contract(r, "read-page", "from", "none")
    /\ Contract(r, "prepare-bbt", "to", "bbt") /\ Contract(r, "prepare-ftl", "to", "ftl")
    /\ Contract(r, "set-capacity", "to", "capacity")
    /\ Contract(r, "erase-block", "none", "none") \/ Contract(r, "erase-block", "to", "context")
    /\ {"busy", "failed"} \subseteq
         { f.name : f \in ToSet(CapturedFields(r, Steps(r, "read-status"))) }
    /\ AddressBound(r, "read-page") /\ AddressBound(r, "erase-block")
    /\ "page" \in Names(r, "read-page") /\ "generation" \in Names(r, "activate-metadata")
    /\ \A op \in {"read-bbt", "read-status"} : Signed(r, op)
    /\ \A op \in {"read-bbt", "read-page"} : PayloadFixed(r, op)

SizesValid(r, g) ==
    /\ RangeFits(r.bbt.count, PayloadBytes(r, "read-bbt"))
    /\ r.bbt.entries + r.bbt.maximum * r.bbt.stride <= PayloadBytes(r, "read-bbt")
    /\ r.bbt.maximum >= TotalBlocks(g)
    /\ PayloadBytes(r, "read-page") = g.page
    /\ Len(r.out.header) + TotalBlocks(g) * r.out.stride <= r.out.maximum
    /\ r.commands["prepare-bbt"].bytes = r.out.maximum
    /\ r.commands["prepare-ftl"].bytes = r.ftl.total
    /\ r.commands["set-capacity"].bytes = r.cap.total

Accepts(r) ==
    LET g == r.geometry IN
    /\ GeometryValid(g)
    /\ \A name \in DOMAIN r.commands : CommandValid(r.commands[name], r.transport, r.artifact)
    /\ SequencesValid(r) /\ ContractsValid(r)
    /\ OldLayoutValid(r.bbt) /\ BbtLayoutValid(r.out) /\ FtlLayoutValid(r.ftl)
    /\ CapacityLayoutValid(r.cap)
    /\ LoaderValid(r)
    /\ \A name \in DOMAIN r.commands : RuntimeFits(r.commands[name], g)
    /\ \A name \in DOMAIN r.commands :
         LET c == r.commands[name]
         IN  c.payload.kind = "context" =>
               \A b \in 0 .. TotalBlocks(g) - 1 :
                 CanBind(Constants(c.payload), c.payload.fields, Coordinate(b, g))
    /\ SizesValid(r, g)
=============================================================================
