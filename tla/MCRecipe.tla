------------------------------ MODULE MCRecipe ------------------------------
(***************************************************************************)
(* Recipe files for RecipeSession: one that is right, and that one with a  *)
(* part replaced, by forms the validation must refuse as well as by forms  *)
(* it must accept.  A byte has two bits, so that eight blocks need two.    *)
(***************************************************************************)
EXTENDS RecipeSession, TLC

MCWidths == {1, 2, 4}
MCCdbSizes == ("scsi" :> {6}) @@ ("usb-bot" :> {4, 6})
MCPages == {0, 1}
MCUsers == {5}
MCLists == { << >>, (7 :> "factory"), [b \in {0, 3, 5} |-> "runtime"],
             (1 :> "system") @@ (2 :> "quarantined") @@ (6 :> "factory"),
             [b \in 0 .. 7 |-> IF b = 4 THEN "system" ELSE "quarantined"] }

Whole(at, width, endian) == [at |-> at, width |-> width, endian |-> endian]
Field(at, width, endian, value, ops) ==
    [at |-> at, width |-> width, endian |-> endian, value |-> value, ops |-> ops]
Op(kind, n) == [kind |-> kind, n |-> n]
Nothing == [kind |-> "none"]
Silent == [min |-> 0, max |-> 0, prefix |-> <<>>, start |-> 0, bytes |-> 0, fields |-> <<>>]
Says(name, at, width, mask, equals) ==
    [name |-> name, at |-> at, width |-> width, endian |-> "big", mask |-> mask, equals |-> equals]
Plainly(fields) ==
    [cdb |-> <<3, 0, 0, 0, 0, 0>>, dir |-> "none", bytes |-> 0, fields |-> fields,
     payload |-> Nothing, rule |-> Silent]
Reads(n, fields, rule) == [Plainly(fields) EXCEPT !.dir = "from", !.bytes = n, !.rule = rule]
Writes(n, payload) == [Plainly(<<>>) EXCEPT !.dir = "to", !.bytes = n, !.payload = payload]
Rule(min, max, prefix, start, bytes, fields) ==
    [min |-> min, max |-> max, prefix |-> prefix, start |-> start, bytes |-> bytes, fields |-> fields]

Flat == << Field(1, 2, "big", "flat", <<>>) >>
PageField(at) == << Field(at, 1, "big", "page", <<>>) >>
StatusFields == << Says("busy", 1, 1, 0, Fail), Says("failed", 2, 1, 1, Fail) >>

Address(kind, width, endian) ==
    [kind |-> kind,
     parts |-> [i \in DOMAIN PartNames(kind) |-> Whole((i - 1) * width, width, endian)]]
EndOf(a) == a.parts[Len(a.parts)].at + a.parts[Len(a.parts)].width

Reported(a, countWidth) ==
    [count |-> Whole(0, countWidth, "big"), entries |-> countWidth, stride |-> EndOf(a) + 1,
     address |-> a, state |-> EndOf(a), factory |-> {1}, runtime |-> {2}, system |-> {3},
     maximum |-> 8]
Sum(width, at, start, length) ==
    [kind |-> "sum", width |-> width, negated |-> FALSE, at |-> at, endian |-> "big",
     start |-> start, length |-> length]
NewTable(a) ==
    [header |-> <<3, 3, 3, 3, 3, 3, 3, 3>>, fill |-> 3, stride |-> EndOf(a) + 1, address |-> a,
     state |-> EndOf(a), factory |-> 1, quarantined |-> 2, system |-> 3,
     generation |-> Whole(0, 1, "big"), count |-> Whole(1, 2, "little"),
     checksum |-> Sum(2, 3, 8, 8), commit |-> 7, prepare |-> 1, committed |-> 2,
     maximum |-> 8 + 8 * (EndOf(a) + 1)]
Mapping ==
    [header |-> <<3>>, fill |-> 0, generation |-> Whole(0, 1, "big"), user |-> Whole(1, 2, "big"),
     spare |-> Whole(3, 2, "little"), digest |-> 5, checksum |-> Sum(1, 7, 0, 8), commit |-> 9,
     prepare |-> 1, committed |-> 2, total |-> 10]
Capacity(width, u) ==
    [header |-> <<3>>, fill |-> 0, value |-> Whole(1, width, "big"), unit |-> u, total |-> 3]

BaseCommands ==
    ("erase-block" :> Plainly(Flat))
    @@ ("read-page" :> Reads(3, Flat \o PageField(3), Rule(3, 3, <<1>>, 1, 2, <<>>)))
    @@ ("read-status" :> Reads(3, <<>>, Rule(3, 3, <<1>>, 0, 0, StatusFields)))
    @@ ("read-bbt" :> Reads(27, <<>>, Rule(27, 27, <<1>>, 1, 26, <<>>)))
    @@ ("prepare-bbt" :> Writes(32, [kind |-> "bbt"]))
    @@ ("prepare-ftl" :> Writes(10, [kind |-> "ftl"]))
    @@ ("set-capacity" :> Writes(3, [kind |-> "capacity"]))
    @@ ("activate-metadata" :> Plainly(<< Field(1, 1, "big", "generation", <<>>) >>))
    @@ ("enter-service-mode" :> Plainly(<<>>))

Square == [channels |-> 1, chips |-> 2, luns |-> 2, planes |-> 2, blocks |-> 2, pages |-> 2, page |-> 2]
Base ==
    [transport |-> "usb-bot", commands |-> BaseCommands, sequences |-> << >>, helpers |-> {"step-address", "step-first"},
     bbt |-> Reported(Address("flat", 2, "big"), 2), out |-> NewTable(Address("flat", 2, "big")),
     ftl |-> Mapping, cap |-> Capacity(2, "user-blocks"), loader |-> FALSE, artifact |-> 4,
     geometry |-> Square]

(* Ways to say which block: plain, computed, too narrow, overlapping,      *)
(* mixed, in the payload, or in a step of its own.                         *)
Coordinates(w, e) ==
    << Field(1, w, e, "channel", <<>>), Field(2, w, e, "chip", <<>>),
       Field(3, w, e, "lun", <<>>), Field(4, w, e, "block", <<>>) >>
AddressFields ==
    { << Field(at, w, e, "flat", <<>>) >> : at \in {0, 1, 4, 5}, w \in MCWidths, e \in {"big", "little"} }
    \cup { Coordinates(w, "big") : w \in {1, 2} }
    \cup { Append(Flat, Field(3, 1, "big", "chip", <<>>)),
           << Field(1, 1, "big", "flat", <<Op("modulo", 4)>>), Field(2, 1, "big", "flat", <<Op("divide", 4)>>) >>,
           << Field(1, 1, "big", "flat", <<Op("and", 3)>>), Field(2, 1, "big", "flat", <<Op("shift-right", 2)>>) >>,
           << Field(1, 1, "big", "flat", <<Op("and", 3)>>) >>,
           << Field(1, 1, "big", "flat", <<Op("subtract", 1)>>), Field(2, 1, "big", "chip", <<>>) >>,
           << Field(1, 1, "big", "flat", <<Op("divide", 0)>>) >>,
           << Field(1, 2, "big", "flat", <<Op("xor-modulo", 3)>>) >>,
           << Field(1, 2, "big", "flat", <<Op("multiply", 2), Op("add", 1)>>) >>,
           << Field(1, 2, "big", "flat", <<Op("or", 8)>>) >>,
           << Field(1, 1, "big", "flat", <<Op("divide", 7), Op("add", 3)>>) >>,
           << Field(1, 4, "big", "flat", <<Op("shift-left", 5)>>) >>,
           << Field(1, 4, "big", "flat", <<Op("shift-left", 6)>>) >>,
           << Field(1, 2, "big", "channel", <<>>), Field(3, 1, "big", "chip", <<>>) >> }

Contexts ==
    { [kind |-> "context", record |-> r, repeat |-> n, fill |-> 0,
       constants |-> << [at |-> c, width |-> 1, endian |-> "big", n |-> 3] >>,
       fields |-> << Field(1, w, e, "flat", ops) >>] :
        r \in {2, 3}, n \in {1, 2}, c \in {0, 1}, w \in {1, 2}, e \in {"big", "little"},
        ops \in {<<>>, <<Op("divide", 2)>>} }

AddressIds ==
    { <<"erase", f>> : f \in AddressFields } \cup { <<"read", f>> : f \in AddressFields }
    \cup { <<"context", n, p>> : n \in {3, 6}, p \in Contexts }
    \cup { <<"transport", t, c>> : t \in {"usb-bot", "scsi"}, c \in {<<3, 0, 0, 0>>, <<3, 0, 0>>} }

(* Other shapes of eight blocks, and one that is not eight.                *)
Shape(c, n, l, p, b) ==
    [Square EXCEPT !.channels = c, !.chips = n, !.luns = l, !.planes = p, !.blocks = b]
GeometryIds ==
    { <<"geometry", g, f, k>> :
        g \in { Shape(2, 2, 1, 1, 2), Shape(1, 1, 2, 2, 4), Shape(2, 1, 1, 4, 4), Shape(1, 3, 1, 2, 2),
                Shape(1, 1, 1, 2, 3), Shape(3, 1, 1, 1, 3) },
        f \in { Flat, Coordinates(1, "big"), Append(Coordinates(1, "big"), Field(5, 1, "big", "plane", <<>>)) },
        k \in {"coordinates", "planes"} }

Step2(command, payload, fields) == [command |-> command, payload |-> payload, fields |-> fields]
Stepped(op, steps, commands) ==
    [Base EXCEPT !.sequences = op :> steps, !.commands = commands @@ Base.commands]
HalfPage(at) == Reads(2, Flat \o PageField(3), Rule(2, 2, <<1>>, 1, 1, << Says("ecc", at, 1, 0, Fail) >>))
SequenceIds ==
    { <<"set-address", s, f>> :
        s \in { << Step2("step-address", FALSE, FALSE), Step2("erase-block", FALSE, FALSE) >>,
                << Step2("step-address", FALSE, FALSE) >>,
                << Step2("step-address", TRUE, FALSE), Step2("erase-block", FALSE, FALSE) >>,
                << Step2("step-address", FALSE, FALSE), Step2("step-address", FALSE, FALSE) >> },
        f \in { <<>>, Flat, << Field(1, 1, "big", "chip", <<>>) >> } }
    \cup { <<"halves", << Step2("step-first", p, f), Step2("read-page", TRUE, g) >>, <<a, b, name>> >> :
             p \in BOOLEAN, f \in BOOLEAN, g \in BOOLEAN, a \in {0, 1}, b \in {0, 1},
             name \in {"ecc", "retries"} }

(* Rules of answers of up to three bytes.                                  *)
AnswerIds ==
    { <<"page", Rule(min, max, p, start, n, <<>>)>> :
        min \in 1 .. 3, max \in 2 .. 3, p \in {<<>>, <<1>>, <<1, 0, 1>>}, start \in 0 .. 2, n \in 0 .. 2 }
    \cup { <<"status", Rule(min, 3, <<1>>, 0, 0, << Says("busy", a, w, m, e), Says(name, 2, 1, 0, Fail) >>)>> :
             min \in 1 .. 3, a \in 0 .. 3, w \in {1, 2}, m \in {0, 15}, e \in {Fail, 2},
             name \in {"failed", "busy"} }

(* Layouts of tables, and of the fields that manage them.                  *)
Addresses == { Address(k, w, e) : k \in {"flat", "coordinates", "planes"}, w \in {1, 2}, e \in {"big", "little"} }
Checksums ==
    { [Sum(w, 3, s, n) EXCEPT !.negated = neg] : w \in {1, 2}, s \in {0, 1, 8}, n \in {0, 4, 7, 24}, neg \in BOOLEAN }
    \cup { [kind |-> "xor", at |-> 3, endian |-> "big", start |-> s, length |-> 5] : s \in {2, 3, 8} }
    \cup { [kind |-> "crc", width |-> w, polynomial |-> p, initial |-> i, xor |-> x, reflected |-> r,
            at |-> 3, endian |-> e, start |-> 0, length |-> 7] :
             w \in {1, 2}, p \in {0, 3, 9}, i \in {0, 15}, x \in {0, 1}, r \in BOOLEAN, e \in {"big", "little"} }
Sized(r) ==
    [r EXCEPT !.commands["prepare-bbt"].bytes = r.out.maximum,
              !.commands["read-bbt"] =
                 LET n == r.bbt.entries + 8 * r.bbt.stride IN Reads(n + 1, <<>>, Rule(n + 1, n + 1, <<1>>, 1, n, <<>>))]
TableIds ==
    { <<"tables", a, w>> : a \in Addresses, w \in {1, 2} }
    \cup { <<"checksum", k>> : k \in Checksums }
    \cup { <<"map-checksum", [k EXCEPT !.at = 7, !.length = n]>> :
             k \in { c \in Checksums : c.kind # "crc" \/ c.initial = 15 }, n \in {4, 9} }
    \cup { <<"managed", p, c, n, w>> : p \in {1, 2}, c \in {5, 6, 7, 8}, n \in {1, 3, 6}, w \in {1, 2} }
    \cup { <<"size", s, m, n>> : s \in {1, 2, 3}, m \in {31, 32}, n \in {31, 32} }
    \cup { <<"map", u, d, c>> : u \in {1, 2}, d \in {5, 6}, c \in {8, 9, 10} }
    \cup { <<"capacity", w, u, n>> : w \in {1, 2}, u \in {"user-blocks", "user-bytes"}, n \in {2, 3, 4} }
    \cup { <<"states", r, m>> : r \in {{}, {1, 2}, {0, 2}}, m \in {7, 8} }

Upload ==
    [Plainly(<< Field(3, 1, "big", "bytes", <<Op("divide", 2), Op("subtract", 1)>>) >>)
       EXCEPT !.dir = "to", !.bytes = 4, !.payload = [kind |-> "artifact", offset |-> 0, length |-> 0]]
LoaderIds ==
    { <<"upload">> }
    \cup { <<"slice", n, [kind |-> "artifact", offset |-> o, length |-> l]>> :
             n \in {2, 4}, o \in {0, 2, 5}, l \in {0, 2, 4} }

MCRecipeIds == { <<"base">> } \cup AddressIds \cup GeometryIds \cup SequenceIds \cup AnswerIds \cup TableIds \cup LoaderIds

MCRecipeOf ==
    LET written(id) ==
          CASE id[1] = "base" -> Base
            [] id[1] = "erase" -> [Base EXCEPT !.commands["erase-block"] = Plainly(id[2])]
            [] id[1] = "read" -> [Base EXCEPT !.commands["read-page"].fields = id[2] \o PageField(5)]
            [] id[1] = "context" -> [Base EXCEPT !.commands["erase-block"] = Writes(id[2], id[3])]
            [] id[1] = "geometry" ->
                 LET a == Address(id[4], 1, "big")
                 IN  Sized([Base EXCEPT !.geometry = id[2], !.commands["erase-block"] = Plainly(id[3]),
                                        !.bbt = Reported(a, 2), !.out = NewTable(a)])
            [] id[1] = "transport" ->
                 [Base EXCEPT !.transport = id[2], !.commands["erase-block"].cdb = id[3]]
            [] id[1] = "set-address" ->
                 Stepped("erase-block", id[2], ("step-address" :> Plainly(Flat)) @@ ("erase-block" :> Plainly(id[3])))
            [] id[1] = "halves" ->
                 Stepped("read-page", id[2],
                         ("step-first" :> [HalfPage(id[3][1]) EXCEPT !.rule.fields[1].name = id[3][3]])
                         @@ ("read-page" :> HalfPage(id[3][2])))
            [] id[1] = "page" -> [Base EXCEPT !.commands["read-page"].rule = id[2]]
            [] id[1] = "status" -> [Base EXCEPT !.commands["read-status"].rule = id[2]]
            [] id[1] = "tables" ->
                 Sized([Base EXCEPT !.bbt = Reported(id[2], id[3]), !.out = NewTable(id[2])])
            [] id[1] = "checksum" -> [Base EXCEPT !.out.checksum = id[2]]
            [] id[1] = "map-checksum" -> [Base EXCEPT !.ftl.checksum = id[2]]
            [] id[1] = "managed" ->
                 [Base EXCEPT !.out.prepare = id[2], !.out.commit = id[3], !.out.count.at = id[4],
                              !.out.generation.width = id[5]]
            [] id[1] = "size" ->
                 [Base EXCEPT !.out.state = id[2], !.out.maximum = id[3], !.commands["prepare-bbt"].bytes = id[4]]
            [] id[1] = "map" -> [Base EXCEPT !.ftl.user.width = id[2], !.ftl.digest = id[3], !.ftl.commit = id[4]]
            [] id[1] = "capacity" ->
                 [Base EXCEPT !.cap = Capacity(id[2], id[3]), !.commands["set-capacity"].bytes = id[4]]
            [] id[1] = "states" -> [Base EXCEPT !.bbt.runtime = id[2], !.bbt.maximum = id[3]]
            [] id[1] = "upload" -> [Base EXCEPT !.loader = TRUE, !.commands["enter-service-mode"] = Upload]
            [] id[1] = "slice" -> [Base EXCEPT !.commands["enter-service-mode"] = Writes(id[2], id[3])]
    IN  [id \in MCRecipeIds |-> written(id)]
=============================================================================
