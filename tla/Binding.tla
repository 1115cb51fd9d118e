------------------------------ MODULE Binding ------------------------------
(***************************************************************************)
(* How the "configuration" object of a GPIO binding in platform.json       *)
(* becomes the configuration a test hands to the GPIO device: get_gpio of  *)
(* config/platform.c writes it into the binding's table of parameters, and *)
(* validation_runtime_open_gpio reads the table back.                      *)
(*                                                                         *)
(* A member is [array, single]: the array form of its key, or Missing, and *)
(* the single value that counts otherwise, or Missing.  Elements of the    *)
(* wrong type are Missing too.                                             *)
(***************************************************************************)
EXTENDS GpioDevice, Lists

CONSTANTS
    MaxParameters,  \* MAX_CONFIG_PARAMETERS
    Missing,
    Stray           \* what the memory behind a full table may read as

Parameter(key, value) == [key |-> key, value |-> value]

\* What a parameter of each key holds; nobody looks for "other".
Holds ==
    [chip |-> Chip \union {NoChip}, line |-> Offset, line_chip |-> Chip \union {NoChip},
     direction |-> Nat, active_low |-> BOOLEAN, other |-> {NoChip}]

IsParameter(p) ==
    \E name \in DOMAIN Holds : p \in [key : {name}, value : Holds[name]]

\* A member with values in V, and a binding, as platform.json may have them.
IsMember(m, V) ==
    m \in [array : Seq(V \union {Missing}) \union {Missing}, single : V \union {Missing}]

IsBinding(b) ==
    /\ b.chip \in Chip \union {NoChip, Missing}
    /\ b.lines_chip \in Seq(Chip \union {NoChip, Missing})
    /\ IsMember(b.line, Offset)
    /\ IsMember(b.direction, Nat)
    /\ IsMember(b.active_low, BOOLEAN)

\* Slip: the last place of the table is never used.
FilledShort(params, key, array) ==
    LET valid == Selected(array, LAMBDA v : v # Missing)
        room  == MaxParameters - 1 - Len(params)
    IN  params \o [k \in {m \in DOMAIN valid : m <= room} |-> Parameter(key, valid[k])]

\* An array: its valid elements, as long as the table has room.
Filled(params, key, array) ==
    LET valid == Selected(array, LAMBDA v : v # Missing)
        room  == MaxParameters - Len(params)
    IN  params \o [k \in {m \in DOMAIN valid : m <= room} |-> Parameter(key, valid[k])]

\* get_int and get_bool: without a value, what was there stays.
SingleOf(member, old) == IF member.single = Missing THEN old ELSE member.single

\* Without the array, the single value takes a place whether it is there or
\* not, and nobody looks if there is room.
Member(params, key, member, old) ==
    IF member.array # Missing
    THEN Filled(params, key, member.array)
    ELSE Append(params, Parameter(key, SingleOf(member, old)))

\* get_gpio
Parameters(b) ==
    LET chip      == <<Parameter("chip", IF b.chip = Missing THEN NoChip ELSE b.chip)>>
        line      == Member(chip, "line", b.line, 0)
        lineChip  == Filled(line, "line_chip", b.lines_chip)
        direction == Member(lineChip, "direction", b.direction, 0)
    IN  Member(direction, "active_low", b.active_low, FALSE)

\* The table has room up to the first polarity, as it has for arrays no longer
\* than GPIO_MAX_LINES: 25 of 32 places.
Fits(b) ==
    LET Places(m) == IF m.array # Missing
                     THEN Len(Selected(m.array, LAMBDA v : v # Missing)) ELSE 1
        chips     == Selected(b.lines_chip, LAMBDA v : v # Missing)
    IN  1 + Places(b.line) + Len(chips) + Places(b.direction) < MaxParameters

\* The table as it is read: in the device's copy of the binding, what was
\* written behind the last place is whatever is there.
Tables(b) ==
    LET entries == Parameters(b)
    IN  IF Len(entries) <= MaxParameters THEN {entries}
        ELSE {SubSeq(entries, 1, MaxParameters) \o behind :
                 behind \in [1 .. Len(entries) - MaxParameters -> Stray]}

----------------------------------------------------------------------------

\* The values of a key, in the table's order, and no more than arrays hold.
ValuesOf(params, key) ==
    LET found == Selected(params, LAMBDA p : p.key = key)
    IN  [k \in 1 .. (IF Len(found) > MaxLines THEN MaxLines ELSE Len(found)) |->
            found[k].value]

\* The first chip that has a name.
ChipNamed(params) ==
    LET names == ValuesOf(params, "chip")
    IN  Head(Append(Selected(names, LAMBDA n : n # NoChip), NoChip))

\* validation_runtime_open_gpio, from a zeroed configuration: a line is on the
\* chip of the same place in lines_chip, or on chip.  Without lines but with a
\* chip, line 0 counts; if the first line has no chip, all of them get chip.
GpioConfiguration(params) ==
    LET chip    == ChipNamed(params)
        named   == ValuesOf(params, "line")
        offsets == IF named = <<>> /\ chip # NoChip THEN <<0>> ELSE named
        chips   == ValuesOf(params, "line_chip")
        low     == ValuesOf(params, "active_low")
        OwnChip(k) == k \in DOMAIN chips /\ NoChip \notin {chips[1], chips[k]}
    IN  [lines_count |-> Len(offsets),
         lines       |-> [k \in DOMAIN offsets |->
                             [chip   |-> IF OwnChip(k) THEN chips[k] ELSE chip,
                              offset |-> offsets[k]]],
         line        |-> [chip   |-> chip,
                          offset |-> IF offsets = <<>> THEN 0 ELSE offsets[1]],
         active_low  |-> low # <<>> /\ low[1]]
=============================================================================
