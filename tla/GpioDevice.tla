----------------------------- MODULE GpioDevice -----------------------------
(***************************************************************************)
(* The GPIO handles of the tests: gpio-hal.c over the device operations of *)
(* plugins/gpio_linux/gpio-device.c, on Linux.  A handle is used by one    *)
(* test, thus by one thread; handles of several workers interleave, and    *)
(* a configure takes its lines one at a time.                              *)
(*                                                                         *)
(* libgpiod and the kernel are external: a line request is exclusive, any  *)
(* call may fail, and a request answers only for the offset it was made    *)
(* for.  The levels that the lines of the table have are modelled for      *)
(* outputs, which start inactive; of an input the code knows nothing.      *)
(***************************************************************************)
EXTENDS Naturals, Sequences, SequencesExt

CONSTANTS
    Handle,         \* gpio_handle_t objects, each with its device context
    Chip, Offset,   \* GPIO lines are offsets on chips
    NoChip,         \* the empty chip name
    MaxLines,       \* GPIO_MAX_LINES
    Configuration,  \* what callers pass to gpio_hal_configure
    NULL

Line == [chip : Chip, offset : Offset]

\* An entry of a configuration: lines[i] with lines_chip[i], or with chip if
\* that is empty.
Entry == [chip : Chip \union {NoChip}, offset : Offset]

\* gpio_configuration_t, as far as the code reads it on Linux.
AnyConfiguration ==
    [lines_count : Nat, lines : Seq(Entry), line : Entry, active_low : BOOLEAN]

\* lines_count is the caller's word; the arrays end at GPIO_MAX_LINES.
IsConfiguration(c) ==
    /\ c \in AnyConfiguration
    /\ Len(c.lines) <= MaxLines
    /\ IF c.lines_count > MaxLines THEN Len(c.lines) = MaxLines
                                    ELSE c.lines_count <= Len(c.lines)

ASSUME GpioAssumption ==
    /\ MaxLines \in Nat \ {0}
    /\ NULL \notin Handle /\ NoChip \notin Chip
    /\ 0 \in Offset
    /\ \A c \in Configuration : IsConfiguration(c)

VARIABLES
    pc,             \* "closed", "open", or "configure" inside the loop over lines
    configuration,  \* context->configuration
    lines,          \* context->lines, the first lines_count of them
    opened,         \* gpiod_chip objects opened for a handle and not closed
    holder,         \* the handle that has a line requested (the kernel's table)
    active,         \* the output value of a line
    written         \* history: what a handle last wrote to each of its lines

gpioVars == <<pc, configuration, lines, opened, holder, active, written>>

\* What memset leaves in a context.
Blank ==
    [lines_count |-> 0, lines |-> <<>>, active_low |-> FALSE,
     line |-> [chip |-> NoChip, offset |-> 0]]

GpioTypeOK ==
    /\ pc \in [Handle -> {"closed", "open", "configure"}]
    /\ configuration \in [Handle -> AnyConfiguration]
    /\ \A h \in Handle : IsConfiguration(configuration[h])
    /\ lines \in [Handle -> Seq(Line)]
    /\ \A h \in Handle : Len(lines[h]) <= MaxLines
    /\ opened \in [Handle -> Nat]
    /\ holder \in [Line -> Handle \union {NULL}]
    /\ active \in [Line -> BOOLEAN]
    /\ written \in [Handle -> Seq({"LOW", "HIGH", "unknown"})]
    /\ \A h \in Handle : Len(written[h]) = Len(lines[h])

GpioInit ==
    /\ pc = [h \in Handle |-> "closed"]
    /\ configuration = [h \in Handle |-> Blank]
    /\ lines = [h \in Handle |-> <<>>]
    /\ opened = [h \in Handle |-> 0]
    /\ holder = [l \in Line |-> NULL]
    /\ active = [l \in Line |-> FALSE]
    /\ written = [h \in Handle |-> <<>>]

----------------------------------------------------------------------------
(***************************************************************************)
(* Lines and chips of a context.                                           *)
(***************************************************************************)

\* Slip: the request of the last line is kept.
ReleaseAllButLast(h) ==
    /\ holder' = [l \in Line |-> IF Contains(Front(lines[h]), l) THEN NULL ELSE holder[l]]
    /\ opened' = [opened EXCEPT ![h] = @ - Len(lines[h])]
    /\ lines' = [lines EXCEPT ![h] = <<>>]
    /\ written' = [written EXCEPT ![h] = <<>>]

\* Slip: lines_count keeps its value.
ReleaseKeepsCount(h) ==
    /\ holder' = [l \in Line |-> IF Contains(lines[h], l) THEN NULL ELSE holder[l]]
    /\ opened' = [opened EXCEPT ![h] = @ - Len(lines[h])]
    /\ UNCHANGED <<lines, written>>

\* Every request is released, every chip closed and lines_count set to 0: at
\* close, before a configuration is applied, and when a step of it fails.
ReleaseLines(h) ==
    /\ holder' = [l \in Line |-> IF Contains(lines[h], l) THEN NULL ELSE holder[l]]
    /\ opened' = [opened EXCEPT ![h] = @ - Len(lines[h])]
    /\ lines' = [lines EXCEPT ![h] = <<>>]
    /\ written' = [written EXCEPT ![h] = <<>>]

\* gpio_hal_open and gpio_device_open; a failed malloc opens nothing.
Open(h) ==
    /\ pc[h] = "closed"
    /\ pc' = [pc EXCEPT ![h] = "open"]
    /\ configuration' = [configuration EXCEPT ![h] = Blank]
    /\ UNCHANGED <<lines, opened, holder, active, written>>

\* gpio_hal_close and gpio_device_close
Close(h) ==
    /\ pc[h] = "open"
    /\ ReleaseLines(h)
    /\ pc' = [pc EXCEPT ![h] = "closed"]
    /\ configuration' = [configuration EXCEPT ![h] = Blank]
    /\ UNCHANGED active

----------------------------------------------------------------------------
(***************************************************************************)
(* gpio_device_control(GPIO_COMMAND_SET_CONFIGURATION).                    *)
(***************************************************************************)

\* Without lines, the single line of older configurations counts.
Adopted(c) ==
    IF c.lines_count = 0 /\ c.line.chip # NoChip
    THEN [c EXCEPT !.lines_count = 1, !.lines = <<c.line>>]
    ELSE c

\* The copy in the context is overwritten before the count is looked at, so a
\* configuration that is refused for its count stays, next to the lines of
\* the one before.
Configure(h, c) ==
    /\ pc[h] = "open"
    /\ configuration' = [configuration EXCEPT ![h] = Adopted(c)]
    /\ IF Adopted(c).lines_count > MaxLines
       THEN /\ written' = [written EXCEPT ![h] = [k \in DOMAIN @ |-> "unknown"]]
            /\ UNCHANGED <<pc, lines, opened, holder>>
       ELSE /\ ReleaseLines(h)
            /\ pc' = [pc EXCEPT ![h] = "configure"]
    /\ UNCHANGED active

\* The entry the loop is at: a line more than are requested.
NextEntry(h) == configuration[h].lines[Len(lines[h]) + 1]

MoreLines(h) ==
    pc[h] = "configure" /\ Len(lines[h]) < configuration[h].lines_count

\* No chip name: the call returns at once, with the lines it has so far.
NoChipName(h) ==
    /\ MoreLines(h)
    /\ NextEntry(h).chip = NoChip
    /\ pc' = [pc EXCEPT ![h] = "open"]
    /\ UNCHANGED <<configuration, lines, opened, holder, active, written>>

\* The chip cannot be opened, the settings are refused, or somebody has the
\* line, inside this process or outside.  The chip of this line is closed too.
LineFails(h) ==
    /\ MoreLines(h)
    /\ NextEntry(h).chip # NoChip
    /\ ReleaseLines(h)
    /\ pc' = [pc EXCEPT ![h] = "open"]
    /\ UNCHANGED <<configuration, active>>

\* The line is requested; an output starts inactive.
RequestLine(h) ==
    /\ MoreLines(h)
    /\ NextEntry(h).chip # NoChip
    /\ holder[NextEntry(h)] = NULL
    /\ holder' = [holder EXCEPT ![NextEntry(h)] = h]
    /\ active' = [active EXCEPT ![NextEntry(h)] = FALSE]
    /\ opened' = [opened EXCEPT ![h] = @ + 1]
    /\ lines' = [lines EXCEPT ![h] = Append(@, NextEntry(h))]
    /\ written' = [written EXCEPT ![h] = Append(@, "unknown")]
    /\ UNCHANGED <<pc, configuration>>

ConfigureDone(h) ==
    /\ pc[h] = "configure"
    /\ ~MoreLines(h)
    /\ pc' = [pc EXCEPT ![h] = "open"]
    /\ UNCHANGED <<configuration, lines, opened, holder, active, written>>

----------------------------------------------------------------------------
(***************************************************************************)
(* Levels.                                                                 *)
(***************************************************************************)

\* A request knows one offset; the cached configuration names the one asked for.
Answers(h, k) == configuration[h].lines[k].offset = lines[h][k].offset

\* active_low turns a level into the opposite output value, and back.
ToActive(h, level) == (level = "HIGH") # configuration[h].active_low

\* Slip: what is read is not turned back.
ToLevelUninverted(h, value) == IF value THEN "HIGH" ELSE "LOW"

ToLevel(h, value) == IF value # configuration[h].active_low THEN "HIGH" ELSE "LOW"

\* gpio_device_read, the level of line k.
ReadLevel(h, k) == IF Answers(h, k) THEN ToLevel(h, active[lines[h][k]]) ELSE "ERROR"

\* gpio_device_write with one level, which goes to the first line, or with as
\* many as there are lines.  It may fail after the first n; what lies beyond
\* keeps its value.
Write(h, levels) ==
    /\ pc[h] = "open"
    /\ lines[h] # <<>>
    /\ Len(levels) \in {1, Len(lines[h])}
    /\ \E n \in 1 .. Len(levels) :
          /\ \A k \in 1 .. n : Answers(h, k)
          /\ active' = [l \in Line |->
                IF \E k \in 1 .. n : lines[h][k] = l
                THEN ToActive(h, levels[SelectInSeq(lines[h], LAMBDA m : m = l)])
                ELSE active[l]]
          /\ written' = [written EXCEPT ![h] =
                [k \in DOMAIN @ |-> IF k <= n THEN levels[k] ELSE @[k]]]
    /\ UNCHANGED <<pc, configuration, lines, opened, holder>>

----------------------------------------------------------------------------

ConfigureStep(h) ==
    NoChipName(h) \/ LineFails(h) \/ RequestLine(h) \/ ConfigureDone(h)

Levels == UNION {[1 .. n -> {"LOW", "HIGH"}] : n \in 1 .. MaxLines}

----------------------------------------------------------------------------
(***************************************************************************)
(* Properties.                                                             *)
(***************************************************************************)

\* Nothing leaks: at every point of every partly failed configure, the lines
\* the kernel has for a handle are those its context will release, and it has
\* a chip open for each.
NothingLeaks ==
    \A h \in Handle :
        /\ \A l \in Line : holder[l] = h <=> Contains(lines[h], l)
        /\ opened[h] = Len(lines[h])

\* All or nothing, as far as the code has it: between calls a handle has all
\* the lines of its configuration, in order, or none.  The two exceptions are
\* a configuration with too many lines, refused after it was copied, and one
\* without a chip name, refused with the lines before it requested.
AllOrNothing ==
    \A h \in Handle : pc[h] = "open" =>
        LET c == configuration[h]
            n == Len(lines[h])
        IN  \/ n = 0
            \/ c.lines_count > MaxLines
            \/ /\ IsPrefix(lines[h], c.lines)
               /\ n = c.lines_count \/ c.lines[n + 1].chip = NoChip

\* A handle reads back what it wrote to each of its lines, with either
\* polarity, whatever other handles request, write or release meanwhile, and
\* after a write that failed half way.  A configure, refused or not, ends what
\* is known: the refused one leaves its polarity behind.
ReadsBack ==
    \A h \in Handle : \A k \in DOMAIN lines[h] :
        written[h][k] # "unknown" => ReadLevel(h, k) = written[h][k]
=============================================================================
