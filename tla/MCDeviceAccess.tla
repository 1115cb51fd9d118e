--------------------------- MODULE MCDeviceAccess ---------------------------
(* Two handles over two chips of two lines, with two lines to a            *)
(* configuration and a table of parameters that two bindings overfill, and *)
(* two loads of the GPIO plugin; two I2C contexts over two descriptors.    *)
EXTENDS DeviceAccess

CONSTANTS chipA, chipB, bus

At(c, o) == [chip |-> c, offset |-> o]
Of(entries, count, low) ==
    [lines_count |-> count, lines |-> entries, line |-> At(NoChip, 0), active_low |-> low]

MCConfiguration ==
    {Of(<<At(chipA, 1), At(chipA, 1)>>, 2, FALSE),    \* one line twice
     Of(<<At(chipB, 1), At(chipA, 0)>>, 3, TRUE),     \* too many
     [Of(<<>>, 0, TRUE) EXCEPT !.line = At(chipB, 1)]}

Array(s) == [array |-> s, single |-> Missing]
Single(v) == [array |-> Missing, single |-> v]

MCGpioBinding ==
    {\* more than the table holds
     [chip |-> chipA, line |-> Array(<<0, 1>>), lines_chip |-> <<chipA, chipB>>,
      direction |-> Array(<<1, 1>>), active_low |-> Array(<<TRUE, TRUE>>)],
     \* single members, as in older files
     [chip |-> chipB, line |-> Single(1), lines_chip |-> <<>>,
      direction |-> Single(1), active_low |-> Single(FALSE)],
     \* no chip for the second line, and an element that is no number
     [chip |-> Missing, line |-> Array(<<1, Missing, 0>>), lines_chip |-> <<chipB>>,
      direction |-> Single(Missing), active_low |-> Single(Missing)],
     \* an empty array of lines
     [chip |-> chipA, line |-> Array(<<>>), lines_chip |-> <<>>,
      direction |-> Single(1), active_low |-> Single(TRUE)],
     \* single members behind a full table
     [chip |-> chipA, line |-> Array(<<0, 1, 0, 1, 0, 1, 0>>), lines_chip |-> <<>>,
      direction |-> Single(1), active_low |-> Single(FALSE)],
     \* chips that start with an empty one, no directions, two polarities
     [chip |-> chipB, line |-> Array(<<1, 0>>), lines_chip |-> <<NoChip, Missing, chipA>>,
      direction |-> Array(<<>>), active_low |-> Array(<<FALSE, Missing, TRUE>>)]}

MCStray == {Parameter("other", NoChip), Parameter("active_low", TRUE)}

MCNameOf == [p \in Plugin |-> "gpio"]

MCSymmetry ==
    UNION {Permutations(Handle), Permutations(Plugin), Permutations(FileDescriptor)}

\* The I2C devices and the rest share no variable: each moves with the other at
\* its start.
MCApart == I2cInit \/ (GpioInit /\ PluginInit)

MCI2cConfiguration == {[bus |-> bus, address |-> a] : a \in {8, 9}}
=============================================================================
