---------------------------- MODULE DeviceAccess ----------------------------
(***************************************************************************)
(* How a validation reaches its devices: validation_runtime_open_gpio      *)
(* finds the plugin of the binding's driver, opens a GPIO handle over it   *)
(* and turns the binding's parameters into a configuration, with which the *)
(* test's setup then configures the handle, as the status indication test  *)
(* does.  The cleanup closes the handle, whatever went before.             *)
(*                                                                         *)
(* Plugins are loaded while tests run.  I2C devices are opened next to the *)
(* GPIO handles; the validation runtime has no function for them yet.      *)
(***************************************************************************)
EXTENDS Binding, PluginManager, I2cDevice

CONSTANTS
    GpioBinding,    \* the bindings of platform.json: see Binding
    GpioPlugin      \* the plugin they name

ASSUME BindingAssumption ==
    /\ MaxParameters \in Nat \ {0}
    /\ \A p \in Stray : IsParameter(p)
    /\ \A b \in GpioBinding : IsBinding(b)

VARIABLES
    test,   \* the test of a handle: "idle", "opened" or "run"
    bound   \* the binding a handle is configured with; NULL after another one

vars == <<gpioVars, pluginVars, i2cVars, test, bound>>

TypeOK ==
    /\ GpioTypeOK /\ PluginTypeOK /\ I2cTypeOK
    /\ test \in [Handle -> {"idle", "opened", "run"}]
    /\ bound \in [Handle -> GpioBinding \union {NULL}]

Init ==
    /\ GpioInit /\ PluginInit /\ I2cInit
    /\ test = [h \in Handle |-> "idle"]
    /\ bound = [h \in Handle |-> NULL]

Stage(h, from, to) == test[h] = from /\ test' = [test EXCEPT ![h] = to]

\* validation_runtime_open_gpio.  Without the plugin the setup fails, and the
\* cleanup has no handle to close.
OpenGpio(h, b) ==
    /\ Stage(h, "idle", "opened")
    /\ Find(GpioPlugin) # NoPlugin
    /\ Open(h)
    /\ bound' = [bound EXCEPT ![h] = b]

\* The setup configures the handle, and does not look at the answer: the test
\* is executed with the lines it got, or with none.
ConfigureAsBound(h) ==
    /\ Stage(h, "opened", "run")
    /\ \E params \in Tables(bound[h]) : Configure(h, GpioConfiguration(params))
    /\ UNCHANGED bound

\* What a test may do with its handle.
Execute(h) ==
    /\ test[h] = "run"
    /\ \/ \E levels \in Levels : Write(h, levels) /\ UNCHANGED bound
       \/ \E c \in Configuration : Configure(h, c) /\ bound' = [bound EXCEPT ![h] = NULL]
    /\ UNCHANGED test

CleanupTest(h) ==
    /\ Stage(h, "run", "idle")
    /\ Close(h)
    /\ bound' = [bound EXCEPT ![h] = NULL]

TestStep(h) ==
    \/ \E b \in GpioBinding : OpenGpio(h, b)
    \/ ConfigureAsBound(h)
    \/ ConfigureStep(h) /\ UNCHANGED <<test, bound>>
    \/ Execute(h)
    \/ CleanupTest(h)

\* The steps of a test are calls into the plugin; what happens when its library
\* is gone is not modelled.
Next ==
    \/ /\ Callable(GpioPlugin)
       /\ \E h \in Handle : TestStep(h)
       /\ UNCHANGED <<pluginVars, i2cVars>>
    \/ \E p \in Plugin : PluginStep(p) /\ UNCHANGED <<gpioVars, i2cVars, test, bound>>
    \/ I2cStep /\ UNCHANGED <<gpioVars, pluginVars, test, bound>>

Spec == Init /\ [][Next]_vars

----------------------------------------------------------------------------
\* What the platform file says of a binding's lines, in its own terms: the
\* numbers of its array, or its single line; none means line 0.  Each is on the
\* chip that lines_chip, which is optional, has for it, or else on chip.
BoundLines(b) ==
    LET single  == IF b.line.single = Missing THEN <<0>> ELSE <<b.line.single>>
        listed  == IF b.line.array = Missing THEN single
                   ELSE Selected(b.line.array, LAMBDA n : n # Missing)
        offsets == IF listed = <<>> THEN <<0>> ELSE listed
        chips   == Selected(b.lines_chip, LAMBDA c : c # Missing)
        OwnChip(k) == k \in DOMAIN chips /\ chips[k] # NoChip
    IN  [k \in {n \in DOMAIN offsets : n <= MaxLines} |->
            [chip   |-> IF OwnChip(k) THEN chips[k]
                        ELSE IF b.chip = Missing THEN NoChip ELSE b.chip,
             offset |-> offsets[k]]]

\* And of their polarities: one for each line, or one for all of them.
BoundPolarities(b) ==
    IF b.active_low.array = Missing
    THEN [k \in 1 .. MaxLines |-> SingleOf(b.active_low, FALSE)]
    ELSE Selected(b.active_low.array, LAMBDA v : v # Missing)

\* A test runs with a binding that found room in its table.
RunsBound(h) == test[h] = "run" /\ pc[h] = "open" /\ bound[h] # NULL /\ Fits(bound[h])

\* It has the lines of its binding, in order and on their chips, up to the
\* first without a chip, if it has any.
HasItsLines(h) ==
    LET named == BoundLines(bound[h])
        n     == Len(lines[h])
    IN  n > 0 => /\ IsPrefix(lines[h], named)
                 /\ n = Len(named) \/ named[n + 1].chip = NoChip

\* It drives each of them with its polarity.
HasItsPolarities(h) ==
    \A k \in DOMAIN lines[h] \intersect DOMAIN BoundPolarities(bound[h]) :
        configuration[h].active_low = BoundPolarities(bound[h])[k]

\* The bindings that the code treats as the platform file means them: its list
\* of chips does not begin with an empty name, and its polarities are alike.
ListsChips(b) ==
    LET chips == Selected(b.lines_chip, LAMBDA c : c # Missing)
    IN  1 \in DOMAIN chips => chips[1] # NoChip

OnePolarity(b) ==
    \A j, k \in DOMAIN BoundPolarities(b) : BoundPolarities(b)[j] = BoundPolarities(b)[k]

\* A handle has its lines as a whole or not at all (AllOrNothing), and they
\* are those of the platform file: through the table of parameters, with its
\* limit, and through the configuration, a test that has lines has those of
\* its binding, on their chips, and drives them with their polarity.  That is
\* for bindings that find room (Fits).  gpio-hal.h has it for every list of
\* chips and of polarities, the code for those of ListsChips and OnePolarity.
LinesAsBound ==
    /\ AllOrNothing
    /\ \A h \in Handle : RunsBound(h) =>
           /\ ListsChips(bound[h]) => HasItsLines(h)
           /\ OnePolarity(bound[h]) => HasItsPolarities(h)
=============================================================================
