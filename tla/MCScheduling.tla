---------------------------- MODULE MCScheduling ----------------------------
(***************************************************************************)
(* Three devices and three functions that overlap in a chain.  The         *)
(* instance in the middle is with the workers from the start; main submits *)
(* the other two to an array of two while two workers ask for their next   *)
(* test.  Words of two bits.  The workers are symmetric.                   *)
(***************************************************************************)
EXTENDS Scheduling, TLC

CONSTANTS led, button, bus, blink, press, scan, b1, p1, s1, w1, w2

MCDevicesOf ==
    [f \in {blink, press, scan} |->
        CASE f = blink -> {led, button}
          [] f = press -> {button, bus}
          [] f = scan  -> {bus}]

MCFunctionOf ==
    [i \in Instance |->
        CASE i = b1 -> blink
          [] i = p1 -> press
          [] i = s1 -> scan]

Workers == Permutations({w1, w2})
=============================================================================
