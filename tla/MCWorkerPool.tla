---------------------------- MODULE MCWorkerPool ----------------------------
(***************************************************************************)
(* Two workers, a queue of two, and four instances.  The functions overlap *)
(* in a chain and two instances share one: runs granted side by side, runs *)
(* beside a holder of one of their devices, a push into a full queue, and  *)
(* an instance let in after another one's release.  s2 has no execute      *)
(* operation.                                                              *)
(***************************************************************************)
EXTENDS WorkerPool

CONSTANTS led, button, bus, blink, press, scan, b1, p1, s1, s2

MCDevicesOf ==
    [f \in {blink, press, scan} |->
        CASE f = blink -> {led, button}
          [] f = press -> {button, bus}
          [] f = scan  -> {bus}]

MCFunctionOf ==
    [i \in {b1, p1, s1, s2} |->
        CASE i = b1 -> blink
          [] i = p1 -> press
          [] i \in {s1, s2} -> scan]
============================================================================
