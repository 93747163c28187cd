----------------------------- MODULE MCCarDrive -----------------------------
(* Instances of CarDrive for TLC: which keys the user presses, how often.  *)
EXTENDS CarDrive, TLC

Presses(f) == [k \in KeyChar |-> IF k \in DOMAIN f THEN f[k] ELSE 0]

(* Manual driving: forward, backward, stop, quit. *)
ManualKeys ==
  Presses([m |-> 1, w |-> 1, x |-> 1, s |-> 1, q |-> 1] @@ ("1" :> 1))

(* Manual driving: two speed steps, with which TLC reaches the full level   *)
(* when DutyStep is more than half of it, turns, and quitting amid them.    *)
TurnKeys ==
  Presses([m |-> 1, i |-> 2, a |-> 2, q |-> 1] @@ ("1" :> 1))

(* Line tracing, once: small enough for liveness. *)
TraceOnceKeys ==
  Presses([m |-> 1, w |-> 1, s |-> 1, q |-> 1] @@ ("2" :> 1))

(* Both modes in one session: line tracing and manual driving. *)
SessionKeys ==
  Presses([m |-> 2, w |-> 2, x |-> 1, j |-> 1, s |-> 2, q |-> 1] @@ ("1" :> 1) @@ ("2" :> 1))
=============================================================================
