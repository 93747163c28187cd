----------------------------- MODULE MCLaserCar -----------------------------
(* An instance of LaserCar for TLC: which keys the user presses, how often. *)
EXTENDS LaserCar, TLC

Presses(f) == [k \in KeyChar |-> IF k \in DOMAIN f THEN f[k] ELSE 0]

(* Follow the laser, stop, quit. *)
LaserKeys ==
  Presses([m |-> 1, s |-> 1, q |-> 1] @@ ("2" :> 1))

(* Either drive manually, a speed and a turn to either side, or follow the  *)
(* laser; quit.  The camera delivers pictures in the second mode only.      *)
EitherModeKeys ==
  Presses([m |-> 1, i |-> 1, a |-> 1, d |-> 1, q |-> 1] @@ ("1" :> 1) @@ ("2" :> 1))
=============================================================================
