----------------------------- MODULE WheelPair -----------------------------
(***************************************************************************)
(* What the drive of hw7 promises to the person at the keyboard: a car     *)
(* that takes one order at a time.  Each wheel follows an order once, on   *)
(* its own and in either order, with a short brake before it at most; the  *)
(* next order is taken when both wheels have followed, and between orders  *)
(* no wheel changes its direction.                                         *)
(***************************************************************************)
CONSTANTS
  Wheel,      (* the wheels of the car                       *)
  Direction,  (* what a wheel can be ordered to do           *)
  Braked      (* what a wheel does at first, and in a brake  *)

VARIABLES
  order,   (* the last order                        *)
  behind,  (* the wheels that have not followed it  *)
  wheel    (* what each wheel does                  *)

Init ==
  /\ order = Braked
  /\ behind = {}
  /\ wheel = [w \in Wheel |-> Braked]

(* An order to go on as before need not be followed by every wheel. *)
Give(d) ==
  /\ behind = {}
  /\ order' = d
  /\ \/ behind' = Wheel
     \/ d = order /\ behind' \in SUBSET Wheel
  /\ UNCHANGED wheel

Brake(w) ==
  /\ w \in behind
  /\ wheel' = [wheel EXCEPT ![w] = Braked]
  /\ UNCHANGED <<order, behind>>

Follow(w) ==
  /\ w \in behind
  /\ wheel' = [wheel EXCEPT ![w] = order]
  /\ behind' = behind \ {w}
  /\ UNCHANGED order

(* The car is switched off: every wheel is set to the same at once. *)
SwitchOff(d) ==
  /\ behind = {}
  /\ order' = d
  /\ wheel' = [w \in Wheel |-> d]
  /\ UNCHANGED behind

Next ==
  \/ \E d \in Direction : Give(d) \/ SwitchOff(d)
  \/ \E w \in Wheel : Brake(w) \/ Follow(w)

Spec == Init /\ [][Next]_<<order, behind, wheel>>
=============================================================================
