----------------------------- MODULE Sightings -----------------------------
(***************************************************************************)
(* What the camera car of hw9 promises to the person with the laser        *)
(* pointer: it moves in a direction because it saw the laser there, and a  *)
(* sighting is good for one move.  Where the laser was seen several times  *)
(* it moves once, and where it is seen while the car is moving there       *)
(* already, not again.                                                     *)
(***************************************************************************)
CONSTANT Direction

VARIABLES
  seen,    (* where the laser was seen, and the car has not moved yet *)
  taken    (* the direction the car takes: none or one of them        *)

Init == seen = {} /\ taken = {}

See(w) ==
  /\ w \notin taken
  /\ seen' = seen \cup {w}
  /\ UNCHANGED taken

Begin(w) ==
  /\ w \in seen /\ taken = {}
  /\ seen' = seen \ {w}
  /\ taken' = {w}

End ==
  /\ taken' = {}
  /\ UNCHANGED seen

Next == (\E w \in Direction : See(w) \/ Begin(w)) \/ End

Spec == Init /\ [][Next]_<<seen, taken>>
=============================================================================
