--------------------------- MODULE PictureChannel ---------------------------
(***************************************************************************)
(* What draw_bitmap.c promises to the program and to the person in front   *)
(* of the window: a cell that holds one whole picture.  The program offers *)
(* newer pictures, the window shows the one that is offered.  A picture    *)
(* may be dropped, it is never mixed with another one and the window never *)
(* goes back to an older one.                                              *)
(***************************************************************************)
EXTENDS Naturals

CONSTANTS
  Pixels,   (* the positions of a picture                   *)
  Frames    (* the numbers of the pictures after the first  *)

VARIABLES
  offered,  (* the picture the channel holds  *)
  window    (* the picture on the screen      *)

Whole(f) == [p \in Pixels |-> f]

Init == offered = Whole(0) /\ window = Whole(0)

Offer(f) ==
  /\ \A p \in Pixels : offered[p] < f
  /\ offered' = Whole(f)
  /\ UNCHANGED window

Show ==
  /\ window' = offered
  /\ UNCHANGED offered

Next == (\E f \in Frames : Offer(f)) \/ Show

Spec == Init /\ [][Next]_<<offered, window>>
=============================================================================
