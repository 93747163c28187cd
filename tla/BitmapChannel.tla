---------------------------- MODULE BitmapChannel ----------------------------
(***************************************************************************)
(* src/hw9Damico/draw_bitmap.c (hw8Damico has the same file): the channel  *)
(* of two bitmaps between the program, which draws pictures, and the GUI   *)
(* thread, whose timer copies the newest one to the window.  The lock      *)
(* protects the index and the flag only; the pixels are copied without it. *)
(* Each section under the lock is one step, each pixel copied is one step. *)
(***************************************************************************)
EXTENDS Integers

CONSTANTS
  NPixels,    (* width * height                                       *)
  MaxFrames   (* how many pictures the program draws: the bound       *)

ASSUME SizeAssumption == NPixels \in Nat \ {0} /\ MaxFrames \in Nat

Pixels == 0..NPixels - 1
Bitmap == 0..1

VARIABLES
  most_recently_updated,  (* the index of the most recent bitmap           *)
  GUI_reading,            (* a reader is in the channel                    *)
  bitmap,                 (* the two bitmaps: per pixel, whose picture     *)
  time_to_exit,
  window_closed,
  drawer,                 (* where the program's thread is                 *)
  bitmap_to_update,
  drawn,                  (* pixels of the current picture written so far  *)
  frame,                  (* the number of the last picture drawn          *)
  gui,                    (* where the GUI thread is                       *)
  reading,                (* its local most_recently_updated               *)
  exiting,                (* its local time_to_exit                        *)
  copied,                 (* pixels copied so far                          *)
  cairo_bitmap,           (* its private copy                              *)
  window                  (* what was last painted on the screen           *)

channel == <<most_recently_updated, GUI_reading, bitmap, time_to_exit>>
program == <<drawer, bitmap_to_update, drawn, frame>>
reader  == <<gui, reading, exiting, copied, cairo_bitmap, window, window_closed>>
vars    == <<channel, program, reader>>

Whole(f) == [p \in Pixels |-> f]

(* Mutant: the index does not wrap around. *)
Other_NoWrap(b) == b + 1

Other(b) == (b + 1) % 2

(* draw_bitmap_create_window: both bitmaps black, the thread is created. *)
Init ==
  /\ most_recently_updated = 0
  /\ GUI_reading = FALSE
  /\ bitmap = [b \in Bitmap |-> Whole(0)]
  /\ time_to_exit = FALSE
  /\ window_closed = FALSE
  /\ drawer = "idle"
  /\ bitmap_to_update = 0
  /\ drawn = 0
  /\ frame = 0
  /\ gui = "waiting"
  /\ reading = 0
  /\ exiting = FALSE
  /\ copied = 0
  /\ cairo_bitmap = Whole(0)
  /\ window = Whole(0)

-----------------------------------------------------------------------------
(* draw_bitmap_display                                                     *)

(* Mutant: the bitmap the reader is told to use is the one overwritten. *)
ChooseBitmap_Newest ==
  /\ drawer = "idle"
  /\ frame < MaxFrames
  /\ drawer' = "draw"
  /\ bitmap_to_update' = most_recently_updated
  /\ drawn' = 0
  /\ frame' = frame + 1
  /\ UNCHANGED <<channel, reader>>

ChooseBitmap ==
  /\ drawer = "idle"
  /\ frame < MaxFrames
  /\ drawer' = "draw"
  /\ bitmap_to_update' = Other(most_recently_updated)
  /\ drawn' = 0
  /\ frame' = frame + 1
  /\ UNCHANGED <<channel, reader>>

DrawPixel ==
  /\ drawer = "draw"
  /\ drawn < NPixels
  /\ bitmap' = [bitmap EXCEPT ![bitmap_to_update][drawn] = frame]
  /\ drawn' = drawn + 1
  /\ UNCHANGED <<most_recently_updated, GUI_reading, time_to_exit, drawer,
                 bitmap_to_update, frame, reader>>

(* Mutant: the index is updated although a reader is in the channel. *)
Publish_Always ==
  /\ drawer = "draw"
  /\ drawn = NPixels
  /\ drawer' = "idle"
  /\ most_recently_updated' = bitmap_to_update
  /\ UNCHANGED <<GUI_reading, bitmap, time_to_exit, bitmap_to_update, drawn,
                 frame, reader>>

Publish ==
  /\ drawer = "draw"
  /\ drawn = NPixels
  /\ drawer' = "idle"
  /\ most_recently_updated' =
       IF GUI_reading THEN most_recently_updated ELSE bitmap_to_update
  /\ UNCHANGED <<GUI_reading, bitmap, time_to_exit, bitmap_to_update, drawn,
                 frame, reader>>

draw_bitmap_display == ChooseBitmap \/ DrawPixel \/ Publish

(* draw_bitmap_close_window: the flag is set without the lock, then the    *)
(* GUI thread is joined.                                                   *)
RequestExit ==
  /\ drawer = "idle"
  /\ drawer' = "joining"
  /\ time_to_exit' = TRUE
  /\ UNCHANGED <<most_recently_updated, GUI_reading, bitmap, bitmap_to_update,
                 drawn, frame, reader>>

JoinGUI ==
  /\ drawer = "joining"
  /\ gui = "ended"
  /\ drawer' = "closed"
  /\ UNCHANGED <<channel, bitmap_to_update, drawn, frame, reader>>

draw_bitmap_close_window == RequestExit \/ JoinGUI

-----------------------------------------------------------------------------
(* timeout_event, called by the GUI thread's main loop every 30 ms         *)

(* Mutant: the reader takes the bitmap that is not the newest. *)
EnterChannel_Oldest ==
  /\ gui = "waiting"
  /\ gui' = IF time_to_exit THEN "release" ELSE "copy"
  /\ exiting' = time_to_exit
  /\ GUI_reading' = TRUE
  /\ reading' = Other(most_recently_updated)
  /\ copied' = 0
  /\ UNCHANGED <<most_recently_updated, bitmap, time_to_exit, program,
                 cairo_bitmap, window, window_closed>>

EnterChannel ==
  /\ gui = "waiting"
  /\ gui' = IF time_to_exit THEN "release" ELSE "copy"
  /\ exiting' = time_to_exit
  /\ GUI_reading' = TRUE
  /\ reading' = most_recently_updated
  /\ copied' = 0
  /\ UNCHANGED <<most_recently_updated, bitmap, time_to_exit, program,
                 cairo_bitmap, window, window_closed>>

CopyPixel ==
  /\ gui = "copy"
  /\ copied < NPixels
  /\ cairo_bitmap' = [cairo_bitmap EXCEPT ![copied] = bitmap[reading][copied]]
  /\ copied' = copied + 1
  /\ UNCHANGED <<channel, program, gui, reading, exiting, window, window_closed>>

Paint ==
  /\ gui = "copy"
  /\ copied = NPixels
  /\ gui' = "release"
  /\ window' = cairo_bitmap
  /\ UNCHANGED <<channel, program, reading, exiting, copied, cairo_bitmap,
                 window_closed>>

(* Mutant: the thread that is told to exit waits for the next timeout. *)
LeaveChannel_Waits ==
  /\ gui = "release"
  /\ gui' = "waiting"
  /\ GUI_reading' = FALSE
  /\ UNCHANGED <<most_recently_updated, bitmap, time_to_exit, program, reading,
                 exiting, copied, cairo_bitmap, window, window_closed>>

LeaveChannel ==
  /\ gui = "release"
  /\ gui' = IF exiting THEN "quit" ELSE "waiting"
  /\ GUI_reading' = FALSE
  /\ UNCHANGED <<most_recently_updated, bitmap, time_to_exit, program, reading,
                 exiting, copied, cairo_bitmap, window, window_closed>>

timeout_event == EnterChannel \/ CopyPixel \/ Paint \/ LeaveChannel

(* The user closes the window: the main loop is left between timeouts. *)
destroy ==
  /\ gui = "waiting"
  /\ gui' = "quit"
  /\ UNCHANGED <<channel, program, reading, exiting, copied, cairo_bitmap,
                 window, window_closed>>

(* GUI_thread after gtk_main has returned. *)
EndGUI ==
  /\ gui = "quit"
  /\ gui' = "ended"
  /\ window_closed' = TRUE
  /\ UNCHANGED <<channel, program, reading, exiting, copied, cairo_bitmap, window>>

GUI_thread == timeout_event \/ EndGUI

-----------------------------------------------------------------------------
Terminated == drawer = "closed" /\ gui = "ended" /\ UNCHANGED vars

Next ==
  \/ draw_bitmap_display \/ draw_bitmap_close_window
  \/ GUI_thread \/ destroy \/ Terminated

Spec == Init /\ [][Next]_vars

(* Both threads are scheduled and the timer keeps firing.  Nothing makes   *)
(* the program draw or close, or the user close the window.                *)
Fairness == WF_vars(GUI_thread) /\ WF_vars(JoinGUI)

FairSpec == Spec /\ Fairness

-----------------------------------------------------------------------------
(* Properties.                                                             *)

Picture == [Pixels -> 0..MaxFrames]

(* The type invariant. *)
TypeOK ==
  /\ most_recently_updated \in Bitmap
  /\ GUI_reading \in BOOLEAN
  /\ bitmap \in [Bitmap -> Picture]
  /\ time_to_exit \in BOOLEAN
  /\ window_closed \in BOOLEAN
  /\ drawer \in {"idle", "draw", "joining", "closed"}
  /\ bitmap_to_update \in Bitmap
  /\ drawn \in 0..NPixels
  /\ frame \in 0..MaxFrames
  /\ gui \in {"waiting", "copy", "release", "quit", "ended"}
  /\ reading \in Bitmap
  /\ exiting \in BOOLEAN
  /\ copied \in 0..NPixels
  /\ cairo_bitmap \in Picture
  /\ window \in Picture

(* Although no lock is held while pixels are copied, the writer never      *)
(* writes the bitmap the reader is copying.                                *)
NeverSameBitmap ==
  drawer = "draw" /\ gui = "copy" => bitmap_to_update # reading

(* The window never shows parts of two pictures. *)
NoTornPicture == \A p, q \in Pixels : window[p] = window[q]

(* The channel behaves as a cell that holds one whole picture. *)
Channel == INSTANCE PictureChannel
  WITH Frames <- 1..MaxFrames, offered <- bitmap[most_recently_updated]

ImplementsChannel == Channel!Spec

(* The window never goes back to an earlier picture, although the program  *)
(* draws over the one shown two pictures ago and a refused picture is lost.*)
NeverOlder == [][\A p \in Pixels : window[p] <= window'[p]]_window

(* Asking the window to close ends the GUI thread. *)
CloseEnds == time_to_exit ~> (gui = "ended" /\ drawer = "closed")

(* Why it does: the flag is set without the lock, at any moment of a copy, *)
(* and from then on each step of the GUI thread takes it nearer to its     *)
(* end; a copy under way is finished, no other one is begun.               *)
StepsToClose ==
  CASE gui = "ended"                -> 0
    [] gui = "quit"                 -> 1
    [] gui = "release" /\ exiting   -> 2
    [] gui = "waiting"              -> 3
    [] gui = "release" /\ ~exiting  -> 4
    [] gui = "copy"                 -> 5 + NPixels - copied

CloseProgress ==
  [][time_to_exit => StepsToClose' < StepsToClose]_<<gui, copied>>

(* A picture the channel holds is shown, or a newer one, or the window     *)
(* goes away: publishing only while no reader is inside starves no reader. *)
OfferedIsShown ==
  \A f \in 0..MaxFrames :
    (bitmap[most_recently_updated] = Whole(f))
      ~> ((\A p \in Pixels : window[p] >= f) \/ gui \in {"quit", "ended"})
=============================================================================
