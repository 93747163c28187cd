------------------------- MODULE BitmapChannelProofs -------------------------
(* The channel's guarantees for pictures of any size and any number of     *)
(* them.                                                                   *)
EXTENDS BitmapChannel, TLAPS

(* The index moves only when no reader is inside, and only to the bitmap   *)
(* the writer has finished: so the reader's bitmap is the newest one and   *)
(* the writer's is the other one until their copying is over.              *)
WriterInv ==
  drawer = "draw" =>
    /\ bitmap_to_update = Other(most_recently_updated)
    /\ \A p \in Pixels : p < drawn => bitmap[bitmap_to_update][p] = frame
    /\ \A p \in Pixels : bitmap[most_recently_updated][p] < frame

ReaderInv ==
  gui = "copy" =>
    /\ GUI_reading
    /\ reading = most_recently_updated
    /\ \A p \in Pixels : p < copied => cairo_bitmap[p] = bitmap[reading][p]

NewestWhole ==
  \A p, q \in Pixels :
    bitmap[most_recently_updated][p] = bitmap[most_recently_updated][q]

NothingNewer == \A b \in Bitmap : \A p \in Pixels : bitmap[b][p] <= frame

Inv ==
  /\ TypeOK
  /\ WriterInv
  /\ ReaderInv
  /\ NewestWhole
  /\ NothingNewer
  /\ NoTornPicture

LEMMA OtherBitmap ==
  ASSUME NEW b \in Bitmap
  PROVE  Other(b) \in Bitmap /\ Other(b) # b
<1>1. CASE b = 0
  BY <1>1 DEF Other, Bitmap
<1>2. CASE b = 1
  BY <1>2 DEF Other, Bitmap
<1>3. QED
  BY <1>1, <1>2 DEF Bitmap

LEMMA InitInv == Init => Inv
<1> SUFFICES ASSUME Init
             PROVE  Inv
  OBVIOUS
<1>1. Whole(0) \in Picture
  BY SizeAssumption DEF Whole, Picture
<1>2. TypeOK
  <2>1. bitmap \in [Bitmap -> Picture] /\ cairo_bitmap \in Picture /\ window \in Picture
    BY <1>1 DEF Init
  <2>2. 0 \in Bitmap /\ 0 \in 0..NPixels /\ 0 \in 0..MaxFrames
    BY SizeAssumption DEF Bitmap
  <2>3. QED
    BY <2>1, <2>2 DEF Init, TypeOK
<1>3. \A p \in Pixels : Whole(0)[p] = 0
  BY DEF Whole
<1>4. NewestWhole /\ NothingNewer /\ NoTornPicture
  BY <1>3 DEF Init, NewestWhole, NothingNewer, NoTornPicture, Bitmap
<1>5. QED
  BY <1>2, <1>4 DEF Inv, Init, WriterInv, ReaderInv

LEMMA NextType ==
  ASSUME TypeOK, Next
  PROVE  TypeOK'
<1> USE SizeAssumption DEF TypeOK, channel, program, reader
<1>1. CASE ChooseBitmap
  <2>1. Other(most_recently_updated) \in Bitmap
    BY OtherBitmap
  <2>2. QED
    BY <1>1, <2>1 DEF ChooseBitmap
<1>2. CASE DrawPixel
  <2>1. drawn \in Pixels /\ drawn + 1 \in 0..NPixels
    BY <1>2 DEF DrawPixel, Pixels
  <2>2. bitmap' = [bitmap EXCEPT ![bitmap_to_update] =
                     [bitmap[bitmap_to_update] EXCEPT ![drawn] = frame]]
    BY <1>2 DEF DrawPixel
  <2>3. [bitmap[bitmap_to_update] EXCEPT ![drawn] = frame] \in Picture
    BY <2>1 DEF Picture
  <2>4. bitmap' \in [Bitmap -> Picture]
    BY <2>2, <2>3
  <2>5. QED
    BY <1>2, <2>1, <2>4 DEF DrawPixel
<1>3. CASE Publish
  BY <1>3 DEF Publish
<1>4. CASE draw_bitmap_close_window
  BY <1>4 DEF draw_bitmap_close_window, RequestExit, JoinGUI
<1>5. CASE EnterChannel
  BY <1>5 DEF EnterChannel
<1>6. CASE CopyPixel
  <2>1. copied \in Pixels /\ copied + 1 \in 0..NPixels
    BY <1>6 DEF CopyPixel, Pixels
  <2>2. cairo_bitmap' \in Picture
    BY <1>6, <2>1 DEF CopyPixel, Picture
  <2>3. QED
    BY <1>6, <2>1, <2>2 DEF CopyPixel
<1>7. CASE Paint
  BY <1>7 DEF Paint
<1>8. CASE LeaveChannel
  BY <1>8 DEF LeaveChannel
<1>9. CASE EndGUI \/ destroy
  BY <1>9 DEF EndGUI, destroy
<1>10. CASE Terminated
  BY <1>10 DEF Terminated, vars
<1>11. QED
  BY <1>1, <1>2, <1>3, <1>4, <1>5, <1>6, <1>7, <1>8, <1>9, <1>10
     DEF Next, draw_bitmap_display, GUI_thread, timeout_event

LEMMA NextInv == Inv /\ [Next]_vars => Inv'
<1> SUFFICES ASSUME Inv, Next
             PROVE  Inv'
  BY DEF vars, Inv, TypeOK, WriterInv, ReaderInv, NewestWhole, NothingNewer,
         NoTornPicture, channel, program, reader
<1>1. TypeOK /\ TypeOK'
  BY NextType DEF Inv
<1>2. /\ most_recently_updated \in Bitmap
      /\ bitmap_to_update \in Bitmap
      /\ frame \in Nat /\ drawn \in Nat /\ copied \in Nat
      /\ \A b \in Bitmap : \A p \in Pixels : bitmap[b][p] \in Nat
  BY <1>1, SizeAssumption DEF TypeOK, Picture
<1> USE <1>1, <1>2
    DEF Inv, WriterInv, ReaderInv, NewestWhole, NothingNewer, NoTornPicture,
        channel, program, reader
<1>3. CASE ChooseBitmap
  BY <1>3, SizeAssumption DEF ChooseBitmap, Pixels
<1>4. CASE DrawPixel
  <2>1. /\ drawn \in Pixels
        /\ Other(most_recently_updated) \in Bitmap
        /\ Other(most_recently_updated) # most_recently_updated
    BY <1>4, OtherBitmap, SizeAssumption DEF DrawPixel, Pixels
  <2>2. \A b \in Bitmap, p \in Pixels :
          bitmap'[b][p] = IF b = bitmap_to_update /\ p = drawn
                          THEN frame ELSE bitmap[b][p]
    BY <1>4, <2>1 DEF DrawPixel, TypeOK, Picture
  <2>3. WriterInv'
    BY <1>4, <2>1, <2>2 DEF DrawPixel, Pixels
  <2>4. ReaderInv'
    BY <1>4, <2>1, <2>2 DEF DrawPixel
  <2>5. NewestWhole' /\ NothingNewer' /\ NoTornPicture'
    BY <1>4, <2>1, <2>2 DEF DrawPixel
  <2>6. QED
    BY <2>3, <2>4, <2>5
<1>5. CASE Publish
  <2>1. drawer = "draw" /\ \A p \in Pixels : p < drawn
    BY <1>5, SizeAssumption DEF Publish, Pixels
  <2>2. QED
    BY <1>5, <2>1 DEF Publish
<1>6. CASE draw_bitmap_close_window
  BY <1>6 DEF draw_bitmap_close_window, RequestExit, JoinGUI
<1>7. CASE EnterChannel
  BY <1>7, SizeAssumption DEF EnterChannel, Pixels
<1>8. CASE CopyPixel
  <2>1. copied \in Pixels
    BY <1>8, SizeAssumption DEF CopyPixel, Pixels
  <2>2. \A p \in Pixels : cairo_bitmap'[p] = IF p = copied
                                            THEN bitmap[reading][p]
                                            ELSE cairo_bitmap[p]
    BY <1>8, <2>1 DEF CopyPixel, TypeOK, Picture
  <2>3. ReaderInv'
    BY <1>8, <2>2 DEF CopyPixel, Pixels
  <2>4. QED
    BY <1>8, <2>3 DEF CopyPixel
<1>9. CASE Paint
  <2>1. \A p \in Pixels : p < copied
    BY <1>9, SizeAssumption DEF Paint, Pixels
  <2>2. QED
    BY <1>9, <2>1 DEF Paint
<1>10. CASE LeaveChannel
  BY <1>10 DEF LeaveChannel
<1>11. CASE EndGUI \/ destroy
  BY <1>11 DEF EndGUI, destroy
<1>12. CASE Terminated
  BY <1>12 DEF Terminated, vars
<1>13. QED
  BY <1>3, <1>4, <1>5, <1>6, <1>7, <1>8, <1>9, <1>10, <1>11, <1>12
     DEF Next, draw_bitmap_display, GUI_thread, timeout_event

LEMMA InvAlways == Spec => []Inv
<1>1. Init => Inv
  BY InitInv
<1>2. Inv /\ [Next]_vars => Inv'
  BY NextInv
<1>3. QED
  BY <1>1, <1>2, PTL DEF Spec

(* Every variable keeps its type, for any picture size. *)
THEOREM TypeCorrect == Spec => []TypeOK
<1>1. Inv => TypeOK
  BY DEF Inv
<1>2. QED
  BY <1>1, InvAlways, PTL

(* The two threads never copy pixels of the same bitmap, although they     *)
(* hold no lock while they copy.                                           *)
THEOREM WriterAvoidsReader == Spec => []NeverSameBitmap
<1>1. Inv => NeverSameBitmap
  BY OtherBitmap DEF Inv, TypeOK, WriterInv, ReaderInv, NeverSameBitmap
<1>2. QED
  BY <1>1, InvAlways, PTL

(* What is on the screen is always one whole picture. *)
THEOREM WindowNeverTorn == Spec => []NoTornPicture
<1>1. Inv => NoTornPicture
  BY DEF Inv
<1>2. QED
  BY <1>1, InvAlways, PTL
-----------------------------------------------------------------------------
(* A step of the two threads is a step of the cell or changes nothing of   *)
(* it: finishing a picture with no reader inside offers it, painting shows *)
(* the one that is offered.                                                *)
LEMMA ChannelStep ==
  Inv /\ [Next]_vars =>
    [Channel!Next]_<<bitmap[most_recently_updated], window>>
<1> SUFFICES ASSUME Inv, Next
             PROVE  [Channel!Next]_<<bitmap[most_recently_updated], window>>
  BY DEF vars, channel, program, reader
<1> USE DEF channel, program, reader
<1>1. CASE DrawPixel
  BY <1>1, OtherBitmap DEF DrawPixel, Inv, TypeOK, WriterInv
<1>2. CASE Publish
  <2>1. CASE GUI_reading
    BY <1>2, <2>1 DEF Publish
  <2>2. CASE ~GUI_reading
    <3>1. /\ \A p \in Pixels : bitmap[bitmap_to_update][p] = frame
          /\ \A p \in Pixels : bitmap[most_recently_updated][p] < frame
      BY <1>2, SizeAssumption DEF Publish, Inv, TypeOK, WriterInv, Pixels
    <3>2. bitmap[bitmap_to_update] = Channel!Whole(frame)
      BY <3>1 DEF Channel!Whole, Inv, TypeOK, Picture
    <3>3. frame \in 1..MaxFrames
      <4>1. 0 \in Pixels
        BY SizeAssumption DEF Pixels
      <4>2. bitmap[most_recently_updated][0] \in 0..MaxFrames
        BY <4>1 DEF Inv, TypeOK, Picture
      <4>3. QED
        BY <3>1, <4>1, <4>2, SizeAssumption DEF Inv, TypeOK
    <3>4. Channel!Offer(frame)
      BY <1>2, <2>2, <3>1, <3>2 DEF Channel!Offer, Publish
    <3>5. QED
      BY <3>3, <3>4 DEF Channel!Next
  <2>3. QED
    BY <2>1, <2>2
<1>3. CASE Paint
  <2>1. \A p \in Pixels : cairo_bitmap[p] = bitmap[most_recently_updated][p]
    BY <1>3, SizeAssumption DEF Paint, Inv, TypeOK, ReaderInv, Pixels
  <2>2. cairo_bitmap = bitmap[most_recently_updated]
    BY <2>1 DEF Inv, TypeOK, Picture
  <2>3. QED
    BY <1>3, <2>2 DEF Paint, Channel!Next, Channel!Show
<1>4. CASE ChooseBitmap \/ draw_bitmap_close_window
  BY <1>4 DEF ChooseBitmap, draw_bitmap_close_window, RequestExit, JoinGUI
<1>5. CASE EnterChannel \/ CopyPixel \/ LeaveChannel
  BY <1>5 DEF EnterChannel, CopyPixel, LeaveChannel
<1>6. CASE EndGUI \/ destroy \/ Terminated
  BY <1>6 DEF EndGUI, destroy, Terminated, vars
<1>7. QED
  BY <1>1, <1>2, <1>3, <1>4, <1>5, <1>6
     DEF Next, draw_bitmap_display, GUI_thread, timeout_event

(* The channel implements a cell that holds one whole picture and whose    *)
(* reader never goes back to an older one.                                 *)
THEOREM ChannelImplemented == Spec => ImplementsChannel
<1>1. Init => Channel!Init
  BY DEF Init, Channel!Init, Whole, Channel!Whole, Bitmap
<1>2. Inv /\ [Next]_vars =>
        [Channel!Next]_<<bitmap[most_recently_updated], window>>
  BY ChannelStep
<1>3. QED
  BY <1>1, <1>2, InvAlways, PTL DEF Spec, ImplementsChannel, Channel!Spec

-----------------------------------------------------------------------------
(* The window is never newer than the bitmap it will be painted from.      *)
WindowBehind ==
  /\ \A p \in Pixels : window[p] <= bitmap[most_recently_updated][p]
  /\ \A p \in Pixels : window[p] \in Nat

LEMMA BehindNext == Inv /\ Inv' /\ WindowBehind /\ [Next]_vars => WindowBehind'
<1> SUFFICES ASSUME Inv, Inv', WindowBehind, Next
             PROVE  WindowBehind'
  BY DEF WindowBehind, vars, channel, program, reader
<1>1. /\ \A b \in Bitmap : \A p \in Pixels : bitmap[b][p] \in Nat
      /\ most_recently_updated \in Bitmap /\ bitmap_to_update \in Bitmap
      /\ frame \in Nat
  BY SizeAssumption DEF Inv, TypeOK, Picture
<1> USE <1>1 DEF WindowBehind, channel, program, reader
<1>2. CASE DrawPixel
  BY <1>2, OtherBitmap DEF DrawPixel, Inv, TypeOK, WriterInv
<1>3. CASE Publish
  <2>1. /\ \A p \in Pixels : bitmap[bitmap_to_update][p] = frame
        /\ \A p \in Pixels : bitmap[most_recently_updated][p] < frame
    BY <1>3, SizeAssumption DEF Publish, Inv, TypeOK, WriterInv, Pixels
  <2>2. QED
    BY <1>3, <2>1 DEF Publish
<1>4. CASE Paint
  <2>1. \A p \in Pixels : cairo_bitmap[p] = bitmap[most_recently_updated][p]
    BY <1>4, SizeAssumption DEF Paint, Inv, TypeOK, ReaderInv, Pixels
  <2>2. QED
    BY <1>4, <2>1 DEF Paint
<1>5. CASE ChooseBitmap \/ draw_bitmap_close_window
  BY <1>5 DEF ChooseBitmap, draw_bitmap_close_window, RequestExit, JoinGUI
<1>6. CASE EnterChannel \/ CopyPixel \/ LeaveChannel
  BY <1>6 DEF EnterChannel, CopyPixel, LeaveChannel
<1>7. CASE EndGUI \/ destroy \/ Terminated
  BY <1>7 DEF EndGUI, destroy, Terminated, vars
<1>8. QED
  BY <1>2, <1>3, <1>4, <1>5, <1>6, <1>7
     DEF Next, draw_bitmap_display, GUI_thread, timeout_event

LEMMA WindowStep ==
  Inv /\ WindowBehind /\ [Next]_vars =>
    [\A p \in Pixels : window[p] <= window'[p]]_window
<1> SUFFICES ASSUME Inv, WindowBehind, [Next]_vars, window' # window
             PROVE  \A p \in Pixels : window[p] <= window'[p]
  OBVIOUS
<1>1. Paint
  BY DEF Next, vars, channel, program, reader, draw_bitmap_display, ChooseBitmap,
         DrawPixel, Publish, draw_bitmap_close_window, RequestExit, JoinGUI,
         GUI_thread, timeout_event, EnterChannel, CopyPixel, LeaveChannel,
         EndGUI, destroy, Terminated
<1>2. \A p \in Pixels : cairo_bitmap[p] = bitmap[most_recently_updated][p]
  BY <1>1, SizeAssumption DEF Paint, Inv, TypeOK, ReaderInv, Pixels
<1>3. QED
  BY <1>1, <1>2 DEF Paint, WindowBehind

(* The window only moves on to later pictures. *)
THEOREM WindowNeverGoesBack == Spec => NeverOlder
<1>1. Init => WindowBehind
  BY DEF Init, WindowBehind, Whole, Bitmap
<1>2. Inv /\ Inv' /\ WindowBehind /\ [Next]_vars => WindowBehind'
  BY BehindNext
<1>3. Inv /\ WindowBehind /\ [Next]_vars =>
        [\A p \in Pixels : window[p] <= window'[p]]_window
  BY WindowStep
<1>4. QED
  BY <1>1, <1>2, <1>3, InvAlways, PTL DEF Spec, NeverOlder

-----------------------------------------------------------------------------
(* Each step of the GUI thread counts; the others leave its place alone. *)
LEMMA CloseStep ==
  Inv /\ [Next]_vars =>
    [time_to_exit => StepsToClose' < StepsToClose]_<<gui, copied>>
<1> SUFFICES ASSUME Inv, Next, time_to_exit, <<gui, copied>>' # <<gui, copied>>
             PROVE  StepsToClose' < StepsToClose
  BY DEF vars, reader
<1>1. copied \in 0..NPixels /\ copied' \in 0..NPixels
  BY NextInv DEF Inv, TypeOK
<1>2. NPixels \in Nat \ {0}
  BY SizeAssumption
<1> USE <1>1, <1>2 DEF StepsToClose
<1>3. CASE EnterChannel
  BY <1>3 DEF EnterChannel
<1>4. CASE CopyPixel
  BY <1>4 DEF CopyPixel
<1>5. CASE Paint
  BY <1>5 DEF Paint
<1>6. CASE LeaveChannel
  BY <1>6 DEF LeaveChannel
<1>7. CASE EndGUI
  BY <1>7 DEF EndGUI
<1>8. CASE destroy
  BY <1>8 DEF destroy
<1>9. CASE draw_bitmap_display \/ draw_bitmap_close_window \/ Terminated
  BY <1>9 DEF draw_bitmap_display, ChooseBitmap, DrawPixel, Publish,
              draw_bitmap_close_window, RequestExit, JoinGUI, Terminated, vars,
              reader
<1>10. QED
  BY <1>3, <1>4, <1>5, <1>6, <1>7, <1>8, <1>9 DEF Next, GUI_thread, timeout_event

(* Once the program has asked for the end the GUI thread makes at most     *)
(* NPixels + 5 more steps, wherever in a copy the request found it.        *)
THEOREM CloseNeverTurnsBack == Spec => CloseProgress
<1>1. Inv /\ [Next]_vars =>
        [time_to_exit => StepsToClose' < StepsToClose]_<<gui, copied>>
  BY CloseStep
<1>2. QED
  BY <1>1, InvAlways, PTL DEF Spec, CloseProgress
=============================================================================
