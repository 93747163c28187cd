------------------------ MODULE LaserCarFollowProofs ------------------------
(* How LaserCar answers the laser, stops and quits, for every use of the   *)
(* keys and any number of pictures.                                        *)
EXTENDS LaserCarProofs

-----------------------------------------------------------------------------
(* The four flags implement a set of sightings.                            *)

AbstractStep == [Laser!Next]_<<Unanswered, Taken>>

LEMMA LaserStutters ==
  ASSUME Unanswered' = Unanswered, Taken' = Taken
  PROVE  AbstractStep
  BY DEF AbstractStep

(* Where a thread is in no direction, none is taken. *)
LEMMA TakenNone ==
  /\ pc["left"] \notin Acts => Taken = {}
  /\ pc'["left"] \notin Acts => Taken' = {}
  BY ActingIn DEF Taken, Acting

LEMMA LaserElsewhere ==
  ASSUME \A w \in Direction : way'[w] = way[w],
         pc["left"] \notin Acts, pc'["left"] \notin Acts
  PROVE  AbstractStep
<1>1. Taken = {} /\ Taken' = {}
  BY TakenNone
<1>2. Unanswered' = Unanswered
  BY <1>1 DEF Unanswered
<1>3. QED
  BY <1>1, <1>2, LaserStutters

LEMMA LaserStays ==
  ASSUME \A w \in Direction : way'[w] = way[w], pc'["left"] = pc["left"]
  PROVE  AbstractStep
<1>1. Taken' = Taken
  BY DEF Taken, Acting
<1>2. Unanswered' = Unanswered
  BY <1>1 DEF Unanswered
<1>3. QED
  BY <1>1, <1>2, LaserStutters

LEMMA LaserFollow ==
  ASSUME TypeInv, FollowCase
  PROVE  AbstractStep
<1>1. ASSUME NEW from, NEW to, Goto("left", from, to), from # "exited"
      PROVE  pc["left"] = from /\ pc'["left"] = to
  BY <1>1, Threads, GotoMoves
<1>2. way \in [Way -> {-1, 0, 1}] /\ Direction \subseteq Way /\ "nothing" \notin Direction
  BY DEF TypeInv, TypeOK, Way, Direction
<1> USE DEF image, scene, Acts
<1>3. CASE StartFollow \/ FollowTest \/ Rest
  BY <1>1, <1>3, LaserElsewhere DEF StartFollow, FollowTest, Rest
<1>4. CASE TestNothing
  BY <1>1, <1>4, LaserElsewhere DEF TestNothing
<1>5. CASE ClearNothing
  BY <1>1, <1>2, <1>5, LaserElsewhere DEF ClearNothing
<1>6. ASSUME NEW v \in {"left", "right"}, EndTurn(v)
      PROVE  AbstractStep
  <2>1. pc["left"] = Moving[v] /\ pc'["left"] = Clearing[v] /\ way' = way
    BY <1>1, <1>6 DEF EndTurn, Moving
  <2>2. Taken' = Taken
    BY <2>1 DEF Taken, Acting, Direction, Moving, Clearing
  <2>3. QED
    BY <2>1, <2>2, LaserStutters DEF Unanswered
<1>7. ASSUME NEW w \in Direction, TestDirection(w)
      PROVE  AbstractStep
  <2>1. w # "exited" /\ w \notin Acts /\ NextTest[w] \notin Acts
    BY DEF Direction, NextTest
  <2>2. CASE way[w] # 1
    BY <1>1, <1>7, <2>1, <2>2, LaserElsewhere DEF TestDirection
  <2>3. CASE way[w] = 1
    <3>1. pc["left"] = w /\ pc'["left"] = Moving[w] /\ way' = way
      BY <1>1, <1>7, <2>1, <2>3 DEF TestDirection
    <3>2. Taken = {}
      BY <2>1, <3>1, TakenNone
    <3>3. Taken' = {w}
      BY <3>1 DEF Taken, Acting, Direction, Moving, Clearing
    <3>4. w \in Unanswered /\ Unanswered' = Unanswered \ {w}
      BY <2>3, <3>1, <3>2, <3>3 DEF Unanswered
    <3>5. Laser!Begin(w)
      BY <3>2, <3>3, <3>4 DEF Laser!Begin
    <3>6. QED
      BY <3>5 DEF AbstractStep, Laser!Next
  <2>4. QED
    BY <2>2, <2>3
<1>8. ASSUME NEW w \in Direction, ClearDirection(w)
      PROVE  AbstractStep
  <2>1. /\ pc["left"] = Clearing[w] /\ pc'["left"] = "nothing"
        /\ way' = [way EXCEPT ![w] = 0]
    BY <1>1, <1>8 DEF ClearDirection, Clearing, Direction
  <2>2. Taken = {w} /\ Taken' = {}
    BY <2>1, TakenNone DEF Taken, Acting, Direction, Moving, Clearing
  <2>3. Unanswered' = Unanswered
    BY <1>2, <2>1, <2>2 DEF Unanswered
  <2>4. Laser!End
    BY <2>2, <2>3 DEF Laser!End
  <2>5. QED
    BY <2>4 DEF AbstractStep, Laser!Next
<1>9. QED
  BY <1>3, <1>4, <1>5, <1>6, <1>7, <1>8 DEF FollowCase

LEMMA LaserLeft ==
  ASSUME Inv, leftHandle
  PROVE  AbstractStep
<1>1. TypeInv /\ "left" \in Side /\ "left" \in Thread
  BY Threads DEF Inv, Side
<1>2. ASSUME NEW from, NEW to, Goto("left", from, to), from # "exited"
      PROVE  pc["left"] = from /\ pc'["left"] = to
  BY <1>1, <1>2, GotoMoves
<1> USE DEF image, scene, Acts
<1>3. CASE SecondStore("left")
  BY <1>3, LaserStays DEF SecondStore
<1>4. CASE Motor("left")
  <2>1. way' = way
    BY <1>1, <1>4, MotorMoves
  <2>2. CASE Fetch("left")
    <3>1. Case("left", switchVar["left"]) \notin Acts
      BY <1>1, CasePlaces DEF TypeInv, TypeOK
    <3>2. QED
      BY <1>2, <2>1, <2>2, <3>1, LaserElsewhere DEF Fetch
  <2>3. CASE Ack("left") \/ Leave("left")
    BY <1>2, <2>1, <2>3, LaserElsewhere DEF Ack, Leave
  <2>4. CASE ManualCase("left")
    BY <1>2, <2>1, <2>4, LaserElsewhere
       DEF ManualCase, Speed, Hold, TurnTest, Turn, ReadCount, WriteCount, RestoreDuty
  <2>5. QED
    BY <1>4, <2>2, <2>3, <2>4 DEF Motor
<1>5. CASE DriveCase
  <2>1. way' = way
    BY <1>1, <1>5, DriveMoves
  <2>2. QED
    BY <1>2, <1>5, <2>1, LaserElsewhere
       DEF DriveCase, TestFirst, TestSecond, ClearFirst, ClearSecond, MarkForward,
           Drive, AfterTests
<1>6. QED
  BY <1>1, <1>3, <1>4, <1>5, LaserFollow DEF leftHandle

(* The image thread's only step seen outside is Decide: a sighting, unless *)
(* the car is moving there, and then nothing.                              *)
LEMMA LaserImage ==
  ASSUME TypeInv, imageProcessHandle
  PROVE  AbstractStep
<1>1. pc'["left"] = pc["left"]
  BY ImageMoves, Threads DEF Moves
<1>2. way \in [Way -> {-1, 0, 1}] /\ Direction \subseteq Way /\ "nothing" \notin Direction
  BY DEF TypeInv, TypeOK, Way, Direction
<1>3. CASE UNCHANGED way
  BY <1>1, <1>3, LaserStays
<1>4. CASE BeginScan \/ SomethingFound
  BY <1>1, <1>2, <1>4, LaserStays DEF BeginScan, SomethingFound
<1>5. CASE Decide
  <2>1. way' = [way EXCEPT ![first] = 1] /\ first \in Way
    BY <1>5 DEF Decide, TypeInv, TypeOK
  <2>2. Taken' = Taken
    BY <1>1 DEF Taken, Acting
  <2>3. CASE first \in Direction \ Taken
    <3>1. Unanswered' = Unanswered \cup {first}
      BY <1>2, <2>1, <2>2, <2>3 DEF Unanswered
    <3>2. Laser!See(first)
      BY <2>2, <2>3, <3>1 DEF Laser!See
    <3>3. QED
      BY <2>3, <3>2 DEF AbstractStep, Laser!Next
  <2>4. CASE first \notin Direction \ Taken
    <3>1. Unanswered' = Unanswered
      BY <1>2, <2>1, <2>2, <2>4 DEF Unanswered
    <3>2. QED
      BY <2>2, <3>1, LaserStutters
  <2>5. QED
    BY <2>3, <2>4
<1>6. QED
  BY <1>3, <1>4, <1>5
     DEF imageProcessHandle, ImageLoop, TestPicture, Scan, ClearPicture, image, scene

LEMMA LaserRefines == Inv /\ [Next]_vars => AbstractStep
<1> SUFFICES ASSUME Inv, [Next]_vars
             PROVE  AbstractStep
  OBVIOUS
<1> USE DEF Inv, scene
<1>1. ASSUME NEW t \in {"right", "key", "camera", "main"}, Moves(t)
      PROVE  pc'["left"] = pc["left"]
  BY <1>1, Threads DEF Moves
<1>2. CASE ThreadKey
  BY <1>1, <1>2, KeyMoves, LaserStays
<1>3. CASE cameraHandle
  BY <1>1, <1>3, CameraMoves, LaserStays
<1>4. CASE rightHandle
  BY <1>1, <1>4, RightMoves, LaserStays
<1>5. CASE main
  BY <1>1, <1>5, MainMoves, LaserStays
<1>6. CASE UNCHANGED vars
  BY <1>6, LaserStays DEF vars
<1>7. QED
  BY <1>2, <1>3, <1>4, <1>5, <1>6, LaserLeft, LaserImage DEF Next, Terminated

(* The camera, image and left motor threads together do what a set of      *)
(* sightings does: a direction is taken only if the laser was seen there   *)
(* since it was last taken, and every direction seen stays due until then. *)
THEOREM SightingsImplemented == Spec => ImplementsSightings
<1>1. Init => Laser!Init
  BY Threads
     DEF Init, Laser!Init, Unanswered, Taken, Acting, Direction, Way, Moving, Clearing
<1>2. Inv /\ [Next]_vars => [Laser!Next]_<<Unanswered, Taken>>
  BY LaserRefines DEF AbstractStep
<1>3. QED
  BY <1>1, <1>2, InvAlways, PTL DEF Spec, ImplementsSightings, Laser!Spec
-----------------------------------------------------------------------------
(* 's' without manual driving: case 7 does not clear its mailbox, so what  *)
(* the motor threads clear is only ever another stop.                      *)

TestsPC == {"testFirst", "testSecond", "clearFirst", "clearSecond"}

(* Only stop and follow are posted, and the right thread writes nothing. *)
ManualFree ==
  /\ mode # "m1" /\ (key = "w" => mode = "m2")
  /\ key \in {"none", "q", "s", "w", "2"}
  /\ pc["key"] \notin {"countRead", "countWrite"}
  /\ \A s \in Side : /\ switchVar[s] \in {NoCommand, StopCar, Follow}
                     /\ cmd[s] \in {NoCommand, StopCar, Follow}
  /\ pc["right"] \in {"loop", "ack", "exited"} /\ store["right"] = NoStore

AllStopped == \A s \in Side : pins[s] = "stop"

(* Outside a move both registers are 0, or one of them is about to be; a   *)
(* stop that was executed left the pins at 00.                             *)
StandInv ==
  /\ pc["left"] \in TestsPC \cup {"loop", "ack", "drive", "exited"} \cup FollowPC
  /\ pc["left"] \in TestsPC \cup {"drive"} => cmd["left"] \in {StopCar, Follow}
  /\ pc["left"] = "mark" => cmd["left"] = Follow
  /\ pc["left"] = "ack" => AllStopped
  /\ pc["left"] \in TestsPC \cup {"loop", "ack", "drive", "exited", "mark", "start", "follow"}
       => /\ dat["left"] = 0
          /\ store["left"] = 0 \/ (store["left"] = NoStore /\ dat["right"] = 0)

(* From the moment it is posted a stop is in the mailbox until the left    *)
(* thread has executed it.                                                 *)
StopPosted ==
  key = "s" /\ pc["key"] \in {"read", "mode"} =>
    \/ switchVar["left"] = StopCar
    \/ switchVar["left"] = NoCommand /\ pc["left"] \in {"loop", "exited"} /\ AllStopped

StopParts == ManualFree /\ StandInv /\ StopPosted
StopInv   == budget["1"] <= Budget["1"] /\ (NeverManual => StopParts)

LEMMA DistinctCommands == StopCar # NoCommand /\ StopCar # Follow /\ NoCommand # Follow
  BY DEF StopCar, NoCommand, Follow

LEMMA StopPartsKept ==
  ASSUME StopParts, UNCHANGED <<orders, outputs>>,
         \A t \in {"left", "right", "key"} : pc'[t] = pc[t]
  PROVE  StopParts'
BY DEF StopParts, ManualFree, StandInv, StopPosted, AllStopped, orders, outputs

LEMMA FollowStop ==
  ASSUME TypeInv, StopParts, store["left"] = NoStore, FollowCase
  PROVE  StopParts'
<1>1. /\ "left" \in Side /\ "right" \in Side /\ "left" # "right"
      /\ OtherSide("left") = "right"
      /\ store \in [Side -> NoStore..PwmRange] /\ dat \in [Side -> 0..PwmRange]
      /\ cmd \in [Side -> Command]
  BY DEF Side, OtherSide, TypeInv, TypeOK
<1>2. /\ \A t \in {"right", "key"} : pc'[t] = pc[t]
      /\ UNCHANGED <<mode, key, switchVar, pins>> /\ store'["right"] = store["right"]
  BY FollowMoves, Threads DEF Moves
<1>3. pc["left"] \notin {"loop", "exited", "ack"}
  BY FollowPlaces DEF FollowPC
<1>4. ManualFree'
  <2>1. \A s \in Side : cmd'[s] \in {NoCommand, StopCar, Follow}
    <3>1. cmd' = cmd \/ cmd' = [cmd EXCEPT !["left"] = NoCommand]
      BY DEF FollowCase, StartFollow, FollowTest, EndTurn, TestDirection, ClearDirection,
             TestNothing, ClearNothing, Rest, orders
    <3>2. QED
      BY <1>1, <3>1 DEF StopParts, ManualFree
  <2>2. QED
    BY <1>2, <2>1 DEF StopParts, ManualFree
<1>5. StopPosted'
  BY <1>2, <1>3 DEF StopParts, StopPosted
<1>6. ASSUME NEW from, NEW to, Goto("left", from, to), from # "exited"
      PROVE  pc["left"] = from /\ pc'["left"] = to
  BY <1>6, Threads, GotoMoves
<1>7. ASSUME pc'["left"] \in FollowPC \ {"mark", "start", "follow"}
      PROVE  StopParts'
  BY <1>4, <1>5, <1>7 DEF StopParts, StandInv, FollowPC, TestsPC
<1>8. ASSUME pc'["left"] \in {"start", "follow"}, Halt
      PROVE  StopParts'
  <2>1. dat'["left"] = 0 /\ store'["left"] = 0
    BY <1>1, <1>8 DEF Halt, SetBoth
  <2>2. QED
    BY <1>4, <1>5, <1>8, <2>1 DEF StopParts, StandInv, FollowPC, TestsPC
<1>9. CASE StartFollow \/ Rest
  BY <1>6, <1>8, <1>9 DEF StartFollow, Rest
<1>10. CASE FollowTest
  <2>1. pc["left"] = "follow" /\ pc'["left"] \in {"left", "loop"}
    BY <1>6, <1>10 DEF FollowTest
  <2>2. dat' = dat /\ store' = store
    BY <1>10 DEF FollowTest, outputs
  <2>3. QED
    BY <1>4, <1>5, <1>7, <2>1, <2>2 DEF StopParts, StandInv, TestsPC, FollowPC
<1>11. CASE TestNothing \/ ClearNothing
  BY <1>6, <1>7, <1>11 DEF TestNothing, ClearNothing, FollowPC
<1>12. ASSUME NEW w \in {"left", "right"}, EndTurn(w)
       PROVE  StopParts'
  BY <1>6, <1>7, <1>12 DEF EndTurn, Moving, Clearing, FollowPC
<1>13. ASSUME NEW w \in Direction, TestDirection(w) \/ ClearDirection(w)
       PROVE  StopParts'
  <2>1. /\ w # "exited" /\ Clearing[w] # "exited"
        /\ Moving[w] \in {"toLeft", "toRight", "ahead"}
        /\ NextTest[w] \in {"right", "straight", "nothing"}
    BY DEF Direction, Clearing, Moving, NextTest
  <2>2. QED
    BY <1>6, <1>7, <1>13, <2>1 DEF TestDirection, ClearDirection, FollowPC
<1>14. QED
  BY <1>9, <1>10, <1>11, <1>12, <1>13 DEF FollowCase

LEMMA DriveStop ==
  ASSUME TypeInv, StopParts, store["left"] = NoStore, DriveCase
  PROVE  StopParts'
<1>1. /\ \A t \in {"right", "key"} : pc'[t] = pc[t]
      /\ UNCHANGED <<mode, key, switchVar, cmd, dat, store>>
  BY DriveMoves, Threads DEF Moves
<1>2. ASSUME NEW from, NEW to, Goto("left", from, to), from # "exited"
      PROVE  pc["left"] = from /\ pc'["left"] = to
  BY <1>2, Threads, GotoMoves
<1>3. pc["left"] \in TestsPC \cup {"mark", "drive"}
  BY <1>2 DEF DriveCase, TestFirst, TestSecond, ClearFirst, ClearSecond, MarkForward,
              Drive, TestsPC
<1>4. ManualFree' /\ StopPosted'
  BY <1>1, <1>3 DEF StopParts, ManualFree, StopPosted, TestsPC
<1>5. ASSUME pc'["left"] \in TestsPC \cup {"mark", "drive", "start", "ack"},
             pc'["left"] = "mark" => cmd["left"] = Follow,
             pc'["left"] \in TestsPC \cup {"drive"} => cmd["left"] \in {StopCar, Follow},
             pc'["left"] = "ack" => AllStopped'
      PROVE  StopParts'
  BY <1>1, <1>3, <1>4, <1>5 DEF StopParts, StandInv, TestsPC, FollowPC
<1>6. CASE TestFirst \/ TestSecond
  BY <1>2, <1>5, <1>6 DEF TestFirst, TestSecond, AfterTests, StopParts, StandInv, TestsPC
<1>7. CASE ClearFirst \/ ClearSecond
  BY <1>2, <1>5, <1>7 DEF ClearFirst, ClearSecond, AfterTests, StopParts, StandInv, TestsPC
<1>8. CASE MarkForward
  BY <1>2, <1>5, <1>8, DistinctCommands DEF MarkForward, StopParts, StandInv, TestsPC
<1>9. CASE Drive
  <2>1. /\ pc'["left"] = IF cmd["left"] = Follow THEN "start" ELSE "ack"
        /\ cmd["left"] \in {StopCar, Follow}
    BY <1>2, <1>9 DEF Drive, StopParts, StandInv
  <2>2. cmd["left"] = StopCar => AllStopped'
    BY <1>9 DEF Drive, PinsOf, AllStopped, StopCar, Backward
  <2>3. QED
    BY <1>5, <2>1, <2>2, DistinctCommands DEF TestsPC
<1>10. QED
  BY <1>6, <1>7, <1>8, <1>9 DEF DriveCase

LEMMA LeftMotorStop ==
  ASSUME TypeInv, StopParts, store["left"] = NoStore, Motor("left")
  PROVE  StopParts'
<1>1. /\ "left" \in Side /\ "right" \in Side /\ "left" \in Thread
      /\ switchVar \in [Side -> Command] /\ cmd \in [Side -> Command]
      /\ cmd["left"] \in {NoCommand, StopCar, Follow}
      /\ switchVar["left"] \in {NoCommand, StopCar, Follow}
  BY Threads DEF Side, TypeInv, TypeOK, StopParts, ManualFree
<1>2. ASSUME NEW from, NEW to, Goto("left", from, to), from # "exited"
      PROVE  /\ pc["left"] = from /\ pc'["left"] = to
             /\ \A t \in {"right", "key"} : pc'[t] = pc[t]
  BY <1>1, <1>2, Threads, GotoMoves DEF Moves
<1> USE DEF outputs, StopParts
<1>3. CASE Fetch("left")
  <2>1. /\ pc["left"] = "loop" /\ \A t \in {"right", "key"} : pc'[t] = pc[t]
        /\ pc'["left"] = Case("left", switchVar["left"])
        /\ UNCHANGED <<mode, key, switchVar, pins, dat, store>>
    BY <1>2, <1>3 DEF Fetch
  <2>2. Case("left", switchVar["left"]) =
          IF switchVar["left"] = NoCommand THEN "loop" ELSE "testFirst"
    BY <1>1 DEF Case, TurnCommand, NoCommand, StopCar, Follow, Faster, Slower,
                TurnLeft, TurnRight
  <2>3. cmd' = [cmd EXCEPT !["left"] = switchVar["left"]]
    BY <1>3, <2>2 DEF Fetch
  <2>4. ManualFree'
    BY <1>1, <2>1, <2>3 DEF ManualFree
  <2>5. StandInv'
    BY <1>1, <2>1, <2>2, <2>3 DEF StandInv, TestsPC, FollowPC
  <2>6. StopPosted'
    BY <2>1, <2>2, DistinctCommands DEF StopPosted, AllStopped
  <2>7. QED
    BY <2>4, <2>5, <2>6
<1>4. CASE Ack("left")
  <2>1. /\ pc["left"] = "ack" /\ pc'["left"] = "loop"
        /\ \A t \in {"right", "key"} : pc'[t] = pc[t]
        /\ UNCHANGED <<mode, key, pins, dat, store>>
        /\ switchVar' = [switchVar EXCEPT !["left"] = NoCommand]
        /\ cmd' = [cmd EXCEPT !["left"] = NoCommand]
    BY <1>2, <1>4 DEF Ack
  <2>2. AllStopped /\ AllStopped' /\ switchVar'["left"] = NoCommand
    BY <1>1, <2>1 DEF StandInv, AllStopped
  <2>3. ManualFree'
    BY <1>1, <2>1 DEF ManualFree
  <2>4. StandInv'
    BY <2>1 DEF StandInv, TestsPC, FollowPC
  <2>5. QED
    BY <2>1, <2>2, <2>3, <2>4 DEF StopPosted
<1>5. CASE Leave("left")
  <2>1. /\ pc["left"] = "loop" /\ pc'["left"] = "exited"
        /\ \A t \in {"right", "key"} : pc'[t] = pc[t]
        /\ UNCHANGED <<mode, key, switchVar, cmd, pins, dat, store>>
    BY <1>2, <1>5 DEF Leave, orders
  <2>2. QED
    BY <2>1 DEF ManualFree, StandInv, StopPosted, AllStopped, TestsPC, FollowPC
<1>6. CASE ManualCase("left")
  <2>1. pc["left"] \in {"speed", "hold", "turnTest", "turn", "countRead", "countWrite",
                        "restore"}
    BY <1>2, <1>6
       DEF ManualCase, Speed, Hold, TurnTest, Turn, ReadCount, WriteCount, RestoreDuty
  <2>2. QED
    BY <2>1 DEF StandInv, TestsPC, FollowPC
<1>7. QED
  BY <1>3, <1>4, <1>5, <1>6 DEF Motor

LEMMA RightStop ==
  ASSUME TypeInv, StopParts, rightHandle
  PROVE  StopParts'
<1>1. /\ "left" \in Side /\ "right" \in Side /\ "left" # "right" /\ "right" \in Thread
      /\ switchVar \in [Side -> Command] /\ cmd \in [Side -> Command]
      /\ switchVar["right"] \in {NoCommand, StopCar, Follow}
      /\ pc["right"] \in {"loop", "ack", "exited"} /\ store["right"] = NoStore
  BY Threads DEF Side, TypeInv, TypeOK, StopParts, ManualFree
<1>2. ASSUME NEW from, NEW to, Goto("right", from, to), from # "exited"
      PROVE  /\ pc["right"] = from /\ pc'["right"] = to
             /\ \A t \in {"left", "key"} : pc'[t] = pc[t]
  BY <1>1, <1>2, Threads, GotoMoves DEF Moves
<1>3. ASSUME pc'["right"] \in {"loop", "ack", "exited"},
             \A t \in {"left", "key"} : pc'[t] = pc[t],
             UNCHANGED <<mode, key, pins, dat, store>>,
             \A s \in Side : /\ switchVar'[s] \in {NoCommand, StopCar, Follow}
                             /\ cmd'[s] \in {NoCommand, StopCar, Follow},
             cmd'["left"] = cmd["left"], switchVar'["left"] = switchVar["left"]
      PROVE  StopParts'
  BY <1>1, <1>3 DEF StopParts, ManualFree, StandInv, StopPosted, AllStopped
<1> USE DEF outputs, StopParts
<1>4. CASE Fetch("right")
  <2>1. Case("right", switchVar["right"]) \in {"loop", "ack"}
    BY <1>1 DEF Case, TurnCommand, NoCommand, StopCar, Follow, Faster, Slower,
                TurnLeft, TurnRight
  <2>2. cmd' = [cmd EXCEPT !["right"] = cmd'["right"]]
        /\ cmd'["right"] \in {NoCommand, StopCar, Follow}
    BY <1>1, <1>4 DEF Fetch
  <2>3. QED
    BY <1>1, <1>2, <1>3, <1>4, <2>1, <2>2 DEF Fetch, ManualFree
<1>5. CASE Ack("right") \/ Leave("right")
  BY <1>1, <1>2, <1>3, <1>5 DEF Ack, Leave, ManualFree, orders
<1>6. CASE ManualCase("right")
  <2>1. pc["right"] \in {"speed", "hold", "turnTest", "turn", "countRead", "countWrite",
                         "restore"}
    BY <1>2, <1>6
       DEF ManualCase, Speed, Hold, TurnTest, Turn, ReadCount, WriteCount, RestoreDuty
  <2>2. QED
    BY <1>1, <2>1
<1>7. CASE SecondStore("right")
  BY <1>1, <1>7 DEF SecondStore
<1>8. QED
  BY <1>4, <1>5, <1>6, <1>7 DEF rightHandle, Motor

LEMMA LeftStop ==
  ASSUME TypeInv, StopParts, leftHandle
  PROVE  StopParts'
<1>1. CASE SecondStore("left")
  <2>1. /\ UNCHANGED <<orders, pins, pc>> /\ OtherSide("left") = "right"
        /\ store' = [store EXCEPT !["left"] = NoStore] /\ store["left"] # NoStore
        /\ dat' = [dat EXCEPT !["right"] = store["left"]]
        /\ dat \in [Side -> 0..PwmRange] /\ store \in [Side -> NoStore..PwmRange]
    BY <1>1 DEF SecondStore, OtherSide, TypeInv, TypeOK
  <2>2. /\ dat'["left"] = dat["left"] /\ dat'["right"] = store["left"]
        /\ store'["left"] = NoStore /\ store'["right"] = store["right"]
    BY <2>1 DEF Side
  <2>3. QED
    BY <2>1, <2>2 DEF StopParts, ManualFree, StandInv, StopPosted, AllStopped, orders
<1>2. QED
  BY <1>1, LeftMotorStop, DriveStop, FollowStop DEF leftHandle

LEMMA KeyStop ==
  ASSUME TypeInv, ThreadKey, budget["1"] <= Budget["1"]
  PROVE  /\ budget'["1"] <= Budget["1"]
         /\ NeverManual' => NeverManual
         /\ NeverManual' /\ StopParts => StopParts'
<1>1. /\ "1" \in KeyChar /\ budget \in [KeyChar -> Nat] /\ Budget \in [KeyChar -> Nat]
      /\ switchVar \in [Side -> Command] /\ "left" \in Side /\ "right" \in Side
      /\ "key" \in Thread
  BY ConstantsAssumption, Threads DEF KeyChar, TypeInv, TypeOK, Side
<1>2. UNCHANGED <<outputs, pins, dat, store>> /\ \A t \in {"left", "right"} : pc'[t] = pc[t]
  BY KeyMoves, Threads DEF Moves, outputs
<1>3. ASSUME NEW from, NEW to, Goto("key", from, to), from # "exited"
      PROVE  pc["key"] = from /\ pc'["key"] = to
  BY <1>1, <1>3, GotoMoves
<1>4. StandInv /\ UNCHANGED cmd => StandInv'
  BY <1>2 DEF StandInv, AllStopped
<1>5. ASSUME NEW k \in KeyChar, Press(k)
      PROVE  /\ budget'["1"] <= Budget["1"]
             /\ NeverManual' => NeverManual /\ k # "1"
  <2>1. /\ budget'["1"] \in Nat /\ budget'["1"] <= budget["1"]
        /\ k = "1" => budget'["1"] < budget["1"]
    BY <1>1, <1>5 DEF Press
  <2>2. QED
    BY <1>1, <2>1 DEF NeverManual
<1>6. ASSUME NEW k \in KeyChar, ReadKey(k), StopParts
      PROVE  StopParts'
  <2>1. /\ UNCHANGED <<mode, switchVar, cmd>> /\ pc["key"] = "read"
        /\ pc'["key"] = CASE k = "m"                    -> "mode"
                           [] k \in {"q", "s", "w", "x"} -> "mark"
                           [] OTHER                      -> "postRight"
        /\ key' = IF k = "m" THEN key ELSE k
        /\ Accepted(k)
    BY <1>3, <1>6 DEF ReadKey
  <2>2. k \in {"m", "q", "s"} \/ (k = "w" /\ mode = "m2")
    BY <1>6, <2>1 DEF Accepted, StopParts, ManualFree
  <2>3. CASE k = "m"
    BY <1>2, <1>4, <1>6, <2>1, <2>3
       DEF StopParts, ManualFree, StopPosted, AllStopped
  <2>4. CASE k \in {"q", "s", "w"}
    BY <1>2, <1>4, <1>6, <2>1, <2>2, <2>4
       DEF StopParts, ManualFree, StopPosted, AllStopped
  <2>5. QED
    BY <2>2, <2>3, <2>4
<1>7. ASSUME NEW k \in KeyChar \ {"1"}, ReadMode(k), StopParts
      PROVE  StopParts'
  <2>1. /\ UNCHANGED <<switchVar, cmd>> /\ pc["key"] = "mode"
        /\ pc'["key"] = IF k = "2" THEN "postRight" ELSE "read"
        /\ key' = IF k = "2" THEN k ELSE key
        /\ mode' = IF k = "2" THEN "m2" ELSE mode
    BY <1>3, <1>7 DEF ReadMode
  <2>2. QED
    BY <1>2, <1>4, <1>7, <2>1 DEF StopParts, ManualFree, StopPosted, AllStopped
<1>8. CASE MarkKey
  <2>1. /\ pc["key"] = "mark" /\ pc'["key"] = "postRight"
        /\ UNCHANGED <<mode, switchVar, cmd, key, budget>>
    BY <1>3, <1>8 DEF MarkKey
  <2>2. StopParts => StopParts'
    BY <1>2, <1>4, <2>1 DEF StopParts, ManualFree, StopPosted, AllStopped
  <2>3. QED
    BY <2>1, <2>2 DEF NeverManual
<1>9. CASE PostRight \/ PostLeft
  <2>1. StopParts => CommandOf(key) \in {NoCommand, StopCar, Follow}
    <3> SUFFICES ASSUME StopParts
                 PROVE  CommandOf(key) \in {NoCommand, StopCar, Follow}
      OBVIOUS
    <3>1. key \in {"none", "q", "s", "2"} \/ (key = "w" /\ mode = "m2")
      BY DEF StopParts, ManualFree
    <3>2. QED
      BY <3>1 DEF CommandOf
  <2>2. key = "s" => CommandOf(key) = StopCar
    BY DEF CommandOf
  <2>3. UNCHANGED <<mode, cmd, key, budget>>
    BY <1>9 DEF PostRight, PostLeft
  <2>4. CASE PostRight
    <3>1. /\ pc'["key"] = "postLeft" /\ switchVar'["left"] = switchVar["left"]
          /\ switchVar'["right"] = CommandOf(key)
      BY <1>1, <1>3, <2>4 DEF PostRight, Side
    <3>2. StopParts => StopParts'
      BY <1>2, <1>4, <2>1, <2>3, <3>1 DEF StopParts, ManualFree, StopPosted, Side
    <3>3. QED
      BY <2>3, <3>2 DEF NeverManual
  <2>5. CASE PostLeft
    <3>1. /\ pc'["key"] = AfterPost(key) /\ switchVar'["right"] = switchVar["right"]
          /\ switchVar'["left"] = CommandOf(key)
      BY <1>1, <1>3, <2>5 DEF PostLeft, Side
    <3>2. StopParts => pc'["key"] \notin {"countRead", "countWrite"}
      BY <3>1 DEF StopParts, ManualFree, AfterPost
    <3>3. StopParts => StopParts'
      BY <1>2, <1>4, <2>1, <2>2, <2>3, <3>1, <3>2
         DEF StopParts, ManualFree, StopPosted, Side
    <3>4. QED
      BY <2>3, <3>3 DEF NeverManual
  <2>6. QED
    BY <1>9, <2>4, <2>5
<1>10. CASE ReadPresses \/ CountPress
  <2>1. pc["key"] \in {"countRead", "countWrite"} /\ UNCHANGED budget
    BY <1>3, <1>10 DEF ReadPresses, CountPress
  <2>2. QED
    BY <2>1 DEF StopParts, ManualFree, NeverManual
<1>11. ASSUME NEW k \in KeyChar, ReadKey(k) \/ ReadMode(k)
       PROVE  /\ budget'["1"] <= Budget["1"]
              /\ NeverManual' => NeverManual
              /\ NeverManual' /\ StopParts => StopParts'
  BY <1>5, <1>6, <1>7, <1>11 DEF ReadKey, ReadMode
<1>12. QED
  BY <1>8, <1>9, <1>10, <1>11
     DEF ThreadKey, ActOnKey, MarkKey, PostRight, PostLeft, ReadPresses, CountPress

LEMMA StopNext == Inv /\ StopInv /\ [Next]_vars => StopInv'
<1> SUFFICES ASSUME Inv, StopInv, [Next]_vars
             PROVE  StopInv'
  OBVIOUS
<1>1. TypeInv /\ "left" \in Side /\ "right" \in Side
  BY DEF Inv, Side
<1>2. ASSUME UNCHANGED budget, StopParts => StopParts'
      PROVE  StopInv'
  BY <1>2 DEF StopInv, NeverManual
<1>3. CASE leftHandle
  BY <1>1, <1>2, <1>3, LeftMoves, LeftStop
<1>4. CASE rightHandle
  BY <1>1, <1>2, <1>4, RightMoves, RightStop
<1>5. CASE ThreadKey
  BY <1>1, <1>5, KeyStop DEF StopInv
<1>6. CASE cameraHandle \/ imageProcessHandle
  <2>1. UNCHANGED <<orders, outputs>> /\ \A t \in {"left", "right", "key"} : pc'[t] = pc[t]
    BY <1>1, <1>6, CameraMoves, ImageMoves, Threads DEF Moves
  <2>2. QED
    BY <1>2, <2>1, StopPartsKept DEF orders
<1>7. CASE main
  <2>1. /\ UNCHANGED <<orders, store>> /\ \A t \in {"left", "right", "key"} : pc'[t] = pc[t]
    BY <1>1, <1>7, MainMoves, Threads DEF Moves
  <2>2. dat'["left"] = 0 /\ dat'["right"] = 0 /\ AllStopped'
    BY <1>1, <1>7 DEF main, AllStopped
  <2>3. StopParts => StopParts'
    BY <2>1, <2>2 DEF StopParts, ManualFree, StandInv, StopPosted, orders
  <2>4. QED
    BY <1>2, <2>1, <2>3 DEF orders
<1>8. CASE UNCHANGED vars
  BY <1>2, <1>8, StopPartsKept DEF vars, orders
<1>9. QED
  BY <1>3, <1>4, <1>5, <1>6, <1>7, <1>8 DEF Next, Terminated

(* Without manual driving 's' is never lost: when the left thread has      *)
(* nothing left to do both sides' pins are 00 and both registers 0, in     *)
(* whatever part of a move the key met it and however often it is pressed. *)
THEOREM FollowStopHonoured == Spec => []StopHonoured
<1>1. Init => StopInv
  <2> SUFFICES ASSUME Init
               PROVE  StopInv
    OBVIOUS
  <2>1. /\ Budget["1"] \in Nat /\ pc["left"] = "loop" /\ pc["right"] = "loop"
        /\ pc["key"] = "read" /\ "left" \in Side /\ "right" \in Side
    BY ConstantsAssumption, Threads DEF Init, Side, KeyChar
  <2>2. ManualFree
    BY <2>1 DEF Init, ManualFree
  <2>3. StandInv
    BY <2>1 DEF Init, StandInv, FollowPC, TestsPC
  <2>4. QED
    BY <2>1, <2>2, <2>3 DEF Init, StopInv, StopParts, StopPosted
<1>2. Inv /\ StopInv /\ [Next]_vars => StopInv'
  BY StopNext
<1>3. Inv /\ StopInv => StopHonoured
  <2> SUFFICES ASSUME StopInv, NeverManual, Quiet, key = "s"
               PROVE  \A s \in Side : pins[s] = "stop" /\ dat[s] = 0
    BY DEF StopHonoured
  <2>1. AllStopped
    BY DistinctCommands DEF StopInv, StopParts, StopPosted, Quiet
  <2>2. dat["left"] = 0 /\ dat["right"] = 0
    BY DEF StopInv, StopParts, StandInv, Quiet, NoStore
  <2>3. QED
    BY <2>1, <2>2 DEF AllStopped, Side
<1>4. QED
  BY <1>1, <1>2, <1>3, InvAlways, PTL DEF Spec

-----------------------------------------------------------------------------
(* Quitting.  Where the key thread has left, it has cleared the mailbox    *)
(* that keeps the left thread in case 7, and nobody else fills one.        *)
QuitInv ==
  /\ pc["key"] \in {"postRight", "postLeft"} /\ key = "q" => done
  /\ pc["key"] = "exited" => done /\ switchVar["left"] = NoCommand

LEMMA QuitKey ==
  ASSUME TypeInv, QuitInv, ThreadKey
  PROVE  QuitInv'
<1>1. "key" \in Thread /\ "left" \in Side /\ switchVar \in [Side -> Command]
  BY Threads DEF Side, TypeInv, TypeOK
<1>2. ASSUME NEW from, NEW to, Goto("key", from, to), from # "exited"
      PROVE  pc["key"] = from /\ pc'["key"] = to
  BY <1>1, <1>2, GotoMoves
<1> USE DEF QuitInv
<1>3. ASSUME NEW k \in KeyChar, ReadKey(k)
      PROVE  QuitInv'
  <2>1. /\ key' = IF k = "m" THEN key ELSE k
        /\ pc'["key"] = CASE k = "m"                    -> "mode"
                           [] k \in {"q", "s", "w", "x"} -> "mark"
                           [] OTHER                      -> "postRight"
    BY <1>2, <1>3 DEF ReadKey
  <2>2. QED
    BY <2>1
<1>4. ASSUME NEW k \in KeyChar, ReadMode(k)
      PROVE  QuitInv'
  BY <1>2, <1>4 DEF ReadMode
<1>5. CASE MarkKey
  <2>1. pc'["key"] = "postRight" /\ key' = key
    BY <1>2, <1>5 DEF MarkKey
  <2>2. key = "q" => done'
    BY <1>5, Zenon DEF MarkKey
  <2>3. QED
    BY <2>1, <2>2
<1>6. CASE PostRight
  BY <1>2, <1>6 DEF PostRight
<1>7. CASE PostLeft
  <2>1. pc["key"] = "postLeft" /\ pc'["key"] = AfterPost(key) /\ UNCHANGED <<done, key>>
    BY <1>2, <1>7 DEF PostLeft
  <2>2. AfterPost(key) \notin {"postRight", "postLeft"}
        /\ (AfterPost(key) = "exited" => key = "q")
    BY DEF AfterPost
  <2>3. key = "q" => switchVar'["left"] = NoCommand
    BY <1>1, <1>7 DEF PostLeft, CommandOf
  <2>4. QED
    BY <2>1, <2>2, <2>3
<1>8. CASE ReadPresses
  BY <1>2, <1>8 DEF ReadPresses
<1>9. CASE CountPress
  BY <1>2, <1>9 DEF CountPress
<1>10. QED
  BY <1>3, <1>4, <1>5, <1>6, <1>7, <1>8, <1>9 DEF ThreadKey, ActOnKey

(* A motor thread changes no mailbox but by clearing its own. *)
LEMMA MotorMailbox ==
  ASSUME TypeInv, NEW s \in Side, SecondStore(s) \/ Motor(s)
  PROVE  switchVar' = switchVar \/ switchVar' = [switchVar EXCEPT ![s] = NoCommand]
<1> USE DEF orders
<1>1. CASE SecondStore(s) \/ Fetch(s) \/ Leave(s)
  BY <1>1 DEF SecondStore, Fetch, Leave
<1>2. CASE Ack(s)
  BY <1>2 DEF Ack
<1>3. CASE ManualCase(s)
  BY <1>3 DEF ManualCase, Speed, Hold, TurnTest, Turn, ReadCount, WriteCount,
              RestoreDuty
<1>4. QED
  BY <1>1, <1>2, <1>3 DEF Motor

LEMMA QuitNext == Inv /\ QuitInv /\ [Next]_vars => QuitInv'
<1> SUFFICES ASSUME Inv, QuitInv, [Next]_vars
             PROVE  QuitInv'
  OBVIOUS
<1>1. /\ TypeInv /\ switchVar \in [Side -> Command]
      /\ "left" \in Side /\ "right" \in Side
  BY DEF Inv, TypeInv, TypeOK, Side
<1>2. ASSUME pc'["key"] = pc["key"], UNCHANGED <<done, key>>,
             \/ switchVar'["left"] = switchVar["left"]
             \/ switchVar'["left"] = NoCommand
      PROVE  QuitInv'
  BY <1>2 DEF QuitInv
<1>3. CASE leftHandle
  <2>1. pc'["key"] = pc["key"] /\ UNCHANGED <<done, key>>
    BY <1>3, LeftMoves, Threads DEF Moves
  <2>2. switchVar' = switchVar \/ switchVar' = [switchVar EXCEPT !["left"] = NoCommand]
    BY <1>1, <1>3, MotorMailbox, DriveMoves, FollowMoves DEF leftHandle
  <2>3. QED
    BY <1>1, <1>2, <2>1, <2>2
<1>4. CASE rightHandle
  <2>1. pc'["key"] = pc["key"] /\ UNCHANGED <<done, key>>
    BY <1>4, RightMoves, Threads DEF Moves
  <2>2. switchVar' = switchVar \/ switchVar' = [switchVar EXCEPT !["right"] = NoCommand]
    BY <1>1, <1>4, MotorMailbox DEF rightHandle
  <2>3. QED
    BY <1>1, <1>2, <2>1, <2>2
<1>5. CASE ThreadKey
  BY <1>1, <1>5, QuitKey
<1>6. CASE cameraHandle \/ imageProcessHandle \/ main
  BY <1>1, <1>2, <1>6, CameraMoves, ImageMoves, MainMoves, Threads
     DEF Moves, orders
<1>7. CASE UNCHANGED vars
  BY <1>2, <1>7 DEF vars, orders
<1>8. QED
  BY <1>3, <1>4, <1>5, <1>6, <1>7 DEF Next, Terminated

LEMMA Ranks ==
  /\ StepsLeft["testFirst"] = 9 /\ StepsLeft["testSecond"] = 8
  /\ StepsLeft["clearFirst"] = 7 /\ StepsLeft["clearSecond"] = 6
  /\ StepsLeft["mark"] = 5 /\ StepsLeft["drive"] = 4
  /\ StepsLeft["start"] = 3 /\ StepsLeft["follow"] = 2
  /\ StepsLeft["left"] = 9 /\ StepsLeft["toLeft"] = 7
  /\ StepsLeft["clearLeft"] = 6 /\ StepsLeft["right"] = 8
  /\ StepsLeft["toRight"] = 7 /\ StepsLeft["clearRight"] = 6
  /\ StepsLeft["straight"] = 7 /\ StepsLeft["ahead"] = 6
  /\ StepsLeft["nothing"] = 5 /\ StepsLeft["clearNothing"] = 4
  /\ StepsLeft["rest"] = 3 /\ StepsLeft["speed"] = 3
  /\ StepsLeft["hold"] = 5 /\ StepsLeft["turn"] = 7
  /\ StepsLeft["countRead"] = 6 /\ StepsLeft["countWrite"] = 5
  /\ StepsLeft["turnTest"] = 4 /\ StepsLeft["restore"] = 3
  /\ StepsLeft["ack"] = 2 /\ StepsLeft["open"] = 4
  /\ StepsLeft["scale"] = 3 /\ StepsLeft["deliver"] = 2
  /\ StepsLeft["test"] = 7 /\ StepsLeft["begin"] = 6
  /\ StepsLeft["scan"] = 5 /\ StepsLeft["decide"] = 4
  /\ StepsLeft["found"] = 3 /\ StepsLeft["clear"] = 2
  /\ StepsLeft["loop"] = 1 /\ StepsLeft["exited"] = 0
  BY DEF StepsLeft

Changes(t) == pc'[t] # pc[t] \/ (t \in Side /\ store'[t] # store[t])

Nearer(t) == Changes(t) => ToQuit(t)' < ToQuit(t)

(* Two for each place passed pay for the store that may become due there. *)
LEMMA NearerByGoto ==
  ASSUME TypeInv, NEW t \in Worker, NEW from, NEW to, Goto(t, from, to),
         StepsLeft[from] \in Nat, StepsLeft[to] \in Nat,
         StepsLeft[to] < StepsLeft[from]
  PROVE  Nearer(t)
<1>1. pc[t] = from /\ pc'[t] = to
  BY DEF Goto, TypeInv, Worker, Thread
<1>2. QED
  BY <1>1 DEF Nearer, ToQuit

LEMMA StoreNearer ==
  ASSUME TypeInv, NEW s \in Side, SecondStore(s)
  PROVE  Nearer(s)
<1>1. pc' = pc /\ store[s] # NoStore /\ store'[s] = NoStore
  BY DEF SecondStore, TypeInv, TypeOK
<1>2. StepsLeft[pc[s]] \in Nat
  <2>1. pc[s] \in PC[s]
    BY Sides DEF TypeInv, TypeOK
  <2>2. CASE s = "left"
    BY <2>1, <2>2, Ranks DEF PC, MotorPC
  <2>3. CASE s = "right"
    BY <2>1, <2>3, Ranks DEF PC, MotorPC
  <2>4. QED
    BY <2>2, <2>3 DEF Side
<1>3. QED
  BY <1>1, <1>2 DEF Nearer, ToQuit

LEMMA MotorNearer ==
  ASSUME TypeInv, NEW s \in Side, Motor(s), done
  PROVE  Nearer(s)
<1>1. s \in Worker
  BY DEF Worker
<1> USE <1>1, Ranks, NearerByGoto
<1>2. ~Fetch(s)
  BY DEF Fetch
<1>3. CASE Ack(s)
  BY <1>3 DEF Ack
<1>4. CASE Leave(s)
  BY <1>4 DEF Leave
<1>5. CASE Speed(s)
  BY <1>5 DEF Speed
<1>6. CASE Hold(s)
  BY <1>6 DEF Hold
<1>7. CASE TurnTest(s)
  BY <1>7 DEF TurnTest
<1>8. CASE Turn(s)
  BY <1>8 DEF Turn
<1>9. CASE ReadCount(s)
  BY <1>9 DEF ReadCount
<1>10. CASE WriteCount(s)
  BY <1>10 DEF WriteCount
<1>11. CASE RestoreDuty(s)
  BY <1>11 DEF RestoreDuty
<1>12. QED
  BY <1>2, <1>3, <1>4, <1>5, <1>6, <1>7, <1>8, <1>9, <1>10, <1>11
     DEF Motor, ManualCase

LEMMA DriveNearer ==
  ASSUME TypeInv, DriveCase
  PROVE  Nearer("left")
<1>1. "left" \in Worker
  BY DEF Worker, Side
<1> USE <1>1, Ranks, NearerByGoto
<1>2. CASE TestFirst
  BY <1>2 DEF TestFirst
<1>3. CASE TestSecond
  BY <1>3 DEF TestSecond, AfterTests
<1>4. CASE ClearFirst
  BY <1>4 DEF ClearFirst
<1>5. CASE ClearSecond
  BY <1>5 DEF ClearSecond, AfterTests
<1>6. CASE MarkForward
  BY <1>6 DEF MarkForward
<1>7. CASE Drive
  BY <1>7 DEF Drive
<1>8. QED
  BY <1>2, <1>3, <1>4, <1>5, <1>6, <1>7 DEF DriveCase

LEMMA FollowNearer ==
  ASSUME TypeInv, FollowCase, switchVar["left"] = NoCommand
  PROVE  Nearer("left")
<1>1. "left" \in Worker
  BY DEF Worker, Side
<1> USE <1>1, Ranks, NearerByGoto
<1>2. CASE StartFollow
  BY <1>2 DEF StartFollow
<1>3. CASE FollowTest
  <2>1. ~Following
    BY DistinctCommands DEF Following
  <2>2. QED
    BY <1>3, <2>1 DEF FollowTest
<1>4. CASE Rest
  BY <1>4 DEF Rest
<1>5. CASE TestNothing
  BY <1>5 DEF TestNothing
<1>6. CASE ClearNothing
  BY <1>6 DEF ClearNothing
<1>7. ASSUME NEW w \in {"left", "right"}, EndTurn(w)
      PROVE  Nearer("left")
  BY <1>7 DEF EndTurn, Moving, Clearing
<1>8. ASSUME NEW w \in Direction, TestDirection(w)
      PROVE  Nearer("left")
  <2>1. /\ StepsLeft[w] \in Nat
        /\ StepsLeft[Moving[w]] \in Nat /\ StepsLeft[Moving[w]] < StepsLeft[w]
        /\ StepsLeft[NextTest[w]] \in Nat /\ StepsLeft[NextTest[w]] < StepsLeft[w]
    BY DEF Direction, Moving, NextTest
  <2>2. QED
    BY <1>8, <2>1 DEF TestDirection
<1>9. ASSUME NEW w \in Direction, ClearDirection(w)
      PROVE  Nearer("left")
  <2>1. StepsLeft[Clearing[w]] \in Nat /\ StepsLeft["nothing"] < StepsLeft[Clearing[w]]
    BY DEF Direction, Clearing
  <2>2. QED
    BY <1>9, <2>1 DEF ClearDirection
<1>10. QED
  BY <1>2, <1>3, <1>4, <1>5, <1>6, <1>7, <1>8, <1>9 DEF FollowCase

LEMMA CameraNearer ==
  ASSUME TypeInv, cameraHandle, done
  PROVE  Nearer("camera")
<1>1. "camera" \in Worker
  BY DEF Worker
<1> USE <1>1, Ranks, NearerByGoto
<1>2. CASE OpenCamera
  BY <1>2 DEF OpenCamera
<1>3. CASE Grab
  BY <1>3 DEF Grab
<1>4. CASE Scale
  BY <1>4 DEF Scale
<1>5. CASE Deliver
  BY <1>5 DEF Deliver
<1>6. CASE FreePicture
  BY <1>6 DEF FreePicture
<1>7. QED
  BY <1>2, <1>3, <1>4, <1>5, <1>6 DEF cameraHandle

LEMMA ImageNearer ==
  ASSUME TypeInv, imageProcessHandle, done
  PROVE  Nearer("image")
<1>1. "image" \in Worker
  BY DEF Worker
<1> USE <1>1, Ranks, NearerByGoto
<1>2. CASE ImageLoop
  BY <1>2 DEF ImageLoop
<1>3. CASE TestPicture
  BY <1>3 DEF TestPicture
<1>4. CASE BeginScan
  BY <1>4 DEF BeginScan
<1>5. CASE Scan
  BY <1>5 DEF Scan
<1>6. CASE Decide
  BY <1>6 DEF Decide
<1>7. CASE SomethingFound
  BY <1>7 DEF SomethingFound
<1>8. CASE ClearPicture
  BY <1>8 DEF ClearPicture
<1>9. QED
  BY <1>2, <1>3, <1>4, <1>5, <1>6, <1>7, <1>8 DEF imageProcessHandle

LEMMA QuitStep ==
  ASSUME Inv, QuitInv, [Next]_vars, pc["key"] = "exited",
         NEW t \in Worker \ {"key"}
  PROVE  Nearer(t)
<1>1. /\ TypeInv /\ done /\ switchVar["left"] = NoCommand
      /\ "left" \in Side /\ "right" \in Side /\ t \in Thread
  BY DEF Inv, QuitInv, Side, Thread
<1>2. CASE leftHandle
  <2>1. t # "left" => ~Changes(t)
    BY <1>1, <1>2, LeftMoves, MotorMoves, DriveMoves, FollowMoves
       DEF Changes, Moves, leftHandle, Side
  <2>2. Nearer("left")
    BY <1>1, <1>2, StoreNearer, MotorNearer, DriveNearer, FollowNearer
       DEF leftHandle
  <2>3. QED
    BY <2>1, <2>2 DEF Nearer
<1>3. CASE rightHandle
  <2>1. t # "right" => ~Changes(t)
    BY <1>1, <1>3, RightMoves, MotorMoves DEF Changes, Moves, rightHandle, Side
  <2>2. Nearer("right")
    BY <1>1, <1>3, StoreNearer, MotorNearer DEF rightHandle
  <2>3. QED
    BY <2>1, <2>2 DEF Nearer
<1>4. ~ThreadKey
  BY <1>1, KeyMoves DEF Moves
<1>5. CASE cameraHandle
  <2>1. t # "camera" => ~Changes(t)
    BY <1>1, <1>5, CameraMoves DEF Changes, Moves, outputs
  <2>2. QED
    BY <1>1, <1>5, <2>1, CameraNearer DEF Nearer
<1>6. CASE imageProcessHandle
  <2>1. t # "image" => ~Changes(t)
    BY <1>1, <1>6, ImageMoves DEF Changes, Moves, outputs
  <2>2. QED
    BY <1>1, <1>6, <2>1, ImageNearer DEF Nearer
<1>7. CASE main
  BY <1>1, <1>7, MainMoves DEF Nearer, Changes, Moves, Thread, Worker, Side
<1>8. CASE UNCHANGED vars
  BY <1>8 DEF vars, outputs, Nearer, Changes
<1>9. QED
  BY <1>2, <1>3, <1>4, <1>5, <1>6, <1>7, <1>8 DEF Next, Terminated

(* 'q' is final: once the key thread has left, every step of a thread is   *)
(* one of at most 19 before its end; a laser that keeps moving does not    *)
(* keep the left thread in case 7, nor do counted presses keep a turn.     *)
THEOREM QuitNeverTurnsBack == Spec => QuitProgress
<1>1. Init => QuitInv
  BY Threads DEF Init, QuitInv
<1>2. Inv /\ QuitInv /\ [Next]_vars => QuitInv'
  BY QuitNext
<1>3. Inv /\ QuitInv /\ [Next]_vars =>
        [pc["key"] = "exited" =>
           \A t \in Worker \ {"key"} :
             pc'[t] # pc[t] \/ (t \in Side /\ store'[t] # store[t])
               => ToQuit(t)' < ToQuit(t)]_<<pc, store>>
  BY QuitStep DEF Nearer, Changes
<1>4. QED
  BY <1>1, <1>2, <1>3, InvAlways, PTL DEF Spec, QuitProgress
=============================================================================
