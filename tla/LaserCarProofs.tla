--------------------------- MODULE LaserCarProofs ---------------------------
(* What LaserCar guarantees for every use of the keys and any number of    *)
(* pictures.                                                               *)
EXTENDS LaserCar, TLAPS

-----------------------------------------------------------------------------
(* Types.                                                                  *)

OrderType ==
  /\ flag \in [Flag -> {-1, 0, 1}]
  /\ done \in BOOLEAN
  /\ mode \in {"none", "m1", "m2"}
  /\ switchVar \in [Side -> Command]
  /\ turnCount \in [Side -> Nat]
  /\ cmd \in [Side -> Command]
  /\ reg \in [Side \cup {"key"} -> Nat]
  /\ key \in KeyChar \cup {"none"}
  /\ budget \in [KeyChar -> Nat]

Duty == 0..PwmRange

OutputType ==
  /\ pins \in [Side -> PinState]
  /\ dat \in [Side -> Duty]
  /\ store \in [Side -> NoStore..PwmRange]
  /\ dutyLevel \in [Side -> Duty]
  /\ dutyHold \in [Side -> Duty]

SceneType ==
  /\ newPicture \in BOOLEAN
  /\ scaled_data \in Way
  /\ memory \in {"none", "live", "freed"}
  /\ pictures \in 0..MaxPictures
  /\ first \in Way
  /\ due \in Int
  /\ way \in [Way -> {-1, 0, 1}]

TypeInv == TypeOK /\ DOMAIN pc = Thread

(* A turn is begun, and a count read, only while presses are counted; a    *)
(* motor thread that has ended has nothing more to write.                  *)
MotorInv ==
  \A s \in Side :
    /\ pc[s] \in {"turn", "countRead"} => turnCount[s] > 0
    /\ pc[s] = "countWrite" => reg[s] > 0
    /\ pc[s] = "exited" => store[s] = NoStore

Inv == TypeInv /\ MotorInv

LEMMA TypeParts ==
  TypeInv <=> /\ OrderType /\ OutputType /\ SceneType
              /\ DOMAIN pc = Thread /\ \A t \in Thread : pc[t] \in PC[t]
  BY DEF TypeInv, TypeOK, OrderType, OutputType, SceneType, Duty

LEMMA OrdersKept == OrderType /\ UNCHANGED orders => OrderType'
  BY DEF OrderType, orders

LEMMA OutputsKept == OutputType /\ UNCHANGED outputs => OutputType'
  BY DEF OutputType, outputs, speeds

LEMMA SceneKept == SceneType /\ UNCHANGED scene => SceneType'
  BY DEF SceneType, scene, camera, image

LEMMA Commands == \A c : c \in Command <=> c \in {-1, 0, 1, 2, 3, 4, 5, 6, 7}
  BY DEF Command, NoCommand, Follow

LEMMA CommandOfType == \A k : CommandOf(k) \in Command
<1> SUFFICES ASSUME NEW k
             PROVE  CommandOf(k) \in {-1, 0, 1, 2, 3, 4, 5, 6, 7}
  BY Commands
<1> USE DEF CommandOf, NoCommand, StopCar, Forward, Backward, Faster, Slower,
            TurnLeft, TurnRight, Follow
<1>1. CASE k \in {"s", "w", "x", "2"}
  BY <1>1
<1>2. CASE k \in {"i", "j", "a", "d"}
  BY <1>2
<1>3. CASE k \notin {"s", "w", "x", "2", "i", "j", "a", "d"}
  BY <1>3
<1>4. QED
  BY <1>1, <1>2, <1>3

LEMMA MoveDutyType == \A w : MoveDuty(w) \in [Side -> Duty]
<1> SUFFICES ASSUME NEW w
             PROVE  MoveDuty(w) \in [Side -> Duty]
  OBVIOUS
<1> USE DEF MoveDuty, Side, Duty, PwmRange
<1>1. CASE w = "left"
  BY <1>1
<1>2. CASE w = "right"
  BY <1>2
<1>3. CASE w \notin {"left", "right"}
  BY <1>3
<1>4. QED
  BY <1>1, <1>2, <1>3

LEMMA LevelType == \A c : \A d \in Duty : Level(c, d) \in Duty
  BY DEF Level, Duty, DutyStep, PwmRange

LEMMA Threads ==
  \A t \in {"left", "right", "key", "camera", "image", "main"} : t \in Thread
  BY DEF Thread, Worker, Side

LEMMA Sides ==
  \A s \in Side : s \in Thread /\ OtherSide(s) \in Side /\ OtherSide(s) # s
  BY DEF Side, Thread, Worker, OtherSide

LEMMA MotorPlaces == \A s \in Side : MotorPC \subseteq PC[s]
  BY DEF Side, PC

LEMMA CasePlaces ==
  \A s \in Side : \A c \in Command :
    Case(s, c) \in PC[s] \cap {"speed", "hold", "loop", "ack", "testFirst"}
<1> SUFFICES ASSUME NEW s \in Side, NEW c \in {-1, 0, 1, 2, 3, 4, 5, 6, 7}
             PROVE  Case(s, c) \in PC[s] \cap {"speed", "hold", "loop", "ack", "testFirst"}
  BY Commands
<1> USE DEF Case, TurnCommand, NoCommand, StopCar, Forward, Backward, Faster, Slower,
            TurnLeft, TurnRight, Follow, PC, MotorPC
<1>1. CASE s = "left"
  BY <1>1
<1>2. CASE s = "right"
  BY <1>2
<1>3. QED
  BY <1>1, <1>2 DEF Side

(* One thread goes to a place of its own. *)
LEMMA StepType ==
  ASSUME TypeInv, NEW t \in Thread, NEW from, NEW to \in PC[t], Goto(t, from, to),
         OrderType', OutputType', SceneType'
  PROVE  TypeInv'
<1>1. DOMAIN pc' = Thread /\ \A u \in Thread : pc'[u] \in PC[u]
  BY DEF TypeInv, TypeOK, Goto
<1>2. QED
  BY <1>1 DEF TypeInv, TypeOK, OrderType, OutputType, SceneType, Duty

LEMMA StayType ==
  ASSUME TypeInv, UNCHANGED pc, OrderType', OutputType', SceneType'
  PROVE  TypeInv'
  BY DEF TypeInv, TypeOK, OrderType, OutputType, SceneType, Duty

LEMMA SetBothType ==
  ASSUME OutputType, NEW s \in Side, NEW d \in [Side -> Duty], SetBoth(s, d)
  PROVE  OutputType'
<1>1. d[s] \in Duty /\ d[OtherSide(s)] \in NoStore..PwmRange
  BY Sides DEF Duty, NoStore, PwmRange
<1>2. QED
  BY <1>1 DEF SetBoth, OutputType, speeds

LEMMA SecondStoreType ==
  ASSUME TypeInv, NEW s \in Side, SecondStore(s)
  PROVE  TypeInv'
<1>1. store[s] \in Duty
  BY DEF SecondStore, TypeInv, TypeOK, Duty, NoStore, PwmRange
<1>2. NoStore \in NoStore..PwmRange
  BY DEF NoStore, PwmRange
<1>3. OutputType'
  BY <1>1, <1>2, TypeParts DEF SecondStore, OutputType, speeds
<1>4. OrderType' /\ SceneType'
  BY TypeParts, OrdersKept, SceneKept DEF SecondStore, scene
<1>5. QED
  BY <1>3, <1>4, StayType DEF SecondStore

LEMMA MotorType ==
  ASSUME Inv, NEW s \in Side, Motor(s)
  PROVE  TypeInv'
<1>1. TypeInv /\ OrderType /\ OutputType /\ SceneType
  BY TypeParts DEF Inv
<1>2. ASSUME NEW from, NEW to \in PC[s], Goto(s, from, to),
             OrderType', OutputType', SceneType'
      PROVE  TypeInv'
  BY <1>1, <1>2, Sides, StepType
<1>3. ASSUME NEW from, NEW to \in MotorPC, Goto(s, from, to),
             OrderType', OutputType', SceneType'
      PROVE  TypeInv'
  BY <1>2, <1>3, MotorPlaces
<1>4. UNCHANGED orders => OrderType'
  BY <1>1, OrdersKept
<1>5. UNCHANGED outputs => OutputType'
  BY <1>1, OutputsKept
<1>6. UNCHANGED scene => SceneType'
  BY <1>1, SceneKept
<1>7. NoCommand \in Command
  BY Commands DEF NoCommand
<1>8. CASE Fetch(s)
  <2>1. switchVar[s] \in Command /\ Case(s, switchVar[s]) \in PC[s]
    BY <1>1, CasePlaces DEF OrderType
  <2>2. OrderType'
    BY <1>1, <1>7, <1>8, <2>1 DEF Fetch, OrderType
  <2>3. QED
    BY <1>2, <1>5, <1>6, <1>8, <2>1, <2>2 DEF Fetch
<1>9. CASE Ack(s)
  <2>1. OrderType'
    BY <1>1, <1>7, <1>9 DEF Ack, OrderType
  <2>2. QED
    BY <1>3, <1>5, <1>6, <1>9, <2>1 DEF Ack, MotorPC
<1>10. CASE Leave(s)
  BY <1>3, <1>4, <1>5, <1>6, <1>10 DEF Leave, MotorPC
<1>11. CASE Speed(s)
  <2>1. Level(cmd[s], dutyLevel[s]) \in Duty
    BY <1>1, LevelType DEF OutputType
  <2>2. OutputType'
    BY <1>1, <1>11, <2>1 DEF Speed, OutputType
  <2>3. QED
    BY <1>3, <1>4, <1>6, <1>11, <2>2 DEF Speed, MotorPC
<1>12. CASE Hold(s)
  <2>1. OutputType'
    BY <1>1, <1>12 DEF Hold, OutputType
  <2>2. QED
    BY <1>3, <1>4, <1>6, <1>12, <2>1 DEF Hold, MotorPC
<1>13. CASE TurnTest(s)
  BY <1>3, <1>4, <1>5, <1>6, <1>13 DEF TurnTest, MotorPC
<1>14. CASE Turn(s)
  <2>1. [t \in Side |-> IF t = s THEN TurnDuty ELSE PwmRange] \in [Side -> Duty]
    BY DEF TurnDuty, PwmRange, Duty
  <2>2. OutputType'
    BY <1>1, <1>14, <2>1, SetBothType DEF Turn
  <2>3. QED
    BY <1>3, <1>4, <1>6, <1>14, <2>2 DEF Turn, MotorPC
<1>15. CASE ReadCount(s)
  <2>1. OrderType'
    BY <1>1, <1>15 DEF ReadCount, OrderType
  <2>2. QED
    BY <1>3, <1>5, <1>6, <1>15, <2>1 DEF ReadCount, MotorPC
<1>16. CASE WriteCount(s)
  <2>1. reg[s] \in Nat /\ reg[s] > 0
    BY <1>1, <1>16 DEF WriteCount, Goto, Inv, MotorInv, OrderType
  <2>2. reg[s] - 1 \in Nat
    BY <2>1
  <2>3. OrderType'
    BY <1>1, <1>16, <2>2 DEF WriteCount, OrderType
  <2>4. QED
    BY <1>3, <1>5, <1>6, <1>16, <2>3 DEF WriteCount, MotorPC
<1>17. CASE RestoreDuty(s)
  <2>1. OutputType'
    BY <1>1, <1>17 DEF RestoreDuty, OutputType, speeds
  <2>2. QED
    BY <1>3, <1>4, <1>6, <1>17, <2>1 DEF RestoreDuty, MotorPC
<1>18. QED
  BY <1>8, <1>9, <1>10, <1>11, <1>12, <1>13, <1>14, <1>15, <1>16, <1>17
     DEF Motor, ManualCase

LEMMA FollowCaseType ==
  ASSUME TypeInv, FollowCase
  PROVE  TypeInv'
<1>1. OrderType /\ OutputType /\ SceneType /\ "left" \in Side
  BY TypeParts DEF Side
<1>2. ASSUME NEW from, NEW to \in PC["left"], Goto("left", from, to),
             OrderType', OutputType', SceneType'
      PROVE  TypeInv'
  BY <1>2, Threads, StepType
<1>3. UNCHANGED orders => OrderType'
  BY <1>1, OrdersKept
<1>4. UNCHANGED outputs => OutputType'
  BY <1>1, OutputsKept
<1>5. UNCHANGED scene => SceneType'
  BY <1>1, SceneKept
<1>6. Halt => OutputType'
  <2>1. [s \in Side |-> 0] \in [Side -> Duty]
    BY DEF Duty, PwmRange
  <2>2. QED
    BY <1>1, <2>1, SetBothType DEF Halt
<1>7. ASSUME NEW w, SetBoth("left", MoveDuty(w))
      PROVE  OutputType'
  BY <1>1, <1>7, MoveDutyType, SetBothType
<1>8. ASSUME NEW w, UNCHANGED <<camera, image>>, way' = [way EXCEPT ![w] = 0]
      PROVE  SceneType'
  BY <1>1, <1>8 DEF SceneType, camera, image
<1>9. CASE StartFollow \/ Rest
  BY <1>2, <1>3, <1>5, <1>6, <1>9 DEF StartFollow, Rest, PC
<1>10. CASE FollowTest
  <2>1. OrderType'
    BY <1>1, <1>10, Commands DEF FollowTest, OrderType, NoCommand
  <2>2. QED
    BY <1>2, <1>4, <1>5, <1>10, <2>1 DEF FollowTest, PC, MotorPC
<1>11. ASSUME NEW w \in {"left", "right"}, EndTurn(w)
       PROVE  TypeInv'
  BY <1>2, <1>3, <1>5, <1>7, <1>11 DEF EndTurn, Clearing, PC
<1>12. ASSUME NEW w \in Direction, TestDirection(w)
       PROVE  TypeInv'
  <2>1. Moving[w] \in PC["left"] /\ NextTest[w] \in PC["left"]
    BY DEF Moving, NextTest, PC, Direction
  <2>2. CASE way[w] # 1
    BY <1>2, <1>3, <1>4, <1>5, <1>12, <2>1, <2>2 DEF TestDirection
  <2>3. CASE way[w] = 1
    <3>1. SceneType'
      BY <1>1, <1>12, <2>3 DEF TestDirection, SceneType, camera
    <3>2. QED
      BY <1>2, <1>3, <1>7, <1>12, <2>1, <2>3, <3>1 DEF TestDirection
  <2>4. QED
    BY <2>2, <2>3
<1>13. ASSUME NEW w \in Direction, ClearDirection(w)
       PROVE  TypeInv'
  BY <1>2, <1>3, <1>4, <1>8, <1>13 DEF ClearDirection, PC
<1>14. CASE TestNothing
  BY <1>2, <1>3, <1>4, <1>5, <1>6, <1>14 DEF TestNothing, PC
<1>15. CASE ClearNothing
  BY <1>2, <1>3, <1>4, <1>8, <1>15 DEF ClearNothing, PC
<1>16. QED
  BY <1>9, <1>10, <1>11, <1>12, <1>13, <1>14, <1>15 DEF FollowCase

LEMMA DriveCaseType ==
  ASSUME TypeInv, DriveCase
  PROVE  TypeInv'
<1>1. OrderType /\ OutputType /\ SceneType
  BY TypeParts
<1>2. ASSUME NEW from, NEW to \in PC["left"], Goto("left", from, to),
             OrderType', OutputType', SceneType'
      PROVE  TypeInv'
  BY <1>2, Threads, StepType
<1>3. UNCHANGED orders => OrderType'
  BY <1>1, OrdersKept
<1>4. UNCHANGED outputs => OutputType'
  BY <1>1, OutputsKept
<1>5. UNCHANGED scene => SceneType'
  BY <1>1, SceneKept
<1>6. ASSUME NEW f, NEW v \in {0, 1}, SetFlag(f, v)
      PROVE  OrderType' /\ SceneType'
  BY <1>1, <1>5, <1>6 DEF SetFlag, OrderType
<1>7. ASSUME UNCHANGED <<dat, store, speeds>>, pins' \in [Side -> PinState]
      PROVE  OutputType'
  BY <1>1, <1>7 DEF OutputType, speeds
<1>8. CASE TestFirst
  BY <1>2, <1>3, <1>4, <1>5, <1>8 DEF TestFirst, PC
<1>9. CASE TestSecond
  BY <1>2, <1>3, <1>4, <1>5, <1>9 DEF TestSecond, AfterTests, PC
<1>10. CASE ClearFirst \/ MarkForward
  BY <1>2, <1>4, <1>6, <1>10 DEF ClearFirst, MarkForward, PC
<1>11. CASE ClearSecond
  <2>1. pins' \in [Side -> PinState]
    BY <1>1, <1>11 DEF ClearSecond, PinState, OutputType
  <2>2. QED
    BY <1>2, <1>6, <1>7, <1>11, <2>1 DEF ClearSecond, AfterTests, PC
<1>12. CASE Drive
  <2>1. pins' \in [Side -> PinState]
    BY <1>12 DEF Drive, PinsOf, PinState
  <2>2. QED
    BY <1>2, <1>3, <1>5, <1>7, <1>12, <2>1 DEF Drive, PC, MotorPC
<1>13. QED
  BY <1>8, <1>9, <1>10, <1>11, <1>12 DEF DriveCase

LEMMA KeyType ==
  ASSUME TypeInv, ThreadKey
  PROVE  TypeInv'
<1>1. OrderType /\ OutputType /\ SceneType
  BY TypeParts
<1>2. ASSUME NEW from, NEW to \in PC["key"], Goto("key", from, to),
             OrderType', UNCHANGED <<outputs, scene>>
      PROVE  TypeInv'
  BY <1>1, <1>2, Threads, StepType, OutputsKept, SceneKept
<1>3. SideOf(key) \in Side
  BY DEF SideOf, Side
<1>4. ASSUME NEW k \in KeyChar, ReadKey(k)
      PROVE  TypeInv'
  <2>1. OrderType'
    BY <1>1, <1>4 DEF ReadKey, Press, OrderType
  <2>2. QED
    BY <1>2, <1>4, <2>1 DEF ReadKey, PC
<1>5. ASSUME NEW k \in KeyChar, ReadMode(k)
      PROVE  TypeInv'
  <2>1. OrderType'
    BY <1>1, <1>5 DEF ReadMode, Press, OrderType
  <2>2. QED
    BY <1>2, <1>5, <2>1 DEF ReadMode, PC
<1>6. CASE MarkKey
  <2>1. flag' \in [Flag -> {-1, 0, 1}]
    <3>1. \A f \in Flag : [flag EXCEPT ![f] = 1] \in [Flag -> {-1, 0, 1}]
      BY <1>1 DEF OrderType
    <3>2. CASE key \in {"s", "w", "x"}
      BY <1>6, <3>1, <3>2 DEF MarkKey, Flag
    <3>3. CASE key \notin {"s", "w", "x"}
      BY <1>1, <1>6, <3>3 DEF MarkKey, OrderType
    <3>4. QED
      BY <3>2, <3>3
  <2>2. OrderType'
    BY <1>1, <1>6, <2>1 DEF MarkKey, OrderType
  <2>3. QED
    BY <1>2, <1>6, <2>2 DEF MarkKey, PC
<1>7. CASE PostRight \/ PostLeft
  <2>1. OrderType'
    BY <1>1, <1>7, CommandOfType DEF PostRight, PostLeft, OrderType
  <2>2. AfterPost(key) \in PC["key"]
    BY DEF AfterPost, PC
  <2>3. QED
    BY <1>2, <1>7, <2>1, <2>2 DEF PostRight, PostLeft, PC
<1>8. CASE ReadPresses
  <2>1. OrderType'
    BY <1>1, <1>3, <1>8 DEF ReadPresses, OrderType
  <2>2. QED
    BY <1>2, <1>8, <2>1 DEF ReadPresses, PC
<1>9. CASE CountPress
  <2>1. reg["key"] + 1 \in Nat
    BY <1>1 DEF OrderType
  <2>2. OrderType'
    BY <1>1, <1>9, <2>1 DEF CountPress, OrderType
  <2>3. QED
    BY <1>2, <1>9, <2>2 DEF CountPress, PC
<1>10. QED
  BY <1>4, <1>5, <1>6, <1>7, <1>8, <1>9 DEF ThreadKey, ActOnKey

LEMMA CameraType ==
  ASSUME TypeInv, cameraHandle
  PROVE  TypeInv'
<1>1. OrderType /\ OutputType /\ SceneType
  BY TypeParts
<1>2. ASSUME NEW from, NEW to \in PC["camera"], Goto("camera", from, to),
             SceneType', UNCHANGED <<orders, outputs>>
      PROVE  TypeInv'
  BY <1>1, <1>2, Threads, StepType, OrdersKept, OutputsKept
<1> USE <1>1 DEF SceneType, image, PC
<1>3. CASE OpenCamera
  BY <1>2, <1>3 DEF OpenCamera
<1>4. CASE Grab
  BY <1>2, <1>4, ConstantsAssumption DEF Grab
<1>5. CASE Scale
  BY <1>2, <1>5 DEF Scale
<1>6. CASE Deliver \/ FreePicture
  BY <1>2, <1>6 DEF Deliver, FreePicture
<1>7. QED
  BY <1>3, <1>4, <1>5, <1>6 DEF cameraHandle

LEMMA ImageType ==
  ASSUME TypeInv, imageProcessHandle
  PROVE  TypeInv'
<1>1. OrderType /\ OutputType /\ SceneType
  BY TypeParts
<1>2. ASSUME NEW from, NEW to \in PC["image"], Goto("image", from, to),
             SceneType', UNCHANGED <<orders, outputs>>
      PROVE  TypeInv'
  BY <1>1, <1>2, Threads, StepType, OrdersKept, OutputsKept
<1> USE <1>1 DEF SceneType, camera, image, scene, PC
<1>3. CASE ImageLoop \/ TestPicture
  BY <1>2, <1>3 DEF ImageLoop, TestPicture
<1>4. CASE BeginScan \/ SomethingFound
  BY <1>2, <1>4 DEF BeginScan, SomethingFound
<1>5. CASE Scan
  BY <1>2, <1>5 DEF Scan, Seen
<1>6. CASE Decide
  BY <1>2, <1>6 DEF Decide, Way
<1>7. CASE ClearPicture
  BY <1>2, <1>7 DEF ClearPicture
<1>8. QED
  BY <1>3, <1>4, <1>5, <1>6, <1>7 DEF imageProcessHandle

LEMMA NextType == Inv /\ [Next]_vars => TypeInv'
<1> SUFFICES ASSUME Inv, [Next]_vars
             PROVE  TypeInv'
  OBVIOUS
<1>1. TypeInv /\ OrderType /\ OutputType /\ SceneType /\ "left" \in Side /\ "right" \in Side
  BY TypeParts DEF Inv, Side
<1>2. CASE leftHandle
  BY <1>1, <1>2, SecondStoreType, MotorType, DriveCaseType, FollowCaseType
     DEF leftHandle
<1>3. CASE rightHandle
  BY <1>1, <1>3, SecondStoreType, MotorType DEF rightHandle
<1>4. CASE main
  <2>1. OutputType'
    BY <1>1, <1>4 DEF main, PinState, OutputType, speeds, Duty, PwmRange
  <2>2. OrderType' /\ SceneType'
    BY <1>1, <1>4, OrdersKept, SceneKept DEF main
  <2>3. "main" \in Thread /\ "exited" \in PC["main"]
    BY Threads DEF PC
  <2>4. Goto("main", "join", "exited")
    BY <1>4 DEF main
  <2>5. QED
    BY <1>1, <2>1, <2>2, <2>3, <2>4, StepType
<1>5. CASE UNCHANGED vars
  BY <1>1, <1>5, StayType, OrdersKept, OutputsKept, SceneKept DEF vars
<1>6. QED
  BY <1>1, <1>2, <1>3, <1>4, <1>5, KeyType, CameraType, ImageType
     DEF Next, Terminated

LEMMA InitType == Init => TypeInv
<1> SUFFICES ASSUME Init
             PROVE  TypeInv
  OBVIOUS
<1>1. OutputType
  BY DEF Init, OutputType, PinState, Duty, PwmRange, NoStore
<1>2. OrderType
  <2>1. NoCommand \in Command
    BY Commands DEF NoCommand
  <2>2. done \in BOOLEAN
    BY DEF Init
  <2>3. QED
    BY <2>1, <2>2, ConstantsAssumption DEF Init, OrderType
<1>3. SceneType
  <2>1. newPicture \in BOOLEAN
    BY DEF Init
  <2>2. QED
    BY <2>1, ConstantsAssumption DEF Init, SceneType, Way
<1>4. DOMAIN pc = Thread /\ \A t \in Thread : pc[t] \in PC[t]
  <2>1. DOMAIN pc = Thread
    BY DEF Init
  <2>2. ASSUME NEW t \in Thread
        PROVE  pc[t] \in PC[t]
    <3>1. CASE t \in Side
      <4>1. pc[t] = "loop"
        BY <3>1 DEF Init, Side
      <4>2. QED
        BY <3>1, <4>1, MotorPlaces DEF MotorPC
    <3>2. CASE t = "key"
      BY <3>2 DEF Init, PC, Side
    <3>3. CASE t = "camera"
      BY <3>3 DEF Init, PC, Side
    <3>4. CASE t = "image"
      BY <3>4 DEF Init, PC, Side
    <3>5. CASE t = "main"
      BY <3>5 DEF Init, PC, Side
    <3>6. QED
      BY <3>1, <3>2, <3>3, <3>4, <3>5 DEF Thread, Worker
  <2>3. QED
    BY <2>1, <2>2
<1>5. QED
  BY <1>1, <1>2, <1>3, <1>4, TypeParts

-----------------------------------------------------------------------------
(* What a step of one thread leaves alone.                                 *)

Moves(t) ==
  /\ pc[t] # "exited"
  /\ \A u \in Thread \ {t} : pc'[u] = pc[u]

LEMMA GotoMoves ==
  ASSUME TypeInv, NEW t \in Thread, NEW from, NEW to, Goto(t, from, to), from # "exited"
  PROVE  Moves(t) /\ pc[t] = from /\ pc'[t] = to
  BY DEF Goto, Moves, TypeInv

LEMMA MotorMoves ==
  ASSUME Inv, NEW s \in Side, SecondStore(s) \/ Motor(s)
  PROVE  /\ Moves(s)
         /\ UNCHANGED <<flag, done, mode, key, budget, pins, scene>>
         /\ \A t \in Side \ {s} : /\ turnCount'[t] = turnCount[t]
                                  /\ reg'[t] = reg[t]
                                  /\ store'[t] = store[t]
<1>1. TypeInv /\ s \in Thread
  BY Sides DEF Inv
<1>2. ASSUME NEW from, NEW to, Goto(s, from, to), from # "exited"
      PROVE  Moves(s)
  BY <1>1, <1>2, GotoMoves
<1> USE DEF orders, outputs, speeds
<1>3. CASE SecondStore(s)
  BY <1>3 DEF SecondStore, Moves, Inv, MotorInv, TypeInv, TypeOK
<1>4. CASE Fetch(s) \/ Ack(s) \/ Leave(s)
  BY <1>2, <1>4 DEF Fetch, Ack, Leave
<1>5. CASE Speed(s) \/ Hold(s) \/ TurnTest(s)
  BY <1>2, <1>5 DEF Speed, Hold, TurnTest
<1>6. CASE Turn(s)
  BY <1>1, <1>2, <1>6 DEF Turn, SetBoth, TypeInv, TypeOK
<1>7. CASE ReadCount(s) \/ WriteCount(s)
  BY <1>1, <1>2, <1>7 DEF ReadCount, WriteCount, TypeInv, TypeOK
<1>8. CASE RestoreDuty(s)
  BY <1>2, <1>8 DEF RestoreDuty
<1>9. QED
  BY <1>3, <1>4, <1>5, <1>6, <1>7, <1>8 DEF Motor, ManualCase

LEMMA DriveMoves ==
  ASSUME TypeInv, DriveCase
  PROVE  /\ Moves("left")
         /\ pc'["left"] \notin {"turn", "countRead", "countWrite", "exited"}
         /\ UNCHANGED <<done, mode, switchVar, turnCount, cmd, reg, key, budget,
                        dat, store, speeds, scene>>
<1>1. ASSUME NEW from, NEW to, Goto("left", from, to), from # "exited"
      PROVE  Moves("left") /\ pc'["left"] = to
  BY <1>1, Threads, GotoMoves
<1> USE DEF orders, outputs
<1>2. CASE TestFirst \/ TestSecond
  BY <1>1, <1>2 DEF TestFirst, TestSecond, AfterTests
<1>3. CASE ClearFirst \/ ClearSecond \/ MarkForward
  BY <1>1, <1>3 DEF ClearFirst, ClearSecond, MarkForward, SetFlag, AfterTests
<1>4. CASE Drive
  BY <1>1, <1>4 DEF Drive
<1>5. QED
  BY <1>2, <1>3, <1>4 DEF DriveCase

LEMMA FollowMoves ==
  ASSUME TypeInv, FollowCase
  PROVE  /\ Moves("left")
         /\ pc'["left"] \notin {"turn", "countRead", "countWrite", "exited"}
         /\ UNCHANGED <<flag, done, mode, switchVar, turnCount, reg, key, budget,
                        pins, speeds, camera, first>>
         /\ store'["right"] = store["right"]
<1>1. ASSUME NEW from, NEW to, Goto("left", from, to), from # "exited"
      PROVE  Moves("left") /\ pc'["left"] = to
  BY <1>1, Threads, GotoMoves
<1>2. ASSUME NEW d, SetBoth("left", d)
      PROVE  UNCHANGED <<pins, speeds>> /\ store'["right"] = store["right"]
  BY <1>2 DEF SetBoth, TypeInv, TypeOK, Side
<1> USE DEF orders, outputs, scene, image
<1>3. CASE StartFollow \/ Rest
  BY <1>1, <1>2, <1>3 DEF StartFollow, Rest, Halt
<1>4. CASE FollowTest
  BY <1>1, <1>4 DEF FollowTest
<1>5. CASE TestNothing \/ ClearNothing
  BY <1>1, <1>2, <1>5 DEF TestNothing, ClearNothing, Halt
<1>6. ASSUME NEW w \in {"left", "right"}, EndTurn(w)
      PROVE  /\ Moves("left")
             /\ pc'["left"] \notin {"turn", "countRead", "countWrite", "exited"}
             /\ UNCHANGED <<flag, done, mode, switchVar, turnCount, reg, key, budget,
                            pins, speeds, camera, first>>
             /\ store'["right"] = store["right"]
  BY <1>1, <1>2, <1>6 DEF EndTurn, Moving, Clearing
<1>7. ASSUME NEW w \in Direction, TestDirection(w) \/ ClearDirection(w)
      PROVE  /\ Moves("left")
             /\ pc'["left"] \notin {"turn", "countRead", "countWrite", "exited"}
             /\ UNCHANGED <<flag, done, mode, switchVar, turnCount, reg, key, budget,
                            pins, speeds, camera, first>>
             /\ store'["right"] = store["right"]
  <2>1. /\ w # "exited" /\ Clearing[w] # "exited"
        /\ Moving[w] \in {"toLeft", "toRight", "ahead"}
        /\ NextTest[w] \in {"right", "straight", "nothing"}
    BY DEF Direction, Clearing, Moving, NextTest
  <2>2. CASE TestDirection(w)
    BY <1>1, <1>2, <2>1, <2>2 DEF TestDirection
  <2>3. CASE ClearDirection(w)
    BY <1>1, <2>1, <2>3 DEF ClearDirection
  <2>4. QED
    BY <1>7, <2>2, <2>3
<1>8. QED
  BY <1>3, <1>4, <1>5, <1>6, <1>7 DEF FollowCase

LEMMA LeftMoves ==
  ASSUME Inv, leftHandle
  PROVE  Moves("left") /\ UNCHANGED <<done, mode, key, budget, camera, first>>
<1>1. "left" \in Side /\ TypeInv
  BY DEF Side, Inv
<1>2. QED
  BY <1>1, MotorMoves, DriveMoves, FollowMoves DEF leftHandle, scene, image

LEMMA RightMoves ==
  ASSUME Inv, rightHandle
  PROVE  Moves("right") /\ UNCHANGED <<done, mode, key, budget, scene>>
<1>1. "right" \in Side
  BY DEF Side
<1>2. QED
  BY <1>1, MotorMoves DEF rightHandle

LEMMA KeyMoves ==
  ASSUME TypeInv, ThreadKey
  PROVE  Moves("key") /\ UNCHANGED <<outputs, scene>> /\ (done => done')
<1>1. "key" \in Thread
  BY Threads
<1>2. ASSUME NEW from, NEW to, Goto("key", from, to), from # "exited"
      PROVE  Moves("key")
  BY <1>1, <1>2, GotoMoves
<1>3. ASSUME NEW k \in KeyChar, ReadKey(k) \/ ReadMode(k)
      PROVE  Moves("key") /\ UNCHANGED <<outputs, scene>> /\ (done => done')
  BY <1>2, <1>3 DEF ReadKey, ReadMode
<1>4. CASE MarkKey
  <2>1. Moves("key")
    BY <1>2, <1>4 DEF MarkKey
  <2>2. UNCHANGED <<outputs, scene>>
    BY <1>4 DEF MarkKey
  <2>3. done => done'
    BY <1>4, Zenon DEF MarkKey
  <2>4. QED
    BY <2>1, <2>2, <2>3
<1>5. CASE PostRight \/ PostLeft \/ ReadPresses \/ CountPress
  <2>1. Moves("key")
    BY <1>2, <1>5 DEF PostRight, PostLeft, ReadPresses, CountPress
  <2>2. UNCHANGED <<outputs, scene, done>>
    BY <1>5 DEF PostRight, PostLeft, ReadPresses, CountPress
  <2>3. QED
    BY <2>1, <2>2
<1>6. QED
  BY <1>3, <1>4, <1>5 DEF ThreadKey, ActOnKey

LEMMA CameraMoves ==
  ASSUME TypeInv, cameraHandle
  PROVE  Moves("camera") /\ UNCHANGED <<orders, outputs, image, way>>
<1>1. "camera" \in Thread
  BY Threads
<1>2. QED
  BY <1>1, GotoMoves DEF cameraHandle, OpenCamera, Grab, Scale, Deliver, FreePicture

LEMMA ImageMoves ==
  ASSUME TypeInv, imageProcessHandle
  PROVE  Moves("image") /\ UNCHANGED <<orders, outputs, memory>>
<1>1. "image" \in Thread
  BY Threads
<1>2. QED
  BY <1>1, GotoMoves
     DEF imageProcessHandle, ImageLoop, TestPicture, BeginScan, Scan, Decide,
         SomethingFound, ClearPicture, camera, scene

LEMMA MainMoves ==
  ASSUME TypeInv, main
  PROVE  Moves("main") /\ UNCHANGED <<orders, store, speeds, scene>>
<1>1. "main" \in Thread
  BY Threads
<1>2. QED
  BY <1>1, GotoMoves DEF main

-----------------------------------------------------------------------------
(* Turns: why the counters never go below zero.                            *)

LEMMA MotorInvKept ==
  ASSUME MotorInv, NEW t \in Side,
         \A s \in Side \ {t} : /\ pc'[s] = pc[s] /\ turnCount'[s] = turnCount[s]
                               /\ reg'[s] = reg[s] /\ store'[s] = store[s],
         pc'[t] \in {"turn", "countRead"} => turnCount'[t] > 0,
         pc'[t] = "countWrite" => reg'[t] > 0,
         pc'[t] = "exited" => store'[t] = NoStore
  PROVE  MotorInv'
  BY DEF MotorInv

LEMMA MotorStep ==
  ASSUME Inv, NEW s \in Side, SecondStore(s) \/ (store[s] = NoStore /\ Motor(s))
  PROVE  MotorInv'
<1>1. TypeInv /\ MotorInv /\ s \in Thread /\ Side \subseteq Thread
  BY Sides DEF Inv
<1>2. ASSUME /\ pc'[s] \in {"turn", "countRead"} => turnCount'[s] > 0
             /\ pc'[s] = "countWrite" => reg'[s] > 0
             /\ pc'[s] = "exited" => store'[s] = NoStore
      PROVE  MotorInv'
  <2>1. \A t \in Side \ {s} : /\ pc'[t] = pc[t] /\ turnCount'[t] = turnCount[t]
                              /\ reg'[t] = reg[t] /\ store'[t] = store[t]
    BY <1>1, MotorMoves DEF Moves
  <2>2. QED
    BY <1>1, <1>2, <2>1, MotorInvKept
<1>3. ASSUME NEW from, NEW to, Goto(s, from, to), from # "exited"
      PROVE  pc[s] = from /\ pc'[s] = to
  BY <1>1, <1>3, GotoMoves
<1>4. CASE SecondStore(s)
  <2>1. store'[s] = NoStore
    BY <1>1, <1>4 DEF SecondStore, TypeInv, TypeOK
  <2>2. pc' = pc /\ turnCount' = turnCount /\ reg' = reg
    BY <1>4 DEF SecondStore, orders
  <2>3. QED
    BY <1>1, <1>2, <2>1, <2>2 DEF MotorInv
<1>5. CASE store[s] = NoStore /\ Motor(s)
  <2>1. CASE Fetch(s)
    <3>1. switchVar[s] \in Command
      BY <1>1 DEF TypeInv, TypeOK
    <3>2. QED
      BY <1>2, <1>3, <2>1, <3>1, CasePlaces DEF Fetch
  <2>2. CASE Ack(s) \/ Leave(s)
    BY <1>2, <1>3, <1>5, <2>2 DEF Ack, Leave, orders, outputs
  <2>3. CASE Speed(s) \/ Hold(s) \/ RestoreDuty(s)
    BY <1>2, <1>3, <2>3 DEF Speed, Hold, RestoreDuty
  <2>4. CASE TurnTest(s)
    BY <1>2, <1>3, <2>4 DEF TurnTest, orders
  <2>5. CASE Turn(s)
    BY <1>1, <1>2, <1>3, <2>5 DEF Turn, orders, MotorInv
  <2>6. CASE ReadCount(s)
    <3>1. pc[s] = "countRead" /\ pc'[s] = "countWrite" /\ reg'[s] = turnCount[s]
      BY <1>1, <1>3, <2>6 DEF ReadCount, TypeInv, TypeOK
    <3>2. QED
      BY <1>1, <1>2, <3>1 DEF MotorInv
  <2>7. CASE WriteCount(s)
    BY <1>2, <1>3, <2>7 DEF WriteCount
  <2>8. QED
    BY <1>5, <2>1, <2>2, <2>3, <2>4, <2>5, <2>6, <2>7 DEF Motor, ManualCase
<1>6. QED
  BY <1>4, <1>5

LEMMA MotorInvNext == Inv /\ [Next]_vars => MotorInv'
<1> SUFFICES ASSUME Inv, [Next]_vars
             PROVE  MotorInv'
  OBVIOUS
<1>1. TypeInv /\ MotorInv /\ "left" \in Side /\ "right" \in Side
  BY DEF Inv, Side
<1>2. ASSUME UNCHANGED <<turnCount, reg, store>>, \A s \in Side : pc'[s] = pc[s]
      PROVE  MotorInv'
  BY <1>1, <1>2 DEF MotorInv
<1>3. ASSUME NEW t \in {"key", "camera", "image", "main"}, Moves(t)
      PROVE  \A s \in Side : pc'[s] = pc[s]
  BY <1>3, Sides DEF Moves, Side
<1>4. CASE SecondStore("left") \/ (store["left"] = NoStore /\ Motor("left")) \/ rightHandle
  BY <1>1, <1>4, MotorStep DEF rightHandle
<1>5. CASE store["left"] = NoStore /\ (DriveCase \/ FollowCase)
  <2>1. /\ pc'["left"] \notin {"turn", "countRead", "countWrite", "exited"}
        /\ Moves("left") /\ UNCHANGED <<turnCount, reg>> /\ store'["right"] = store["right"]
    BY <1>1, <1>5, DriveMoves, FollowMoves
  <2>2. \A s \in Side \ {"left"} : s = "right" /\ pc'[s] = pc[s]
    BY <2>1, Sides DEF Moves, Side
  <2>3. QED
    BY <1>1, <2>1, <2>2, MotorInvKept
<1>6. CASE ThreadKey
  <2>1. (\A s \in Side : pc'[s] = pc[s]) /\ store' = store
    BY <1>1, <1>3, <1>6, KeyMoves DEF outputs
  <2>2. CASE CountPress
    <3>1. reg' = reg /\ SideOf(key) \in Side /\ reg["key"] + 1 > 0
      BY <1>1, <2>2 DEF CountPress, SideOf, Side, TypeInv, TypeOK
    <3>2. \A s \in Side : turnCount'[s] = turnCount[s] \/ turnCount'[s] > 0
      BY <1>1, <2>2, <3>1 DEF CountPress, TypeInv, TypeOK
    <3>3. QED
      BY <1>1, <2>1, <3>1, <3>2 DEF MotorInv
  <2>3. CASE ReadPresses
    <3>1. turnCount' = turnCount /\ \A s \in Side : reg'[s] = reg[s]
      BY <1>1, <2>3 DEF ReadPresses, Side, TypeInv, TypeOK
    <3>2. QED
      BY <1>1, <2>1, <3>1 DEF MotorInv
  <2>4. CASE UNCHANGED <<turnCount, reg>>
    BY <1>2, <2>1, <2>4
  <2>5. QED
    BY <1>6, <2>2, <2>3, <2>4
       DEF ThreadKey, ActOnKey, ReadKey, ReadMode, MarkKey, PostRight, PostLeft
<1>7. CASE cameraHandle
  BY <1>1, <1>2, <1>3, <1>7, CameraMoves DEF orders, outputs
<1>8. CASE imageProcessHandle
  BY <1>1, <1>2, <1>3, <1>8, ImageMoves DEF orders, outputs
<1>9. CASE main
  BY <1>1, <1>2, <1>3, <1>9, MainMoves DEF orders
<1>10. CASE UNCHANGED vars
  BY <1>2, <1>10 DEF vars, orders, outputs
<1>11. QED
  BY <1>4, <1>5, <1>6, <1>7, <1>8, <1>9, <1>10 DEF Next, leftHandle, Terminated

LEMMA InvAlways == Spec => []Inv
<1>1. Init => Inv
  <2>1. Init => MotorInv
    BY DEF Init, MotorInv, Side, Thread, Worker
  <2>2. QED
    BY <2>1, InitType DEF Inv
<1>2. Inv /\ [Next]_vars => Inv'
  BY NextType, MotorInvNext DEF Inv
<1>3. QED
  BY <1>1, <1>2, PTL DEF Spec

(* Every variable keeps its type: the registers take values within the PWM *)
(* range only, and the counters of the presses never go negative, however  *)
(* the key thread and the motor threads race on them.                      *)
THEOREM TypeCorrect == Spec => []TypeOK
<1>1. Inv => TypeOK
  BY DEF Inv, TypeInv
<1>2. QED
  BY <1>1, InvAlways, PTL

-----------------------------------------------------------------------------
(* Once main has returned every thread has ended, so that no later write   *)
(* can drive the wheels again.                                             *)
StoppedInv ==
  /\ pc["main"] = "exited" => Joined
  /\ StoppedAtExit

LEMMA StoppedNext == Inv /\ StoppedInv /\ [Next]_vars => StoppedInv'
<1> SUFFICES ASSUME Inv, StoppedInv, [Next]_vars
             PROVE  StoppedInv'
  OBVIOUS
<1>1. "main" \in Thread /\ (\A t \in Worker : t \in Thread /\ t # "main") /\ TypeInv
  BY DEF Thread, Worker, Side, Inv
<1>2. ASSUME NEW t \in {"left", "right", "key", "camera", "image"}, Moves(t)
      PROVE  StoppedInv'
  BY <1>1, <1>2 DEF StoppedInv, StoppedAtExit, Joined, Moves, Worker, Side
<1>3. CASE leftHandle
  BY <1>2, <1>3, LeftMoves
<1>4. CASE rightHandle
  BY <1>2, <1>4, RightMoves
<1>5. CASE ThreadKey
  BY <1>1, <1>2, <1>5, KeyMoves
<1>6. CASE cameraHandle
  BY <1>1, <1>2, <1>6, CameraMoves
<1>7. CASE imageProcessHandle
  BY <1>1, <1>2, <1>7, ImageMoves
<1>8. CASE main
  <2>1. Joined'
    BY <1>1, <1>8 DEF main, Goto, Joined, TypeInv
  <2>2. StoppedAtExit'
    BY <1>8 DEF main, StoppedAtExit
  <2>3. QED
    BY <2>1, <2>2 DEF StoppedInv
<1>9. CASE UNCHANGED vars
  BY <1>9 DEF vars, outputs, StoppedInv, StoppedAtExit, Joined
<1>10. QED
  BY <1>3, <1>4, <1>5, <1>6, <1>7, <1>8, <1>9 DEF Next, Terminated

(* The car is stopped when the program ends, for every use of the keys and *)
(* any number of pictures.                                                 *)
THEOREM CarStoppedAtExit == Spec => []StoppedAtExit
<1>1. Init => StoppedInv
  <2>1. Init => pc["main"] = "join"
    BY Threads DEF Init, Side
  <2>2. QED
    BY <2>1 DEF StoppedInv, StoppedAtExit
<1>2. Inv /\ StoppedInv /\ [Next]_vars => StoppedInv'
  BY StoppedNext
<1>3. StoppedInv => StoppedAtExit
  BY DEF StoppedInv
<1>4. QED
  BY <1>1, <1>2, <1>3, InvAlways, PTL DEF Spec

-----------------------------------------------------------------------------
(* The memory of the picture.                                              *)

(* It is freed after 'q' only, and there before a picture is delivered.    *)
MemoryInv ==
  /\ memory = "freed" => done
  /\ pc["camera"] \in {"loop", "scale", "deliver"} => memory # "none"
  /\ newPicture => memory # "none"
  /\ pc["image"] \in {"begin", "scan"} => memory # "none"

LEMMA MemoryNext == Inv /\ MemoryInv /\ [Next]_vars => MemoryInv'
<1> SUFFICES ASSUME Inv, MemoryInv, [Next]_vars
             PROVE  MemoryInv'
  OBVIOUS
<1> USE DEF Inv, scene
<1>1. ASSUME UNCHANGED <<memory, newPicture>>, done => done',
             pc'["camera"] = pc["camera"], pc'["image"] = pc["image"]
      PROVE  MemoryInv'
  BY <1>1 DEF MemoryInv
<1>2. ASSUME NEW t \in {"left", "right", "key", "main"}, Moves(t)
      PROVE  pc'["camera"] = pc["camera"] /\ pc'["image"] = pc["image"]
  BY <1>2, Threads DEF Moves
<1>3. CASE leftHandle
  BY <1>1, <1>2, <1>3, LeftMoves DEF camera
<1>4. CASE ThreadKey
  BY <1>1, <1>2, <1>4, KeyMoves DEF camera
<1>5. CASE rightHandle
  BY <1>1, <1>2, <1>5, RightMoves DEF camera
<1>6. CASE main
  BY <1>1, <1>2, <1>6, MainMoves DEF orders, camera
<1>7. CASE cameraHandle
  <2>1. pc'["image"] = pc["image"] /\ done' = done /\ "camera" \in DOMAIN pc
    BY <1>7, CameraMoves, Threads DEF Moves, orders, TypeInv
  <2> USE <2>1 DEF MemoryInv, Goto
  <2>2. CASE OpenCamera
    BY <2>2 DEF OpenCamera
  <2>3. CASE Grab
    BY <2>3 DEF Grab
  <2>4. CASE Scale
    BY <2>4 DEF Scale
  <2>5. CASE Deliver
    BY <2>5 DEF Deliver
  <2>6. CASE FreePicture
    BY <2>6 DEF FreePicture, LeaveCamera
  <2>7. QED
    BY <1>7, <2>2, <2>3, <2>4, <2>5, <2>6 DEF cameraHandle
<1>8. CASE imageProcessHandle
  <2>1. /\ pc'["camera"] = pc["camera"] /\ done' = done /\ memory' = memory
        /\ "image" \in DOMAIN pc
    BY <1>8, ImageMoves, Threads DEF Moves, orders, TypeInv
  <2> USE <2>1 DEF MemoryInv, Goto, camera
  <2>2. CASE ImageLoop \/ TestPicture
    BY <2>2 DEF ImageLoop, TestPicture
  <2>3. CASE BeginScan \/ Scan
    BY <2>3 DEF BeginScan, Scan
  <2>4. CASE Decide \/ SomethingFound \/ ClearPicture
    BY <2>4 DEF Decide, SomethingFound, ClearPicture
  <2>5. QED
    BY <1>8, <2>2, <2>3, <2>4 DEF imageProcessHandle
<1>9. CASE UNCHANGED vars
  BY <1>1, <1>9 DEF vars, orders, camera
<1>10. QED
  BY <1>3, <1>4, <1>5, <1>6, <1>7, <1>8, <1>9 DEF Next, Terminated

(* Until the user quits no scan reads memory that is not there.            *)
THEOREM MemoryLiveWhileScanned == Spec => []ScansLiveMemory
<1>1. Init => MemoryInv
  <2>1. Init => pc["camera"] = "open" /\ pc["image"] = "loop"
    BY Threads DEF Init, Side
  <2>2. QED
    BY <2>1 DEF Init, MemoryInv
<1>2. Inv /\ MemoryInv /\ [Next]_vars => MemoryInv'
  BY MemoryNext
<1>3. Inv /\ MemoryInv => ScansLiveMemory
  BY DEF Inv, TypeInv, TypeOK, MemoryInv, ScansLiveMemory
<1>4. QED
  BY <1>1, <1>2, <1>3, InvAlways, PTL DEF Spec

-----------------------------------------------------------------------------
(* Sightings and moves.                                                    *)

(* Whether direction w is set and not yet acted on. *)
Pending(w) == IF way[w] = 1 /\ pc["left"] \notin Acting(w) THEN 1 ELSE 0

Acts == {"toLeft", "toRight", "clearLeft", "clearRight", "ahead"}

(* Every pending direction stands for a sighting of its own. *)
MovesInv == due >= Pending("left") + Pending("right") + Pending("straight")

LEMMA PendingType == \A w : Pending(w) \in {0, 1}
  BY DEF Pending

LEMMA PendingKept ==
  ASSUME MovesInv, due' = due, \A w \in Direction : Pending(w)' = Pending(w)
  PROVE  MovesInv'
  BY DEF MovesInv, Direction

LEMMA ActingIn == \A w \in Direction : Acting(w) \subseteq Acts
  BY DEF Acting, Acts, Direction, Moving, Clearing

LEMMA MovesElsewhere ==
  ASSUME MovesInv, UNCHANGED <<due, way>>, pc["left"] \notin Acts,
         pc'["left"] \notin Acts
  PROVE  MovesInv'
<1>1. \A w \in Direction : Pending(w)' = Pending(w)
  BY ActingIn DEF Pending, Acting
<1>2. QED
  BY <1>1, PendingKept

LEMMA MovesFollow ==
  ASSUME TypeInv, MovesInv, FollowCase
  PROVE  MovesInv'
<1>1. ASSUME NEW from, NEW to, Goto("left", from, to), from # "exited"
      PROVE  pc["left"] = from /\ pc'["left"] = to
  BY <1>1, Threads, GotoMoves
<1> USE DEF image, scene, Acts
<1>2. CASE StartFollow \/ FollowTest \/ Rest
  BY <1>1, <1>2, MovesElsewhere DEF StartFollow, FollowTest, Rest
<1>3. CASE TestNothing
  BY <1>1, <1>3, MovesElsewhere DEF TestNothing
<1>4. CASE ClearNothing
  <2>1. pc["left"] = "clearNothing" /\ pc'["left"] = "rest"
    BY <1>1, <1>4 DEF ClearNothing
  <2>2. \A w \in Direction : way'[w] = way[w]
    BY <1>4 DEF ClearNothing, Direction, TypeInv, TypeOK, Way
  <2>3. \A w \in Direction : Pending(w)' = Pending(w)
    BY <2>1, <2>2, ActingIn DEF Pending, Acting
  <2>4. QED
    BY <1>4, <2>3, PendingKept DEF ClearNothing
<1>5. ASSUME NEW v \in {"left", "right"}, EndTurn(v)
      PROVE  MovesInv'
  <2>1. /\ pc["left"] = Moving[v] /\ pc'["left"] = Clearing[v]
        /\ UNCHANGED <<due, way>>
    BY <1>1, <1>5 DEF EndTurn, Moving
  <2>2. \A w \in Direction : Pending(w)' = Pending(w)
    BY <2>1 DEF Pending, Acting, Direction, Moving, Clearing
  <2>3. QED
    BY <2>1, <2>2, PendingKept
<1>6. ASSUME NEW w \in Direction, TestDirection(w)
      PROVE  MovesInv'
  <2>1. w # "exited" /\ w \notin Acts /\ NextTest[w] \notin Acts
    BY DEF Direction, NextTest
  <2>2. CASE way[w] # 1
    BY <1>1, <1>6, <2>1, <2>2, MovesElsewhere DEF TestDirection
  <2>3. CASE way[w] = 1
    <3>1. /\ pc["left"] = w /\ pc'["left"] = Moving[w]
          /\ due' = due - 1 /\ way' = way
      BY <1>1, <1>6, <2>1, <2>3 DEF TestDirection
    <3>2. Pending(w) = 1 /\ Pending(w)' = 0
      BY <2>3, <3>1 DEF Pending, Acting, Direction, Moving, Clearing
    <3>3. \A v \in Direction \ {w} : Pending(v)' = Pending(v)
      BY <3>1 DEF Pending, Acting, Direction, Moving, Clearing
    <3>4. due \in Int
      BY DEF TypeInv, TypeOK
    <3>5. QED
      BY <3>1, <3>2, <3>3, <3>4, PendingType DEF MovesInv, Direction
  <2>4. QED
    BY <2>2, <2>3
<1>7. ASSUME NEW w \in Direction, ClearDirection(w)
      PROVE  MovesInv'
  <2>1. /\ pc["left"] = Clearing[w] /\ pc'["left"] = "nothing"
        /\ due' = due /\ way' = [way EXCEPT ![w] = 0]
    BY <1>1, <1>7 DEF ClearDirection, Clearing, Direction
  <2>2. Pending(w) = 0 /\ Pending(w)' = 0
    BY <2>1 DEF Pending, Acting, Direction, Way, TypeInv, TypeOK
  <2>3. \A v \in Direction \ {w} : Pending(v)' = Pending(v)
    BY <2>1 DEF Pending, Acting, Direction, Moving, Clearing, Way, TypeInv, TypeOK
  <2>4. QED
    BY <2>1, <2>2, <2>3, PendingKept
<1>8. QED
  BY <1>2, <1>3, <1>4, <1>5, <1>6, <1>7 DEF FollowCase

LEMMA MovesLeft ==
  ASSUME Inv, MovesInv, leftHandle
  PROVE  MovesInv'
<1>1. TypeInv /\ "left" \in Side /\ "left" \in Thread
  BY Threads DEF Inv, Side
<1>2. ASSUME NEW from, NEW to, Goto("left", from, to), from # "exited"
      PROVE  pc["left"] = from /\ pc'["left"] = to
  BY <1>1, <1>2, GotoMoves
<1> USE DEF image, scene, Acts
<1>3. CASE SecondStore("left")
  BY <1>3 DEF SecondStore, MovesInv, Pending
<1>4. CASE Motor("left")
  <2>1. UNCHANGED <<due, way>>
    BY <1>1, <1>4, MotorMoves
  <2>2. CASE Fetch("left")
    <3>1. switchVar["left"] \in Command
      BY <1>1 DEF TypeInv, TypeOK
    <3>2. Case("left", switchVar["left"]) \notin Acts
      BY <1>1, <3>1, CasePlaces
    <3>3. QED
      BY <1>2, <2>1, <2>2, <3>2, MovesElsewhere DEF Fetch
  <2>3. CASE Ack("left") \/ Leave("left")
    BY <1>2, <2>1, <2>3, MovesElsewhere DEF Ack, Leave
  <2>4. CASE ManualCase("left")
    BY <1>2, <2>1, <2>4, MovesElsewhere
       DEF ManualCase, Speed, Hold, TurnTest, Turn, ReadCount, WriteCount, RestoreDuty
  <2>5. QED
    BY <1>4, <2>2, <2>3, <2>4 DEF Motor
<1>5. CASE DriveCase
  <2>1. UNCHANGED <<due, way>>
    BY <1>1, <1>5, DriveMoves
  <2>2. QED
    BY <1>2, <1>5, <2>1, MovesElsewhere
       DEF DriveCase, TestFirst, TestSecond, ClearFirst, ClearSecond, MarkForward,
           Drive, AfterTests
<1>6. QED
  BY <1>1, <1>3, <1>4, <1>5, MovesFollow DEF leftHandle

LEMMA MovesImage ==
  ASSUME TypeInv, TypeInv', MovesInv, imageProcessHandle
  PROVE  MovesInv'
<1>1. pc'["left"] = pc["left"]
  BY ImageMoves, Threads DEF Moves
<1>2. CASE UNCHANGED way /\ UNCHANGED due
  BY <1>1, <1>2 DEF MovesInv, Pending
<1>3. ASSUME NEW v, way' = [way EXCEPT !["nothing"] = v], due' = due
      PROVE  MovesInv'
  <2>1. \A w \in Direction : way'[w] = way[w]
    BY <1>3 DEF Direction, TypeInv, TypeOK, Way
  <2>2. \A w \in Direction : Pending(w)' = Pending(w)
    BY <1>1, <2>1 DEF Pending
  <2>3. QED
    BY <1>3, <2>2, PendingKept
<1>4. CASE Decide
  <2>1. due' = due + 1 /\ way' = [way EXCEPT ![first] = 1] /\ due \in Int
    BY <1>4 DEF Decide, TypeInv, TypeOK
  <2>2. \A w \in Direction \ {first} : Pending(w)' = Pending(w)
    BY <1>1, <2>1 DEF Pending, Direction, TypeInv, TypeOK, Way
  <2>3. Pending(first)' <= Pending(first) + 1
    BY PendingType DEF Pending
  <2>4. QED
    BY <2>1, <2>2, <2>3, PendingType DEF MovesInv, Direction, Pending
<1>5. QED
  BY <1>2, <1>3, <1>4
     DEF imageProcessHandle, ImageLoop, TestPicture, BeginScan, Scan,
         SomethingFound, ClearPicture, image, scene

LEMMA MovesNext == Inv /\ Inv' /\ MovesInv /\ [Next]_vars => MovesInv'
<1> SUFFICES ASSUME Inv, Inv', MovesInv, [Next]_vars
             PROVE  MovesInv'
  OBVIOUS
<1> USE DEF Inv, scene
<1>1. ASSUME UNCHANGED <<due, way>>, pc'["left"] = pc["left"]
      PROVE  MovesInv'
  BY <1>1 DEF MovesInv, Pending
<1>2. ASSUME NEW t \in {"right", "key", "camera", "main"}, Moves(t)
      PROVE  pc'["left"] = pc["left"]
  BY <1>2, Threads DEF Moves
<1>3. CASE ThreadKey
  BY <1>1, <1>2, <1>3, KeyMoves DEF image
<1>4. CASE cameraHandle
  BY <1>1, <1>2, <1>4, CameraMoves DEF image
<1>5. CASE rightHandle
  BY <1>1, <1>2, <1>5, RightMoves DEF image
<1>6. CASE main
  BY <1>1, <1>2, <1>6, MainMoves DEF image
<1>7. CASE UNCHANGED vars
  BY <1>1, <1>7 DEF vars, image
<1>8. QED
  BY <1>3, <1>4, <1>5, <1>6, <1>7, MovesLeft, MovesImage DEF Next, Terminated

(* No sighting of the laser is acted on twice, however many pictures there *)
(* are and however the two threads interleave.                             *)
THEOREM SightingsActedOnOnce == Spec => []OneMovePerPicture
<1>1. Init => MovesInv
  <2> SUFFICES ASSUME Init
               PROVE  MovesInv
    OBVIOUS
  <2>1. \A w \in Direction : Pending(w) = 0
    BY DEF Init, Pending, Direction, Way
  <2>2. QED
    BY <2>1 DEF Init, MovesInv, Direction
<1>2. Inv /\ Inv' /\ MovesInv /\ [Next]_vars => MovesInv'
  BY MovesNext
<1>3. Inv /\ MovesInv => OneMovePerPicture
  BY PendingType DEF Inv, TypeInv, TypeOK, MovesInv, OneMovePerPicture
<1>4. QED
  BY <1>1, <1>2, <1>3, InvAlways, PTL DEF Spec

-----------------------------------------------------------------------------
(* What turns do to the registers.                                         *)

FollowPC == {"mark", "start", "follow", "left", "right", "straight", "toLeft",
             "toRight", "clearLeft", "clearRight", "ahead", "nothing",
             "clearNothing", "rest"}

(* No thread has to do with following the laser, and what a motor thread   *)
(* still has to write is the level of the outer wheel of a turn.           *)
FollowFree ==
  /\ mode # "m2" /\ key # "2"
  /\ pc["left"] \notin FollowPC
  /\ \A s \in Side : /\ switchVar[s] # Follow /\ cmd[s] # Follow
                     /\ store[s] \in {NoStore, PwmRange}

WheelInv(s) ==
  /\ pc[s] \in Turning => dutyHold[s] = dutyLevel[s]
  /\ pc["main"] = "join" /\ pc[s] \notin Turning => dat[s] \in {dutyLevel[s], PwmRange}

DutyInv ==
  /\ budget["2"] <= Budget["2"]
  /\ NeverFollowed => FollowFree /\ \A s \in Side : WheelInv(s)

LEMMA DriveDuty ==
  ASSUME TypeInv, FollowFree, DriveCase, \A s \in Side : WheelInv(s)
  PROVE  FollowFree' /\ \A s \in Side : WheelInv(s)'
<1>1. /\ Moves("left")
      /\ UNCHANGED <<mode, key, switchVar, cmd, store, dat, dutyLevel, dutyHold>>
  BY DriveMoves DEF speeds
<1>2. pc'["main"] = pc["main"] /\ pc'["right"] = pc["right"]
  BY <1>1, Threads DEF Moves
<1>3. ASSUME NEW from, NEW to, Goto("left", from, to), from # "exited"
      PROVE  pc["left"] = from /\ pc'["left"] = to
  BY <1>3, Threads, GotoMoves
<1>4. cmd["left"] # Follow /\ pc["left"] # "mark"
  BY DEF FollowFree, FollowPC, Side
<1>5. /\ pc["left"] \notin Turning
      /\ pc'["left"] \in {"testSecond", "clearFirst", "clearSecond", "drive", "ack"}
  BY <1>3, <1>4
     DEF DriveCase, TestFirst, TestSecond, ClearFirst, ClearSecond, MarkForward, Drive,
         AfterTests, Turning
<1>6. FollowFree'
  BY <1>1, <1>5 DEF FollowFree, FollowPC
<1>7. \A s \in Side : WheelInv(s)'
  BY <1>1, <1>2, <1>5 DEF WheelInv, Side, Turning
<1>8. QED
  BY <1>6, <1>7

LEMMA MotorDuty ==
  ASSUME Inv, NEW s \in Side, FollowFree, \A t \in Side : WheelInv(t),
         SecondStore(s) \/ Motor(s)
  PROVE  FollowFree' /\ \A t \in Side : WheelInv(t)'
<1>1. TypeInv /\ s \in Thread /\ Side \subseteq Thread
  BY Sides DEF Inv
<1>2. Moves(s) /\ UNCHANGED <<mode, key>>
  BY MotorMoves
<1>3. pc'["main"] = pc["main"] /\ \A t \in Side \ {s} : pc'[t] = pc[t]
  BY <1>1, <1>2, Threads DEF Moves, Side
<1>4. ASSUME NEW from, NEW to, Goto(s, from, to), from # "exited"
      PROVE  pc[s] = from /\ pc'[s] = to
  BY <1>1, <1>4, GotoMoves
<1>5. ASSUME pc'[s] \notin FollowPC, UNCHANGED <<switchVar, cmd, store>>
      PROVE  FollowFree'
  BY <1>2, <1>3, <1>5 DEF FollowFree, Side
<1>6. ASSUME WheelInv(s)', \A t \in Side \ {s} : /\ dat'[t] = dat[t]
                                                 /\ dutyLevel'[t] = dutyLevel[t]
                                                 /\ dutyHold'[t] = dutyHold[t]
      PROVE  \A t \in Side : WheelInv(t)'
  BY <1>3, <1>6 DEF WheelInv
<1> USE DEF orders, outputs, speeds
<1>7. CASE SecondStore(s)
  <2>1. store[s] = PwmRange /\ OtherSide(s) \in Side
    BY <1>7, Sides DEF SecondStore, FollowFree
  <2>2. FollowFree'
    BY <1>1, <1>7 DEF SecondStore, FollowFree, TypeInv, TypeOK
  <2>3. \A t \in Side : dat'[t] \in {dat[t], PwmRange}
    BY <1>1, <1>7, <2>1 DEF SecondStore, TypeInv, TypeOK
  <2>4. \A t \in Side : WheelInv(t)'
    BY <1>7, <2>3 DEF SecondStore, WheelInv
  <2>5. QED
    BY <2>2, <2>4
<1>8. CASE Fetch(s)
  <2>1. switchVar[s] \in Command /\ switchVar[s] # Follow /\ NoCommand # Follow
    BY <1>1 DEF TypeInv, TypeOK, FollowFree, NoCommand, Follow
  <2>2. pc[s] = "loop" /\ pc'[s] \in {"speed", "hold", "loop", "ack", "testFirst"}
    BY <1>4, <1>8, <2>1, CasePlaces DEF Fetch
  <2>3. FollowFree'
    BY <1>1, <1>2, <1>3, <1>8, <2>1, <2>2
       DEF Fetch, FollowFree, FollowPC, Side, TypeInv, TypeOK
  <2>4. WheelInv(s)'
    BY <1>3, <1>8, <2>2 DEF Fetch, WheelInv, Turning
  <2>5. QED
    BY <1>6, <1>8, <2>3, <2>4 DEF Fetch
<1>9. CASE Ack(s)
  <2>1. pc[s] = "ack" /\ pc'[s] = "loop"
    BY <1>4, <1>9 DEF Ack
  <2>2. FollowFree'
    BY <1>1, <1>2, <1>3, <1>9, <2>1
       DEF Ack, FollowFree, FollowPC, Side, TypeInv, TypeOK, NoCommand, Follow
  <2>3. WheelInv(s)'
    BY <1>3, <1>9, <2>1 DEF Ack, WheelInv, Turning
  <2>4. QED
    BY <1>6, <1>9, <2>2, <2>3 DEF Ack
<1>10. CASE Leave(s)
  <2>1. pc[s] = "loop" /\ pc'[s] = "exited"
    BY <1>4, <1>10 DEF Leave
  <2>2. WheelInv(s)'
    BY <1>3, <1>10, <2>1 DEF Leave, WheelInv, Turning
  <2>3. QED
    BY <1>5, <1>6, <1>10, <2>1, <2>2 DEF Leave, FollowPC
<1>11. CASE Speed(s)
  <2>1. pc[s] = "speed" /\ pc'[s] = "ack"
    BY <1>4, <1>11 DEF Speed
  <2>2. /\ dat'[s] = dutyLevel'[s]
        /\ \A t \in Side \ {s} : dat'[t] = dat[t] /\ dutyLevel'[t] = dutyLevel[t]
    BY <1>1, <1>11 DEF Speed, TypeInv, TypeOK
  <2>3. WheelInv(s)'
    BY <2>1, <2>2 DEF WheelInv, Turning
  <2>4. QED
    BY <1>5, <1>6, <1>11, <2>1, <2>2, <2>3 DEF Speed, FollowPC
<1>12. CASE Hold(s)
  <2>1. pc[s] = "hold" /\ pc'[s] = "turnTest"
    BY <1>4, <1>12 DEF Hold
  <2>2. /\ dutyHold'[s] = dutyLevel'[s]
        /\ \A t \in Side \ {s} : dutyHold'[t] = dutyHold[t]
    BY <1>1, <1>12 DEF Hold, TypeInv, TypeOK
  <2>3. WheelInv(s)'
    BY <2>1, <2>2 DEF WheelInv, Turning
  <2>4. QED
    BY <1>5, <1>6, <1>12, <2>1, <2>2, <2>3 DEF Hold, FollowPC
<1>13. CASE TurnTest(s) \/ ReadCount(s) \/ WriteCount(s)
  <2>1. pc[s] \in Turning /\ pc'[s] \in Turning
    BY <1>4, <1>13 DEF TurnTest, ReadCount, WriteCount, Turning
  <2>2. UNCHANGED <<switchVar, cmd, store, dat, dutyLevel, dutyHold>>
    BY <1>13 DEF TurnTest, ReadCount, WriteCount
  <2>3. WheelInv(s)'
    BY <2>1, <2>2 DEF WheelInv
  <2>4. QED
    BY <1>5, <1>6, <2>1, <2>2, <2>3 DEF Turning, FollowPC
<1>14. CASE Turn(s)
  <2>1. pc[s] = "turn" /\ pc'[s] = "countRead"
    BY <1>4, <1>14 DEF Turn
  <2>2. /\ UNCHANGED <<switchVar, cmd, dutyLevel, dutyHold>>
        /\ \A t \in Side \ {s} : dat'[t] = dat[t]
        /\ \A t \in Side : store'[t] \in {store[t], PwmRange}
    BY <1>1, <1>14, Sides DEF Turn, SetBoth, TypeInv, TypeOK
  <2>3. FollowFree'
    BY <1>2, <1>3, <2>1, <2>2 DEF FollowFree, FollowPC, Side
  <2>4. WheelInv(s)'
    BY <2>1, <2>2 DEF WheelInv, Turning
  <2>5. QED
    BY <1>6, <2>2, <2>3, <2>4
<1>15. CASE RestoreDuty(s)
  <2>1. pc[s] = "restore" /\ pc'[s] = "ack"
    BY <1>4, <1>15 DEF RestoreDuty
  <2>2. /\ dat'[s] = dutyHold[s] /\ \A t \in Side \ {s} : dat'[t] = dat[t]
        /\ UNCHANGED <<switchVar, cmd, store, dutyLevel, dutyHold>>
    BY <1>1, <1>15 DEF RestoreDuty, TypeInv, TypeOK
  <2>3. WheelInv(s)'
    BY <2>1, <2>2 DEF WheelInv, Turning
  <2>4. QED
    BY <1>5, <1>6, <2>1, <2>2, <2>3 DEF FollowPC
<1>16. QED
  BY <1>7, <1>8, <1>9, <1>10, <1>11, <1>12, <1>13, <1>14, <1>15 DEF Motor, ManualCase

LEMMA FollowPlaces == FollowCase => pc["left"] \in FollowPC
  BY DEF FollowCase, StartFollow, FollowTest, EndTurn, TestDirection, ClearDirection,
         TestNothing, ClearNothing, Rest, Goto, Direction, Moving, Clearing, FollowPC

LEMMA KeyDuty ==
  ASSUME TypeInv, ThreadKey, budget["2"] <= Budget["2"]
  PROVE  /\ budget'["2"] <= Budget["2"]
         /\ NeverFollowed' => NeverFollowed
         /\ NeverFollowed' /\ FollowFree => FollowFree'
<1>1. /\ "2" \in KeyChar /\ budget \in [KeyChar -> Nat] /\ Budget \in [KeyChar -> Nat]
      /\ switchVar \in [Side -> Command]
  BY ConstantsAssumption DEF KeyChar, TypeInv, TypeOK
<1>2. pc'["left"] = pc["left"] /\ store' = store
  BY KeyMoves, Threads DEF Moves, outputs
<1>3. ASSUME NEW k \in KeyChar, Press(k)
      PROVE  /\ budget'["2"] <= budget["2"]
             /\ k = "2" => budget'["2"] < budget["2"]
  BY <1>1, <1>3 DEF Press
<1>4. ASSUME NEW k \in KeyChar, ReadKey(k)
      PROVE  FollowFree => FollowFree'
  <2>1. key' # "2" \/ key' = key
    BY <1>4 DEF ReadKey, Accepted
  <2>2. QED
    BY <1>2, <1>4, <2>1 DEF ReadKey, FollowFree
<1>5. ASSUME NEW k \in KeyChar \ {"2"}, ReadMode(k)
      PROVE  FollowFree => FollowFree'
  BY <1>2, <1>5 DEF ReadMode, FollowFree
<1>6. CASE MarkKey \/ ReadPresses \/ CountPress
  BY <1>2, <1>6 DEF MarkKey, ReadPresses, CountPress, NeverFollowed, FollowFree
<1>7. CASE PostRight \/ PostLeft
  <2>1. FollowFree => CommandOf(key) # Follow
    <3> SUFFICES ASSUME FollowFree
                 PROVE  CommandOf(key) # Follow
      OBVIOUS
    <3> USE DEF CommandOf, NoCommand, StopCar, Forward, Backward, Faster, Slower,
                TurnLeft, TurnRight, Follow
    <3>1. key # "2" /\ mode # "m2"
      BY DEF FollowFree
    <3>2. CASE key \in {"s", "w", "x", "i"}
      BY <3>1, <3>2
    <3>3. CASE key \in {"j", "a", "d"}
      BY <3>3
    <3>4. CASE key \notin {"s", "w", "x", "i", "j", "a", "d"}
      BY <3>1, <3>4
    <3>5. QED
      BY <3>2, <3>3, <3>4
  <2>2. FollowFree => FollowFree'
    BY <1>1, <1>2, <1>7, <2>1 DEF PostRight, PostLeft, FollowFree
  <2>3. UNCHANGED budget
    BY <1>7 DEF PostRight, PostLeft
  <2>4. QED
    BY <2>2, <2>3 DEF NeverFollowed
<1>8. ASSUME NEW k \in KeyChar, ReadKey(k) \/ ReadMode(k)
      PROVE  /\ budget'["2"] <= Budget["2"]
             /\ NeverFollowed' => NeverFollowed
             /\ NeverFollowed' /\ FollowFree => FollowFree'
  <2>1. /\ budget'["2"] <= budget["2"]
        /\ k = "2" => budget'["2"] < budget["2"]
    BY <1>3, <1>8 DEF ReadKey, ReadMode
  <2>2. /\ budget["2"] \in Nat /\ Budget["2"] \in Nat
        /\ budget'["2"] <= Budget["2"]
        /\ NeverFollowed' => NeverFollowed /\ k # "2"
    <3>1. budget'["2"] \in Nat
      BY <1>1, <1>8 DEF ReadKey, ReadMode, Press
    <3>2. QED
      BY <1>1, <2>1, <3>1 DEF NeverFollowed
  <2>3. QED
    BY <1>4, <1>5, <1>8, <2>2
<1>9. QED
  BY <1>6, <1>7, <1>8 DEF ThreadKey, ActOnKey, MarkKey, ReadPresses, CountPress

LEMMA DutyNext == Inv /\ DutyInv /\ [Next]_vars => DutyInv'
<1> SUFFICES ASSUME Inv, DutyInv, [Next]_vars
             PROVE  DutyInv'
  OBVIOUS
<1>1. TypeInv /\ "left" \in Side /\ "right" \in Side
  BY DEF Inv, Side
<1>2. ASSUME UNCHANGED budget,
             FollowFree /\ (\A s \in Side : WheelInv(s)) => FollowFree',
             FollowFree /\ (\A s \in Side : WheelInv(s)) => \A s \in Side : WheelInv(s)'
      PROVE  DutyInv'
  BY <1>2 DEF DutyInv, NeverFollowed
<1>3. ASSUME NEW t \in {"key", "camera", "image"}, Moves(t)
      PROVE  /\ pc'["main"] = pc["main"]
             /\ \A s \in Side : pc'[s] = pc[s]
  BY <1>3, Threads DEF Moves, Side
<1>4. ASSUME UNCHANGED outputs, pc'["main"] = pc["main"] \/ pc'["main"] = "exited",
             \A s \in Side : pc'[s] = pc[s]
      PROVE  \A s \in Side : WheelInv(s) => WheelInv(s)'
  BY <1>4 DEF WheelInv, outputs, speeds
<1>5. CASE leftHandle
  <2>1. UNCHANGED budget
    BY <1>5, LeftMoves
  <2>2. FollowFree => ~FollowCase
    BY FollowPlaces DEF FollowFree
  <2>3. QED
    BY <1>1, <1>2, <1>5, <2>1, <2>2, MotorDuty, DriveDuty DEF leftHandle
<1>6. CASE rightHandle
  BY <1>1, <1>2, <1>6, RightMoves, MotorDuty DEF rightHandle
<1>7. CASE ThreadKey
  <2>1. \A s \in Side : WheelInv(s) => WheelInv(s)'
    BY <1>1, <1>3, <1>4, <1>7, KeyMoves
  <2>2. QED
    BY <1>1, <1>7, <2>1, KeyDuty DEF DutyInv
<1>8. CASE cameraHandle
  <2>1. UNCHANGED <<orders, outputs>> /\ \A s \in Side : pc'[s] = pc[s]
    BY <1>1, <1>3, <1>8, CameraMoves
  <2>2. \A s \in Side : WheelInv(s) => WheelInv(s)'
    BY <1>1, <1>3, <1>4, <1>8, CameraMoves
  <2>3. QED
    BY <1>1, <1>2, <2>1, <2>2 DEF FollowFree, orders, outputs
<1>9. CASE imageProcessHandle
  <2>1. UNCHANGED <<orders, outputs>> /\ \A s \in Side : pc'[s] = pc[s]
    BY <1>1, <1>3, <1>9, ImageMoves
  <2>2. \A s \in Side : WheelInv(s) => WheelInv(s)'
    BY <1>1, <1>3, <1>4, <1>9, ImageMoves
  <2>3. QED
    BY <1>1, <1>2, <2>1, <2>2 DEF FollowFree, orders, outputs
<1>10. CASE main
  <2>1. /\ UNCHANGED <<orders, store, speeds>> /\ pc'["main"] = "exited"
        /\ \A s \in Side : pc'[s] = pc[s]
    BY <1>1, <1>10, MainMoves, GotoMoves, Threads DEF main, Moves, Side
  <2>2. FollowFree => FollowFree'
    BY <1>1, <2>1 DEF FollowFree, orders
  <2>3. \A s \in Side : WheelInv(s) => WheelInv(s)'
    BY <2>1 DEF WheelInv, speeds
  <2>4. QED
    BY <1>2, <2>1, <2>2, <2>3 DEF orders
<1>11. CASE UNCHANGED vars
  <2>1. UNCHANGED <<orders, outputs, pc>>
    BY <1>11 DEF vars
  <2>2. FollowFree => FollowFree'
    BY <2>1 DEF FollowFree, orders, outputs
  <2>3. QED
    BY <1>2, <1>4, <2>1, <2>2 DEF orders
<1>12. QED
  BY <1>5, <1>6, <1>7, <1>8, <1>9, <1>10, <1>11 DEF Next, Terminated

(* In manual driving all that turns leave behind is a wheel at full level, *)
(* however often and however fast the user turns, and when he quits.       *)
THEOREM TurnsRestoreDuty == Spec => []DutyAfterTurns
<1>1. Init => DutyInv
  <2> SUFFICES ASSUME Init
               PROVE  DutyInv
    OBVIOUS
  <2>1. /\ Budget["2"] \in Nat /\ pc["left"] = "loop"
        /\ \A s \in Side : pc[s] = "loop"
    BY ConstantsAssumption, Threads DEF Init, Side, KeyChar
  <2>2. FollowFree
    BY <2>1 DEF Init, FollowFree, FollowPC, NoCommand, Follow
  <2>3. \A s \in Side : WheelInv(s)
    BY <2>1 DEF Init, WheelInv, Turning
  <2>4. QED
    BY <2>1, <2>2, <2>3 DEF Init, DutyInv
<1>2. Inv /\ DutyInv /\ [Next]_vars => DutyInv'
  BY DutyNext
<1>3. DutyInv => DutyAfterTurns
  BY DEF DutyInv, DutyAfterTurns, WheelInv
<1>4. QED
  BY <1>1, <1>2, <1>3, InvAlways, PTL DEF Spec
=============================================================================
