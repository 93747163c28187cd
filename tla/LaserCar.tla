------------------------------ MODULE LaserCar ------------------------------
(***************************************************************************)
(* src/hw9Damico/hw9Damico.c: the car that follows a laser pointer.  The   *)
(* camera thread grabs pictures and scales them into one shared buffer,    *)
(* the image thread looks there for the first red pixel and sets a         *)
(* direction, the left motor thread, which drives both sides, acts on it.  *)
(* The flags they hand over with are set by one thread and cleared by      *)
(* another, without a lock.  In manual driving the two motor threads also  *)
(* set the speed of a wheel each, and a turn writes both registers.        *)
(***************************************************************************)
EXTENDS Integers

CONSTANTS
  Budget,       (* how often the user presses each key: a bound       *)
  MaxPictures   (* how many pictures the camera delivers: a bound     *)

KeyChar == {"m", "1", "2", "q", "s", "w", "x", "i", "j", "a", "d"}

ASSUME ConstantsAssumption ==
  /\ Budget \in [KeyChar -> Nat]
  /\ MaxPictures \in Nat

Side   == {"left", "right"}
Flag   == {"forward1", "backward1", "stop1"}
Worker == Side \cup {"key", "camera", "image"}
Thread == Worker \cup {"main"}

OtherSide(s) == IF s = "left" THEN "right" ELSE "left"

NoCommand == -1
StopCar   == 0
Forward   == 1
Backward  == 2
Faster    == 3
Slower    == 4
TurnLeft  == 5
TurnRight == 6
Follow    == 7

DutyStep == 15
PwmRange == 100
TurnDuty == 40

(* The globals left, right, straight and nothing. *)
Direction == {"left", "right", "straight"}
Way       == Direction \cup {"nothing"}

(* No register store is due. *)
NoStore == -1

VARIABLES
  flag,          (* forward1, backward1, stop1                           *)
  done,          (* set by 'q'                                           *)
  mode,          (* which of m1, m2 is true                              *)
  switchVar,     (* the mailboxes of the motor threads                   *)
  turnCount,     (* leftCount, rightCount                                *)
  dutyLevel,     (* the speed a wheel was given                          *)
  dutyHold,      (* ... and its copy, kept for the time of a turn        *)
  pins,          (* the two H-bridge pins of a side                      *)
  dat,           (* the PWM data register of a side: DAT2 left, DAT1 right *)
  store,         (* what a motor thread that writes both registers still *)
                 (* has to write to the other side's                     *)
  way,           (* left, right, straight, nothing: -1, 0 or 1           *)
  newPicture,    (* set by the camera thread                             *)
  scaled_data,   (* the scaled picture: where its first red pixel lies   *)
                 (* (columns 0-100, 220-319, between, or nowhere)        *)
  memory,        (* whether its memory is allocated                      *)
  first,         (* firstRedIndexWidth: what the scan has found, until   *)
                 (* it was acted on                                      *)
  pc,            (* where each thread is                                 *)
  cmd,           (* the command a motor thread executes                  *)
  reg,           (* a counter as read, before it is written back         *)
  key,           (* the last key the key thread acted on                 *)
  budget,        (* the keys the user may still press                    *)
  pictures,      (* history: pictures grabbed                            *)
  due            (* history: pictures in which the laser was seen, less  *)
                 (* the moves made                                       *)

orders  == <<flag, done, mode, switchVar, turnCount, cmd, reg, key, budget>>
speeds  == <<dutyLevel, dutyHold>>
outputs == <<pins, dat, store, speeds>>
camera  == <<newPicture, scaled_data, memory, pictures>>
image   == <<first, due>>
scene   == <<camera, image, way>>
vars    == <<orders, outputs, scene, pc>>

Goto(t, from, to) ==
  /\ pc[t] = from
  /\ pc' = [pc EXCEPT ![t] = to]

Init ==
  /\ flag = [f \in Flag |-> -1]
  /\ done = FALSE
  /\ mode = "none"
  /\ switchVar = [s \in Side |-> NoCommand]
  /\ turnCount = [s \in Side |-> 0]
  /\ dutyLevel = [s \in Side |-> 0]
  /\ dutyHold = [s \in Side |-> 0]
  /\ pins = [s \in Side |-> "brake"]
  /\ dat = [s \in Side |-> 0]
  /\ store = [s \in Side |-> NoStore]
  /\ way = [w \in Way |-> -1]
  /\ newPicture = FALSE
  /\ scaled_data = "nothing"
  /\ memory = "none"
  /\ first = "nothing"
  /\ pc = [t \in Thread |-> CASE t \in Side    -> "loop"
                              [] t = "key"    -> "read"
                              [] t = "camera" -> "open"
                              [] t = "image"  -> "loop"
                              [] OTHER        -> "join"]
  /\ cmd = [s \in Side |-> NoCommand]
  /\ reg = [t \in Side \cup {"key"} |-> 0]
  /\ key = "none"
  /\ budget = Budget
  /\ pictures = 0
  /\ due = 0

-----------------------------------------------------------------------------
(* The camera thread.                                                      *)

(* Opening the camera fails, and the thread ends, or memory is allocated. *)
OpenCamera ==
  /\ \/ /\ Goto("camera", "open", "loop")
        /\ memory' = "live"
     \/ /\ Goto("camera", "open", "exited")
        /\ UNCHANGED memory
  /\ UNCHANGED <<orders, outputs, image, way, newPicture, scaled_data,
                 pictures>>

(* Mutant: the camera is released when the car is stopped, too. *)
LeaveCamera_OnStop == done \/ switchVar["left"] = StopCar

LeaveCamera == done

(* Both loops' tests: free on done, grab in m2, else look again. *)
Grab ==
  /\ ~done /\ mode = "m2" /\ pictures < MaxPictures
  /\ Goto("camera", "loop", "scale")
  /\ pictures' = pictures + 1
  /\ UNCHANGED <<orders, outputs, image, way, newPicture, scaled_data, memory>>

(* The picture may show the laser anywhere, or not at all. *)
Scale ==
  /\ Goto("camera", "scale", "deliver")
  /\ scaled_data' \in Way
  /\ UNCHANGED <<orders, outputs, image, way, newPicture, memory, pictures>>

Deliver ==
  /\ Goto("camera", "deliver", "loop")
  /\ newPicture' = TRUE
  /\ UNCHANGED <<orders, outputs, image, way, scaled_data, memory, pictures>>

FreePicture ==
  /\ LeaveCamera
  /\ Goto("camera", "loop", "exited")
  /\ memory' = "freed"
  /\ UNCHANGED <<orders, outputs, image, way, newPicture, scaled_data,
                 pictures>>

cameraHandle == OpenCamera \/ Grab \/ Scale \/ Deliver \/ FreePicture

-----------------------------------------------------------------------------
(* The image thread.                                                       *)

ImageLoop ==
  /\ Goto("image", "loop", IF done THEN "exited" ELSE "test")
  /\ UNCHANGED <<orders, outputs, scene>>

TestPicture ==
  /\ Goto("image", "test", IF newPicture /\ mode = "m2" THEN "begin" ELSE "clear")
  /\ UNCHANGED <<orders, outputs, scene>>

(* nothing = 1 until the scan has found something. *)
BeginScan ==
  /\ Goto("image", "begin", "scan")
  /\ way' = [way EXCEPT !["nothing"] = 1]
  /\ UNCHANGED <<orders, outputs, camera, image>>

(* What the scan may find: while the camera thread writes the picture a    *)
(* mix of two, after it freed the memory anything.                         *)
Seen == IF pc["camera"] = "scale" \/ memory = "freed" THEN Way ELSE {scaled_data}

Scan ==
  /\ first' \in Seen
  /\ Goto("image", "scan", IF first' = "nothing" THEN "clear" ELSE "decide")
  /\ UNCHANGED <<orders, outputs, camera, way, due>>

(* left, right or straight = 1, if there was a red pixel. *)
Decide ==
  /\ Goto("image", "decide", "found")
  /\ way' = [way EXCEPT ![first] = 1]
  /\ due' = due + 1
  /\ first' = "nothing"
  /\ UNCHANGED <<orders, outputs, camera>>

SomethingFound ==
  /\ Goto("image", "found", "clear")
  /\ way' = [way EXCEPT !["nothing"] = 0]
  /\ UNCHANGED <<orders, outputs, camera, image>>

(* On every turn of the loop, whether a picture was processed or not. *)
ClearPicture ==
  /\ Goto("image", "clear", "loop")
  /\ newPicture' = FALSE
  /\ UNCHANGED <<orders, outputs, image, way, scaled_data, memory, pictures>>

imageProcessHandle ==
  \/ ImageLoop \/ TestPicture \/ BeginScan \/ Scan \/ Decide
  \/ SomethingFound \/ ClearPicture

-----------------------------------------------------------------------------
(* Both motor threads.                                                     *)

TurnCommand(s) == IF s = "left" THEN TurnLeft ELSE TurnRight

(* The case of the switch statement a command leads to: the left thread    *)
(* drives both sides, the right one only clears the drive commands, and    *)
(* leaves 7 in its mailbox.                                                *)
Case(s, c) ==
  CASE c \in {Faster, Slower}      -> "speed"
    [] c = TurnCommand(s)          -> "hold"
    [] c = NoCommand               -> "loop"
    [] c = Follow /\ s = "right"   -> "loop"
    [] c \in {TurnLeft, TurnRight} -> "ack"
    [] s = "right"                 -> "ack"
    [] OTHER                       -> "testFirst"

(* do { switch (leftSwitchVar) ... } while (!done): the test of done and   *)
(* the mailbox of the next turn.                                           *)
Fetch(s) ==
  /\ ~done
  /\ Goto(s, "loop", Case(s, switchVar[s]))
  /\ cmd' = [cmd EXCEPT ![s] = IF Case(s, switchVar[s]) = "loop" THEN NoCommand
                               ELSE switchVar[s]]
  /\ UNCHANGED <<flag, done, mode, switchVar, turnCount, reg, key, budget,
                 outputs, scene>>

(* The command is cleared after it was executed, whatever is there now. *)
Ack(s) ==
  /\ Goto(s, "ack", "loop")
  /\ switchVar' = [switchVar EXCEPT ![s] = NoCommand]
  /\ cmd' = [cmd EXCEPT ![s] = NoCommand]
  /\ UNCHANGED <<flag, done, mode, turnCount, reg, key, budget, outputs, scene>>

Leave(s) ==
  /\ done
  /\ Goto(s, "loop", "exited")
  /\ UNCHANGED <<orders, outputs, scene>>

(* A thread that writes both registers writes its own side's first. *)
SetBoth(s, d) ==
  /\ dat' = [dat EXCEPT ![s] = d[s]]
  /\ store' = [store EXCEPT ![s] = d[OtherSide(s)]]
  /\ UNCHANGED <<pins, speeds>>

SecondStore(s) ==
  /\ store[s] # NoStore
  /\ dat' = [dat EXCEPT ![OtherSide(s)] = store[s]]
  /\ store' = [store EXCEPT ![s] = NoStore]
  /\ UNCHANGED <<orders, pins, speeds, scene, pc>>

(* Cases 3 and 4: one step faster or slower, kept within 0..PwmRange. *)
Level(c, d) ==
  IF c = Faster
    THEN IF d + DutyStep >= PwmRange THEN PwmRange ELSE d + DutyStep
    ELSE IF d - DutyStep <= 0 THEN 0 ELSE d - DutyStep

Speed(s) ==
  /\ Goto(s, "speed", "ack")
  /\ dutyLevel' = [dutyLevel EXCEPT ![s] = Level(cmd[s], @)]
  /\ dat' = [dat EXCEPT ![s] = Level(cmd[s], dutyLevel[s])]
  /\ UNCHANGED <<orders, pins, store, dutyHold, scene>>

(* Case 5 on the left, 6 on the right: while presses are counted the wheel *)
(* is slowed, and the other one run at full level, for half a second each. *)
Hold(s) ==
  /\ Goto(s, "hold", "turnTest")
  /\ dutyHold' = [dutyHold EXCEPT ![s] = dutyLevel[s]]
  /\ UNCHANGED <<orders, pins, dat, store, dutyLevel, scene>>

(* Mutant: one turn more than presses. *)
TurnTest_FromZero(s) ==
  /\ Goto(s, "turnTest",
          IF turnCount[s] >= 0 /\ ~done THEN "turn" ELSE "restore")
  /\ UNCHANGED <<orders, outputs, scene>>

(* Mutant: a turn goes on until every press was served. *)
TurnTest_NoQuit(s) ==
  /\ Goto(s, "turnTest", IF turnCount[s] > 0 THEN "turn" ELSE "restore")
  /\ UNCHANGED <<orders, outputs, scene>>

TurnTest(s) ==
  /\ Goto(s, "turnTest",
          IF turnCount[s] > 0 /\ ~done THEN "turn" ELSE "restore")
  /\ UNCHANGED <<orders, outputs, scene>>

Turn(s) ==
  /\ Goto(s, "turn", "countRead")
  /\ SetBoth(s, [t \in Side |-> IF t = s THEN TurnDuty ELSE PwmRange])
  /\ UNCHANGED <<orders, scene>>

ReadCount(s) ==
  /\ Goto(s, "countRead", "countWrite")
  /\ reg' = [reg EXCEPT ![s] = turnCount[s]]
  /\ UNCHANGED <<flag, done, mode, switchVar, turnCount, cmd, key, budget,
                 outputs, scene>>

WriteCount(s) ==
  /\ Goto(s, "countWrite", "turnTest")
  /\ turnCount' = [turnCount EXCEPT ![s] = reg[s] - 1]
  /\ UNCHANGED <<flag, done, mode, switchVar, cmd, reg, key, budget, outputs,
                 scene>>

(* Mutant: the wheel that was sped up is set back, too, to the same level. *)
RestoreDuty_Both(s) ==
  /\ Goto(s, "restore", "ack")
  /\ SetBoth(s, [t \in Side |-> dutyHold[s]])
  /\ UNCHANGED <<orders, scene>>

(* Only the wheel that was slowed is set back. *)
RestoreDuty(s) ==
  /\ Goto(s, "restore", "ack")
  /\ dat' = [dat EXCEPT ![s] = dutyHold[s]]
  /\ UNCHANGED <<orders, pins, store, speeds, scene>>

ManualCase(s) ==
  \/ Speed(s) \/ Hold(s) \/ TurnTest(s) \/ Turn(s) \/ ReadCount(s)
  \/ WriteCount(s) \/ RestoreDuty(s)

(* What the two threads have in common. *)
Motor(s) == Fetch(s) \/ Ack(s) \/ Leave(s) \/ ManualCase(s)

rightHandle == SecondStore("right") \/ (store["right"] = NoStore /\ Motor("right"))

-----------------------------------------------------------------------------
(* The left motor thread: the drive commands.                              *)

FirstFlag(c)  == IF c = Backward THEN "forward1" ELSE "backward1"
SecondFlag(c) == IF c = StopCar THEN "forward1" ELSE "stop1"
AfterTests(c) == IF c = Follow THEN "mark" ELSE "drive"

TestFirst ==
  /\ Goto("left", "testFirst",
          IF flag[FirstFlag(cmd["left"])] = 1 THEN "clearFirst"
                                              ELSE "testSecond")
  /\ UNCHANGED <<orders, outputs, scene>>

TestSecond ==
  /\ Goto("left", "testSecond",
          IF flag[SecondFlag(cmd["left"])] = 1 THEN "clearFirst"
                                               ELSE AfterTests(cmd["left"]))
  /\ UNCHANGED <<orders, outputs, scene>>

SetFlag(f, v) ==
  /\ flag' = [flag EXCEPT ![f] = v]
  /\ UNCHANGED <<done, mode, switchVar, turnCount, cmd, reg, key, budget,
                 scene>>

ClearFirst ==
  /\ Goto("left", "clearFirst", "clearSecond")
  /\ SetFlag(FirstFlag(cmd["left"]), 0)
  /\ UNCHANGED outputs

(* Cases 0, 1 and 2 brake both sides, case 7 the left one only. *)
ClearSecond ==
  /\ Goto("left", "clearSecond", AfterTests(cmd["left"]))
  /\ SetFlag(SecondFlag(cmd["left"]), 0)
  /\ pins' = [s \in Side |-> IF cmd["left"] = Follow /\ s = "right" THEN pins[s]
                             ELSE "brake"]
  /\ UNCHANGED <<dat, store, speeds>>

MarkForward ==
  /\ Goto("left", "mark", "drive")
  /\ SetFlag("forward1", 1)
  /\ UNCHANGED outputs

PinsOf(c) == CASE c = StopCar  -> "stop"
               [] c = Backward -> "backward"
               [] OTHER        -> "forward"

(* All four pins. *)
Drive ==
  /\ Goto("left", "drive", IF cmd["left"] = Follow THEN "start" ELSE "ack")
  /\ pins' = [s \in Side |-> PinsOf(cmd["left"])]
  /\ UNCHANGED <<orders, dat, store, speeds, scene>>

DriveCase ==
  TestFirst \/ TestSecond \/ ClearFirst \/ ClearSecond \/ MarkForward \/ Drive

-----------------------------------------------------------------------------
(* The left motor thread: case 7, following the laser.                     *)

Halt == SetBoth("left", [s \in Side |-> 0])

StartFollow ==
  /\ Goto("left", "start", "follow")
  /\ Halt
  /\ UNCHANGED <<orders, scene>>

(* Mutant: the loop ends with done instead of the mailbox. *)
Following_UntilDone == ~done

Following == switchVar["left"] = Follow

(* Mutant: case 7 falls into a case that clears the mailbox. *)
FollowTest_Acks ==
  /\ Goto("left", "follow", IF Following THEN "left" ELSE "ack")
  /\ UNCHANGED <<orders, outputs, scene>>

(* Case 7 falls into the empty case -1. *)
FollowTest ==
  /\ Goto("left", "follow", IF Following THEN "left" ELSE "loop")
  /\ cmd' = IF Following THEN cmd ELSE [cmd EXCEPT !["left"] = NoCommand]
  /\ UNCHANGED <<flag, done, mode, switchVar, turnCount, reg, key, budget,
                 outputs, scene>>

(* The registers while a direction is taken. *)
MoveDuty(w) ==
  CASE w = "left"  -> [left |-> 50, right |-> 100]
    [] w = "right" -> [left |-> 100, right |-> 50]
    [] OTHER       -> [left |-> 70, right |-> 70]

(* if (left == 1) ... else if (right == 1) ... else if (straight == 1) *)
NextTest == [left |-> "right", right |-> "straight", straight |-> "nothing"]
Moving   == [left |-> "toLeft", right |-> "toRight", straight |-> "ahead"]
Clearing == [left |-> "clearLeft", right |-> "clearRight", straight |-> "ahead"]

TestDirection(w) ==
  \/ /\ way[w] = 1
     /\ Goto("left", w, Moving[w])
     /\ SetBoth("left", MoveDuty(w))
     /\ due' = due - 1
     /\ UNCHANGED <<orders, camera, first, way>>
  \/ /\ way[w] # 1
     /\ Goto("left", w, NextTest[w])
     /\ UNCHANGED <<orders, outputs, scene>>

(* A second later a turn ends, straight on. *)
EndTurn(w) ==
  /\ Goto("left", Moving[w], Clearing[w])
  /\ SetBoth("left", MoveDuty("straight"))
  /\ UNCHANGED <<orders, scene>>

(* Mutant: all directions are cleared. *)
ClearDirection_All(w) ==
  /\ Goto("left", Clearing[w], "nothing")
  /\ way' = [d \in Way |-> 0]
  /\ UNCHANGED <<orders, outputs, camera, image>>

ClearDirection(w) ==
  /\ Goto("left", Clearing[w], "nothing")
  /\ way' = [way EXCEPT ![w] = 0]
  /\ UNCHANGED <<orders, outputs, camera, image>>

TestNothing ==
  \/ /\ way["nothing"] = 1
     /\ Goto("left", "nothing", "clearNothing")
     /\ Halt
     /\ UNCHANGED <<orders, scene>>
  \/ /\ way["nothing"] # 1
     /\ Goto("left", "nothing", "rest")
     /\ UNCHANGED <<orders, outputs, scene>>

ClearNothing ==
  /\ Goto("left", "clearNothing", "rest")
  /\ way' = [way EXCEPT !["nothing"] = 0]
  /\ UNCHANGED <<orders, outputs, camera, image>>

(* Another second later both wheels are halted. *)
Rest ==
  /\ Goto("left", "rest", "follow")
  /\ Halt
  /\ UNCHANGED <<orders, scene>>

FollowCase ==
  \/ StartFollow \/ FollowTest
  \/ \E w \in {"left", "right"} : EndTurn(w)
  \/ \E w \in Direction : TestDirection(w) \/ ClearDirection(w)
  \/ TestNothing \/ ClearNothing \/ Rest

leftHandle ==
  \/ SecondStore("left")
  \/ store["left"] = NoStore /\ (Motor("left") \/ DriveCase \/ FollowCase)

-----------------------------------------------------------------------------
(* The key thread.                                                         *)

(* What a mode lets through; any other key changes nothing. *)
Accepted(k) ==
  \/ k \in {"m", "q", "s"}
  \/ k = "w" /\ mode \in {"m1", "m2"}
  \/ k \in {"x", "i", "j", "a", "d"} /\ mode = "m1"

CommandOf(k) ==
  CASE k = "s" -> StopCar
    [] k = "w" -> IF mode = "m2" THEN Follow ELSE Forward
    [] k = "x" -> Backward
    [] k = "i" -> Faster
    [] k = "j" -> Slower
    [] k = "a" -> TurnLeft
    [] k = "d" -> TurnRight
    [] k = "2" -> Follow
    [] OTHER   -> NoCommand

Press(k) ==
  /\ budget[k] > 0
  /\ budget' = [budget EXCEPT ![k] = @ - 1]

ReadKey(k) ==
  /\ Accepted(k)
  /\ Press(k)
  /\ Goto("key", "read", CASE k = "m"                  -> "mode"
                           [] k \in {"q", "s", "w", "x"} -> "mark"
                           [] OTHER                    -> "postRight")
  /\ key' = IF k = "m" THEN key ELSE k
  /\ UNCHANGED <<flag, done, mode, switchVar, turnCount, cmd, reg, outputs,
                 scene>>

(* The character after 'm': 2 also posts the command to follow. *)
ReadMode(k) ==
  /\ Press(k)
  /\ Goto("key", "mode", IF k = "2" THEN "postRight" ELSE "read")
  /\ mode' = IF k = "1" THEN "m1" ELSE IF k = "2" THEN "m2" ELSE mode
  /\ key' = IF k = "2" THEN k ELSE key
  /\ UNCHANGED <<flag, done, switchVar, turnCount, cmd, reg, outputs, scene>>

MarkKey ==
  /\ Goto("key", "mark", "postRight")
  /\ done' = (done \/ key = "q")
  /\ flag' = CASE key = "s" -> [flag EXCEPT !["stop1"] = 1]
               [] key = "w" -> [flag EXCEPT !["forward1"] = 1]
               [] key = "x" -> [flag EXCEPT !["backward1"] = 1]
               [] OTHER     -> flag
  /\ UNCHANGED <<mode, switchVar, turnCount, cmd, reg, key, budget, outputs,
                 scene>>

(* rightSwitchVar, then leftSwitchVar. *)
PostRight ==
  /\ Goto("key", "postRight", "postLeft")
  /\ switchVar' = [switchVar EXCEPT !["right"] = CommandOf(key)]
  /\ UNCHANGED <<flag, done, mode, turnCount, cmd, reg, key, budget, outputs,
                 scene>>

AfterPost(k) == CASE k = "q"          -> "exited"
                  [] k \in {"a", "d"} -> "countRead"
                  [] OTHER            -> "read"

(* Mutant: 'q' only sets done. *)
PostLeft_QuitKept ==
  /\ Goto("key", "postLeft", AfterPost(key))
  /\ switchVar' = IF key = "q" THEN switchVar
                  ELSE [switchVar EXCEPT !["left"] = CommandOf(key)]
  /\ UNCHANGED <<flag, done, mode, turnCount, cmd, reg, key, budget, outputs,
                 scene>>

PostLeft ==
  /\ Goto("key", "postLeft", AfterPost(key))
  /\ switchVar' = [switchVar EXCEPT !["left"] = CommandOf(key)]
  /\ UNCHANGED <<flag, done, mode, turnCount, cmd, reg, key, budget, outputs,
                 scene>>

(* leftCount or rightCount = ... + 1, after the command was posted. *)
SideOf(k) == IF k = "a" THEN "left" ELSE "right"

ReadPresses ==
  /\ Goto("key", "countRead", "countWrite")
  /\ reg' = [reg EXCEPT !["key"] = turnCount[SideOf(key)]]
  /\ UNCHANGED <<flag, done, mode, switchVar, turnCount, cmd, key, budget,
                 outputs, scene>>

CountPress ==
  /\ Goto("key", "countWrite", "read")
  /\ turnCount' = [turnCount EXCEPT ![SideOf(key)] = reg["key"] + 1]
  /\ UNCHANGED <<flag, done, mode, switchVar, cmd, reg, key, budget, outputs,
                 scene>>

ActOnKey  == MarkKey \/ PostRight \/ PostLeft \/ ReadPresses \/ CountPress
ThreadKey == (\E k \in KeyChar : ReadKey(k) \/ ReadMode(k)) \/ ActOnKey

-----------------------------------------------------------------------------
(* Mutant: the left motor thread is not joined. *)
Joined_NotLeft == \A t \in Worker \ {"left"} : pc[t] = "exited"

(* main joins the five threads, then clears the pins and the registers. *)
Joined == \A t \in Worker : pc[t] = "exited"

main ==
  /\ Joined
  /\ Goto("main", "join", "exited")
  /\ pins' = [s \in Side |-> "stop"]
  /\ dat' = [s \in Side |-> 0]
  /\ UNCHANGED <<orders, store, speeds, scene>>

Terminated == pc["main"] = "exited" /\ UNCHANGED vars

Next ==
  \/ leftHandle \/ rightHandle \/ ThreadKey \/ cameraHandle
  \/ imageProcessHandle \/ main \/ Terminated

Spec == Init /\ [][Next]_vars

(* Every thread of the process is scheduled; the user need not type.  The  *)
(* camera may stop delivering pictures.                                    *)
Fairness ==
  /\ WF_vars(leftHandle)
  /\ WF_vars(rightHandle)
  /\ WF_vars(ActOnKey)
  /\ WF_vars(OpenCamera \/ Scale \/ Deliver \/ FreePicture)
  /\ WF_vars(imageProcessHandle)
  /\ WF_vars(main)

FairSpec == Spec /\ Fairness

-----------------------------------------------------------------------------
(* Properties.                                                             *)

PinState == {"forward", "backward", "stop", "brake"}

MotorPC == {"speed", "hold", "turnTest", "turn", "countRead",
            "countWrite", "restore", "ack", "loop", "exited"}

PC == [left   |-> MotorPC \cup
                  {"testFirst", "testSecond", "clearFirst", "clearSecond", "mark",
                   "drive", "start", "follow", "left", "right", "straight",
                   "toLeft", "toRight", "clearLeft", "clearRight", "ahead",
                   "nothing", "clearNothing", "rest"},
       right  |-> MotorPC,
       key    |-> {"read", "mode", "mark", "postRight", "postLeft", "countRead",
                   "countWrite", "exited"},
       camera |-> {"open", "loop", "scale", "deliver", "exited"},
       image  |-> {"loop", "test", "begin", "scan", "decide", "found", "clear",
                   "exited"},
       main   |-> {"join", "exited"}]

Command == NoCommand..Follow

(* The type invariant. *)
TypeOK ==
  /\ flag \in [Flag -> {-1, 0, 1}]
  /\ done \in BOOLEAN
  /\ mode \in {"none", "m1", "m2"}
  /\ switchVar \in [Side -> Command]
  /\ turnCount \in [Side -> Nat]
  /\ dutyLevel \in [Side -> 0..PwmRange]
  /\ dutyHold \in [Side -> 0..PwmRange]
  /\ pins \in [Side -> PinState]
  /\ dat \in [Side -> 0..PwmRange]
  /\ store \in [Side -> NoStore..PwmRange]
  /\ way \in [Way -> {-1, 0, 1}]
  /\ newPicture \in BOOLEAN
  /\ scaled_data \in Way
  /\ memory \in {"none", "live", "freed"}
  /\ first \in Way
  /\ \A t \in Thread : pc[t] \in PC[t]
  /\ cmd \in [Side -> Command]
  /\ reg \in [Side \cup {"key"} -> Nat]
  /\ key \in KeyChar \cup {"none"}
  /\ budget \in [KeyChar -> Nat]
  /\ pictures \in 0..MaxPictures
  /\ due \in Int

(* Once main has returned both sides' pins are 00 and both registers 0.    *)
StoppedAtExit ==
  pc["main"] = "exited" => \A s \in Side : pins[s] = "stop" /\ dat[s] = 0

(* Each move answers a picture of its own in which the laser was seen:     *)
(* although directions are set and cleared by two threads without a lock,  *)
(* none is acted on twice.                                                 *)
OneMovePerPicture == due >= 0

(* The direction the left motor thread is acting on, and the directions    *)
(* that are set and not acted on yet.                                      *)
Acting(w)  == {Moving[w], Clearing[w]}
Taken      == {w \in Direction : pc["left"] \in Acting(w)}
Unanswered == {w \in Direction : way[w] = 1} \ Taken

(* The four flags, set and cleared by two threads without a lock, behave   *)
(* as a set of sightings: no move without a sighting in that direction,    *)
(* none for one that was answered, and a new one is not lost because the   *)
(* answer to another clears it.                                            *)
Laser == INSTANCE Sightings WITH seen <- Unanswered, taken <- Taken

ImplementsSightings == Laser!Spec

(* While the program runs the image thread scans only memory that the      *)
(* camera thread has allocated and not yet freed.                          *)
ScansLiveMemory == pc["image"] = "scan" /\ ~done => memory = "live"

(* Whether the user has not asked to follow the laser, or not to drive     *)
(* manually, so far.                                                       *)
NeverFollowed == budget["2"] = Budget["2"]
NeverManual   == budget["1"] = Budget["1"]

Turning == {"turnTest", "turn", "countRead", "countWrite", "restore"}

(* In manual driving a wheel that does not make a turn of its own runs at  *)
(* the level it was given, or at full level because of a turn to the other *)
(* side: that is all turns leave behind, although both threads write both  *)
(* registers, and 'q' may cut a turn short.                                *)
DutyAfterTurns ==
  NeverFollowed /\ pc["main"] = "join" =>
    \A s \in Side : pc[s] \notin Turning => dat[s] \in {dutyLevel[s], PwmRange}

(* After 's' both wheels come to a stop unless another key is pressed, as  *)
(* long as the user does not drive manually.                               *)
StopTakesEffect ==
  (pc["key"] = "read" /\ key = "s" /\ NeverManual)
    ~> ((\A s \in Side : pins[s] = "stop") \/ key # "s" \/ ~NeverManual)

(* The same promise without time, and of the registers, too: when 's' was  *)
(* the last key and the left thread has nothing left to do the car stands  *)
(* still, whatever part of a move the key met.                             *)
Quiet ==
  /\ pc["key"] = "read" /\ pc["left"] = "loop"
  /\ switchVar["left"] = NoCommand /\ store["left"] = NoStore

StopHonoured ==
  NeverManual /\ Quiet /\ key = "s"
    => \A s \in Side : pins[s] = "stop" /\ dat[s] = 0

(* Why 'q' ends all five threads: once the key thread has left, each step  *)
(* of another thread takes it nearer to its end.  No loop is begun again,  *)
(* neither case 7, which does not test done, nor a turn, nor the scan.     *)
StepsLeft ==
  [testFirst |-> 9, testSecond |-> 8, clearFirst |-> 7, clearSecond |-> 6,
   mark |-> 5, drive |-> 4, start |-> 3, follow |-> 2,
   left |-> 9, toLeft |-> 7, clearLeft |-> 6, right |-> 8, toRight |-> 7,
   clearRight |-> 6, straight |-> 7, ahead |-> 6, nothing |-> 5,
   clearNothing |-> 4, rest |-> 3,
   speed |-> 3, hold |-> 5, turn |-> 7, countRead |-> 6, countWrite |-> 5,
   turnTest |-> 4, restore |-> 3, ack |-> 2,
   open |-> 4, scale |-> 3, deliver |-> 2,
   test |-> 7, begin |-> 6, scan |-> 5, decide |-> 4, found |-> 3, clear |-> 2,
   loop |-> 1, exited |-> 0]

(* A store that is still due is made before the thread does anything else. *)
ToQuit(t) ==
  2 * StepsLeft[pc[t]]
    + IF t \in Side THEN IF store[t] = NoStore THEN 0 ELSE 1 ELSE 0

QuitProgress ==
  [][pc["key"] = "exited" =>
       \A t \in Worker \ {"key"} :
         pc'[t] # pc[t] \/ (t \in Side /\ store'[t] # store[t])
           => ToQuit(t)' < ToQuit(t)]_<<pc, store>>
=============================================================================
