------------------------------ MODULE CarDrive ------------------------------
(***************************************************************************)
(* The driving part of src/hw7Damico/hw7Damico.c: the key thread turns     *)
(* keys into commands, one motor thread per side executes them on the      *)
(* H-bridge pins and the PWM data registers, the IMU thread runs beside    *)
(* them and main waits for all four and stops the car.                     *)
(*                                                                         *)
(* The threads share plain globals without a lock and the program is built *)
(* without optimisation, so each step below makes one access to a shared   *)
(* global.  Two accesses are one step only where no other thread can tell  *)
(* (the README says why for each of them).                                 *)
(***************************************************************************)
EXTENDS Integers

CONSTANTS
  Budget,     (* how often the user presses each key: the bound          *)
  Patient,    (* whether the user waits until a key has taken effect     *)
  DutyStep,   (* one step of 'i' or 'j'                                  *)
  PwmRange,   (* PWM_RANGE, the full duty level                          *)
  TurnDuty,   (* the level of the slowed wheel while turning             *)
  TraceDuty   (* the level of both wheels while tracing the line         *)

KeyChar == {"m", "0", "1", "2", "q", "s", "w", "x", "i", "j", "a", "d"}

ASSUME ConstantsAssumption ==
  /\ Budget \in [KeyChar -> Nat]
  /\ Patient \in BOOLEAN
  /\ DutyStep \in Nat
  /\ PwmRange \in Nat
  /\ TurnDuty \in 0..PwmRange
  /\ TraceDuty \in 0..PwmRange

Side   == {"left", "right"}
Thread == Side \cup {"key", "imu", "main"}
Flag   == {"forward1", "backward1", "stop1"}

(* The values of leftSwitchVar and rightSwitchVar. *)
NoCommand == -1
StopCar   == 0
Forward   == 1
Backward  == 2
Faster    == 3
Slower    == 4
TurnLeft  == 5
TurnRight == 6
TraceLine == 7
Command   == NoCommand..TraceLine

(* (AI1, AI2): "forward" is 10, "backward" 01, "stop" 00, "brake" 11. *)
PinState == {"forward", "backward", "stop", "brake"}

VARIABLES
  flag,       (* forward1, backward1, stop1: -1 until first written      *)
  done,       (* set by 'q'                                              *)
  mode,       (* which of m0, m1, m2 is true                             *)
  switchVar,  (* leftSwitchVar, rightSwitchVar: one-slot mailboxes       *)
  dutyLevel,  (* dutyLevelLeft, dutyLevelRight                           *)
  dutyHold,   (* dutyLevelLeftHold, dutyLevelRightHold                   *)
  turnCount,  (* leftCount, rightCount                                   *)
  dat,        (* the PWM data register of a side: DAT2 left, DAT1 right  *)
  pins,       (* the two H-bridge pins of a side                         *)
  pc,         (* where each thread is                                    *)
  cmd,        (* the value a motor thread's switch statement read        *)
  reg,        (* a counter as read, before it is written back            *)
  key,        (* the last key the key thread acted on                    *)
  budget      (* the keys the user may still press                       *)

globals == <<flag, done, mode, switchVar, turnCount>>
motors  == <<dutyLevel, dutyHold, dat, pins>>
vars    == <<flag, done, mode, switchVar, dutyLevel, dutyHold, turnCount,
             dat, pins, pc, cmd, reg, key, budget>>

OtherSide(s) == IF s = "left" THEN "right" ELSE "left"

Goto(t, from, to) ==
  /\ pc[t] = from
  /\ pc' = [pc EXCEPT ![t] = to]

-----------------------------------------------------------------------------
(* main before the threads run: all four pins set, both registers 0. *)
Init ==
  /\ flag = [f \in Flag |-> -1]
  /\ done = FALSE
  /\ mode = "none"
  /\ switchVar = [s \in Side |-> NoCommand]
  /\ dutyLevel = [s \in Side |-> 0]
  /\ dutyHold = [s \in Side |-> 0]
  /\ turnCount = [s \in Side |-> 0]
  /\ dat = [s \in Side |-> 0]
  /\ pins = [s \in Side |-> "brake"]
  /\ pc = [t \in Thread |-> IF t \in Side THEN "fetch"
                            ELSE IF t = "key" THEN "read"
                            ELSE IF t = "imu" THEN "record" ELSE "join"]
  /\ cmd = [s \in Side |-> NoCommand]
  /\ reg = [t \in Side \cup {"key"} |-> 0]
  /\ key = "none"
  /\ budget = Budget

-----------------------------------------------------------------------------
(* The motor threads.                                                      *)

TurnCommand(s) == IF s = "left" THEN TurnLeft ELSE TurnRight

(* The case of the switch statement a command leads to. *)
Case(s, c) ==
  CASE c \in {StopCar, Forward, Backward, TraceLine} -> "testFirst"
    [] c \in {Faster, Slower}                        -> "speed"
    [] c = TurnCommand(s)                            -> "hold"
    [] c = TurnCommand(OtherSide(s))                 -> "ack"
    [] OTHER                                         -> "loop"

Fetch(s) ==
  /\ Goto(s, "fetch", Case(s, switchVar[s]))
  /\ cmd' = [cmd EXCEPT ![s] = switchVar[s]]
  /\ UNCHANGED <<globals, motors, reg, key, budget>>

(* A drive command first tests the two flags it is the opposite of, and    *)
(* brakes half a second when one of them is set.                           *)
FirstFlag(c)  == IF c = Backward THEN "forward1" ELSE "backward1"
(* Mutant: every drive command tests and clears stop1. *)
SecondFlag_Stop(c) == "stop1"

SecondFlag(c) == IF c = StopCar THEN "forward1" ELSE "stop1"
AfterTests(c) == IF c = TraceLine THEN "mark" ELSE "drive"

TestFirst(s) ==
  /\ Goto(s, "testFirst",
          IF flag[FirstFlag(cmd[s])] = 1 THEN "clearFirst" ELSE "testSecond")
  /\ UNCHANGED <<globals, motors, cmd, reg, key, budget>>

TestSecond(s) ==
  /\ Goto(s, "testSecond", IF flag[SecondFlag(cmd[s])] = 1
                             THEN "clearFirst" ELSE AfterTests(cmd[s]))
  /\ UNCHANGED <<globals, motors, cmd, reg, key, budget>>

ClearFirst(s) ==
  /\ Goto(s, "clearFirst", "clearSecond")
  /\ flag' = [flag EXCEPT ![FirstFlag(cmd[s])] = 0]
  /\ UNCHANGED <<done, mode, switchVar, turnCount, motors, cmd, reg, key, budget>>

(* Mutant: the second flag is not cleared. *)
ClearSecond_Kept(s) ==
  /\ Goto(s, "clearSecond", "brake")
  /\ UNCHANGED <<globals, motors, cmd, reg, key, budget>>

ClearSecond(s) ==
  /\ Goto(s, "clearSecond", "brake")
  /\ flag' = [flag EXCEPT ![SecondFlag(cmd[s])] = 0]
  /\ UNCHANGED <<done, mode, switchVar, turnCount, motors, cmd, reg, key, budget>>

(* Both pins set; the next step of this thread is half a second later. *)
Brake(s) ==
  /\ Goto(s, "brake", AfterTests(cmd[s]))
  /\ pins' = [pins EXCEPT ![s] = "brake"]
  /\ UNCHANGED <<globals, dutyLevel, dutyHold, dat, cmd, reg, key, budget>>

(* Case 7 only: forward1 = 1 before the pins are set. *)
MarkForward(s) ==
  /\ Goto(s, "mark", "drive")
  /\ flag' = [flag EXCEPT !["forward1"] = 1]
  /\ UNCHANGED <<done, mode, switchVar, turnCount, motors, cmd, reg, key, budget>>

PinsOf(c) == CASE c = StopCar  -> "stop"
               [] c = Backward -> "backward"
               [] OTHER        -> "forward"

(* Mutant: a stop leaves the pins as the brake left them. *)
Drive_StopKeepsPins(s) ==
  /\ Goto(s, "drive", IF cmd[s] = TraceLine THEN "traceDuty" ELSE "ack")
  /\ pins' = IF cmd[s] = StopCar THEN pins
             ELSE [pins EXCEPT ![s] = PinsOf(cmd[s])]
  /\ UNCHANGED <<globals, dutyLevel, dutyHold, dat, cmd, reg, key, budget>>

Drive(s) ==
  /\ Goto(s, "drive", IF cmd[s] = TraceLine THEN "traceDuty" ELSE "ack")
  /\ pins' = [pins EXCEPT ![s] = PinsOf(cmd[s])]
  /\ UNCHANGED <<globals, dutyLevel, dutyHold, dat, cmd, reg, key, budget>>

(* Mutant: slower does not stop at zero. *)
Level_NoFloor(c, d) ==
  IF c = Faster
    THEN IF d + DutyStep >= PwmRange THEN PwmRange ELSE d + DutyStep
    ELSE d - DutyStep

(* Cases 3 and 4: one step faster or slower, kept within 0..PwmRange. *)
Level(c, d) ==
  IF c = Faster
    THEN IF d + DutyStep >= PwmRange THEN PwmRange ELSE d + DutyStep
    ELSE IF d - DutyStep <= 0 THEN 0 ELSE d - DutyStep

Speed(s) ==
  /\ Goto(s, "speed", "ack")
  /\ dutyLevel' = [dutyLevel EXCEPT ![s] = Level(cmd[s], @)]
  /\ dat' = [dat EXCEPT ![s] = Level(cmd[s], dutyLevel[s])]
  /\ UNCHANGED <<globals, dutyHold, pins, cmd, reg, key, budget>>

(* Case 5 on the left, 6 on the right: the wheel is slowed for half a      *)
(* second per press that is still counted.                                 *)
Hold(s) ==
  /\ Goto(s, "hold", "turnTest")
  /\ dutyHold' = [dutyHold EXCEPT ![s] = dutyLevel[s]]
  /\ UNCHANGED <<globals, dutyLevel, dat, pins, cmd, reg, key, budget>>

(* Mutant: a turn goes on until every press was served. *)
TurnTest_NoQuit(s) ==
  /\ Goto(s, "turnTest", IF turnCount[s] > 0 THEN "slow" ELSE "restore")
  /\ UNCHANGED <<globals, motors, cmd, reg, key, budget>>

(* Mutant: a counter that is 0 is counted down, too. *)
TurnTest_FromZero(s) ==
  /\ Goto(s, "turnTest",
          IF turnCount[s] >= 0 /\ ~done THEN "slow" ELSE "restore")
  /\ UNCHANGED <<globals, motors, cmd, reg, key, budget>>

TurnTest(s) ==
  /\ Goto(s, "turnTest",
          IF turnCount[s] > 0 /\ ~done THEN "slow" ELSE "restore")
  /\ UNCHANGED <<globals, motors, cmd, reg, key, budget>>

SlowWheel(s) ==
  /\ Goto(s, "slow", "countRead")
  /\ dat' = [dat EXCEPT ![s] = TurnDuty]
  /\ UNCHANGED <<globals, dutyLevel, dutyHold, pins, cmd, reg, key, budget>>

ReadCount(s) ==
  /\ Goto(s, "countRead", "countWrite")
  /\ reg' = [reg EXCEPT ![s] = turnCount[s]]
  /\ UNCHANGED <<globals, motors, cmd, key, budget>>

(* Mutant: the count is written back as it was read. *)
WriteCount_Same(s) ==
  /\ Goto(s, "countWrite", "turnTest")
  /\ turnCount' = [turnCount EXCEPT ![s] = reg[s]]
  /\ UNCHANGED <<flag, done, mode, switchVar, motors, cmd, reg, key, budget>>

WriteCount(s) ==
  /\ Goto(s, "countWrite", "turnTest")
  /\ turnCount' = [turnCount EXCEPT ![s] = reg[s] - 1]
  /\ UNCHANGED <<flag, done, mode, switchVar, motors, cmd, reg, key, budget>>

(* Mutant: the register stays at the turning level. *)
RestoreDuty_Dropped(s) ==
  /\ Goto(s, "restore", "ack")
  /\ UNCHANGED <<globals, motors, cmd, reg, key, budget>>

RestoreDuty(s) ==
  /\ Goto(s, "restore", "ack")
  /\ dat' = [dat EXCEPT ![s] = dutyHold[s]]
  /\ UNCHANGED <<globals, dutyLevel, dutyHold, pins, cmd, reg, key, budget>>

(* Mutant: one mailbox for both sides, cleared by whoever is first. *)
Ack_Both(s) ==
  /\ Goto(s, "ack", "loop")
  /\ switchVar' = [t \in Side |-> NoCommand]
  /\ UNCHANGED <<flag, done, mode, turnCount, motors, cmd, reg, key, budget>>

(* The command is cleared after it was executed, whatever is there now. *)
Ack(s) ==
  /\ Goto(s, "ack", "loop")
  /\ switchVar' = [switchVar EXCEPT ![s] = NoCommand]
  /\ UNCHANGED <<flag, done, mode, turnCount, motors, cmd, reg, key, budget>>

(* Mutant: done is not tested between commands. *)
Loop_Forever(s) ==
  /\ Goto(s, "loop", "fetch")
  /\ UNCHANGED <<globals, motors, cmd, reg, key, budget>>

Loop(s) ==
  /\ Goto(s, "loop", IF done THEN "exited" ELSE "fetch")
  /\ UNCHANGED <<globals, motors, cmd, reg, key, budget>>

-----------------------------------------------------------------------------
(* Case 7, line tracing: while its own sensor sees the line a thread stops *)
(* its wheel and runs the other one at full level; each of the two writes  *)
(* both registers, DAT2 (left) before DAT1 (right).                        *)

Tracing(s) == ~done /\ switchVar[s] = TraceLine

SetTraceDuty(s) ==
  /\ Goto(s, "traceDuty", "trace")
  /\ dat' = [dat EXCEPT ![s] = TraceDuty]
  /\ UNCHANGED <<globals, dutyLevel, dutyHold, pins, cmd, reg, key, budget>>

(* Mutant: case 7 also ends by clearing the command. *)
TraceTest_Acks(s) ==
  /\ Goto(s, "trace", IF Tracing(s) THEN "offLine" ELSE "ack")
  /\ UNCHANGED <<globals, motors, cmd, reg, key, budget>>

TraceTest(s) ==
  /\ Goto(s, "trace", IF Tracing(s) THEN "offLine" ELSE "loop")
  /\ UNCHANGED <<globals, motors, cmd, reg, key, budget>>

(* The first inner loop spins while the sensor is off the line. *)
LeaveOffLine(s, onLine) ==
  /\ onLine \/ ~Tracing(s)
  /\ Goto(s, "offLine", "onLine")
  /\ UNCHANGED <<globals, motors, cmd, reg, key, budget>>

OnLineTest(s, onLine) ==
  /\ Goto(s, "onLine",
          IF onLine /\ Tracing(s) THEN "steerLeft" ELSE "evenLeft")
  /\ UNCHANGED <<globals, motors, cmd, reg, key, budget>>

SteerDuty(s, wheel) == IF s = wheel THEN 0 ELSE PwmRange

SteerLeftWheel(s) ==
  /\ Goto(s, "steerLeft", "steerRight")
  /\ dat' = [dat EXCEPT !["left"] = SteerDuty(s, "left")]
  /\ UNCHANGED <<globals, dutyLevel, dutyHold, pins, cmd, reg, key, budget>>

SteerRightWheel(s) ==
  /\ Goto(s, "steerRight", "onLine")
  /\ dat' = [dat EXCEPT !["right"] = SteerDuty(s, "right")]
  /\ UNCHANGED <<globals, dutyLevel, dutyHold, pins, cmd, reg, key, budget>>

(* Mutant: only the right register is set back after a correction. *)
EvenLeftWheel_Dropped(s) ==
  /\ Goto(s, "evenLeft", "evenRight")
  /\ UNCHANGED <<globals, motors, cmd, reg, key, budget>>

EvenLeftWheel(s) ==
  /\ Goto(s, "evenLeft", "evenRight")
  /\ dat' = [dat EXCEPT !["left"] = TraceDuty]
  /\ UNCHANGED <<globals, dutyLevel, dutyHold, pins, cmd, reg, key, budget>>

EvenRightWheel(s) ==
  /\ Goto(s, "evenRight", "trace")
  /\ dat' = [dat EXCEPT !["right"] = TraceDuty]
  /\ UNCHANGED <<globals, dutyLevel, dutyHold, pins, cmd, reg, key, budget>>

-----------------------------------------------------------------------------
DriveCase(s) ==
  \/ TestFirst(s) \/ TestSecond(s) \/ ClearFirst(s) \/ ClearSecond(s)
  \/ Brake(s) \/ MarkForward(s) \/ Drive(s)

TurnCase(s) ==
  \/ Hold(s) \/ TurnTest(s) \/ SlowWheel(s) \/ ReadCount(s) \/ WriteCount(s)
  \/ RestoreDuty(s)

TraceCase(s) ==
  \/ SetTraceDuty(s) \/ TraceTest(s)
  \/ \E onLine \in BOOLEAN : LeaveOffLine(s, onLine) \/ OnLineTest(s, onLine)
  \/ SteerLeftWheel(s) \/ SteerRightWheel(s)
  \/ EvenLeftWheel(s) \/ EvenRightWheel(s)

Motor(s) ==
  \/ Fetch(s) \/ DriveCase(s) \/ Speed(s) \/ TurnCase(s) \/ TraceCase(s)
  \/ Ack(s) \/ Loop(s)

leftHandle  == Motor("left")
rightHandle == Motor("right")

-----------------------------------------------------------------------------
(* The key thread.                                                         *)

(* The keys the current mode acts on; any other key changes nothing. *)
Accepted(k) ==
  \/ k \in {"q", "s"}
  \/ k = "w" /\ mode \in {"m1", "m2"}
  \/ k \in {"x", "i", "j", "a", "d"} /\ mode = "m1"

CommandOf(k) ==
  CASE k = "s" -> StopCar
    [] k = "w" -> IF mode = "m2" THEN TraceLine ELSE Forward
    [] k = "x" -> Backward
    [] k = "i" -> Faster
    [] k = "j" -> Slower
    [] k = "a" -> TurnLeft
    [] k = "d" -> TurnRight
    [] OTHER   -> NoCommand

(* A motor thread has nothing to do, or traces a line it does not see. *)
Settled(s) ==
  \/ pc[s] = "fetch" /\ switchVar[s] = NoCommand
  \/ pc[s] = "offLine" /\ switchVar[s] = TraceLine

Press(k) ==
  /\ Patient => \A s \in Side : Settled(s)
  /\ budget[k] > 0
  /\ budget' = [budget EXCEPT ![k] = @ - 1]

AfterRead(k) ==
  IF k = "m" THEN "mode"
  ELSE IF ~Accepted(k) THEN "read"
  ELSE IF k \in {"q", "s", "w", "x"} THEN "mark" ELSE "postRight"

ReadKey(k) ==
  /\ Press(k)
  /\ Goto("key", "read", AfterRead(k))
  /\ key' = IF Accepted(k) THEN k ELSE key
  /\ UNCHANGED <<globals, motors, cmd, reg>>

(* The character after 'm': any other than 0, 1, 2 is an invalid command. *)
ReadMode(k) ==
  /\ Press(k)
  /\ Goto("key", "mode", "read")
  /\ mode' = CASE k = "0" -> "m0"
               [] k = "1" -> "m1"
               [] k = "2" -> "m2"
               [] OTHER   -> mode
  /\ UNCHANGED <<flag, done, switchVar, turnCount, motors, cmd, reg, key>>

(* 'q' sets done, 's' stop1, 'w' forward1 and 'x' backward1. *)
MarkKey ==
  /\ Goto("key", "mark", "postRight")
  /\ done' = (done \/ key = "q")
  /\ flag' = CASE key = "s" -> [flag EXCEPT !["stop1"] = 1]
               [] key = "w" -> [flag EXCEPT !["forward1"] = 1]
               [] key = "x" -> [flag EXCEPT !["backward1"] = 1]
               [] OTHER     -> flag
  /\ UNCHANGED <<mode, switchVar, turnCount, motors, cmd, reg, key, budget>>

PostRight ==
  /\ Goto("key", "postRight", "postLeft")
  /\ switchVar' = [switchVar EXCEPT !["right"] = CommandOf(key)]
  /\ UNCHANGED <<flag, done, mode, turnCount, motors, cmd, reg, key, budget>>

PostLeft ==
  /\ Goto("key", "postLeft", CASE key = "q"            -> "exited"
                               [] key \in {"a", "d"}   -> "countRead"
                               [] OTHER                -> "read")
  /\ switchVar' = [switchVar EXCEPT !["left"] = CommandOf(key)]
  /\ UNCHANGED <<flag, done, mode, turnCount, motors, cmd, reg, key, budget>>

Counted == IF key = "a" THEN "left" ELSE "right"

ReadTurns ==
  /\ Goto("key", "countRead", "countWrite")
  /\ reg' = [reg EXCEPT !["key"] = turnCount[Counted]]
  /\ UNCHANGED <<globals, motors, cmd, key, budget>>

WriteTurns ==
  /\ Goto("key", "countWrite", "read")
  /\ turnCount' = [turnCount EXCEPT ![Counted] = reg["key"] + 1]
  /\ UNCHANGED <<flag, done, mode, switchVar, motors, cmd, reg, key, budget>>

ActOnKey == MarkKey \/ PostRight \/ PostLeft \/ ReadTurns \/ WriteTurns

ThreadKey == (\E k \in KeyChar : ReadKey(k) \/ ReadMode(k)) \/ ActOnKey

-----------------------------------------------------------------------------
(* The IMU thread writes none of these globals: here it only ends. *)
imuHandle ==
  /\ done
  /\ Goto("imu", "record", "exited")
  /\ UNCHANGED <<globals, motors, cmd, reg, key, budget>>

(* Mutant: the right motor thread is not joined. *)
Joined_NotRight == \A t \in Thread \ {"main", "right"} : pc[t] = "exited"

(* main joins the four threads, then clears the pins and the registers. *)
Joined == \A t \in Thread \ {"main"} : pc[t] = "exited"

main ==
  /\ Joined
  /\ Goto("main", "join", "exited")
  /\ pins' = [s \in Side |-> "stop"]
  /\ dat' = [s \in Side |-> 0]
  /\ UNCHANGED <<globals, dutyLevel, dutyHold, cmd, reg, key, budget>>

(* After main returned the process is gone: nothing can happen any more. *)
Terminated == pc["main"] = "exited" /\ UNCHANGED vars

Next == leftHandle \/ rightHandle \/ ThreadKey \/ imuHandle \/ main \/ Terminated

Spec == Init /\ [][Next]_vars

(* Every thread of the process is scheduled; only the user need not type. *)
Fairness ==
  /\ WF_vars(leftHandle)
  /\ WF_vars(rightHandle)
  /\ WF_vars(ActOnKey)
  /\ WF_vars(imuHandle)
  /\ WF_vars(main)

FairSpec == Spec /\ Fairness
-----------------------------------------------------------------------------
(* Properties.                                                             *)

MotorPC == {"fetch", "testFirst", "testSecond", "clearFirst", "clearSecond",
            "brake", "mark", "drive", "speed", "hold", "turnTest", "slow",
            "countRead", "countWrite", "restore", "ack", "loop", "traceDuty",
            "trace", "offLine", "onLine", "steerLeft", "steerRight",
            "evenLeft", "evenRight", "exited"}
KeyPC == {"read", "mode", "mark", "postRight", "postLeft", "countRead",
          "countWrite", "exited"}

(* The type invariant.  Beyond the types it says that what the motor       *)
(* threads write to the PWM registers stays within 0..PWM_RANGE, and that  *)
(* the racing updates of leftCount and rightCount never go below zero.     *)
TypeOK ==
  /\ flag \in [Flag -> {-1, 0, 1}]
  /\ done \in BOOLEAN
  /\ mode \in {"none", "m0", "m1", "m2"}
  /\ switchVar \in [Side -> Command]
  /\ dutyLevel \in [Side -> 0..PwmRange]
  /\ dutyHold \in [Side -> 0..PwmRange]
  /\ turnCount \in [Side -> Nat]
  /\ dat \in [Side -> 0..PwmRange]
  /\ pins \in [Side -> PinState]
  /\ pc \in [Thread -> MotorPC \cup KeyPC \cup {"record", "join"}]
  /\ \A s \in Side : pc[s] \in MotorPC
  /\ pc["key"] \in KeyPC
  /\ pc["imu"] \in {"record", "exited"}
  /\ pc["main"] \in {"join", "exited"}
  /\ cmd \in [Side -> Command]
  /\ reg \in [Side \cup {"key"} -> Nat]
  /\ key \in KeyChar \cup {"none"}
  /\ budget \in [KeyChar -> Nat]

(* The program stops the car before it quits: once main has returned both  *)
(* sides' pins are 00 and both registers 0, although the motor threads     *)
(* write them until the moment they see done.                              *)
StoppedAtExit ==
  pc["main"] = "exited" => \A s \in Side : pins[s] = "stop" /\ dat[s] = 0

(* No thread is in the middle of a key or of a command. *)
Quiet == pc["key"] = "read" /\ \A s \in Side : Settled(s)

(* 's' stops the car: when 's' was the last key acted on and everything    *)
(* posted was taken, neither wheel is driven.                              *)
StopHonoured == (Quiet /\ key = "s") => \A s \in Side : pins[s] = "stop"

(* The same promise in time: after 's' both wheels come to a stop unless   *)
(* the user presses another key.                                           *)
StopTakesEffect ==
  (pc["key"] = "read" /\ key = "s")
    ~> ((\A s \in Side : pins[s] = "stop") \/ key # "s")

(* After 's' the flag that allows 'p', 'n' and 't' is still set. *)
ReportsAllowed == (Quiet /\ key = "s") => flag["stop1"] = 1

(* After 's' the IMU thread, which records while forward1 is 1, is told    *)
(* that the car no longer drives.                                          *)
StopEndsRecording == (Quiet /\ key = "s") => flag["forward1"] # 1

(* 'p' prints a report if stop1 is 1, the IMU thread appends to it while    *)
(* forward1 is 1: the two exclude each other, although five pieces of code *)
(* set and clear them.                                                     *)
ReportsAtRest == Quiet => ~(flag["stop1"] = 1 /\ flag["forward1"] = 1)

(* Both wheels run the same way when no thread is busy. *)
WheelsAgree == Quiet => pins["left"] = pins["right"]

(* The key thread has written the mailbox of side s for the last key. *)
Posted(s) ==
  pc["key"] \notin {"mark", "postRight"} \cup
                  (IF s = "left" THEN {"postLeft"} ELSE {})

DriveKey == {"s", "w", "x"}
DrivePC  == {"testFirst", "testSecond", "clearFirst", "clearSecond", "brake",
             "mark", "drive"}
TracePC  == {"traceDuty", "trace", "offLine", "onLine", "steerLeft",
             "steerRight", "evenLeft", "evenRight"}

(* The last key that drives the car is still to be followed by side s: it  *)
(* will be or is in the mailbox, or it is executed and the pins are not    *)
(* yet set.  A side that traces the line goes on when told to trace it.    *)
Behind(s) ==
  /\ key \in DriveKey
  /\ IF Posted(s)
       THEN \/ pc[s] \in DrivePC
            \/ pc[s] \in {"fetch", "loop"} /\ switchVar[s] # NoCommand
            \/ pc[s] \in TracePC /\ switchVar[s] # TraceLine
       ELSE ~(pc[s] \in TracePC /\ CommandOf(key) = TraceLine)

SidesBehind == {s \in Side : Behind(s)}

(* The order the wheels are under; other keys find them alike.             *)
Order == IF key \in DriveKey THEN PinsOf(CommandOf(key)) ELSE pins["left"]

(* For a patient user the two threads, each with a mailbox of its own,     *)
(* drive the car as one: each order is followed by each wheel once, and    *)
(* nothing else, neither a change of speed nor a turn, mode nor 'q',       *)
(* changes a wheel's direction.                                            *)
Wheels == INSTANCE WheelPair
  WITH Wheel <- Side, Direction <- PinState \ {"brake"}, Braked <- "brake",
       order <- Order, behind <- SidesBehind, wheel <- pins

ImplementsWheels == Wheels!Spec

(* A wheel is never reversed without the short brake in between. *)
BrakeBeforeReverse ==
  [][\A s \in Side : <<pins[s], pins'[s]>> \notin
        {<<"forward", "backward">>, <<"backward", "forward">>}]_pins

(* Outside a command the register of a wheel holds the level the thread    *)
(* keeps for it, also after a turn that was cut short by 'q'.              *)
DutyFollows ==
  \A s \in Side : pc[s] \in {"fetch", "ack", "loop"} /\ pc["main"] = "join"
                    => dat[s] = dutyLevel[s]

(* A turn that was begun ends, however the two threads race on the count. *)
TurnEnds == \A s \in Side : (pc[s] = "slow") ~> (pc[s] = "ack")

(* Why it does: every step of a turn uses up the presses it found counted. *)
(* The rounds that are left grow only when the user presses the key again. *)
TurnPlaces == {"turnTest", "slow", "countRead", "countWrite"}

TurnStepsLeft(s) ==
  CASE pc[s] = "turnTest"   -> 4 * turnCount[s] + 1
    [] pc[s] = "slow"       -> 4 * turnCount[s]
    [] pc[s] = "countRead"  -> 4 * turnCount[s] - 1
    [] pc[s] = "countWrite" -> 4 * reg[s] - 2
    [] OTHER                -> 0

TurnProgress ==
  [][\A s \in Side : pc[s] \in TurnPlaces /\ pc'[s] # pc[s] =>
       TurnStepsLeft(s)' \in 0 .. TurnStepsLeft(s) - 1]_pc

(* Each motor thread steers by writing both wheels' registers.  When       *)
(* neither corrects the course no wheel is left at full level, and when    *)
(* both trace off the line both wheels run at the tracing level.           *)
Correcting(s) == pc[s] \in {"onLine", "steerLeft", "steerRight",
                            "evenLeft", "evenRight"}

SteeringUndone ==
  /\ (\A s \in Side : ~Correcting(s)) => \A s \in Side : dat[s] # PwmRange
  /\ (\A s \in Side : pc[s] \in {"trace", "offLine"})
       => \A s \in Side : dat[s] = TraceDuty

(* 'q' ends the program: every thread leaves its loops and main returns. *)
QuitEnds == done ~> pc["main"] = "exited"

(* Why it does: once done is set each step of a thread takes it nearer to  *)
(* its end.  No command is fetched again, no turn goes on, however many    *)
(* presses are still counted, and no correction of the course is begun.    *)
StepsLeft ==
  [fetch |-> 11, testFirst |-> 10, testSecond |-> 9, clearFirst |-> 8,
   clearSecond |-> 7, brake |-> 6, mark |-> 5, drive |-> 4, traceDuty |-> 3,
   speed |-> 3,
   hold |-> 8, slow |-> 7, countRead |-> 6, countWrite |-> 5, turnTest |-> 4,
   restore |-> 3,
   offLine |-> 8, steerLeft |-> 7, steerRight |-> 6, onLine |-> 5,
   evenLeft |-> 4, evenRight |-> 3, trace |-> 2,
   ack |-> 2, loop |-> 1,
   postRight |-> 2, postLeft |-> 1, record |-> 1, join |-> 1, exited |-> 0]

QuitProgress ==
  [][done => \A t \in Thread :
       pc'[t] # pc[t] => StepsLeft[pc'[t]] < StepsLeft[pc[t]]]_pc
=============================================================================
