--------------------------- MODULE CarDriveProofs ---------------------------
(* What CarDrive guarantees for every key budget and every duty level.     *)
EXTENDS CarDrive, TLAPS

(* A counted turn stays counted until this thread itself takes it off: the *)
(* key thread only ever writes a positive count.                           *)
TurnInv ==
  \A s \in Side :
    /\ pc[s] \in {"slow", "countRead"} => turnCount[s] >= 1
    /\ pc[s] = "countWrite" => reg[s] >= 1

TypeInv == TypeOK /\ TurnInv

LEMMA InitType == Init => TypeInv
<1> SUFFICES ASSUME Init
             PROVE  TypeInv
  OBVIOUS
<1> USE ConstantsAssumption
    DEF Init, Side, Thread, Flag, Command, NoCommand, TraceLine, PinState,
        MotorPC, KeyPC
<1>1. flag \in [Flag -> {-1, 0, 1}] /\ done \in BOOLEAN
  OBVIOUS
<1>2. switchVar \in [Side -> Command] /\ cmd \in [Side -> Command]
  OBVIOUS
<1>3. /\ dutyLevel \in [Side -> 0..PwmRange]
      /\ dutyHold \in [Side -> 0..PwmRange]
      /\ dat \in [Side -> 0..PwmRange]
  OBVIOUS
<1>4. /\ turnCount \in [Side -> Nat]
      /\ pins \in [Side -> PinState]
      /\ reg \in [Side \cup {"key"} -> Nat]
      /\ budget \in [KeyChar -> Nat]
  OBVIOUS
<1>5. /\ pc \in [Thread -> MotorPC \cup KeyPC \cup {"record", "join"}]
      /\ \A s \in Side : pc[s] = "fetch"
      /\ pc["key"] = "read" /\ pc["imu"] = "record" /\ pc["main"] = "join"
  OBVIOUS
<1>6. QED
  BY <1>1, <1>2, <1>3, <1>4, <1>5 DEF TypeInv, TypeOK, TurnInv

LEMMA LevelInRange ==
  ASSUME NEW c, NEW d \in 0..PwmRange
  PROVE  Level(c, d) \in 0..PwmRange
  BY ConstantsAssumption DEF Level

LEMMA CommandOfType == CommandOf(key) \in Command
<1> USE DEF CommandOf, Command, NoCommand, StopCar, Forward, Backward, Faster,
            Slower, TurnLeft, TurnRight, TraceLine
<1>1. CASE key \in {"s", "w", "x"}
  BY <1>1
<1>2. CASE key \in {"i", "j", "a", "d"}
  BY <1>2
<1>3. CASE key \notin {"s", "w", "x", "i", "j", "a", "d"}
  BY <1>3
<1>4. QED
  BY <1>1, <1>2, <1>3

LEMMA MotorType ==
  ASSUME TypeInv, NEW s \in Side, Motor(s)
  PROVE  TypeInv'
<1> USE ConstantsAssumption
    DEF TypeInv, TypeOK, TurnInv, Goto, globals, motors, Side, Thread, Flag,
        PinState, KeyPC, MotorPC
<1>1. CASE Fetch(s)
  BY <1>1 DEF Fetch, Case
<1>2. CASE TestFirst(s)
  BY <1>2 DEF TestFirst
<1>3. CASE TestSecond(s)
  BY <1>3 DEF TestSecond, AfterTests
<1>4. CASE ClearFirst(s)
  BY <1>4 DEF ClearFirst, FirstFlag
<1>5. CASE ClearSecond(s)
  BY <1>5 DEF ClearSecond, SecondFlag
<1>6. CASE Brake(s)
  BY <1>6 DEF Brake, AfterTests
<1>7. CASE MarkForward(s)
  BY <1>7 DEF MarkForward
<1>8. CASE Drive(s)
  BY <1>8 DEF Drive, PinsOf, Backward
<1>9. CASE Speed(s)
  <2>1. Level(cmd[s], dutyLevel[s]) \in 0..PwmRange
    BY LevelInRange
  <2>2. QED
    BY <1>9, <2>1 DEF Speed
<1>10. CASE Hold(s)
  BY <1>10 DEF Hold
<1>11. CASE TurnTest(s)
  BY <1>11 DEF TurnTest
<1>12. CASE SlowWheel(s)
  BY <1>12 DEF SlowWheel
<1>13. CASE ReadCount(s)
  BY <1>13 DEF ReadCount
<1>14. CASE WriteCount(s)
  BY <1>14 DEF WriteCount
<1>15. CASE RestoreDuty(s)
  BY <1>15 DEF RestoreDuty
<1>16. CASE Ack(s)
  BY <1>16 DEF Ack, Command, NoCommand, TraceLine
<1>17. CASE Loop(s)
  BY <1>17 DEF Loop
<1>18. CASE SetTraceDuty(s)
  BY <1>18 DEF SetTraceDuty
<1>19. CASE TraceTest(s)
  BY <1>19 DEF TraceTest
<1>20. ASSUME NEW onLine \in BOOLEAN, LeaveOffLine(s, onLine)
       PROVE  TypeInv'
  BY <1>20 DEF LeaveOffLine
<1>21. ASSUME NEW onLine \in BOOLEAN, OnLineTest(s, onLine)
       PROVE  TypeInv'
  BY <1>21 DEF OnLineTest
<1>22. CASE SteerLeftWheel(s)
  BY <1>22 DEF SteerLeftWheel, SteerDuty
<1>23. CASE SteerRightWheel(s)
  BY <1>23 DEF SteerRightWheel, SteerDuty
<1>24. CASE EvenLeftWheel(s)
  BY <1>24 DEF EvenLeftWheel
<1>25. CASE EvenRightWheel(s)
  BY <1>25 DEF EvenRightWheel
<1>26. QED
  BY <1>1, <1>2, <1>3, <1>4, <1>5, <1>6, <1>7, <1>8, <1>9, <1>10, <1>11,
     <1>12, <1>13, <1>14, <1>15, <1>16, <1>17, <1>18, <1>19, <1>20, <1>21,
     <1>22, <1>23, <1>24, <1>25
     DEF Motor, DriveCase, TurnCase, TraceCase

LEMMA KeyType ==
  ASSUME TypeInv, ThreadKey
  PROVE  TypeInv'
<1> USE DEF TypeInv, TypeOK, TurnInv, Goto, globals, motors, Side, Thread, Flag,
            PinState, KeyPC, MotorPC
<1>1. ASSUME NEW k \in KeyChar, ReadKey(k)
      PROVE  TypeInv'
  BY <1>1 DEF ReadKey, AfterRead, Press
<1>2. ASSUME NEW k \in KeyChar, ReadMode(k)
      PROVE  TypeInv'
  BY <1>2 DEF ReadMode, Press
<1>3. CASE MarkKey
  BY <1>3 DEF MarkKey
<1>4. CASE PostRight
  BY <1>4, CommandOfType DEF PostRight
<1>5. CASE PostLeft
  BY <1>5, CommandOfType DEF PostLeft
<1>6. CASE ReadTurns
  BY <1>6 DEF ReadTurns, Counted
<1>7. CASE WriteTurns
  BY <1>7 DEF WriteTurns, Counted
<1>8. QED
  BY <1>1, <1>2, <1>3, <1>4, <1>5, <1>6, <1>7 DEF ThreadKey, ActOnKey

LEMMA NextType == TypeInv /\ [Next]_vars => TypeInv'
<1> SUFFICES ASSUME TypeInv, [Next]_vars
             PROVE  TypeInv'
  OBVIOUS
<1>1. CASE leftHandle
  BY <1>1, MotorType DEF leftHandle, Side
<1>2. CASE rightHandle
  BY <1>2, MotorType DEF rightHandle, Side
<1>3. CASE ThreadKey
  BY <1>3, KeyType
<1>4. CASE imuHandle
  BY <1>4 DEF imuHandle, TypeInv, TypeOK, TurnInv, Goto, globals, motors, Side,
              Thread, MotorPC, KeyPC
<1>5. CASE main
  BY <1>5, ConstantsAssumption
     DEF main, TypeInv, TypeOK, TurnInv, Goto, globals, Side, Thread, PinState,
         MotorPC, KeyPC
<1>6. CASE UNCHANGED vars
  BY <1>6 DEF vars, TypeInv, TypeOK, TurnInv
<1>7. QED
  BY <1>1, <1>2, <1>3, <1>4, <1>5, <1>6 DEF Next, Terminated

(* Every variable keeps its type; the duty levels stay within the PWM      *)
(* range and the turn counters never go negative, however often and in     *)
(* whatever order the key thread and the motor threads update them.        *)
THEOREM TypeCorrect == Spec => []TypeOK
<1>1. Init => TypeInv
  BY InitType
<1>2. TypeInv /\ [Next]_vars => TypeInv'
  BY NextType
<1>3. TypeInv => TypeOK
  BY DEF TypeInv
<1>4. QED
  BY <1>1, <1>2, <1>3, PTL DEF Spec
-----------------------------------------------------------------------------
(* What a step of one thread leaves alone.                                 *)

SideFrame(t) ==
  /\ pc'[t] = pc[t]
  /\ switchVar'[t] = switchVar[t]
  /\ cmd'[t] = cmd[t]
  /\ pins'[t] = pins[t]
  /\ dutyLevel'[t] = dutyLevel[t]
  /\ dutyHold'[t] = dutyHold[t]

LEMMA MotorFrame ==
  ASSUME TypeInv, NEW s \in Side, Motor(s)
  PROVE  /\ pc[s] # "exited"
         /\ \A t \in Thread \ {s} : pc'[t] = pc[t]
         /\ \A t \in Side \ {s} : SideFrame(t)
         /\ UNCHANGED <<done, mode, key, budget>>
<1> USE DEF TypeInv, TypeOK, Goto, globals, motors, Side, Thread, SideFrame
<1>1. CASE Fetch(s) \/ Ack(s) \/ Loop(s) \/ Speed(s)
  BY <1>1 DEF Fetch, Ack, Loop, Speed
<1>2. CASE DriveCase(s)
  BY <1>2 DEF DriveCase, TestFirst, TestSecond, ClearFirst, ClearSecond, Brake,
              MarkForward, Drive
<1>3. CASE TurnCase(s)
  BY <1>3 DEF TurnCase, Hold, TurnTest, SlowWheel, ReadCount, WriteCount,
              RestoreDuty
<1>4. CASE TraceCase(s)
  BY <1>4 DEF TraceCase, SetTraceDuty, TraceTest, LeaveOffLine, OnLineTest,
              SteerLeftWheel, SteerRightWheel, EvenLeftWheel, EvenRightWheel
<1>5. QED
  BY <1>1, <1>2, <1>3, <1>4 DEF Motor

LEMMA KeyFrame ==
  ASSUME TypeInv, ThreadKey
  PROVE  /\ pc["key"] # "exited"
         /\ \A t \in Thread \ {"key"} : pc'[t] = pc[t]
         /\ UNCHANGED <<motors, cmd>>
<1> USE DEF TypeInv, TypeOK, Goto, globals, motors, Side, Thread
<1>1. ASSUME NEW k \in KeyChar, ReadKey(k) \/ ReadMode(k)
      PROVE  /\ pc["key"] # "exited"
             /\ \A t \in Thread \ {"key"} : pc'[t] = pc[t]
             /\ UNCHANGED <<motors, cmd>>
  BY <1>1 DEF ReadKey, ReadMode
<1>2. CASE ActOnKey
  BY <1>2 DEF ActOnKey, MarkKey, PostRight, PostLeft, ReadTurns, WriteTurns
<1>3. QED
  BY <1>1, <1>2 DEF ThreadKey

-----------------------------------------------------------------------------
(* Once main has returned every thread has ended, so that no later write   *)
(* can drive the wheels again.                                             *)
StoppedInv ==
  /\ TypeInv
  /\ pc["main"] = "exited" => Joined
  /\ StoppedAtExit

LEMMA StoppedNext == StoppedInv /\ [Next]_vars => StoppedInv'
<1> SUFFICES ASSUME StoppedInv, [Next]_vars
             PROVE  StoppedInv'
  OBVIOUS
<1>1. TypeInv /\ TypeInv'
  BY NextType DEF StoppedInv
<1> USE DEF StoppedInv, StoppedAtExit, Joined, Thread, Side
<1>2. CASE leftHandle
  BY <1>1, <1>2, MotorFrame DEF leftHandle
<1>3. CASE rightHandle
  BY <1>1, <1>3, MotorFrame DEF rightHandle
<1>4. CASE ThreadKey
  BY <1>1, <1>4, KeyFrame
<1>5. CASE imuHandle
  BY <1>1, <1>5 DEF imuHandle, Goto
<1>6. CASE main
  BY <1>1, <1>6 DEF main, Goto, TypeInv, TypeOK
<1>7. CASE UNCHANGED vars
  BY <1>1, <1>7 DEF vars
<1>8. QED
  BY <1>2, <1>3, <1>4, <1>5, <1>6, <1>7 DEF Next, Terminated

LEMMA InitStopped == Init => StoppedInv
  BY InitType DEF Init, StoppedInv, StoppedAtExit, Thread, Side

(* The car is stopped when the program ends, for every use of the keys.    *)
THEOREM CarStoppedAtExit == Spec => []StoppedAtExit
<1>1. Init => StoppedInv
  BY InitStopped
<1>2. StoppedInv /\ [Next]_vars => StoppedInv'
  BY StoppedNext
<1>3. StoppedInv => StoppedAtExit
  BY DEF StoppedInv
<1>4. QED
  BY <1>1, <1>2, <1>3, PTL DEF Spec

-----------------------------------------------------------------------------
(* A session that never enters manual driving: the user presses no '1'.    *)

(* The key thread posts only stop, line tracing and, for 'q', no command. *)
TraceKeysOnly ==
  /\ budget["1"] = 0
  /\ mode # "m1"
  /\ key \in {"none", "q", "s", "w"}
  /\ pc["key"] \in {"mark", "postRight", "postLeft"} => key # "none"
  /\ pc["key"] \in {"mark", "postRight", "postLeft"} /\ key = "w" => mode = "m2"
  /\ pc["key"] \notin {"countRead", "countWrite"}

(* A motor thread executes nothing else, and acknowledges only a stop. *)
TraceCommandsOnly(s) ==
  /\ switchVar[s] \in {NoCommand, StopCar, TraceLine}
  /\ pc[s] \notin {"speed", "hold", "turnTest", "slow", "countRead",
                   "countWrite", "restore"}
  /\ pc[s] \in {"testFirst", "testSecond", "clearFirst", "clearSecond",
                "brake", "mark", "drive"} => cmd[s] \in {StopCar, TraceLine}
  /\ pc[s] = "ack" => pins[s] = "stop"

(* A posted stop stays in the mailbox until a stop was executed, and what  *)
(* clears it then leaves the thread with nothing to do.                    *)
StopPending(s) ==
  key = "s" /\ Posted(s) =>
    \/ switchVar[s] = StopCar
    \/ /\ switchVar[s] = NoCommand
       /\ pc[s] \in {"fetch", "loop", "exited"}
       /\ pins[s] = "stop"

TraceInv ==
  /\ TypeInv
  /\ TraceKeysOnly
  /\ \A s \in Side : TraceCommandsOnly(s) /\ StopPending(s)

LEMMA TraceMotor ==
  ASSUME TraceInv, TypeInv', NEW s \in Side, Motor(s)
  PROVE  TraceInv'
<1>1. /\ \A t \in Thread \ {s} : pc'[t] = pc[t]
      /\ \A t \in Side \ {s} : SideFrame(t)
      /\ UNCHANGED <<done, mode, key, budget>>
  BY MotorFrame DEF TraceInv
<1>2. TraceKeysOnly'
  BY <1>1 DEF TraceInv, TraceKeysOnly, Thread, Side
<1>3. ASSUME NEW t \in Side \ {s}
      PROVE  (TraceCommandsOnly(t) /\ StopPending(t))'
  BY <1>1, <1>3 DEF TraceInv, TraceCommandsOnly, StopPending, Posted, SideFrame,
                    Thread, Side
<1>4. (TraceCommandsOnly(s) /\ StopPending(s))'
  <2>1. Posted(s)' = Posted(s) /\ key' = key
    BY <1>1 DEF Posted, Thread, Side
  <2>2. TraceCommandsOnly(s) /\ StopPending(s) /\ TypeInv
    BY DEF TraceInv
  <2> USE <2>1, <2>2
      DEF TraceCommandsOnly, StopPending, TypeInv, TypeOK, Goto, globals, motors,
          Thread, NoCommand, StopCar, TraceLine
  <2>3. CASE Fetch(s)
    <3>1. Case(s, switchVar[s]) \in {"testFirst", "loop"}
      BY DEF Case, Forward, Backward, Faster, Slower, TurnCommand, OtherSide,
             TurnLeft, TurnRight
    <3>2. switchVar[s] = NoCommand => Case(s, switchVar[s]) = "loop"
      BY DEF Case, Forward, Backward, Faster, Slower, TurnCommand, OtherSide,
             TurnLeft, TurnRight
    <3>3. switchVar[s] # NoCommand => switchVar[s] \in {StopCar, TraceLine}
      OBVIOUS
    <3>4. QED
      BY <2>3, <3>1, <3>2, <3>3 DEF Fetch
  <2>4. CASE DriveCase(s)
    <3>1. CASE TestFirst(s) \/ TestSecond(s)
      BY <3>1 DEF TestFirst, TestSecond, AfterTests
    <3>2. CASE ClearFirst(s) \/ ClearSecond(s) \/ MarkForward(s)
      BY <3>2 DEF ClearFirst, ClearSecond, MarkForward
    <3>3. CASE Brake(s)
      BY <3>3 DEF Brake, AfterTests
    <3>4. CASE Drive(s)
      <4>1. cmd[s] # TraceLine => PinsOf(cmd[s]) = "stop"
        BY <3>4 DEF Drive, PinsOf, Backward
      <4>2. QED
        BY <3>4, <4>1 DEF Drive
    <3>5. QED
      BY <2>4, <3>1, <3>2, <3>3, <3>4 DEF DriveCase
  <2>5. CASE Speed(s) \/ TurnCase(s)
    BY <2>5 DEF Speed, TurnCase, Hold, TurnTest, SlowWheel, ReadCount,
                WriteCount, RestoreDuty
  <2>6. CASE TraceCase(s)
    BY <2>6 DEF TraceCase, SetTraceDuty, TraceTest, LeaveOffLine, OnLineTest,
                SteerLeftWheel, SteerRightWheel, EvenLeftWheel, EvenRightWheel
  <2>7. CASE Ack(s) \/ Loop(s)
    BY <2>7 DEF Ack, Loop
  <2>8. QED
    BY <2>3, <2>4, <2>5, <2>6, <2>7 DEF Motor
<1>5. QED
  BY <1>2, <1>3, <1>4 DEF TraceInv

LEMMA TraceKey ==
  ASSUME TraceInv, TypeInv', ThreadKey
  PROVE  TraceInv'
<1>1. (\A t \in Thread \ {"key"} : pc'[t] = pc[t]) /\ UNCHANGED <<motors, cmd>>
  BY KeyFrame DEF TraceInv
<1> USE <1>1 DEF TraceInv, TraceKeysOnly, TraceCommandsOnly, StopPending, Posted,
                 TypeInv, TypeOK, Goto, globals, motors, Thread, Side, NoCommand,
                 StopCar, TraceLine
<1>2. ASSUME NEW k \in KeyChar, ReadKey(k)
      PROVE  TraceInv'
  <2>1. k # "1" /\ budget'["1"] = 0
    BY <1>2 DEF ReadKey, Press, KeyChar
  <2>2. Accepted(k) => k \in {"q", "s", "w"} /\ (k = "w" => mode = "m2")
    BY DEF Accepted
  <2>3. CASE Accepted(k)
    BY <1>2, <2>1, <2>2, <2>3 DEF ReadKey, AfterRead
  <2>4. CASE ~Accepted(k)
    <3>1. pc["key"] = "read" /\ pc'["key"] \in {"mode", "read"} /\ key' = key
      BY <1>2, <2>4 DEF ReadKey, AfterRead
    <3>2. UNCHANGED <<globals, motors, cmd, reg>>
      BY <1>2 DEF ReadKey
    <3>3. QED
      BY <2>1, <3>1, <3>2
  <2>5. QED
    BY <2>3, <2>4
<1>3. ASSUME NEW k \in KeyChar, ReadMode(k)
      PROVE  TraceInv'
  <2>1. k # "1" /\ budget'["1"] = 0
    BY <1>3 DEF ReadMode, Press, KeyChar
  <2>2. mode' # "m1"
    BY <1>3, <2>1 DEF ReadMode
  <2>3. QED
    BY <1>3, <2>1, <2>2 DEF ReadMode
<1>4. CASE MarkKey
  BY <1>4 DEF MarkKey
<1>5. pc["key"] \in {"postRight", "postLeft"} =>
        /\ CommandOf(key) \in {NoCommand, StopCar, TraceLine}
        /\ key = "s" => CommandOf(key) = StopCar
  BY DEF CommandOf
<1>6. CASE PostRight
  BY <1>5, <1>6 DEF PostRight
<1>7. CASE PostLeft
  BY <1>5, <1>7 DEF PostLeft
<1>8. CASE ReadTurns \/ WriteTurns
  BY <1>8 DEF ReadTurns, WriteTurns
<1>9. QED
  BY <1>2, <1>3, <1>4, <1>6, <1>7, <1>8 DEF ThreadKey, ActOnKey

LEMMA TraceNext == TraceInv /\ [Next]_vars => TraceInv'
<1> SUFFICES ASSUME TraceInv, [Next]_vars
             PROVE  TraceInv'
  OBVIOUS
<1>1. TypeInv /\ TypeInv'
  BY NextType DEF TraceInv
<1>2. CASE leftHandle
  BY <1>1, <1>2, TraceMotor DEF leftHandle, Side
<1>3. CASE rightHandle
  BY <1>1, <1>3, TraceMotor DEF rightHandle, Side
<1>4. CASE ThreadKey
  BY <1>1, <1>4, TraceKey
<1> USE <1>1 DEF TraceInv, TraceKeysOnly, TraceCommandsOnly, StopPending, Posted
<1>5. CASE imuHandle
  BY <1>5 DEF imuHandle, Goto, globals, motors, TypeInv, TypeOK, Side, Thread
<1>6. CASE main
  BY <1>6 DEF main, Joined, Goto, globals, TypeInv, TypeOK, Side, Thread
<1>7. CASE UNCHANGED vars
  BY <1>7 DEF vars
<1>8. QED
  BY <1>2, <1>3, <1>4, <1>5, <1>6, <1>7 DEF Next, Terminated

LEMMA InitTrace ==
  ASSUME Budget["1"] = 0, Init
  PROVE  TraceInv
<1>1. TypeInv
  BY InitType
<1>2. QED
  BY <1>1 DEF Init, TraceInv, TraceKeysOnly, TraceCommandsOnly, StopPending,
              Side, Thread

(* In a session without manual driving 's' stops the car, whatever the     *)
(* motor threads are doing when it is pressed and however fast the keys    *)
(* follow each other.                                                      *)
THEOREM TraceStopHonoured ==
  ASSUME Budget["1"] = 0
  PROVE  Spec => []StopHonoured
<1>1. Init => TraceInv
  BY InitTrace
<1>2. TraceInv /\ [Next]_vars => TraceInv'
  BY TraceNext
<1>3. TraceInv => StopHonoured
  BY DEF TraceInv, StopPending, Posted, StopHonoured, Quiet, Settled, NoCommand,
         StopCar, TraceLine
<1>4. QED
  BY <1>1, <1>2, <1>3, PTL DEF Spec

-----------------------------------------------------------------------------
(* Steering.  A thread that corrects the course owes a wheel the level it  *)
(* had: until it has set it back the wheel may have any level.             *)

Tracers == {"trace", "offLine", "onLine", "steerLeft", "steerRight",
            "evenLeft", "evenRight"}

Owes(s, w) ==
  pc[s] \in {"onLine", "steerLeft", "steerRight", "evenLeft"} \cup
            (IF w = "right" THEN {"evenRight"} ELSE {})

Owed(w) == \E s \in Side : Owes(s, w)

SteerInv ==
  \A w \in Side :
    /\ Owed(w) \/ dat[w] \in {0, TraceDuty}
    /\ pc[w] \in Tracers => Owed(w) \/ dat[w] = TraceDuty

LEMMA SteerMotor ==
  ASSUME TraceInv, SteerInv, NEW s \in Side, Motor(s)
  PROVE  SteerInv'
<1>1. /\ TypeInv
      /\ TraceCommandsOnly(s)
  BY DEF TraceInv
<1>2. \A t \in Side \ {s} : pc'[t] = pc[t]
  BY <1>1, MotorFrame DEF Thread, Side
<1> USE <1>1, <1>2
    DEF TraceCommandsOnly, TypeInv, TypeOK, SteerInv, Owed, Owes, Tracers, Goto,
        globals, motors, Side, Thread
<1>3. CASE Fetch(s)
  BY <1>3 DEF Fetch, Case
<1>4. CASE DriveCase(s)
  BY <1>4 DEF DriveCase, TestFirst, TestSecond, ClearFirst, ClearSecond, Brake,
              MarkForward, Drive, AfterTests
<1>5. CASE Speed(s) \/ TurnCase(s)
  BY <1>5 DEF Speed, TurnCase, Hold, TurnTest, SlowWheel, ReadCount, WriteCount,
              RestoreDuty
<1>6. CASE SetTraceDuty(s)
  BY <1>6 DEF SetTraceDuty
<1>7. CASE TraceTest(s)
  BY <1>7 DEF TraceTest
<1>8. ASSUME NEW onLine \in BOOLEAN, LeaveOffLine(s, onLine) \/ OnLineTest(s, onLine)
      PROVE  SteerInv'
  BY <1>8 DEF LeaveOffLine, OnLineTest
<1>9. CASE SteerLeftWheel(s) \/ SteerRightWheel(s)
  BY <1>9 DEF SteerLeftWheel, SteerRightWheel
<1>10. CASE EvenLeftWheel(s)
  BY <1>10 DEF EvenLeftWheel
<1>11. CASE EvenRightWheel(s)
  BY <1>11 DEF EvenRightWheel
<1>12. CASE Ack(s) \/ Loop(s)
  BY <1>12 DEF Ack, Loop
<1>13. QED
  BY <1>3, <1>4, <1>5, <1>6, <1>7, <1>8, <1>9, <1>10, <1>11, <1>12
     DEF Motor, TraceCase

LEMMA SteerNext == TraceInv /\ SteerInv /\ [Next]_vars => SteerInv'
<1> SUFFICES ASSUME TraceInv, SteerInv, [Next]_vars
             PROVE  SteerInv'
  OBVIOUS
<1>1. CASE leftHandle
  BY <1>1, SteerMotor DEF leftHandle, Side
<1>2. CASE rightHandle
  BY <1>2, SteerMotor DEF rightHandle, Side
<1> USE DEF SteerInv, Owed, Owes, Tracers, Side, Thread
<1>3. CASE ThreadKey
  <2>1. (\A t \in Side : pc'[t] = pc[t]) /\ dat' = dat
    BY <1>3, KeyFrame DEF TraceInv, motors
  <2>2. QED
    BY <2>1
<1>4. CASE imuHandle
  BY <1>4 DEF imuHandle, Goto, motors, TraceInv, TypeInv, TypeOK
<1>5. CASE main
  BY <1>5 DEF main, Joined, Goto, TraceInv, TypeInv, TypeOK
<1>6. CASE UNCHANGED vars
  BY <1>6 DEF vars
<1>7. QED
  BY <1>1, <1>2, <1>3, <1>4, <1>5, <1>6 DEF Next, Terminated

(* Without manual driving the two threads' corrections always cancel out:  *)
(* although each writes both registers, between two of the other's writes, *)
(* no wheel is left at full level or stopped.                              *)
THEOREM CorrectionsUndone ==
  ASSUME Budget["1"] = 0, TraceDuty < PwmRange
  PROVE  Spec => []SteeringUndone
<1>1. Init => TraceInv
  BY InitTrace
<1>2. Init => SteerInv
  BY DEF Init, SteerInv, Tracers, Side, Thread
<1>3. TraceInv /\ [Next]_vars => TraceInv'
  BY TraceNext
<1>4. TraceInv /\ SteerInv /\ [Next]_vars => SteerInv'
  BY SteerNext
<1>5. SteerInv => SteeringUndone
  BY ConstantsAssumption
     DEF SteerInv, Owed, Owes, Tracers, SteeringUndone, Correcting, Side
<1>6. QED
  BY <1>1, <1>2, <1>3, <1>4, <1>5, PTL DEF Spec

-----------------------------------------------------------------------------
(* A session that never traces the line: the user presses no '2'.          *)

ManualOnly ==
  /\ budget["2"] = 0
  /\ mode # "m2"
  /\ \A s \in Side : switchVar[s] # TraceLine

Turning == {"turnTest", "slow", "countRead", "countWrite", "restore"}

(* Only a turn moves the register away from the level of its wheel, and    *)
(* what it will restore is that level, which nothing else changes then.    *)
WheelInv(s) ==
  /\ pc[s] \notin Tracers \cup {"mark", "traceDuty"}
  /\ pc[s] \in {"testFirst", "testSecond", "clearFirst", "clearSecond",
                "brake", "drive"} => cmd[s] # TraceLine
  /\ pc[s] \notin Turning /\ pc["main"] = "join" => dat[s] = dutyLevel[s]
  /\ pc[s] \in Turning => dutyHold[s] = dutyLevel[s]

DutyInv ==
  /\ TypeInv
  /\ ManualOnly
  /\ \A s \in Side : WheelInv(s)

LEMMA DutyMotor ==
  ASSUME DutyInv, TypeInv', NEW s \in Side, Motor(s), pc["main"] = "join"
  PROVE  DutyInv'
<1>1. /\ \A t \in Thread \ {s} : pc'[t] = pc[t]
      /\ \A t \in Side \ {s} : SideFrame(t)
      /\ UNCHANGED <<done, mode, key, budget>>
  BY MotorFrame DEF DutyInv
<1>2. TypeInv /\ ManualOnly /\ \A t \in Side : WheelInv(t)
  BY DEF DutyInv
<1> USE <1>2 DEF TypeInv, TypeOK, WheelInv, Tracers, Turning, Goto, globals, motors,
                 Thread, Side
<1>3. CASE Fetch(s)
  <2>1. Case(s, switchVar[s]) \notin Tracers \cup Turning \cup {"mark", "traceDuty"}
    BY DEF Case
  <2>2. QED
    BY <1>1, <1>3, <2>1 DEF Fetch, DutyInv, ManualOnly
<1>4. CASE DriveCase(s)
  BY <1>1, <1>4 DEF DriveCase, TestFirst, TestSecond, ClearFirst, ClearSecond,
                    Brake, MarkForward, Drive, AfterTests, DutyInv, ManualOnly
<1>5. CASE Speed(s)
  BY <1>1, <1>5 DEF Speed, DutyInv, ManualOnly
<1>6. CASE TurnCase(s)
  BY <1>1, <1>6 DEF TurnCase, Hold, TurnTest, SlowWheel, ReadCount, WriteCount,
                    RestoreDuty, DutyInv, ManualOnly
<1>7. CASE TraceCase(s)
  BY <1>7 DEF TraceCase, SetTraceDuty, TraceTest, LeaveOffLine, OnLineTest,
              SteerLeftWheel, SteerRightWheel, EvenLeftWheel, EvenRightWheel
<1>8. CASE Ack(s) \/ Loop(s)
  BY <1>1, <1>8 DEF Ack, Loop, DutyInv, ManualOnly, NoCommand, TraceLine
<1>9. QED
  BY <1>3, <1>4, <1>5, <1>6, <1>7, <1>8 DEF Motor

LEMMA DutyKey ==
  ASSUME DutyInv, TypeInv', ThreadKey
  PROVE  DutyInv'
<1>1. (\A t \in Thread \ {"key"} : pc'[t] = pc[t]) /\ UNCHANGED <<motors, cmd>>
  BY KeyFrame DEF DutyInv
<1>2. (\A s \in Side : WheelInv(s))'
  BY <1>1 DEF DutyInv, WheelInv, motors, Thread, Side
<1>3. ManualOnly'
  <2> USE DEF DutyInv, ManualOnly, TypeInv, TypeOK, globals, Side
  <2>1. ASSUME NEW k \in KeyChar, ReadKey(k)
        PROVE  ManualOnly'
    BY <2>1 DEF ReadKey, Press, KeyChar
  <2>2. ASSUME NEW k \in KeyChar, ReadMode(k)
        PROVE  ManualOnly'
    BY <2>2 DEF ReadMode, Press, KeyChar
  <2>3. CommandOf(key) # TraceLine
    BY DEF CommandOf, StopCar, Forward, Backward, Faster, Slower, TurnLeft,
           TurnRight, TraceLine, NoCommand
  <2>4. CASE MarkKey \/ ReadTurns \/ WriteTurns
    BY <2>4 DEF MarkKey, ReadTurns, WriteTurns
  <2>5. CASE PostRight \/ PostLeft
    BY <2>3, <2>5 DEF PostRight, PostLeft
  <2>6. QED
    BY <2>1, <2>2, <2>4, <2>5 DEF ThreadKey, ActOnKey
<1>4. QED
  BY <1>2, <1>3 DEF DutyInv

LEMMA DutyNext == StoppedInv /\ DutyInv /\ [Next]_vars => DutyInv'
<1> SUFFICES ASSUME StoppedInv, DutyInv, [Next]_vars
             PROVE  DutyInv'
  OBVIOUS
<1>1. TypeInv /\ TypeInv'
  BY NextType DEF DutyInv
<1>2. ASSUME NEW s \in Side, Motor(s)
      PROVE  pc["main"] = "join"
  BY <1>1, <1>2, MotorFrame DEF StoppedInv, Joined, TypeInv, TypeOK, Thread, Side
<1>3. CASE leftHandle
  BY <1>1, <1>2, <1>3, DutyMotor DEF leftHandle, Side
<1>4. CASE rightHandle
  BY <1>1, <1>2, <1>4, DutyMotor DEF rightHandle, Side
<1>5. CASE ThreadKey
  BY <1>1, <1>5, DutyKey
<1> USE <1>1 DEF DutyInv, ManualOnly, WheelInv, Tracers, Turning, Side, Thread
<1>6. CASE imuHandle
  BY <1>6 DEF imuHandle, Goto, globals, motors, TypeInv, TypeOK
<1>7. CASE main
  BY <1>7 DEF main, Joined, Goto, globals, TypeInv, TypeOK
<1>8. CASE UNCHANGED vars
  BY <1>8 DEF vars
<1>9. QED
  BY <1>3, <1>4, <1>5, <1>6, <1>7, <1>8 DEF Next, Terminated

(* In a session without line tracing the register of a wheel is back at    *)
(* the wheel's level whenever its thread is between commands, whatever     *)
(* turns were typed, and also when 'q' cut one short.                      *)
THEOREM TurnsRestoreDuty ==
  ASSUME Budget["2"] = 0
  PROVE  Spec => []DutyFollows
<1>1. Init => StoppedInv
  BY InitStopped
<1>2. Init => DutyInv
  BY InitType DEF Init, DutyInv, ManualOnly, WheelInv, Tracers, Turning, Side,
                  Thread, NoCommand, TraceLine
<1>3. StoppedInv /\ [Next]_vars => StoppedInv'
  BY StoppedNext
<1>4. StoppedInv /\ DutyInv /\ [Next]_vars => DutyInv'
  BY DutyNext
<1>5. DutyInv => DutyFollows
  BY DEF DutyInv, WheelInv, Turning, DutyFollows
<1>6. QED
  BY <1>1, <1>2, <1>3, <1>4, <1>5, PTL DEF Spec

-----------------------------------------------------------------------------
(* Quitting.  Only 'q' sets done, and the key thread then reads no other.  *)
QuitInv ==
  /\ TypeInv
  /\ done => key = "q" /\ pc["key"] \in {"postRight", "postLeft", "exited"}

LEMMA QuitNext == QuitInv /\ [Next]_vars => QuitInv'
<1> SUFFICES ASSUME QuitInv, [Next]_vars
             PROVE  QuitInv'
  OBVIOUS
<1>1. TypeInv /\ TypeInv'
  BY NextType DEF QuitInv
<1> USE <1>1 DEF QuitInv
<1>2. ASSUME NEW s \in Side, Motor(s)
      PROVE  QuitInv'
  BY <1>2, MotorFrame DEF Thread, Side
<1>3. CASE ThreadKey
  <2> USE DEF Goto, globals, TypeInv, TypeOK, Thread
  <2>1. ASSUME NEW k \in KeyChar, ReadKey(k) \/ ReadMode(k)
        PROVE  QuitInv'
    BY <2>1 DEF ReadKey, ReadMode
  <2>2. CASE MarkKey
    BY <2>2 DEF MarkKey
  <2>3. CASE PostRight \/ PostLeft
    BY <2>3 DEF PostRight, PostLeft
  <2>4. CASE ReadTurns \/ WriteTurns
    BY <2>4 DEF ReadTurns, WriteTurns
  <2>5. QED
    BY <1>3, <2>1, <2>2, <2>3, <2>4 DEF ThreadKey, ActOnKey
<1>4. CASE imuHandle \/ main
  BY <1>4 DEF imuHandle, main, Goto, globals, TypeInv, TypeOK, Thread
<1>5. CASE UNCHANGED vars
  BY <1>5 DEF vars
<1>6. QED
  BY <1>2, <1>3, <1>4, <1>5 DEF Next, leftHandle, rightHandle, Side, Terminated

Nearer(t) == pc'[t] # pc[t] => StepsLeft[pc'[t]] < StepsLeft[pc[t]]

LEMMA Ranks ==
  /\ StepsLeft["fetch"] = 11 /\ StepsLeft["testFirst"] = 10
  /\ StepsLeft["testSecond"] = 9 /\ StepsLeft["clearFirst"] = 8
  /\ StepsLeft["clearSecond"] = 7 /\ StepsLeft["brake"] = 6
  /\ StepsLeft["mark"] = 5 /\ StepsLeft["drive"] = 4
  /\ StepsLeft["traceDuty"] = 3 /\ StepsLeft["speed"] = 3
  /\ StepsLeft["hold"] = 8 /\ StepsLeft["slow"] = 7
  /\ StepsLeft["countRead"] = 6 /\ StepsLeft["countWrite"] = 5
  /\ StepsLeft["turnTest"] = 4 /\ StepsLeft["restore"] = 3
  /\ StepsLeft["offLine"] = 8 /\ StepsLeft["steerLeft"] = 7
  /\ StepsLeft["steerRight"] = 6 /\ StepsLeft["onLine"] = 5
  /\ StepsLeft["evenLeft"] = 4 /\ StepsLeft["evenRight"] = 3
  /\ StepsLeft["trace"] = 2 /\ StepsLeft["ack"] = 2
  /\ StepsLeft["loop"] = 1 /\ StepsLeft["postRight"] = 2
  /\ StepsLeft["postLeft"] = 1 /\ StepsLeft["record"] = 1
  /\ StepsLeft["join"] = 1 /\ StepsLeft["exited"] = 0
  BY DEF StepsLeft

LEMMA MotorNearer ==
  ASSUME TypeInv, NEW s \in Side, Motor(s), done
  PROVE  Nearer(s)
<1>1. ASSUME NEW from, NEW to, Goto(s, from, to), StepsLeft[to] < StepsLeft[from]
      PROVE  Nearer(s)
  BY <1>1 DEF Goto, Nearer, TypeInv, TypeOK, Thread
<1> USE Ranks
<1>2. CASE Fetch(s)
  <2>1. StepsLeft[Case(s, switchVar[s])] < 11
    BY DEF Case
  <2>2. QED
    BY <1>1, <1>2, <2>1 DEF Fetch
<1>3. CASE TestFirst(s)
  BY <1>1, <1>3 DEF TestFirst
<1>4. CASE TestSecond(s)
  BY <1>1, <1>4 DEF TestSecond, AfterTests
<1>5. CASE ClearFirst(s)
  BY <1>1, <1>5 DEF ClearFirst
<1>6. CASE ClearSecond(s)
  BY <1>1, <1>6 DEF ClearSecond
<1>7. CASE Brake(s)
  BY <1>1, <1>7 DEF Brake, AfterTests
<1>8. CASE MarkForward(s)
  BY <1>1, <1>8 DEF MarkForward
<1>9. CASE Drive(s)
  BY <1>1, <1>9 DEF Drive
<1>10. CASE Speed(s)
  BY <1>1, <1>10 DEF Speed
<1>11. CASE Hold(s)
  BY <1>1, <1>11 DEF Hold
<1>12. CASE TurnTest(s)
  BY <1>1, <1>12 DEF TurnTest
<1>13. CASE SlowWheel(s)
  BY <1>1, <1>13 DEF SlowWheel
<1>14. CASE ReadCount(s)
  BY <1>1, <1>14 DEF ReadCount
<1>15. CASE WriteCount(s)
  BY <1>1, <1>15 DEF WriteCount
<1>16. CASE RestoreDuty(s)
  BY <1>1, <1>16 DEF RestoreDuty
<1>17. CASE Ack(s)
  BY <1>1, <1>17 DEF Ack
<1>18. CASE Loop(s)
  BY <1>1, <1>18 DEF Loop
<1>19. CASE SetTraceDuty(s)
  BY <1>1, <1>19 DEF SetTraceDuty
<1>20. CASE TraceTest(s)
  BY <1>1, <1>20 DEF TraceTest, Tracing
<1>21. CASE SteerLeftWheel(s)
  BY <1>1, <1>21 DEF SteerLeftWheel
<1>22. CASE SteerRightWheel(s)
  BY <1>1, <1>22 DEF SteerRightWheel
<1>23. CASE EvenLeftWheel(s)
  BY <1>1, <1>23 DEF EvenLeftWheel
<1>24. CASE EvenRightWheel(s)
  BY <1>1, <1>24 DEF EvenRightWheel
<1>25. ASSUME NEW onLine \in BOOLEAN, LeaveOffLine(s, onLine)
       PROVE  Nearer(s)
  BY <1>1, <1>25 DEF LeaveOffLine, Tracing
<1>26. ASSUME NEW onLine \in BOOLEAN, OnLineTest(s, onLine)
       PROVE  Nearer(s)
  BY <1>1, <1>26 DEF OnLineTest, Tracing
<1>27. QED
  BY <1>2, <1>3, <1>4, <1>5, <1>6, <1>7, <1>8, <1>9, <1>10, <1>11, <1>12,
     <1>13, <1>14, <1>15, <1>16, <1>17, <1>18, <1>19, <1>20, <1>21, <1>22,
     <1>23, <1>24, <1>25, <1>26
     DEF Motor, DriveCase, TurnCase, TraceCase

LEMMA QuitStep ==
  ASSUME QuitInv, [Next]_vars, done, NEW t \in Thread
  PROVE  Nearer(t)
<1> USE DEF QuitInv
<1>1. ASSUME NEW s \in Side, Motor(s)
      PROVE  Nearer(t)
  <2>1. CASE t = s
    BY <1>1, <2>1, MotorNearer
  <2>2. CASE t # s
    BY <1>1, <2>2, MotorFrame DEF Nearer
  <2>3. QED
    BY <2>1, <2>2
<1>2. CASE ThreadKey
  <2>1. t # "key" => Nearer(t)
    BY <1>2, KeyFrame DEF Nearer
  <2>2. ASSUME NEW k \in KeyChar
        PROVE  ~ReadKey(k) /\ ~ReadMode(k)
    BY DEF ReadKey, ReadMode, Goto
  <2>3. pc \in [Thread -> MotorPC \cup KeyPC \cup {"record", "join"}]
    BY DEF TypeInv, TypeOK
  <2>4. CASE PostRight
    BY <2>1, <2>3, <2>4, Ranks DEF PostRight, Goto, Nearer, Thread
  <2>5. CASE PostLeft
    BY <2>1, <2>3, <2>5, Ranks DEF PostLeft, Goto, Nearer, Thread
  <2>6. ~MarkKey /\ ~ReadTurns /\ ~WriteTurns
    BY DEF MarkKey, ReadTurns, WriteTurns, Goto
  <2>7. QED
    BY <1>2, <2>2, <2>4, <2>5, <2>6 DEF ThreadKey, ActOnKey
<1>3. CASE imuHandle \/ main
  BY <1>3, Ranks DEF imuHandle, main, Goto, Nearer, TypeInv, TypeOK, Thread, Side
<1>4. CASE UNCHANGED vars
  BY <1>4 DEF vars, Nearer
<1>5. QED
  BY <1>1, <1>2, <1>3, <1>4 DEF Next, leftHandle, rightHandle, Side, Terminated

(* 'q' is final: after it no thread ever goes back, neither to its next    *)
(* command nor to the next round of a turn, whatever is still in the       *)
(* mailboxes and the counters.  With the schedule the runs assume, that is *)
(* why the program ends; the bound on the steps needs no schedule.         *)
THEOREM QuitNeverTurnsBack == Spec => QuitProgress
<1>1. Init => QuitInv
  BY InitType DEF Init, QuitInv
<1>2. QuitInv /\ [Next]_vars => QuitInv'
  BY QuitNext
<1>3. QuitInv /\ [Next]_vars =>
        [done => \A t \in Thread :
           pc'[t] # pc[t] => StepsLeft[pc'[t]] < StepsLeft[pc[t]]]_pc
  BY QuitStep DEF Nearer
<1>4. QED
  BY <1>1, <1>2, <1>3, PTL DEF Spec, QuitProgress

-----------------------------------------------------------------------------
(* A turn of the car.                                                      *)

LEMMA TurnStep ==
  ASSUME TypeInv, NEW s \in Side, Motor(s), pc[s] \in TurnPlaces
  PROVE  TurnStepsLeft(s)' \in 0 .. TurnStepsLeft(s) - 1
<1> DEFINE count == turnCount[s]
           held == reg[s]
<1>1. count \in Nat /\ held \in Nat
  BY DEF TypeInv, TypeOK
<1>2. /\ pc[s] \in {"slow", "countRead"} => count >= 1
      /\ pc[s] = "countWrite" => held >= 1
  BY DEF TypeInv, TurnInv
<1> USE DEF TypeInv, TypeOK, Goto, globals, Thread
<1>3. CASE TurnTest(s)
  <2>1. pc[s] = "turnTest" /\ turnCount'[s] = count
    BY <1>3 DEF TurnTest
  <2>2. (pc'[s] = "slow" /\ count > 0) \/ pc'[s] = "restore"
    BY <1>3 DEF TurnTest
  <2>3. TurnStepsLeft(s) = 4 * count + 1
    BY <2>1 DEF TurnStepsLeft
  <2>4. TurnStepsLeft(s)' \in {4 * count, 0}
    BY <2>1, <2>2 DEF TurnStepsLeft
  <2>5. QED
    BY <1>1, <2>3, <2>4
<1>4. CASE SlowWheel(s)
  <2>1. pc[s] = "slow" /\ pc'[s] = "countRead" /\ turnCount'[s] = count
    BY <1>4 DEF SlowWheel
  <2>2. TurnStepsLeft(s) = 4 * count /\ TurnStepsLeft(s)' = 4 * count - 1
    BY <2>1 DEF TurnStepsLeft
  <2>3. QED
    BY <1>1, <1>2, <2>1, <2>2
<1>5. CASE ReadCount(s)
  <2>1. pc[s] = "countRead" /\ pc'[s] = "countWrite" /\ reg'[s] = count
    BY <1>5 DEF ReadCount
  <2>2. TurnStepsLeft(s) = 4 * count - 1 /\ TurnStepsLeft(s)' = 4 * count - 2
    BY <2>1 DEF TurnStepsLeft
  <2>3. QED
    BY <1>1, <1>2, <2>1, <2>2
<1>6. CASE WriteCount(s)
  <2>1. pc[s] = "countWrite" /\ pc'[s] = "turnTest" /\ turnCount'[s] = held - 1
    BY <1>6 DEF WriteCount
  <2>2. TurnStepsLeft(s) = 4 * held - 2 /\ TurnStepsLeft(s)' = 4 * (held - 1) + 1
    BY <2>1 DEF TurnStepsLeft
  <2>3. QED
    BY <1>1, <1>2, <2>1, <2>2
<1>7. ~(Fetch(s) \/ DriveCase(s) \/ Speed(s) \/ Hold(s) \/ RestoreDuty(s))
  BY DEF Fetch, DriveCase, TestFirst, TestSecond, ClearFirst, ClearSecond, Brake,
         MarkForward, Drive, Speed, Hold, RestoreDuty, TurnPlaces
<1>8. ~(TraceCase(s) \/ Ack(s) \/ Loop(s))
  BY DEF TraceCase, SetTraceDuty, TraceTest, LeaveOffLine, OnLineTest,
         SteerLeftWheel, SteerRightWheel, EvenLeftWheel, EvenRightWheel, Ack, Loop,
         TurnPlaces
<1>9. QED
  BY <1>3, <1>4, <1>5, <1>6, <1>7, <1>8 DEF Motor, TurnCase

(* A turn makes no more rounds than presses are counted: each step of it   *)
(* uses them up, whatever the key thread writes to the counter meanwhile,  *)
(* and only another press of the key can make it longer.                   *)
THEOREM TurnUsesPresses == Spec => TurnProgress
<1>1. Init => TypeInv
  BY InitType
<1>2. TypeInv /\ [Next]_vars => TypeInv'
  BY NextType
<1>3. ASSUME TypeInv, [Next]_vars, NEW s \in Side, pc[s] \in TurnPlaces,
             pc'[s] # pc[s]
      PROVE  TurnStepsLeft(s)' \in 0 .. TurnStepsLeft(s) - 1
  <2>1. ASSUME NEW t \in Side, Motor(t)
        PROVE  TurnStepsLeft(s)' \in 0 .. TurnStepsLeft(s) - 1
    <3>1. t = s
      BY <1>3, <2>1, MotorFrame DEF Thread
    <3>2. QED
      BY <1>3, <2>1, <3>1, TurnStep
  <2>2. ~ThreadKey
    BY <1>3, KeyFrame DEF Thread, Side
  <2>3. ~imuHandle /\ ~main /\ ~UNCHANGED vars
    BY <1>3 DEF imuHandle, main, Goto, vars, TypeInv, TypeOK, Thread, Side
  <2>4. QED
    BY <1>3, <2>1, <2>2, <2>3
       DEF Next, leftHandle, rightHandle, Terminated, Side
<1>4. TypeInv /\ [Next]_vars =>
        [\A s \in Side : pc[s] \in TurnPlaces /\ pc'[s] # pc[s] =>
           TurnStepsLeft(s)' \in 0 .. TurnStepsLeft(s) - 1]_pc
  BY <1>3
<1>5. QED
  BY <1>1, <1>2, <1>4, PTL DEF Spec, TurnProgress
=============================================================================
