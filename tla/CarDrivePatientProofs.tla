----------------------- MODULE CarDrivePatientProofs -----------------------
(***************************************************************************)
(* What CarDrive promises a user who presses the next key only when both   *)
(* motor threads have nothing to do, or trace a line: for such a user, and *)
(* only for such a one, no command is lost.                                *)
(***************************************************************************)
EXTENDS CarDriveProofs

TurnPC  == {"speed", "hold", "turnTest", "slow", "countRead", "countWrite",
            "restore"}

OtherKey     == {"i", "j", "a", "d"}
DriveCommand == {StopCar, Forward, Backward, TraceLine}
OtherCommand == {Faster, Slower, TurnLeft, TurnRight}

(* Where a motor thread is with the last key: it has nothing to do or      *)
(* traces the line; the command is in its mailbox; it executes it; it has  *)
(* executed it.                                                            *)
Between(s) == pc[s] \in {"fetch", "loop"} /\ switchVar[s] = NoCommand
OnTrace(s) == pc[s] \in TracePC /\ switchVar[s] = TraceLine
Resting(s) == Between(s) \/ OnTrace(s)

Taking(s) ==
  /\ key \in DriveKey \cup OtherKey
  /\ switchVar[s] = CommandOf(key)
  /\ pc[s] \in {"fetch", "loop"} \cup TracePC

Executing(s) ==
  /\ key \in DriveKey \cup OtherKey
  /\ switchVar[s] = CommandOf(key) /\ cmd[s] = CommandOf(key)
  /\ pc[s] \in DrivePC \cup TurnPC \cup {"ack"}

Finished(s) == Between(s) \/ (key = "w" /\ OnTrace(s))

PhaseInv(s) ==
  /\ pc[s] \in TracePC => pins[s] = "forward"
  /\ pc[s] = "mark" => cmd[s] = TraceLine
  /\ pc[s] \in DrivePC => cmd[s] \in DriveCommand
  /\ pc[s] \in TurnPC => cmd[s] \in OtherCommand
  /\ IF Posted(s) THEN Taking(s) \/ Executing(s) \/ Finished(s)
                  ELSE Resting(s)

(* What the last key, if it was s, w or x, did to the pins; any other key  *)
(* found both sides alike and leaves them so.                              *)
PinInv ==
  IF key \in DriveKey
    THEN \A s \in Side : Posted(s) /\ (Finished(s) \/ pc[s] = "ack")
                           => pins[s] = PinsOf(CommandOf(key))
    ELSE pins["left"] = pins["right"]

(* Thread s has tested the flags for the last key (for 'x' the first one). *)
Tested(s) ==
  \/ Finished(s)
  \/ pc[s] \in {"brake", "mark", "drive", "ack"}
  \/ key = "x" /\ pc[s] \in {"testSecond", "clearSecond"}

(* While a stop is executed nobody clears stop1; the first thread that has *)
(* tested the flags leaves none of the other direction, and no later step  *)
(* brings it back; other keys change no flag.                              *)
FlagInv ==
  /\ key = "s" /\ pc["key"] # "mark" => flag["stop1"] = 1
  /\ \A s \in Side : Posted(s) /\ Tested(s) =>
       /\ key \in {"s", "x"} => flag["forward1"] # 1
       /\ key = "w" => flag["stop1"] # 1
  /\ \A s \in Side : key = "w" /\ OnTrace(s) => flag["stop1"] # 1
  /\ key \notin DriveKey => ~(flag["stop1"] = 1 /\ flag["forward1"] = 1)

(* Which keys the key thread acts on, and that it ends with 'q'. *)
KeyInv ==
  /\ pc["key"] \in {"mark", "postRight", "postLeft"}
       => key \in DriveKey \cup OtherKey \cup {"q"}
  /\ pc["key"] = "mark" => key \in DriveKey \cup {"q"}
  /\ key = "w" /\ pc["key"] \in {"mark", "postRight", "postLeft"}
       => mode \in {"m1", "m2"}
  /\ key = "q" /\ ~done => pc["key"] = "mark"
  /\ done => key = "q" /\ pc["key"] \in {"postRight", "postLeft", "exited"}

PatientInv ==
  /\ TypeInv
  /\ KeyInv
  /\ ~done => (\A s \in Side : PhaseInv(s)) /\ PinInv /\ FlagInv

LEMMA CommandFacts ==
  /\ key \in DriveKey => CommandOf(key) \in DriveCommand
  /\ key \in OtherKey => CommandOf(key) \in OtherCommand
  /\ key = "s" => CommandOf(key) = StopCar
  /\ key = "x" => CommandOf(key) = Backward
  /\ key = "w" => CommandOf(key) \in {Forward, TraceLine}
  /\ key # "w" => CommandOf(key) # TraceLine
  /\ key = "w" => PinsOf(CommandOf(key)) = "forward"
  BY DEF DriveKey, OtherKey, DriveCommand, OtherCommand, CommandOf, PinsOf, StopCar,
         Forward, Backward, Faster, Slower, TurnLeft, TurnRight, TraceLine,
         NoCommand

LEMMA CommandsDiffer ==
  /\ NoCommand \notin DriveCommand \cup OtherCommand
  /\ DriveCommand \cap OtherCommand = {}
  /\ TraceLine # StopCar
  /\ {Forward, TraceLine} \cap {StopCar, Backward} = {} /\ StopCar # Backward
  BY DEF DriveCommand, OtherCommand, StopCar, Forward, Backward, Faster, Slower,
         TurnLeft, TurnRight, TraceLine, NoCommand

(* The case a command leads to. *)
LEMMA CaseFacts ==
  ASSUME NEW s \in Side, NEW c \in Command
  PROVE  /\ c \in DriveCommand => Case(s, c) = "testFirst"
         /\ c \in OtherCommand => Case(s, c) \in {"speed", "hold", "ack"}
         /\ c = NoCommand => Case(s, c) = "loop"
  BY DEF Case, DriveCommand, OtherCommand, Command, StopCar, Forward, Backward,
         Faster, Slower, TurnLeft, TurnRight, TraceLine, NoCommand, TurnCommand,
         OtherSide, Side

(* A step of motor thread s: where it is with the last key afterwards.     *)
LEMMA MotorPhase ==
  ASSUME PatientInv, ~done, NEW s \in Side, Motor(s)
  PROVE  \A t \in Side : PhaseInv(t)'
<1>1. /\ \A t \in Thread \ {s} : pc'[t] = pc[t]
      /\ \A t \in Side \ {s} : SideFrame(t)
      /\ UNCHANGED <<done, mode, key, budget>>
  BY MotorFrame DEF PatientInv
<1>2. CommandOf(key)' = CommandOf(key) /\ \A t \in Side : Posted(t)' = Posted(t)
  BY <1>1 DEF CommandOf, Posted, Thread, Side
<1>3. TypeInv /\ \A t \in Side : PhaseInv(t)
  BY DEF PatientInv
<1>4. ASSUME NEW t \in Side \ {s}
      PROVE  PhaseInv(t)'
  BY <1>1, <1>2, <1>3, <1>4
     DEF PhaseInv, Taking, Executing, Finished, Resting, Between, OnTrace, SideFrame
<1>5. PhaseInv(s)'
  <2>1. PhaseInv(s) /\ switchVar[s] \in Command /\ TypeInv
    BY <1>3 DEF TypeInv, TypeOK
  <2> USE <1>1, <1>2, <2>1, CommandFacts, CommandsDiffer
      DEF PhaseInv, Taking, Executing, Finished, Resting, Between, OnTrace,
          DrivePC, TurnPC, TracePC, Tracers, TypeInv, TypeOK, Goto, globals,
          motors, Thread
  <2>2. CASE Fetch(s)
    BY <2>2, CaseFacts DEF Fetch
  <2>3. CASE DriveCase(s)
    BY <2>3 DEF DriveCase, TestFirst, TestSecond, ClearFirst, ClearSecond, Brake,
                MarkForward, Drive, AfterTests, PinsOf, Backward, StopCar,
                TraceLine
  <2>4. CASE Speed(s) \/ TurnCase(s)
    BY <2>4 DEF Speed, TurnCase, Hold, TurnTest, SlowWheel, ReadCount, WriteCount,
                RestoreDuty
  <2>5. CASE SetTraceDuty(s) \/ SteerLeftWheel(s) \/ SteerRightWheel(s)
             \/ EvenLeftWheel(s) \/ EvenRightWheel(s)
    BY <2>5 DEF SetTraceDuty, SteerLeftWheel, SteerRightWheel, EvenLeftWheel,
                EvenRightWheel
  <2>6. CASE TraceTest(s)
    BY <2>6 DEF TraceTest, Tracing
  <2>7. ASSUME NEW onLine \in BOOLEAN,
               LeaveOffLine(s, onLine) \/ OnLineTest(s, onLine)
        PROVE  PhaseInv(s)'
    BY <2>7 DEF LeaveOffLine, OnLineTest
  <2>8. CASE Ack(s)
    BY <2>8 DEF Ack
  <2>9. CASE Loop(s)
    BY <2>9 DEF Loop
  <2>10. QED
    BY <2>2, <2>3, <2>4, <2>5, <2>6, <2>7, <2>8, <2>9 DEF Motor, TraceCase
<1>6. QED
  BY <1>4, <1>5

(* ... and what it has done to its wheel and to the flags.                 *)
LEMMA MotorPins ==
  ASSUME PatientInv, ~done, NEW s \in Side, Motor(s)
  PROVE  PinInv'
<1>1. /\ \A t \in Thread \ {s} : pc'[t] = pc[t]
      /\ \A t \in Side \ {s} : SideFrame(t)
      /\ UNCHANGED <<done, mode, key, budget>>
  BY MotorFrame DEF PatientInv
<1>2. CommandOf(key)' = CommandOf(key) /\ \A t \in Side : Posted(t)' = Posted(t)
  BY <1>1 DEF CommandOf, Posted, Thread, Side
<1>3. TypeInv /\ PinInv /\ PhaseInv(s)
  BY DEF PatientInv
<1> USE <1>1, <1>2, <1>3, CommandFacts, CommandsDiffer
    DEF PinInv, PhaseInv, Taking, Executing, Finished, Resting, Between, OnTrace,
        DrivePC, TurnPC, TracePC, Tracers, SideFrame, TypeInv, TypeOK, Goto,
        globals, motors, Thread, Side
<1>4. CASE Fetch(s)
  <2>1. switchVar[s] \in Command
    OBVIOUS
  <2>2. QED
    BY <1>4, <2>1, CaseFacts DEF Fetch
<1>5. CASE TestFirst(s) \/ TestSecond(s) \/ ClearFirst(s) \/ ClearSecond(s)
           \/ MarkForward(s)
  BY <1>5 DEF TestFirst, TestSecond, ClearFirst, ClearSecond, MarkForward,
              AfterTests
<1>6. CASE Brake(s)
  BY <1>6 DEF Brake, AfterTests, DriveKey, OtherKey
<1>7. CASE Drive(s)
  BY <1>7 DEF Drive, DriveKey, OtherKey
<1>8. CASE Speed(s) \/ TurnCase(s)
  BY <1>8 DEF Speed, TurnCase, Hold, TurnTest, SlowWheel, ReadCount, WriteCount,
              RestoreDuty
<1>9. CASE TraceCase(s)
  BY <1>9 DEF TraceCase, SetTraceDuty, SteerLeftWheel, SteerRightWheel,
              EvenLeftWheel, EvenRightWheel, TraceTest, Tracing, LeaveOffLine,
              OnLineTest
<1>10. CASE Ack(s) \/ Loop(s)
  BY <1>10 DEF Ack, Loop
<1>11. QED
  BY <1>4, <1>5, <1>6, <1>7, <1>8, <1>9, <1>10 DEF Motor, DriveCase

LEMMA MotorFlags ==
  ASSUME PatientInv, ~done, NEW s \in Side, Motor(s)
  PROVE  FlagInv'
<1>1. /\ \A t \in Thread \ {s} : pc'[t] = pc[t]
      /\ \A t \in Side \ {s} : SideFrame(t)
      /\ UNCHANGED <<done, mode, key, budget>>
  BY MotorFrame DEF PatientInv
<1>2. CommandOf(key)' = CommandOf(key) /\ \A t \in Side : Posted(t)' = Posted(t)
  BY <1>1 DEF CommandOf, Posted, Thread, Side
<1>3. TypeInv /\ FlagInv /\ PhaseInv(s)
  BY DEF PatientInv
<1>4. pc[s] \in DrivePC => /\ Posted(s) /\ key \in DriveKey
                           /\ cmd[s] = CommandOf(key)
                           /\ pc[s] = "mark" => key = "w"
  BY <1>3, CommandFacts, CommandsDiffer
     DEF PhaseInv, Taking, Executing, Finished, Resting, Between, OnTrace, DrivePC,
         TracePC, Tracers, TypeInv, TypeOK
<1>5. pc["key"]' = pc["key"]
      /\ \A t \in Side \ {s} : (Tested(t))' = Tested(t) /\ (OnTrace(t))' = OnTrace(t)
  BY <1>1, <1>2 DEF Tested, Finished, Between, OnTrace, SideFrame, Side, Thread
<1>6. ASSUME flag' = flag,
             key \in DriveKey /\ Posted(s) /\ (Tested(s))' => Tested(s),
             key = "w" /\ (OnTrace(s))' => OnTrace(s) \/ (Posted(s) /\ Tested(s))
      PROVE  FlagInv'
  BY <1>1, <1>2, <1>3, <1>5, <1>6 DEF FlagInv, DriveKey, Side
<1> USE <1>1, <1>2, <1>3, <1>4, <1>5, CommandsDiffer, CommandFacts
    DEF Tested, PhaseInv, Taking, Executing, Finished, Resting, Between, OnTrace,
        DrivePC, TurnPC, TracePC, Tracers, TypeInv, TypeOK, Goto,
        globals, motors, Thread
<1>7. CASE Fetch(s)
  <2>1. /\ flag' = flag /\ switchVar' = switchVar
        /\ pc[s] = "fetch" /\ pc'[s] = Case(s, switchVar[s])
        /\ switchVar[s] \in Command
    BY <1>7 DEF Fetch
  <2>2. CASE switchVar[s] = NoCommand
    BY <1>6, <2>1, <2>2, CaseFacts
  <2>3. CASE switchVar[s] # NoCommand
    <3>1. key \in DriveKey /\ Posted(s) => pc'[s] = "testFirst"
      BY <2>1, <2>3, CaseFacts
    <3>2. pc'[s] \in {"testFirst", "speed", "hold", "ack", "loop"}
      BY <2>1 DEF Case
    <3>3. QED
      BY <1>6, <2>1, <2>3, <3>1, <3>2
  <2>4. QED
    BY <2>2, <2>3
<1>8. CASE TestFirst(s)
  <2>1. /\ flag' = flag /\ switchVar' = switchVar /\ pc[s] = "testFirst"
        /\ pc'[s] \in {"clearFirst", "testSecond"}
        /\ pc'[s] = "testSecond" => flag[FirstFlag(cmd[s])] # 1
    BY <1>8 DEF TestFirst
  <2>2. CASE key = "x"
    <3>1. pc'[s] = "testSecond" => flag["forward1"] # 1
      BY <2>1, <2>2 DEF FirstFlag
    <3>2. pc'[s] = "clearFirst" => ~(Tested(s))' /\ ~(OnTrace(s))'
      BY <2>1
    <3>3. QED
      BY <2>1, <2>2, <3>1, <3>2 DEF FlagInv, Side
  <2>3. CASE key # "x"
    BY <1>6, <2>1, <2>3
  <2>4. QED
    BY <2>2, <2>3
<1>9. CASE TestSecond(s)
  <2>1. /\ flag' = flag /\ switchVar' = switchVar /\ pc[s] = "testSecond"
        /\ pc'[s] \in {"clearFirst", "mark", "drive"}
        /\ pc'[s] # "clearFirst" => flag[SecondFlag(cmd[s])] # 1
    BY <1>9 DEF TestSecond, AfterTests
  <2>2. CASE key = "x"
    BY <1>6, <2>1, <2>2
  <2>3. CASE key # "x"
    <3>1. pc'[s] # "clearFirst" => /\ key = "s" => flag["forward1"] # 1
                                   /\ key = "w" => flag["stop1"] # 1
      BY <2>1, <2>3 DEF SecondFlag
    <3>2. pc'[s] = "clearFirst" => ~(Tested(s))'
      BY <2>1, <2>3
    <3>3. ~(OnTrace(s))'
      BY <2>1
    <3>4. QED
      BY <2>1, <2>3, <3>1, <3>2, <3>3 DEF FlagInv, Side
  <2>4. QED
    BY <2>2, <2>3
<1>10. CASE ClearFirst(s)
  <2>1. /\ flag' = [flag EXCEPT ![FirstFlag(cmd[s])] = 0]
        /\ switchVar' = switchVar
        /\ pc[s] = "clearFirst" /\ pc'[s] = "clearSecond"
    BY <1>10 DEF ClearFirst
  <2>2. FirstFlag(cmd[s]) = IF key = "x" THEN "forward1" ELSE "backward1"
    BY <2>1 DEF FirstFlag, DriveKey
  <2>3. /\ key \in DriveKey /\ Posted(s) /\ flag'["stop1"] = flag["stop1"]
        /\ flag["forward1"] # 1 => flag'["forward1"] # 1
        /\ key = "x" => flag'["forward1"] # 1
    BY <2>1, <2>2 DEF Flag
  <2>4. /\ ~(OnTrace(s))'
        /\ key # "x" => ~(Tested(s))'
    BY <2>1
  <2>5. QED
    BY <2>3, <2>4 DEF FlagInv, DriveKey, Side
<1>11. CASE ClearSecond(s)
  <2>1. /\ flag' = [flag EXCEPT ![SecondFlag(cmd[s])] = 0]
        /\ switchVar' = switchVar
        /\ pc[s] = "clearSecond" /\ pc'[s] = "brake"
    BY <1>11 DEF ClearSecond
  <2>2. SecondFlag(cmd[s]) = IF key = "s" THEN "forward1" ELSE "stop1"
    BY <2>1 DEF SecondFlag, DriveKey
  <2>3. /\ key \in DriveKey /\ Posted(s)
        /\ key = "s" => flag'["stop1"] = flag["stop1"] /\ flag'["forward1"] # 1
        /\ key # "s" => flag'["forward1"] = flag["forward1"] /\ flag'["stop1"] # 1
    BY <2>1, <2>2 DEF Flag
  <2>4. ~(OnTrace(s))' /\ (key = "x" => Tested(s))
    BY <2>1
  <2>5. QED
    BY <2>3, <2>4 DEF FlagInv, DriveKey, Side
<1>12. CASE MarkForward(s)
  <2>1. /\ flag' = [flag EXCEPT !["forward1"] = 1]
        /\ switchVar' = switchVar
        /\ pc[s] = "mark" /\ pc'[s] = "drive"
    BY <1>12 DEF MarkForward
  <2>2. key = "w" /\ Posted(s) /\ flag'["stop1"] = flag["stop1"] /\ Tested(s)
    BY <2>1 DEF Flag
  <2>3. ~(OnTrace(s))'
    BY <2>1
  <2>4. QED
    BY <2>2, <2>3 DEF FlagInv, DriveKey, Side
<1>13. CASE Brake(s) \/ Drive(s)
  <2>1. /\ flag' = flag /\ pc[s] \in {"brake", "drive"}
        /\ switchVar' = switchVar
    BY <1>13 DEF Brake, Drive
  <2>2. QED
    BY <1>6, <2>1
<1>14. CASE Speed(s) \/ TurnCase(s)
  <2>1. pc[s] \in TurnPC /\ flag' = flag /\ switchVar' = switchVar
        /\ pc'[s] \in TurnPC \cup {"ack"}
    BY <1>14 DEF Speed, TurnCase, Hold, TurnTest, SlowWheel, ReadCount,
                 WriteCount, RestoreDuty
  <2>2. key \notin DriveKey \/ ~Posted(s)
    BY <2>1
  <2>3. ~(OnTrace(s))'
    BY <2>1
  <2>4. QED
    BY <1>6, <2>1, <2>2, <2>3
<1>15. CASE TraceCase(s)
  <2>1. pc[s] \in TracePC /\ pc'[s] \in TracePC \cup {"loop"} /\ flag' = flag
        /\ UNCHANGED <<switchVar, cmd>>
    BY <1>15 DEF TraceCase, SetTraceDuty, SteerLeftWheel, SteerRightWheel,
                 EvenLeftWheel, EvenRightWheel, TraceTest, LeaveOffLine, OnLineTest
  <2>2. Posted(s) => switchVar[s] # NoCommand
    BY <2>1 DEF TraceLine, NoCommand
  <2>3. QED
    BY <1>6, <2>1, <2>2
<1>16. CASE Ack(s) \/ Loop(s)
  <2>1. /\ flag' = flag /\ pc[s] \in {"ack", "loop"}
        /\ pc'[s] \in {"loop", "fetch", "exited"}
        /\ pc[s] = "loop" => switchVar' = switchVar
    BY <1>16 DEF Ack, Loop
  <2>2. QED
    BY <1>6, <2>1
<1>17. QED
  BY <1>7, <1>8, <1>9, <1>10, <1>11, <1>12, <1>13, <1>14, <1>15, <1>16
     DEF Motor, DriveCase

LEMMA PatientMotor ==
  ASSUME PatientInv, TypeInv', NEW s \in Side, Motor(s)
  PROVE  PatientInv'
<1>1. /\ pc'["key"] = pc["key"]
      /\ UNCHANGED <<done, mode, key>>
  BY MotorFrame DEF PatientInv, Thread, Side
<1>2. KeyInv'
  BY <1>1 DEF PatientInv, KeyInv
<1>3. QED
  BY <1>1, <1>2, MotorPhase, MotorPins, MotorFlags DEF PatientInv

-----------------------------------------------------------------------------
(* A step of the key thread.  It reads a key only when both sides rest.    *)
LEMMA ReadFinds ==
  ASSUME PatientInv, Patient = TRUE, NEW k \in KeyChar, Press(k),
         pc["key"] \in {"read", "mode"}
  PROVE  /\ ~done
         /\ \A s \in Side : Resting(s) /\ Finished(s)
         /\ pins["left"] = pins["right"]
<1>1. ~done /\ \A s \in Side : Posted(s) /\ PhaseInv(s)
  BY DEF PatientInv, KeyInv, Posted, Side
<1>2. ASSUME NEW s \in Side
      PROVE  Resting(s) /\ Finished(s)
  <2>1. Settled(s)
    BY DEF Press
  <2>2. Resting(s)
    BY <2>1 DEF Settled, Resting, Between, OnTrace, TracePC, Tracers
  <2>3. CASE Between(s)
    BY <2>2, <2>3 DEF Finished
  <2>4. CASE ~Between(s)
    <3>1. pc[s] = "offLine" /\ switchVar[s] = TraceLine
      BY <2>1, <2>4 DEF Settled, Between
    <3>2. ~Executing(s)
      BY <3>1 DEF Executing, DrivePC, TurnPC
    <3>3. Taking(s) => key = "w"
      BY <3>1, CommandFacts DEF Taking
    <3>4. QED
      BY <1>1, <2>2, <2>4, <3>2, <3>3 DEF PhaseInv, Resting, Finished
  <2>5. QED
    BY <2>3, <2>4
<1>3. pins["left"] = pins["right"]
  BY <1>1, <1>2 DEF PatientInv, PinInv, Side
<1>4. QED
  BY <1>1, <1>2, <1>3

(* A key that is read leaves both sides at rest, with nothing posted yet.  *)
LEMMA PatientRead ==
  ASSUME PatientInv, TypeInv', Patient = TRUE, NEW k \in KeyChar, ReadKey(k)
  PROVE  PatientInv'
<1>1. /\ ~done /\ done' = done /\ mode' = mode
      /\ \A s \in Side : Resting(s) /\ Finished(s) /\ Posted(s)
      /\ pins["left"] = pins["right"]
      /\ PinInv /\ FlagInv
      /\ \A s \in Side : PhaseInv(s)
  BY ReadFinds DEF ReadKey, Goto, globals, PatientInv, Posted, Side
<1>2. /\ UNCHANGED <<globals, motors, cmd>>
      /\ \A t \in Side : pc'[t] = pc[t]
      /\ pc["key"] = "read" /\ pc'["key"] = AfterRead(k)
  BY DEF ReadKey, Goto, PatientInv, TypeInv, TypeOK, Side, Thread
<1>3. \A s \in Side : (Resting(s))' /\ (Between(s))' = Between(s)
                      /\ (OnTrace(s))' = OnTrace(s)
  BY <1>1, <1>2 DEF Resting, Between, OnTrace, globals, Side
<1>4. CASE Accepted(k)
  <2>1. key' = k /\ k \in DriveKey \cup OtherKey \cup {"q"}
    BY <1>4 DEF ReadKey, Accepted, DriveKey, OtherKey
  <2>2. pc'["key"] = IF k \in DriveKey \cup {"q"} THEN "mark" ELSE "postRight"
    BY <1>2, <1>4, <2>1 DEF AfterRead, DriveKey, OtherKey
  <2>3. KeyInv'
    BY <1>1, <1>4, <2>1, <2>2 DEF KeyInv, Accepted, DriveKey, OtherKey
  <2>4. \A s \in Side : ~Posted(s)'
    BY <2>2 DEF Posted, Side
  <2>5. \A s \in Side : PhaseInv(s)'
    BY <1>1, <1>2, <1>3, <2>4 DEF PhaseInv, motors, Side
  <2>6. PinInv'
    BY <1>1, <1>2, <2>1, <2>2, <2>4 DEF PinInv, motors, DriveKey
  <2>7. flag' = flag
    BY <1>2 DEF globals
  <2>8. ~(flag["stop1"] = 1 /\ flag["forward1"] = 1)
    BY <1>1 DEF FlagInv, Tested, DriveKey, Side
  <2>9. \A s \in Side : (OnTrace(s))' => flag["stop1"] # 1
    BY <1>1, <1>3 DEF FlagInv, Finished, Between, OnTrace, TracePC, Tracers
  <2>10. key' = "s" => pc'["key"] = "mark"
    BY <2>1, <2>2 DEF DriveKey
  <2>11. FlagInv'
    BY <2>4, <2>7, <2>8, <2>9, <2>10 DEF FlagInv
  <2>12. QED
    BY <2>3, <2>5, <2>6, <2>11 DEF PatientInv
<1>5. CASE ~Accepted(k)
  <2>1. key' = key /\ pc'["key"] \in {"mode", "read"}
    BY <1>2, <1>5 DEF ReadKey, AfterRead
  <2>2. \A s \in Side : Posted(s)' /\ Posted(s)
    BY <1>1, <2>1 DEF Posted, Side
  <2>3. CommandOf(key)' = CommandOf(key)
    BY <1>1, <2>1 DEF CommandOf
  <2>4. KeyInv'
    BY <1>1, <1>2, <2>1 DEF KeyInv, PatientInv
  <2>5. \A s \in Side : PhaseInv(s)'
    BY <1>1, <1>2, <1>3, <2>1, <2>2 DEF PhaseInv, Finished, motors, Side
  <2>6. PinInv' /\ FlagInv'
    BY <1>1, <1>2, <1>3, <2>1, <2>2, <2>3
       DEF PinInv, FlagInv, Tested, Finished, motors, globals, Side
  <2>7. QED
    BY <2>4, <2>5, <2>6 DEF PatientInv
<1>6. QED
  BY <1>4, <1>5

(* So does a mode; it changes what 'w' stands for, not what 'w' did.       *)
LEMMA PatientMode ==
  ASSUME PatientInv, TypeInv', Patient = TRUE, NEW k \in KeyChar, ReadMode(k)
  PROVE  PatientInv'
<1>1. /\ ~done /\ done' = done /\ key' = key
      /\ \A s \in Side : Resting(s) /\ Finished(s) /\ Posted(s)
      /\ PinInv /\ FlagInv /\ KeyInv
      /\ \A s \in Side : PhaseInv(s)
  BY ReadFinds DEF ReadMode, Goto, PatientInv, Posted, Side
<1>2. /\ UNCHANGED <<flag, switchVar, motors, cmd>>
      /\ \A t \in Side : pc'[t] = pc[t]
      /\ pc["key"] = "mode" /\ pc'["key"] = "read"
  BY DEF ReadMode, Goto, PatientInv, TypeInv, TypeOK, Side, Thread
<1>3. \A s \in Side : (Finished(s))' /\ Posted(s)'
  BY <1>1, <1>2 DEF Finished, Between, OnTrace, Posted, Side
<1>4. KeyInv'
  BY <1>1, <1>2 DEF KeyInv
<1>5. \A s \in Side : PhaseInv(s)'
  BY <1>1, <1>2, <1>3 DEF PhaseInv, motors, Side
<1>6. PinsOf(CommandOf(key))' = PinsOf(CommandOf(key))
  BY <1>1 DEF PinsOf, CommandOf, StopCar, Forward, Backward, Faster, Slower,
              TurnLeft, TurnRight, TraceLine, NoCommand
<1>7. PinInv'
  BY <1>1, <1>2, <1>3, <1>6 DEF PinInv, motors, Side
<1>8. FlagInv'
  BY <1>1, <1>2, <1>3 DEF FlagInv, Tested, OnTrace, Side
<1>9. QED
  BY <1>4, <1>5, <1>7, <1>8 DEF PatientInv

(* What a step of the key thread between two keys leaves alone.            *)
LEMMA PatientAct ==
  ASSUME PatientInv, TypeInv', ActOnKey
  PROVE  PatientInv'
<1>1. /\ UNCHANGED <<motors, cmd, mode, key>>
      /\ \A t \in Side : pc'[t] = pc[t]
  BY DEF ActOnKey, MarkKey, PostRight, PostLeft, ReadTurns, WriteTurns, Goto,
         globals, PatientInv, TypeInv, TypeOK, Thread, Side
<1>2. CommandOf(key)' = CommandOf(key) /\ TypeInv
  BY <1>1 DEF CommandOf, PatientInv
<1>3. CASE done
  <2>1. done' /\ KeyInv'
    BY <1>1, <1>3
       DEF ActOnKey, MarkKey, PostRight, PostLeft, ReadTurns, WriteTurns, Goto,
           globals, PatientInv, KeyInv, TypeInv, TypeOK, DriveKey, OtherKey,
           Thread, Side
  <2>2. QED
    BY <2>1 DEF PatientInv
<1>4. CASE ~done
  <2>1. KeyInv /\ PinInv /\ FlagInv /\ \A s \in Side : PhaseInv(s)
    BY <1>4 DEF PatientInv
  <2>2. CASE MarkKey
    <3>1. pc["key"] = "mark" /\ pc'["key"] = "postRight" /\ switchVar' = switchVar
      BY <2>2 DEF MarkKey, Goto, TypeInv, TypeOK, Thread, PatientInv
    <3>2. KeyInv'
      BY <1>1, <1>4, <2>1, <2>2, <3>1 DEF MarkKey, KeyInv
    <3>3. \A s \in Side : ~Posted(s) /\ ~Posted(s)'
      BY <3>1 DEF Posted, Side
    <3>4. \A s \in Side : PhaseInv(s)'
      BY <1>1, <2>1, <3>1, <3>3 DEF PhaseInv, Resting, Between, OnTrace, motors, Side
    <3>5. PinInv'
      BY <1>1, <2>1, <3>3 DEF PinInv, motors
    <3>6. FlagInv'
      <4>1. \A s \in Side : (OnTrace(s))' = OnTrace(s)
        BY <1>1, <3>1 DEF OnTrace
      <4>2. CASE key \in {"s", "w", "x"}
        BY <1>1, <1>2, <2>1, <2>2, <3>1, <3>3, <4>1, <4>2
           DEF MarkKey, FlagInv, TypeInv, TypeOK, Flag, DriveKey
      <4>3. CASE key \notin {"s", "w", "x"}
        BY <1>1, <2>1, <2>2, <3>1, <3>3, <4>1, <4>3 DEF MarkKey, FlagInv, DriveKey
      <4>4. QED
        BY <4>2, <4>3
    <3>7. QED
      BY <3>2, <3>4, <3>5, <3>6 DEF PatientInv
  <2>3. ASSUME NEW s \in Side,
               switchVar' = [switchVar EXCEPT ![s] = CommandOf(key)],
               UNCHANGED <<flag, done>>,
               key \in DriveKey \cup OtherKey, pc["key"] # "mark",
               KeyInv', ~Posted(s), Posted(s)',
               \A t \in Side \ {s} : Posted(t)' = Posted(t)
        PROVE  PatientInv'
    <3>1. /\ Resting(s) /\ CommandOf(key) # NoCommand
          /\ switchVar'[s] = CommandOf(key)
      BY <1>2, <2>1, <2>3, CommandFacts, CommandsDiffer DEF PhaseInv, TypeInv, TypeOK
    <3>2. Taking(s)'
      BY <1>1, <1>2, <2>3, <3>1 DEF Taking, Resting, Between, OnTrace
    <3>3. PhaseInv(s)'
      BY <1>1, <2>1, <2>3, <3>2 DEF PhaseInv, motors
    <3>4. \A t \in Side \ {s} : PhaseInv(t)' /\ (Finished(t))' = Finished(t)
      BY <1>1, <1>2, <2>1, <2>3
         DEF PhaseInv, Taking, Executing, Resting, Finished, Between, OnTrace,
             motors, TypeInv, TypeOK
    <3>5. (Finished(s))' => key = "w" /\ pins[s] = "forward"
      BY <1>1, <2>1, <3>1 DEF Finished, Between, OnTrace, PhaseInv
    <3>6. pc'[s] \notin {"ack", "brake", "drive"}
      BY <1>1, <3>1 DEF Resting, Between, OnTrace, TracePC, Tracers
    <3>7. PinInv'
      BY <1>1, <1>2, <2>1, <2>3, <3>4, <3>5, <3>6, CommandFacts
         DEF PinInv, motors
    <3>8. pc'["key"] # "mark" => flag["stop1"] = 1 \/ key # "s"
      BY <2>1, <2>3 DEF FlagInv
    <3>9. \A t \in Side \ {s} : (Tested(t))' = Tested(t) /\ (OnTrace(t))' = OnTrace(t)
      BY <1>1, <2>3, <3>4 DEF Tested, OnTrace, TypeInv, TypeOK
    <3>10. /\ pc'[s] \notin {"ack", "brake", "mark", "drive", "testSecond",
                             "clearSecond"}
           /\ OnTrace(s)' /\ key = "w" => OnTrace(s)
      BY <1>1, <3>1
         DEF Resting, Between, OnTrace, TracePC, Tracers
    <3>11. Tested(s)' /\ key \in DriveKey => key = "w" /\ OnTrace(s)'
      BY <1>1, <2>3, <3>1, <3>10 DEF Tested, Finished, Between
    <3>12. FlagInv'
      BY <1>1, <2>1, <2>3, <3>8, <3>9, <3>10, <3>11 DEF FlagInv, DriveKey, Side
    <3>13. QED
      BY <2>3, <3>3, <3>4, <3>7, <3>12, <1>1 DEF PatientInv
  <2>4. CASE PostRight
    <3>1. pc["key"] = "postRight" /\ pc'["key"] = "postLeft"
      BY <2>4 DEF PostRight, Goto, TypeInv, TypeOK, Thread, PatientInv
    <3>2. key \in DriveKey \cup OtherKey
      BY <1>4, <2>1, <3>1 DEF KeyInv
    <3>3. KeyInv'
      BY <1>1, <1>4, <2>1, <2>4, <3>1 DEF PostRight, KeyInv
    <3>4. ~Posted("right") /\ Posted("right")' /\ Posted("left")' = Posted("left")
      BY <3>1 DEF Posted
    <3>5. QED
      BY <2>3, <2>4, <3>1, <3>2, <3>3, <3>4 DEF PostRight, Side
  <2>5. CASE PostLeft
    <3>1. pc["key"] = "postLeft" /\ pc'["key"] \in {"countRead", "read", "exited"}
      BY <2>5 DEF PostLeft, Goto, TypeInv, TypeOK, Thread, PatientInv
    <3>2. key \in DriveKey \cup OtherKey
      BY <1>4, <2>1, <3>1 DEF KeyInv
    <3>3. KeyInv'
      BY <1>1, <1>4, <2>1, <2>5, <3>1, <3>2 DEF PostLeft, KeyInv, DriveKey, OtherKey
    <3>4. ~Posted("left") /\ Posted("left")' /\ Posted("right")' = Posted("right")
      BY <3>1 DEF Posted
    <3>5. QED
      BY <2>3, <2>5, <3>1, <3>2, <3>3, <3>4 DEF PostLeft, Side
  <2>6. CASE ReadTurns \/ WriteTurns
    <3>1. /\ pc["key"] \in {"countRead", "countWrite"}
          /\ pc'["key"] \in {"countWrite", "read"}
          /\ UNCHANGED <<flag, done, switchVar>>
      BY <2>6 DEF ReadTurns, WriteTurns, Goto, globals, TypeInv, TypeOK, Thread,
                  PatientInv
    <3>2. KeyInv'
      BY <1>1, <1>4, <2>1, <3>1 DEF KeyInv
    <3>3. \A s \in Side : Posted(s) /\ Posted(s)'
      BY <3>1 DEF Posted, Side
    <3>4. (\A s \in Side : PhaseInv(s)') /\ PinInv' /\ FlagInv'
      BY <1>1, <1>2, <2>1, <3>1, <3>3
         DEF PhaseInv, Taking, Executing, Resting, Finished, Between, OnTrace,
             PinInv, FlagInv, Tested, motors, Side
    <3>5. QED
      BY <3>2, <3>4 DEF PatientInv
  <2>7. QED
    BY <2>2, <2>4, <2>5, <2>6 DEF ActOnKey
<1>5. QED
  BY <1>3, <1>4

LEMMA PatientNext ==
  ASSUME Patient = TRUE
  PROVE  PatientInv /\ [Next]_vars => PatientInv'
<1> SUFFICES ASSUME PatientInv, [Next]_vars
             PROVE  PatientInv'
  OBVIOUS
<1>1. TypeInv /\ TypeInv'
  BY NextType DEF PatientInv
<1>2. CASE leftHandle
  BY <1>1, <1>2, PatientMotor DEF leftHandle, Side
<1>3. CASE rightHandle
  BY <1>1, <1>3, PatientMotor DEF rightHandle, Side
<1>4. CASE ThreadKey
  BY <1>1, <1>4, PatientRead, PatientMode, PatientAct DEF ThreadKey
<1>5. ASSUME UNCHANGED <<globals, motors, cmd, key>>,
             \A t \in Side \cup {"key"} : pc'[t] = pc[t]
      PROVE  PatientInv'
  BY <1>1, <1>5
     DEF PatientInv, KeyInv, PhaseInv, PinInv, FlagInv, Tested, Taking, Executing, Resting,
         Finished, Between, OnTrace, Posted, CommandOf, globals, motors, Side
<1>6. CASE imuHandle
  BY <1>1, <1>5, <1>6 DEF imuHandle, Goto, TypeInv, TypeOK, Side, Thread
<1>7. CASE main
  <2>1. pc["left"] = "exited" /\ pc["right"] = "exited"
    BY <1>7 DEF main, Joined, Thread, Side
  <2>2. done
    BY <2>1 DEF PatientInv, PhaseInv, Taking, Executing, Finished, Resting, Between,
                OnTrace, DrivePC, TurnPC, TracePC, Tracers, Side
  <2>3. done' /\ KeyInv'
    BY <1>1, <1>7, <2>2 DEF main, Goto, globals, PatientInv, KeyInv, TypeInv, TypeOK,
                            Thread, Side
  <2>4. QED
    BY <1>1, <2>3 DEF PatientInv
<1>8. CASE UNCHANGED vars
  BY <1>5, <1>8 DEF vars, globals, motors
<1>9. QED
  BY <1>2, <1>3, <1>4, <1>6, <1>7, <1>8 DEF Next, Terminated

LEMMA InitPatient == Init => PatientInv
<1> SUFFICES ASSUME Init
             PROVE  PatientInv
  OBVIOUS
<1>1. TypeInv
  BY InitType
<1>2. KeyInv /\ PinInv /\ \A s \in Side : PhaseInv(s)
  BY DEF Init, KeyInv, PhaseInv, PinInv, Finished, Between, Posted, TracePC, Tracers,
         DrivePC, TurnPC, DriveKey, OtherKey, Side, Thread
<1>3. FlagInv
  BY DEF Init, FlagInv, DriveKey, Flag
<1>4. QED
  BY <1>1, <1>2, <1>3 DEF PatientInv

(* When everything is quiet the last key's command has been executed.      *)
LEMMA QuietFinished ==
  ASSUME PatientInv, Quiet
  PROVE  /\ \A s \in Side : Posted(s) /\ Finished(s)
         /\ pins["left"] = pins["right"]
         /\ PinInv /\ FlagInv /\ pc["key"] = "read"
<1>1. ~done /\ pc["key"] = "read" /\ \A s \in Side : Posted(s) /\ PhaseInv(s)
  BY DEF PatientInv, KeyInv, Quiet, Posted, Side
<1>2. ASSUME NEW s \in Side
      PROVE  Finished(s)
  <2>1. CASE Between(s)
    BY <2>1 DEF Finished
  <2>2. CASE ~Between(s)
    <3>1. pc[s] = "offLine" /\ switchVar[s] = TraceLine
      BY <2>2 DEF Quiet, Settled, Between
    <3>2. ~Executing(s)
      BY <3>1 DEF Executing, DrivePC, TurnPC
    <3>3. Taking(s) => key = "w"
      BY <3>1, CommandFacts DEF Taking
    <3>4. OnTrace(s)
      BY <3>1 DEF OnTrace, TracePC, Tracers
    <3>5. QED
      BY <1>1, <3>2, <3>3, <3>4 DEF PhaseInv, Finished
  <2>3. QED
    BY <2>1, <2>2
<1>3. QED
  BY <1>1, <1>2 DEF PatientInv, PinInv, Side

LEMMA PatientAlways ==
  ASSUME Patient = TRUE
  PROVE  Spec => []PatientInv
<1>1. Init => PatientInv
  BY InitPatient
<1>2. PatientInv /\ [Next]_vars => PatientInv'
  BY PatientNext
<1>3. QED
  BY <1>1, <1>2, PTL DEF Spec

(* For a patient user 's' stops the car, in every mode: the loss of an 's' *)
(* needs a key pressed while a command is executed.                        *)
THEOREM PatientStopHonoured ==
  ASSUME Patient = TRUE
  PROVE  Spec => []StopHonoured
<1>1. PatientInv => StopHonoured
  BY QuietFinished, CommandFacts
     DEF StopHonoured, PinInv, DriveKey, PinsOf, StopCar, Backward
<1>2. QED
  BY <1>1, PatientAlways, PTL

(* For a patient user both wheels always end up running the same way,      *)
(* although each side takes, executes and clears its command on its own.   *)
THEOREM PatientWheelsAgree ==
  ASSUME Patient = TRUE
  PROVE  Spec => []WheelsAgree
<1>1. PatientInv => WheelsAgree
  BY QuietFinished DEF WheelsAgree
<1>2. QED
  BY <1>1, PatientAlways, PTL

(* For a patient user stop1 survives the two threads' clearing of flags,   *)
(* so that 'p', 'n' and 't' are allowed on a stopped car.                  *)
THEOREM PatientReportsAllowed ==
  ASSUME Patient = TRUE
  PROVE  Spec => []ReportsAllowed
<1>1. PatientInv => ReportsAllowed
  BY QuietFinished DEF ReportsAllowed, FlagInv
<1>2. QED
  BY <1>1, PatientAlways, PTL

(* For a patient user the IMU thread is told that the car has stopped,     *)
(* whichever motor thread tests and clears forward1 first.                 *)
THEOREM PatientStopEndsRecording ==
  ASSUME Patient = TRUE
  PROVE  Spec => []StopEndsRecording
<1>1. PatientInv => StopEndsRecording
  BY QuietFinished DEF StopEndsRecording, FlagInv, Tested, Side
<1>2. QED
  BY <1>1, PatientAlways, PTL

(* For a patient user, once everything is quiet, stop1 and forward1 are    *)
(* not both set: a report printed then is not being written.               *)
THEOREM PatientReportsAtRest ==
  ASSUME Patient = TRUE
  PROVE  Spec => []ReportsAtRest
<1>1. PatientInv => ReportsAtRest
  BY QuietFinished DEF ReportsAtRest, FlagInv, Tested, DriveKey, Side
<1>2. QED
  BY <1>1, PatientAlways, PTL

-----------------------------------------------------------------------------
(* For a patient user the drive implements WheelPair.                      *)

(* After 'q' no command is executed any more. *)
Ending(s) ==
  \/ pc[s] \in TracePC \cup {"loop", "exited"}
  \/ pc[s] = "fetch" /\ switchVar[s] = NoCommand

OrderInv ==
  /\ PatientInv
  /\ done => \A s \in Side : Ending(s)

AbstractStep == [Wheels!Next]_<<Order, SidesBehind, pins>>

LEMMA PinsOfDirection ==
  ASSUME NEW c
  PROVE  PinsOf(c) \in PinState \ {"brake"}
  BY DEF PinsOf, PinState

LEMMA SameBehind ==
  ASSUME \A s \in Side : (Behind(s)' <=> Behind(s))
  PROVE  SidesBehind' = SidesBehind
  BY DEF SidesBehind

(* The last key is another one than s, w and x: no wheel is behind.        *)
LEMMA OtherKeyOrder ==
  ASSUME key \notin DriveKey
  PROVE  SidesBehind = {} /\ Order = pins["left"]
  BY DEF SidesBehind, Behind, Order

(* A side that has finished is not behind. *)
LEMMA FinishedNotBehind ==
  ASSUME NEW s \in Side, Posted(s), Finished(s)
  PROVE  ~Behind(s)
  BY DEF Behind, Finished, Between, OnTrace, DrivePC, TracePC

LEMMA SameKey ==
  ASSUME key' = key, CommandOf(key)' = CommandOf(key),
         key \in DriveKey \/ pins' = pins
  PROVE  Order' = Order
  BY DEF Order, PinsOf

LEMMA MotorOrder ==
  ASSUME PatientInv, ~done, NEW s \in Side, Motor(s)
  PROVE  AbstractStep
<1>1. /\ \A t \in Thread \ {s} : pc'[t] = pc[t]
      /\ \A t \in Side \ {s} : SideFrame(t)
      /\ UNCHANGED <<done, mode, key, budget>>
  BY MotorFrame DEF PatientInv
<1>2. CommandOf(key)' = CommandOf(key) /\ \A t \in Side : Posted(t)' = Posted(t)
  BY <1>1 DEF CommandOf, Posted, Thread, Side
<1>3. TypeInv /\ PhaseInv(s)
  BY DEF PatientInv
<1>4. \A t \in Side \ {s} : Behind(t)' <=> Behind(t)
  BY <1>1, <1>2 DEF Behind, SideFrame
<1>5. ASSUME pins' = pins, (Behind(s)' <=> Behind(s))
      PROVE  AbstractStep
  <2>1. SidesBehind' = SidesBehind
    BY <1>4, <1>5, SameBehind
  <2>2. Order' = Order
    BY <1>1, <1>2, <1>5, SameKey
  <2>3. QED
    BY <1>5, <2>1, <2>2 DEF AbstractStep
<1>6. pc[s] \in DrivePC => /\ Posted(s) /\ key \in DriveKey
                           /\ switchVar[s] = CommandOf(key)
                           /\ cmd[s] = CommandOf(key)
                           /\ Behind(s)
  <2>1. ASSUME pc[s] \in DrivePC
        PROVE  Posted(s) /\ Executing(s) /\ cmd[s] \in DriveCommand
    BY <1>3, <2>1
       DEF PhaseInv, Taking, Finished, Resting, Between, OnTrace, DrivePC, TracePC
  <2>2. QED
    BY <2>1, CommandFacts, CommandsDiffer DEF Executing, Behind
<1>7. CASE Drive(s)
  <2>1. /\ pc[s] = "drive" /\ pins' = [pins EXCEPT ![s] = PinsOf(cmd[s])]
        /\ pc'[s] \in {"traceDuty", "ack"}
        /\ pc'[s] = "traceDuty" => cmd[s] = TraceLine
        /\ switchVar' = switchVar
    BY <1>3, <1>7 DEF Drive, Goto, globals, TypeInv, TypeOK, Thread
  <2>2. Posted(s) /\ key \in DriveKey /\ switchVar[s] = cmd[s]
        /\ cmd[s] = CommandOf(key) /\ Behind(s)
    BY <1>6, <2>1 DEF DrivePC
  <2>3. ~Behind(s)'
    BY <1>1, <1>2, <2>1, <2>2 DEF Behind, DrivePC, TracePC
  <2>4. s \in SidesBehind /\ SidesBehind' = SidesBehind \ {s}
    BY <1>4, <2>2, <2>3 DEF SidesBehind
  <2>5. Order' = Order /\ Order = PinsOf(cmd[s])
    BY <1>1, <1>2, <2>2, SameKey DEF Order
  <2>6. Wheels!Follow(s)
    BY <2>1, <2>4, <2>5 DEF Wheels!Follow
  <2>7. QED
    BY <2>6 DEF AbstractStep, Wheels!Next
<1>8. CASE Brake(s)
  <2>1. /\ pc[s] = "brake" /\ pins' = [pins EXCEPT ![s] = "brake"]
        /\ pc'[s] \in {"mark", "drive"}
    BY <1>3, <1>8 DEF Brake, AfterTests, Goto, TypeInv, TypeOK, Thread
  <2>2. Posted(s) /\ key \in DriveKey /\ Behind(s)
    BY <1>6, <2>1 DEF DrivePC
  <2>3. Behind(s)'
    BY <1>1, <1>2, <2>1, <2>2 DEF Behind, DrivePC
  <2>4. s \in SidesBehind /\ SidesBehind' = SidesBehind
    BY <1>4, <2>2, <2>3, SameBehind DEF SidesBehind
  <2>5. Order' = Order
    BY <1>1, <1>2, <2>2, SameKey
  <2>6. Wheels!Brake(s)
    BY <2>1, <2>4, <2>5 DEF Wheels!Brake
  <2>7. QED
    BY <2>6 DEF AbstractStep, Wheels!Next
<1>9. CASE TestFirst(s) \/ TestSecond(s) \/ ClearFirst(s) \/ ClearSecond(s)
           \/ MarkForward(s)
  <2>1. pc[s] \in DrivePC /\ pc'[s] \in DrivePC /\ pins' = pins
    BY <1>3, <1>9
       DEF TestFirst, TestSecond, ClearFirst, ClearSecond, MarkForward, AfterTests,
           Goto, motors, DrivePC, TypeInv, TypeOK, Thread
  <2>2. Behind(s)'
    BY <1>1, <1>2, <1>6, <2>1 DEF Behind
  <2>3. QED
    BY <1>5, <1>6, <2>1, <2>2
<1> USE DEF Goto, globals, motors, TypeInv, TypeOK, Thread
<1>10. CASE Fetch(s)
  <2>1. /\ pins' = pins /\ switchVar' = switchVar /\ pc[s] = "fetch"
        /\ pc'[s] = Case(s, switchVar[s])
    BY <1>3, <1>10 DEF Fetch
  <2>2. switchVar[s] \in Command
    BY <1>3
  <2>3. CASE ~Posted(s)
    <3>1. switchVar[s] = NoCommand
      BY <1>3, <2>1, <2>3 DEF PhaseInv, Resting, Between, OnTrace, TracePC
    <3>2. pc'[s] = "loop"
      BY <2>1, <2>2, <3>1, CaseFacts
    <3>3. Behind(s)' <=> Behind(s)
      BY <1>1, <1>2, <2>1, <2>3, <3>2 DEF Behind, TracePC
    <3>4. QED
      BY <1>5, <2>1, <3>3
  <2>4. CASE Posted(s) /\ key \in DriveKey
    <3>1. switchVar[s] \in DriveCommand \cup {NoCommand}
      BY <1>3, <2>1, <2>4, CommandFacts
         DEF PhaseInv, Taking, Executing, Finished, Between, OnTrace, DrivePC,
             TurnPC, TracePC
    <3>2. pc'[s] = IF switchVar[s] = NoCommand THEN "loop" ELSE "testFirst"
      BY <2>1, <2>2, <3>1, CaseFacts, CommandsDiffer
    <3>3. Behind(s)' <=> Behind(s)
      BY <1>1, <1>2, <2>1, <2>4, <3>2 DEF Behind, DrivePC, TracePC
    <3>4. QED
      BY <1>5, <2>1, <3>3
  <2>5. CASE key \notin DriveKey
    BY <1>1, <1>5, <2>1, <2>5 DEF Behind
  <2>6. QED
    BY <2>3, <2>4, <2>5
<1>11. CASE Speed(s) \/ TurnCase(s)
  <2>1. pc[s] \in TurnPC /\ pc'[s] \in TurnPC \cup {"ack"} /\ pins' = pins
    BY <1>3, <1>11 DEF Speed, TurnCase, Hold, TurnTest, SlowWheel, ReadCount,
                       WriteCount, RestoreDuty, TurnPC
  <2>2. Posted(s)
    BY <1>3, <2>1 DEF PhaseInv, Resting, Between, OnTrace, TurnPC, TracePC
  <2>3. ~Behind(s) /\ ~Behind(s)'
    BY <1>2, <2>1, <2>2 DEF Behind, TurnPC, DrivePC, TracePC
  <2>4. QED
    BY <1>5, <2>1, <2>3
<1>12. CASE TraceCase(s)
  <2>1. /\ pc[s] \in TracePC /\ pc'[s] \in TracePC \cup {"loop"}
        /\ pins' = pins /\ switchVar' = switchVar
        /\ pc'[s] = "loop" => ~Tracing(s)
    BY <1>3, <1>12
       DEF TraceCase, SetTraceDuty, SteerLeftWheel, SteerRightWheel, EvenLeftWheel,
           EvenRightWheel, TraceTest, LeaveOffLine, OnLineTest, TracePC
  <2>2. CASE ~Posted(s)
    <3>1. pc'[s] \in TracePC
      BY <1>3, <2>1, <2>2 DEF PhaseInv, Resting, Between, OnTrace, Tracing, TracePC
    <3>2. QED
      BY <1>1, <1>2, <1>5, <2>1, <2>2, <3>1 DEF Behind
  <2>3. CASE Posted(s) /\ pc'[s] \in TracePC
    <3>1. pc[s] \notin DrivePC \cup {"fetch", "loop"}
      BY <2>1 DEF DrivePC, TracePC
    <3>2. pc'[s] \notin DrivePC \cup {"fetch", "loop"}
      BY <2>3 DEF DrivePC, TracePC
    <3>3. Behind(s)' <=> Behind(s)
      BY <1>1, <1>2, <2>1, <2>3, <3>1, <3>2 DEF Behind
    <3>4. QED
      BY <1>5, <2>1, <3>3
  <2>4. CASE Posted(s) /\ pc'[s] = "loop"
    <3>1. switchVar[s] # TraceLine
      BY <2>1, <2>4 DEF Tracing
    <3>2. Taking(s)
      BY <1>3, <2>1, <2>4, <3>1
         DEF PhaseInv, Executing, Finished, Between, OnTrace, DrivePC, TurnPC, TracePC
    <3>3. switchVar[s] # NoCommand
      BY <3>2, CommandFacts, CommandsDiffer DEF Taking
    <3>4. (Behind(s) <=> key \in DriveKey) /\ (Behind(s)' <=> key \in DriveKey)
      BY <1>1, <1>2, <2>1, <2>4, <3>1, <3>3 DEF Behind
    <3>5. QED
      BY <1>5, <2>1, <3>4
  <2>5. QED
    BY <2>1, <2>2, <2>3, <2>4
<1>13. CASE Ack(s)
  <2>1. /\ pc[s] = "ack" /\ pc'[s] = "loop" /\ pins' = pins
        /\ switchVar'[s] = NoCommand
    BY <1>3, <1>13 DEF Ack
  <2>2. Posted(s)
    BY <1>3, <2>1 DEF PhaseInv, Resting, Between, OnTrace, TracePC
  <2>3. ~Behind(s) /\ ~Behind(s)'
    BY <1>2, <2>1, <2>2 DEF Behind, DrivePC, TracePC
  <2>4. QED
    BY <1>5, <2>1, <2>3
<1>14. CASE Loop(s)
  <2>1. /\ pc[s] = "loop" /\ pc'[s] = "fetch" /\ pins' = pins
        /\ switchVar' = switchVar
    BY <1>3, <1>14 DEF Loop
  <2>2. Behind(s)' <=> Behind(s)
    BY <1>1, <1>2, <2>1 DEF Behind, DrivePC, TracePC
  <2>3. QED
    BY <1>5, <2>1, <2>2
<1>15. QED
  BY <1>7, <1>8, <1>9, <1>10, <1>11, <1>12, <1>13, <1>14 DEF Motor, DriveCase

(* A key is read when no wheel is behind: a new order may be given. *)
LEMMA ReadOrder ==
  ASSUME PatientInv, Patient = TRUE, NEW k \in KeyChar, ReadKey(k)
  PROVE  AbstractStep
<1>1. /\ ~done /\ TypeInv
      /\ \A s \in Side : Resting(s) /\ Finished(s) /\ Posted(s) /\ PhaseInv(s)
      /\ pins["left"] = pins["right"] /\ PinInv
  BY ReadFinds DEF ReadKey, Goto, PatientInv, Posted, Side
<1>2. /\ UNCHANGED <<mode, switchVar, pins>>
      /\ \A t \in Side : pc'[t] = pc[t]
      /\ pc["key"] = "read" /\ pc'["key"] = AfterRead(k)
  BY <1>1 DEF ReadKey, Goto, globals, motors, TypeInv, TypeOK, Side, Thread
<1>3. SidesBehind = {}
  BY <1>1, FinishedNotBehind DEF SidesBehind
<1>4. Order = pins["left"]
  BY <1>1 DEF Order, PinInv, Side
<1>5. CASE Accepted(k) /\ k \in DriveKey
  <2>1. key' = k /\ pc'["key"] = "mark"
    BY <1>2, <1>5 DEF ReadKey, AfterRead, DriveKey
  <2>2. \A s \in Side : ~Posted(s)'
    BY <2>1 DEF Posted
  <2>3. Order' = PinsOf(CommandOf(k)) /\ CommandOf(key)' = CommandOf(k)
    BY <1>2, <1>5, <2>1 DEF Order, CommandOf, PinsOf
  <2>4. Order' \in PinState \ {"brake"}
    BY <2>3, PinsOfDirection
  <2>5. SidesBehind' = Side \/ (Order' = Order /\ SidesBehind' \in SUBSET Side)
    <3>1. ASSUME NEW s \in Side, ~Behind(s)'
          PROVE  Order' = Order
      <4>1. pc[s] \in TracePC /\ CommandOf(k) = TraceLine
        BY <1>2, <1>5, <2>1, <2>2, <2>3, <3>1 DEF Behind
      <4>2. pins[s] = "forward"
        BY <1>1, <4>1 DEF PhaseInv
      <4>3. PinsOf(CommandOf(k)) = "forward"
        BY <4>1 DEF PinsOf, TraceLine, StopCar, Backward
      <4>4. QED
        BY <1>1, <1>4, <2>3, <4>2, <4>3 DEF Side
    <3>2. QED
      BY <3>1 DEF SidesBehind
  <2>6. Wheels!Give(Order')
    BY <1>2, <1>3, <2>5 DEF Wheels!Give
  <2>7. QED
    BY <2>4, <2>6 DEF AbstractStep, Wheels!Next
<1>6. CASE Accepted(k) /\ k \notin DriveKey
  <2>1. key' = k
    BY <1>6 DEF ReadKey
  <2>2. SidesBehind' = {} /\ Order' = pins'["left"]
    BY <1>6, <2>1 DEF SidesBehind, Behind, Order
  <2>3. QED
    BY <1>2, <1>3, <1>4, <2>2 DEF AbstractStep
<1>7. CASE ~Accepted(k)
  <2>1. key' = key /\ pc'["key"] \in {"mode", "read"}
    BY <1>2, <1>7 DEF ReadKey, AfterRead
  <2>2. /\ CommandOf(key)' = CommandOf(key)
        /\ \A s \in Side : Posted(s)' /\ (Finished(s))'
    BY <1>1, <1>2, <2>1 DEF CommandOf, Posted, Finished, Between, OnTrace, Side
  <2>3. \A s \in Side : ~Behind(s)'
    BY <2>2 DEF Behind, Finished, Between, OnTrace, DrivePC, TracePC
  <2>4. SidesBehind' = {}
    BY <2>3 DEF SidesBehind
  <2>5. Order' = Order
    BY <1>2, <2>1, <2>2, SameKey
  <2>6. QED
    BY <1>2, <1>3, <2>4, <2>5 DEF AbstractStep
<1>8. QED
  BY <1>5, <1>6, <1>7

(* A mode changes no order, although it changes what 'w' stands for. *)
LEMMA ModeOrder ==
  ASSUME PatientInv, Patient = TRUE, NEW k \in KeyChar, ReadMode(k)
  PROVE  AbstractStep
<1>1. TypeInv /\ \A s \in Side : Finished(s) /\ Posted(s)
  BY ReadFinds DEF ReadMode, Goto, PatientInv, Posted, Side
<1>2. /\ UNCHANGED <<switchVar, pins, key>>
      /\ \A t \in Side : pc'[t] = pc[t]
      /\ pc'["key"] = "read"
  BY <1>1 DEF ReadMode, Goto, motors, TypeInv, TypeOK, Side, Thread
<1>3. SidesBehind = {}
  BY <1>1, FinishedNotBehind DEF SidesBehind
<1>4. \A s \in Side : Posted(s)' /\ (Finished(s))'
  BY <1>1, <1>2 DEF Posted, Finished, Between, OnTrace, Side
<1>5. \A s \in Side : ~Behind(s)'
  BY <1>4 DEF Behind, Finished, Between, OnTrace, DrivePC, TracePC
<1>6. SidesBehind' = {}
  BY <1>5 DEF SidesBehind
<1>7. PinsOf(CommandOf(key))' = PinsOf(CommandOf(key))
  BY <1>2 DEF PinsOf, CommandOf, StopCar, Forward, Backward, Faster, Slower,
              TurnLeft, TurnRight, TraceLine, NoCommand
<1>8. Order' = Order
  BY <1>2, <1>7 DEF Order
<1>9. QED
  BY <1>2, <1>3, <1>6, <1>8 DEF AbstractStep

(* Nor does writing the mailboxes: from behind an order that is not posted *)
(* to behind one that is.                                                  *)
LEMMA ActOrder ==
  ASSUME PatientInv, ActOnKey
  PROVE  AbstractStep
<1>1. /\ UNCHANGED <<pins, mode, key>> /\ TypeInv
      /\ \A t \in Side : pc'[t] = pc[t]
  BY DEF ActOnKey, MarkKey, PostRight, PostLeft, ReadTurns, WriteTurns, Goto,
         globals, motors, PatientInv, TypeInv, TypeOK, Thread, Side
<1>2. CommandOf(key)' = CommandOf(key)
  BY <1>1 DEF CommandOf
<1>3. Order' = Order
  BY <1>1, <1>2, SameKey
<1>4. ASSUME \A s \in Side : (Behind(s)' <=> Behind(s))
      PROVE  AbstractStep
  BY <1>1, <1>3, <1>4, SameBehind DEF AbstractStep
<1>5. CASE key \notin DriveKey
  BY <1>1, <1>4, <1>5 DEF Behind
<1>6. CASE key \in DriveKey
  <2>1. ~done /\ \A s \in Side : PhaseInv(s)
    BY <1>6 DEF PatientInv, KeyInv, DriveKey
  <2>2. ASSUME NEW s \in Side, switchVar'[s] = switchVar[s],
               Posted(s)' <=> Posted(s)
        PROVE  Behind(s)' <=> Behind(s)
    BY <1>1, <1>2, <2>2 DEF Behind
  <2>3. ASSUME NEW s \in Side, ~Posted(s), Posted(s)',
               switchVar'[s] = CommandOf(key)
        PROVE  Behind(s)' <=> Behind(s)
    <3>1. pc[s] \in {"fetch", "loop"} \cup TracePC
      BY <2>1, <2>3 DEF PhaseInv, Resting, Between, OnTrace
    <3>2. CommandOf(key) # NoCommand
      BY <1>6, CommandFacts, CommandsDiffer
    <3>3. QED
      BY <1>1, <1>2, <1>6, <2>3, <3>1, <3>2 DEF Behind, TracePC, DrivePC
  <2>4. CASE MarkKey
    <3>1. pc["key"] = "mark" /\ pc'["key"] = "postRight" /\ switchVar' = switchVar
      BY <1>1, <2>4 DEF MarkKey, Goto, TypeInv, TypeOK, Thread
    <3>2. \A s \in Side : (Posted(s)' <=> Posted(s))
      BY <3>1 DEF Posted
    <3>3. QED
      BY <1>4, <2>2, <3>1, <3>2
  <2>5. CASE PostRight
    <3>1. /\ pc["key"] = "postRight" /\ pc'["key"] = "postLeft"
          /\ switchVar'["right"] = CommandOf(key)
          /\ switchVar'["left"] = switchVar["left"]
      BY <1>1, <2>5 DEF PostRight, Goto, TypeInv, TypeOK, Thread, Side
    <3>2. /\ ~Posted("right") /\ Posted("right")'
          /\ ~Posted("left") /\ ~Posted("left")'
      BY <3>1 DEF Posted
    <3>3. QED
      BY <1>4, <2>2, <2>3, <3>1, <3>2 DEF Side
  <2>6. CASE PostLeft
    <3>1. /\ pc["key"] = "postLeft" /\ pc'["key"] \in {"exited", "countRead", "read"}
          /\ switchVar'["left"] = CommandOf(key)
          /\ switchVar'["right"] = switchVar["right"]
      BY <1>1, <2>6 DEF PostLeft, Goto, TypeInv, TypeOK, Thread, Side
    <3>2. /\ ~Posted("left") /\ Posted("left")'
          /\ Posted("right") /\ Posted("right")'
      BY <3>1 DEF Posted
    <3>3. QED
      BY <1>4, <2>2, <2>3, <3>1, <3>2 DEF Side
  <2>7. CASE ReadTurns \/ WriteTurns
    <3>1. /\ pc["key"] \in {"countRead", "countWrite"}
          /\ pc'["key"] \in {"countWrite", "read"} /\ switchVar' = switchVar
      BY <1>1, <2>7 DEF ReadTurns, WriteTurns, Goto, globals, TypeInv, TypeOK, Thread
    <3>2. \A s \in Side : Posted(s)' /\ Posted(s)
      BY <3>1 DEF Posted, Side
    <3>3. QED
      BY <1>4, <2>2, <3>1, <3>2
  <2>8. QED
    BY <2>4, <2>5, <2>6, <2>7 DEF ActOnKey
<1>7. QED
  BY <1>5, <1>6

(* After 'q' a motor thread leaves its pins alone.                         *)
LEMMA EndingMotor ==
  ASSUME OrderInv, done, NEW s \in Side, Motor(s)
  PROVE  pins' = pins /\ \A t \in Side : (Ending(t))'
<1>1. /\ \A t \in Side \ {s} : SideFrame(t)
      /\ TypeInv /\ Ending(s) /\ \A t \in Side : Ending(t)
      /\ switchVar[s] \in Command
  BY MotorFrame DEF OrderInv, PatientInv, TypeInv, TypeOK
<1>2. \A t \in Side \ {s} : (Ending(t))'
  BY <1>1 DEF Ending, SideFrame
<1> USE <1>1 DEF Ending, TracePC, Goto, globals, motors, TypeInv, TypeOK, Thread
<1>3. CASE Fetch(s)
  <2>1. pc'[s] = "loop" /\ pins' = pins
    BY <1>3, CaseFacts DEF Fetch
  <2>2. QED
    BY <1>2, <2>1
<1>4. CASE Loop(s)
  <2>1. pc'[s] = "exited" /\ pins' = pins
    BY <1>4 DEF Loop
  <2>2. QED
    BY <1>2, <2>1
<1>5. CASE TraceCase(s)
  <2>1. pc'[s] \in TracePC \cup {"loop"} /\ pins' = pins
    BY <1>5 DEF TraceCase, SetTraceDuty, SteerLeftWheel, SteerRightWheel,
                EvenLeftWheel, EvenRightWheel, TraceTest, LeaveOffLine, OnLineTest
  <2>2. QED
    BY <1>2, <2>1
<1>6. ~DriveCase(s) /\ ~Speed(s) /\ ~TurnCase(s) /\ ~Ack(s)
  BY DEF DriveCase, TestFirst, TestSecond, ClearFirst, ClearSecond, Brake,
         MarkForward, Drive, Speed, TurnCase, Hold, TurnTest, SlowWheel, ReadCount,
         WriteCount, RestoreDuty, Ack
<1>7. QED
  BY <1>3, <1>4, <1>5, <1>6 DEF Motor

LEMMA EndingKept ==
  ASSUME Patient = TRUE, OrderInv, [Next]_vars, done'
  PROVE  \A t \in Side : (Ending(t))'
<1>1. TypeInv /\ KeyInv
  BY DEF OrderInv, PatientInv
<1>2. ASSUME done, NEW s \in Side, Motor(s)
      PROVE  \A t \in Side : (Ending(t))'
  BY <1>2, EndingMotor
<1>3. ASSUME NEW s \in Side, Motor(s)
      PROVE  done
  BY <1>1, <1>3, MotorFrame
<1>4. ASSUME done, \A t \in Side : pc'[t] = pc[t],
             \A t \in Side : switchVar'[t] \in {switchVar[t], NoCommand}
      PROVE  \A t \in Side : (Ending(t))'
  BY <1>4 DEF OrderInv, Ending
<1>5. ASSUME NEW k \in KeyChar, ReadKey(k) \/ ReadMode(k)
      PROVE  FALSE
  BY <1>5, ReadFinds DEF OrderInv, ReadKey, ReadMode, Goto, globals
<1>6. CASE ActOnKey
  <2>1. \A t \in Side : pc'[t] = pc[t]
    BY <1>1, <1>6 DEF ActOnKey, MarkKey, PostRight, PostLeft, ReadTurns, WriteTurns,
                      Goto, TypeInv, TypeOK, Thread, Side
  <2>2. CASE done
    <3>1. pc["key"] \in {"postRight", "postLeft"} /\ CommandOf(key) = NoCommand
      BY <1>1, <1>6, <2>2 DEF KeyInv, ActOnKey, MarkKey, PostRight, PostLeft,
                              ReadTurns, WriteTurns, Goto, CommandOf
    <3>2. \A t \in Side : switchVar'[t] \in {switchVar[t], NoCommand}
      BY <1>1, <1>6, <3>1 DEF ActOnKey, MarkKey, PostRight, PostLeft, ReadTurns,
                              WriteTurns, Goto, TypeInv, TypeOK, Side
    <3>3. QED
      BY <1>4, <2>1, <2>2, <3>2
  <2>3. CASE ~done
    <3>1. MarkKey /\ pc["key"] = "mark"
      BY <1>6, <2>3 DEF ActOnKey, PostRight, PostLeft, ReadTurns, WriteTurns,
                        globals, MarkKey, Goto
    <3>2. \A s \in Side : Resting(s)
      BY <2>3, <3>1 DEF OrderInv, PatientInv, PhaseInv, Posted
    <3>3. switchVar' = switchVar
      BY <3>1 DEF MarkKey
    <3>4. QED
      BY <2>1, <3>2, <3>3 DEF Resting, Between, OnTrace, Ending
  <2>4. QED
    BY <2>2, <2>3
<1>7. CASE imuHandle \/ main
  BY <1>1, <1>4, <1>7 DEF imuHandle, main, Goto, globals, TypeInv, TypeOK, Thread, Side
<1>8. CASE UNCHANGED vars
  BY <1>4, <1>8 DEF vars
<1>9. QED
  BY <1>2, <1>3, <1>5, <1>6, <1>7, <1>8
     DEF Next, leftHandle, rightHandle, ThreadKey, Terminated, Side

LEMMA OrderStep ==
  ASSUME Patient = TRUE, OrderInv, [Next]_vars
  PROVE  AbstractStep
<1>1. PatientInv /\ TypeInv /\ KeyInv
  BY DEF OrderInv, PatientInv
<1>2. ASSUME UNCHANGED <<globals, pins, key>>,
             \A t \in Side \cup {"key"} : pc'[t] = pc[t]
      PROVE  AbstractStep
  BY <1>2 DEF AbstractStep, SidesBehind, Behind, Posted, Order, CommandOf, globals,
              Side
<1>3. ASSUME NEW s \in Side, Motor(s)
      PROVE  AbstractStep
  <2>1. CASE ~done
    BY <1>1, <1>3, <2>1, MotorOrder
  <2>2. CASE done
    <3>1. key' = key /\ key \notin DriveKey /\ pins' = pins
      BY <1>1, <1>3, <2>2, MotorFrame, EndingMotor DEF KeyInv, DriveKey
    <3>2. SidesBehind' = {} /\ Order' = pins'["left"]
      BY <3>1 DEF SidesBehind, Behind, Order
    <3>3. QED
      BY <3>1, <3>2, OtherKeyOrder DEF AbstractStep
  <2>3. QED
    BY <2>1, <2>2
<1>4. CASE ThreadKey
  BY <1>1, <1>4, ReadOrder, ModeOrder, ActOrder DEF ThreadKey
<1>5. CASE imuHandle
  BY <1>1, <1>2, <1>5 DEF imuHandle, Goto, motors, TypeInv, TypeOK, Side, Thread
<1>6. CASE main
  <2>1. pc["left"] = "exited" /\ pc["right"] = "exited"
    BY <1>6 DEF main, Joined, Thread, Side
  <2>2. done
    BY <1>1, <2>1 DEF PatientInv, PhaseInv, Taking, Executing, Finished, Resting,
                      Between, OnTrace, DrivePC, TurnPC, TracePC, Side
  <2>3. key \notin DriveKey /\ key' = key /\ pins' = [s \in Side |-> "stop"]
    BY <1>1, <1>6, <2>2 DEF main, KeyInv, DriveKey
  <2>4. SidesBehind = {} /\ SidesBehind' = {} /\ Order' = "stop"
    BY <2>3 DEF SidesBehind, Behind, Order, Side
  <2>5. Wheels!SwitchOff("stop")
    BY <2>3, <2>4 DEF Wheels!SwitchOff
  <2>6. QED
    BY <2>5 DEF AbstractStep, Wheels!Next, PinState
<1>7. CASE UNCHANGED vars
  BY <1>2, <1>7 DEF vars, globals
<1>8. QED
  BY <1>3, <1>4, <1>5, <1>6, <1>7 DEF Next, leftHandle, rightHandle, Terminated, Side

(* For a patient user the two motor threads and their two mailboxes drive  *)
(* the car as one pair of wheels: every order is followed by each wheel    *)
(* once, with at most a brake before it, before the next one is given, and *)
(* neither speed, turns, modes nor 'q' change a wheel's direction.         *)
THEOREM PatientDriveImplemented ==
  ASSUME Patient = TRUE
  PROVE  Spec => ImplementsWheels
<1>1. Init => OrderInv /\ Wheels!Init
  <2> SUFFICES ASSUME Init
               PROVE  OrderInv /\ Wheels!Init
    OBVIOUS
  <2>1. OrderInv
    BY InitPatient DEF Init, OrderInv
  <2>2. key \notin DriveKey /\ pins = [s \in Side |-> "brake"]
    BY DEF Init, DriveKey
  <2>3. SidesBehind = {} /\ Order = "brake"
    BY <2>2, OtherKeyOrder DEF Side
  <2>4. Wheels!Init
    BY <2>2, <2>3 DEF Wheels!Init
  <2>5. QED
    BY <2>1, <2>4
<1>2. OrderInv /\ [Next]_vars => OrderInv'
  BY PatientNext, EndingKept DEF OrderInv
<1>3. OrderInv /\ [Next]_vars => [Wheels!Next]_<<Order, SidesBehind, pins>>
  BY OrderStep DEF AbstractStep
<1>4. QED
  BY <1>1, <1>2, <1>3, PTL DEF Spec, ImplementsWheels, Wheels!Spec
=============================================================================
