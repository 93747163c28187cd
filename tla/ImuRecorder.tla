----------------------------- MODULE ImuRecorder -----------------------------
(***************************************************************************)
(* The IMU thread of src/hw7Damico/hw7Damico.c.  Twenty times a second it  *)
(* takes a reading and, depending on the mode flags and on forward1, adds  *)
(* the accelerometer half and then the magnetometer half of a line to a    *)
(* report, adds the reading to a distance (in m2 also to the path map),    *)
(* and writes it to a file.  Each of the four parts tests the globals      *)
(* again, while the key thread sets three mode flags one after the other   *)
(* and the motor threads set and clear forward1.  Each step makes one      *)
(* access to one of these globals.                                         *)
(***************************************************************************)
EXTENDS Integers, Sequences

CONSTANTS
  ReadingsPerCell,  (* at which m2Counter a cell of the map is plotted: 20 *)
  TopRow,           (* the rows where the path turns round: 2 ...          *)
  BottomRow,        (* ... and 18                                          *)
  FirstRow,         (* where it begins: 17                                 *)
  MaxDrift          (* how many columns the path may drift: a bound        *)

ASSUME ConstantsAssumption ==
  /\ ReadingsPerCell \in Nat \ {0}
  /\ TopRow \in Nat /\ BottomRow \in Nat
  /\ FirstRow \in TopRow + 1 .. BottomRow
  /\ MaxDrift \in Nat

Mode   == {"m0", "m1", "m2"}
Report == {"m1", "m2"}

(* The parts of a reading, in their order. *)
Part == {"acc", "mag", "distance", "file"}
NextPart == [acc |-> "mag", mag |-> "distance", distance |-> "file",
             file |-> "sleep"]

VARIABLES
  mode,       (* the flags m0, m1, m2                                    *)
  forward1,   (* whether forward1 is 1                                   *)
  done,       (* set by 'q'                                              *)
  writes,     (* the mode flags the key thread has still to write        *)
  pc,         (* where the IMU thread is: a part, or between readings    *)
  test,       (* in a part: the mode it tests, and which of its globals  *)
  chosen,     (* where the parts of the current reading went             *)
  openLine,   (* the reports that end with the first half of a line      *)
  m2Counter,  (* readings in m2 since the last cell of the map           *)
  row,        (* mapIndexI                                               *)
  column,     (* mapIndexJ                                               *)
  up,         (* whether the path goes up the map                        *)
  drift,      (* history: how often the column has moved                 *)
  steady      (* history: no flag was written since the reading began    *)

flags == <<mode, forward1, done, writes, steady>>
map   == <<m2Counter, row, column, up, drift>>
vars  == <<flags, pc, test, chosen, openLine, map>>

FirstTest(p) == [mode |-> IF p = "file" THEN "m0" ELSE "m1", global |-> "mode"]

Init ==
  /\ mode = [m \in Mode |-> FALSE]
  /\ forward1 = FALSE
  /\ done = FALSE
  /\ writes = << >>
  /\ pc = "begin"
  /\ test = FirstTest("acc")
  /\ chosen = [p \in Part |-> "none"]
  /\ openLine = {}
  /\ m2Counter = 0
  /\ row = FirstRow
  /\ column = 3
  /\ up = TRUE
  /\ drift = 0
  /\ steady = TRUE

-----------------------------------------------------------------------------
(* The threads beside it.                                                  *)

imu == <<pc, test, chosen, openLine, map>>

Write(f, m) == [flag |-> f, value |-> f = m]

(* 'm' and a digit: three flags are written, always in this order. *)
ChooseMode(m) ==
  /\ ~done /\ writes = << >>
  /\ writes' = <<Write("m1", m), Write("m2", m), Write("m0", m)>>
  /\ UNCHANGED <<mode, forward1, done, steady, imu>>

WriteMode ==
  /\ writes # << >>
  /\ mode' = [mode EXCEPT ![Head(writes).flag] = Head(writes).value]
  /\ writes' = Tail(writes)
  /\ steady' = FALSE
  /\ UNCHANGED <<forward1, done, imu>>

(* By 'w', by a motor thread that stops, reverses or begins to trace. *)
SetForward ==
  /\ forward1' = ~forward1
  /\ steady' = FALSE
  /\ UNCHANGED <<mode, done, writes, imu>>

Quit ==
  /\ ~done /\ writes = << >>
  /\ done' = TRUE
  /\ UNCHANGED <<mode, forward1, writes, steady, imu>>

-----------------------------------------------------------------------------
(* The path map: one step a second while the car traces the line.          *)

(* Mutant: the path turns round one row late. *)
Heading_Late(r) == IF r < TopRow THEN FALSE ELSE IF r > BottomRow THEN TRUE ELSE up

(* up, after the path has come to row r. *)
Heading(r) == IF r <= TopRow THEN FALSE ELSE IF r >= BottomRow THEN TRUE ELSE up

(* far: the car has gone far enough for a row; side: or for a column. *)
PlotCell(far, side) ==
  /\ row' = IF ~far THEN row ELSE IF up THEN row - 1 ELSE row + 1
  /\ up' = IF far THEN Heading(row') ELSE up
  /\ column' = CASE side = "none"           -> column
                 [] side = "left" /\ up'    -> column + 1
                 [] OTHER                   -> column - 1
  /\ drift' = IF side = "none" THEN drift ELSE drift + 1
  /\ drift' <= MaxDrift

(* Mutant: the counter is not reset when a cell was plotted. *)
AddDistance_NoReset(m) ==
  IF m # "m2" THEN UNCHANGED map
  ELSE /\ m2Counter' = m2Counter + 1
       /\ IF m2Counter + 1 < ReadingsPerCell
            THEN UNCHANGED <<row, column, up, drift>>
            ELSE \E far \in BOOLEAN, side \in {"left", "none", "right"} : PlotCell(far, side)

AddDistance(m) ==
  IF m # "m2" THEN UNCHANGED map
  ELSE IF m2Counter + 1 < ReadingsPerCell
    THEN m2Counter' = m2Counter + 1 /\ UNCHANGED <<row, column, up, drift>>
    ELSE /\ m2Counter' = 0
         /\ \E far \in BOOLEAN, side \in {"left", "none", "right"} : PlotCell(far, side)

-----------------------------------------------------------------------------
(* The IMU thread.                                                         *)

BeginReading ==
  /\ pc = "begin"
  /\ pc' = "acc"
  /\ chosen' = [p \in Part |-> "none"]
  /\ steady' = (writes = << >>)
  /\ UNCHANGED <<mode, forward1, done, writes, test, openLine, map>>

NextMode == [m0 |-> "m1", m1 |-> "m2"]

EndPart ==
  /\ pc' = NextPart[pc]
  /\ test' = FirstTest(pc')

(* The part goes to m: half a line, a summand, or a record of the file. *)
Take(m) ==
  /\ EndPart
  /\ chosen' = [chosen EXCEPT ![pc] = m]
  /\ openLine' = CASE pc = "acc" -> openLine \cup {m}
                   [] pc = "mag" -> openLine \ {m}
                   [] OTHER      -> openLine
  /\ IF pc = "distance" THEN AddDistance(m) ELSE UNCHANGED map

(* The condition is false: else if the next mode, if there is one. *)
Refuse ==
  /\ \/ test.mode = "m2" /\ EndPart
     \/ /\ test.mode # "m2"
        /\ test' = [mode |-> NextMode[test.mode], global |-> "mode"]
        /\ UNCHANGED pc
  /\ UNCHANGED <<chosen, openLine, map>>

(* m0 alone is enough for its file, the others need forward1, too. *)
TestMode ==
  /\ pc \in Part /\ test.global = "mode"
  /\ \/ ~mode[test.mode] /\ Refuse
     \/ mode[test.mode] /\ test.mode = "m0" /\ Take("m0")
     \/ /\ mode[test.mode] /\ test.mode # "m0"
        /\ test' = [test EXCEPT !.global = "forward1"]
        /\ UNCHANGED <<pc, chosen, openLine, map>>
  /\ UNCHANGED flags

(* Mutant: the second half of a line is appended whatever forward1 is. *)
TestForward_HalfTested ==
  /\ pc \in Part /\ test.global = "forward1"
  /\ IF forward1 \/ pc = "mag" THEN Take(test.mode) ELSE Refuse
  /\ UNCHANGED flags

TestForward ==
  /\ pc \in Part /\ test.global = "forward1"
  /\ IF forward1 THEN Take(test.mode) ELSE Refuse
  /\ UNCHANGED flags

Sleep ==
  /\ pc = "sleep"
  /\ pc' = IF done THEN "exited" ELSE "begin"
  /\ UNCHANGED <<flags, test, chosen, openLine, map>>

imuHandle == BeginReading \/ TestMode \/ TestForward \/ Sleep

-----------------------------------------------------------------------------
Second == 1000 * 1000   (* in microseconds *)

(* The time between two readings, in milliseconds, from what gettimeofday  *)
(* returned: seconds and microseconds now and before.                      *)
DeltaT(seconds, useconds, prevsecs, prevusecs, deltaT) ==
  CASE seconds - prevsecs = 0 -> (useconds - prevusecs) \div 1000
    [] seconds - prevsecs = 1 -> ((Second - prevusecs) + useconds) \div 1000
    [] OTHER                  -> deltaT

-----------------------------------------------------------------------------
Next ==
  \/ imuHandle
  \/ \E m \in Mode : ChooseMode(m)
  \/ WriteMode \/ SetForward \/ Quit

Spec == Init /\ [][Next]_vars

-----------------------------------------------------------------------------
(* Properties.                                                             *)

(* The type invariant. *)
TypeOK ==
  /\ mode \in [Mode -> BOOLEAN]
  /\ forward1 \in BOOLEAN
  /\ done \in BOOLEAN
  /\ writes \in Seq([flag : Mode, value : BOOLEAN])
  /\ pc \in Part \cup {"begin", "sleep", "exited"}
  /\ test \in [mode : Mode, global : {"mode", "forward1"}]
  /\ chosen \in [Part -> Mode \cup {"none"}]
  /\ openLine \in SUBSET Report
  /\ m2Counter \in 0..ReadingsPerCell - 1
  /\ row \in Int /\ column \in Int
  /\ up \in BOOLEAN
  /\ drift \in 0..MaxDrift
  /\ steady \in BOOLEAN

(* A reading during which no thread writes a flag is recorded as a whole:  *)
(* report, distance and file take it for the same mode, or none does, but  *)
(* for m0, which has a file only; and its line of the report is complete.  *)
WholeReading ==
  pc = "sleep" /\ steady =>
    /\ chosen["acc"] = chosen["mag"] /\ chosen["mag"] = chosen["distance"]
    /\ chosen["distance"] = "none" => chosen["file"] \in {"none", "m0"}
    /\ chosen["distance"] # "none" => /\ chosen["file"] = chosen["distance"]
                                      /\ chosen["acc"] \notin openLine

(* The path turns round before it leaves the rows it may use.              *)
RowOnMap == row \in TopRow..BottomRow

(* The path drawn on mapArr[20][20] stays on it.                           *)
ColumnOnMap == column \in 0..19
=============================================================================
