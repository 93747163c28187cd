-------------------------- MODULE ImuRecorderProofs --------------------------
(* What ImuRecorder guarantees for every size of the path map.             *)
EXTENDS ImuRecorder, SequenceTheorems, TLAPS

-----------------------------------------------------------------------------
(* Types: only the file tests m0, which has no report.                     *)

TypeInv ==
  /\ TypeOK
  /\ pc # "file" => test.mode # "m0"

LEMMA FirstTestType ==
  ASSUME NEW p
  PROVE  /\ FirstTest(p) \in [mode : Mode, global : {"mode", "forward1"}]
         /\ p # "file" => FirstTest(p).mode = "m1"
         /\ p = "file" => FirstTest(p).mode = "m0"
         /\ FirstTest(p).global = "mode"
  BY DEF FirstTest, Mode

LEMMA EndPartType ==
  ASSUME pc \in Part, EndPart
  PROVE  /\ pc' \in {"mag", "distance", "file", "sleep"}
         /\ test' \in [mode : Mode, global : {"mode", "forward1"}]
         /\ pc' # "file" => test'.mode # "m0"
  BY FirstTestType DEF EndPart, Part, NextPart

LEMMA InitType == Init => TypeInv
<1> SUFFICES ASSUME Init
             PROVE  TypeInv
  OBVIOUS
<1>1. test \in [mode : Mode, global : {"mode", "forward1"}] /\ test.mode = "m1"
  BY FirstTestType DEF Init
<1>2. m2Counter \in 0..ReadingsPerCell - 1 /\ row \in Int /\ drift \in 0..MaxDrift
  BY ConstantsAssumption DEF Init
<1>3. mode \in [Mode -> BOOLEAN] /\ chosen \in [Part -> Mode \cup {"none"}]
  BY DEF Init
<1>4. writes \in Seq([flag : Mode, value : BOOLEAN]) /\ openLine \in SUBSET Report
  BY DEF Init
<1>5. /\ forward1 \in BOOLEAN /\ done \in BOOLEAN /\ up \in BOOLEAN /\ steady \in BOOLEAN
  BY DEF Init
<1>6. pc \in Part \cup {"begin", "sleep", "exited"} /\ column \in Int
  BY DEF Init
<1>7. QED
  BY <1>1, <1>2, <1>3, <1>4, <1>5, <1>6 DEF TypeInv, TypeOK

LEMMA AddDistanceType ==
  ASSUME TypeOK, NEW m, AddDistance(m)
  PROVE  /\ m2Counter' \in 0..ReadingsPerCell - 1
         /\ row' \in Int /\ column' \in Int /\ up' \in BOOLEAN
         /\ drift' \in 0..MaxDrift
<1>1. ASSUME NEW far \in BOOLEAN, NEW side, PlotCell(far, side)
      PROVE  row' \in Int /\ column' \in Int /\ up' \in BOOLEAN /\ drift' \in 0..MaxDrift
  <2>1. row' \in Int
    BY <1>1 DEF PlotCell, TypeOK
  <2>2. up' \in BOOLEAN
    BY <1>1 DEF PlotCell, Heading, TypeOK
  <2>3. column' \in {column, column + 1, column - 1}
    BY <1>1 DEF PlotCell
  <2>4. drift' \in {drift, drift + 1} /\ drift' <= MaxDrift
    BY <1>1 DEF PlotCell
  <2>5. QED
    BY <2>1, <2>2, <2>3, <2>4, ConstantsAssumption DEF TypeOK
<1>2. CASE UNCHANGED map
  BY <1>2 DEF map, TypeOK
<1>3. CASE m2Counter' = m2Counter + 1 /\ m2Counter + 1 < ReadingsPerCell
           /\ UNCHANGED <<row, column, up, drift>>
  BY <1>3, ConstantsAssumption DEF TypeOK
<1>4. ASSUME m2Counter' = 0, NEW far \in BOOLEAN, NEW side, PlotCell(far, side)
      PROVE  /\ m2Counter' \in 0..ReadingsPerCell - 1
             /\ row' \in Int /\ column' \in Int /\ up' \in BOOLEAN
             /\ drift' \in 0..MaxDrift
  BY <1>1, <1>4, ConstantsAssumption
<1>5. QED
  BY <1>2, <1>3, <1>4 DEF AddDistance

LEMMA TakeType ==
  ASSUME TypeInv, pc \in Part, NEW m \in Mode, m = "m0" => pc = "file",
         Take(m), UNCHANGED flags
  PROVE  TypeInv'
<1>1. /\ pc' \in {"mag", "distance", "file", "sleep"}
      /\ test' \in [mode : Mode, global : {"mode", "forward1"}]
      /\ pc' # "file" => test'.mode # "m0"
  BY EndPartType DEF Take
<1>2. chosen' \in [Part -> Mode \cup {"none"}]
  BY DEF Take, TypeInv, TypeOK
<1>3. openLine' \in SUBSET Report
  <2>1. openLine' \in {openLine \cup {m}, openLine \ {m}, openLine}
    BY DEF Take
  <2>3. pc = "acc" => m \in Report
    BY DEF Mode, Report
  <2>4. pc # "acc" => openLine' \in {openLine \ {m}, openLine}
    BY DEF Take
  <2>5. QED
    BY <2>1, <2>3, <2>4 DEF TypeInv, TypeOK
<1>4. /\ m2Counter' \in 0..ReadingsPerCell - 1
      /\ row' \in Int /\ column' \in Int /\ up' \in BOOLEAN
      /\ drift' \in 0..MaxDrift
  <2>1. CASE AddDistance(m)
    BY <2>1, AddDistanceType DEF TypeInv
  <2>2. CASE UNCHANGED map
    BY <2>2 DEF map, TypeInv, TypeOK
  <2>3. QED
    BY <2>1, <2>2 DEF Take
<1>5. QED
  BY <1>1, <1>2, <1>3, <1>4 DEF TypeInv, TypeOK, flags, Part

LEMMA RefuseType ==
  ASSUME TypeInv, pc \in Part, Refuse, UNCHANGED flags
  PROVE  TypeInv'
<1>1. CASE EndPart
  BY <1>1, EndPartType DEF Refuse, flags, map, TypeInv, TypeOK, Part
<1>2. CASE /\ test' = [mode |-> NextMode[test.mode], global |-> "mode"]
           /\ test.mode # "m2" /\ UNCHANGED pc
  <2>1. NextMode[test.mode] \in {"m1", "m2"}
    BY <1>2 DEF NextMode, TypeInv, TypeOK, Mode
  <2>2. QED
    BY <1>2, <2>1 DEF Refuse, flags, map, TypeInv, TypeOK, Mode
<1>3. QED
  BY <1>1, <1>2 DEF Refuse

LEMMA NextType == TypeInv /\ [Next]_vars => TypeInv'
<1> SUFFICES ASSUME TypeInv, [Next]_vars
             PROVE  TypeInv'
  OBVIOUS
<1>1. CASE BeginReading
  BY <1>1 DEF BeginReading, map, TypeInv, TypeOK, Part, Mode
<1>2. CASE TestMode
  <2>1. CASE test.mode = "m0" /\ Take("m0")
    BY <1>2, <2>1, TakeType DEF TestMode, TypeInv, Mode
  <2>2. CASE Refuse
    BY <1>2, <2>2, RefuseType DEF TestMode
  <2>3. CASE /\ test' = [test EXCEPT !.global = "forward1"]
             /\ UNCHANGED <<pc, chosen, openLine, map>>
    BY <1>2, <2>3 DEF TestMode, flags, map, TypeInv, TypeOK
  <2>4. QED
    BY <1>2, <2>1, <2>2, <2>3 DEF TestMode
<1>3. CASE TestForward
  <2>1. CASE Take(test.mode)
    BY <1>3, <2>1, TakeType DEF TestForward, TypeInv, TypeOK
  <2>2. CASE Refuse
    BY <1>3, <2>2, RefuseType DEF TestForward
  <2>3. QED
    BY <1>3, <2>1, <2>2 DEF TestForward
<1>4. CASE Sleep
  BY <1>4 DEF Sleep, flags, map, TypeInv, TypeOK, Part
<1>5. ASSUME NEW m \in Mode, ChooseMode(m)
      PROVE  TypeInv'
  <2>1. \A f \in Mode : Write(f, m) \in [flag : Mode, value : BOOLEAN]
    BY DEF Write
  <2>2. writes' \in Seq([flag : Mode, value : BOOLEAN])
    BY <1>5, <2>1 DEF ChooseMode, Mode
  <2>3. QED
    BY <1>5, <2>2 DEF ChooseMode, imu, map, TypeInv, TypeOK
<1>6. CASE WriteMode
  <2>1. writes \in Seq([flag : Mode, value : BOOLEAN]) /\ writes # << >>
    BY <1>6 DEF WriteMode, TypeInv, TypeOK
  <2>2. Head(writes) \in [flag : Mode, value : BOOLEAN]
    BY <2>1, HeadTailProperties
  <2>3. Tail(writes) \in Seq([flag : Mode, value : BOOLEAN])
    BY <2>1, HeadTailProperties
  <2>4. mode' \in [Mode -> BOOLEAN]
    BY <1>6, <2>2 DEF WriteMode, TypeInv, TypeOK
  <2>5. QED
    BY <1>6, <2>3, <2>4 DEF WriteMode, imu, map, TypeInv, TypeOK
<1>7. CASE SetForward \/ Quit
  BY <1>7 DEF SetForward, Quit, imu, map, TypeInv, TypeOK
<1>8. CASE UNCHANGED vars
  BY <1>8 DEF vars, flags, map, TypeInv, TypeOK
<1>9. QED
  BY <1>1, <1>2, <1>3, <1>4, <1>5, <1>6, <1>7, <1>8 DEF Next, imuHandle

(* Every variable keeps its type: the counter of the map's readings stays  *)
(* below the number of readings in a cell, and a report is never the m0    *)
(* file.                                                                   *)
THEOREM TypeCorrect == Spec => []TypeOK
<1>1. Init => TypeInv
  BY InitType
<1>2. TypeInv /\ [Next]_vars => TypeInv'
  BY NextType
<1>3. TypeInv => TypeOK
  BY DEF TypeInv
<1>4. QED
  BY <1>1, <1>2, <1>3, PTL DEF Spec

-----------------------------------------------------------------------------
(* A reading that nobody interferes with.                                  *)

OneMode == \A a, b \in Mode : mode[a] /\ mode[b] => a = b

(* Where the key thread is between its three writes. *)
WritesInv ==
  \/ writes = << >> /\ OneMode
  \/ \E m \in Mode :
       \/ writes = <<Write("m1", m), Write("m2", m), Write("m0", m)>> /\ OneMode
       \/ /\ writes = <<Write("m2", m), Write("m0", m)>>
          /\ mode["m1"] <=> m = "m1"
       \/ /\ writes = <<Write("m0", m)>>
          /\ mode["m1"] <=> m = "m1"
          /\ mode["m2"] <=> m = "m2"

(* Where part p of a reading goes while no flag changes. *)
Dest(p) ==
  IF p = "file" /\ mode["m0"] THEN "m0"
  ELSE IF forward1 /\ mode["m1"] THEN "m1"
  ELSE IF forward1 /\ mode["m2"] THEN "m2" ELSE "none"

(* The parts behind the thread went where the flags say, the others are    *)
(* still open; the tests of the current part have failed so far; and the   *)
(* line of the report is complete after the second part.                   *)
PartsInv ==
  /\ chosen["acc"] = IF pc = "acc" THEN "none" ELSE Dest("acc")
  /\ chosen["mag"] = IF pc \in {"acc", "mag"} THEN "none" ELSE Dest("mag")
  /\ chosen["distance"] = IF pc \in {"file", "sleep"} THEN Dest("distance")
                          ELSE "none"
  /\ chosen["file"] = IF pc = "sleep" THEN Dest("file") ELSE "none"
  /\ pc \in {"distance", "file", "sleep"} => chosen["acc"] \notin openLine

TestsInv ==
  /\ pc = "file" /\ test.mode # "m0" => ~mode["m0"]
  /\ test.mode = "m2" => ~(mode["m1"] /\ forward1)
  /\ test.global = "forward1" => mode[test.mode] /\ test.mode # "m0"

ReadingInv ==
  /\ TypeInv
  /\ WritesInv
  /\ pc \in {"begin", "sleep"} => test = FirstTest("acc")
  /\ steady => OneMode
  /\ steady /\ pc \in Part => PartsInv /\ TestsInv
  /\ steady /\ pc = "sleep" => PartsInv

LEMMA Three ==
  ASSUME NEW a, NEW b, NEW c
  PROVE  Head(<<a, b, c>>) = a /\ Tail(<<a, b, c>>) = <<b, c>> /\ <<a, b, c>> # << >>
  OBVIOUS

LEMMA Two ==
  ASSUME NEW a, NEW b
  PROVE  Head(<<a, b>>) = a /\ Tail(<<a, b>>) = <<b>> /\ <<a, b>> # << >>
  OBVIOUS

LEMMA One ==
  ASSUME NEW a
  PROVE  Head(<<a>>) = a /\ Tail(<<a>>) = << >> /\ <<a>> # << >>
  OBVIOUS

LEMMA WritesKept == TypeInv /\ WritesInv /\ [Next]_vars => WritesInv'
<1> SUFFICES ASSUME TypeInv, WritesInv, [Next]_vars
             PROVE  WritesInv'
  OBVIOUS
<1>1. ASSUME UNCHANGED <<mode, writes>>
      PROVE  WritesInv'
  BY <1>1 DEF WritesInv, OneMode
<1>2. ASSUME NEW m \in Mode, ChooseMode(m)
      PROVE  WritesInv'
  <2>1. OneMode' /\ writes' = <<Write("m1", m), Write("m2", m), Write("m0", m)>>
    BY <1>2 DEF ChooseMode, WritesInv, OneMode
  <2>2. QED
    BY <2>1 DEF WritesInv, Write
<1>3. CASE WriteMode
  <2>1. PICK m \in Mode :
          \/ writes = <<Write("m1", m), Write("m2", m), Write("m0", m)>> /\ OneMode
          \/ /\ writes = <<Write("m2", m), Write("m0", m)>>
             /\ mode["m1"] <=> m = "m1"
          \/ /\ writes = <<Write("m0", m)>>
             /\ mode["m1"] <=> m = "m1"
             /\ mode["m2"] <=> m = "m2"
    BY <1>3 DEF WritesInv, WriteMode
  <2>2. mode \in [Mode -> BOOLEAN]
    BY DEF TypeInv, TypeOK
  <2>3. \A f : Write(f, m).flag = f /\ (Write(f, m).value <=> f = m)
    BY DEF Write
  <2>4. CASE writes = <<Write("m1", m), Write("m2", m), Write("m0", m)>>
    <3>1. /\ writes' = <<Write("m2", m), Write("m0", m)>>
          /\ mode' = [mode EXCEPT !["m1"] = Write("m1", m).value]
      <4>1. /\ mode' = [mode EXCEPT ![Head(writes).flag] = Head(writes).value]
            /\ writes' = Tail(writes)
        BY <1>3 DEF WriteMode
      <4>2. Head(writes) = Write("m1", m)
        BY <2>4, Three
      <4>3. Tail(writes) = <<Write("m2", m), Write("m0", m)>>
        BY <2>4, Three
      <4>4. QED
        BY <2>3, <4>1, <4>2, <4>3
    <3>2. mode'["m1"] <=> m = "m1"
      BY <2>2, <2>3, <3>1 DEF Mode
    <3>3. QED
      BY <3>1, <3>2 DEF WritesInv, Write
  <2>5. CASE writes = <<Write("m2", m), Write("m0", m)>> /\ (mode["m1"] <=> m = "m1")
    <3>1. /\ writes' = <<Write("m0", m)>>
          /\ mode' = [mode EXCEPT !["m2"] = Write("m2", m).value]
      <4>1. /\ mode' = [mode EXCEPT ![Head(writes).flag] = Head(writes).value]
            /\ writes' = Tail(writes)
        BY <1>3 DEF WriteMode
      <4>2. Head(writes) = Write("m2", m)
        BY <2>5, Two
      <4>3. QED
        BY <2>3, <2>5, <4>1, <4>2, Two
    <3>2. (mode'["m1"] <=> m = "m1") /\ (mode'["m2"] <=> m = "m2")
      BY <2>2, <2>3, <2>5, <3>1 DEF Mode
    <3>3. QED
      BY <3>1, <3>2 DEF WritesInv, Write
  <2>6. CASE /\ writes = <<Write("m0", m)>>
             /\ mode["m1"] <=> m = "m1"
             /\ mode["m2"] <=> m = "m2"
    <3>1. /\ writes' = << >>
          /\ mode' = [mode EXCEPT !["m0"] = Write("m0", m).value]
      <4>1. /\ mode' = [mode EXCEPT ![Head(writes).flag] = Head(writes).value]
            /\ writes' = Tail(writes)
        BY <1>3 DEF WriteMode
      <4>2. Head(writes) = Write("m0", m)
        BY <2>6, One
      <4>3. QED
        BY <2>3, <2>6, <4>1, <4>2, One
    <3>2. \A f \in Mode : mode'[f] <=> m = f
      BY <2>2, <2>3, <2>6, <3>1 DEF Mode
    <3>3. OneMode'
      BY <3>2 DEF OneMode
    <3>4. QED
      BY <3>1, <3>3 DEF WritesInv
  <2>7. QED
    BY <2>1, <2>4, <2>5, <2>6
<1>4. CASE imuHandle
  BY <1>1, <1>4 DEF imuHandle, BeginReading, TestMode, TestForward, Sleep, flags
<1>5. CASE SetForward \/ Quit
  BY <1>1, <1>5 DEF SetForward, Quit
<1>6. CASE UNCHANGED vars
  BY <1>1, <1>6 DEF vars, flags
<1>7. QED
  BY <1>2, <1>3, <1>4, <1>5, <1>6 DEF Next

(* A part ends where the flags say: as it was taken, or not at all.        *)
LEMMA PartEnds ==
  ASSUME ReadingInv, steady, pc \in Part, EndPart, UNCHANGED flags,
         chosen' = [chosen EXCEPT ![pc] = Dest(pc)],
         openLine' \in SUBSET Report,
         pc = "mag" => Dest("mag") \notin openLine',
         pc \in {"distance", "file"} => openLine' = openLine
  PROVE  /\ pc' \in Part => PartsInv' /\ TestsInv'
         /\ pc' = "sleep" => PartsInv' /\ test' = FirstTest("acc")
<1>1. \A p : Dest(p)' = Dest(p)
  BY DEF flags, Dest
<1>2. chosen \in [Part -> Mode \cup {"none"}] /\ PartsInv
  BY DEF ReadingInv, TypeInv, TypeOK
<1>3. PartsInv'
  <2>1. Dest("acc") = Dest("mag")
    BY DEF Dest
  <2>2. CASE pc = "acc"
    BY <1>1, <1>2, <2>2 DEF PartsInv, EndPart, NextPart, Part
  <2>3. CASE pc = "mag"
    BY <1>1, <1>2, <2>1, <2>3 DEF PartsInv, EndPart, NextPart, Part
  <2>4. CASE pc = "distance"
    BY <1>1, <1>2, <2>4 DEF PartsInv, EndPart, NextPart, Part
  <2>5. CASE pc = "file"
    BY <1>1, <1>2, <2>5 DEF PartsInv, EndPart, NextPart, Part
  <2>6. QED
    BY <2>2, <2>3, <2>4, <2>5 DEF Part
<1>4. TestsInv'
  BY FirstTestType DEF TestsInv, EndPart
<1>5. pc' = "sleep" => test' = FirstTest("acc")
  BY DEF EndPart, FirstTest
<1>6. QED
  BY <1>3, <1>4, <1>5

LEMMA TakeWhole ==
  ASSUME ReadingInv, TypeInv', pc \in Part, NEW m, m \in Mode, steady => m = Dest(pc),
         Take(m), UNCHANGED flags, WritesInv'
  PROVE  ReadingInv'
<1>1. CASE ~steady
  <2>1. pc' \in {"begin", "sleep"} => test' = FirstTest("acc")
    BY DEF Take, EndPart, FirstTest, NextPart, Part
  <2>2. QED
    BY <1>1, <2>1 DEF ReadingInv, flags
<1>2. CASE steady
  <2>1. EndPart /\ chosen' = [chosen EXCEPT ![pc] = Dest(pc)]
    BY <1>2 DEF Take
  <2>2. pc = "mag" => Dest("mag") \notin openLine'
    BY <1>2 DEF Take
  <2>3. pc \in {"distance", "file"} => openLine' = openLine
    BY DEF Take
  <2>4. /\ pc' \in Part => PartsInv' /\ TestsInv'
        /\ pc' = "sleep" => PartsInv' /\ test' = FirstTest("acc")
    BY <1>2, <2>1, <2>2, <2>3, PartEnds DEF TypeInv, TypeOK
  <2>5. pc' # "begin" /\ OneMode'
    BY <1>2, <2>1 DEF EndPart, NextPart, Part, ReadingInv, OneMode, flags
  <2>6. QED
    BY <2>4, <2>5 DEF ReadingInv
<1>3. QED
  BY <1>1, <1>2 DEF ReadingInv, TypeInv, TypeOK

LEMMA RefuseWhole ==
  ASSUME ReadingInv, TypeInv', pc \in Part, Refuse, UNCHANGED flags, WritesInv',
         steady => ~mode[test.mode] \/ (~forward1 /\ test.mode # "m0")
  PROVE  ReadingInv'
<1>1. CASE ~steady
  <2>1. pc' \in {"begin", "sleep"} => test' = FirstTest("acc")
    BY DEF Refuse, EndPart, FirstTest, NextPart, Part
  <2>2. QED
    BY <1>1, <2>1 DEF ReadingInv, flags
<1>2. CASE steady /\ EndPart /\ test.mode = "m2"
  <2>1. Dest(pc) = "none" /\ chosen[pc] = "none"
    <3>1. PartsInv /\ TestsInv
      BY <1>2 DEF ReadingInv
    <3>2. Dest(pc) = "none"
      BY <1>2, <3>1 DEF TestsInv, Dest
    <3>3. chosen[pc] = "none"
      BY <3>1 DEF PartsInv, Part
    <3>4. QED
      BY <3>2, <3>3
  <2>2. chosen' = [chosen EXCEPT ![pc] = Dest(pc)]
    BY <2>1 DEF Refuse, ReadingInv, TypeInv, TypeOK
  <2>3. openLine' = openLine /\ openLine \in SUBSET Report
    BY DEF Refuse, ReadingInv, TypeInv, TypeOK
  <2>4. pc = "mag" => Dest("mag") \notin openLine'
    BY <2>1, <2>3 DEF Report
  <2>5. /\ pc' \in Part => PartsInv' /\ TestsInv'
        /\ pc' = "sleep" => PartsInv' /\ test' = FirstTest("acc")
    BY <1>2, <2>2, <2>3, <2>4, PartEnds
  <2>6. pc' # "begin" /\ OneMode'
    BY <1>2 DEF EndPart, NextPart, Part, ReadingInv, OneMode, flags
  <2>7. QED
    BY <2>5, <2>6 DEF ReadingInv
<1>3. CASE /\ steady /\ test.mode # "m2"
           /\ test' = [mode |-> NextMode[test.mode], global |-> "mode"]
           /\ UNCHANGED pc
  <2>1. PartsInv /\ TestsInv /\ test.mode \in {"m0", "m1"}
    BY <1>3 DEF ReadingInv, TypeInv, TypeOK, Mode
  <2>2. PartsInv'
    BY <1>3, <2>1 DEF PartsInv, Refuse, Dest, flags
  <2>3. CASE test.mode = "m0"
    <3>1. test'.mode = "m1" /\ test'.global = "mode" /\ ~mode["m0"]
      BY <1>3, <2>3 DEF NextMode
    <3>2. TestsInv'
      BY <3>1 DEF TestsInv, flags
    <3>3. QED
      BY <1>3, <2>2, <3>2 DEF ReadingInv, OneMode, flags, Part
  <2>4. CASE test.mode = "m1"
    <3>1. /\ test'.mode = "m2" /\ test'.global = "mode"
          /\ ~(mode["m1"] /\ forward1)
          /\ pc = "file" => ~mode["m0"]
      BY <1>3, <2>1, <2>4 DEF NextMode, TestsInv
    <3>2. TestsInv'
      BY <1>3, <3>1 DEF TestsInv, flags
    <3>3. QED
      BY <1>3, <2>2, <3>2 DEF ReadingInv, OneMode, flags, Part
  <2>5. QED
    BY <2>1, <2>3, <2>4
<1>4. QED
  BY <1>1, <1>2, <1>3 DEF Refuse, ReadingInv, TypeInv, TypeOK

LEMMA ReadingNext == ReadingInv /\ [Next]_vars => ReadingInv'
<1> SUFFICES ASSUME ReadingInv, [Next]_vars
             PROVE  ReadingInv'
  OBVIOUS
<1>1. TypeInv' /\ WritesInv'
  BY NextType, WritesKept DEF ReadingInv
<1>2. CASE BeginReading
  <2>1. pc' = "acc" /\ test' = FirstTest("acc")
    BY <1>2 DEF BeginReading, ReadingInv
  <2>2. PartsInv'
    BY <1>2 DEF BeginReading, PartsInv, Part
  <2>3. TestsInv'
    BY <2>1, FirstTestType DEF TestsInv
  <2>4. steady' => OneMode'
    <3>1. writes = << >> => OneMode
      BY Three, Two, One DEF ReadingInv, WritesInv
    <3>2. QED
      BY <1>2, <3>1 DEF BeginReading, OneMode
  <2>5. QED
    BY <1>1, <2>1, <2>2, <2>3, <2>4 DEF ReadingInv
<1>3. CASE TestMode
  <2>1. pc \in Part /\ UNCHANGED flags
    BY <1>3 DEF TestMode
  <2>2. CASE ~mode[test.mode] /\ Refuse
    BY <1>1, <2>1, <2>2, RefuseWhole
  <2>3. CASE mode[test.mode] /\ test.mode = "m0" /\ Take("m0")
    <3>1. pc = "file" /\ Dest(pc) = "m0"
      BY <2>1, <2>3 DEF ReadingInv, TypeInv, Dest
    <3>2. QED
      BY <1>1, <2>1, <2>3, <3>1, TakeWhole DEF Mode
  <2>4. CASE /\ mode[test.mode] /\ test.mode # "m0"
             /\ test' = [test EXCEPT !.global = "forward1"]
             /\ UNCHANGED <<pc, chosen, openLine, map>>
    <3>1. test'.mode = test.mode /\ test'.global = "forward1"
      BY <2>4 DEF ReadingInv, TypeInv, TypeOK
    <3>2. PartsInv => PartsInv'
      BY <2>1, <2>4 DEF PartsInv, Dest, flags
    <3>3. TestsInv => TestsInv'
      BY <2>1, <2>4, <3>1 DEF TestsInv, flags
    <3>4. QED
      BY <1>1, <2>1, <2>4, <3>2, <3>3 DEF ReadingInv, OneMode, flags, Part
  <2>5. QED
    BY <1>3, <2>2, <2>3, <2>4 DEF TestMode
<1>4. CASE TestForward
  <2>1. pc \in Part /\ UNCHANGED flags /\ test.global = "forward1"
    BY <1>4 DEF TestForward
  <2>2. steady => TestsInv
    BY <2>1 DEF ReadingInv
  <2>3. CASE forward1 /\ Take(test.mode)
    <3>1. steady => test.mode = Dest(pc)
      BY <2>1, <2>2, <2>3 DEF TestsInv, Dest, ReadingInv, TypeInv, TypeOK, Mode
    <3>2. test.mode \in Mode
      BY DEF ReadingInv, TypeInv, TypeOK
    <3>3. QED
      BY <1>1, <2>1, <2>3, <3>1, <3>2, TakeWhole
  <2>4. CASE ~forward1 /\ Refuse
    BY <1>1, <2>1, <2>2, <2>4, RefuseWhole DEF TestsInv
  <2>5. QED
    BY <1>4, <2>3, <2>4 DEF TestForward
<1>5. CASE Sleep
  BY <1>1, <1>5 DEF Sleep, ReadingInv, OneMode, flags, Part
<1>6. ASSUME UNCHANGED <<mode, forward1, pc, test, chosen, openLine>>, steady' => steady
      PROVE  ReadingInv'
  BY <1>1, <1>6 DEF ReadingInv, OneMode, PartsInv, TestsInv, Dest
<1>7. CASE Quit \/ \E m \in Mode : ChooseMode(m)
  BY <1>6, <1>7 DEF Quit, ChooseMode, imu
<1>8. CASE WriteMode \/ SetForward
  BY <1>1, <1>8 DEF WriteMode, SetForward, imu, ReadingInv
<1>9. CASE UNCHANGED vars
  BY <1>6, <1>9 DEF vars, flags
<1>10. QED
  BY <1>2, <1>3, <1>4, <1>5, <1>7, <1>8, <1>9 DEF Next, imuHandle

(* A reading during which no flag is written is recorded as a whole,       *)
(* although its four parts test the flags one by one and two modes may be  *)
(* set between the key thread's writes.                                    *)
THEOREM ReadingIsWhole == Spec => []WholeReading
<1>1. Init => ReadingInv
  BY InitType DEF Init, ReadingInv, WritesInv, OneMode, Part
<1>2. ReadingInv /\ [Next]_vars => ReadingInv'
  BY ReadingNext
<1>3. ReadingInv => WholeReading
  <2> SUFFICES ASSUME ReadingInv, pc = "sleep", steady
               PROVE  WholeReading
    BY DEF WholeReading
  <2>1. PartsInv /\ OneMode
    BY DEF ReadingInv
  <2>2. Dest("mag") = Dest("acc") /\ Dest("distance") = Dest("acc")
    BY DEF Dest
  <2>3. Dest("acc") # "none" => ~mode["m0"]
    BY <2>1 DEF Dest, OneMode, Mode
  <2>4. Dest("file") = IF mode["m0"] THEN "m0" ELSE Dest("acc")
    BY DEF Dest
  <2>5. QED
    BY <2>1, <2>2, <2>3, <2>4 DEF WholeReading, PartsInv
<1>4. QED
  BY <1>1, <1>2, <1>3, PTL DEF Spec

-----------------------------------------------------------------------------
(* The row of the path map.                                                *)

(* The path has always at least one row left in the direction it takes.    *)
RowInv ==
  /\ row \in TopRow..BottomRow
  /\ up \in BOOLEAN
  /\ up => row > TopRow
  /\ ~up => row < BottomRow

LEMMA PlotKeepsRow ==
  ASSUME RowInv, NEW far \in BOOLEAN, NEW side, PlotCell(far, side)
  PROVE  RowInv'
<1> USE ConstantsAssumption DEF RowInv, PlotCell, Heading
<1>1. CASE ~far
  BY <1>1
<1>2. CASE far /\ up
  <2>1. row' = row - 1 /\ row' < BottomRow /\ row' >= TopRow
    BY <1>2
  <2>2. /\ row' <= TopRow => up' = FALSE
        /\ row' > TopRow => up' = TRUE
    <3>1. row' \in Int /\ ~(row' >= BottomRow)
      BY <2>1
    <3>2. up' = Heading(row') /\ up = TRUE
      BY <1>2
    <3>3. QED
      BY <3>1, <3>2
  <2>3. row' \in TopRow..BottomRow
    BY <2>1
  <2>4. CASE row' > TopRow
    BY <2>2, <2>3, <2>4
  <2>5. CASE row' <= TopRow
    <3>1. up' = FALSE /\ row' < BottomRow
      BY <2>1, <2>2, <2>5
    <3>2. QED
      BY <2>3, <3>1
  <2>6. row' > TopRow \/ row' <= TopRow
    BY <2>3
  <2>7. QED
    BY <2>4, <2>5, <2>6
<1>3. CASE far /\ ~up
  <2>1. row' = row + 1 /\ row' > TopRow /\ row' <= BottomRow
    BY <1>3
  <2>2. /\ row' >= BottomRow => up' = TRUE
        /\ row' < BottomRow => up' = FALSE
    <3>1. row' \in Int /\ ~(row' <= TopRow)
      BY <2>1
    <3>2. up' = Heading(row') /\ up = FALSE
      BY <1>3
    <3>3. QED
      BY <3>1, <3>2
  <2>3. row' \in TopRow..BottomRow
    BY <2>1
  <2>4. CASE row' < BottomRow
    <3>1. up' = FALSE
      BY <2>2, <2>4
    <3>2. QED
      BY <2>3, <2>4, <3>1
  <2>5. CASE row' >= BottomRow
    BY <2>1, <2>2, <2>3, <2>5
  <2>6. row' < BottomRow \/ row' >= BottomRow
    BY <2>3
  <2>7. QED
    BY <2>4, <2>5, <2>6
<1>4. QED
  BY <1>1, <1>2, <1>3

LEMMA RowNext == RowInv /\ [Next]_vars => RowInv'
<1> SUFFICES ASSUME RowInv, [Next]_vars
             PROVE  RowInv'
  OBVIOUS
<1>1. ASSUME UNCHANGED <<row, up>>
      PROVE  RowInv'
  BY <1>1 DEF RowInv
<1>2. ASSUME NEW m, AddDistance(m)
      PROVE  RowInv'
  BY <1>1, <1>2, PlotKeepsRow DEF AddDistance, map
<1>3. ASSUME NEW m, Take(m)
      PROVE  RowInv'
  BY <1>1, <1>2, <1>3 DEF Take, map
<1>4. CASE Refuse
  BY <1>1, <1>4 DEF Refuse, map
<1>5. CASE TestMode
  BY <1>1, <1>3, <1>4, <1>5 DEF TestMode, map
<1>6. CASE TestForward
  BY <1>3, <1>4, <1>6 DEF TestForward
<1>7. CASE BeginReading \/ Sleep
  BY <1>1, <1>7 DEF BeginReading, Sleep, map
<1>8. CASE WriteMode \/ SetForward \/ Quit \/ \E m \in Mode : ChooseMode(m)
  BY <1>1, <1>8 DEF WriteMode, SetForward, Quit, ChooseMode, imu, map
<1>9. CASE UNCHANGED vars
  BY <1>1, <1>9 DEF vars, map
<1>10. QED
  BY <1>5, <1>6, <1>7, <1>8, <1>9 DEF Next, imuHandle

(* The path turns round before it leaves the rows it may use, wherever     *)
(* these lie and however far the car goes.                                 *)
THEOREM RowStaysOnMap == Spec => []RowOnMap
<1>1. Init => RowInv
  BY ConstantsAssumption DEF Init, RowInv
<1>2. RowInv /\ [Next]_vars => RowInv'
  BY RowNext
<1>3. RowInv => RowOnMap
  BY DEF RowInv, RowOnMap
<1>4. QED
  BY <1>1, <1>2, <1>3, PTL DEF Spec

-----------------------------------------------------------------------------
(* The time between two readings.                                          *)

LEMMA SecondType == Second \in Nat
  BY SMT DEF Second

LEMMA SecondsBetween ==
  ASSUME NEW S \in Nat, NEW d \in Int, NEW u \in Int, -S < u, u < S,
         NEW e \in Int, 0 <= e, e < S, e = d * S + u
  PROVE  d \in {0, 1}
<1>1. ASSUME d <= -1 PROVE FALSE
  <2>1. d * S <= -S
    BY <1>1
  <2>2. QED
    BY <2>1
<1>2. ASSUME d >= 2 PROVE FALSE
  <2>1. d * S >= S + S
    BY <1>2
  <2>2. QED
    BY <2>1
<1>3. QED
  BY <1>1, <1>2

(* Up to a second between two readings is computed to the millisecond,     *)
(* whether or not a second turned in between.                              *)
THEOREM DeltaTIsElapsed ==
  ASSUME NEW seconds \in Nat, NEW prevsecs \in Nat,
         NEW useconds \in 0..Second - 1, NEW prevusecs \in 0..Second - 1,
         NEW deltaT, NEW elapsed \in 0..Second - 1,
         elapsed = (seconds - prevsecs) * Second + (useconds - prevusecs)
  PROVE  DeltaT(seconds, useconds, prevsecs, prevusecs, deltaT) = elapsed \div 1000
<1>1. Second \in Nat
  BY SecondType
<1>2. seconds - prevsecs \in {0, 1}
  <2> DEFINE d == seconds - prevsecs
             u == useconds - prevusecs
  <2>1. d \in Int /\ u \in Int /\ -Second < u /\ u < Second
    BY <1>1
  <2>2. elapsed \in Int /\ 0 <= elapsed /\ elapsed < Second /\ elapsed = d * Second + u
    BY <1>1
  <2> HIDE DEF d, u
  <2>3. d \in {0, 1}
    BY <1>1, <2>1, <2>2, SecondsBetween
  <2>4. QED
    BY <2>3 DEF d
<1>3. CASE seconds - prevsecs = 0
  <2>1. elapsed = useconds - prevusecs
    BY <1>1, <1>3
  <2>2. DeltaT(seconds, useconds, prevsecs, prevusecs, deltaT)
          = (useconds - prevusecs) \div 1000
    BY <1>3 DEF DeltaT
  <2>3. QED
    BY <2>1, <2>2
<1>4. CASE seconds - prevsecs = 1
  <2>1. elapsed = (Second - prevusecs) + useconds
    BY <1>1, <1>4
  <2>2. DeltaT(seconds, useconds, prevsecs, prevusecs, deltaT)
          = ((Second - prevusecs) + useconds) \div 1000
    BY <1>4 DEF DeltaT
  <2>3. QED
    BY <2>1, <2>2
<1>5. QED
  BY <1>2, <1>3, <1>4
=============================================================================
