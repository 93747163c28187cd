--------------------------- MODULE LightDimProofs ---------------------------
(* What LightDim guarantees for any lights and any number of levels.       *)
EXTENDS LightDim, TLAPS

(* The thread of light l turns round in time, at either end.               *)
LevelInv(l) ==
  /\ pc[l] \in Holding \cup {"outer", "active", "exited"} => level[l] = 0 /\ up[l]
  /\ up[l] => level[l] < MaxLevel
  /\ ~up[l] => level[l] > 0
  /\ pc[l] \in {"on", "lit", "off"} => loops[l] > 0

DimInv == TypeOK /\ \A l \in Light : LevelInv(l)

LEMMA InitDim == Init => DimInv
<1> SUFFICES ASSUME Init
             PROVE  DimInv
  OBVIOUS
<1>1. /\ level \in [Light -> 0..MaxLevel] /\ loops \in [Light -> 0..2]
      /\ count \in [Light -> 0..MaxLevel]
  BY ConstantsAssumption DEF Init
<1>2. TypeOK
  BY <1>1 DEF Init, TypeOK
<1>3. ASSUME NEW l \in Light
      PROVE  LevelInv(l)
  <2>1. pc[l] = "outer" /\ level[l] = 0 /\ up[l] = TRUE
    BY DEF Init
  <2>2. QED
    BY <2>1, ConstantsAssumption DEF LevelInv
<1>4. QED
  BY <1>2, <1>3 DEF DimInv

LEMMA DimNext == DimInv /\ [Next]_vars => DimInv'
<1> SUFFICES ASSUME DimInv, [Next]_vars
             PROVE  DimInv'
  OBVIOUS
<1> USE ConstantsAssumption DEF DimInv, TypeOK, LevelInv, Holding, Dimming
<1>1. ASSUME NEW l \in Light, dimLight(l)
      PROVE  DimInv'
  <2> USE DEF Goto, SetPin
  <2>1. CASE Outer(l)
    BY <2>1 DEF Outer
  <2>2. CASE Active(l)
    BY <2>2 DEF Active
  <2>3. CASE Ramp(l)
    BY <2>3 DEF Ramp
  <2>4. CASE Show(l)
    BY <2>4 DEF Show
  <2>5. CASE On(l)
    BY <2>5 DEF On
  <2>6. CASE Off(l)
    BY <2>6 DEF Off
  <2>11. ASSUME NEW here \in {"lit", "unlit", "holdLit", "holdUnlit"},
                NEW next \in {"off", "show", "holdOff", "hold"},
                NEW on, Wait(l, here, next, on),
                next = "off" => here = "lit",
                next \in {"holdOff", "hold"} => here \in Holding
         PROVE  DimInv'
    BY <2>11 DEF Wait
  <2>12. CASE Lit(l) \/ Unlit(l) \/ HoldLit(l) \/ HoldUnlit(l)
    BY <2>11, <2>12 DEF Lit, Unlit, HoldLit, HoldUnlit
  <2>7. CASE Step(l)
    <3> DEFINE next == IF up[l] THEN level[l] + 1 ELSE level[l] - 1
               turned == IF up[l] THEN next # MaxLevel ELSE next = 0
    <3>1. /\ level[l] \in Nat /\ level[l] <= MaxLevel /\ MaxLevel \in Nat \ {0}
          /\ up[l] \in BOOLEAN
      OBVIOUS
    <3>2. /\ next \in 0..MaxLevel /\ turned \in BOOLEAN
          /\ turned => next < MaxLevel
          /\ ~turned => next > 0
          /\ ~up[l] /\ next = 0 => turned
      <4>1. CASE up[l]
        <5>1. next = level[l] + 1 /\ level[l] < MaxLevel
          BY <4>1
        <5>2. turned <=> next # MaxLevel
          BY <4>1
        <5>3. turned \in BOOLEAN
          BY <4>1
        <5> HIDE DEF next, turned
        <5>4. QED
          BY <3>1, <4>1, <5>1, <5>2, <5>3
      <4>2. CASE ~up[l]
        <5>1. next = level[l] - 1 /\ level[l] > 0
          BY <4>2
        <5>2. turned <=> next = 0
          BY <4>2
        <5>3. turned \in BOOLEAN
          BY <4>2
        <5> HIDE DEF next, turned
        <5>4. QED
          BY <3>1, <4>2, <5>1, <5>2, <5>3
      <4>3. QED
        BY <4>1, <4>2
    <3>3. /\ pc[l] = "step" /\ UNCHANGED <<color, done, main, loops, count, pin>>
          /\ pc' = [pc EXCEPT ![l] = IF ~up[l] /\ next = 0 THEN "active" ELSE "ramp"]
          /\ level' = [level EXCEPT ![l] = next]
          /\ up' = [up EXCEPT ![l] = turned]
      BY <2>7 DEF Step
    <3> HIDE DEF next, turned
    <3>4. TypeOK'
      BY <3>2, <3>3
    <3>5. LevelInv(l)'
      BY <3>2, <3>3
    <3>6. \A k \in Light \ {l} : LevelInv(k)'
      BY <3>3
    <3>7. QED
      BY <3>4, <3>5, <3>6
  <2>8. CASE Hold(l)
    BY <2>8 DEF Hold
  <2>9. CASE HoldOn(l) \/ HoldOff(l)
    BY <2>9 DEF HoldOn, HoldOff
  <2>10. QED
    BY <1>1, <2>1, <2>2, <2>3, <2>4, <2>5, <2>6, <2>7, <2>8, <2>9, <2>12
       DEF dimLight
<1>2. CASE InputChar
  BY <1>2 DEF InputChar, Toggle, Quit, lights
<1>3. CASE Join
  BY <1>3 DEF Join
<1>4. CASE Terminated \/ UNCHANGED vars
  BY <1>4 DEF Terminated, vars, lights
<1>5. QED
  BY <1>1, <1>2, <1>3, <1>4 DEF Next

LEMMA DimAlways == Spec => []DimInv
<1>1. Init => DimInv
  BY InitDim
<1>2. DimInv /\ [Next]_vars => DimInv'
  BY DimNext
<1>3. QED
  BY <1>1, <1>2, PTL DEF Spec

(* The level of every light stays within its range, so that neither part   *)
(* of a period is longer than the period.                                  *)
THEOREM TypeCorrect == Spec => []TypeOK
<1>1. DimInv => TypeOK
  BY DEF DimInv
<1>2. QED
  BY <1>1, DimAlways, PTL

(* A light is held at level 0 only, whenever it is switched off.           *)
THEOREM LightsHeldDark == Spec => []HeldDark
<1>1. DimInv => HeldDark
  BY DEF DimInv, LevelInv, HeldDark
<1>2. QED
  BY <1>1, DimAlways, PTL
-----------------------------------------------------------------------------
(* What is left of a dimming shrinks with every step of its thread.        *)
LEMMA DimStep ==
  ASSUME DimInv, NEW l \in Light, dimLight(l), done \/ pc[l] \in Dimming
  PROVE  StepsLeft(l)' < StepsLeft(l)
<1> DEFINE atTest == 4 + LevelSteps * LevelsLeft(l)
           toShow == atTest + PeriodSteps * loops[l] + 1
<1>1. /\ level[l] \in Nat /\ level[l] <= MaxLevel /\ loops[l] \in 0..2
      /\ count[l] \in Nat /\ count[l] <= MaxLevel
      /\ MaxLevel \in Nat /\ up[l] \in BOOLEAN
      /\ LevelInv(l)
  BY ConstantsAssumption DEF DimInv, TypeOK
<1>2. ASSUME NEW from, NEW to, Goto(l, from, to)
      PROVE  pc[l] = from /\ pc'[l] = to
  BY <1>2 DEF Goto, DimInv, TypeOK
<1>3. LevelsLeft(l) \in Nat
  BY <1>1 DEF LevelsLeft
<1>4. /\ UNCHANGED <<level, up>> => atTest' = atTest
      /\ UNCHANGED <<level, up, loops>> => toShow' = toShow
  BY DEF LevelsLeft
<1>5. PeriodSteps = MaxLevel + 5 /\ LevelSteps = 2 * PeriodSteps + 3
  BY DEF PeriodSteps, LevelSteps
<1>6. /\ atTest \in Nat /\ atTest >= 4
      /\ loops[l] > 0 => toShow >= atTest + PeriodSteps + 1
      /\ toShow >= atTest + 1 /\ toShow \in Nat
      /\ loops[l] = 2 => toShow = atTest + 2 * PeriodSteps + 1
  <2>1. LevelSteps * LevelsLeft(l) \in Nat
    <3> HIDE DEF LevelSteps
    <3>1. LevelSteps \in Nat
      BY <1>1, <1>5
    <3>2. QED
      BY <1>3, <3>1
  <2>2. PeriodSteps \in Nat
    BY <1>1, <1>5
  <2>3. loops[l] = 0 \/ loops[l] = 1 \/ loops[l] = 2
    BY <1>1
  <2> HIDE DEF PeriodSteps, LevelSteps
  <2>4. QED
    BY <2>1, <2>2, <2>3
<1> HIDE DEF atTest, toShow
<1>7. /\ pc[l] = "step" => StepsLeft(l) = atTest
      /\ pc[l] = "show" => StepsLeft(l) = toShow
      /\ pc[l] = "unlit" => StepsLeft(l) = toShow + 1 + count[l]
      /\ pc[l] = "off" => StepsLeft(l) = toShow + 2 + MaxLevel - level[l] - PeriodSteps
      /\ pc[l] = "lit" =>
           StepsLeft(l) = toShow + 3 + MaxLevel - level[l] - PeriodSteps + count[l]
      /\ pc[l] = "on" => StepsLeft(l) = toShow - 1
      /\ pc[l] = "ramp" => StepsLeft(l) = atTest + 2 * PeriodSteps + 2
      /\ pc[l] = "active" => StepsLeft(l) = 3
  BY DEF StepsLeft, atTest, toShow
<1>8. /\ pc'[l] = "step" => StepsLeft(l)' = atTest'
      /\ pc'[l] = "show" => StepsLeft(l)' = toShow'
      /\ pc'[l] = "unlit" => StepsLeft(l)' = toShow' + 1 + count'[l]
      /\ pc'[l] = "off" => StepsLeft(l)' = toShow' + 2 + MaxLevel - level'[l] - PeriodSteps
      /\ pc'[l] = "lit" =>
           StepsLeft(l)' = toShow' + 3 + MaxLevel - level'[l] - PeriodSteps + count'[l]
      /\ pc'[l] = "on" => StepsLeft(l)' = toShow' - 1
      /\ pc'[l] = "ramp" => StepsLeft(l)' = atTest' + 2 * PeriodSteps + 2
      /\ pc'[l] = "active" => StepsLeft(l)' = 3
  BY DEF StepsLeft, atTest, toShow, PeriodSteps, LevelSteps
<1>9. CASE Outer(l)
  BY <1>2, <1>9 DEF Outer, StepsLeft, Dimming
<1>10. CASE Active(l)
  BY <1>2, <1>10 DEF Active, StepsLeft, Dimming
<1>11. CASE Hold(l) \/ HoldOn(l) \/ HoldOff(l)
  BY <1>2, <1>11 DEF Hold, HoldOn, HoldOff, StepsLeft, Dimming
<1>12. CASE HoldLit(l) \/ HoldUnlit(l)
  BY <1>2, <1>12 DEF HoldLit, HoldUnlit, Wait, StepsLeft, Dimming
<1>13. CASE Ramp(l)
  <2>1. pc[l] = "ramp" /\ pc'[l] = "show" /\ UNCHANGED <<level, up>> /\ loops'[l] = 2
    BY <1>2, <1>13 DEF Ramp, DimInv, TypeOK
  <2>2. toShow' = atTest' + 2 * PeriodSteps + 1
    BY <1>1, <1>3, <1>5, <2>1 DEF toShow, PeriodSteps
  <2>3. QED
    BY <1>1, <1>4, <1>5, <1>6, <1>7, <1>8, <2>1, <2>2
<1>14. CASE Show(l)
  <2>1. pc[l] = "show" /\ pc'[l] \in {"on", "step"} /\ UNCHANGED <<level, up, loops>>
    BY <1>2, <1>14 DEF Show
  <2>2. QED
    BY <1>1, <1>4, <1>6, <1>7, <1>8, <2>1
<1>15. CASE On(l)
  <2>1. /\ pc[l] = "on" /\ pc'[l] = "lit" /\ UNCHANGED <<level, up, loops>>
        /\ count'[l] = level[l]
    BY <1>2, <1>15 DEF On, SetPin, DimInv, TypeOK
  <2>2. QED
    BY <1>1, <1>4, <1>5, <1>6, <1>7, <1>8, <2>1
<1>16. CASE Lit(l)
  <2>1. /\ pc[l] = "lit" /\ UNCHANGED <<level, up, loops>>
        /\ \/ pc'[l] = "lit" /\ count'[l] = count[l] - 1
           \/ pc'[l] = "off"
    BY <1>2, <1>16 DEF Lit, Wait, DimInv, TypeOK
  <2>2. QED
    BY <1>1, <1>4, <1>5, <1>6, <1>7, <1>8, <2>1
<1>17. CASE Off(l)
  <2>1. /\ pc[l] = "off" /\ pc'[l] = "unlit" /\ UNCHANGED <<level, up>>
        /\ loops'[l] = loops[l] - 1 /\ count'[l] = MaxLevel - level[l]
    BY <1>2, <1>17 DEF Off, SetPin, DimInv, TypeOK
  <2>2. toShow' = toShow - PeriodSteps
    <3>1. loops[l] = 1 \/ loops[l] = 2
      BY <1>1, <2>1 DEF LevelInv
    <3>2. atTest' = atTest /\ PeriodSteps' = PeriodSteps /\ PeriodSteps \in Nat
      BY <1>1, <1>4, <1>5, <2>1 DEF PeriodSteps
    <3>3. QED
      BY <1>6, <2>1, <3>1, <3>2 DEF toShow
  <2>3. QED
    BY <1>1, <1>5, <1>6, <1>7, <1>8, <2>1, <2>2
<1>18. CASE Unlit(l)
  <2>1. /\ pc[l] = "unlit" /\ UNCHANGED <<level, up, loops>>
        /\ \/ pc'[l] = "unlit" /\ count'[l] = count[l] - 1
           \/ pc'[l] = "show"
    BY <1>2, <1>18 DEF Unlit, Wait, DimInv, TypeOK
  <2>2. QED
    BY <1>1, <1>4, <1>6, <1>7, <1>8, <2>1
<1>19. CASE Step(l)
  <2> DEFINE next == IF up[l] THEN level[l] + 1 ELSE level[l] - 1
  <2>1. /\ pc[l] = "step" /\ pc'[l] \in {"active", "ramp"}
        /\ level'[l] = next
        /\ up'[l] = IF up[l] THEN next # MaxLevel ELSE next = 0
        /\ pc'[l] = "ramp" => up[l] \/ next # 0
    BY <1>2, <1>19 DEF Step, DimInv, TypeOK
  <2>2. CASE pc'[l] = "active"
    BY <1>6, <1>7, <1>8, <2>1, <2>2
  <2>3. CASE pc'[l] = "ramp"
    <3>1. LevelsLeft(l)' = LevelsLeft(l) - 1
      <4>1. CASE up[l]
        <5>1. LevelsLeft(l) = 2 * MaxLevel - level[l] /\ level'[l] = level[l] + 1
          BY <2>1, <4>1 DEF LevelsLeft
        <5>2. up'[l] <=> level'[l] # MaxLevel
          BY <2>1, <4>1
        <5>3. CASE up'[l]
          BY <1>1, <5>1, <5>3 DEF LevelsLeft
        <5>4. CASE ~up'[l]
          BY <1>1, <5>1, <5>2, <5>4 DEF LevelsLeft
        <5>5. QED
          BY <5>3, <5>4
      <4>2. CASE ~up[l]
        BY <1>1, <2>1, <2>3, <4>2 DEF LevelsLeft, LevelInv
      <4>3. QED
        BY <1>1, <4>1, <4>2
    <3>2. \A a, n \in Int : a * (n - 1) = a * n - a
      OBVIOUS
    <3>3. LevelSteps' = LevelSteps /\ LevelSteps \in Int
      BY <1>1, <1>5 DEF LevelSteps, PeriodSteps
    <3>4. atTest' = atTest - LevelSteps
      <4>1. LevelSteps * (LevelsLeft(l) - 1) = LevelSteps * LevelsLeft(l) - LevelSteps
        BY <1>3, <3>2, <3>3
      <4>2. LevelSteps * LevelsLeft(l) \in Int
        BY <1>3, <3>3
      <4> HIDE DEF LevelSteps
      <4>3. atTest' = 4 + LevelSteps * (LevelsLeft(l) - 1)
        BY <3>1, <3>3 DEF atTest
      <4>4. QED
        BY <3>3, <4>1, <4>2, <4>3 DEF atTest
    <3>5. QED
      BY <1>1, <1>5, <1>6, <1>7, <1>8, <2>1, <2>3, <3>3, <3>4
  <2>4. QED
    BY <2>1, <2>2, <2>3
<1>20. QED
  BY <1>9, <1>10, <1>11, <1>12, <1>13, <1>14, <1>15, <1>16, <1>17, <1>18, <1>19
     DEF dimLight

LEMMA ProgressStep ==
  DimInv /\ [Next]_vars =>
    [\A l \in Light :
       <<pc[l], count[l]>>' # <<pc[l], count[l]>> /\ (done \/ pc[l] \in Dimming)
         => StepsLeft(l)' < StepsLeft(l)]_<<pc, count>>
<1> SUFFICES ASSUME DimInv, Next, NEW l \in Light,
                    <<pc[l], count[l]>>' # <<pc[l], count[l]>>,
                    done \/ pc[l] \in Dimming
             PROVE  StepsLeft(l)' < StepsLeft(l)
  BY DEF vars, lights
<1>1. dimLight(l)
  <2>1. ASSUME NEW k \in Light \ {l}, dimLight(k)
        PROVE  FALSE
    BY <2>1 DEF dimLight, Outer, Active, Ramp, Show, On, Lit, Off, Unlit, Step,
                Hold, HoldOn, HoldLit, HoldOff, HoldUnlit, Wait, SetPin, Goto,
                DimInv, TypeOK
  <2>2. pc' # pc \/ count' # count
    OBVIOUS
  <2>3. \E k \in Light : dimLight(k)
    BY <2>2 DEF Next, InputChar, Toggle, Quit, Join, Terminated, vars, lights
  <2>4. QED
    BY <2>1, <2>3
<1>2. QED
  BY <1>1, DimStep

(* However the colours are switched, a dimming that was begun is over      *)
(* after a number of steps of its thread that StepsLeft counts, and so is, *)
(* after 'q', whatever the thread was doing.                               *)
THEOREM DimmingEnds == Spec => DimProgress
<1>1. DimInv /\ [Next]_vars =>
        [\A l \in Light :
           <<pc[l], count[l]>>' # <<pc[l], count[l]>> /\ (done \/ pc[l] \in Dimming)
             => StepsLeft(l)' < StepsLeft(l)]_<<pc, count>>
  BY ProgressStep
<1>2. QED
  BY <1>1, DimAlways, PTL DEF Spec, DimProgress
=============================================================================
