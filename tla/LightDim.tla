------------------------------ MODULE LightDim ------------------------------
(***************************************************************************)
(* src/hw4Damico/hw4Damico2/hw4Damico2.c: one thread per light dims it up  *)
(* and down while its colour is switched on and holds it while it is       *)
(* switched off; a key thread switches colours; main waits for all.        *)
(*                                                                         *)
(* Dimming is three loops inside each other, of which only the outermost   *)
(* one tests the colour, and two waits, which count down how long the      *)
(* light is on and off within a period and test the colour at every count. *)
(***************************************************************************)
EXTENDS Integers

CONSTANTS
  Light,     (* the four lights                                          *)
  MaxLevel   (* the brightest level: 100                                 *)

ASSUME ConstantsAssumption == MaxLevel \in Nat \ {0}

VARIABLES
  color,     (* red, green, blue, orange: whether a light is to be dimmed *)
  done,      (* set by 'q'                                               *)
  pc,        (* where each light's thread is                             *)
  level,     (* its level                                                *)
  up,        (* whether it dims up; down is the opposite                 *)
  loops,     (* how often the level is still shown before it changes     *)
  count,     (* ONcount or OFFcount: what is left of a wait              *)
  pin,       (* the light's pin                                          *)
  main       (* whether main waits or has ended                          *)

lights == <<pc, level, up, loops, count, pin>>
vars   == <<color, done, lights, main>>

Init ==
  /\ color = [l \in Light |-> FALSE]
  /\ done = FALSE
  /\ pc = [l \in Light |-> "outer"]
  /\ level = [l \in Light |-> 0]
  /\ up = [l \in Light |-> TRUE]
  /\ loops = [l \in Light |-> 0]
  /\ count = [l \in Light |-> 0]
  /\ pin = [l \in Light |-> "low"]
  /\ main = "join"

Goto(l, from, to) ==
  /\ pc[l] = from
  /\ pc' = [pc EXCEPT ![l] = to]
  /\ UNCHANGED <<color, done, main>>

(* The pin is set, and what follows is a wait of n counts. *)
SetPin(l, value, n) ==
  /\ pin' = [pin EXCEPT ![l] = value]
  /\ count' = [count EXCEPT ![l] = n]
  /\ UNCHANGED <<level, up>>

(* Mutant: the counter is not counted down. *)
Wait_Uncounted(l, here, next, on) ==
  /\ Goto(l, here, IF count[l] > 0 /\ ~done /\ color[l] = on THEN here ELSE next)
  /\ UNCHANGED <<level, up, loops, count, pin>>

(* A wait ends when it is counted down, with done, or when the colour is   *)
(* no longer what the loop around it has found.                            *)
Wait(l, here, next, on) ==
  LET goesOn == count[l] > 0 /\ ~done /\ color[l] = on IN
  /\ Goto(l, here, IF goesOn THEN here ELSE next)
  /\ count' = IF goesOn THEN [count EXCEPT ![l] = @ - 1] ELSE count
  /\ UNCHANGED <<level, up, loops, pin>>

-----------------------------------------------------------------------------
(* The light threads.                                                      *)

Outer(l) ==
  /\ Goto(l, "outer", IF done THEN "exited" ELSE "active")
  /\ UNCHANGED <<level, up, loops, count, pin>>

(* Mutant: only done ends the dimming. *)
Active_UntilDone(l) ==
  /\ Goto(l, "active", IF ~done THEN "ramp" ELSE "hold")
  /\ UNCHANGED <<level, up, loops, count, pin>>

Active(l) ==
  /\ Goto(l, "active", IF color[l] /\ ~done THEN "ramp" ELSE "hold")
  /\ UNCHANGED <<level, up, loops, count, pin>>

(* Each level is shown twice. *)
Ramp(l) ==
  /\ Goto(l, "ramp", "show")
  /\ loops' = [loops EXCEPT ![l] = 2]
  /\ UNCHANGED <<level, up, count, pin>>

Show(l) ==
  /\ Goto(l, "show", IF loops[l] > 0 /\ ~done THEN "on" ELSE "step")
  /\ UNCHANGED <<level, up, loops, count, pin>>

On(l) ==
  /\ Goto(l, "on", "lit")
  /\ SetPin(l, "high", level[l])
  /\ UNCHANGED loops

Lit(l) == Wait(l, "lit", "off", TRUE)

(* Mutant: a level is shown again and again. *)
Off_Again(l) ==
  /\ Goto(l, "off", "unlit")
  /\ SetPin(l, "low", MaxLevel - level[l])
  /\ UNCHANGED loops

(* loops is counted down after the wait, which nobody else can tell. *)
Off(l) ==
  /\ Goto(l, "off", "unlit")
  /\ SetPin(l, "low", MaxLevel - level[l])
  /\ loops' = [loops EXCEPT ![l] = @ - 1]

Unlit(l) == Wait(l, "unlit", "show", TRUE)

(* Mutant: the dimming up does not end at the top. *)
Step_NoTop(l) ==
  LET next == IF up[l] THEN level[l] + 1 ELSE level[l] - 1 IN
  /\ Goto(l, "step", IF ~up[l] /\ next = 0 THEN "active" ELSE "ramp")
  /\ level' = [level EXCEPT ![l] = next]
  /\ up' = [up EXCEPT ![l] = up[l] \/ next = 0]
  /\ UNCHANGED <<loops, count, pin>>

(* The next level; up at the top and down at the bottom turn round, and    *)
(* only at the bottom the loop that tests the colour goes on.              *)
Step(l) ==
  LET next == IF up[l] THEN level[l] + 1 ELSE level[l] - 1 IN
  /\ Goto(l, "step", IF ~up[l] /\ next = 0 THEN "active" ELSE "ramp")
  /\ level' = [level EXCEPT ![l] = next]
  /\ up' = [up EXCEPT ![l] = IF up[l] THEN next # MaxLevel ELSE next = 0]
  /\ UNCHANGED <<loops, count, pin>>

(* Mutant: done is not tested while the light is held. *)
Hold_NoQuit(l) ==
  /\ Goto(l, "hold", IF ~color[l] THEN "holdOn" ELSE "outer")
  /\ UNCHANGED <<level, up, loops, count, pin>>

Hold(l) ==
  /\ Goto(l, "hold", IF ~color[l] /\ ~done THEN "holdOn" ELSE "outer")
  /\ UNCHANGED <<level, up, loops, count, pin>>

HoldOn(l) ==
  /\ Goto(l, "holdOn", "holdLit")
  /\ SetPin(l, "high", level[l])
  /\ UNCHANGED loops

HoldLit(l) == Wait(l, "holdLit", "holdOff", FALSE)

HoldOff(l) ==
  /\ Goto(l, "holdOff", "holdUnlit")
  /\ SetPin(l, "low", MaxLevel - level[l])
  /\ UNCHANGED loops

HoldUnlit(l) == Wait(l, "holdUnlit", "hold", FALSE)

dimLight(l) ==
  \/ Outer(l) \/ Active(l) \/ Ramp(l) \/ Show(l)
  \/ On(l) \/ Lit(l) \/ Off(l) \/ Unlit(l) \/ Step(l)
  \/ Hold(l) \/ HoldOn(l) \/ HoldLit(l) \/ HoldOff(l) \/ HoldUnlit(l)

-----------------------------------------------------------------------------
(* The key thread, which ends with 'q', and main.                          *)

Toggle(l) ==
  /\ ~done
  /\ color' = [color EXCEPT ![l] = ~color[l]]
  /\ UNCHANGED <<done, lights, main>>

Quit ==
  /\ ~done
  /\ done' = TRUE
  /\ UNCHANGED <<color, lights, main>>

InputChar == Quit \/ \E l \in Light : Toggle(l)

(* main joins the threads, then makes the pins inputs. *)
Join ==
  /\ main = "join"
  /\ done /\ \A l \in Light : pc[l] = "exited"
  /\ main' = "exited"
  /\ pin' = [l \in Light |-> "input"]
  /\ UNCHANGED <<color, done, pc, level, up, loops, count>>

Terminated == main = "exited" /\ UNCHANGED vars

Next == InputChar \/ (\E l \in Light : dimLight(l)) \/ Join \/ Terminated

Spec == Init /\ [][Next]_vars

(* The threads are scheduled; the user need not type.                      *)
Fairness == (\A l \in Light : WF_vars(dimLight(l))) /\ WF_vars(Join)

FairSpec == Spec /\ Fairness

-----------------------------------------------------------------------------
(* Properties.                                                             *)

Holding == {"hold", "holdOn", "holdLit", "holdOff", "holdUnlit"}
Dimming == {"ramp", "show", "on", "lit", "off", "unlit", "step"}

(* The type invariant: the level stays within its range, so that neither   *)
(* the on nor the off part of a period is longer than the period.          *)
TypeOK ==
  /\ color \in [Light -> BOOLEAN]
  /\ done \in BOOLEAN
  /\ pc \in [Light -> {"outer", "active", "exited"} \cup Dimming \cup Holding]
  /\ level \in [Light -> 0..MaxLevel]
  /\ up \in [Light -> BOOLEAN]
  /\ loops \in [Light -> 0..2]
  /\ count \in [Light -> 0..MaxLevel]
  /\ pin \in [Light -> {"low", "high", "input"}]
  /\ main \in {"join", "exited"}

(* A light is held, or its thread left, at level 0 only: whenever the      *)
(* colour is switched off, the light first dims up to the top and down.    *)
(* The comment at line 139 speaks of holding the light at its level.       *)
HeldDark ==
  \A l \in Light : pc[l] \in Holding \cup {"outer", "active", "exited"}
                     => level[l] = 0 /\ up[l]

(* A light switched off comes to be held, unless it is switched on again.  *)
PauseTakesEffect ==
  \A l \in Light : ~color[l] /\ ~done ~> pc[l] \in Holding \/ color[l] \/ done

(* A light that is on dims to full brightness and to darkness, unless it   *)
(* is switched off: whatever its thread was doing when it was switched on, *)
(* also off and on again within a period, none of its waits keeps it.      *)
DimsUpAndDown ==
  \A l \in Light, end \in {0, MaxLevel} :
    color[l] /\ ~done ~> level[l] = end \/ ~color[l] \/ done

(* 'q' ends all threads and main, whatever the lights are doing.           *)
QuitEnds == done ~> main = "exited"

(* Why these ends are reached: from the first level of a dimming on, each  *)
(* step of its thread takes it nearer to the test of the colour, whoever   *)
(* switches colours meanwhile; after 'q' the steps that hold the light and *)
(* leave the loops do, too.                                                *)
LevelsLeft(l) == IF up[l] THEN 2 * MaxLevel - level[l] ELSE level[l]

(* The steps of showing a level once, and of a level. *)
PeriodSteps == MaxLevel + 5
LevelSteps  == 2 * PeriodSteps + 3

StepsLeft(l) ==
  LET atTest == 4 + LevelSteps * LevelsLeft(l)
      toShow == atTest + PeriodSteps * loops[l] + 1
  IN CASE pc[l] = "exited"    -> 0
       [] pc[l] = "outer"     -> 1
       [] pc[l] = "hold"      -> 2
       [] pc[l] = "holdUnlit" -> 3
       [] pc[l] = "holdOff"   -> 4
       [] pc[l] = "holdLit"   -> 5
       [] pc[l] = "holdOn"    -> 6
       [] pc[l] = "active"    -> 3
       [] pc[l] = "step"      -> atTest
       [] pc[l] = "show"      -> toShow
       [] pc[l] = "unlit"     -> toShow + 1 + count[l]
       [] pc[l] = "off"       -> toShow + 2 + MaxLevel - level[l] - PeriodSteps
       [] pc[l] = "lit"       -> toShow + 3 + MaxLevel - level[l] - PeriodSteps + count[l]
       [] pc[l] = "on"        -> toShow - 1
       [] pc[l] = "ramp"      -> atTest + 2 * PeriodSteps + 2

DimProgress ==
  [][\A l \in Light :
       <<pc[l], count[l]>>' # <<pc[l], count[l]>> /\ (done \/ pc[l] \in Dimming)
         => StepsLeft(l)' < StepsLeft(l)]_<<pc, count>>
=============================================================================
