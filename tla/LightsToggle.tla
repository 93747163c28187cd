---------------------------- MODULE LightsToggle ----------------------------
(***************************************************************************)
(* src/hw3Damico/hw3Damico2/hw3Damico2.c: the key thread toggles lights,   *)
(* two of which share a pin (one is lit by a low output, the other by a    *)
(* high one, and both by a pin that alternates); one thread per pin        *)
(* follows the pin's switch; main waits for the three.                     *)
(***************************************************************************)
EXTENDS Integers

Pin == {12, 22}

(* The keys, and how a key changes the switch of its pin, redGreen or      *)
(* blueOrange: bit 0 is the first light, bit 1 the second.                 *)
KeyChar == {"r", "g", "b", "o"}
PinOf(k) == IF k \in {"r", "g"} THEN 12 ELSE 22
Toggled(k, value) ==
  IF k \in {"r", "b"}
    THEN IF value % 2 = 0 THEN value + 1 ELSE value - 1
    ELSE IF value < 2 THEN value + 2 ELSE value - 2

VARIABLES
  switch,  (* redGreen of pin 12, blueOrange of pin 22                   *)
  done,    (* set by 'q'                                                 *)
  pc,      (* where a pin's thread is: the value it tests for            *)
  output,  (* the pin: an input, or an output low or high                *)
  main     (* whether main waits or has ended                            *)

vars == <<switch, done, pc, output, main>>

Init ==
  /\ switch = [p \in Pin |-> 0]
  /\ done = FALSE
  /\ pc = [p \in Pin |-> "loop"]
  /\ output = [p \in Pin |-> "input"]
  /\ main = "join"

-----------------------------------------------------------------------------
Goto(p, from, to) ==
  /\ pc[p] = from
  /\ pc' = [pc EXCEPT ![p] = to]
  /\ UNCHANGED <<switch, done, main>>

SetOutput(p, value) == output' = [output EXCEPT ![p] = value]

Loop(p) ==
  /\ Goto(p, "loop", IF done THEN "exited" ELSE "test0")
  /\ UNCHANGED output

(* Four conditions, one after the other, each of which reads the switch.   *)
Test(p, from, value, to, new) ==
  /\ Goto(p, from, to)
  /\ IF switch[p] = value THEN SetOutput(p, new) ELSE UNCHANGED output

TestBoth(p) ==
  /\ Goto(p, "test3", IF switch[p] = 3 THEN "both" ELSE "loop")
  /\ UNCHANGED output

(* while (redGreen == 3) the pin alternates. *)
Both(p) ==
  /\ Goto(p, "both", IF switch[p] = 3 THEN "high" ELSE "loop")
  /\ UNCHANGED output

High(p) == Goto(p, "high", "low") /\ SetOutput(p, "high")
Low(p)  == Goto(p, "low", "both") /\ SetOutput(p, "low")

PinHandler(p) ==
  \/ Loop(p)
  \/ Test(p, "test0", 0, "test1", "input")
  \/ Test(p, "test1", 1, "test2", "low")
  \/ Test(p, "test2", 2, "test3", "high")
  \/ TestBoth(p) \/ Both(p) \/ High(p) \/ Low(p)

(* The key thread, which ends with 'q'. *)
Press(k) ==
  /\ ~done
  /\ switch' = [switch EXCEPT ![PinOf(k)] = Toggled(k, @)]
  /\ UNCHANGED <<done, pc, output, main>>

Quit ==
  /\ ~done
  /\ done' = TRUE
  /\ UNCHANGED <<switch, pc, output, main>>

InputChar == Quit \/ \E k \in KeyChar : Press(k)

(* main joins the threads, then makes the pins inputs. *)
Join ==
  /\ main = "join"
  /\ done /\ \A p \in Pin : pc[p] = "exited"
  /\ main' = "exited"
  /\ output' = [p \in Pin |-> "input"]
  /\ UNCHANGED <<switch, done, pc>>

Terminated == main = "exited" /\ UNCHANGED vars

Next == InputChar \/ (\E p \in Pin : PinHandler(p)) \/ Join \/ Terminated

(* The threads are scheduled; the user need not type.                      *)
FairSpec ==
  /\ Init /\ [][Next]_vars
  /\ \A p \in Pin : WF_vars(PinHandler(p))
  /\ WF_vars(Join)

-----------------------------------------------------------------------------
(* Properties.                                                             *)

(* 'q' ends the program.                                                   *)
QuitEnds == done ~> main = "exited"
=============================================================================
