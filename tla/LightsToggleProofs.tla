------------------------- MODULE LightsToggleProofs -------------------------
(* What the run that finds QuitEnds violated shows, as a theorem: a pin     *)
(* both of whose lights are on when the user quits alternates for ever.     *)
EXTENDS LightsToggle, TLAPS

(* The pin's thread is in its inner loop after 'q', main waits for it. *)
Alternating(p) ==
  /\ done
  /\ switch[p] = 3
  /\ pc[p] \in {"both", "high", "low"}
  /\ main = "join"

PCDomain == DOMAIN pc = Pin

LEMMA DomainKept == PCDomain /\ [Next]_vars => PCDomain'
<1> SUFFICES ASSUME PCDomain, [Next]_vars
             PROVE  PCDomain'
  OBVIOUS
<1> USE DEF PCDomain
<1>1. ASSUME NEW p \in Pin, PinHandler(p)
      PROVE  PCDomain'
  BY <1>1 DEF PinHandler, Loop, Test, TestBoth, Both, High, Low, Goto
<1>2. CASE InputChar \/ Join \/ Terminated \/ UNCHANGED vars
  BY <1>2 DEF InputChar, Press, Quit, Join, Terminated, vars
<1>3. QED
  BY <1>1, <1>2 DEF Next

LEMMA StillAlternating ==
  ASSUME NEW p \in Pin
  PROVE  PCDomain /\ Alternating(p) /\ [Next]_vars => Alternating(p)'
<1> SUFFICES ASSUME PCDomain, Alternating(p), [Next]_vars
             PROVE  Alternating(p)'
  OBVIOUS
<1> USE DEF PCDomain, Alternating
<1>1. ASSUME NEW q \in Pin, PinHandler(q)
      PROVE  Alternating(p)'
  BY <1>1 DEF PinHandler, Loop, Test, TestBoth, Both, High, Low, Goto
<1>2. CASE InputChar
  BY <1>2 DEF InputChar, Press, Quit
<1>3. CASE Join
  BY <1>3 DEF Join
<1>4. CASE Terminated \/ UNCHANGED vars
  BY <1>4 DEF Terminated, vars
<1>5. QED
  BY <1>1, <1>2, <1>3, <1>4 DEF Next

(* Once 'q' was typed while a pin's two lights alternate, they alternate   *)
(* for ever and main never ends, under any scheduling.                     *)
THEOREM AlternatesForEver ==
  ASSUME NEW p \in Pin
  PROVE  FairSpec => [](Alternating(p) => []Alternating(p))
<1>1. Init => PCDomain
  BY DEF Init, PCDomain
<1>2. PCDomain /\ [Next]_vars => PCDomain'
  BY DomainKept
<1>3. PCDomain /\ Alternating(p) /\ [Next]_vars => Alternating(p)'
  BY StillAlternating
<1>4. QED
  BY <1>1, <1>2, <1>3, PTL DEF FairSpec
=============================================================================
