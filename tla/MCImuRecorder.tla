---------------------------- MODULE MCImuRecorder ----------------------------
(* ImuRecorder for TLC: its time computation on values at both ends of a   *)
(* second, against the time that really went by.                           *)
EXTENDS ImuRecorder

UsecSamples == {0, 1, 999, 1000, 46999, 47000, 500000, 952999, 953000, 999000, 999999}

ASSUME DeltaTChecked ==
  \A s0 \in 0..2, s1 \in 0..2, u0 \in UsecSamples, u1 \in UsecSamples :
    LET elapsed == (s1 - s0) * Second + u1 - u0 IN
    elapsed \in 0..Second - 1 => DeltaT(s1, u1, s0, u0, 50) = elapsed \div 1000
=============================================================================
