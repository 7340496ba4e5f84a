--------------------------- MODULE MCResistanceId ---------------------------
(***************************************************************************)
(* Small instances of ResistanceId.  A run takes 3 * (1 + 2) samples; the  *)
(* levels are 1, 5 and -1 and the machine is one with v = 4i or v = 4i+1.  *)
(***************************************************************************)
EXTENDS ResistanceId

\* Exactly enough samples, error bounds on both sensors, a small energy budget.
Tight ==
  [sane |-> TRUE, settle |-> 1, measure |-> 2, max |-> 9,
   levels |-> [s \in Stages |-> IF s = 0 THEN 1 ELSE IF s = 1 THEN 5 ELSE -1],
   separation |-> 1, ispan |-> 1, vspan |-> 4, tracking |-> 1,
   minR |-> 1, maxR |-> 12, maxOffset |-> 1, maxUncertainty |-> 5,
   tolerance |-> 1, cu |-> 1, vu |-> 1, maxCurrent |-> 6, maxEnergy |-> 3]

\* One sample short of what the protocol needs.
Short == [Tight EXCEPT !.max = 8]

\* A longer settling and samples to spare, no sensor error declared.
Spare == [Tight EXCEPT !.settle = 2, !.max = 13, !.cu = 0, !.vu = 0, !.minR = 4, !.maxR = 5]

\* Levels no wider apart than the declared separation and sensor error.
Cramped == [Tight EXCEPT !.separation = 2]

AllConfigs == {Tight, Short, Spare, Cramped}

Clean(i, v) ==
  [i |-> i, v |-> v, power |-> 0, over |-> FALSE, quiet |-> TRUE,
   source |-> "MEASURED", rep |-> "FINITE"]

\* The currents a controller can leave at the three levels, exact or one off,
\* with the voltage of either machine.
Tracked == {Clean(i, 4 * i + b) : i \in {1, 2, 5, 4, -1}, b \in {0, 1}}

\* One thing different from a clean sample, at each level.
Odd ==
  UNION {{[o EXCEPT !.power = 2], [o EXCEPT !.over = TRUE],
          [o EXCEPT !.quiet = FALSE], [o EXCEPT !.source = "COMMAND_ONLY"],
          [o EXCEPT !.source = "IDEAL"], [o EXCEPT !.rep = "NONFINITE"],
          [o EXCEPT !.rep = "HUGE"], [o EXCEPT !.rep = "ILL_SCALED"]}
         : o \in {Clean(1, 4), Clean(5, 20), Clean(-1, -4)}}

AllObservations == Tracked \cup Odd
=============================================================================
