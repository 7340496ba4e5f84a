------------------------------ MODULE MCFluxId ------------------------------
(***************************************************************************)
(* Small instances of FluxId.  A run takes 3 * (1 + 2) samples at speeds 6, *)
(* -6 and 2; the machines are v = 2i + 3w and v = 2i + w, with an offset    *)
(* at most.                                                                 *)
(***************************************************************************)
EXTENDS FluxId

\* Exactly enough samples, every error declared, away from the origin.
Tight ==
  [sane |-> TRUE, settle |-> 1, measure |-> 2, max |-> 9,
   target |-> 1, dzero |-> TRUE,
   speeds |-> [s \in Stages |-> IF s = 0 THEN 6 ELSE IF s = 1 THEN -6 ELSE 2],
   r |-> 2, ur |-> 1, cu |-> 0, vu |-> 1, wu |-> 1, model |-> 0, gradient |-> 1,
   ispan |-> 1, vspan |-> 4, wspan |-> 1, tracking |-> 1, werror |-> 1,
   minSpeed |-> 1, separation |-> 1,
   maxFlux |-> 5, maxUncertainty |-> 1, maxOffset |-> 1, tolerance |-> 2,
   maxCurrent |-> 3, maxSpeed |-> 8, maxEnergy |-> 3]

\* One sample short of what the protocol needs.
Short == [Tight EXCEPT !.max = 8]

\* The origin, with samples to spare and a coarser demand on the interval.
Origin == [Tight EXCEPT !.target = 0, !.max = 10, !.maxUncertainty = 4, !.ur = 0,
                          !.vu = 5, !.maxFlux = 6]

\* Speeds whose separation does not survive the error of the speed sensor.
Cramped == [Tight EXCEPT !.separation = 2]

AllConfigs == {Tight, Short, Origin, Cramped}

Clean(i, v, w) ==
  [i |-> i, v |-> v, w |-> w, power |-> 0, over |-> FALSE, steady |-> TRUE,
   onTarget |-> TRUE, source |-> "MEASURED", rep |-> "FINITE", other |-> "NONE"]

\* Either machine at the three speeds, and what is one off in a single respect.
Strong(i, w) == Clean(i, 2 * i + 3 * w, w)
Weak(i, w) == Clean(i, 2 * i + w, w)

Tracked ==
  {Strong(i, w) : i \in {0, 1}, w \in {6, -6, 2}}
    \cup {Weak(0, w) : w \in {6, -6, 2}}
    \cup {Strong(1, 7), Strong(1, 1), Clean(1, 9, 2), Strong(1, 3), Strong(1, -8)}

\* One thing different from a clean sample, at two speeds.
Odd ==
  UNION {{[o EXCEPT !.power = 2], [o EXCEPT !.over = TRUE],
          [o EXCEPT !.steady = FALSE], [o EXCEPT !.onTarget = FALSE],
          [o EXCEPT !.source = "COMMAND_ONLY"], [o EXCEPT !.source = "IDEAL"],
          [o EXCEPT !.rep = "NONFINITE"], [o EXCEPT !.rep = "HUGE"],
          [o EXCEPT !.rep = "OVERFLOW"], [o EXCEPT !.rep = "ILL_SCALED"],
          [o EXCEPT !.other = "OFFSET"], [o EXCEPT !.other = "TILTED"]}
         : o \in {Strong(1, 6), Strong(1, 2)}}
    \cup {[Strong(0, 2) EXCEPT !.other = "TILTED"]}

AllObservations == Tracked \cup Odd
=============================================================================
