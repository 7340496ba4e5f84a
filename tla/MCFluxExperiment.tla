-------------------------- MODULE MCFluxExperiment --------------------------
(***************************************************************************)
(* Small instances of FluxExperiment: the speeds of the program, x, -x and *)
(* x / 2, here 8, -8 and 4, with 3 * (2 + 2) samples in a run.             *)
(***************************************************************************)
EXTENDS FluxExperiment

Base ==
  [sane |-> TRUE, settle |-> 2, measure |-> 2, max |-> 12,
   target |-> 1, dzero |-> TRUE,
   speeds |-> [s \in Stages |-> IF s = 0 THEN 8 ELSE IF s = 1 THEN -8 ELSE 4],
   r |-> 2, ur |-> 1, cu |-> 0, vu |-> 1, wu |-> 1, model |-> 0, gradient |-> 1,
   ispan |-> 1, vspan |-> 4, wspan |-> 1, tracking |-> 1, werror |-> 1,
   minSpeed |-> 1, separation |-> 1,
   maxFlux |-> 5, maxUncertainty |-> 2, maxOffset |-> 1, tolerance |-> 2,
   maxCurrent |-> 3, maxSpeed |-> 9, maxEnergy |-> 3]

Late == [Base EXCEPT !.max = 11]
Magnet == [Base EXCEPT !.target = 0, !.max = 20, !.ur = 0]
Refused == [Base EXCEPT !.measure = 1]

Options == {Base, Late, Magnet, Refused}

Seen(i, w, s) ==
  [i |-> i, v |-> 2 * i + 3 * w, w |-> w, power |-> 0, over |-> FALSE,
   steady |-> TRUE, onTarget |-> TRUE, source |-> s, rep |-> "FINITE",
   other |-> "NONE"]

\* Currents on the target at either speed, or one off in a single respect.
Shown ==
  UNION {{Seen(i, w, s), [Seen(i, w, s) EXCEPT !.power = 2],
          [Seen(i, w, s) EXCEPT !.over = TRUE],
          [Seen(i, w, s) EXCEPT !.steady = FALSE],
          [Seen(i, w, s) EXCEPT !.other = "UNCERTAINTY"]}
         : i \in {0, 1}, w \in {8, -8, 4}, s \in {"COMMAND_ONLY", "IDEAL"}}
=============================================================================
