----------------------- MODULE MCResistanceExperiment -----------------------
(***************************************************************************)
(* Small instances of ResistanceExperiment: levels 1, 5 and -1, machines   *)
(* with v = 5i and v = 8i, and a policy that asks for less uncertainty (2) *)
(* than the least resistance (3).                                          *)
(***************************************************************************)
EXTENDS ResistanceExperiment

Base ==
  [sane |-> TRUE, settle |-> 1, measure |-> 2, max |-> 9,
   levels |-> [s \in Stages |-> IF s = 0 THEN 1 ELSE IF s = 1 THEN 5 ELSE -1],
   separation |-> 1, ispan |-> 1, vspan |-> 8, tracking |-> 1,
   minR |-> 3, maxR |-> 30, maxOffset |-> 8, maxUncertainty |-> 2,
   tolerance |-> 8, cu |-> 0, vu |-> 1, maxCurrent |-> 6, maxEnergy |-> 3]

Coarse == [Base EXCEPT !.cu = 1, !.max = 12]
Late == [Base EXCEPT !.max = 8]
Refused == [Base EXCEPT !.settle = 0]

Options == {Base, Coarse, Late, Refused}

Seen(i, r, s) ==
  [i |-> i, v |-> r * i, power |-> 0, over |-> FALSE, quiet |-> TRUE,
   source |-> s, rep |-> "FINITE"]

Shown ==
  UNION {{Seen(i, r, s), [Seen(i, r, s) EXCEPT !.power = 2],
          [Seen(i, r, s) EXCEPT !.over = TRUE],
          [Seen(i, r, s) EXCEPT !.quiet = FALSE]}
         : i \in {1, 5, -1}, r \in {5, 8}, s \in {"COMMAND_ONLY", "IDEAL"}}
=============================================================================
