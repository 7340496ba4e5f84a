-------------------------- MODULE MCCurrentTuning ---------------------------
(***************************************************************************)
(* Small instances of CurrentTuning: requests that differ from one which   *)
(* gets what it asks for in the budgets, at points with cross coupling of  *)
(* either sign and with none.                                              *)
(***************************************************************************)
EXTENDS CurrentTuning

Local(dd, dq, qd, qq) ==
  [psiD |-> 1, psiQ |-> 0, dd |-> dd, dq |-> dq, qd |-> qd, qq |-> qq, solvable |-> TRUE]

SmallMap ==
  [i \in {<<0, 0>>, <<1, 0>>, <<0, 2>>, <<3, 0>>} |->
     CASE i = <<0, 0>> -> Local(1, 0, 0, 2)
       [] i = <<1, 0>> -> Local(3, 1, 1, 2)
       [] i = <<0, 2>> -> Local(3, -1, 1, 2)
       [] i = <<3, 0>> -> [Local(1, 0, 0, 2) EXCEPT !.solvable = FALSE]]

Easy ==
  [sane |-> TRUE, current |-> <<0, 0>>, speed |-> 1, bus |-> 9, resistance |-> 2,
   want |-> 3, least |-> 1, most |-> 4, maxRate |-> 12, maxKp |-> 8, maxKi |-> 8,
   error |-> 1, share |-> 1, shareOf |-> 1,
   frequency |-> 60, currentLimit |-> 4, minBus |-> 3, maxBus |-> 12, speedLimit |-> 5]

\* What binds: nothing, one budget each, or two at once.
Budgets ==
  {[Easy EXCEPT !.maxKp = 18], [Easy EXCEPT !.most = 2], [Easy EXCEPT !.maxRate = 4],
   [Easy EXCEPT !.maxKp = 5], [Easy EXCEPT !.maxKi = 5], [Easy EXCEPT !.shareOf = 3],
   [Easy EXCEPT !.maxKp = 4, !.maxKi = 4], [Easy EXCEPT !.maxRate = 5],
   [Easy EXCEPT !.maxKi = 1], [Easy EXCEPT !.maxRate = 1]}

AllRequests ==
  {[r EXCEPT !.current = i, !.speed = s] : r \in Budgets, i \in DOMAIN SmallMap, s \in {1, -4}}
    \cup {[Easy EXCEPT !.error = 5], [Easy EXCEPT !.bus = 2], [Easy EXCEPT !.bus = 13],
          [Easy EXCEPT !.speed = 6], [Easy EXCEPT !.maxRate = 16], [Easy EXCEPT !.least = 5],
          [Easy EXCEPT !.current = <<2, 2>>], [Easy EXCEPT !.sane = FALSE]}
=============================================================================
