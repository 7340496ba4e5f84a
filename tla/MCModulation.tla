---------------------------- MODULE MCModulation ----------------------------
(***************************************************************************)
(* Small instances of Modulation: every command on a grid that reaches far *)
(* beyond the circle of the smaller bus.                                   *)
(***************************************************************************)
EXTENDS Modulation

Whole(v) == \E m \in 0..10 : m * m = Square(v)

Grid == {v \in [alpha : -4..4, beta : -7..7, finite : {TRUE}] :
           Square(v) <= 16 \/ Whole(v)}

AllCommands == Grid \cup {[alpha |-> 0, beta |-> 1, finite |-> FALSE]}
=============================================================================
