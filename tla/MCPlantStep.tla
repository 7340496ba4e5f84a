---------------------------- MODULE MCPlantStep -----------------------------
(***************************************************************************)
(* Small instances of PlantStep: a map that ends close to the states it is *)
(* used at, so that every stage of a step may be the one it rejects.       *)
(***************************************************************************)
EXTENDS PlantStep

Square == (-7..7) \X (-7..7)

AllMachines ==
  {[r |-> 0, friction |-> 0, magnet |-> 0, poles |-> 1],
   [r |-> 0, friction |-> 0, magnet |-> 1, poles |-> 1],
   [r |-> 1, friction |-> 1, magnet |-> 0, poles |-> 1],
   [r |-> 0, friction |-> 1, magnet |-> 1, poles |-> 2]}

AllStarts ==
  [id : {-1, 0, 1}, iq : {0, 1}, speed : {-1, 0, 1}, angle : {0, 3}]

AllVoltages == {<<0, 0>>, <<1, 0>>, <<0, -1>>}
=============================================================================
