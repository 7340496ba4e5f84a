--------------------------- MODULE MCReferenceRun ---------------------------
(***************************************************************************)
(* A small instance of ReferenceRun: runs of two to five samples, every    *)
(* stride that matters for them, room for two traced samples, a map that   *)
(* is dropped at the first, an inner or the last sample or not at all, and *)
(* a lookup that may also fail by itself.                                  *)
(***************************************************************************)
EXTENDS ReferenceRun

Policies == {"DISABLE", "NOMINAL_FALLBACK"}
Laws == {"map", "nominal"}

Slow == [kp |-> 1, ki |-> 0, sound |-> TRUE]
Fast == [kp |-> 2, ki |-> 0, sound |-> TRUE]

Config(policy) ==
  [known |-> TRUE, policy |-> policy, kaw |-> 0,
   gains |-> [law \in Laws |-> IF law = "map" THEN Fast ELSE Slow]]

TwoConfigs == {Config(policy) : policy \in Policies}

Calm ==
  [sensed |-> "GOOD", error |-> 1, bus |-> 3, lookup |-> "OK",
   emf |-> [law \in Laws |-> 0], finite |-> [law \in Laws |-> TRUE]]

ThreeInputs ==
  {Calm, [Calm EXCEPT !.lookup = "OUT_OF_DOMAIN"], [Calm EXCEPT !.sensed = "BEYOND"]}

Plain ==
  [steps : 2..5, stride : {0, 1, 2, 3, 5}, useMap : BOOLEAN, faultStep : {-1, 0, 1, 4, 5},
   timed : {TRUE}, config : TwoConfigs, tune : {"none", "applied"},
   moderate : {TRUE}, provided : {TRUE}, farStart : {TRUE}]

Usual == CHOOSE s \in Plain : s.useMap /\ s.faultStep = 1 /\ s.steps = 4 /\ s.stride = 2

SomeSettings ==
  Plain \cup {[Usual EXCEPT !.moderate = FALSE], [Usual EXCEPT !.provided = FALSE],
              [Usual EXCEPT !.tune = "incomplete"], [Usual EXCEPT !.tune = "refused"],
              [Usual EXCEPT !.timed = FALSE], [Usual EXCEPT !.farStart = FALSE]}
=============================================================================
