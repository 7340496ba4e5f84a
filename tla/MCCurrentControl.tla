-------------------------- MODULE MCCurrentControl --------------------------
(***************************************************************************)
(* A small instance of CurrentControl: two buses, errors of both signs, a  *)
(* map whose rotational voltage differs from the nominal priors', tuned    *)
(* gains that are sound, missing or not sound, and both policies.          *)
(***************************************************************************)
EXTENDS CurrentControl

Slow == [kp |-> 1, ki |-> 1, sound |-> TRUE]
Fast == [kp |-> 2, ki |-> 2, sound |-> TRUE]
Unsound == [kp |-> 0, ki |-> 0, sound |-> FALSE]

Config(p, w, nominal, mapped) ==
  [known |-> TRUE, policy |-> p, kaw |-> w,
   gains |-> [law \in Laws |-> IF law = "map" THEN mapped ELSE nominal]]

AllConfigs ==
  {Config(p, w, Slow, g) : p \in Policies, w \in {0, 1}, g \in {Slow, Fast}}
    \cup {Config("NOMINAL_FALLBACK", 1, Slow, Unsound),
          Config("NOMINAL_FALLBACK", 1, Unsound, Fast),
          [Config("DISABLE", 1, Slow, Fast) EXCEPT !.known = FALSE]}

Calm(error, bus) ==
  [sensed |-> "GOOD", error |-> error, bus |-> bus, lookup |-> "OK",
   emf |-> [law \in Laws |-> IF law = "map" THEN 2 ELSE 1],
   finite |-> [law \in Laws |-> TRUE]]

Good == {Calm(error, bus) : error \in {-2, 0, 2}, bus \in {2, 4}}

Overflow(in, laws) == [in EXCEPT !.finite = [law \in Laws |-> law \notin laws]]

Bad ==
  UNION {{[in EXCEPT !.sensed = "MALFORMED"], [in EXCEPT !.sensed = "BEYOND"],
          [in EXCEPT !.sensed = "WILD_REFERENCE"],
          [in EXCEPT !.lookup = "OUT_OF_DOMAIN"], [in EXCEPT !.lookup = "INVALID_MAP"],
          [in EXCEPT !.lookup = "OUT_OF_DOMAIN", !.sensed = "BEYOND"],
          [Overflow(in, {"nominal"}) EXCEPT !.lookup = "OUT_OF_DOMAIN"],
          Overflow(in, {"map"}), Overflow(in, {"nominal"})}
         : in \in {Calm(2, 4), Calm(-2, 2)}}

AllInputs == Good \cup Bad
=============================================================================
