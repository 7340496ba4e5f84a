----------------------------- MODULE PlantStep ------------------------------
(***************************************************************************)
(* One integration step of the simulated machines: namc_linear_step of     *)
(* plant/linear_plant.c, and namc_magnetic_step and namc_magnetic_driven_  *)
(* step of plant/magnetic_plant.c.  The classical Runge-Kutta rule         *)
(* evaluates the derivative at four points and validates it at a fifth;    *)
(* any of the five may be rejected, most often because the map does not    *)
(* reach there, and the state must then stay what it was.                  *)
(*                                                                         *)
(* Quantities are integers in units that make the rule exact: a step lasts *)
(* 6 * H, an angle counts quarter turns, inductances, inertia and the 3/2  *)
(* of the torque are 1.  What double precision cannot represent is a       *)
(* magnitude above MaxFinite.                                              *)
(***************************************************************************)
EXTENDS Fractions, Sequences

CONSTANTS
  H,           \* a sixth of the step
  Region,      \* currents <<d, q>> at which lookup and solve both answer
  MaxFinite,
  MaxCalls,    \* bound on the steps of a behaviour
  Machines,    \* parameters of machines
  Starts,      \* states a harness starts a plant in
  Loads, Voltages

MachineType == [r : Nat, friction : Nat, magnet : Nat, poles : Nat \ {0}]
StateType == [id : Int, iq : Int, speed : Int, angle : Int]

ASSUME StepAssumption == H \in Nat \ {0}
ASSUME PlantAssumption ==
  /\ Machines \subseteq MachineType /\ Starts \subseteq StateType
  /\ Loads \subseteq Int /\ Voltages \subseteq Int \X Int

Turn == 4
Kinds == {"linear", "magnetic", "driven"}

Calls ==
  [kind : Kinds, voltage : Voltages, load : Loads, dtValid : BOOLEAN]

VARIABLES
  machine,    \* its parameters
  state,      \* what the caller's pointer addresses: id, iq, speed, angle
  call,       \* the arguments of the last call
  slopes,     \* the derivatives evaluated so far: k1 to k4
  result,     \* "NONE" before a call and while one runs
  calls

plantVars == <<machine, state, call, slopes, result, calls>>

PlantInit ==
  /\ machine \in Machines
  /\ state \in Starts
  /\ call = [kind |-> "linear", voltage |-> <<0, 0>>, load |-> 0, dtValid |-> FALSE]
  /\ slopes = <<>>
  /\ result = "NONE"
  /\ calls = 0

-----------------------------------------------------------------------------
(* Derivatives.                                                            *)

Finite(s) == \A f \in DOMAIN s : Abs(s[f]) <= MaxFinite

\* namc_park: the held voltage in the frame of the rotor.
Park(v, angle) ==
  LET cos == <<1, 0, -1, 0>>[(angle % Turn) + 1]
      sin == <<0, 1, 0, -1>>[(angle % Turn) + 1]
  IN [d |-> cos * v[1] + sin * v[2], q |-> cos * v[2] - sin * v[1]]

\* The two flux models.  The magnetic one is cross coupled, with the incremental
\* inductance [[1, 1], [1, 2]] everywhere in the region.
LinearFlux(s) == [d |-> s.id + machine.magnet, q |-> s.iq]
MagneticFlux(s) == [d |-> s.id + s.iq + machine.magnet, q |-> s.id + 2 * s.iq]

\* What voltage is left to change the flux.
Drop(s, flux) ==
  LET v == Park(call.voltage, s.angle)
      we == machine.poles * s.speed
  IN [d |-> v.d - machine.r * s.id + we * flux.q, q |-> v.q - machine.r * s.iq - we * flux.d]

Acceleration(s, flux, load) ==
  machine.poles * (flux.d * s.iq - flux.q * s.id) - load - machine.friction * s.speed

LinearDerivative(s) ==
  LET flux == LinearFlux(s)
      rhs == Drop(s, flux)
  IN [id |-> rhs.d, iq |-> rhs.q,
      speed |-> Acceleration(s, flux, call.load), angle |-> machine.poles * s.speed]

\* A driven step has no load.
MagneticDerivative(s) ==
  LET flux == MagneticFlux(s)
      rhs == Drop(s, flux)
      load == IF call.kind = "driven" THEN 0 ELSE call.load
  IN [id |-> 2 * rhs.d - rhs.q, iq |-> rhs.q - rhs.d,
      speed |-> Acceleration(s, flux, load), angle |-> machine.poles * s.speed]

LinearEvaluates(s) == Finite(s) /\ Finite(LinearDerivative(s))

MagneticEvaluates(s) ==
  Finite(s) /\ <<s.id, s.iq>> \in Region /\ Finite(MagneticDerivative(s))

\* The derivative as the integrator uses it: a driven shaft keeps its speed.
MagneticRate(s) ==
  IF call.kind = "driven"
  THEN [MagneticDerivative(s) EXCEPT !.speed = 0]
  ELSE MagneticDerivative(s)

-----------------------------------------------------------------------------
(* The transaction.                                                        *)

Offset(s, rate, dt) == [f \in DOMAIN s |-> s[f] + dt * rate[f]]

\* Mutant: the last slope is taken in the middle of the step, like the others.
StageHalfway ==
  IF slopes = <<>> THEN state ELSE Offset(state, slopes[Len(slopes)], 3 * H)

\* Where the next slope is evaluated: at the state, twice in the middle of the
\* step and once at its end, each time along the slope before.
Stage ==
  IF slopes = <<>> THEN state
  ELSE Offset(state, slopes[Len(slopes)], IF Len(slopes) = 3 THEN 6 * H ELSE 3 * H)

\* The weighted mean of the slopes, applied to the state.
Advanced ==
  [f \in DOMAIN state |->
     state[f] + H * (slopes[1][f] + 2 * slopes[2][f] + 2 * slopes[3][f] + slopes[4][f])]

Fmod(a) == IF a < 0 THEN -((-a) % Turn) ELSE a % Turn

\* fmod keeps the sign.
Wrap(a) == IF Fmod(a) < 0 THEN Fmod(a) + Turn ELSE Fmod(a)

Wrapped == [Advanced EXCEPT !.angle = Wrap(@)]

Running == result = "NONE" /\ calls > 0

\* A step returns; its caller sees the result and, perhaps, a new state.
Return(r) ==
  /\ result' = r
  /\ UNCHANGED <<machine, call, slopes, calls>>

Begin(c) ==
  /\ ~Running
  /\ calls < MaxCalls
  /\ calls' = calls + 1
  /\ call' = c
  /\ slopes' = <<>>
  /\ result' = IF c.dtValid THEN "NONE" ELSE "REJECTED"
  /\ UNCHANGED <<machine, state>>

Slope(evaluates, rate) ==
  /\ Running
  /\ Len(slopes) < 4
  /\ evaluates
  /\ slopes' = Append(slopes, rate)
  /\ UNCHANGED <<machine, state, call, result, calls>>

LinearSlope == call.kind = "linear" /\ Slope(LinearEvaluates(Stage), LinearDerivative(Stage))

MagneticSlope == call.kind # "linear" /\ Slope(MagneticEvaluates(Stage), MagneticRate(Stage))

\* A stage the model rejects ends the step.
Reject ==
  /\ Running
  /\ Len(slopes) < 4
  /\ IF call.kind = "linear" THEN ~LinearEvaluates(Stage) ELSE ~MagneticEvaluates(Stage)
  /\ Return("REJECTED")
  /\ UNCHANGED state

\* Mutant: the new state is only tested to be finite.
CommitUnvalidated(evaluates) ==
  /\ Running
  /\ Len(slopes) = 4
  /\ IF Finite(Advanced)
     THEN state' = Wrapped /\ Return("OK")
     ELSE Return("REJECTED") /\ UNCHANGED state

\* The new state is committed once its own derivative is known to exist.
Commit(evaluates) ==
  /\ Running
  /\ Len(slopes) = 4
  /\ IF Finite(Advanced) /\ evaluates
     THEN state' = Wrapped /\ Return("OK")
     ELSE Return("REJECTED") /\ UNCHANGED state

LinearCommit == call.kind = "linear" /\ Commit(LinearEvaluates(Wrapped))

MagneticCommit == call.kind # "linear" /\ Commit(MagneticEvaluates(Wrapped))

PlantNext ==
  \/ \E c \in Calls : Begin(c)
  \/ LinearSlope
  \/ MagneticSlope
  \/ Reject
  \/ LinearCommit
  \/ MagneticCommit

PlantSpec == PlantInit /\ [][PlantNext]_plantVars

-----------------------------------------------------------------------------
(* Properties.                                                             *)

\* The state changes only in the step that reports success, and then to one at
\* which the model is defined: so the next step begins, and what the harness
\* looks up at the new current (flux_identification.c:133) is answered.
StepIsTransaction ==
  [][/\ state' # state => result' = "OK"
     /\ result' = "OK" /\ result # "OK" =>
          /\ state'.angle \in 0..(Turn - 1)
          /\ IF call.kind = "linear" THEN LinearEvaluates(state')
             ELSE MagneticEvaluates(state')]_plantVars

\* What one step makes of motions whose solution is known.
Duration == 6 * H

\* Taylor's polynomial of exp(-z), to the fourth order, for z = r * Duration.
Decay ==
  LET z == machine.r * Duration
  IN 1 - z + (z * z) \div 2 - (z * z * z) \div 6 + (z * z * z * z) \div 24

NoDrive(c) == c.voltage = <<0, 0>>
AtRest(s) == s.id = 0 /\ s.iq = 0

\* An accepted step integrates exactly where a fourth-order rule must: a driven
\* shaft keeps its speed and turns evenly; a free one without flux turns under
\* its load alone; a current without voltage and speed decays as exp(-z) does.
Integrates ==
  [][result' = "OK" /\ result # "OK" =>
       LET s == state
           turned == machine.poles * Duration * s.speed
       IN /\ call.kind = "driven" =>
               state'.speed = s.speed /\ state'.angle = (s.angle + turned) % Turn
          /\ call.kind # "driven" /\ AtRest(s) /\ NoDrive(call)
               /\ machine.magnet = 0 /\ machine.friction = 0 =>
               /\ state'.speed = s.speed - Duration * call.load
               /\ state'.angle =
                    (s.angle + turned
                      - (machine.poles * Duration * Duration * call.load) \div 2) % Turn
          /\ call.kind = "linear" /\ NoDrive(call) /\ s.iq = 0 /\ s.speed = 0
               /\ call.load = 0 =>
               state'.id = Decay * s.id]_plantVars
=============================================================================
