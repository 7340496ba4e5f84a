----------------------------- MODULE Modulation -----------------------------
(***************************************************************************)
(* From a voltage command to the voltage at the machine: namc_modulate of  *)
(* core/reference.c, which turns a stationary command into three duties,   *)
(* and namc_average_inverter of plant/linear_plant.c, the ideal bridge     *)
(* that applies them.  The modulator lowers the command to the circle of   *)
(* radius vdc / sqrt(3), shifts the phases to the middle of the bus and    *)
(* then clips every duty; the clip must never act.                         *)
(*                                                                         *)
(* Arithmetic is exact: a beta component counts 1 / sqrt(3) of a volt, a   *)
(* duty or a voltage is an integer over "den".  A command above the limit  *)
(* is one with a whole magnitude, so that scaling it stays rational.       *)
(***************************************************************************)
EXTENDS Fractions

CONSTANTS
  Commands,   \* [alpha, beta : Int, finite : BOOLEAN]
  Buses       \* bus voltages

CommandType == [alpha : Int, beta : Int, finite : BOOLEAN]

ASSUME CommandsAssumption == Commands \subseteq CommandType
ASSUME BusesAssumption == Buses \subseteq Int

VARIABLES
  command, vdc,  \* the arguments of the last call of the modulator
  duty,          \* its output
  voltage,       \* what the bridge applies
  stage          \* "idle", "OK" or "INVALID_INPUT" of the modulator, "applied",
                 \* "refused" by the bridge

vars == <<command, vdc, duty, voltage, stage>>

Disabled == [a |-> 1, b |-> 1, c |-> 1, den |-> 2, enabled |-> 0]
NoVoltage == [alpha |-> 0, beta |-> 0, den |-> 1]

-----------------------------------------------------------------------------

\* The square of sqrt(3) times a magnitude.
Square(v) == 3 * v.alpha * v.alpha + v.beta * v.beta

Root(n) == CHOOSE m \in 0..n : m * m = n

\* The bound on commands above the circle.
ASSUME WholeMagnitudes ==
  \A v \in Commands, u \in Buses :
    u > 0 /\ Square(v) > u * u => \E m \in 0..Square(v) : m * m = Square(v)

\* The command with its bus, in a common unit: above the circle it is scaled by
\* the limit over the magnitude.
Limited(v, u) ==
  IF Square(v) > u * u
  THEN [alpha |-> v.alpha * u, beta |-> v.beta * u, bus |-> u * Root(Square(v))]
  ELSE [alpha |-> v.alpha, beta |-> v.beta, bus |-> u]

\* namc_inverse_clarke, in halves.
InverseClarke(v) ==
  [a |-> 2 * v.alpha, b |-> v.beta - v.alpha, c |-> -v.beta - v.alpha]

\* namc_clarke, alpha in thirds and beta, as everywhere, in parts of sqrt(3);
\* both over three times the unit of the phases.
Clarke(p) == [alpha |-> 2 * p.a - p.b - p.c, beta |-> 3 * (p.b - p.c)]

Clip(x, low, high) == Lesser(high, Greater(low, x))

\* Mutant: the zero of the phases stays in the middle of the bus.
CommonNone(p) == 0

\* What is added to all phases, over four times the bus: minus the sum of the
\* extremes.
Common(p) == -(Greater(p.a, Greater(p.b, p.c)) + Lesser(p.a, Lesser(p.b, p.c)))

Duties(w) ==
  LET p == InverseClarke(w)
      of(x) == Clip(2 * w.bus + 2 * x + Common(p), 0, 4 * w.bus)
  IN [a |-> of(p.a), b |-> of(p.b), c |-> of(p.c), den |-> 4 * w.bus, enabled |-> 1]

Init ==
  /\ command \in Commands
  /\ vdc \in Buses
  /\ duty = Disabled
  /\ voltage = NoVoltage
  /\ stage = "idle"

\* The modulator disables its output before it looks at the rest.
Modulate(v, u) ==
  /\ command' = v
  /\ vdc' = u
  /\ IF v.finite /\ u > 0
     THEN stage' = "OK" /\ duty' = Duties(Limited(v, u))
     ELSE stage' = "INVALID_INPUT" /\ duty' = Disabled
  /\ UNCHANGED voltage

\* What a bridge on u volts makes of duties: phase voltages around their mean.
Bridge(d, u) ==
  LET sum == d.a + d.b + d.c
      of(x) == u * (3 * x - sum)
      v == Clarke([a |-> of(d.a), b |-> of(d.b), c |-> of(d.c)])
  IN [alpha |-> v.alpha, beta |-> v.beta, den |-> 9 * d.den]

InRange(d) == \A x \in {d.a, d.b, d.c} : 0 <= x /\ x <= d.den

\* The bridge clears its output first and rejects duties outside 0 to 1.
Apply ==
  /\ stage \in {"OK", "INVALID_INPUT"}
  /\ IF vdc > 0 /\ InRange(duty)
     THEN /\ stage' = "applied"
          /\ voltage' = IF duty.enabled = 0 THEN NoVoltage ELSE Bridge(duty, vdc)
     ELSE stage' = "refused" /\ voltage' = NoVoltage
  /\ UNCHANGED <<command, vdc, duty>>

Next == Apply \/ \E v \in Commands, u \in Buses : Modulate(v, u)

Spec == Init /\ [][Next]_vars

-----------------------------------------------------------------------------
(* Properties.                                                             *)

Sound == command.finite /\ vdc > 0

\* A command on or below the circle reaches the machine exactly: neither the
\* shift nor the clip nor the bridge changes it.
WithinCircle ==
  /\ voltage.alpha = command.alpha * voltage.den
  /\ voltage.beta = command.beta * voltage.den

\* One above it keeps its direction and gets the length of the radius.
OnCircle ==
  /\ voltage.alpha * Root(Square(command)) = command.alpha * vdc * voltage.den
  /\ voltage.beta * Root(Square(command)) = command.beta * vdc * voltage.den

\* What the machine gets is what was asked for, as far as the bus reaches; and
\* the bridge accepts every set of duties that the modulator makes.
DeliversCommand ==
  Sound /\ stage \in {"applied", "refused"} =>
    /\ stage = "applied"
    /\ IF Square(command) <= vdc * vdc THEN WithinCircle ELSE OnCircle

\* After a call that failed the bridge applies nothing, whatever the calls
\* before it have left in the output.
OffUnlessCommanded ==
  ~Sound /\ stage \in {"INVALID_INPUT", "applied", "refused"} =>
    duty.enabled = 0 /\ (stage # "INVALID_INPUT" => voltage = NoVoltage)

\* Both: the machine is given what the last call asked for, and nothing else.
BridgeObeys == DeliversCommand /\ OffUnlessCommanded
=============================================================================
