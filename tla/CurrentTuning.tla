--------------------------- MODULE CurrentTuning ----------------------------
(***************************************************************************)
(* The offline design of the controller's gains, src/core/current_tuning.c: *)
(* the bandwidth the caller asks for, lowered to the least of five caps,   *)
(* gives the gains; the budgets behind the caps are never compared with    *)
(* the gains themselves.                                                   *)
(*                                                                         *)
(* Arithmetic is exact, on integers and Fractions; bus voltages are in     *)
(* units of sqrt(3) V.  What double precision rounds or overflows is not   *)
(* modelled.                                                               *)
(***************************************************************************)
EXTENDS Fractions, FiniteSets

CONSTANTS
  Requests,   \* requests, with the limits of the base configuration
  Map         \* current <<d, q>> -> flux and incremental inductance there

\* One over the sample time is "frequency", max_rate_sample over the sample
\* time is "maxRate", and the voltage fraction is share / shareOf.
RequestType ==
  [sane : BOOLEAN,
   current : Int \X Int, speed : Int, bus : Int, resistance : Int,
   want : Int, least : Int, most : Int, maxRate : Int, maxKp : Int, maxKi : Int,
   error : Int, share : Int, shareOf : Nat \ {0},
   frequency : Int, currentLimit : Int, minBus : Int, maxBus : Int, speedLimit : Int]

\* What a prepared map answers: an inductance with a positive diagonal and
\* determinant (FluxMap); "solvable" says that the guarded solve accepts it.
PointType ==
  [psiD : Int, psiQ : Int, dd : Nat \ {0}, dq : Int, qd : Int, qq : Nat \ {0},
   solvable : BOOLEAN]

ASSUME RequestsAssumption == Requests \subseteq RequestType
ASSUME MapAssumption ==
  /\ DOMAIN Map \subseteq Int \X Int
  /\ \A i \in DOMAIN Map :
       Map[i] \in PointType /\ Map[i].dd * Map[i].qq - Map[i].dq * Map[i].qd > 0

VARIABLES
  request,    \* that of the last call
  candidate,  \* what the caller's output holds
  result

designVars == <<request, candidate, result>>

DesignResults == {"OK", "INVALID_INPUT", "MODEL_REJECTED", "INFEASIBLE"}

Flags == {"BANDWIDTH", "SAMPLE", "KP", "KI", "VOLTAGE"}

NoCandidate == [bandwidth |-> Zero, caps |-> {}]

-----------------------------------------------------------------------------
(* The checks before the map is asked.                                     *)

Valid(r) ==
  /\ r.sane
  /\ r.frequency > 0 /\ r.currentLimit > 0
  /\ r.minBus > 0 /\ r.maxBus >= r.minBus /\ r.speedLimit > 0
  /\ r.resistance > 0 /\ r.want > 0
  /\ r.least > 0 /\ r.most > 0 /\ r.least <= r.most
  /\ r.maxRate > 0 /\ 4 * r.maxRate <= r.frequency
  /\ r.maxKp > 0 /\ r.maxKi > 0 /\ r.error > 0
  /\ r.share > 0 /\ r.share <= r.shareOf

\* hypot, by the squares it compares: |(a, b)| is at most the integer c.
Within(a, b, c) == c >= 0 /\ a * a + b * b <= c * c

InReach(r) ==
  /\ Within(r.current[1], r.current[2], r.currentLimit - r.error)
  /\ r.minBus <= r.bus /\ r.bus <= r.maxBus
  /\ Abs(r.speed) <= r.speedLimit

-----------------------------------------------------------------------------
(* The local model.                                                        *)

At(r) == Map[r.current]
Det(r) == At(r).dd * At(r).qq - At(r).dq * At(r).qd
Peak(r) == Greater(At(r).dd, At(r).qq)

\* The columns of the inverse are (qq, -qd) and (-dq, dd), over the determinant.
\* The two infinity norms, as numerators over it.
InverseNorm(r) ==
  Greater(Abs(At(r).qq) + Abs(At(r).dq), Abs(At(r).qd) + Abs(At(r).dd))

Coupling(r) ==
  Greater(Abs(At(r).qq * At(r).dd) + Abs(At(r).dq * At(r).qq),
          Abs(At(r).qd * At(r).dd) + Abs(At(r).dd * At(r).qq))

\* What the bus leaves above the steady voltage of the point, in whole volts:
\* exact where that voltage is a whole number.
Headroom(r) ==
  LET vd == r.resistance * r.current[1] - r.speed * At(r).psiQ
      vq == r.resistance * r.current[2] + r.speed * At(r).psiD
  IN Cardinality({h \in 1..r.bus : Within(vd, vq, r.bus - h)})

-----------------------------------------------------------------------------
(* The caps.                                                               *)

\* Mutant: the sample cap forgets what the resistance takes of the rate.
SampleCapInductive(r) == Frac(r.maxRate * Det(r), Coupling(r))

SampleCap(r) ==
  Frac(r.maxRate * Det(r) - r.resistance * InverseNorm(r), Coupling(r))

\* Mutant: the increment of the integral is counted as if it were the gain.
VoltageCapSteep(r) ==
  Frac(r.share * Headroom(r), r.shareOf * r.error * (Peak(r) + r.resistance))

VoltageCap(r) ==
  Frac(r.share * Headroom(r) * r.frequency,
       r.shareOf * r.error * (Peak(r) * r.frequency + r.resistance))

Cap(r, f) ==
  CASE f = "BANDWIDTH" -> Frac(r.most, 1)
    [] f = "SAMPLE" -> SampleCap(r)
    [] f = "KP" -> Frac(r.maxKp, Peak(r))
    [] f = "KI" -> Frac(r.maxKi, r.resistance)
    [] f = "VOLTAGE" -> VoltageCap(r)

Least(x, y) == IF AtMost(x, y) THEN x ELSE y

\* fmin over the caps, starting with the bandwidth asked for.
Bandwidth(r) ==
  Least(Least(Least(Least(Least(Frac(r.want, 1),
    Cap(r, "BANDWIDTH")), Cap(r, "SAMPLE")), Cap(r, "KP")), Cap(r, "KI")),
    Cap(r, "VOLTAGE"))

Feasible(r) ==
  /\ Headroom(r) > 0
  /\ \A f \in Flags : Above(Cap(r, f), 0)
  /\ ~Below(Bandwidth(r), r.least)

\* The gains are the bandwidth times dd, qq and the resistance.
Design(r) ==
  [bandwidth |-> Bandwidth(r),
   caps |-> {f \in Flags : Below(Cap(r, f), r.want)}]

-----------------------------------------------------------------------------

DesignInit ==
  /\ request \in Requests
  /\ candidate = NoCandidate
  /\ result = "INVALID_INPUT"

\* The first check that fails.
DesignVerdict(r) ==
  IF ~Valid(r) THEN "INVALID_INPUT"
  ELSE IF ~InReach(r) THEN "INFEASIBLE"
  ELSE IF r.current \notin DOMAIN Map \/ ~At(r).solvable THEN "MODEL_REJECTED"
  ELSE IF ~Feasible(r) THEN "INFEASIBLE"
  ELSE "OK"

\* namc_current_tune: the output is written once, at the very end.
Tune(r) ==
  /\ request' = r
  /\ result' = DesignVerdict(r)
  /\ candidate' = IF result' = "OK" THEN Design(r) ELSE candidate

DesignNext == \E r \in Requests : Tune(r)

DesignSpec == DesignInit /\ [][DesignNext]_designVars

-----------------------------------------------------------------------------
(* Properties.                                                             *)

\* Every budget the caller has declared, for a bandwidth w: both gains, the
\* rate of the local closed loop per sample, the voltage the declared error
\* takes from proportional action and one increment of the integral.
Admissible(w, r) ==
  /\ AtMost(Frac(r.least, 1), w) /\ AtMost(w, Frac(r.want, 1)) /\ AtMost(w, Frac(r.most, 1))
  /\ w.num * At(r).dd <= r.maxKp * w.den
  /\ w.num * At(r).qq <= r.maxKp * w.den
  /\ w.num * r.resistance <= r.maxKi * w.den
  /\ r.resistance * InverseNorm(r) * w.den + w.num * Coupling(r)
       <= r.maxRate * Det(r) * w.den
  /\ r.shareOf * r.error * (w.num * Peak(r) * r.frequency + w.num * r.resistance)
       <= r.share * Headroom(r) * r.frequency * w.den

\* The gains of an accepted design keep every declared budget.
BudgetsKept == result = "OK" => Admissible(candidate.bandwidth, request)

\* No bandwidth above that of an accepted design would keep them.
LargestAt(w) ==
  result = "OK" /\ Admissible(w, request) => AtMost(w, candidate.bandwidth)

\* A design is refused by the caps only where no bandwidth at all keeps the
\* budgets.
RefusedAt(w) ==
  /\ result = "INFEASIBLE" /\ InReach(request) /\ Headroom(request) > 0
  => ~Admissible(w, request)

\* Bandwidths to compare with, up to twice the one asked for.
Grid == {Frac(n, 4) : n \in 1..(8 * request.want)}

\* The caps reported are those below the request: none exactly when the caller
\* gets what was asked for.
CapsTellBandwidth ==
  result = "OK" =>
    (candidate.caps = {} <=> AtMost(Frac(request.want, 1), candidate.bandwidth))

\* The design is the best one its own budgets admit, no refusal by the caps is
\* unfounded, and the flags say whether the caller got less than was asked for.
DesignIsLargest == CapsTellBandwidth /\ \A w \in Grid : LargestAt(w) /\ RefusedAt(w)
=============================================================================
