------------------------------- MODULE FluxId -------------------------------
(***************************************************************************)
(* The acquisition of the flux at one current, src/src/core/flux_id.c: the *)
(* protocol of the resistance run over three speeds of a driven shaft, one *)
(* positive, one negative, one a positive holdout.  The first two fit      *)
(* v - R*i = w*psi + b, the third validates the fit.                       *)
(*                                                                         *)
(* The code fits two axes with the same lines; modelled is the q voltage,  *)
(* which gives psi_d, from the q current.  What the other current and      *)
(* voltage add is an attribute of the observation: "over", "steady",       *)
(* "onTarget", and "other", the verdict of their fit when the sample       *)
(* closes the run.  With the d current on target a distance in the plane   *)
(* is one along q, and the sqrt(2) of namc_fi_error is 1.                  *)
(***************************************************************************)
EXTENDS Fractions

CONSTANTS
  SampleCap,      \* NAMC_RESISTANCE_MAX_SAMPLES, the largest legal count
  Configs,        \* the configurations (with their limits) a caller passes
  Observations    \* what a sample interval can show, its sequence excepted

Version == 1              \* NAMC_FLUX_ID_VERSION; zeroed storage has 0

Stages == 0..2
Active == {"SETTLING", "SAMPLING"}
Terminal == {"COMPLETE", "DEGRADED", "FAULT"}
Phases == {"IDLE"} \cup Active \cup Terminal

FaultReasons == {"CONFIG", "OBSERVATION", "LIMIT", "ABORTED"}
DegradedReasons ==
  {"SOURCE", "UNSETTLED", "TRACKING", "UNOBSERVABLE", "RANGE", "OFFSET",
   "UNCERTAINTY", "VALIDATION", "TIMEOUT", "REFERENCE"}
Reasons == {"NONE"} \cup FaultReasons \cup DegradedReasons

Trusted == {"IDEAL", "MEASURED", "RECONSTRUCTED"}
Sources == {"COMMAND_ONLY"} \cup Trusted

\* namc_fi_config_t and namc_fi_limits_t.  "sane" stands for the checks of the
\* version, the sample time, the voltage limit and the origin flux tolerance,
\* "dzero" says that the d axis of the target is zero.
ConfigType ==
  [sane : BOOLEAN,
   settle : Nat, measure : Nat, max : Nat,
   target : Int, dzero : BOOLEAN, speeds : [Stages -> Int],
   r : Int, ur : Int, cu : Int, vu : Int, wu : Int, model : Int, gradient : Int,
   ispan : Int, vspan : Int, wspan : Int, tracking : Int, werror : Int,
   minSpeed : Int, separation : Int,
   maxFlux : Int, maxUncertainty : Int, maxOffset : Int, tolerance : Int,
   maxCurrent : Int, maxSpeed : Int, maxEnergy : Int]

\* One interval: q current and voltage, electrical speed.  "rep" is what double
\* precision makes of the numbers: finite, not finite, a magnitude or energy
\* that overflows, a mean that does, or a fit that does if this sample closes it.
ObservationType ==
  [i : Int, v : Int, w : Int, power : Nat,
   over : BOOLEAN, steady : BOOLEAN, onTarget : BOOLEAN, source : Sources,
   rep : {"FINITE", "NONFINITE", "HUGE", "OVERFLOW", "ILL_SCALED"},
   other : {"NONE", "OBSERVATION", "RANGE", "OFFSET", "UNCERTAINTY",
            "VALIDATION", "TILTED"}]

ASSUME ConfigsAssumption == SampleCap \in Nat /\ Configs \subseteq ConfigType
ASSUME ObservationsAssumption == Observations \subseteq ObservationType

VARIABLES
  version,        \* 0 until a start, then Version
  config,         \* the copied configuration and limits
  phase,
  reason,         \* why a run ended, "NONE" for COMPLETE
  stage,          \* index of the current speed
  stageSamples,   \* samples since this stage began settling, or sampling
  elapsed,        \* samples accepted since the start
  energy,         \* apparent energy of those samples
  source,         \* voltage source of the accepted samples
  windows,        \* per stage: how many samples, their sums and extremes
  result,         \* all zero unless COMPLETE
  taken           \* history: the intervals, numbered from the start, whose samples
                  \* were accepted

vars == <<version, config, phase, reason, stage, stageSamples, elapsed,
          energy, source, windows, result, taken>>

ResultType ==
  [flux : Fractions, uncertainty : Fractions,
   offset : Fractions, residual : Fractions, pmReference : BOOLEAN]

ZeroResult ==
  [flux |-> Zero, uncertainty |-> Zero,
   offset |-> Zero, residual |-> Zero, pmReference |-> FALSE]

ZeroConfig ==
  [sane |-> FALSE, settle |-> 0, measure |-> 0, max |-> 0,
   target |-> 0, dzero |-> TRUE, speeds |-> [s \in Stages |-> 0],
   r |-> 0, ur |-> 0, cu |-> 0, vu |-> 0, wu |-> 0, model |-> 0, gradient |-> 0,
   ispan |-> 0, vspan |-> 0, wspan |-> 0, tracking |-> 0, werror |-> 0,
   minSpeed |-> 0, separation |-> 0,
   maxFlux |-> 0, maxUncertainty |-> 0, maxOffset |-> 0, tolerance |-> 0,
   maxCurrent |-> 0, maxSpeed |-> 0, maxEnergy |-> 0]

WindowType ==
  [count : Nat, sumI : Int, sumV : Int, sumW : Int,
   minI : Int, maxI : Int, minV : Int, maxV : Int, minW : Int, maxW : Int]

ZeroWindow ==
  [count |-> 0, sumI |-> 0, sumV |-> 0, sumW |-> 0,
   minI |-> 0, maxI |-> 0, minV |-> 0, maxV |-> 0, minW |-> 0, maxW |-> 0]

Init ==
  /\ version = 0
  /\ config = ZeroConfig
  /\ phase = "IDLE"
  /\ reason = "NONE"
  /\ stage = 0
  /\ stageSamples = 0
  /\ elapsed = 0
  /\ energy = 0
  /\ source = "COMMAND_ONLY"
  /\ windows = [s \in Stages |-> ZeroWindow]
  /\ result = ZeroResult
  /\ taken = {}

-----------------------------------------------------------------------------
(* Start, request and abort.                                               *)

ConfigValid(c) ==
  /\ c.sane
  /\ c.settle \in 1..SampleCap
  /\ c.measure \in 2..SampleCap
  /\ c.max \in 1..SampleCap
  /\ c.ur >= 0 /\ c.ur < c.r
  /\ c.cu >= 0 /\ c.vu >= 0 /\ c.wu >= 0 /\ c.model >= 0 /\ c.gradient > 0
  /\ c.ispan > 0 /\ c.vspan > 0 /\ c.wspan > 0 /\ c.tracking > 0 /\ c.werror > 0
  /\ c.minSpeed > 0 /\ c.separation > 0
  /\ c.maxFlux > 0 /\ c.maxUncertainty > 0 /\ c.maxOffset >= 0 /\ c.tolerance > 0
  /\ c.maxCurrent > 0 /\ c.maxSpeed > 0 /\ c.maxEnergy > 0
  /\ Abs(c.target) <= c.maxCurrent
  /\ \A s \in Stages :
       Abs(c.speeds[s]) <= c.maxSpeed /\ Abs(c.speeds[s]) - c.wu >= c.minSpeed
  /\ c.speeds[0] > 0 /\ c.speeds[1] < 0 /\ c.speeds[2] > 0
  /\ c.speeds[0] - c.speeds[1] - 2 * c.wu > c.separation
  /\ Abs(c.speeds[2] - c.speeds[0]) - 2 * c.wu > c.separation

\* The phase a stop with this reason leaves, and no result with it.
Stop(r) ==
  /\ phase' = IF r \in FaultReasons THEN "FAULT" ELSE "DEGRADED"
  /\ reason' = r
  /\ result' = ZeroResult

\* Mutant: the windows of the last point survive the start of the next.
ClearedButWindows ==
  /\ version' = Version
  /\ stage' = 0
  /\ stageSamples' = 0
  /\ elapsed' = 0
  /\ energy' = 0
  /\ source' = "COMMAND_ONLY"
  /\ result' = ZeroResult
  /\ taken' = {}
  /\ UNCHANGED windows

\* Storage cleared by a start: everything but configuration, phase and reason.
Cleared ==
  /\ version' = Version
  /\ stage' = 0
  /\ stageSamples' = 0
  /\ elapsed' = 0
  /\ energy' = 0
  /\ source' = "COMMAND_ONLY"
  /\ windows' = [s \in Stages |-> ZeroWindow]
  /\ result' = ZeroResult
  /\ taken' = {}

StartAccepted(c) ==
  /\ ConfigValid(c)
  /\ config' = c
  /\ phase' = "SETTLING"
  /\ reason' = "NONE"
  /\ Cleared

StartRejected(c) ==
  /\ ~ConfigValid(c)
  /\ config' = ZeroConfig
  /\ Cleared
  /\ Stop("CONFIG")

\* Does namc_fi_request grant a current and a speed now?  It changes nothing;
\* granted are then the target and config.speeds[stage], and zeros otherwise.
Granted ==
  /\ version = Version
  /\ stage < 3
  /\ phase \in Active
  /\ ConfigValid(config)
  /\ elapsed < config.max
  /\ energy >= 0 /\ energy < config.maxEnergy

\* Mutant: an abort turns the run off and forgets the published result there.
AbortKeepsResult ==
  /\ phase' = "FAULT"
  /\ reason' = "ABORTED"
  /\ UNCHANGED <<version, config, stage, stageSamples, elapsed, energy,
                 source, windows, result, taken>>

Abort ==
  /\ Stop("ABORTED")
  /\ UNCHANGED <<version, config, stage, stageSamples, elapsed, energy,
                 source, windows, taken>>

-----------------------------------------------------------------------------
(* Observe: the refusals that leave every counter as it was.               *)

Untrusted(o) == o.source \notin Trusted \/ (elapsed # 0 /\ o.source # source)

\* Mutant: the sequence is checked once there is a sample it could follow.
RefusalLater(seq, o) ==
  IF version # Version THEN "CONFIG"
  ELSE IF ~ConfigValid(config) \/ stage >= 3 \/ phase \notin Active THEN "CONFIG"
  ELSE IF elapsed >= config.max THEN "TIMEOUT"
  ELSE IF (elapsed # 0 /\ seq # elapsed + 1) \/ energy < 0 \/ o.rep = "NONFINITE"
    THEN "OBSERVATION"
  ELSE IF Untrusted(o) THEN "SOURCE"
  ELSE IF o.rep = "HUGE" THEN "LIMIT"
  ELSE "NONE"

\* The first check of an observation that fails, "NONE" if it is admitted.  A
\* missing observation (NULL) is one whose sequence is never the next.
Refusal(seq, o) ==
  IF version # Version THEN "CONFIG"
  ELSE IF ~ConfigValid(config) \/ stage >= 3 \/ phase \notin Active THEN "CONFIG"
  ELSE IF elapsed >= config.max THEN "TIMEOUT"
  ELSE IF seq # elapsed + 1 \/ energy < 0 \/ o.rep = "NONFINITE" THEN "OBSERVATION"
  ELSE IF Untrusted(o) THEN "SOURCE"
  ELSE IF o.rep = "HUGE" THEN "LIMIT"
  ELSE "NONE"

\* A run that has ended answers with its phase and changes nothing.
Ended == version = Version /\ phase \in Terminal

Refuse(seq, o) ==
  /\ ~Ended
  /\ Refusal(seq, o) # "NONE"
  /\ Stop(Refusal(seq, o))
  /\ UNCHANGED <<version, config, stage, stageSamples, elapsed, energy,
                 source, windows, taken>>

-----------------------------------------------------------------------------
(* Observe: an admitted sample is accounted for before anything else.      *)

Account(seq, o) ==
  /\ ~Ended
  /\ Refusal(seq, o) = "NONE"
  /\ source' = o.source
  /\ energy' = energy + o.power
  /\ elapsed' = elapsed + 1
  /\ taken' = taken \cup {seq}
  /\ UNCHANGED <<version, config>>

OverLimit(o) ==
  \/ o.over
  \/ Abs(o.i) > config.maxCurrent
  \/ Abs(o.w) > config.maxSpeed
  \/ energy + o.power >= config.maxEnergy

\* Mutant: one sample past the deadline.
ContinueLate(p) ==
  IF elapsed + 1 > config.max
  THEN Stop("TIMEOUT")
  ELSE phase' = p /\ UNCHANGED <<reason, result>>

\* The deadline is tested last: the run goes on in phase p, or it is too late.
Continue(p) ==
  IF elapsed + 1 >= config.max
  THEN Stop("TIMEOUT")
  ELSE phase' = p /\ UNCHANGED <<reason, result>>

Trip(seq, o) ==
  /\ Account(seq, o)
  /\ OverLimit(o)
  /\ Stop("LIMIT")
  /\ UNCHANGED <<stage, stageSamples, windows>>

Settle(seq, o) ==
  /\ Account(seq, o)
  /\ ~OverLimit(o)
  /\ phase = "SETTLING"
  /\ IF stageSamples + 1 >= config.settle
     THEN stageSamples' = 0 /\ Continue("SAMPLING")
     ELSE stageSamples' = stageSamples + 1 /\ Continue("SETTLING")
  /\ UNCHANGED <<stage, windows>>

-----------------------------------------------------------------------------
(* Observe: a sample of a window.                                          *)

\* Mutant: the sign of the speed error is forgotten where the shaft runs back.
OffLevelSigned(o) ==
  \/ ~o.onTarget
  \/ Abs(o.i - config.target) > config.tracking
  \/ o.w - config.speeds[stage] > config.werror

OffLevel(o) ==
  \/ ~o.onTarget
  \/ Abs(o.i - config.target) > config.tracking
  \/ Abs(o.w - config.speeds[stage]) > config.werror

\* Why the sample cannot enter the window: the shaft may be too slow for its
\* sensor, current or speed is off its request, or the window is not where the
\* stage counter says it is.
Misfit(o) ==
  LET w == windows[stage]
  IN IF Abs(o.w) - config.wu < config.minSpeed THEN "UNOBSERVABLE"
     ELSE IF OffLevel(o) THEN "TRACKING"
     ELSE IF w.count >= config.measure \/ w.count + 1 # stageSamples + 1
          THEN "OBSERVATION"
     ELSE "NONE"

\* The window with the sample in it.
Extended(w, o) ==
  LET first == w.count = 0
  IN [count |-> w.count + 1,
      sumI |-> w.sumI + o.i,
      sumV |-> w.sumV + o.v,
      sumW |-> w.sumW + o.w,
      minI |-> IF first THEN o.i ELSE Lesser(w.minI, o.i),
      maxI |-> IF first THEN o.i ELSE Greater(w.maxI, o.i),
      minV |-> IF first THEN o.v ELSE Lesser(w.minV, o.v),
      maxV |-> IF first THEN o.v ELSE Greater(w.maxV, o.v),
      minW |-> IF first THEN o.w ELSE Lesser(w.minW, o.w),
      maxW |-> IF first THEN o.w ELSE Greater(w.maxW, o.w)]

Wide(w) ==
  \/ w.maxI - w.minI > config.ispan
  \/ w.maxV - w.minV > config.vspan
  \/ w.maxW - w.minW > config.wspan

\* What every sample that reaches a window does first.
Sampled(seq, o) ==
  /\ Account(seq, o)
  /\ ~OverLimit(o)
  /\ phase = "SAMPLING"

NewWindow(o) == Extended(windows[stage], o)
NewWindows(o) == [windows EXCEPT ![stage] = NewWindow(o)]

DropMisfit(seq, o) ==
  /\ Sampled(seq, o)
  /\ Misfit(o) # "NONE"
  /\ Stop(Misfit(o))
  /\ stageSamples' = stageSamples + 1
  /\ UNCHANGED <<stage, windows>>

\* The window as an overflowing mean leaves it, the coordinates up to the
\* overflow written and the count not.
Torn(o) ==
  {windows, [windows EXCEPT ![stage] = [NewWindow(o) EXCEPT !.count = windows[stage].count]]}

Tear(seq, o) ==
  /\ Sampled(seq, o)
  /\ Misfit(o) = "NONE"
  /\ o.rep = "OVERFLOW"
  /\ Stop("OBSERVATION")
  /\ stageSamples' = stageSamples + 1
  /\ windows' \in Torn(o)
  /\ UNCHANGED stage

\* The sample enters the window.
Entered(seq, o) ==
  /\ Sampled(seq, o)
  /\ Misfit(o) = "NONE"
  /\ o.rep # "OVERFLOW"
  /\ windows' = NewWindows(o)

Unsettle(seq, o) ==
  /\ Entered(seq, o)
  /\ Wide(NewWindow(o)) \/ ~o.steady
  /\ Stop("UNSETTLED")
  /\ stageSamples' = stageSamples + 1
  /\ UNCHANGED stage

\* The window stays within its spans.
Kept(seq, o) ==
  /\ Entered(seq, o)
  /\ ~Wide(NewWindow(o)) /\ o.steady

Collect(seq, o) ==
  /\ Kept(seq, o)
  /\ NewWindow(o).count # config.measure
  /\ stageSamples' = stageSamples + 1
  /\ Continue("SAMPLING")
  /\ UNCHANGED stage

NextStage(seq, o) ==
  /\ Kept(seq, o)
  /\ NewWindow(o).count = config.measure
  /\ stage # 2
  /\ stage' = stage + 1
  /\ stageSamples' = 0
  /\ Continue("SETTLING")

-----------------------------------------------------------------------------
(* Observe: the last sample of the last window closes the fit.  Sums stand *)
(* for means: the three windows hold the same number of samples.           *)

\* Sums of v - R*i.
Residual(w) == w.sumV - config.r * w.sumI

\* The separation of two windows in speed, less what the sensor may have added,
\* is more than the declared one.
Apart(d) == d - 2 * config.wu * config.measure > config.separation * config.measure

Observable(ws) ==
  /\ Apart(ws[0].sumW - ws[1].sumW)
  /\ Apart(Abs(ws[2].sumW - ws[0].sumW))

\* How far current may have been from the target inside the window.
Distance(w) ==
  Greater(Abs(w.minI - config.target), Abs(w.maxI - config.target)) + config.cu

\* namc_fi_error: the sum over the window of what may separate v - R*i from w
\* times the flux at the target and a constant.
Error(w) ==
  config.measure *
    (config.vu + config.r * config.cu + config.ur * config.cu + config.model
      + (Greater(Abs(w.minW), Abs(w.maxW)) + config.wu) * config.gradient * Distance(w))
    + config.ur * Abs(w.sumI)

Estimate(ws) ==
  LET m == config.measure
      d == ws[0].sumW - ws[1].sumW
      ud == 2 * config.wu * m
      dy == Residual(ws[0]) - Residual(ws[1])
  IN [flux |-> Frac(dy, d),
      uncertainty |-> Frac((Error(ws[0]) + Error(ws[1])) * d + Abs(dy) * ud,
                           d * (d - ud)),
      offset |-> Frac(Residual(ws[0]) * d - ws[0].sumW * dy, m * d),
      residual |-> Frac((Residual(ws[2]) - Residual(ws[0])) * d
                          - (ws[2].sumW - ws[0].sumW) * dy, m * d)]

AtOrigin == config.dzero /\ config.target = 0

\* The first check of this axis that fails.
AxisObjection(ws, o) ==
  LET e == Estimate(ws)
  IN IF o.rep = "ILL_SCALED" THEN "OBSERVATION"
     ELSE IF Above(Plus(Magnitude(e.flux), e.uncertainty), config.maxFlux) THEN "RANGE"
     ELSE IF Exceeds(e.offset, config.maxOffset) THEN "OFFSET"
     ELSE IF Above(e.uncertainty, config.maxUncertainty) THEN "UNCERTAINTY"
     ELSE IF Exceeds(e.residual, config.tolerance) THEN "VALIDATION"
     ELSE "NONE"

\* Mutant: the reference test compares the flux itself, not its lower bound.
NoReferenceNominal(ws, o) ==
  AtOrigin /\ (~Above(Estimate(ws).flux, 0) \/ o.other = "TILTED")

\* At zero current the flux must be that of a magnet on the d axis.
NoReference(ws, o) ==
  LET e == Estimate(ws)
  IN AtOrigin /\ (~Above(Minus(e.flux, e.uncertainty), 0) \/ o.other = "TILTED")

\* The first check of the fit that fails; the other axis is fitted before.
Objection(ws, o) ==
  IF ~Observable(ws) THEN "UNOBSERVABLE"
  ELSE IF o.other \notin {"NONE", "TILTED"} THEN o.other
  ELSE IF AxisObjection(ws, o) # "NONE" THEN AxisObjection(ws, o)
  ELSE IF NoReference(ws, o) THEN "REFERENCE"
  ELSE "NONE"

\* No deadline here: a run that closes on its very last sample is complete.
Closing(seq, o) ==
  /\ Kept(seq, o)
  /\ NewWindow(o).count = config.measure
  /\ stage = 2
  /\ stageSamples' = stageSamples + 1
  /\ UNCHANGED stage

Reject(seq, o) ==
  /\ Closing(seq, o)
  /\ Objection(NewWindows(o), o) # "NONE"
  /\ Stop(Objection(NewWindows(o), o))

Publish(seq, o) ==
  /\ Closing(seq, o)
  /\ Objection(NewWindows(o), o) = "NONE"
  /\ result' = LET e == Estimate(NewWindows(o))
               IN [flux |-> e.flux, uncertainty |-> e.uncertainty,
                   offset |-> e.offset, residual |-> e.residual,
                   pmReference |-> AtOrigin]
  /\ phase' = "COMPLETE"
  /\ UNCHANGED reason

-----------------------------------------------------------------------------

Observe(seq, o) ==
  \/ Refuse(seq, o)
  \/ Trip(seq, o)
  \/ Settle(seq, o)
  \/ DropMisfit(seq, o)
  \/ Tear(seq, o)
  \/ Unsettle(seq, o)
  \/ Collect(seq, o)
  \/ NextStage(seq, o)
  \/ Reject(seq, o)
  \/ Publish(seq, o)

\* A missing, repeated, expected or skipped observation.
Sequences == {0, elapsed, elapsed + 1, elapsed + 2}

Next ==
  \/ \E c \in Configs : StartAccepted(c) \/ StartRejected(c)
  \/ \E seq \in Sequences, o \in Observations : Observe(seq, o)
  \/ Abort

Spec == Init /\ [][Next]_vars

-----------------------------------------------------------------------------
(* Properties.                                                             *)

\* The state holds values of the types of namc_fi_state_t; in particular the
\* stage index never leaves the three speeds and windows it addresses.
TypeOK ==
  /\ version \in {0, Version}
  /\ config \in Configs \cup {ZeroConfig}
  /\ phase \in Phases
  /\ reason \in Reasons
  /\ stage \in Stages
  /\ stageSamples \in Nat
  /\ elapsed \in Nat
  /\ energy \in Nat
  /\ source \in Sources
  /\ windows \in [Stages -> WindowType]
  /\ result \in ResultType
  /\ taken \subseteq Nat

Needed(c) == 3 * (c.settle + c.measure)

\* Counters and windows of a running state tell one time: elapsed_samples is
\* what the finished stages took plus what this one has, stage_samples is short
\* of what its phase has to take, finished windows are full, later ones empty,
\* and the current one holds the samples of this stage and no others.  They are
\* changed in different branches of namc_fi_observe.
InStep ==
  phase \in Active =>
    LET before == stage * (config.settle + config.measure)
    IN /\ IF phase = "SETTLING"
          THEN elapsed = before + stageSamples /\ stageSamples < config.settle
          ELSE /\ elapsed = before + config.settle + stageSamples
               /\ stageSamples < config.measure
       /\ \A s \in Stages :
            windows[s].count =
              IF s < stage THEN config.measure
              ELSE IF s = stage /\ phase = "SAMPLING" THEN stageSamples
              ELSE 0

\* Every sample in the window was near the speed of its stage and fast enough
\* for its sensor, near the target, and within the spans.
OnLevel(s) ==
  LET w == windows[s]
  IN /\ ~Wide(w)
     /\ w.minI >= config.target - config.tracking
     /\ w.maxI <= config.target + config.tracking
     /\ w.minW >= config.speeds[s] - config.werror
     /\ w.maxW <= config.speeds[s] + config.werror

\* A published flux rests on the whole protocol: three full windows on their
\* levels, a speed separation that survives the sensor error, one trusted
\* source, both budgets kept, an interval inside the declared range; and the
\* samples are those of successive intervals from the start, none lost, taken
\* twice or shown out of order.
CompleteMeansEvidence ==
  phase = "COMPLETE" =>
    /\ ConfigValid(config)
    /\ elapsed = Needed(config) /\ elapsed <= config.max
    /\ taken = 1..elapsed
    /\ energy < config.maxEnergy
    /\ source \in Trusted
    /\ reason = "NONE"
    /\ \A s \in Stages : windows[s].count = config.measure /\ OnLevel(s)
    /\ Observable(windows)
    /\ ~Above(Plus(Magnitude(result.flux), result.uncertainty), config.maxFlux)

\* A point offered as the reference of the permanent magnet is one taken at zero
\* current whose whole interval is positive, and no other point is offered.
ReferenceIsMagnet ==
  phase = "COMPLETE" =>
    /\ result.pmReference <=> AtOrigin
    /\ result.pmReference => Above(Minus(result.flux, result.uncertainty), 0)

\* namc_fi_request grants a current and a speed exactly while the run goes on.
AuthorityFollowsPhase == Granted <=> phase \in Active

Mode ==
  CASE phase = "IDLE" -> "idle"
    [] phase \in Active -> "active"
    [] phase = "COMPLETE" -> "complete"
    [] phase = "DEGRADED" -> "degraded"
    [] phase = "FAULT" -> "fault"

ContractOf(c) == [needed |-> Needed(c), budget |-> c.max]

\* A published result is told from a zeroed one also where all its numbers are
\* zero: its fractions have other denominators.
A == INSTANCE Acquisition
       WITH Contracts <- {ContractOf(c) : c \in {d \in Configs : ConfigValid(d)}},
            mode <- Mode,
            contract <- ContractOf(config),
            used <- elapsed,
            published <- (result # ZeroResult)

\* The acquisition of a flux point is a bounded acquisition, like that of the
\* resistance.
ImplementsAcquisition == A!Spec

=============================================================================
