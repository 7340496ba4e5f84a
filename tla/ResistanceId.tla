---------------------------- MODULE ResistanceId ----------------------------
(***************************************************************************)
(* The bounded standstill resistance identifier, src/src/core/             *)
(* resistance_id.c: one caller-owned state, started with a configuration,  *)
(* shown one observation per sample interval, asked between two            *)
(* observations which d-axis current it wants, and aborted at will.        *)
(*                                                                         *)
(* A run visits three current levels.  At each it discards settle_samples  *)
(* observations, then keeps measure_samples of them in a window.  Two      *)
(* positive levels fit v = R*i + b, the negative one validates the fit.    *)
(*                                                                         *)
(* Quantities are integers in an arbitrary unit, and the arithmetic on     *)
(* them is exact: what double precision rounds is not modelled, what it    *)
(* cannot represent is an attribute of the observation ("rep" below).      *)
(***************************************************************************)
EXTENDS Fractions

CONSTANTS
  SampleCap,      \* NAMC_RESISTANCE_MAX_SAMPLES, the largest legal count
  Configs,        \* the configurations (with their limits) a caller passes
  Observations    \* what a sample interval can show, its sequence excepted

Version == 1              \* NAMC_RESISTANCE_ID_VERSION; zeroed storage has 0

Stages == 0..2
Active == {"SETTLING", "SAMPLING"}
Terminal == {"COMPLETE", "DEGRADED", "FAULT"}
Phases == {"IDLE"} \cup Active \cup Terminal

FaultReasons == {"BAD_CONFIG", "BAD_OBSERVATION", "LIMIT", "ABORTED"}
DegradedReasons ==
  {"UNTRUSTED_VOLTAGE", "UNSETTLED", "TRACKING", "NO_EXCITATION", "RANGE",
   "OFFSET", "UNCERTAINTY", "VALIDATION", "TIMEOUT"}
Reasons == {"NONE"} \cup FaultReasons \cup DegradedReasons

Trusted == {"IDEAL", "MEASURED", "RECONSTRUCTED"}
Sources == {"COMMAND_ONLY"} \cup Trusted

\* namc_rs_config_t and namc_rs_limits_t.  "sane" stands for the checks of
\* the fields no property here tells apart: the configuration's version, the
\* sample time, the quadrature thresholds, the voltage and speed limits.
ConfigType ==
  [sane : BOOLEAN,
   settle : Nat, measure : Nat, max : Nat,
   levels : [Stages -> Int],
   separation : Int, ispan : Int, vspan : Int, tracking : Int,
   minR : Int, maxR : Int, maxOffset : Int, maxUncertainty : Int,
   tolerance : Int, cu : Int, vu : Int,
   maxCurrent : Int, maxEnergy : Int]

\* namc_rs_observation_t without its sequence.  i and v are the d-axis current
\* and terminal voltage; "power" is the apparent energy of the interval; "over"
\* says that what i does not show (q axis, voltage, speed) breaks a hard limit,
\* "quiet" that the q axis is inside the tracking thresholds; "rep" says what
\* double precision makes of it: all fields finite, some field not finite, a
\* magnitude or energy that overflows, or a fit that overflows when this sample
\* closes the last window.
ObservationType ==
  [i : Int, v : Int, power : Nat, over : BOOLEAN, quiet : BOOLEAN,
   source : Sources, rep : {"FINITE", "NONFINITE", "HUGE", "ILL_SCALED"}]

ASSUME ConfigsAssumption == SampleCap \in Nat /\ Configs \subseteq ConfigType
ASSUME ObservationsAssumption == Observations \subseteq ObservationType

VARIABLES
  version,        \* 0 until a start, then Version
  config,         \* the copied configuration and limits
  phase,
  reason,         \* why a run ended, "NONE" for COMPLETE
  stage,          \* index of the current level
  stageSamples,   \* samples since this stage began settling, or sampling
  elapsed,        \* samples accepted since the start
  energy,         \* apparent energy of those samples
  source,         \* voltage source of the accepted samples
  windows,        \* per stage: how many samples, their sums and extremes
  result,         \* fractions, all zero unless COMPLETE
  taken           \* history: the intervals, numbered from the start, whose samples
                  \* were accepted

vars == <<version, config, phase, reason, stage, stageSamples, elapsed,
          energy, source, windows, result, taken>>

ResultType ==
  [resistance : Fractions, lower : Fractions, upper : Fractions,
   offset : Fractions, residual : Fractions]

ZeroResult ==
  [resistance |-> Zero, lower |-> Zero, upper |-> Zero,
   offset |-> Zero, residual |-> Zero]

-----------------------------------------------------------------------------
(* Zeroed storage.                                                         *)

ZeroConfig ==
  [sane |-> FALSE, settle |-> 0, measure |-> 0, max |-> 0,
   levels |-> [s \in Stages |-> 0],
   separation |-> 0, ispan |-> 0, vspan |-> 0, tracking |-> 0,
   minR |-> 0, maxR |-> 0, maxOffset |-> 0, maxUncertainty |-> 0,
   tolerance |-> 0, cu |-> 0, vu |-> 0, maxCurrent |-> 0, maxEnergy |-> 0]

WindowType ==
  [count : Nat, sumI : Int, sumV : Int,
   minI : Int, maxI : Int, minV : Int, maxV : Int]

ZeroWindow ==
  [count |-> 0, sumI |-> 0, sumV |-> 0,
   minI |-> 0, maxI |-> 0, minV |-> 0, maxV |-> 0]

Init ==
  /\ version = 0
  /\ config = ZeroConfig
  /\ phase = "IDLE"
  /\ reason = "NONE"
  /\ stage = 0
  /\ stageSamples = 0
  /\ elapsed = 0
  /\ energy = 0
  /\ source = "COMMAND_ONLY"
  /\ windows = [s \in Stages |-> ZeroWindow]
  /\ result = ZeroResult
  /\ taken = {}

-----------------------------------------------------------------------------
(* Start, request and abort.                                               *)

ConfigValid(c) ==
  /\ c.sane
  /\ c.settle \in 1..SampleCap
  /\ c.measure \in 2..SampleCap
  /\ c.max \in 1..SampleCap
  /\ c.separation > 0 /\ c.ispan > 0 /\ c.vspan > 0 /\ c.tracking > 0
  /\ 0 < c.minR /\ c.minR < c.maxR
  /\ c.maxOffset >= 0 /\ c.maxUncertainty > 0 /\ c.tolerance > 0
  /\ c.cu >= 0 /\ c.vu >= 0
  /\ c.maxCurrent > 0 /\ c.maxEnergy > 0
  /\ \A s \in Stages : Abs(c.levels[s]) <= c.maxCurrent
  /\ 0 < c.levels[0] /\ c.levels[0] < c.levels[1] /\ c.levels[2] < 0
  /\ c.levels[1] - c.levels[0] > c.separation + 2 * c.cu

\* The phase a stop with this reason leaves, and no result with it.
Stop(r) ==
  /\ phase' = IF r \in FaultReasons THEN "FAULT" ELSE "DEGRADED"
  /\ reason' = r
  /\ result' = ZeroResult

\* Storage cleared by a start: everything but configuration, phase and reason.
Cleared ==
  /\ version' = Version
  /\ stage' = 0
  /\ stageSamples' = 0
  /\ elapsed' = 0
  /\ energy' = 0
  /\ source' = "COMMAND_ONLY"
  /\ windows' = [s \in Stages |-> ZeroWindow]
  /\ result' = ZeroResult
  /\ taken' = {}

StartAccepted(c) ==
  /\ ConfigValid(c)
  /\ config' = c
  /\ phase' = "SETTLING"
  /\ reason' = "NONE"
  /\ Cleared

StartRejected(c) ==
  /\ ~ConfigValid(c)
  /\ config' = ZeroConfig
  /\ Cleared
  /\ Stop("BAD_CONFIG")

\* Does namc_rs_request grant a current now?  It changes nothing; the level it
\* then requests is config.levels[stage], and zero otherwise.
Granted ==
  /\ version = Version
  /\ stage < 3
  /\ phase \in Active
  /\ ConfigValid(config)
  /\ elapsed < config.max
  /\ energy >= 0 /\ energy < config.maxEnergy

Request == IF Granted THEN config.levels[stage] ELSE 0

\* Mutant: an abort turns the run off and forgets the published result there.
AbortKeepsResult ==
  /\ phase' = "FAULT"
  /\ reason' = "ABORTED"
  /\ UNCHANGED <<version, config, stage, stageSamples, elapsed, energy,
                 source, windows, result, taken>>

Abort ==
  /\ Stop("ABORTED")
  /\ UNCHANGED <<version, config, stage, stageSamples, elapsed, energy,
                 source, windows, taken>>

-----------------------------------------------------------------------------
(* Observe: the refusals that leave every counter as it was.               *)

\* Mutant: the source is trusted for good once the first sample showed it.
UntrustedFirst(o) == elapsed = 0 /\ o.source \notin Trusted

Untrusted(o) == o.source \notin Trusted \/ (elapsed # 0 /\ o.source # source)

\* Mutant: the sequence is checked once there is a sample it could follow.
RefusalLater(seq, o) ==
  IF version # Version THEN "BAD_CONFIG"
  ELSE IF ~ConfigValid(config) \/ stage >= 3 \/ phase \notin Active THEN "BAD_CONFIG"
  ELSE IF elapsed >= config.max THEN "TIMEOUT"
  ELSE IF (elapsed # 0 /\ seq # elapsed + 1) \/ o.rep = "NONFINITE" \/ energy < 0
    THEN "BAD_OBSERVATION"
  ELSE IF Untrusted(o) THEN "UNTRUSTED_VOLTAGE"
  ELSE IF o.rep = "HUGE" THEN "LIMIT"
  ELSE "NONE"

\* The first check of an observation that fails, "NONE" if it is admitted.  A
\* missing observation (NULL) is one whose sequence is never the next.
Refusal(seq, o) ==
  IF version # Version THEN "BAD_CONFIG"
  ELSE IF ~ConfigValid(config) \/ stage >= 3 \/ phase \notin Active THEN "BAD_CONFIG"
  ELSE IF elapsed >= config.max THEN "TIMEOUT"
  ELSE IF seq # elapsed + 1 \/ o.rep = "NONFINITE" \/ energy < 0 THEN "BAD_OBSERVATION"
  ELSE IF Untrusted(o) THEN "UNTRUSTED_VOLTAGE"
  ELSE IF o.rep = "HUGE" THEN "LIMIT"
  ELSE "NONE"

\* A run that has ended answers with its phase and changes nothing.
Ended == version = Version /\ phase \in Terminal

Refuse(seq, o) ==
  /\ ~Ended
  /\ Refusal(seq, o) # "NONE"
  /\ Stop(Refusal(seq, o))
  /\ UNCHANGED <<version, config, stage, stageSamples, elapsed, energy,
                 source, windows, taken>>

-----------------------------------------------------------------------------
(* Observe: an admitted sample is accounted for before anything else.      *)

Account(seq, o) ==
  /\ ~Ended
  /\ Refusal(seq, o) = "NONE"
  /\ source' = o.source
  /\ energy' = energy + o.power
  /\ elapsed' = elapsed + 1
  /\ taken' = taken \cup {seq}
  /\ UNCHANGED <<version, config>>

OverLimit(o) ==
  \/ o.over
  \/ Abs(o.i) > config.maxCurrent
  \/ energy + o.power >= config.maxEnergy

\* Mutant: one sample past the deadline.
ContinueLate(p) ==
  IF elapsed + 1 > config.max
  THEN Stop("TIMEOUT")
  ELSE phase' = p /\ UNCHANGED <<reason, result>>

\* The deadline is tested last: the run goes on in phase p, or it is too late.
Continue(p) ==
  IF elapsed + 1 >= config.max
  THEN Stop("TIMEOUT")
  ELSE phase' = p /\ UNCHANGED <<reason, result>>

Trip(seq, o) ==
  /\ Account(seq, o)
  /\ OverLimit(o)
  /\ Stop("LIMIT")
  /\ UNCHANGED <<stage, stageSamples, windows>>

Settle(seq, o) ==
  /\ Account(seq, o)
  /\ ~OverLimit(o)
  /\ phase = "SETTLING"
  /\ IF stageSamples + 1 >= config.settle
     THEN stageSamples' = 0 /\ Continue("SAMPLING")
     ELSE stageSamples' = stageSamples + 1 /\ Continue("SETTLING")
  /\ UNCHANGED <<stage, windows>>

-----------------------------------------------------------------------------
(* Observe: a sample of a window.                                          *)

\* Why the sample cannot enter the window: the current does not track the
\* level, or the window is not where the stage counter says it is.
Misfit(o) ==
  LET w == windows[stage]
  IN IF Abs(o.i - config.levels[stage]) > config.tracking \/ ~o.quiet THEN "TRACKING"
     ELSE IF w.count >= config.measure \/ w.count + 1 # stageSamples + 1
          THEN "BAD_OBSERVATION"
     ELSE "NONE"

\* The window with the sample in it.
Extended(w, o) ==
  LET first == w.count = 0
  IN [count |-> w.count + 1,
      sumI |-> w.sumI + o.i,
      sumV |-> w.sumV + o.v,
      minI |-> IF first THEN o.i ELSE Lesser(w.minI, o.i),
      maxI |-> IF first THEN o.i ELSE Greater(w.maxI, o.i),
      minV |-> IF first THEN o.v ELSE Lesser(w.minV, o.v),
      maxV |-> IF first THEN o.v ELSE Greater(w.maxV, o.v)]

Wide(w) ==
  \/ w.maxI - w.minI > config.ispan
  \/ w.maxV - w.minV > config.vspan

\* What every sample that reaches a window does first.
Sampled(seq, o) ==
  /\ Account(seq, o)
  /\ ~OverLimit(o)
  /\ phase = "SAMPLING"

NewWindow(o) == Extended(windows[stage], o)
NewWindows(o) == [windows EXCEPT ![stage] = NewWindow(o)]

DropMisfit(seq, o) ==
  /\ Sampled(seq, o)
  /\ Misfit(o) # "NONE"
  /\ Stop(Misfit(o))
  /\ stageSamples' = stageSamples + 1
  /\ UNCHANGED <<stage, windows>>

\* Mutant: an unsettled window is taken again from the start of its stage.
UnsettleRetries(seq, o) ==
  /\ ~Ended
  /\ Refusal(seq, o) = "NONE"
  /\ ~OverLimit(o)
  /\ phase = "SAMPLING"
  /\ source' = o.source
  /\ energy' = energy + o.power
  /\ UNCHANGED <<version, config>>
  /\ Misfit(o) = "NONE"
  /\ Wide(NewWindow(o))
  /\ phase' = "SETTLING"
  /\ elapsed' = stage * (config.settle + config.measure)
  /\ taken' = 1..elapsed'
  /\ stageSamples' = 0
  /\ windows' = [windows EXCEPT ![stage] = ZeroWindow]
  /\ UNCHANGED <<stage, reason, result>>

Unsettle(seq, o) ==
  /\ Sampled(seq, o)
  /\ Misfit(o) = "NONE"
  /\ Wide(NewWindow(o))
  /\ Stop("UNSETTLED")
  /\ stageSamples' = stageSamples + 1
  /\ windows' = NewWindows(o)
  /\ UNCHANGED stage

\* The sample fits, and the window stays within its spans.
Kept(seq, o) ==
  /\ Sampled(seq, o)
  /\ Misfit(o) = "NONE"
  /\ ~Wide(NewWindow(o))
  /\ windows' = NewWindows(o)

Collect(seq, o) ==
  /\ Kept(seq, o)
  /\ NewWindow(o).count # config.measure
  /\ stageSamples' = stageSamples + 1
  /\ Continue("SAMPLING")
  /\ UNCHANGED stage

\* Mutant: the stage counter runs on from the window into the next settling.
NextStageRunsOn(seq, o) ==
  /\ Kept(seq, o)
  /\ NewWindow(o).count = config.measure
  /\ stage # 2
  /\ stage' = stage + 1
  /\ stageSamples' = stageSamples + 1
  /\ Continue("SETTLING")

NextStage(seq, o) ==
  /\ Kept(seq, o)
  /\ NewWindow(o).count = config.measure
  /\ stage # 2
  /\ stage' = stage + 1
  /\ stageSamples' = 0
  /\ Continue("SETTLING")

-----------------------------------------------------------------------------
(* Observe: the last sample of the last window closes the fit.             *)

\* Mutant: the error of the current widens the wrong way at both ends.
EstimateSwapped(ws) ==
  LET m == config.measure
      di == ws[1].sumI - ws[0].sumI
      dv == ws[1].sumV - ws[0].sumV
      ui == 2 * config.cu * m
      uv == 2 * config.vu * m
  IN [resistance |-> Frac(dv, di),
      lower |-> Frac(dv - uv, di - ui),
      upper |-> Frac(dv + uv, di + ui),
      offset |-> Frac(ws[0].sumV * di - dv * ws[0].sumI, m * di),
      residual |-> Frac((ws[2].sumV - ws[0].sumV) * di
                          - dv * (ws[2].sumI - ws[0].sumI), m * di)]

\* Sums stand for means: the three windows hold the same number of samples, so
\* each mean is its sum over config.measure, here the factor m.
Estimate(ws) ==
  LET m == config.measure
      di == ws[1].sumI - ws[0].sumI
      dv == ws[1].sumV - ws[0].sumV
      ui == 2 * config.cu * m
      uv == 2 * config.vu * m
  IN [resistance |-> Frac(dv, di),
      lower |-> Frac(dv - uv, di + ui),
      upper |-> Frac(dv + uv, di - ui),
      offset |-> Frac(ws[0].sumV * di - dv * ws[0].sumI, m * di),
      residual |-> Frac((ws[2].sumV - ws[0].sumV) * di
                          - dv * (ws[2].sumI - ws[0].sumI), m * di)]

Excited(ws) ==
  ws[1].sumI - ws[0].sumI - 2 * config.cu * config.measure
    > config.separation * config.measure

\* Mutant: the wider, upper part of the interval is not tested.
UncertainBelow(r) == Above(Minus(r.resistance, r.lower), config.maxUncertainty)

Uncertain(r) ==
  \/ Above(Minus(r.resistance, r.lower), config.maxUncertainty)
  \/ Above(Minus(r.upper, r.resistance), config.maxUncertainty)

\* The first check of the fit that fails, "NONE" if the result is published.
Objection(ws, o) ==
  LET r == Estimate(ws)
  IN IF ~Excited(ws) THEN "NO_EXCITATION"
     ELSE IF o.rep = "ILL_SCALED" THEN "BAD_OBSERVATION"
     ELSE IF Below(r.lower, config.minR) \/ Above(r.upper, config.maxR) THEN "RANGE"
     ELSE IF Exceeds(r.offset, config.maxOffset) THEN "OFFSET"
     ELSE IF Uncertain(r) THEN "UNCERTAINTY"
     ELSE IF Exceeds(r.residual, config.tolerance) THEN "VALIDATION"
     ELSE "NONE"

\* No deadline here: a run that closes on its very last sample is complete.
Closing(seq, o) ==
  /\ Kept(seq, o)
  /\ NewWindow(o).count = config.measure
  /\ stage = 2
  /\ stageSamples' = stageSamples + 1
  /\ UNCHANGED stage

Reject(seq, o) ==
  /\ Closing(seq, o)
  /\ Objection(NewWindows(o), o) # "NONE"
  /\ Stop(Objection(NewWindows(o), o))

Publish(seq, o) ==
  /\ Closing(seq, o)
  /\ Objection(NewWindows(o), o) = "NONE"
  /\ result' = Estimate(NewWindows(o))
  /\ phase' = "COMPLETE"
  /\ UNCHANGED reason

-----------------------------------------------------------------------------

Observe(seq, o) ==
  \/ Refuse(seq, o)
  \/ Trip(seq, o)
  \/ Settle(seq, o)
  \/ DropMisfit(seq, o)
  \/ Unsettle(seq, o)
  \/ Collect(seq, o)
  \/ NextStage(seq, o)
  \/ Reject(seq, o)
  \/ Publish(seq, o)

\* A missing, repeated, expected or skipped observation.
Sequences == {0, elapsed, elapsed + 1, elapsed + 2}

Next ==
  \/ \E c \in Configs : StartAccepted(c) \/ StartRejected(c)
  \/ \E seq \in Sequences, o \in Observations : Observe(seq, o)
  \/ Abort

Spec == Init /\ [][Next]_vars

\* A caller that drives a run observes every interval, as the loop of
\* resistance_reference.c does until the phase is terminal.
Fairness == WF_vars(\E seq \in Sequences, o \in Observations : Observe(seq, o))

FairSpec == Spec /\ Fairness

-----------------------------------------------------------------------------
(* Properties.                                                             *)

\* The state holds values of the types of namc_rs_state_t; in particular the
\* stage index never leaves the three levels and windows it addresses.
TypeOK ==
  /\ version \in {0, Version}
  /\ config \in Configs \cup {ZeroConfig}
  /\ phase \in Phases
  /\ reason \in Reasons
  /\ stage \in Stages
  /\ stageSamples \in Nat
  /\ elapsed \in Nat
  /\ energy \in Nat
  /\ source \in Sources
  /\ windows \in [Stages -> WindowType]
  /\ result \in ResultType
  /\ taken \subseteq Nat

Needed(c) == 3 * (c.settle + c.measure)

\* The three counters of a running state tell one time: elapsed_samples is what
\* the finished stages took, plus the settling of this one if it is over, plus
\* stage_samples, which is short of what its phase still has to take.  They are
\* advanced and reset in different branches of namc_rs_observe.
ClocksAgree ==
  phase \in Active =>
    LET before == stage * (config.settle + config.measure)
    IN IF phase = "SETTLING"
       THEN elapsed = before + stageSamples /\ stageSamples < config.settle
       ELSE /\ elapsed = before + config.settle + stageSamples
            /\ stageSamples < config.measure

\* In a running state the windows of finished stages are full, later ones are
\* empty, and the current one holds the samples of this stage since settling:
\* no sample of an earlier run or stage is left in one, so the test for a
\* window that disagrees with the stage counter (lines 173-176) never bites.
WindowsFollowStages ==
  phase \in Active =>
    \A s \in Stages :
      windows[s].count =
        IF s < stage THEN config.measure
        ELSE IF s = stage /\ phase = "SAMPLING" THEN stageSamples
        ELSE 0

\* A running state tells one story: the counters agree, and the windows hold
\* just the samples the counters speak of, none of an earlier run.
InStep == ClocksAgree /\ WindowsFollowStages

\* A published result rests on the whole protocol: three full windows, each
\* within its spans and tracking its own level, from one trusted source, with
\* neither the sample nor the energy budget exceeded; and the samples are those
\* of successive intervals from the start, so that none was lost between two of
\* a window, taken twice, or shown out of order.
CompleteMeansEvidence ==
  phase = "COMPLETE" =>
    /\ ConfigValid(config)
    /\ elapsed = Needed(config) /\ elapsed <= config.max
    /\ taken = 1..elapsed
    /\ energy < config.maxEnergy
    /\ source \in Trusted
    /\ reason = "NONE"
    /\ \A s \in Stages :
         /\ windows[s].count = config.measure
         /\ ~Wide(windows[s])
         /\ windows[s].minI >= config.levels[s] - config.tracking
         /\ windows[s].maxI <= config.levels[s] + config.tracking

\* namc_rs_request grants a current exactly while the run is settling or
\* sampling: the budgets it tests are those at which namc_rs_observe ends the
\* run, so no running state is ever left without a request, and no ended one
\* with it.
AuthorityFollowsPhase == Granted <=> phase \in Active

\* A published estimate lies between its own bounds, and the bounds inside the
\* declared range; the code computes the three fractions independently and
\* compares only the outer two, with the outer limits.
BoundsContainEstimate ==
  phase = "COMPLETE" =>
    /\ AtMost(Frac(config.minR, 1), result.lower)
    /\ AtMost(result.lower, result.resistance)
    /\ AtMost(result.resistance, result.upper)
    /\ AtMost(result.upper, Frac(config.maxR, 1))

\* Energy is spent only from inside the budget, and the interval that overruns
\* it is the last: the overshoot is never more than one interval's energy.
OvershootOnce ==
  [][energy' > energy =>
       /\ energy < config.maxEnergy
       /\ energy' >= config.maxEnergy => phase' = "FAULT"]_vars

Mode ==
  CASE phase = "IDLE" -> "idle"
    [] phase \in Active -> "active"
    [] phase = "COMPLETE" -> "complete"
    [] phase = "DEGRADED" -> "degraded"
    [] phase = "FAULT" -> "fault"

ContractOf(c) == [needed |-> Needed(c), budget |-> c.max]

A == INSTANCE Acquisition
       WITH Contracts <- {ContractOf(c) : c \in {d \in Configs : ConfigValid(d)}},
            mode <- Mode,
            contract <- ContractOf(config),
            used <- elapsed,
            published <- (result # ZeroResult)

\* The identifier is a bounded acquisition: what it may do to its phase, its
\* sample counter and its result is what Acquisition allows, so an ended run
\* changes only by a start or an abort.
ImplementsAcquisition == A!Spec

\* A run that is observed on and on ends, whatever the observations show and
\* whatever goes wrong in its windows, unless it is restarted for ever.
RunsEnd == A!EventuallyEnds

=============================================================================
