---------------------------- MODULE ReferenceRun ----------------------------
(***************************************************************************)
(* The reference simulation, main of simulations/linear_reference.c: it    *)
(* configures a controller and a plant, closes the loop for a fixed number *)
(* of samples around the current controller of CurrentControl, drops the   *)
(* map in the middle if told to, and prints a report only if every sample  *)
(* went well.                                                              *)
(*                                                                         *)
(* The plant is what it does to the report: after each sample its current  *)
(* is inside or outside the settling band, and within the limits or not.   *)
(* A process that stops keeps no diagnostics, so a stopping sample leaves  *)
(* them as they were.                                                      *)
(***************************************************************************)
EXTENDS SequencesExt, Integers

CONSTANTS
  Configs,        \* controller configurations, see CurrentControl
  Inputs,         \* what the controller may be shown, see CurrentControl
  Settings,       \* the options a run may be given
  TraceCapacity   \* NAMC_TRACE_CAPACITY, 10000 in the code

ASSUME CapacityPositive == TraceCapacity \in Nat \ {0}

Tunings == {"none", "incomplete", "refused", "applied"}

VARIABLES
  exit,           \* where the process is, or how it ended
  settings,
  n,
  mapHeld,        \* model_controller.map is not NULL
  timing,         \* how many samples each bucket of timing[] has
  fallbackFirst,  \* fallback_first_step
  fallbackSteps,  \* fallback_steps
  lastOutside,    \* last_outside
  trace,          \* namc_trace, up to trace_count
  \* The controller's state, see CurrentControl:
  faulted, integral, fallback, modelFailure, duty, returned, origin, last,
  \* History of the properties, never read by the program:
  band,           \* whether each state so far was outside the settling band
  beyond          \* the plant has left the limits, which its sensor would show

control == <<faulted, integral, fallback, modelFailure, duty, returned, origin, last>>
diagnostics == <<timing, fallbackFirst, fallbackSteps, lastOutside, trace>>
vars == <<exit, settings, n, mapHeld, diagnostics, control, band, beyond>>

Control == INSTANCE CurrentControl

\* "config" holds the nominal gains and, under "map", the tuned candidate.
\* "moderate" says that the reference is within the current limit, "provided"
\* that maps and timer are to be had, "farStart" that the zero current a run
\* starts from is outside the settling band of its reference.
SettingsType ==
  [steps : Nat \ {0, 1}, stride : Nat, useMap : BOOLEAN, faultStep : Nat \cup {-1},
   timed : BOOLEAN, tune : Tunings, moderate : BOOLEAN, provided : BOOLEAN,
   farStart : BOOLEAN, config : Control!ConfigType]

ASSUME RunSettings == Settings \subseteq SettingsType
ASSUME RunInputs == Inputs \subseteq Control!InputType

Buckets == {"nominal", "mapped", "transition", "latched"}
Exits == {"configuring", "rejected", "running", "stopped", "reported"}

-----------------------------------------------------------------------------

Init ==
  /\ exit = "configuring"
  /\ settings \in Settings
  /\ n = 0
  /\ mapHeld = FALSE
  /\ timing = [b \in Buckets |-> 0]
  /\ fallbackFirst = -1
  /\ fallbackSteps = 0
  /\ lastOutside = -1
  /\ trace = <<>>
  /\ band = <<>>
  /\ beyond = FALSE
  /\ Control!Init

\* Every stride-th sample is traced, and the last one.
TraceFits(s) == s.stride = 0 \/ (s.steps - 1) \div s.stride + 1 <= TraceCapacity

Acceptable(s) ==
  /\ s.tune # "none" => s.tune # "incomplete" /\ s.useMap
  /\ ~s.useMap => s.config.policy = "DISABLE" /\ s.faultStep = -1
  /\ s.faultStep < s.steps
  /\ s.moderate
  /\ TraceFits(s)
  /\ s.provided
  /\ s.tune # "refused"

\* Without a tuning the mapped law runs on the nominal gains.
Effective(s) ==
  IF s.tune = "applied" THEN s
  ELSE [s EXCEPT !.config.gains["map"] = s.config.gains["nominal"]]

Configure ==
  /\ exit = "configuring"
  /\ IF Acceptable(settings)
     THEN /\ exit' = "running"
          /\ settings' = Effective(settings)
          /\ mapHeld' = settings.useMap
          /\ lastOutside' = IF settings.farStart THEN 0 ELSE -1
          /\ band' = <<settings.farStart>>
          /\ Control!Reset
     ELSE /\ exit' = "rejected"
          /\ UNCHANGED <<settings, mapHeld, lastOutside, band, control>>
  /\ UNCHANGED <<n, timing, fallbackFirst, fallbackSteps, trace, beyond>>

Looping == exit = "running" /\ n < settings.steps

\* What the controller is shown: a dropped map is a null handle, and a plant
\* beyond its limits shows in the measurement.
Seen(in) ==
  [in EXCEPT !.lookup = IF mapHeld' THEN @ ELSE "INVALID_INPUT",
             !.sensed = IF beyond THEN "BEYOND" ELSE @]

\* The sensors or the host timer fail before the controller is called.
SampleFails ==
  /\ Looping
  /\ exit' = "stopped"
  /\ UNCHANGED <<settings, n, mapHeld, diagnostics, control, band, beyond>>

NominalStep(c, in) ==
  /\ ~faulted
  /\ Control!Run(c, "nominal", in, integral, origin)
  /\ last' = Control!Shown(c, in)
  /\ UNCHANGED <<fallback, modelFailure>>

\* One call of the controller.  The map is dropped before the sample faultStep,
\* and is not restored.
Called(in) ==
  /\ mapHeld' = (mapHeld /\ n # settings.faultStep)
  /\ IF settings.useMap
     THEN Control!Step(settings.config, Seen(in))
     ELSE NominalStep(settings.config, Seen(in))

\* Mutant: the latch is looked at only after the call.
BucketAfterCall ==
  IF ~settings.useMap THEN "nominal" ELSE IF fallback' THEN "latched" ELSE "mapped"

\* The bucket of a sample: the latch is read before and after the call.
Bucket ==
  IF ~settings.useMap THEN "nominal"
  ELSE IF ~fallback' THEN "mapped"
  ELSE IF fallback THEN "latched" ELSE "transition"

Timed == timing' = IF settings.timed THEN [timing EXCEPT ![Bucket] = @ + 1] ELSE timing

CountFallback ==
  IF fallback'
  THEN /\ fallbackSteps' = fallbackSteps + 1
       /\ fallbackFirst' = IF fallbackFirst < 0 THEN n ELSE fallbackFirst
  ELSE UNCHANGED <<fallbackSteps, fallbackFirst>>

\* Mutant: a state is booked under the sample that led to it.
SettleBySample(outside) == lastOutside' = IF outside THEN n ELSE lastOutside

\* The state after sample n is state n + 1; state 0 is the start.
Settle(outside) == lastOutside' = IF outside THEN n + 1 ELSE lastOutside

Mode == IF ~settings.useMap THEN 0 ELSE IF fallback' THEN 2 ELSE 1

TraceDue ==
  settings.stride # 0 /\ ((n + 1) % settings.stride = 0 \/ n + 1 = settings.steps)

Trace ==
  trace' = IF TraceDue THEN Append(trace, [step |-> n + 1, mode |-> Mode]) ELSE trace

\* Mutant: the guards of the next call are trusted to see a broken limit.
PostStepTrusted(breach) == TRUE

\* The state after the sample is tested too, not only before the next one.
PostStepHolds(breach) == ~breach

\* A sample that goes well from the sensors to the trace.
Sample(in, outside, breach) ==
  /\ Looping
  /\ Called(in)
  /\ returned' = "OK"
  /\ Timed
  /\ CountFallback
  /\ Settle(outside)
  /\ PostStepHolds(breach)
  /\ Trace
  /\ n' = n + 1
  /\ band' = Append(band, outside)
  /\ beyond' = breach
  /\ UNCHANGED <<exit, settings>>

\* The controller stops the bridge, or the plant, its torque or the post-step
\* limits do; the process exits with an error and no report.
Stop(in) ==
  /\ Looping
  /\ Called(in)
  /\ exit' = "stopped"
  /\ UNCHANGED <<settings, n, diagnostics, band, beyond>>

\* The report is printed, or cannot be written.
Report(code) ==
  /\ exit = "running"
  /\ n = settings.steps
  /\ exit' = code
  /\ UNCHANGED <<settings, n, mapHeld, diagnostics, control, band, beyond>>

Next ==
  \/ Configure
  \/ SampleFails
  \/ \E in \in Inputs, outside, breach \in BOOLEAN : Sample(in, outside, breach)
  \/ \E in \in Inputs : Stop(in)
  \/ \E code \in {"reported", "stopped"} : Report(code)

Spec == Init /\ [][Next]_vars

-----------------------------------------------------------------------------
(* Properties.                                                             *)

\* The process keeps values of their types, and the trace fits its storage.
TypeOK ==
  /\ exit \in Exits
  /\ settings \in SettingsType
  /\ n \in 0..settings.steps
  /\ mapHeld \in BOOLEAN
  /\ timing \in [Buckets -> Nat]
  /\ fallbackFirst \in -1..settings.steps
  /\ fallbackSteps \in 0..settings.steps
  /\ lastOutside \in -1..settings.steps
  /\ trace \in Seq([step : Nat \ {0}, mode : 0..2])
  /\ Len(trace) <= TraceCapacity
  /\ band \in Seq(BOOLEAN)
  /\ beyond \in BOOLEAN

Reported == exit = "reported"

\* A report is evidence of a run in which nothing went wrong: every sample was
\* driven, up to the last state the plant stayed within its limits, and a run
\* whose map was dropped went on under latched fallback.
ReportMeansSuccess ==
  Reported =>
    /\ n = settings.steps
    /\ ~faulted
    /\ ~beyond
    /\ settings.faultStep # -1 =>
         fallback /\ fallbackFirst \in 0..settings.faultStep

\* The latch, the counters of fallback, the timing buckets and the modes of the
\* trace tell one story: nothing but the map before the first step of fallback,
\* one transition, and nothing but the latched law from then on; and the trace
\* has every stride-th sample and the last one, all of them inside its storage.
DiagnosticsAgree ==
  /\ Len(trace) <= TraceCapacity
  /\ Reported =>
       /\ fallback <=> fallbackFirst # -1
       /\ fallbackSteps = IF fallback THEN settings.steps - fallbackFirst ELSE 0
       /\ settings.timed =>
            /\ timing["nominal"] = IF settings.useMap THEN 0 ELSE settings.steps
            /\ timing["transition"] = IF fallback THEN 1 ELSE 0
            /\ timing["transition"] + timing["latched"] = fallbackSteps
            /\ timing["mapped"] + fallbackSteps + timing["nominal"] = settings.steps
       /\ \A k \in DOMAIN trace :
            trace[k].mode = 2 <=> fallback /\ trace[k].step > fallbackFirst
       /\ {trace[k].step : k \in DOMAIN trace} =
            IF settings.stride = 0 THEN {}
            ELSE {s \in 1..settings.steps : s % settings.stride = 0 \/ s = settings.steps}

\* The printed settling time in samples, -1 if the run ends outside.
SettlingSamples == IF lastOutside = settings.steps THEN -1 ELSE lastOutside + 1

\* Settling is reported at the first state from which all later ones, the last
\* included, are inside the band; state i is band[i + 1].
SettlingIsLast ==
  Reported =>
    IF SettlingSamples = -1
    THEN band[settings.steps + 1]
    ELSE /\ \A i \in SettlingSamples..settings.steps : ~band[i + 1]
         /\ SettlingSamples > 0 => band[SettlingSamples]
=============================================================================
