--------------------------- MODULE FluxExperiment ---------------------------
(***************************************************************************)
(* The program namc_flux_id_sim, simulations/flux_identification.c: it     *)
(* starts the identifier of FluxId, reads the hidden map of the plant, and *)
(* then drives controller, inverter and plant one interval at a time while *)
(* the identifier requests a current.  What plant and sensors show is an   *)
(* observation of FluxId, and each may reject an interval.                 *)
(***************************************************************************)
EXTENDS FluxId, NativeReport

Unset == 99     \* previous_stage before the first iteration

\* Standard output before the report, and when it cannot be written to its end.
Nothing == [text |-> "nothing"]
Truncated == [text |-> "truncated"]

\* The plant commits finite states only (PlantStep), and the noise is bounded.
ASSUME FiniteSensors ==
  \A o \in Observations : o.rep = "FINITE" /\ o.other # "OBSERVATION"

VARIABLES
  at,         \* where main is
  measured,   \* --voltage-source, the source of every observation
  previous,   \* previous_stage
  plantAge,   \* intervals the plant ran since it was last set to a start
  piAge,      \* intervals the controller ran since its last reset
  steps,
  output,     \* what is on standard output
  exit        \* the exit code, -1 while the program runs

loop == <<measured, previous, plantAge, piAge, steps>>
all == <<vars, at, loop, output, exit>>

ExperimentInit ==
  /\ Init
  /\ at = "start"
  /\ measured \in {"COMMAND_ONLY", "IDEAL"}
  /\ previous = Unset
  /\ plantAge = 0
  /\ piAge = 0
  /\ steps = 0
  /\ output = Nothing
  /\ exit = -1

Exit(code) == at' = "exited" /\ exit' = code

\* An unknown or misplaced option, or none for the uncertainty of R.
BadOption ==
  /\ at = "start"
  /\ Exit(2)
  /\ UNCHANGED <<vars, loop, output>>

StartRun(c) ==
  /\ at = "start"
  /\ \/ StartAccepted(c) /\ at' = "map" /\ UNCHANGED exit
     \/ StartRejected(c) /\ Exit(2)
  /\ UNCHANGED <<loop, output>>

\* The map on standard input, and nothing after it (MapTransport).
ReadMap ==
  /\ at = "map"
  /\ \/ at' = "head" /\ UNCHANGED exit
     \/ Exit(2)
  /\ UNCHANGED <<vars, loop, output>>

\* Mutant: only the first speed is driven from a fresh plant.
RestartOnce ==
  /\ at = "head"
  /\ Granted
  /\ at' = "interval"
  /\ IF previous = Unset
     THEN plantAge' = 0 /\ piAge' = 0 /\ previous' = stage
     ELSE UNCHANGED <<plantAge, piAge, previous>>
  /\ UNCHANGED <<vars, measured, steps, output, exit>>

\* The top of an iteration: each speed is an experiment of its own, begun with
\* a plant at rest in the new speed and an empty controller.
Restart ==
  /\ at = "head"
  /\ Granted
  /\ at' = "interval"
  /\ IF stage # previous
     THEN plantAge' = 0 /\ piAge' = 0 /\ previous' = stage
     ELSE UNCHANGED <<plantAge, piAge, previous>>
  /\ UNCHANGED <<vars, measured, steps, output, exit>>

\* Mutant: an interval that is rejected is tried again.
IntervalRetried ==
  /\ at = "interval"
  /\ at' = "head"
  /\ UNCHANGED <<vars, loop, output, exit>>

\* Controller, inverter or plant rejects: nothing of the interval is kept.
IntervalRejected ==
  /\ at = "interval"
  /\ Exit(1)
  /\ UNCHANGED <<vars, loop, output>>

Driven ==
  /\ at = "interval"
  /\ plantAge' = plantAge + 1
  /\ piAge' = piAge + 1
  /\ UNCHANGED <<measured, previous>>

\* The voltage adapter (before the step is counted) or the harness's own lookup
\* of the torque (after) rejects the state the plant has reached.
DiagnosticRejected ==
  /\ Driven
  /\ steps' \in {steps, steps + 1}
  /\ Exit(1)
  /\ UNCHANGED <<vars, output>>

\* The identifier's answer is not looked at: the next request tells.
Interval(o) ==
  /\ Driven
  /\ o.source = measured
  /\ steps' = steps + 1
  /\ Observe(steps', o)
  /\ at' = "head"
  /\ UNCHANGED <<output, exit>>

\* No request, no excitation: the controller is reset, and a run that would
\* still be active is aborted.
Leave ==
  /\ at = "head"
  /\ ~Granted
  /\ at' = "report"
  /\ piAge' = 0
  /\ IF phase \in Terminal THEN UNCHANGED vars ELSE Abort
  /\ UNCHANGED <<measured, previous, plantAge, steps, output, exit>>

\* The truth at the target is looked up for an accepted run, and the target may
\* lie outside the map although the currents around it did not.
TruthRejected ==
  /\ at = "report"
  /\ phase = "COMPLETE"
  /\ Exit(1)
  /\ UNCHANGED <<vars, loop, output>>

\* What main prints of the run.
Printed ==
  [text |-> "whole", phase |-> phase, reason |-> reason, stage |-> stage, elapsed |-> elapsed,
   accepted |-> phase = "COMPLETE",
   estimate |-> IF phase = "COMPLETE" THEN result ELSE ZeroResult,
   samples |-> [s \in Stages |-> windows[s].count]]

\* Mutant: the exit code does not ask whether the output was written.
ReportUnchecked ==
  /\ at = "report"
  /\ at' = "exited"
  /\ output' \in {Printed, Truncated}
  /\ exit' = 0
  /\ UNCHANGED <<vars, loop>>

Report ==
  /\ at = "report"
  /\ at' = "exited"
  /\ \/ output' = Printed /\ exit' = 0
     \/ output' = Truncated /\ exit' = 1
  /\ UNCHANGED <<vars, loop>>

Step ==
  \/ BadOption
  \/ \E c \in Configs : StartRun(c)
  \/ ReadMap
  \/ Restart
  \/ IntervalRejected
  \/ DiagnosticRejected
  \/ \E o \in Observations : Interval(o)
  \/ Leave
  \/ TruthRejected
  \/ Report

ExperimentSpec == ExperimentInit /\ [][Step]_all

\* The process runs: nothing is assumed of what it is shown.
FairExperiment == ExperimentSpec /\ WF_all(Step)

-----------------------------------------------------------------------------
(* Properties.                                                             *)

\* Intervals of this stage the identifier has seen.
Clock == IF phase = "SETTLING" THEN stageSamples ELSE config.settle + stageSamples

\* Plant and controller are as old as the stage: every sample of a window comes
\* from the experiment of its own speed, and has settled for as many intervals
\* as the identifier believes.  The harness keeps previous_stage and steps, the
\* identifier stage and its counters, and neither sees those of the other; no
\* run ends because the two were out of step.
FreshPerStage ==
  /\ at = "report" => reason \notin {"CONFIG", "OBSERVATION", "ABORTED"}
  /\ phase \in Active /\ at \in {"head", "interval"} =>
       /\ steps = elapsed
       /\ IF previous = stage
          THEN plantAge = Clock /\ piAge = Clock
          ELSE at = "head" /\ Clock = 0

\* What a program that exits with 0 has printed is whole, of a run that ended,
\* and one of the reports the campaign counts on; an accepted one carries an
\* estimate out of three full windows.
CleanExitIsReport ==
  exit = 0 =>
    /\ output.text = "whole"
    /\ [phase |-> output.phase, magnet |-> output.estimate.pmReference]
         \in FluxReports(AtOrigin)
    /\ output.accepted <=> output.phase = "COMPLETE"
    /\ output.accepted =>
         /\ output.elapsed = Needed(config)
         /\ \A s \in Stages : output.samples[s] = config.measure

\* The loop has no bound of its own, yet the program ends: the identifier stops
\* requesting in whatever way a run goes.
ExperimentEnds == <>(at = "exited")
=============================================================================
