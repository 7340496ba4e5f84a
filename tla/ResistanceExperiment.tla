------------------------ MODULE ResistanceExperiment ------------------------
(***************************************************************************)
(* The program namc_resistance_sim, simulations/resistance_reference.c: it *)
(* drives the identifier of ResistanceId like FluxExperiment that of       *)
(* FluxId, but with one free shaft and one controller for the whole run,   *)
(* and what it prints configures the flux programs of a campaign.          *)
(***************************************************************************)
EXTENDS ResistanceId, NativeReport

\* The policy main compiles in: options change sample counts, energy and the
\* declared errors only, and the uncertainty asked for is less than the least
\* resistance.
ASSUME CompiledPolicy == \A c \in Configs : c.maxUncertainty < c.minR

\* The plant commits finite states only (PlantStep), and the noise is bounded.
ASSUME FiniteSensors == \A o \in Observations : o.rep = "FINITE"

Nothing == [text |-> "nothing"]
Truncated == [text |-> "truncated"]

VARIABLES
  at,         \* where main is
  measured,   \* --voltage-source
  piAge,      \* intervals the controller ran since its last reset
  steps,
  output,     \* what is on standard output
  exit        \* the exit code, -1 while the program runs

loop == <<measured, piAge, steps>>
all == <<vars, at, loop, output, exit>>

ExperimentInit ==
  /\ Init
  /\ at = "start"
  /\ measured \in {"COMMAND_ONLY", "IDEAL"}
  /\ piAge = 0
  /\ steps = 0
  /\ output = Nothing
  /\ exit = -1

Exit(code) == at' = "exited" /\ exit' = code

BadOption ==
  /\ at = "start"
  /\ Exit(2)
  /\ UNCHANGED <<vars, loop, output>>

StartRun(c) ==
  /\ at = "start"
  /\ \/ StartAccepted(c) /\ at' = "map" /\ UNCHANGED exit
     \/ StartRejected(c) /\ Exit(2)
  /\ UNCHANGED <<loop, output>>

\* The plant is set to its start and the controller reset, once.
ReadMap ==
  /\ at = "map"
  /\ \/ at' = "head" /\ piAge' = 0 /\ UNCHANGED exit
     \/ Exit(2) /\ UNCHANGED piAge
  /\ UNCHANGED <<vars, measured, steps, output>>

Requested ==
  /\ at = "head"
  /\ Granted
  /\ at' = "interval"
  /\ UNCHANGED <<vars, loop, output, exit>>

\* Controller or inverter reject, the plant rejects after them, or the voltage
\* adapter once the step is counted.
IntervalRejected ==
  /\ at = "interval"
  /\ \/ UNCHANGED <<piAge, steps>>
     \/ piAge' = piAge + 1 /\ steps' \in {steps, steps + 1}
  /\ Exit(1)
  /\ UNCHANGED <<vars, measured, output>>

\* Mutant: the sequence is the number of the step, counted from zero.
IntervalFromZero(o) ==
  /\ at = "interval"
  /\ o.source = measured
  /\ piAge' = piAge + 1
  /\ steps' = steps + 1
  /\ Observe(steps, o)
  /\ at' = "head"
  /\ UNCHANGED <<measured, output, exit>>

Interval(o) ==
  /\ at = "interval"
  /\ o.source = measured
  /\ piAge' = piAge + 1
  /\ steps' = steps + 1
  /\ Observe(steps', o)
  /\ at' = "head"
  /\ UNCHANGED <<measured, output, exit>>

Leave ==
  /\ at = "head"
  /\ ~Granted
  /\ at' = "report"
  /\ piAge' = 0
  /\ IF phase \in Terminal THEN UNCHANGED vars ELSE Abort
  /\ UNCHANGED <<measured, steps, output, exit>>

Printed ==
  [text |-> "whole", phase |-> phase, reason |-> reason, stage |-> stage,
   elapsed |-> elapsed, accepted |-> phase = "COMPLETE",
   estimate |-> IF phase = "COMPLETE" THEN result ELSE ZeroResult,
   samples |-> [s \in Stages |-> windows[s].count]]

Report ==
  /\ at = "report"
  /\ at' = "exited"
  /\ \/ output' = Printed /\ exit' = 0
     \/ output' = Truncated /\ exit' = 1
  /\ UNCHANGED <<vars, loop>>

Step ==
  \/ BadOption
  \/ \E c \in Configs : StartRun(c)
  \/ ReadMap
  \/ Requested
  \/ IntervalRejected
  \/ \E o \in Observations : Interval(o)
  \/ Leave
  \/ Report

ExperimentSpec == ExperimentInit /\ [][Step]_all

-----------------------------------------------------------------------------
(* What run_local_identification makes of an accepted report.              *)

\* uncertainty = max(R - lower, upper - R) < R, the condition namc_fi_start
\* puts on the pair it is given.
FluxAccepts(estimate) ==
  \A p \in {Minus(estimate.resistance, estimate.lower),
            Minus(estimate.upper, estimate.resistance)} :
    p.num * estimate.resistance.den < estimate.resistance.num * p.den

-----------------------------------------------------------------------------
(* Properties.                                                             *)

\* The loop counts its steps, the identifier its samples: they agree while the
\* run is active, the controller is as old as the run, and no run ends because
\* the program itself was out of step with the identifier it drives.
BooksInStep ==
  /\ at = "head" /\ phase \in Active => steps = elapsed /\ piAge = elapsed
  /\ at = "report" => reason \notin {"BAD_CONFIG", "BAD_OBSERVATION", "ABORTED"}

\* What a program that exits with 0 has printed is whole and of a run that has
\* ended; and an accepted resistance, with the interval the campaign derives
\* from its bounds, is one every flux program can be started with.
HandOffUsable ==
  exit = 0 =>
    /\ output.text = "whole"
    /\ output.phase \in EndPhases
    /\ output.accepted =>
         /\ \A s \in Stages : output.samples[s] = config.measure
         /\ FluxAccepts(output.estimate)
=============================================================================
