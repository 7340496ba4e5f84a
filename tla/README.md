# A verification of the NAMC core

FluxForge-NAMC identifies and controls permanent-magnet synchronous motors in
simulation.  Its portable C11 core (`src/core`, `include/namc`) is a set of
caller-owned state machines and pure calls; native programs (`simulations`)
close the loop around them with a simulated plant; Python
(`python/fluxforge_namc`) plans experiments, runs the native programs as
processes and gathers reports.  This directory models that system in TLA+,
checks it with TLC on small instances and proves its main properties with TLAPS
for every value of the constants.  Paths below are relative to the repository
root.

Contents: 1 the system, 2 the modules, 3 the code and the models, 4 the runs, 5
fairness and deadlock, 6 the proofs, 7 what is only model-checked, 8 what is not
modelled, 9 the plan.


## 1. The system

Nothing in the core runs concurrently: a component is a struct that its caller
zeroes and passes to every call.  What makes it hard is the *sequence* of calls.
A caller may start, restart, observe, ask and abort in any order, pass a
different configuration or policy with each call, show lost, repeated or broken
observations, and have a call fail after half of its bookkeeping.  State is
changed in different branches of long handlers, and several counters, latches
and windows have to tell the same story afterwards.

| Component | State it keeps | Operations | Interacts with |
|---|---|---|---|
| Standstill resistance identifier, `src/core/resistance_id.c` | phase, reason, stage, three counters, energy, source, three windows, result, copied config | start, request, observe, abort | its experiment loop; the campaign reads what that prints |
| Flux identifier, `src/core/flux_id.c` | the same shape, for two axes and three shaft speeds | start, request, observe, abort | its experiment loop; takes the resistance result as an input interval |
| Current controller, `src/core/reference.c` | fault latch, integrals, fallback latch, first lookup failure | reset, step (with and without a map) | looks the flux map up inside a step; the simulations call it |
| Coupled flux map, `src/core/flux_map.c` | a handle that borrows the caller's tables, its limits | prepare, lookup, solve, torque | the controller, the nonlinear plant |
| Local campaign, `python/fluxforge_namc/flux_identification.py` | plan, runs, observations, coverage, reference, state and reason | `run_local_identification` | one native resistance process, one native flux process per point |
| Reference simulation, `simulations/linear_reference.c` | sample index, dropped map, timing buckets, fallback counters, settling index, trace | one process: check options, loop, report | controller, plant, tuning, map transport, host timer |
| Offline PI tuning, `src/core/current_tuning.c` | none; writes its caller's candidate | one call | looks the flux map up; reference simulation, before activation |
| Plants, `src/plant/*.c` | currents, speed and angle, in the caller's struct | step (linear, magnetic, driven), average inverter | look the flux map up five times a step; all experiment loops |
| Resistance experiment, `simulations/resistance_reference.c` | loop state | one process | identifier, controller, plant; prints what configures the flux programs |
| Flux experiment, `simulations/flux_identification.c` | loop state, last stage seen | one process | identifier, controller, magnetic plant |
| Map transport, `simulations/map_transport.c`, `flux_map.py` | two static slots the prepared maps point into | write, read, end test, print | every native program that takes a map |
| Transforms and modulation (`reference.c`) | none; write the caller's output | pure calls | controller, inverter, simulations |
| Host timer, version string | none | pure calls | simulations |
| Python runners (`flux_map.py`, `simulation.py`, `qualification.py`, ...) | none kept | arguments in, JSON out | native programs, the core by ctypes |

What is hard in each, and what makes it correct:

* **Identifiers.**  Three counters, three windows and two budgets are advanced,
  reset and compared in different branches of one handler
  (`resistance_id.c:131-222`, `flux_id.c:147-234`).  A run must take exactly the
  samples its protocol asks for, never mix the windows of two levels or of two
  runs, end on every failure, publish a result only on complete evidence and
  inside its budgets, keep zeros in the result otherwise, and grant excitation
  exactly while it is running.  The request is answered by tests of its own,
  made *before* the next observation: they have to agree with those of the
  observation.
* **Controller.**  The kernel leaves a rejected lookup with neither fault nor
  output for its caller to settle (`reference.c:220`); the caller's policy
  decides, may change between calls, and its fallback re-runs the kernel under
  another law with an integral that must not be carried over.  Every step must
  drive or fault; latches hold; no lookup failure may hide a broken limit.
* **Flux map.**  A table is tested at the corners of its cells only, a lookup
  answers anywhere inside.  The scan must reach every corner, the search must
  find the right cell also on a knot and on the last knot, within a bounded
  number of comparisons since it runs inside the control step, and the corners
  must really vouch for the inside.  A failed preparation over a prepared handle
  must not leave the old tables in use.
* **Campaign.**  A fault in the middle of the plan must stop all later
  experiments, and still every requested point must be accounted for once; what
  the report claims must be traceable to an accepted native run.
* **Reference simulation.**  The fallback latch is read before the call for one
  diagnostic and after it for others; the state after sample n is judged in
  sample n; the trace has bounded storage and always takes the last sample.  A
  printed report must mean that everything went well, and its parts must agree.
* **Experiments.**  Two programs drive an identifier they only see through its
  request.  Each keeps a step count, and the flux program a stage, beside those
  of the identifier; both must stay in step with it, plant and controller must
  be as fresh as the identifier believes, the loop, which has no bound of its
  own, must end, and a clean exit must leave a report its reader can use, down
  to the uncertainty that the campaign derives from it.
* **Map transport.**  Two maps are read one after the other into static storage
  that the prepared maps go on using.  What a run uses, and prints for replay,
  has to be what was sent, whatever text arrives.
* **Plants.**  A step evaluates the model at four points and validates a fifth;
  each may be rejected, and the caller's state must change as a whole or not at
  all.
* **Tuning.**  Five caps stand for the caller's budgets, and the budgets are
  never compared with the gains that come out.
* **Modulation.**  The duties are shifted to the middle of the bus and clipped;
  the clip must never act, and an output must never survive a failed call.

`PROJECT.json` lists the hazards one by one, at their lines, with the properties
that would notice them going wrong.


## 2. The modules

| Module | What it is | Extends or instantiates |
|---|---|---|
| `Acquisition` | abstract specification: what every bounded identification run promises its caller | |
| `Fractions` | exact fractions of integers for estimates and bounds | |
| `ResistanceId` | the resistance identifier; implements `Acquisition` | `Fractions`, `A == INSTANCE Acquisition WITH ...` |
| `FluxId` | the flux identifier; implements `Acquisition` | `Fractions`, `A == INSTANCE Acquisition WITH ...` |
| `CurrentControl` | PI kernel, reset, and the policy for rejected lookups | |
| `FluxMap` | prepare, lookup and solve, loop step by loop step | `Fractions` |
| `NativeReport` | what the native programs promise the campaign of their reports | |
| `LocalCampaign` | the Python campaign over native runs | `NativeReport` |
| `ResistanceExperiment`, `FluxExperiment` | the native programs *around* an identifier | `ResistanceId`, `FluxId`; `NativeReport` |
| `MapTransport` | a map as text: writer, reader, printer | |
| `PlantStep` | one integration step of a machine as a transaction | `Fractions` |
| `CurrentTuning` | the offline design of the gains | `Fractions` |
| `Modulation` | modulator and average bridge | `Fractions` |
| `ReferenceRun` | the reference simulation *around* the controller | `Control == INSTANCE CurrentControl` |
| `ResistanceIdProofs`, `FluxIdProofs` | theorems and proofs of an identifier and of the program around it | `ResistanceExperiment`, `FluxExperiment`; `TLAPS` |
| `CurrentProofs` | of the controller and of the design of its gains | `CurrentControl`, `CurrentTuning`, `TLAPS` |
| `MachineProofs` | of the modulator, the bridge and the plant's step | `Modulation`, `PlantStep`, `TLAPS` |
| `FluxMapProofs`, `LocalCampaignProofs`, `ReferenceRunProofs`, `MapTransportProofs` | of the module named | that module, `TLAPS` |
| `MC...` | small instances for TLC, one per state module | the module named |

How they fit together.  The two identifiers refine one abstract machine, so what
holds of `Acquisition` holds of both.  `ReferenceRun` composes: each of its
samples performs a whole `CurrentControl` step on the same variables.  The
controller sees a map lookup only as its status, and `FluxMap` is the machine
that produces that status.  `ResistanceExperiment` and `FluxExperiment` compose
too: each interval of their loops is an `Observe` of the identifier they extend
(`ProgramDrivesIdentifier`: every behaviour of a program is one of its
identifier, so what is proved of an identifier for all callers holds in it), and
their plants commit finite states only, which `PlantStep` shows.  The
campaign sees a native flux run only as what its report says, and `NativeReport`
is the contract between the two: `LocalCampaign` relies on `FluxReports`,
`CleanExitIsReport` of `FluxExperiment` says that the program keeps it, and
`HandOffUsable` of `ResistanceExperiment` that what the resistance program
prints starts every flux program of the campaign.  `MapTransport` takes from
`FluxMap` only the verdicts of a preparation and a lookup, as parameters;
`CurrentTuning` and `PlantStep` take a map as a table of answers.

Definitions that differ from a neighbour in one respect and are commented
`Mutant:` are deliberately wrong versions of the definition after them; no
specification uses them.  Each property is known to fail when one of them takes
its neighbour's place (`PROJECT.json`, `mutants`).  Four are kept beside the
one listed of their property and break it too: `UntrustedFirst` and
`OffLevelSigned` (`CompleteMeansEvidence`), `FluxAtCrossed` (`OutputsAnswer`) and
`VerdictTrusted` (`InteriorHolds`).


## 3. The code and the models

`PROJECT.json` maps every definition to its lines.  In outline:

**`ResistanceId`** (`src/core/resistance_id.c`).  `Init` is zeroed storage.
`StartAccepted`, `StartRejected` are `namc_rs_start`; `Abort` is
`namc_rs_abort`; `Granted` is the answer of `namc_rs_request`, a pure test.
`Observe` is the whole of `namc_rs_observe`, split by how it returns: an
observation on an ended run changes nothing; it may be refused (`Refuse`), trip
a hard limit (`Trip`), be discarded while settling (`Settle`), spoil the window,
join it (`Collect`), close a stage (`NextStage`), or close the run (`Reject`,
`Publish`).  `Account` is the bookkeeping that precedes the limits, `Continue`
the deadline test at the end. Of a configuration's fields the ones no property
tells apart are one flag, `sane`; of an observation, `over` stands for a hard
limit broken by something other than the d-axis current, `quiet` for the q axis
inside its thresholds, and `rep` for what double precision makes of it (not
finite, too large, a fit that overflows).  Everything else is an integer with
exact arithmetic; estimates are fractions.  `taken` is history for the
properties: the intervals, counted from the start, whose samples were accepted.

**`FluxId`** (`src/core/flux_id.c`) is built alike.  One axis is computed, the
other is what it makes the run reject (`other`): its offset, or a difference
between the speeds.  `Tear` is a mean that overflows for the second coordinate
after the first was written (`Torn`).  `Misfit` and `OffLevel` are the tests of
the shaft and of the target, with the absolute values the code takes.  `taken`
is history here too.

**`CurrentControl`** (`src/core/reference.c`).  `Reset`; `Step(c, in)` is
`namc_model_current_step`, one disjunct per way through it: refused arguments
(`Refuse`), a latched fault or a policy that now forbids fallback (`StopCall`),
the nominal step under fallback (`NominalStep`), the mapped step (`MappedStep`),
a rejected lookup under the policy that stops (`RejectStop`), and under the
policy that falls back (`FallBack`, which resets the integral and runs the
kernel again in the same call).  `Run` is the kernel, `Verdict` its guards in
their order.  The two axes run the same arithmetic, so one axis stands for both
and the radial limit becomes a clip.  `origin` and `last` are history for the
properties.

**`FluxMap`** (`src/core/flux_map.c`).  A call is several steps: `PrepareBegin`,
then one step per corner (`CornerPasses`, `CornerFails`) to `PrepareDone`;
`LookupBegin`, then one step per comparison of the search (`Probe`), `FoundRow`,
`FoundColumn`, `Evaluate`.  A Jacobian is kept times the area of its cell, so
that bilinear interpolation and all tests on it are exact in integers.  `Solve`
is the whole of `namc_flux_solve`, called as the plants and the tuning do, with
the Jacobian last answered and the condition number of the map's limits;
`SolveVerdict` is its refusals in their order: a right-hand side or a condition
number that is no number, a Jacobian that `namc_flux_matrix` refuses, rates that
overflow.  `bad` marks table entries that are not finite, `rep` what double
precision makes of a right-hand side.

**`LocalCampaign`** (`run_local_identification`).  `Submit` validates the list
of requests; then the resistance run is accepted, rejected or raises; then per
point one of `Skip`, `Fail`, `Unreadable`, `Reject`, `Accept`; then `Finish`.  A
process run is a single step: what a native program does inside is the business
of the modules above.  An exception leaves the call (`raised`) and the report
with it is lost, as in the code.

**`ReferenceRun`** (`main` of `simulations/linear_reference.c`).  `Configure`
checks the options and installs the tuned gains; `Sample` is one iteration of
the loop in full, from dropping the map to the trace; `Stop` and `SampleFails`
are its exits; `Report` prints or fails to.  The plant is reduced to what the
report depends on: after each sample the current is in or out of the settling
band and within or beyond the limits; a plant beyond its limits shows in the
next measurement.  A sample that stops the process leaves the diagnostics as
they were: they are printed only after a complete loop.

**`ResistanceExperiment`, `FluxExperiment`** (`main` of
`simulations/resistance_reference.c` and `simulations/flux_identification.c`).
`BadOption`, `StartRun`, `ReadMap` are the ways through the preparation, each
with its exit code.  An iteration is `Requested` or `Restart` (the top of the
loop, with the reset of plant and controller when the stage has changed) and
then `Interval`, `IntervalRejected` or `DiagnosticRejected`, by where the
interval fails: before or after the plant has moved and the step has been
counted. `Leave` is the reset, and the abort of a run that would still be
active; `Report` prints whole or breaks off.  `plantAge` and `piAge` are
history: intervals since plant and controller were last reset.  What plant and
sensors show is any observation of the declared source.

**`MapTransport`** (`simulations/map_transport.c`,
`FluxMap._simulation_transport`, the start of `main` in
`simulations/linear_reference.c`).  A token is a number with what `strtod` and
the bounded reader make of it.  `Take` reads one token into its field, `Refuse`
stops the process; `Prepare`, `Continue`, `End` and `Report` follow the caller.
`NextPart` is the order the parts of a map come in, `Size` how many tokens each
has.  `storage` is static, a bounded array per part and slot, and is never
cleared; `Printed` looks through the pointers of a prepared map, like its users
and `namc_sim_print_map`.  `Loads` is what `FluxMap.__init__` asks of a map
before there is one to write.

**`PlantStep`** (`src/plant/*.c`).  A step of the integrator is several steps of
the model: `Begin`, four times `LinearSlope` or `MagneticSlope`, each with its
evaluation of the derivative, then `LinearCommit` or `MagneticCommit`, which
validates the new state first.  `Reject` leaves at any of them.  Its definitions
and those of `CurrentTuning` carry the module in the names `PlantSpec`,
`DesignSpec`, ..., since each is proved about together with a second module.

**`CurrentTuning`** (`src/core/current_tuning.c`).  `Tune` is a call,
`DesignVerdict` its checks in their order, `Cap` the five caps, `Bandwidth` their minimum with
the request, `Design` what is written at the very end.

**`Modulation`** (`namc_modulate`, `namc_clarke`, `namc_inverse_clarke`,
`namc_average_inverter`).  `Modulate` and `Apply` are the two calls.  Where the
code divides by the bus, the model keeps duties as numerators over a common
denominator, and a beta component counts parts of the square root of three, so
that everything is exact.

Branches of the C code that the models show unreachable (for instance the test
in `resistance_id.c:173-176` for a window that disagrees with the stage counter)
are kept in the models and excluded by an invariant, not left out.


## 4. The runs

All run with two workers; each takes less than two minutes.

**`resistance_id`** (22 706 states).  A run needs 3 × (1 + 2) samples.  Four
configurations: exactly enough samples, one too few, samples to spare with a
longer settling, and levels too close for the sensor's error; two machines, with
and without an offset; each kind of bad observation at each level; sequence
numbers that repeat, advance by one, skip, or start again at zero; starts,
restarts and aborts everywhere.  Two samples per window is the least at which a
window has a spread and a stage can be left half full; three stages and both
machines reach every rejection of the fit.  A larger budget only repeats
settling samples.  It shows

* `InStep`: the three counters and the windows tell one time, over restarts and
  in all branches;
* `CompleteMeansEvidence`, `BoundsContainEstimate`: a published result rests on
  the whole protocol and lies between its own bounds; the samples of the protocol
  are those of successive intervals from the start, with none lost, repeated or
  out of order (`taken`), whatever sequence numbers were shown;
* `AuthorityFollowsPhase`: the request is granted exactly while the run goes on,
  although it makes tests of its own;
* `ImplementsAcquisition`, `RunsEnd`: it is a bounded acquisition, and ends.

**`flux_id`** (16 822 states).  The same for the flux identifier: speeds 6, -6
and 2 (a shaft that turns backwards in the second stage), the zero-current
origin and a point away from it, speeds whose separation does not survive the
sensor's error, the other axis spoiling the fit in each of its ways; sequence
numbers as above, and `CompleteMeansEvidence` says the same of them.
`ReferenceIsMagnet` says that the point offered as the magnet's flux is a
zero-current one with a positive interval, and no other is offered.

**`current_control`** (2 224 states).  Both policies, with and without
antiwindup, nominal and tuned gains sound or not, two buses, errors of both
signs, a map whose rotational voltage differs from the nominal priors, and every
kind of bad measurement, lookup and overflow, in any order.  The state is small
because values are; the bus limit bounds the integral, so there is no other
bound.  `DriveOrFault`: a step drives or faults, with nothing in between.
`LawsNeverMix`: no law starts from an integral the other one built.
`FailureExplained`, `PolicyHonoured`, `FallbackOnlyByLookup`: a caller who reads
the recorded failure is told why the controller is where it is, fallback never
drives for one who forbids it, and it is entered for a rejected lookup of a good
measurement only.

**`flux_map`** (33 814 states).  An affine coupled map of 3 by 4 knots, one with
an axis of six (a search of several comparisons in which both ends move), and
single cells; a cell whose inside is worse conditioned than all its corners;
maps that violate each physical test, one of them only at the corner of the last
and the first knot; a hole at the last entry; a folded axis; a wrong count.
Currents on an inner knot, on the last knot, inside, outside and not finite;
flux rates that are finite, are not, or give rates that overflow, solved for
after a lookup and before the first one, with the zero Jacobian and the zero
limits of a fresh handle; preparations over a prepared handle.  `HandleSound`: a handle is prepared only
if *every* corner of *every* cell passes.  `SearchFindsCell`: while the search
goes on it brackets the current in an interval that halves with each comparison,
at most eight of them, and it ends in the cell the header documents, also on an
inner or the last knot.  `InteriorHolds`: a lookup in a prepared map never fails
reciprocity or passivity, at any current (ill-conditioning is the exception, and
the run has a map where it happens), and after one that answers no solve for
finite flux rates is refused.  `OutputsAnswer`: outputs change in calls that
return OK only; the flux answered lies between the least and the largest of the
four entries of the cell, and the rates solve the linear system exactly, over a
determinant that is not zero, whichever call was refused before.
`CallsReturn`: every call returns.

**`local_campaign`** (4 141 states).  All plans of up to four requests over four
points where three are allowed: too many, repeated, unsound requests, both
roles, the origin present or absent and anywhere in the plan; every outcome of
every process.  Three admitted points are enough for a rejected one before and
one after an accepted one, and for a point after a fault.  `EachPointOnce`: each
requested point is in the runs once, in order, and in exactly one of accepted
and unsupported.  `NothingRunsAfterFault`.  `ClaimsTraceable`: every
observation, accepted point, and the magnet reference rests on an accepted run
of that very point.

**`reference_run`** (37 476 states).  Runs of two to five samples, all trace
strides that matter for them, storage for two traced samples (10000 in the
code), a map dropped at the first, an inner, the last sample, or never, lookups
that fail by themselves, both policies, each refused combination of options.
`ReportMeansSuccess`, `DiagnosticsAgree` (with it that the trace never outgrows
its storage), `SettlingIsLast`.

**`resistance_experiment`** (3 462 states).  Four sets of options: enough
samples, a coarser sensor, one sample too few, and a refused configuration; two
machines, both trusted and untrusted voltage sources, an interval that breaks a
limit, the energy budget or the tracking threshold, at any place; every way an
interval, the map or the output fails.  `BooksInStep`: steps, samples and the
age of the controller agree, and no run ends because the program was out of step
with its identifier.  `HandOffUsable`: an accepted resistance and the interval
derived from it are accepted by the flux programs, which rests on the compiled
policy asking for less uncertainty than the least resistance.

**`flux_experiment`** (7 152 states).  The same for the flux program, with the
three speeds it compiles from `--speed` (x, -x, x/2), at the origin and away
from it.  `FreshPerStage`: whenever a sample is taken, plant and controller have
run for exactly as many intervals as the identifier has counted at this speed.
`CleanExitIsReport`: exit code 0 means a whole report, one that `FluxReports`
admits.  `ExperimentEnds`.

**`map_transport`** (47 073 states).  A square map and an oblong one, of two and
three knots (`MaxAxis` 3 for 256), with source names of two bytes and of one
(`MaxSource` 3 for 127); a plant map, a controller map, both in either order, or
none; the text as sent, or with any one token missing, doubled or replaced by
one of each kind, cut off before any token, with white space up to and beyond
the bound (`MaxSkip` 4 for 1024), or with a stream that ends with an error.  One
damage per text is enough: the reader works token by token and stops at the
first it refuses, and a run that uses a damaged text shows in the comparison
with what was sent.  `ReplayIsWhatWasSent`: the maps a run uses, written again,
are the text it was sent.  `WrapperIsUnderstood`: what the Python side sends is
never refused.

**`plant_step`** (88 168 states).  Three steps in a row of any kind, on machines
with and without magnet, resistance and friction, from starts near the edge of a
region where the map answers, with voltages that push them over it and
magnitudes beyond `MaxFinite`.  A step lasts 6 units and angles are quarter
turns, so that every weight of the rule is an integer.  `StepIsTransaction`: the
state changes in a successful step only, to a state from which the model can be
evaluated. `Integrates`: even rotation, free fall under the load, and the decay
of a current are integrated to the fourth order.

**`current_tuning`** (1 523 states).  Points of a coupled map, one of them
refused by the solve; budgets that make each of the five caps the least, and
combinations that leave nothing.  Distinct states are distinct requests with
what their caller holds.  `BudgetsKept`: the gains keep every budget, although
the code compares none of them with the gains.  `DesignIsLargest`: no bandwidth
on a grid of quarters up to twice the request is larger and keeps them; a
refusal by the caps means that none does; and the flags are empty exactly when
the caller gets what was asked for.

**`modulation`** (16 380 states).  Commands of all directions on, inside and
outside the circle of a bus; two buses, no bus, commands that are not finite, in
any order.  Commands above the circle have whole magnitudes (`WholeMagnitudes`),
so that scaling them is rational.  `BridgeObeys`: a command within the circle
reaches the machine exactly, one outside with its direction and the radius of
the circle, and after a failed call the bridge applies nothing.

Every bound is a constant of an `MC` module or of its `.cfg`: `SampleCap`,
`MaxAxis`, `MaxSource`, `MaxSkip`, `MaxPoints`, `MaxCalls`, `MaxFinite`,
`TraceCapacity`, and the finite sets of configurations, observations, inputs,
tables, currents, flux rates, maps, machines, requests, commands, calls and
settings.  No definition is replaced in a `.cfg`, and there is no state
constraint.  Symmetry is not used: the points of the campaign are not
interchangeable and the other runs have no model values.

Documents and code.  The documents under `docs/` were read beside the code, and
no statement in them was found that the code contradicts.  That an abort after
completion turns the run into a fault and zeroes its result (`Abandon` in
`Acquisition`) is documented (`docs/development/resistance-identification.md:82-83`)
and tested (`tests/resistance_id_test.c:54-55`).


## 5. Fairness and deadlock

* `ResistanceId`: `Fairness` is weak fairness of `Observe`, with *some* sequence
  number and observation, no matter which.  The loop that drives it
  (`simulations/resistance_reference.c:87-121`) shows one observation per sample
  as long as the run is active; `BooksInStep` is what that loop gets back.
  Nothing is assumed of what is observed, and restarts are free:
  `EventuallyEnds` therefore says that the run ends *or* is restarted for ever.
  The abstract specification's promise of termination is a formula on its own,
  `EventuallyEnds`, so that TLC can check it of the refinement beside `A!Spec`.
* `FluxMap`: weak fairness of `Proceed`, the next step of the call in progress.
  These are loops of one C function that nothing interrupts.
* `FluxExperiment`: weak fairness of `Step`, the next step of `main`.  Only that
  a process that can go on does go on: whether the loop ends is up to the
  identifier and to what it is shown, about which nothing is assumed.  `FluxId`
  itself therefore states no fairness.
* The other specifications are safety only and state no fairness.

`CHECK_DEADLOCK FALSE` is set for `local_campaign`, where a call returns or
raises and that is its end; for `reference_run`, `resistance_experiment`,
`flux_experiment` and `map_transport`, where the process exits or has nothing
left to do; and for `plant_step`, which ends after `MaxCalls` steps.  All other
runs check for deadlock.


## 6. The proofs

Every theorem is for all constants that satisfy the named assumptions: that
configurations, observations, inputs, tables and calls have the types the C
structs give them, that `MaxAxis` is at most the code's 256, and that bounds are
natural numbers.  `Modulation`, `CurrentTuning`, `MapTransport` and the two
experiments assume something more each, named below.

**Identifiers** (`ResistanceIdProofs`, `FluxIdProofs`).  None of the properties
is inductive alone: that a run takes exactly its samples needs the windows, that
windows follow stages needs the clocks, that evidence is behind a result needs
both and what each accepted sample satisfied when it was accepted.  The
invariant `IInv` is the conjunction of

* `TypeOK`, `RunConfigured` (a running state has a valid configuration),
  `BudgetsLeft` (it has samples and energy left);
* `InStep`, in `ResistanceId` in two halves, `ClocksAgree` and
  `WindowsFollowStages`;
* `SamplesSound`: whatever is in a window is near its level and within its
  spans, and came from one trusted source, which survives `Collect` because the
  extremes of a window are those of its samples; and the accepted samples are
  those of intervals 1 to `elapsed`, since no other sequence number is accepted;
* `ResultIffComplete`, `CompleteMeansEvidence`, and `BoundsContainEstimate` or
  `ReferenceIsMagnet`.

One lemma per way `Observe` returns shows that it keeps `IInv`.  The closing
step of `ResistanceId` needs arithmetic: `FitArithmetic` and `PublishedFit` show
that widening a numerator and narrowing a denominator by declared errors
brackets the estimate.  `AuthorityIsRunning` follows from `BudgetsLeft`;
`OvershootBounded`, an action property proved from `IInv`, says that the energy
budget is overrun by one interval at most, and that ends the run.
`Implementation` maps each way `Observe` returns to a step of `Acquisition` or
to a stutter: an accepted sample is `Accept` because `ClocksAgree` puts the
sample count below the need, and a published one is `Complete` because it makes
them equal.

**Experiments** (in the same two modules).  Both programs are shown to be callers
of their identifier (`ProgramDrivesIdentifier`), so `IInv` holds throughout, and
their own invariant `EInv` adds what the program knows.  `ProgramFollowsRun` is
the strengthening: where `main` stands tells how far the run is, an interval is
only entered by an active run, whose reason cannot be one of the program's own
faults (`OwnFaults`), and only an ended run is reported.  With it one lemma,
`Observed`, settles an interval: the observation has the sequence number the
identifier expects (`IntervalRefusal`), so that the run ends for another reason,
or goes on one sample older in its stage or at the start of the next; and
`RestartInv` gives that stage a fresh plant.  `BooksAlwaysInStep` and
`AlwaysFreshPerStage` are read off.  `CleanExitsAreReports` needs
`CompleteMeansEvidence` at the moment of printing.  `HandOffAlwaysUsable` needs
one fact more of a published resistance, `EstimateNarrow`: its interval is no
wider than the policy asks; since that is less than the least resistance
admitted, its half width is less than the estimate itself (`NarrowIsBelow`,
`AboveLeast`).  Assumed of the programs are the policy they compile in
(`CompiledPolicy`) and that plant and sensors show finite numbers
(`FiniteSensors`).  `ProgramRunsOut` is the safety half of `ExperimentEnds`:
`RunLeft`, a natural number, falls with every step the flux program takes; what
it adds to the invariant is that an interval uses up a sample of the
identifier's budget or ends the run.

**Controller** (`CurrentProofs`).  `RunLeaves` says what the kernel may
leave behind, for any law and input.  `OriginFollowsLaw` strengthens
`LawsNeverMix`: the law that built the integral is the one the fallback latch
selects.  With `FailureExplained`, `WithinBus` and `PolicyHonoured` it is
inductive, one case per way through a step.  `AlwaysWithinBus` (what is driven
and integrated fits the bus of the step, also when the bus drops) and
`LatchesAlwaysHold` (fault, fallback and first failure hold until a reset) are
proved beside the properties of the run.

**Flux map** (`FluxMapProofs`).  Three arguments.  (1) The scan: `Scanning` says
that all corners lexicographically before the one at hand have passed, so that a
prepared handle has passed them all (`HandleSound`).  (2) The search:
`SearchFindsCell` carries that the value is between the knots `low` and `high`,
and that `(high - low - 1) * 2^probes` is at most the number of inner knots,
which bounds the search by eight comparisons for the code's largest axis.  (3)
Corners suffice (`CornersVouch`): the Jacobian inside a cell is, entry by entry,
affine in each coordinate and so a nonnegative mixture of those at its corners;
positive definite symmetric matrices are closed under such mixtures
(`DefiniteScale`, `DefiniteSum`, `DefiniteBetween`), and the reciprocity error
is convex (`AbsInside`).  Hence `CornersSuffice`: inside a prepared map no
lookup fails these tests; and since an answered Jacobian has passed the test of
`namc_flux_matrix` under limits that do not change before the solve, no solve
refuses it (`AnswerSolvable`).  `OutputsAlwaysAnswer` is bilinear interpolation
as two successive means, and of the rates Cramer's rule (`SolutionSolves`), whose
determinant is not zero in an accepted solve.

**Campaign** (`LocalCampaignProofs`).  A point is accepted iff its own run was
accepted; that is inductive only because a submitted plan names no point twice
(`PlanDistinct`), so that a later rejection cannot contradict an earlier
acceptance.  `Phased` says what the report may hold at each place of the call,
`StopTold` that `stopped` is the memory of a fault in the runs.

**Reference simulation** (`ReferenceRunProofs`).  The properties speak of a
printed report only; the invariant says the same of the samples so far.
`FallbackCounted` ties the counters to the latch, `Booked` the timing buckets to
the counters, `Moded` and `Traced` the trace to both, `Settled` the settling
index to the history of the band, and `DropSeen` says that a dropped map has led
to fallback in its own sample at the latest.  The controller enters through one
lemma, `CallFacts`: a call that returns OK leaves no fault, keeps a latched
fallback and cannot stay on a map that is not there.  That the trace fits its
storage is arithmetic: `TraceShort` bounds its length times the stride by the
samples so far (`ShortGrows`), which meets the check of the options at the last
sample (`ShortFits`).

**Tuning** (`CurrentProofs`).  `AdmissibleByCaps` is the whole argument:
budget by budget, a bandwidth keeps it exactly when it is at most the cap that
stands for it (for the sample and the voltage cap a rearrangement with positive
factors).  `BandwidthIsLeast` says that the minimum is one of its arguments and
at most each, in the order of fractions (`Transitive`, `Total`).  Both halves
follow: an accepted design keeps the budgets, a larger bandwidth would break the
cap the minimum comes from.  `BestOfAllBandwidths` compares with every fraction,
where the run compares with quarters.  Assumed are the types of requests and
that an inductance has a positive diagonal and determinant, which `FluxMap`
shows of a prepared map.

**Map transport** (`MapTransportProofs`).  Reading is an inverse of writing, for
maps of any size; no induction is needed, because the invariant says of every
moment what a completed read says of the end.  `Placed`: of the map being read,
each field before the place of the call is in the header, and each cell of each
part before it is in its slot, with the value of the token it came from, counted
from where the map starts in the text.  One token moves the place by one, within
a part (`FieldTaken`, `CellTaken`) or to the next, where the room of the slot
has to suffice (`SizesFit`).  When a map is full, `ViewFollows` says that what
its users see through the pointers, written again, is the stretch of text that
was read.  Two facts about data carry this: a table written row after row is
read back from the same cells (`FlatOfTable`, `TableOfFlat`, by division with
remainder), and the written parts follow each other (`WrittenParts`).  `Held`
keeps the plant's map while the controller's is read into the other slot;
`Finished` and `Exhausted` add that nothing is left over.  `ReplayAlwaysWhatWasSent`
follows.  `WrapperAlwaysUnderstood` is the other direction: in a text a wrapper
has sent the next token is accepted at every place (`NextAccepted`), and the map
that was read is the map that was written (`ViewIsMap`), so `prepare`, asked
again with the same map, answers as before.  Assumed is `MapsAssumption`: a
`FluxMap` exists only if `Loads` holds, which is what its constructor tests.

**Modulation** (`MachineProofs`).  `SpanWithinBus` is Cauchy's inequality for
the line voltages of a command on or below the circle, `CentredFits` the
arithmetic of the shift; together `NothingClipped`: every duty is between 0 and
1 before the clip.  `BridgeUndoes` shows that the bridge inverts the modulator,
and `LimitedFits` that a command cut to the circle is on it.  Assumed of a
command above the circle is a whole magnitude (`WholeMagnitudes`): in units as
small as one likes, so that such commands come arbitrarily close to every other.
The invariant says of each stage what output and bridge hold as a function of
the last call, and `BridgeAlwaysObeys` is read off from it.

**Plant step** (`MachineProofs`).  The invariant is `SlopesFollow`: while a step
runs, slope i is the derivative of the machine at point i, where point i follows
from the state and slope i - 1.  It needs that state and arguments do not change
before the commit, which is half of `StepIsAlwaysTransaction`; the other half is
that a commit has evaluated the derivative at the very state it writes, and that
the wrapped angle is a remainder (`WrapIs`).  `StepAlwaysIntegrates` is then a
calculation from four slopes: `DrivenExact`, `FreeExact` and `DecayExact`, the
last by `RungeKuttaDecay`, in which the weighted mean of the slopes collapses to
Taylor's polynomial of the exponential.  It holds for every machine, start, load,
step length and region of the map; only types are assumed (`PlantAssumption`,
`StepAssumption`).

`TypeCorrect` is proved of six of the modules; TLC checks a type invariant only
of `FluxMap`, where it says that no scan leaves the tables.  The theorems that
state a property of a run are listed in `PROJECT.json`.


## 7. What is only model-checked

The three liveness properties, `RunsEnd`, `CallsReturn` and `ExperimentEnds`:
what must eventually happen under fairness is outside what the prover handles.
The proofs give the safety half of each: an identifier has a budget it cannot
exceed (`Implementation`), a search a bound on its comparisons
(`SearchIsBounded`), and the flux program a natural number that falls with each
of its steps (`ProgramRunsOut`).  Every other property of the runs, invariants
and action properties alike, is both checked and proved.

That an action can be taken at all (`ENABLED`) is not provable here either; the
runs fire every one.


## 8. What is not modelled, and why

* Floating-point rounding.  Arithmetic is exact; what double precision cannot
  represent is an attribute of inputs, or a magnitude above a bound.  A property
  that holds by an exact margin may be off by a rounding error in the program.
  In particular the clip of a duty, which never acts in exact arithmetic, may
  trim a last bit.
* Torque (`namc_flux_torque`) and the inverse Park transform: stateless formulas
  without behaviour over steps.  Park itself appears in `PlantStep`, at quarter
  turns.
* The trigonometry of the voltage adapter and the noise of the simulated
  sensors: what an experiment observes is any member of a finite set.
* The sums and maxima the programs accumulate for their reports (`peak_current`,
  `shaft_work`, errors), and the wording and layout of what they print.  The map
  is the exception: its printing is modelled, since a report is replayed from
  it.
* In `PlantStep`, parameters are valid ones and unit inductances and inertia are
  used; invalid parameters are rejected in the first evaluation, like a bad
  state.
* In `MapTransport`, the cutting of characters into tokens and `strtod` itself;
  more than one damaged token in a text.  The two slots of the reader are used
  by the reference simulation only; the experiments read one map into slot 0.
* In the Python runners, parsing of arguments, ctypes calls, JSON and files; the
  qualification script, a fixed grid of simulation runs whose metrics are
  compared with limits.
* Version string, host timer, build files and repository checks: no behaviour to
  specify.


## 9. The plan

Done, in this order: `Acquisition`, `ResistanceId`; `CurrentControl`; `FluxId`;
`FluxMap`; `LocalCampaign`; `ReferenceRun`, each checked and proved; then
`NativeReport`, `FluxExperiment`, `ResistanceExperiment`, `PlantStep` and
`MapTransport`, checked; `CurrentTuning` and `Modulation`, checked and proved;
then the proofs of the two experiments, the map transport and the plant's step.

Left, most useful first:

1. For the calls of the flux map, and for an identifier between two starts, a
   number that falls, as `RunLeft` does for the flux program; likewise for the
   resistance program.
2. That `ReferenceRun` uses its controller as `CurrentControl` lets a caller, as
   `ProgramDrivesIdentifier` says of the experiments.  The runs without a map
   call `namc_current_step` directly, so `CurrentControl` needs that call as an
   action first.
3. `StepIsTransaction` for any derivative: the proof uses of the two flux models
   only that they return numbers.
4. The fairness of `ResistanceId` as a consequence of its loop, as for `FluxId`.
