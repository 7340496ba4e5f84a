--------------------------- MODULE LocalCampaign ----------------------------
(***************************************************************************)
(* The local identification campaign, run_local_identification of          *)
(* python/fluxforge_namc/flux_identification.py: one native resistance     *)
(* run, then one native flux run per requested current point, each a       *)
(* process of its own that may be accepted, rejected, killed by its        *)
(* timeout, or end with an error.                                          *)
(*                                                                         *)
(* A process run is one step.  What a native run reports is constrained    *)
(* only by what its own program promises (see Reports).                    *)
(***************************************************************************)
EXTENDS SequencesExt, Integers, NativeReport

CONSTANTS
  Points,     \* current points a caller may ask for
  Origin,     \* the zero-current point
  MaxPoints,  \* 64 in the code
  Calls       \* the lists of requests a caller may pass

ASSUME OriginIsPoint == Origin \in Points
ASSUME PointBound == MaxPoints \in Nat \ {0}

Roles == {"acquisition", "held-out"}

\* "sound" says that the request has three parts, a known role and two finite
\* numbers.
Request == [target : Points, role : Roles, sound : BOOLEAN]

ASSUME CallsAreRequests == Calls \subseteq Seq(Request)

\* What a native flux run may report of a point: what its program guarantees
\* (FluxExperiment, CleanExitIsReport).
Reports(target) == FluxReports(target = Origin)

\* A native program that exits with an error, cannot be started, or is killed
\* after 60 seconds.
ProcessError == [phase |-> "PROCESS_ERROR", magnet |-> FALSE]
Skipped == [phase |-> "SKIPPED", magnet |-> FALSE]

Entry ==
  [target : Points, role : Roles,
   phase : EndPhases \cup {"PROCESS_ERROR", "SKIPPED"}, magnet : BOOLEAN]

VARIABLES
  control,       \* where the call is
  plan,          \* points
  runs,          \* report["runs"]
  observations,  \* report["observations"]
  accepted,      \* report["coverage"]["accepted_points_A"]
  unsupported,   \* report["coverage"]["unsupported_requests_A"]
  pmReference,   \* report["pm_reference"], the run it is from, -1 for None
  stopped,
  state,         \* report["state"]
  reason,        \* report["reason"]
  complete       \* report["complete"]

report == <<runs, observations, accepted, unsupported, pmReference, state, reason, complete>>
vars == <<control, plan, stopped, report>>

Controls == {"idle", "resistance", "points", "returned", "raised"}
States == {"complete", "degraded", "fault"}
Explanations ==
  {"resistance-rejected", "point-fault", "accepted-requested-coverage",
   "incomplete-coverage-or-missing-pm-reference"}

Targets(requests) == [i \in DOMAIN requests |-> requests[i].target]

-----------------------------------------------------------------------------

Init ==
  /\ control = "idle"
  /\ plan = <<>>
  /\ runs = <<>>
  /\ observations = <<>>
  /\ accepted = <<>>
  /\ unsupported = <<>>
  /\ pmReference = -1
  /\ stopped = FALSE
  /\ state = "degraded"
  /\ reason = "resistance-rejected"
  /\ complete = FALSE

\* The whole plan is validated before any process runs.
PlanValid(requests) ==
  /\ Len(requests) \in 1..MaxPoints
  /\ \A i \in DOMAIN requests : requests[i].sound
  /\ \A i, j \in DOMAIN requests : requests[i].target = requests[j].target => i = j

\* The flux options name no field the campaign owns: "allowed".
Submit(requests, allowed) ==
  /\ control = "idle"
  /\ IF PlanValid(requests) /\ allowed
     THEN /\ control' = "resistance"
          /\ plan' = requests
     ELSE /\ control' = "raised"
          /\ UNCHANGED plan
  /\ UNCHANGED <<stopped, report>>

\* The resistance run fails as a process, or what it prints cannot be read:
\* the exception leaves the campaign.
ResistanceRaises ==
  /\ control = "resistance"
  /\ control' = "raised"
  /\ UNCHANGED <<plan, stopped, report>>

ResistanceAccepted ==
  /\ control = "resistance"
  /\ control' = "points"
  /\ UNCHANGED <<plan, stopped, report>>

\* No resistance, no flux run: every request is unsupported.
ResistanceRejected(phase) ==
  /\ control = "resistance"
  /\ state' = IF phase = "FAULT" THEN "fault" ELSE state
  /\ unsupported' = Targets(plan)
  /\ control' = "returned"
  /\ UNCHANGED <<plan, stopped, runs, observations, accepted, pmReference, reason, complete>>

Current == plan[Len(runs) + 1]
Remaining == control = "points" /\ Len(runs) < Len(plan)

Record(outcome) ==
  runs' = Append(runs, [target |-> Current.target, role |-> Current.role,
                        phase |-> outcome.phase, magnet |-> outcome.magnet])

\* Mutant: a skipped point is listed among the runs only.
SkipUnlisted ==
  /\ Remaining
  /\ stopped
  /\ Record(Skipped)
  /\ UNCHANGED <<control, plan, stopped, observations, accepted, unsupported,
                 pmReference, state, reason, complete>>

\* After a fault nothing is run, but every point is still accounted for.
Skip ==
  /\ Remaining
  /\ stopped
  /\ Record(Skipped)
  /\ unsupported' = Append(unsupported, Current.target)
  /\ UNCHANGED <<control, plan, stopped, observations, accepted, pmReference,
                 state, reason, complete>>

\* Mutant: a failed process is treated like a rejection, and the next one runs.
FailAndContinue ==
  /\ Remaining
  /\ ~stopped
  /\ Record(ProcessError)
  /\ unsupported' = Append(unsupported, Current.target)
  /\ UNCHANGED <<control, plan, stopped, observations, accepted, pmReference,
                 state, reason, complete>>

\* The native run fails as a process.
Fail ==
  /\ Remaining
  /\ ~stopped
  /\ Record(ProcessError)
  /\ unsupported' = Append(unsupported, Current.target)
  /\ stopped' = TRUE
  /\ UNCHANGED <<control, plan, observations, accepted, pmReference,
                 state, reason, complete>>

\* The native run exits cleanly, but what it printed cannot be read: that
\* exception is not caught, and what the campaign has gathered is lost.
Unreadable ==
  /\ Remaining
  /\ ~stopped
  /\ control' = "raised"
  /\ UNCHANGED <<plan, stopped, report>>

\* A recorded rejection.
Reject(outcome) ==
  /\ Remaining
  /\ ~stopped
  /\ outcome.phase # "COMPLETE"
  /\ Record(outcome)
  /\ unsupported' = Append(unsupported, Current.target)
  /\ stopped' = (outcome.phase = "FAULT")
  /\ UNCHANGED <<control, plan, observations, accepted, pmReference,
                 state, reason, complete>>

\* Mutant: the source is counted over the observations.
ObservedByOwnIndex ==
  [target |-> Current.target, role |-> Current.role, source |-> Len(observations)]

\* An observation names the run it is from, counted from 0.
Observed == [target |-> Current.target, role |-> Current.role, source |-> Len(runs)]

Accept(outcome) ==
  /\ Remaining
  /\ ~stopped
  /\ outcome.phase = "COMPLETE"
  /\ Record(outcome)
  /\ observations' = Append(observations, Observed)
  /\ accepted' = Append(accepted, Current.target)
  /\ pmReference' = IF outcome.magnet THEN Observed.source ELSE pmReference
  /\ UNCHANGED <<control, plan, stopped, unsupported, state, reason, complete>>

Completion == unsupported = <<>> /\ pmReference # -1

Finish ==
  /\ control = "points"
  /\ Len(runs) = Len(plan)
  /\ complete' = Completion
  /\ state' = IF stopped THEN "fault" ELSE IF complete' THEN "complete" ELSE "degraded"
  /\ reason' = IF stopped THEN "point-fault"
               ELSE IF complete' THEN "accepted-requested-coverage"
               ELSE "incomplete-coverage-or-missing-pm-reference"
  /\ control' = "returned"
  /\ UNCHANGED <<plan, stopped, runs, observations, accepted, unsupported, pmReference>>

Next ==
  \/ \E requests \in Calls, allowed \in BOOLEAN : Submit(requests, allowed)
  \/ ResistanceRaises
  \/ ResistanceAccepted
  \/ \E phase \in {"DEGRADED", "FAULT"} : ResistanceRejected(phase)
  \/ Skip
  \/ Fail
  \/ Unreadable
  \/ Remaining /\ \E outcome \in Reports(Current.target) : Reject(outcome)
  \/ Remaining /\ \E outcome \in Reports(Current.target) : Accept(outcome)
  \/ Finish

Spec == Init /\ [][Next]_vars

-----------------------------------------------------------------------------
(* Properties.                                                             *)

\* The report holds values of its types, and no more runs than requests, which
\* are at most MaxPoints.
TypeOK ==
  /\ control \in Controls
  /\ plan \in Seq(Request)
  /\ runs \in Seq(Entry)
  /\ observations \in Seq([target : Points, role : Roles, source : Nat])
  /\ accepted \in Seq(Points)
  /\ unsupported \in Seq(Points)
  /\ pmReference \in Nat \cup {-1}
  /\ stopped \in BOOLEAN
  /\ state \in States
  /\ reason \in Explanations
  /\ complete \in BOOLEAN
  /\ Len(runs) <= Len(plan)
  /\ Len(plan) <= MaxPoints

\* The points among the first n requests.
Reached(n) == {plan[i].target : i \in 1..n}

\* Requests whose lot the report states: those run or skipped, or all of them
\* once the resistance was rejected.
Decided == IF control = "returned" THEN Len(plan) ELSE Len(runs)

\* Every request is answered once and in the order of the plan: a run or a skip
\* for it, its target in one of the two lists of coverage, and in the list of
\* accepted points exactly when its own run was accepted.
EachPointOnce ==
  /\ \A i \in DOMAIN runs :
       /\ runs[i].target = plan[i].target
       /\ runs[i].role = plan[i].role
       /\ runs[i].phase = "COMPLETE" <=> runs[i].target \in ToSet(accepted)
  /\ ToSet(accepted) \cup ToSet(unsupported) = Reached(Decided)
  /\ Len(accepted) + Len(unsupported) = Decided

\* A fault or a failed process ends the experiments: nothing is run after it,
\* nothing is skipped without it, and a returned campaign says so.
Stopping(i) == runs[i].phase \in {"FAULT", "PROCESS_ERROR"}

NothingRunsAfterFault ==
  /\ \A i \in DOMAIN runs :
       runs[i].phase = "SKIPPED" <=> \E j \in 1..(i - 1) : Stopping(j)
  /\ control = "returned" /\ reason # "resistance-rejected" =>
       (state = "fault" <=> \E i \in DOMAIN runs : Stopping(i))

\* What the report claims can be traced: an observation to an accepted run of
\* its own point and role, the magnet's flux to the zero-current point, and a
\* complete campaign to a plan all of whose points were accepted.
ClaimsTraceable ==
  /\ Len(observations) = Len(accepted)
  /\ \A k \in DOMAIN observations :
       LET o == observations[k]
       IN /\ o.source < Len(runs)
          /\ runs[o.source + 1].phase = "COMPLETE"
          /\ runs[o.source + 1].target = o.target
          /\ plan[o.source + 1].role = o.role
          /\ accepted[k] = o.target
  /\ pmReference # -1 =>
       /\ pmReference < Len(runs)
       /\ runs[pmReference + 1].magnet
       /\ runs[pmReference + 1].target = Origin
  /\ complete =>
       /\ state = "complete"
       /\ ToSet(accepted) = Reached(Len(plan))
       /\ Origin \in ToSet(accepted)
=============================================================================
