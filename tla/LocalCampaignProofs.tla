------------------------ MODULE LocalCampaignProofs -------------------------
(***************************************************************************)
(* Theorems about LocalCampaign, for every set of points, every bound on   *)
(* their number and every list of requests.                                *)
(***************************************************************************)
EXTENDS LocalCampaign, TLAPS

Fresh ==
  /\ runs = <<>>
  /\ observations = <<>>
  /\ accepted = <<>>
  /\ unsupported = <<>>
  /\ pmReference = -1
  /\ stopped = FALSE

\* The plan the caller submitted names no point twice.
PlanDistinct ==
  \A i, j \in DOMAIN plan : plan[i].target = plan[j].target => i = j

\* What the report may hold at each place of the call.
Phased ==
  /\ control \in {"idle", "resistance"} => Fresh
  /\ control # "returned" =>
       reason = "resistance-rejected" /\ state = "degraded" /\ complete = FALSE
  /\ control = "returned" /\ reason = "resistance-rejected" =>
       runs = <<>> /\ complete = FALSE
  /\ control = "returned" /\ reason # "resistance-rejected" => Len(runs) = Len(plan)

StopTold == stopped <=> \E i \in DOMAIN runs : Stopping(i)

MagnetAccepted == \A i \in DOMAIN runs : runs[i].magnet => runs[i].phase = "COMPLETE"

IInv ==
  /\ TypeOK
  /\ PlanDistinct
  /\ Phased
  /\ StopTold
  /\ MagnetAccepted
  /\ EachPointOnce
  /\ NothingRunsAfterFault
  /\ ClaimsTraceable

\* What a step that answers one more request without accepting it does.
Drop(o) ==
  /\ Remaining
  /\ o.phase \in {"DEGRADED", "FAULT", "PROCESS_ERROR", "SKIPPED"}
  /\ o.magnet = FALSE
  /\ o.phase = "SKIPPED" <=> stopped
  /\ Record(o)
  /\ unsupported' = Append(unsupported, Current.target)
  /\ stopped' = (stopped \/ o.phase \in {"FAULT", "PROCESS_ERROR"})
  /\ UNCHANGED <<control, plan, observations, accepted, pmReference, state, reason, complete>>

-----------------------------------------------------------------------------
(* Sequences, and the reached part of the plan.                            *)

\* What appending does, place by place.
LEMMA Appended ==
  ASSUME NEW S, NEW s \in Seq(S), NEW e \in S
  PROVE  /\ Append(s, e) \in Seq(S)
         /\ Len(Append(s, e)) = Len(s) + 1
         /\ Len(s) \in Nat
         /\ DOMAIN s = 1..Len(s)
         /\ DOMAIN Append(s, e) = 1..(Len(s) + 1)
         /\ \A i \in 1..Len(s) : Append(s, e)[i] = s[i]
         /\ Append(s, e)[Len(s) + 1] = e
  OBVIOUS

\* The elements of a sequence are of its type.
LEMMA ElementTyped ==
  ASSUME NEW S, NEW s \in Seq(S), NEW k \in DOMAIN s
  PROVE  s[k] \in S
  OBVIOUS

\* Appending adds one element to the set of a sequence.
LEMMA AppendedSet ==
  ASSUME NEW S, NEW s \in Seq(S), NEW e \in S
  PROVE  ToSet(Append(s, e)) = ToSet(s) \cup {e}
<1>1. /\ Len(s) \in Nat
      /\ DOMAIN s = 1..Len(s)
      /\ DOMAIN Append(s, e) = 1..(Len(s) + 1)
      /\ \A i \in 1..Len(s) : Append(s, e)[i] = s[i]
      /\ Append(s, e)[Len(s) + 1] = e
  BY Appended
<1> DEFINE n == Len(s)
           t == Append(s, e)
<1>2. /\ n \in Nat /\ DOMAIN s = 1..n /\ DOMAIN t = 1..(n + 1)
      /\ \A i \in 1..n : t[i] = s[i]
      /\ t[n + 1] = e
  BY <1>1
<1> HIDE DEF n, t
<1>3. ASSUME NEW x \in ToSet(t) PROVE x \in ToSet(s) \cup {e}
  <2>1. PICK i \in 1..(n + 1) : x = t[i]
    BY <1>2, <1>3 DEF ToSet
  <2>2. CASE i = n + 1
    BY <2>1, <2>2, <1>2
  <2>3. CASE i # n + 1
    <3>1. i \in 1..n
      BY <2>3, <2>1, <1>2
    <3> QED BY <3>1, <2>1, <1>2 DEF ToSet
  <2> QED BY <2>2, <2>3
<1>4. ASSUME NEW x \in ToSet(s) \cup {e} PROVE x \in ToSet(t)
  <2>1. CASE x = e
    <3>1. n + 1 \in 1..(n + 1)
      BY <1>2
    <3> QED BY <3>1, <2>1, <1>2 DEF ToSet
  <2>2. CASE x # e
    <3>1. PICK i \in 1..n : x = s[i]
      BY <2>2, <1>2, <1>4 DEF ToSet
    <3>2. i \in 1..(n + 1)
      BY <1>2
    <3> QED BY <3>1, <3>2, <1>2 DEF ToSet
  <2> QED BY <2>1, <2>2
<1>5. ToSet(t) = ToSet(s) \cup {e}
  BY <1>3, <1>4
<1> QED BY <1>5 DEF t

\* Answering one more request reaches its point.
LEMMA ReachedNext ==
  ASSUME NEW n \in Nat
  PROVE  Reached(n + 1) = Reached(n) \cup {plan[n + 1].target}
<1>1. 1..(n + 1) = 1..n \cup {n + 1}
  OBVIOUS
<1> QED BY <1>1 DEF Reached

\* The list of targets names the points of its requests, in their order.
LEMMA TargetsReached ==
  ASSUME plan \in Seq(Request)
  PROVE  /\ Targets(plan) \in Seq(Points)
         /\ Len(Targets(plan)) = Len(plan)
         /\ ToSet(Targets(plan)) = Reached(Len(plan))
<1>1. /\ DOMAIN plan = 1..Len(plan)
      /\ Len(plan) \in Nat
      /\ \A i \in 1..Len(plan) : plan[i] \in Request
  OBVIOUS
<1>2. \A i \in 1..Len(plan) : plan[i].target \in Points
  BY <1>1 DEF Request
<1>3. Targets(plan) = [i \in 1..Len(plan) |-> plan[i].target]
  BY <1>1 DEF Targets
<1>4. /\ Targets(plan) \in Seq(Points)
      /\ Len(Targets(plan)) = Len(plan)
  BY <1>1, <1>2, <1>3
<1>5. ToSet(Targets(plan)) = {Targets(plan)[i] : i \in 1..Len(plan)}
  BY <1>3 DEF ToSet
<1>6. ToSet(Targets(plan)) = Reached(Len(plan))
  BY <1>5, <1>3 DEF Reached
<1> QED BY <1>4, <1>6

\* What recording a run leaves in the list of runs.
LEMMA Recorded ==
  ASSUME TypeOK, Remaining, NEW o, Record(o),
         o.phase \in EndPhases \cup {"PROCESS_ERROR", "SKIPPED"},
         o.magnet \in BOOLEAN
  PROVE  /\ Current \in Request
         /\ Len(runs) \in Nat
         /\ Len(runs) + 1 \in DOMAIN plan
         /\ DOMAIN runs = 1..Len(runs)
         /\ runs' \in Seq(Entry)
         /\ Len(runs') = Len(runs) + 1
         /\ DOMAIN runs' = 1..(Len(runs) + 1)
         /\ \A i \in 1..Len(runs) : runs'[i] = runs[i]
         /\ runs'[Len(runs) + 1].target = Current.target
         /\ runs'[Len(runs) + 1].role = Current.role
         /\ runs'[Len(runs) + 1].phase = o.phase
         /\ runs'[Len(runs) + 1].magnet = o.magnet
<1> DEFINE e == [target |-> Current.target, role |-> Current.role,
                 phase |-> o.phase, magnet |-> o.magnet]
<1>1. /\ Len(runs) \in Nat
      /\ Len(runs) + 1 \in DOMAIN plan
      /\ Current \in Request
  BY DEF TypeOK, Remaining, Current
<1>2. e \in Entry
  BY <1>1 DEF Entry, Request
<1>3. runs' = Append(runs, e)
  BY DEF Record
<1> HIDE DEF e
<1>4. runs \in Seq(Entry)
  BY DEF TypeOK
<1>5. /\ Len(runs) \in Nat
      /\ Len(runs) + 1 \in DOMAIN plan
      /\ Current \in Request
      /\ DOMAIN runs = 1..Len(runs)
      /\ runs' \in Seq(Entry)
      /\ Len(runs') = Len(runs) + 1
      /\ DOMAIN runs' = 1..(Len(runs) + 1)
      /\ \A i \in 1..Len(runs) : runs'[i] = runs[i]
      /\ runs'[Len(runs) + 1] = e
  BY <1>1, <1>2, <1>3, <1>4, Appended
<1> QED BY <1>5 DEF e

\* No earlier request is for the point of the next one.
LEMMA NextIsNew ==
  ASSUME IInv, Remaining
  PROVE  /\ Current.target \notin Reached(Len(runs))
         /\ Current.target \notin ToSet(accepted)
<1>1. /\ Len(runs) \in Nat
      /\ Len(plan) \in Nat
      /\ Len(runs) < Len(plan)
      /\ DOMAIN plan = 1..Len(plan)
      /\ control = "points"
  BY DEF IInv, TypeOK, Remaining
<1>2. Current.target \notin Reached(Len(runs))
  BY <1>1 DEF Reached, Current, IInv, PlanDistinct
<1>3. ToSet(accepted) \cup ToSet(unsupported) = Reached(Len(runs))
  BY <1>1 DEF IInv, EachPointOnce, Decided
<1> QED BY <1>2, <1>3

\* An observation comes from a run that has been made.
LEMMA SourceEarlier ==
  ASSUME IInv, NEW k \in DOMAIN observations
  PROVE  observations[k].source \in Nat /\ observations[k].source < Len(runs)
<1>1. observations \in Seq([target : Points, role : Roles, source : Nat])
  BY DEF IInv, TypeOK
<1>2. observations[k] \in [target : Points, role : Roles, source : Nat]
  BY <1>1, ElementTyped
<1>3. observations[k].source < Len(runs)
  BY DEF IInv, ClaimsTraceable
<1> QED BY <1>2, <1>3

-----------------------------------------------------------------------------
(* One lemma per kind of step.                                             *)

LEMMA Initially == Init => IInv
<1> SUFFICES ASSUME Init PROVE IInv
  OBVIOUS
<1>2. /\ runs = <<>> /\ plan = <<>> /\ accepted = <<>> /\ unsupported = <<>>
      /\ observations = <<>> /\ control = "idle" /\ pmReference = -1
      /\ stopped = FALSE /\ complete = FALSE /\ state = "degraded"
      /\ reason = "resistance-rejected"
  BY DEF Init
<1>3. /\ DOMAIN runs = {} /\ DOMAIN plan = {} /\ DOMAIN observations = {}
      /\ DOMAIN accepted = {} /\ DOMAIN unsupported = {}
      /\ Len(runs) = 0 /\ Len(accepted) = 0 /\ Len(unsupported) = 0
      /\ Len(observations) = 0
  BY <1>2
<1>1. TypeOK
  <2>1. Len(plan) = 0 /\ Len(runs) <= Len(plan) /\ Len(plan) <= MaxPoints
    BY <1>2, PointBound
  <2>2. /\ plan \in Seq(Request) /\ runs \in Seq(Entry)
        /\ observations \in Seq([target : Points, role : Roles, source : Nat])
        /\ accepted \in Seq(Points) /\ unsupported \in Seq(Points)
    BY <1>2
  <2> QED BY <1>2, <2>1, <2>2 DEF TypeOK, Controls, States, Explanations
<1>4. ToSet(accepted) = {} /\ ToSet(unsupported) = {} /\ Reached(0) = {}
  BY <1>3 DEF ToSet, Reached
<1>5. Decided = 0
  BY <1>2, <1>3 DEF Decided
<1>6. EachPointOnce
  BY <1>3, <1>4, <1>5 DEF EachPointOnce
<1>7. NothingRunsAfterFault
  BY <1>2, <1>3 DEF NothingRunsAfterFault
<1>8. ClaimsTraceable
  BY <1>2, <1>3 DEF ClaimsTraceable
<1>9. PlanDistinct /\ Phased /\ StopTold /\ MagnetAccepted
  BY <1>2, <1>3 DEF PlanDistinct, Phased, StopTold, MagnetAccepted, Fresh
<1> QED BY <1>1, <1>6, <1>7, <1>8, <1>9 DEF IInv

\* The steps before the first run.
LEMMA SubmitStep ==
  ASSUME IInv, NEW requests \in Calls, NEW allowed \in BOOLEAN, Submit(requests, allowed)
  PROVE  IInv'
<1>1. /\ control = "idle"
      /\ control' \in {"resistance", "raised"}
      /\ plan' = plan \/ (plan' = requests /\ PlanValid(requests))
      /\ UNCHANGED <<stopped, report>>
  BY DEF Submit
<1>2. Fresh /\ runs' = runs /\ observations' = observations /\ accepted' = accepted
      /\ unsupported' = unsupported /\ pmReference' = pmReference
      /\ stopped' = stopped /\ state' = state /\ reason' = reason /\ complete' = complete
  BY <1>1 DEF IInv, Phased, report
<1>3. /\ DOMAIN runs' = {} /\ DOMAIN observations' = {} /\ Len(runs') = 0
      /\ ToSet(accepted') = {} /\ ToSet(unsupported') = {}
      /\ Len(accepted') = 0 /\ Len(unsupported') = 0 /\ Len(observations') = 0
  BY <1>2 DEF Fresh, ToSet
<1>4. requests \in Seq(Request)
  BY CallsAreRequests
<1>5. TypeOK'
  <2>1. plan' \in Seq(Request) /\ Len(plan') <= MaxPoints /\ Len(plan') \in Nat
    BY <1>1, <1>4, PointBound DEF PlanValid, IInv, TypeOK
  <2>2. control' \in Controls
    BY <1>1 DEF Controls
  <2>3. Len(runs') <= Len(plan')
    BY <1>3, <2>1
  <2> QED BY <1>2, <2>1, <2>2, <2>3 DEF IInv, TypeOK
<1>6. PlanDistinct'
  BY <1>1, <1>4 DEF PlanDistinct, PlanValid, IInv
<1>7. Decided' = 0 /\ Reached(0)' = {}
  BY <1>1, <1>3 DEF Decided, Reached
<1>8. EachPointOnce'
  BY <1>3, <1>7 DEF EachPointOnce
<1>9. NothingRunsAfterFault'
  BY <1>3, <1>1 DEF NothingRunsAfterFault
<1>10. complete' = FALSE /\ pmReference' = -1 /\ reason' = "resistance-rejected"
       /\ state' = "degraded" /\ stopped' = FALSE
  BY <1>1, <1>2 DEF Fresh, IInv, Phased
<1>11. ClaimsTraceable'
  BY <1>3, <1>10 DEF ClaimsTraceable
<1>12. Phased' /\ StopTold' /\ MagnetAccepted'
  BY <1>1, <1>2, <1>3, <1>10 DEF Phased, Fresh, StopTold, MagnetAccepted
<1> QED BY <1>5, <1>6, <1>8, <1>9, <1>11, <1>12 DEF IInv

\* A step to "points" or "raised" changes nothing of the report.
LEMMA MoveStep ==
  ASSUME IInv, control # "returned", control' \in {"points", "raised"},
         UNCHANGED <<plan, stopped, report>>
  PROVE  IInv'
<1>1. plan' = plan /\ runs' = runs /\ observations' = observations /\ accepted' = accepted
      /\ unsupported' = unsupported /\ pmReference' = pmReference
      /\ stopped' = stopped /\ state' = state /\ reason' = reason /\ complete' = complete
  BY DEF report
<1>2. Decided' = Decided
  BY <1>1 DEF Decided
<1>3. TypeOK'
  BY <1>1 DEF IInv, TypeOK, Controls
<1>4. EachPointOnce'
  BY <1>1, <1>2 DEF IInv, EachPointOnce, Reached
<1>5. NothingRunsAfterFault'
  BY <1>1 DEF IInv, NothingRunsAfterFault, Stopping
<1>6. ClaimsTraceable'
  BY <1>1 DEF IInv, ClaimsTraceable, Reached
<1>7. PlanDistinct' /\ Phased' /\ StopTold' /\ MagnetAccepted'
  BY <1>1 DEF IInv, PlanDistinct, Phased, StopTold, MagnetAccepted, Stopping
<1> QED BY <1>3, <1>4, <1>5, <1>6, <1>7 DEF IInv

\* A rejected resistance makes every request unsupported.
LEMMA ResistanceRejectedStep ==
  ASSUME IInv, NEW phase \in {"DEGRADED", "FAULT"}, ResistanceRejected(phase)
  PROVE  IInv'
<1>1. /\ control = "resistance" /\ control' = "returned"
      /\ state' \in {"fault", state} /\ unsupported' = Targets(plan)
      /\ UNCHANGED <<plan, stopped, runs, observations, accepted, pmReference, reason, complete>>
  BY DEF ResistanceRejected
<1>2. Fresh /\ state = "degraded" /\ reason = "resistance-rejected" /\ complete = FALSE
  BY <1>1 DEF IInv, Phased
<1>3. plan \in Seq(Request) /\ Len(plan) \in Nat
  BY DEF IInv, TypeOK
<1>4. /\ unsupported' \in Seq(Points)
      /\ Len(unsupported') = Len(plan')
      /\ ToSet(unsupported') = Reached(Len(plan))
  BY <1>1, <1>3, TargetsReached
<1>5. /\ DOMAIN runs' = {} /\ DOMAIN observations' = {} /\ Len(runs') = 0
      /\ ToSet(accepted') = {} /\ Len(accepted') = 0 /\ Len(observations') = 0
      /\ runs' = <<>> /\ pmReference' = -1 /\ stopped' = FALSE
      /\ complete' = FALSE /\ reason' = "resistance-rejected"
  BY <1>1, <1>2 DEF Fresh, ToSet
<1>6. TypeOK'
  BY <1>1, <1>2, <1>4 DEF IInv, TypeOK, Controls, States
<1>7. Decided' = Len(plan') /\ Reached(Len(plan))' = Reached(Len(plan))
  BY <1>1 DEF Decided, Reached
<1>8. EachPointOnce'
  <2>1. ToSet(accepted') \cup ToSet(unsupported') = Reached(Decided)'
    BY <1>1, <1>4, <1>5, <1>7
  <2>2. Len(accepted') + Len(unsupported') = Decided'
    BY <1>1, <1>3, <1>4, <1>5, <1>7
  <2> QED BY <2>1, <2>2, <1>5 DEF EachPointOnce
<1>9. NothingRunsAfterFault'
  BY <1>5 DEF NothingRunsAfterFault
<1>10. ClaimsTraceable'
  BY <1>5 DEF ClaimsTraceable
<1>11. PlanDistinct' /\ Phased' /\ StopTold' /\ MagnetAccepted'
  BY <1>1, <1>5 DEF IInv, PlanDistinct, Phased, StopTold, MagnetAccepted
<1> QED BY <1>6, <1>8, <1>9, <1>10, <1>11 DEF IInv

\* What recording a run keeps: who asked for it, what stops, and the order of
\* faults and skips.
LEMMA RecordKeeps ==
  ASSUME IInv, Remaining, NEW o, Record(o), plan' = plan, control' = control,
         reason' = reason,
         o.phase \in EndPhases \cup {"PROCESS_ERROR", "SKIPPED"},
         o.magnet \in BOOLEAN,
         o.magnet => o.phase = "COMPLETE",
         o.phase = "SKIPPED" <=> stopped,
         stopped' <=> (stopped \/ o.phase \in {"FAULT", "PROCESS_ERROR"})
  PROVE  /\ StopTold'
         /\ MagnetAccepted'
         /\ NothingRunsAfterFault'
         /\ \A i \in DOMAIN runs' :
              runs'[i].target = plan[i].target /\ runs'[i].role = plan[i].role
<1>0. PICK n : n = Len(runs)
  OBVIOUS
<1>1. /\ n \in Nat
      /\ DOMAIN runs = 1..n
      /\ DOMAIN runs' = 1..(n + 1)
      /\ \A i \in 1..n : runs'[i] = runs[i]
  BY <1>0, Recorded DEF IInv
<1>2. /\ runs'[n + 1].target = plan[n + 1].target
      /\ runs'[n + 1].role = plan[n + 1].role
      /\ runs'[n + 1].phase = o.phase
      /\ runs'[n + 1].magnet = o.magnet
  BY <1>0, Recorded DEF IInv, Current
<1>3. \A i \in DOMAIN runs' : i \in 1..n \/ i = n + 1
  BY <1>1
<1>4. \A i \in DOMAIN runs' :
        runs'[i].target = plan[i].target /\ runs'[i].role = plan[i].role
  <2>1. \A i \in 1..n : runs[i].target = plan[i].target /\ runs[i].role = plan[i].role
    BY <1>1 DEF IInv, EachPointOnce
  <2> QED BY <1>1, <1>2, <1>3, <2>1
<1>5. MagnetAccepted'
  <2>1. \A i \in 1..n : runs[i].magnet => runs[i].phase = "COMPLETE"
    BY <1>1 DEF IInv, MagnetAccepted
  <2> QED BY <1>1, <1>2, <1>3, <2>1 DEF MagnetAccepted
<1>6. \A i \in 1..n : Stopping(i)' <=> Stopping(i)
  BY <1>1 DEF Stopping
<1>7. Stopping(n + 1)' <=> o.phase \in {"FAULT", "PROCESS_ERROR"}
  BY <1>1, <1>2 DEF Stopping
<1>8. stopped <=> \E i \in 1..n : Stopping(i)
  BY <1>1 DEF IInv, StopTold
<1>9. StopTold'
  <2>1. (\E i \in DOMAIN runs' : Stopping(i)')
          <=> (\E i \in 1..n : Stopping(i)') \/ Stopping(n + 1)'
    BY <1>1, <1>3
  <2>2. (\E i \in 1..n : Stopping(i)') <=> stopped
    BY <1>6, <1>8
  <2> QED BY <2>1, <2>2, <1>7 DEF StopTold
<1>10. \A i \in DOMAIN runs' :
         runs'[i].phase = "SKIPPED" <=> \E j \in 1..(i - 1) : Stopping(j)'
  <2>1. ASSUME NEW i \in 1..n
        PROVE  runs'[i].phase = "SKIPPED" <=> \E j \in 1..(i - 1) : Stopping(j)'
    <3>1. \A j \in 1..(i - 1) : j \in 1..n
      BY <1>1
    <3>2. runs[i].phase = "SKIPPED" <=> \E j \in 1..(i - 1) : Stopping(j)
      BY <1>1 DEF IInv, NothingRunsAfterFault
    <3> QED BY <3>1, <3>2, <1>1, <1>6
  <2>2. runs'[n + 1].phase = "SKIPPED" <=> \E j \in 1..n : Stopping(j)'
    BY <1>1, <1>2, <1>6, <1>8
  <2>3. (n + 1) - 1 = n
    BY <1>1
  <2> QED BY <1>3, <2>1, <2>2, <2>3
<1>11. NothingRunsAfterFault'
  <2>1. control' # "returned"
    BY DEF Remaining
  <2> QED BY <1>10, <2>1 DEF NothingRunsAfterFault
<1> QED BY <1>4, <1>5, <1>9, <1>11

\* An answer that is not an acceptance.
LEMMA DropStep ==
  ASSUME IInv, NEW o, Drop(o)
  PROVE  IInv'
<1> DEFINE n == Len(runs)
           x == Current.target
<1>1. /\ Remaining /\ Record(o) /\ o.phase # "COMPLETE" /\ o.magnet = FALSE
      /\ o.phase \in EndPhases \cup {"PROCESS_ERROR", "SKIPPED"} /\ o.magnet \in BOOLEAN
      /\ unsupported' = Append(unsupported, x)
      /\ stopped' \in BOOLEAN
      /\ control = "points" /\ control' = control /\ plan' = plan
      /\ observations' = observations /\ accepted' = accepted
      /\ pmReference' = pmReference /\ state' = state /\ reason' = reason
      /\ complete' = complete
  BY DEF Drop, EndPhases, Remaining, IInv, TypeOK
<1>2. /\ StopTold' /\ MagnetAccepted' /\ NothingRunsAfterFault'
      /\ \A i \in DOMAIN runs' :
           runs'[i].target = plan[i].target /\ runs'[i].role = plan[i].role
  BY <1>1, RecordKeeps DEF Drop
<1>3. /\ Current \in Request
      /\ n \in Nat /\ n + 1 \in DOMAIN plan
      /\ DOMAIN runs = 1..n /\ DOMAIN runs' = 1..(n + 1)
      /\ runs' \in Seq(Entry) /\ Len(runs') = n + 1
      /\ \A i \in 1..n : runs'[i] = runs[i]
      /\ runs'[n + 1].phase = o.phase
      /\ runs'[n + 1].target = x
  <2>1. TypeOK
    BY DEF IInv
  <2> QED BY <1>1, <2>1, Recorded
<1>4. /\ x \in Points
      /\ x = plan[n + 1].target
      /\ x \notin ToSet(accepted)
  BY <1>1, <1>3, NextIsNew DEF Request, Current
<1> HIDE DEF n, x
<1>5. /\ unsupported \in Seq(Points) /\ accepted \in Seq(Points)
      /\ plan \in Seq(Request)
  BY DEF IInv, TypeOK
<1>6. /\ unsupported' \in Seq(Points)
      /\ Len(unsupported) \in Nat
      /\ Len(unsupported') = Len(unsupported) + 1
      /\ ToSet(unsupported') = ToSet(unsupported) \cup {x}
  BY <1>1, <1>4, <1>5, Appended, AppendedSet
<1>7. TypeOK'
  <2>1. Len(runs') <= Len(plan')
    BY <1>1, <1>3, <1>5
  <2> QED BY <1>1, <1>3, <1>6, <2>1 DEF IInv, TypeOK
<1>8. /\ Decided = n /\ Decided' = n + 1
      /\ Reached(Decided)' = Reached(n) \cup {x}
  <2>1. Decided = n /\ Decided' = n + 1
    BY <1>1, <1>3 DEF Decided, n
  <2>2. Reached(n + 1) = Reached(n) \cup {x}
    BY <1>3, <1>4, ReachedNext
  <2>3. Reached(Decided)' = Reached(n + 1)
    BY <2>1, <1>1 DEF Reached
  <2> QED BY <2>1, <2>2, <2>3
<1>9. EachPointOnce'
  <2>1. ToSet(accepted') \cup ToSet(unsupported') = Reached(Decided)'
    BY <1>1, <1>6, <1>8 DEF IInv, EachPointOnce
  <2>2. Len(accepted) \in Nat
    BY <1>5
  <2>5. Len(accepted) + Len(unsupported) = n
    BY <1>8 DEF IInv, EachPointOnce
  <2>6. accepted' = accepted
    BY <1>1
  <2>3. Len(accepted') + Len(unsupported') = Decided'
    BY <1>3, <1>6, <1>8, <2>2, <2>5, <2>6
  <2>4. \A i \in DOMAIN runs' :
          runs'[i].phase = "COMPLETE" <=> runs'[i].target \in ToSet(accepted')
    <3>1. \A i \in 1..n : runs[i].phase = "COMPLETE" <=> runs[i].target \in ToSet(accepted)
      BY <1>3 DEF IInv, EachPointOnce
    <3>2. \A i \in DOMAIN runs' : i \in 1..n \/ i = n + 1
      BY <1>3
    <3> QED BY <1>1, <1>3, <1>4, <3>1, <3>2
  <2> QED BY <1>1, <1>2, <2>1, <2>3, <2>4 DEF EachPointOnce
<1>10. ClaimsTraceable'
  <2>1. complete' = FALSE
    BY <1>1 DEF IInv, Phased
  <2>2. ASSUME NEW k \in Nat, k < n
        PROVE  k < n + 1 /\ runs'[k + 1] = runs[k + 1]
    BY <1>3, <2>2
  <2>3. Len(runs) = n
    BY DEF n
  <2>4. pmReference' # -1 =>
          /\ pmReference' < Len(runs')
          /\ runs'[pmReference' + 1].magnet
          /\ runs'[pmReference' + 1].target = Origin
    <3>1. pmReference # -1 => pmReference \in Nat /\ pmReference < n
      BY <2>3 DEF IInv, TypeOK, ClaimsTraceable
    <3> QED BY <1>1, <1>3, <2>2, <3>1 DEF IInv, ClaimsTraceable
  <2>5. \A k \in DOMAIN observations :
          /\ observations[k].source < Len(runs')
          /\ runs'[observations[k].source + 1] = runs[observations[k].source + 1]
    <3>1. \A k \in DOMAIN observations :
            observations[k].source \in Nat /\ observations[k].source < n
      BY <2>3, SourceEarlier
    <3> QED BY <1>3, <2>2, <3>1
  <2> QED BY <1>1, <2>1, <2>4, <2>5 DEF IInv, ClaimsTraceable
<1>11. PlanDistinct' /\ Phased'
  BY <1>1 DEF IInv, PlanDistinct, Phased
<1> QED BY <1>2, <1>7, <1>9, <1>10, <1>11 DEF IInv

\* An accepted point.
LEMMA AcceptStep ==
  ASSUME IInv, Remaining, NEW o \in Reports(Current.target), Accept(o)
  PROVE  IInv'
<1> DEFINE n == Len(runs)
           x == Current.target
           b == [target |-> x, role |-> Current.role, source |-> n]
<1>1. /\ Record(o) /\ o.phase = "COMPLETE" /\ stopped = FALSE
      /\ observations' = Append(observations, b)
      /\ accepted' = Append(accepted, x)
      /\ pmReference' = IF o.magnet THEN n ELSE pmReference
      /\ control = "points" /\ control' = control /\ plan' = plan
      /\ stopped' = stopped /\ unsupported' = unsupported
      /\ state' = state /\ reason' = reason /\ complete' = complete
  BY DEF Accept, Observed, Remaining, IInv, TypeOK
<1>2. /\ o.magnet \in BOOLEAN
      /\ o.magnet => x = Origin
  BY DEF Reports, FluxReports
<1>3. /\ StopTold' /\ MagnetAccepted' /\ NothingRunsAfterFault'
      /\ \A i \in DOMAIN runs' :
           runs'[i].target = plan[i].target /\ runs'[i].role = plan[i].role
  <2>1. /\ o.phase \in EndPhases \cup {"PROCESS_ERROR", "SKIPPED"}
        /\ o.magnet => o.phase = "COMPLETE"
        /\ o.phase = "SKIPPED" <=> stopped
        /\ stopped' <=> (stopped \/ o.phase \in {"FAULT", "PROCESS_ERROR"})
    BY <1>1 DEF EndPhases
  <2> QED BY <1>1, <1>2, <2>1, RecordKeeps
<1>4. /\ Current \in Request
      /\ n \in Nat /\ n + 1 \in DOMAIN plan
      /\ DOMAIN runs = 1..n /\ DOMAIN runs' = 1..(n + 1)
      /\ runs' \in Seq(Entry) /\ Len(runs') = n + 1
      /\ \A i \in 1..n : runs'[i] = runs[i]
      /\ runs'[n + 1].phase = "COMPLETE"
      /\ runs'[n + 1].magnet = o.magnet
      /\ runs'[n + 1].target = x
  <2>1. /\ TypeOK
        /\ o.phase \in EndPhases \cup {"PROCESS_ERROR", "SKIPPED"}
    BY <1>1 DEF IInv, EndPhases
  <2> QED BY <1>1, <1>2, <2>1, Recorded
<1>5. /\ x \in Points /\ Current.role \in Roles
      /\ x = plan[n + 1].target /\ Current.role = plan[n + 1].role
      /\ x \notin Reached(n)
  BY <1>4, NextIsNew DEF Request, Current
<1>6. /\ b \in [target : Points, role : Roles, source : Nat]
      /\ b.target = x /\ b.role = plan[n + 1].role /\ b.source = n
  BY <1>4, <1>5
<1>7. Len(runs) = n
  OBVIOUS
<1> HIDE DEF n, x, b
<1>8. /\ accepted \in Seq(Points) /\ unsupported \in Seq(Points)
      /\ plan \in Seq(Request)
      /\ observations \in Seq([target : Points, role : Roles, source : Nat])
  BY DEF IInv, TypeOK
<1>9. /\ accepted' \in Seq(Points)
      /\ Len(accepted) \in Nat
      /\ Len(accepted') = Len(accepted) + 1
      /\ \A k \in 1..Len(accepted) : accepted'[k] = accepted[k]
      /\ accepted'[Len(accepted) + 1] = x
      /\ ToSet(accepted') = ToSet(accepted) \cup {x}
  BY <1>1, <1>5, <1>8, Appended, AppendedSet
<1>10. /\ observations' \in Seq([target : Points, role : Roles, source : Nat])
       /\ Len(observations) \in Nat
       /\ DOMAIN observations = 1..Len(observations)
       /\ Len(observations') = Len(observations) + 1
       /\ DOMAIN observations' = 1..(Len(observations) + 1)
       /\ \A k \in 1..Len(observations) : observations'[k] = observations[k]
       /\ observations'[Len(observations) + 1] = b
  BY <1>1, <1>6, <1>8, Appended
<1>11. pmReference' \in Nat \cup {-1}
  BY <1>1, <1>2, <1>4 DEF IInv, TypeOK
<1>12. TypeOK'
  <2>1. Len(runs') <= Len(plan')
    BY <1>1, <1>4, <1>8
  <2> QED BY <1>1, <1>4, <1>9, <1>10, <1>11, <2>1 DEF IInv, TypeOK
<1>13. /\ Decided = n /\ Decided' = n + 1
       /\ Reached(Decided)' = Reached(n) \cup {x}
  <2>1. Decided = n /\ Decided' = n + 1
    BY <1>1, <1>4, <1>7 DEF Decided
  <2>2. Reached(n + 1) = Reached(n) \cup {x}
    BY <1>4, <1>5, ReachedNext
  <2>3. Reached(Decided)' = Reached(n + 1)
    BY <2>1, <1>1 DEF Reached
  <2> QED BY <2>1, <2>2, <2>3
<1>14. EachPointOnce'
  <2>1. ToSet(accepted') \cup ToSet(unsupported') = Reached(Decided)'
    BY <1>1, <1>9, <1>13 DEF IInv, EachPointOnce
  <2>2. Len(unsupported) \in Nat
    BY <1>8
  <2>3. Len(accepted') + Len(unsupported') = Decided'
    BY <1>1, <1>4, <1>9, <1>13, <2>2 DEF IInv, EachPointOnce
  <2>4. \A i \in 1..n : runs[i].phase = "COMPLETE" <=> runs[i].target \in ToSet(accepted)
    BY <1>4 DEF IInv, EachPointOnce
  <2>5. \A i \in 1..n : runs[i].target # x
    <3>1. \A i \in 1..n : runs[i].target = plan[i].target
      BY <1>4 DEF IInv, EachPointOnce
    <3> QED BY <3>1, <1>5 DEF Reached
  <2>6. \A i \in DOMAIN runs' : i \in 1..n \/ i = n + 1
    BY <1>4
  <2>7. \A i \in DOMAIN runs' :
          runs'[i].phase = "COMPLETE" <=> runs'[i].target \in ToSet(accepted')
    BY <1>4, <1>9, <2>4, <2>5, <2>6
  <2> QED BY <1>1, <1>3, <2>1, <2>3, <2>7 DEF EachPointOnce
<1>15. ClaimsTraceable'
  <2>1. complete' = FALSE
    BY <1>1 DEF IInv, Phased
  <2>2. Len(observations') = Len(accepted')
    BY <1>9, <1>10 DEF IInv, ClaimsTraceable
  <2>3. Len(observations) = Len(accepted)
    BY DEF IInv, ClaimsTraceable
  <2>4. ASSUME NEW k \in Nat, k < n
        PROVE  k < n + 1 /\ runs'[k + 1] = runs[k + 1]
    BY <1>4, <2>4
  <2>5. n < n + 1
    BY <1>4
  <2>6. pmReference' # -1 =>
          /\ pmReference' < Len(runs')
          /\ runs'[pmReference' + 1].magnet
          /\ runs'[pmReference' + 1].target = Origin
    <3>1. pmReference # -1 => pmReference \in Nat /\ pmReference < n
      BY <1>7 DEF IInv, TypeOK, ClaimsTraceable
    <3>2. CASE o.magnet
      BY <3>2, <1>1, <1>2, <1>4, <2>5
    <3>3. CASE ~o.magnet
      BY <3>3, <1>1, <1>4, <2>4, <3>1 DEF IInv, ClaimsTraceable
    <3> QED BY <3>2, <3>3
  <2>7. ASSUME NEW k \in DOMAIN observations'
        PROVE  /\ observations'[k].source < Len(runs')
               /\ runs'[observations'[k].source + 1].phase = "COMPLETE"
               /\ runs'[observations'[k].source + 1].target = observations'[k].target
               /\ plan'[observations'[k].source + 1].role = observations'[k].role
               /\ accepted'[k] = observations'[k].target
    <3>1. CASE k = Len(observations) + 1
      <4>1. observations'[k] = b /\ accepted'[k] = x
        BY <3>1, <1>9, <1>10, <2>3
      <4> QED BY <4>1, <1>1, <1>4, <1>6, <2>5
    <3>2. CASE k # Len(observations) + 1
      <4>1. k \in DOMAIN observations
        BY <3>2, <1>10
      <4>2. observations'[k] = observations[k] /\ accepted'[k] = accepted[k]
        BY <4>1, <1>9, <1>10, <2>3
      <4>3. observations[k].source \in Nat /\ observations[k].source < n
        BY <4>1, <1>7, SourceEarlier
      <4>4. /\ observations[k].source < Len(runs')
            /\ runs'[observations[k].source + 1] = runs[observations[k].source + 1]
        BY <4>3, <1>4, <2>4
      <4>5. /\ runs[observations[k].source + 1].phase = "COMPLETE"
            /\ runs[observations[k].source + 1].target = observations[k].target
            /\ plan[observations[k].source + 1].role = observations[k].role
            /\ accepted[k] = observations[k].target
        BY <4>1 DEF IInv, ClaimsTraceable
      <4> QED BY <4>2, <4>4, <4>5, <1>1
    <3> QED BY <3>1, <3>2
  <2> QED BY <2>1, <2>2, <2>6, <2>7 DEF ClaimsTraceable
<1>16. PlanDistinct' /\ Phased'
  BY <1>1 DEF IInv, PlanDistinct, Phased
<1> QED BY <1>3, <1>12, <1>14, <1>15, <1>16 DEF IInv

\* The report is closed over an unchanged list of runs.
LEMMA FinishStep ==
  ASSUME IInv, Finish
  PROVE  IInv'
<1>1. /\ control = "points" /\ control' = "returned" /\ Len(runs) = Len(plan)
      /\ complete' = (unsupported = <<>> /\ pmReference # -1)
      /\ plan' = plan /\ stopped' = stopped /\ runs' = runs
      /\ observations' = observations /\ accepted' = accepted
      /\ unsupported' = unsupported /\ pmReference' = pmReference
  BY DEF Finish, Completion
<1>2. /\ state' = IF stopped THEN "fault" ELSE IF complete' THEN "complete" ELSE "degraded"
      /\ reason' \in {"point-fault", "accepted-requested-coverage",
                      "incomplete-coverage-or-missing-pm-reference"}
  BY DEF Finish
<1>3. stopped \in BOOLEAN /\ complete' \in BOOLEAN
  BY <1>1 DEF IInv, TypeOK
<1>4. TypeOK'
  <2>1. state' \in States
    BY <1>2, <1>3 DEF States
  <2>2. reason' \in Explanations
    BY <1>2 DEF Explanations
  <2> QED BY <1>1, <1>3, <2>1, <2>2 DEF IInv, TypeOK, Controls
<1>5. Decided' = Decided
  BY <1>1 DEF Decided
<1>6. EachPointOnce'
  BY <1>1, <1>5 DEF IInv, EachPointOnce, Reached
<1>7. (\E i \in DOMAIN runs : Stopping(i)') <=> \E i \in DOMAIN runs : Stopping(i)
  BY <1>1 DEF Stopping
<1>8. NothingRunsAfterFault'
  <2>1. state' = "fault" <=> stopped
    BY <1>2, <1>3
  <2>2. stopped <=> \E i \in DOMAIN runs' : Stopping(i)'
    BY <1>1, <1>7 DEF IInv, StopTold
  <2>3. \A i \in DOMAIN runs' :
          runs'[i].phase = "SKIPPED" <=> \E j \in 1..(i - 1) : Stopping(j)'
    BY <1>1 DEF IInv, NothingRunsAfterFault, Stopping
  <2> QED BY <2>1, <2>2, <2>3 DEF NothingRunsAfterFault
<1>9. complete' =>
        /\ state' = "complete"
        /\ ToSet(accepted') = Reached(Len(plan))'
        /\ Origin \in ToSet(accepted')
  <2> SUFFICES ASSUME complete'
               PROVE  /\ state' = "complete"
                      /\ ToSet(accepted') = Reached(Len(plan))'
                      /\ Origin \in ToSet(accepted')
    OBVIOUS
  <2>1. unsupported = <<>> /\ pmReference # -1
    BY <1>1
  <2>2. ToSet(unsupported) = {}
    BY <2>1 DEF ToSet
  <2>3. ToSet(accepted) = Reached(Len(plan))
    BY <1>1, <2>2 DEF IInv, EachPointOnce, Decided
  <2>4. DOMAIN runs = 1..Len(plan)
    BY <1>1 DEF IInv, TypeOK
  <2>5. \A i \in DOMAIN runs : runs[i].phase = "COMPLETE"
    BY <2>3, <2>4 DEF IInv, EachPointOnce, Reached
  <2>6. ~stopped
    BY <2>5 DEF IInv, StopTold, Stopping
  <2>7. Origin \in ToSet(accepted)
    <3>1. pmReference \in Nat /\ pmReference < Len(runs) /\ Len(runs) \in Nat
          /\ DOMAIN runs = 1..Len(runs)
      BY <2>1 DEF IInv, TypeOK, ClaimsTraceable
    <3>2. pmReference + 1 \in DOMAIN runs
      BY <3>1
    <3>3. runs[pmReference + 1].target = Origin
      BY <2>1 DEF IInv, ClaimsTraceable
    <3> QED BY <2>5, <3>2, <3>3 DEF IInv, EachPointOnce
  <2>8. Reached(Len(plan))' = Reached(Len(plan))
    BY <1>1 DEF Reached
  <2> QED BY <1>1, <1>2, <2>3, <2>6, <2>7, <2>8
<1>10. ClaimsTraceable'
  BY <1>1, <1>9 DEF IInv, ClaimsTraceable
<1>11. PlanDistinct' /\ Phased' /\ StopTold' /\ MagnetAccepted'
  <2>1. reason' # "resistance-rejected"
    BY <1>2
  <2> QED BY <1>1, <1>7, <2>1 DEF IInv, PlanDistinct, Phased, StopTold, MagnetAccepted
<1> QED BY <1>4, <1>6, <1>8, <1>10, <1>11 DEF IInv

\* A step that changes nothing.
LEMMA StutterStep ==
  ASSUME IInv, UNCHANGED vars
  PROVE  IInv'
<1>1. /\ control' = control /\ plan' = plan /\ runs' = runs /\ observations' = observations
      /\ accepted' = accepted /\ unsupported' = unsupported /\ pmReference' = pmReference
      /\ stopped' = stopped /\ state' = state /\ reason' = reason /\ complete' = complete
  BY DEF vars, report
<1>2. Decided' = Decided
  BY <1>1 DEF Decided
<1>3. EachPointOnce'
  BY <1>1, <1>2 DEF IInv, EachPointOnce, Reached
<1>4. ClaimsTraceable'
  BY <1>1 DEF IInv, ClaimsTraceable, Reached
<1>5. NothingRunsAfterFault' /\ StopTold'
  BY <1>1 DEF IInv, NothingRunsAfterFault, StopTold, Stopping
<1>6. TypeOK' /\ PlanDistinct' /\ Phased' /\ MagnetAccepted'
  BY <1>1 DEF IInv, TypeOK, PlanDistinct, Phased, MagnetAccepted, Fresh
<1> QED BY <1>3, <1>4, <1>5, <1>6 DEF IInv

\* Every step of the loop that does not accept is a Drop.
LEMMA Drops ==
  ASSUME IInv,
         Skip \/ Fail \/ (Remaining /\ \E o \in Reports(Current.target) : Reject(o))
  PROVE  \E o : Drop(o)
<1>1. stopped \in BOOLEAN
  BY DEF IInv, TypeOK
<1>2. CASE Skip
  <2>1. Drop(Skipped)
    BY <1>1, <1>2 DEF Skip, Drop, Skipped
  <2> QED BY <2>1
<1>3. CASE Fail
  <2>1. Drop(ProcessError)
    BY <1>1, <1>3 DEF Fail, Drop, ProcessError
  <2> QED BY <2>1
<1>4. CASE Remaining /\ \E o \in Reports(Current.target) : Reject(o)
  <2>1. PICK o \in Reports(Current.target) : Reject(o)
    BY <1>4
  <2>2. o.phase \in {"DEGRADED", "FAULT"} /\ o.magnet = FALSE
    BY <2>1 DEF Reports, FluxReports, Reject, EndPhases
  <2>3. stopped' = (stopped \/ o.phase \in {"FAULT", "PROCESS_ERROR"})
    BY <1>1, <2>1, <2>2 DEF Reject
  <2>4. Drop(o)
    BY <1>1, <2>1, <2>2, <2>3 DEF Reject, Drop
  <2> QED BY <2>4
<1> QED BY <1>2, <1>3, <1>4

\* The inductive invariant of the campaign.
THEOREM Invariance == Spec => []IInv
<1>1. Init => IInv
  BY Initially
<1>2. IInv /\ [Next]_vars => IInv'
  <2> SUFFICES ASSUME IInv, [Next]_vars PROVE IInv'
    OBVIOUS
  <2>1. CASE UNCHANGED vars
    BY <2>1, StutterStep
  <2>2. CASE \E requests \in Calls, allowed \in BOOLEAN : Submit(requests, allowed)
    BY <2>2, SubmitStep
  <2>3. CASE ResistanceRaises \/ ResistanceAccepted \/ Unreadable
    <3>1. /\ control # "returned" /\ control' \in {"points", "raised"}
          /\ UNCHANGED <<plan, stopped, report>>
      BY <2>3 DEF ResistanceRaises, ResistanceAccepted, Unreadable, Remaining
    <3> QED BY <3>1, MoveStep
  <2>4. CASE \E phase \in {"DEGRADED", "FAULT"} : ResistanceRejected(phase)
    BY <2>4, ResistanceRejectedStep
  <2>5. CASE Skip \/ Fail \/ (Remaining /\ \E o \in Reports(Current.target) : Reject(o))
    BY <2>5, Drops, DropStep
  <2>6. CASE Remaining /\ \E o \in Reports(Current.target) : Accept(o)
    BY <2>6, AcceptStep
  <2>7. CASE Finish
    BY <2>7, FinishStep
  <2> QED BY <2>1, <2>2, <2>3, <2>4, <2>5, <2>6, <2>7 DEF Next
<1> QED BY <1>1, <1>2, PTL DEF Spec

\* The report of the campaign holds values of its types, for at most MaxPoints
\* requests.
THEOREM TypeCorrect == Spec => []TypeOK
<1>1. IInv => TypeOK
  BY DEF IInv
<1> QED BY <1>1, Invariance, PTL

\* Every request is answered once, in order, and listed as accepted exactly when
\* its own run was.
THEOREM EveryPointAnswered == Spec => []EachPointOnce
<1>1. IInv => EachPointOnce
  BY DEF IInv
<1> QED BY <1>1, Invariance, PTL

\* No experiment follows a fault or a failed process.
THEOREM FaultEndsExperiments == Spec => []NothingRunsAfterFault
<1>1. IInv => NothingRunsAfterFault
  BY DEF IInv
<1> QED BY <1>1, Invariance, PTL

\* Observations, the magnet's flux and a complete campaign rest on accepted runs.
THEOREM ClaimsRestOnRuns == Spec => []ClaimsTraceable
<1>1. IInv => ClaimsTraceable
  BY DEF IInv
<1> QED BY <1>1, Invariance, PTL
=============================================================================
