--------------------------- MODULE CurrentProofs ----------------------------
(***************************************************************************)
(* The current loop: the model-aware controller is correct for every set   *)
(* of configurations and inputs, and the offline design of its gains keeps *)
(* every budget it is given and is the largest that does, for all requests *)
(* and maps.                                                               *)
(*                                                                         *)
(* The step from checked to proved is, for the design, a lemma on each     *)
(* cap: a bandwidth keeps a budget exactly when it is at most the cap.     *)
(* What is left is that the least of some fractions is one of them and at  *)
(* most each.                                                              *)
(***************************************************************************)
EXTENDS CurrentControl, CurrentTuning, FiniteSetTheorems, TLAPS


-----------------------------------------------------------------------------
(* The controller: the arithmetic of one axis.                             *)

\* A clipped value is inside a nonnegative limit.
LEMMA ClipWithin ==
  ASSUME NEW x \in Int, NEW limit \in Nat
  PROVE  Clip(x, limit) \in -limit..limit
BY DEF Clip

\* The command and the next integral fit the bus of the step.
LEMMA ArithmeticWithin ==
  ASSUME NEW c \in Configs, NEW law \in Laws, NEW in \in Inputs, NEW i \in Int
  PROVE  /\ Limited(c, law, in, i) \in -in.bus..in.bus
         /\ NextIntegral(c, law, in, i) \in -in.bus..in.bus
<1>1. /\ c.gains[law].kp \in Int /\ c.gains[law].ki \in Int
      /\ c.kaw \in Int
  BY ControlConfigs DEF ConfigType, Gains
<1>2. in.error \in Int /\ in.emf[law] \in Int /\ in.bus \in Nat
  BY ControlInputs DEF InputType
<1>3. Raw(c, law, in, i) \in Int
  BY <1>1, <1>2 DEF Raw
<1>4. Limited(c, law, in, i) \in -in.bus..in.bus
  BY <1>2, <1>3, ClipWithin DEF Limited
<1>5. Limited(c, law, in, i) \in Int
  BY <1>2, <1>4
<1>6. c.gains[law].ki * in.error \in Int
  BY <1>1, <1>2
<1>7. c.kaw * (Limited(c, law, in, i) - Raw(c, law, in, i)) \in Int
  BY <1>1, <1>3, <1>5
<1>8. Integrated(c, law, in, i) \in Int
  BY <1>6, <1>7 DEF Integrated
<1>9. QED
  BY <1>2, <1>4, <1>8, ClipWithin DEF NextIntegral

-----------------------------------------------------------------------------
(* What a run of the kernel leaves.                                        *)

\* The state and output after the kernel ran one law on a typed integral.
Ran(c, law, in, built) ==
  /\ faulted' \in BOOLEAN
  /\ integral' \in Int
  /\ duty' \in Duties
  /\ returned' \in Results
  /\ duty'.enabled <=> ~faulted'
  /\ duty'.enabled <=> returned' = "OK"
  /\ duty'.enabled <=> Verdict(c, law, in) = "OK"
  /\ duty'.enabled =>
       duty'.voltage \in -in.bus..in.bus /\ integral' \in -in.bus..in.bus
  /\ built \in {"none", law} => origin' \in {"none", law}

LEMMA RunLeaves ==
  ASSUME NEW c \in Configs, NEW law \in Laws, NEW in \in Inputs,
         NEW i \in Int, NEW built, Run(c, law, in, i, built)
  PROVE  Ran(c, law, in, built)
<1>1. in.bus \in Nat
  BY ControlInputs DEF InputType
<1>2. CASE Verdict(c, law, in) = "OK"
  <2>1. /\ duty' = [enabled |-> TRUE, voltage |-> Limited(c, law, in, i)]
        /\ integral' = NextIntegral(c, law, in, i)
        /\ origin' = IF built \in {"none", law} THEN law ELSE "both"
        /\ returned' = "OK" /\ faulted' = FALSE
    BY <1>2 DEF Run
  <2>2. /\ Limited(c, law, in, i) \in -in.bus..in.bus
        /\ NextIntegral(c, law, in, i) \in -in.bus..in.bus
    BY ArithmeticWithin
  <2>3. duty' \in Duties /\ integral' \in Int
    BY <1>1, <2>1, <2>2 DEF Duties
  <2>4. duty'.enabled = TRUE /\ duty'.voltage = Limited(c, law, in, i)
    BY <2>1
  <2>5. origin' \in {"none", law} \/ built \notin {"none", law}
    BY <2>1
  <2>6. QED
    BY <1>2, <2>1, <2>2, <2>3, <2>4, <2>5 DEF Ran, Results
<1>3. CASE Verdict(c, law, in) # "OK"
  <2>1. /\ Fault(Verdict(c, law, in)) /\ integral' = i /\ origin' = built
    BY <1>3 DEF Run
  <2>2. Verdict(c, law, in) \in Results
    BY DEF Verdict, Results
  <2>3. QED
    BY <1>3, <2>1, <2>2 DEF Ran, Fault, Disabled, Duties
<1>4. QED
  BY <1>2, <1>3

-----------------------------------------------------------------------------
(* The inductive invariant.                                                *)

\* Only the law in force has built the integral.
OriginFollowsLaw ==
  /\ ~fallback => origin \in {"none", "map"}
  /\ fallback => origin \in {"none", "nominal"}

IInv ==
  /\ TypeOK
  /\ DriveOrFault
  /\ OriginFollowsLaw
  /\ FailureExplained
  /\ WithinBus
  /\ PolicyHonoured

LEMMA InitInv ==
  ASSUME Init
  PROVE  IInv
<1>1. TypeOK
  <2>1. duty \in Duties /\ modelFailure \in LookupStatus
    BY DEF Init, Duties, Disabled, LookupStatus
  <2>2. integral \in Int
    BY DEF Init
  <2>3. faulted \in BOOLEAN /\ fallback \in BOOLEAN
    BY DEF Init
  <2>4. QED
    BY <2>1, <2>2, <2>3 DEF Init, TypeOK
<1>2. ~Stepped
  BY DEF Init, Stepped
<1>3. OriginFollowsLaw /\ FailureExplained
  BY DEF Init, OriginFollowsLaw, FailureExplained
<1>4. QED
  BY <1>1, <1>2, <1>3 DEF IInv, DriveOrFault, WithinBus, PolicyHonoured

\* What a step shows of its caller, once inputs have their type.
LEMMA ShownFields ==
  ASSUME NEW c \in Configs, NEW in \in Inputs
  PROVE  /\ Shown(c, in).bus = in.bus
         /\ Shown(c, in).policy = c.policy
         /\ in.bus \in Nat \ {0}
         /\ Shown(c, in) # NoStep
         /\ in.lookup \in LookupStatus
         /\ c.policy \in Policies
<1>1. in.bus \in Nat \ {0} /\ in.lookup \in LookupStatus
  BY ControlInputs DEF InputType
<1>2. c.policy \in Policies
  BY ControlConfigs DEF ConfigType
<1>3. QED
  BY <1>1, <1>2 DEF Shown, NoStep

\* A lookup is asked, and can be rejected, only past the measurement guards.
LEMMA RejectedMeans ==
  ASSUME NEW c, NEW in, Rejected(c, in)
  PROVE  in.sensed \notin {"MALFORMED", "BEYOND", "WILD_REFERENCE"} /\ in.lookup # "OK"
BY DEF Rejected, Verdict

\* Every kind of step keeps the invariant.
LEMMA StepInv ==
  ASSUME IInv, NEW c \in Configs, NEW in \in Inputs, Step(c, in)
  PROVE  IInv'
<1> USE DEF TypeOK, DriveOrFault, OriginFollowsLaw, FailureExplained,
            WithinBus, PolicyHonoured, Stepped
<1>s. /\ Shown(c, in).bus = in.bus
      /\ Shown(c, in).policy = c.policy
      /\ in.bus \in Nat \ {0}
      /\ Shown(c, in) # NoStep
      /\ in.lookup \in LookupStatus
      /\ c.policy \in Policies
  BY ShownFields
<1>d. Disabled \in Duties /\ ~Disabled.enabled
  BY DEF Disabled, Duties
<1>1. CASE Refuse(c, in)
  BY <1>1, <1>s, <1>d DEF IInv, Refuse, Results
<1>2. CASE StopCall(c, in)
  BY <1>2, <1>s, <1>d DEF IInv, StopCall, Fault, Results
<1>3. CASE NominalStep(c, in)
  <2>1. Ran(c, "nominal", in, origin)
    BY <1>3, RunLeaves DEF IInv, NominalStep, Laws
  <2>2. c.policy = "NOMINAL_FALLBACK"
    BY <1>3, <1>s DEF NominalStep, Usable, PolicyForbids, Policies
  <2>3. QED
    BY <1>3, <1>s, <2>1, <2>2 DEF IInv, NominalStep, Usable, Ran
<1>4. CASE MappedStep(c, in)
  <2>1. Ran(c, "map", in, origin)
    BY <1>4, RunLeaves DEF IInv, MappedStep, Laws
  <2>2. QED
    BY <1>4, <1>s, <2>1 DEF IInv, MappedStep, Usable, Ran
<1>5. CASE RejectStop(c, in)
  BY <1>5, <1>s, <1>d DEF IInv, RejectStop, Fault, Results
<1>6. CASE FallBack(c, in)
  <2>1. Ran(c, "nominal", in, "none")
    BY <1>6, RunLeaves DEF FallBack, Laws
  <2>2. in.lookup # "OK"
    BY <1>6, RejectedMeans DEF FallBack
  <2>3. QED
    BY <1>6, <1>s, <2>1, <2>2 DEF IInv, FallBack, Ran
<1>7. QED
  BY <1>1, <1>2, <1>3, <1>4, <1>5, <1>6 DEF Step

LEMMA NextInv ==
  ASSUME IInv, [Next]_vars
  PROVE  IInv'
<1> USE DEF IInv, TypeOK, DriveOrFault, OriginFollowsLaw, FailureExplained,
            WithinBus, PolicyHonoured, Stepped
<1>1. CASE Reset
  <2>1. ~Stepped'
    BY <1>1 DEF Reset
  <2>2. modelFailure' \in LookupStatus
    BY <1>1 DEF Reset, LookupStatus
  <2>3. integral' \in Int
    BY <1>1 DEF Reset
  <2>4. faulted' \in BOOLEAN /\ fallback' \in BOOLEAN
    BY <1>1 DEF Reset
  <2>5. QED
    BY <1>1, <2>1, <2>2, <2>3, <2>4 DEF Reset
<1>2. ASSUME NEW c \in Configs, NEW in \in Inputs, Step(c, in) PROVE IInv'
  BY <1>2, StepInv
<1>3. CASE UNCHANGED vars
  BY <1>3 DEF vars
<1>4. QED
  BY <1>1, <1>2, <1>3 DEF Next

THEOREM Invariance == Spec => []IInv
<1>1. Init => IInv
  BY InitInv
<1>2. IInv /\ [Next]_vars => IInv'
  BY NextInv
<1>3. QED
  BY <1>1, <1>2, PTL DEF Spec

-----------------------------------------------------------------------------
(* The properties.                                                         *)

\* Every value the controller keeps or returns has its type; in particular no
\* lookup failure is ever recorded that is not a code of the map.
THEOREM TypeCorrect == Spec => []TypeOK
<1>1. IInv => TypeOK
  BY DEF IInv
<1>2. QED
  BY <1>1, Invariance, PTL

\* For all gains, inputs and policies a step drives the bridge and returns OK,
\* or leaves the fault latched and the output disabled.
THEOREM AlwaysDrivesOrFaults == Spec => []DriveOrFault
<1>1. IInv => DriveOrFault
  BY DEF IInv
<1>2. QED
  BY <1>1, Invariance, PTL

\* The integral never carries over from one control law to the other.
THEOREM NeverMixed == Spec => []LawsNeverMix
<1>1. IInv => LawsNeverMix
  BY DEF IInv, OriginFollowsLaw, LawsNeverMix
<1>2. QED
  BY <1>1, Invariance, PTL

\* A recorded lookup failure means fallback or a fault, and fallback means a
\* recorded failure.
THEOREM AlwaysExplained == Spec => []FailureExplained
<1>1. IInv => FailureExplained
  BY DEF IInv
<1>2. QED
  BY <1>1, Invariance, PTL

\* For all gains and errors the driven voltage and the integral fit the bus.
THEOREM AlwaysWithinBus == Spec => []WithinBus
<1>1. IInv => WithinBus
  BY DEF IInv
<1>2. QED
  BY <1>1, Invariance, PTL

\* Fallback never drives for a caller that now asks for disablement.
THEOREM PolicyAlwaysHonoured == Spec => []PolicyHonoured
<1>1. IInv => PolicyHonoured
  BY DEF IInv
<1>2. QED
  BY <1>1, Invariance, PTL

\* Fallback begins only on a rejected lookup of a good measurement.
THEOREM OnlyLookupsFallBack == Spec => FallbackOnlyByLookup
<1> DEFINE Entry ==
      ~fallback /\ fallback' =>
         /\ last'.sensed = "GOOD"
         /\ last'.lookup # "OK"
         /\ last'.policy = "NOMINAL_FALLBACK"
<1>1. ASSUME NEW c \in Configs, NEW in \in Inputs, FallBack(c, in) PROVE Entry
  <2>1. in.sensed \in {"GOOD", "MALFORMED", "BEYOND", "WILD_REFERENCE"}
    BY ControlInputs DEF InputType
  <2>2. in.sensed = "GOOD" /\ in.lookup # "OK"
    BY <1>1, <2>1, RejectedMeans DEF FallBack
  <2>3. QED
    BY <1>1, <2>2 DEF FallBack, Shown
<1>2. ASSUME NEW c \in Configs, NEW in \in Inputs, Step(c, in) PROVE Entry
  BY <1>1, <1>2 DEF Step, Refuse, StopCall, NominalStep, MappedStep, RejectStop
<1>3. [Next]_vars => [Entry]_vars
  BY <1>2 DEF Next, Reset, vars
<1>4. QED
  BY <1>3, PTL DEF Spec, FallbackOnlyByLookup

\* Between two resets the fault, the fallback and the recorded failure hold.
THEOREM LatchesAlwaysHold == Spec => LatchesHold
<1> DEFINE Held ==
      last' # NoStep =>
         /\ faulted => faulted'
         /\ fallback => fallback'
         /\ modelFailure # "OK" => modelFailure' = modelFailure
<1>1. ASSUME IInv, NEW c \in Configs, NEW in \in Inputs, Step(c, in) PROVE Held
  <2>1. CASE Refuse(c, in)
    BY <2>1 DEF Refuse
  <2>2. CASE ~Refuse(c, in)
    \* All other steps need an unfaulted state; those that record a failure
    \* need one without fallback, where none is recorded yet.
    BY <1>1, <2>2 DEF Step, IInv, FailureExplained, StopCall, NominalStep,
       MappedStep, RejectStop, FallBack, Usable
  <2>3. QED
    BY <2>1, <2>2
<1>2. IInv /\ [Next]_vars => [Held]_vars
  BY <1>1 DEF Next, Reset, vars
<1>3. QED
  BY <1>2, Invariance, PTL DEF Spec, LatchesHold

Positive == [num : Int, den : Nat \ {0}]

-----------------------------------------------------------------------------
(* The design: the order of fractions with a positive denominator.         *)

\* A common positive factor does not matter.
LEMMA Cancel ==
  ASSUME NEW a \in Int, NEW b \in Int, NEW k \in Nat \ {0}, k * a <= k * b
  PROVE  a <= b
<1>1. ASSUME a > b PROVE FALSE
  <2>1. k * (a - b) > 0
    BY <1>1
  <2>2. k * (a - b) = k * a - k * b
    OBVIOUS
  <2> QED BY <2>1, <2>2
<1> QED BY <1>1

\* A positive factor keeps an inequality.
LEMMA Scale ==
  ASSUME NEW a \in Int, NEW b \in Int, NEW k \in Nat, a <= b
  PROVE  k * a <= k * b
<1>1. k * (b - a) >= 0
  OBVIOUS
<1>2. k * (b - a) = k * b - k * a
  OBVIOUS
<1> QED BY <1>1, <1>2

LEMMA Transitive ==
  ASSUME NEW x \in Positive, NEW y \in Positive, NEW z \in Positive,
         AtMost(x, y), AtMost(y, z)
  PROVE  AtMost(x, z)
<1> DEFINE a == x.num
           b == x.den
           c == y.num
           d == y.den
           e == z.num
           f == z.den
<1>1. /\ a \in Int /\ c \in Int /\ e \in Int
      /\ b \in Nat \ {0} /\ d \in Nat \ {0} /\ f \in Nat \ {0}
      /\ a * d <= c * b /\ c * f <= e * d
  BY DEF Positive, AtMost
<1> HIDE DEF a, b, c, d, e, f
<1>2. f * (a * d) <= f * (c * b)
  <2>1. a * d \in Int /\ c * b \in Int
    BY <1>1
  <2> QED BY <1>1, <2>1, Scale
<1>3. b * (c * f) <= b * (e * d)
  <2>1. c * f \in Int /\ e * d \in Int
    BY <1>1
  <2> QED BY <1>1, <2>1, Scale
<1>4. f * (a * d) = d * (a * f) /\ f * (c * b) = b * (c * f) /\ b * (e * d) = d * (e * b)
  BY <1>1
<1>5. a * f \in Int /\ e * b \in Int
  BY <1>1
<1>6. d * (a * f) <= d * (e * b)
  BY <1>1, <1>2, <1>3, <1>4, <1>5
<1>7. a * f <= e * b
  BY <1>1, <1>5, <1>6, Cancel
<1> QED BY <1>7 DEF AtMost, a, b, e, f

LEMMA Total ==
  ASSUME NEW x \in Positive, NEW y \in Positive
  PROVE  AtMost(x, x) /\ (AtMost(x, y) \/ AtMost(y, x))
<1>1. x.num \in Int /\ x.den \in Nat /\ y.num \in Int /\ y.den \in Nat
  BY DEF Positive
<1>2. x.num * y.den \in Int /\ y.num * x.den \in Int /\ x.num * x.den \in Int
  BY <1>1
<1> QED BY <1>2 DEF AtMost

\* The lesser of two is one of them, and at most both and what they are.
LEMMA LeastIsLower ==
  ASSUME NEW x \in Positive, NEW y \in Positive
  PROVE  /\ Least(x, y) \in {x, y} /\ Least(x, y) \in Positive
         /\ AtMost(Least(x, y), x) /\ AtMost(Least(x, y), y)
         /\ \A z \in Positive : AtMost(z, Least(x, y)) <=> AtMost(z, x) /\ AtMost(z, y)
<1>1. Least(x, y) \in {x, y} /\ AtMost(Least(x, y), x) /\ AtMost(Least(x, y), y)
  BY Total DEF Least
<1>2. ASSUME NEW z \in Positive
      PROVE  AtMost(z, Least(x, y)) <=> AtMost(z, x) /\ AtMost(z, y)
  BY <1>1, <1>2, Transitive
<1> QED BY <1>1, <1>2

-----------------------------------------------------------------------------
(* Requests that reach the caps.                                           *)

Ready(r) ==
  /\ r \in Requests /\ Valid(r) /\ r.current \in DOMAIN Map /\ Headroom(r) > 0

LEMMA HeadroomType == ASSUME NEW r \in Requests PROVE Headroom(r) \in Nat
<1> DEFINE vd == r.resistance * r.current[1] - r.speed * At(r).psiQ
           vq == r.resistance * r.current[2] + r.speed * At(r).psiD
           left == {h \in 1..r.bus : Within(vd, vq, r.bus - h)}
<1>1. r.bus \in Int
  BY RequestsAssumption DEF RequestType
<1>2. IsFiniteSet(1..r.bus)
  BY <1>1, FS_Interval
<1>3. left \in SUBSET (1..r.bus)
  OBVIOUS
<1>4. IsFiniteSet(left)
  BY <1>2, <1>3, FS_Subset
<1>5. Cardinality(left) \in Nat
  BY <1>4, FS_CardinalityType
<1> QED BY <1>5 DEF Headroom

\* What the request and the map contribute, with their signs.
LEMMA ReadyType ==
  ASSUME NEW r, Ready(r)
  PROVE  /\ r.want \in Nat \ {0} /\ r.least \in Nat \ {0} /\ r.most \in Nat \ {0}
         /\ r.maxRate \in Nat \ {0} /\ r.maxKp \in Nat \ {0} /\ r.maxKi \in Nat \ {0}
         /\ r.resistance \in Nat \ {0} /\ r.error \in Nat \ {0}
         /\ r.share \in Nat \ {0} /\ r.shareOf \in Nat \ {0} /\ r.frequency \in Nat \ {0}
         /\ At(r).dd \in Nat \ {0} /\ At(r).qq \in Nat \ {0}
         /\ At(r).dq \in Int /\ At(r).qd \in Int
         /\ Det(r) \in Nat \ {0} /\ Headroom(r) \in Nat \ {0}
<1>1. r \in RequestType /\ Valid(r)
  BY RequestsAssumption DEF Ready
<1>2. At(r) \in PointType /\ At(r).dd * At(r).qq - At(r).dq * At(r).qd > 0
  BY MapAssumption DEF Ready, At
<1>3. Headroom(r) \in Nat \ {0}
  BY HeadroomType DEF Ready
<1>4. /\ At(r).dd \in Nat \ {0} /\ At(r).qq \in Nat \ {0}
      /\ At(r).dq \in Int /\ At(r).qd \in Int
  BY <1>2 DEF PointType
<1>5. Det(r) \in Nat \ {0}
  BY <1>2, <1>4 DEF Det
<1>6. /\ r.want \in Nat \ {0} /\ r.least \in Nat \ {0} /\ r.most \in Nat \ {0}
      /\ r.maxRate \in Nat \ {0} /\ r.maxKp \in Nat \ {0} /\ r.maxKi \in Nat \ {0}
      /\ r.resistance \in Nat \ {0} /\ r.error \in Nat \ {0}
      /\ r.share \in Nat \ {0} /\ r.shareOf \in Nat \ {0} /\ r.frequency \in Nat \ {0}
  BY <1>1 DEF Valid, RequestType
<1> QED BY <1>3, <1>4, <1>5, <1>6

LEMMA NormsType ==
  ASSUME NEW r, Ready(r)
  PROVE  Peak(r) \in Nat \ {0} /\ InverseNorm(r) \in Nat /\ Coupling(r) \in Nat \ {0}
<1> DEFINE a == At(r).dd
           b == At(r).dq
           c == At(r).qd
           d == At(r).qq
<1>1. a \in Nat \ {0} /\ d \in Nat \ {0} /\ b \in Int /\ c \in Int
  BY ReadyType
<1>2. Peak(r) = Greater(a, d) /\ InverseNorm(r) = Greater(Abs(d) + Abs(b), Abs(c) + Abs(a))
        /\ Coupling(r) = Greater(Abs(d * a) + Abs(b * d), Abs(c * a) + Abs(a * d))
  BY DEF Peak, InverseNorm, Coupling
<1> HIDE DEF a, b, c, d
<1>3. Peak(r) \in Nat \ {0} /\ InverseNorm(r) \in Nat
  BY <1>1, <1>2 DEF Greater, Abs
<1>4. d * a \in Nat \ {0} /\ a * d \in Nat \ {0} /\ b * d \in Int /\ c * a \in Int
  BY <1>1
<1>5. /\ Abs(d * a) \in Nat \ {0} /\ Abs(a * d) \in Nat \ {0}
      /\ Abs(b * d) \in Nat /\ Abs(c * a) \in Nat
  BY <1>4 DEF Abs
<1>6. Coupling(r) \in Nat \ {0}
  BY <1>2, <1>5 DEF Greater
<1> QED BY <1>3, <1>6

LEMMA CapType ==
  ASSUME NEW r, Ready(r), NEW f \in Flags
  PROVE  Cap(r, f) \in Positive
<1>1. CASE f = "BANDWIDTH"
  BY <1>1, ReadyType DEF Cap, Frac, Positive
<1>2. CASE f = "SAMPLE"
  <2>1. r.maxRate * Det(r) - r.resistance * InverseNorm(r) \in Int
    BY ReadyType, NormsType
  <2> QED BY <1>2, <2>1, NormsType DEF Cap, SampleCap, Frac, Positive
<1>3. CASE f = "KP"
  BY <1>3, ReadyType, NormsType DEF Cap, Frac, Positive
<1>4. CASE f = "KI"
  BY <1>4, ReadyType DEF Cap, Frac, Positive
<1>5. CASE f = "VOLTAGE"
  <2> DEFINE e == r.shareOf * r.error
             k == Peak(r) * r.frequency + r.resistance
  <2>1. r.share * Headroom(r) * r.frequency \in Int
    BY ReadyType
  <2>2. e \in Nat \ {0} /\ k \in Nat \ {0}
    BY ReadyType, NormsType
  <2> HIDE DEF e, k
  <2>3. e * k \in Nat \ {0}
    BY <2>2
  <2>4. Cap(r, f) = Frac(r.share * Headroom(r) * r.frequency, e * k)
    BY <1>5 DEF Cap, VoltageCap, e, k
  <2> QED BY <2>1, <2>3, <2>4 DEF Frac, Positive
<1> QED BY <1>1, <1>2, <1>3, <1>4, <1>5 DEF Flags

\* A bandwidth keeps all budgets exactly when it is at least the least, at most
\* what is asked for, and at most every cap.
LEMMA AdmissibleByCaps ==
  ASSUME NEW r, Ready(r), NEW w \in Positive
  PROVE  Admissible(w, r) <=>
           /\ AtMost(Frac(r.least, 1), w) /\ AtMost(w, Frac(r.want, 1))
           /\ \A f \in Flags : AtMost(w, Cap(r, f))
<1> DEFINE n == w.num
           d == w.den
<1>1. n \in Int /\ d \in Nat \ {0}
  BY DEF Positive
<1>2. AtMost(w, Cap(r, "BANDWIDTH")) <=> AtMost(w, Frac(r.most, 1))
  BY DEF Cap
<1>3. AtMost(w, Cap(r, "KI")) <=> n * r.resistance <= r.maxKi * d
  BY DEF Cap, AtMost, Frac
<1>4. AtMost(Frac(r.least, 1), w) =>
        (AtMost(w, Cap(r, "KP")) <=>
           n * At(r).dd <= r.maxKp * d /\ n * At(r).qq <= r.maxKp * d)
  <2> SUFFICES ASSUME AtMost(Frac(r.least, 1), w)
      PROVE AtMost(w, Cap(r, "KP")) <=>
              n * At(r).dd <= r.maxKp * d /\ n * At(r).qq <= r.maxKp * d
    OBVIOUS
  <2>1. n \in Nat
    <3>1. r.least * d <= n * 1
      BY DEF AtMost, Frac
    <3>2. r.least * d \in Nat
      BY <1>1, ReadyType
    <3> QED BY <1>1, <3>1, <3>2
  <2>2. AtMost(w, Cap(r, "KP")) <=> n * Peak(r) <= r.maxKp * d
    BY DEF Cap, AtMost, Frac
  <2>3. Peak(r) \in {At(r).dd, At(r).qq} /\ At(r).dd <= Peak(r) /\ At(r).qq <= Peak(r)
    BY ReadyType DEF Peak, Greater
  <2>4. n * At(r).dd <= n * Peak(r) /\ n * At(r).qq <= n * Peak(r)
    BY <2>1, <2>3, ReadyType, NormsType, Scale
  <2>5. /\ n * At(r).dd \in Int /\ n * At(r).qq \in Int /\ n * Peak(r) \in Int
        /\ r.maxKp * d \in Int
    BY <1>1, ReadyType, NormsType
  <2> QED BY <2>2, <2>3, <2>4, <2>5
<1>5. AtMost(w, Cap(r, "SAMPLE")) <=>
        r.resistance * InverseNorm(r) * d + n * Coupling(r) <= r.maxRate * Det(r) * d
  <2> DEFINE x == r.maxRate * Det(r)
             y == r.resistance * InverseNorm(r)
             z == n * Coupling(r)
  <2>1. x \in Int /\ y \in Int /\ z \in Int
    BY <1>1, ReadyType, NormsType
  <2>2. AtMost(w, Cap(r, "SAMPLE")) <=> z <= (x - y) * d
    BY DEF Cap, SampleCap, AtMost, Frac
  <2> HIDE DEF x, y, z
  <2>3. (x - y) * d = x * d - y * d /\ x * d \in Int /\ y * d \in Int
    BY <1>1, <2>1
  <2>4. z <= (x - y) * d <=> y * d + z <= x * d
    BY <2>1, <2>3
  <2> QED BY <2>2, <2>4 DEF x, y, z
<1>6. AtMost(w, Cap(r, "VOLTAGE")) <=>
        r.shareOf * r.error * (n * Peak(r) * r.frequency + n * r.resistance)
          <= r.share * Headroom(r) * r.frequency * d
  <2> DEFINE e == r.shareOf * r.error
             x == Peak(r) * r.frequency
             y == r.resistance
             h == r.share * Headroom(r) * r.frequency
  <2>1. e \in Int /\ x \in Int /\ y \in Int
    BY ReadyType, NormsType
  <2>2. AtMost(w, Cap(r, "VOLTAGE")) <=> n * (e * (x + y)) <= h * d
    BY DEF Cap, VoltageCap, AtMost, Frac
  <2>3. n * Peak(r) * r.frequency = n * x
    BY <1>1, ReadyType, NormsType
  <2> HIDE DEF e, x, y, h
  <2>4. n * (e * (x + y)) = e * (n * x + n * y)
    <3>1. n * (x + y) = n * x + n * y
      BY <1>1, <2>1
    <3>2. x + y \in Int
      BY <2>1
    <3>3. n * (e * (x + y)) = e * (n * (x + y))
      BY <1>1, <2>1, <3>2
    <3> QED BY <3>1, <3>3
  <2> QED BY <2>2, <2>3, <2>4 DEF e, x, y, h
<1> HIDE DEF n, d
<1>7. (\A f \in Flags : AtMost(w, Cap(r, f))) <=>
        /\ AtMost(w, Cap(r, "BANDWIDTH")) /\ AtMost(w, Cap(r, "SAMPLE"))
        /\ AtMost(w, Cap(r, "KP")) /\ AtMost(w, Cap(r, "KI"))
        /\ AtMost(w, Cap(r, "VOLTAGE"))
  BY DEF Flags
<1> QED BY <1>2, <1>3, <1>4, <1>5, <1>6, <1>7 DEF Admissible, n, d

\* The bandwidth is what is asked for or a cap, and at most all of these.
LEMMA BandwidthIsLeast ==
  ASSUME NEW r, Ready(r)
  PROVE  /\ Bandwidth(r) \in Positive
         /\ AtMost(Bandwidth(r), Frac(r.want, 1))
         /\ \A f \in Flags : AtMost(Bandwidth(r), Cap(r, f))
         /\ \A z \in Positive :
              AtMost(z, Bandwidth(r)) <=>
                AtMost(z, Frac(r.want, 1)) /\ \A f \in Flags : AtMost(z, Cap(r, f))
<1> DEFINE b0 == Frac(r.want, 1)
           b1 == Least(b0, Cap(r, "BANDWIDTH"))
           b2 == Least(b1, Cap(r, "SAMPLE"))
           b3 == Least(b2, Cap(r, "KP"))
           b4 == Least(b3, Cap(r, "KI"))
           b5 == Least(b4, Cap(r, "VOLTAGE"))
           P(b) == Cap(r, b) \in Positive
<1>1. P("BANDWIDTH") /\ P("SAMPLE") /\ P("KP") /\ P("KI") /\ P("VOLTAGE")
  BY CapType DEF Flags
<1>2. b0 \in Positive
  BY ReadyType DEF Frac, Positive
<1> HIDE DEF b0
<1>3. b1 \in Positive /\ \A z \in Positive :
        AtMost(z, b1) <=> AtMost(z, b0) /\ AtMost(z, Cap(r, "BANDWIDTH"))
  BY <1>1, <1>2, LeastIsLower
<1> HIDE DEF b1
<1>4. b2 \in Positive /\ \A z \in Positive :
        AtMost(z, b2) <=> AtMost(z, b1) /\ AtMost(z, Cap(r, "SAMPLE"))
  BY <1>1, <1>3, LeastIsLower
<1> HIDE DEF b2
<1>5. b3 \in Positive /\ \A z \in Positive :
        AtMost(z, b3) <=> AtMost(z, b2) /\ AtMost(z, Cap(r, "KP"))
  BY <1>1, <1>4, LeastIsLower
<1> HIDE DEF b3
<1>6. b4 \in Positive /\ \A z \in Positive :
        AtMost(z, b4) <=> AtMost(z, b3) /\ AtMost(z, Cap(r, "KI"))
  BY <1>1, <1>5, LeastIsLower
<1> HIDE DEF b4
<1>7. b5 \in Positive /\ \A z \in Positive :
        AtMost(z, b5) <=> AtMost(z, b4) /\ AtMost(z, Cap(r, "VOLTAGE"))
  BY <1>1, <1>6, LeastIsLower
<1>8. Bandwidth(r) = b5
  BY DEF Bandwidth, b0, b1, b2, b3, b4
<1> HIDE DEF b5
<1>9. \A z \in Positive :
        AtMost(z, b5) <=> AtMost(z, b0) /\ \A f \in Flags : AtMost(z, Cap(r, f))
  BY <1>3, <1>4, <1>5, <1>6, <1>7 DEF Flags
<1>10. AtMost(b5, b5)
  BY <1>7, Total
<1> QED BY <1>7, <1>8, <1>9, <1>10 DEF b0

\* An accepted bandwidth keeps the budgets and is the largest that does.
LEMMA AcceptedIsLargest ==
  ASSUME NEW r, Ready(r), Feasible(r)
  PROVE  /\ Admissible(Bandwidth(r), r)
         /\ \A w \in Positive : Admissible(w, r) => AtMost(w, Bandwidth(r))
<1>1. AtMost(Frac(r.least, 1), Bandwidth(r))
  <2>1. ~(Bandwidth(r).num < r.least * Bandwidth(r).den)
    BY DEF Feasible, Below
  <2>2. Bandwidth(r).num \in Int /\ r.least * Bandwidth(r).den \in Int
    BY BandwidthIsLeast, ReadyType DEF Positive
  <2> QED BY <2>1, <2>2 DEF AtMost, Frac
<1>2. Admissible(Bandwidth(r), r)
  BY <1>1, BandwidthIsLeast, AdmissibleByCaps
<1>3. ASSUME NEW w \in Positive, Admissible(w, r)
      PROVE  AtMost(w, Bandwidth(r))
  BY <1>3, BandwidthIsLeast, AdmissibleByCaps
<1> QED BY <1>2, <1>3

\* A refusal by the caps leaves no bandwidth that keeps the budgets.
LEMMA RefusedIsEmpty ==
  ASSUME NEW r, Ready(r), ~Feasible(r), NEW w \in Positive, Admissible(w, r)
  PROVE  FALSE
<1>1. /\ AtMost(Frac(r.least, 1), w) /\ AtMost(w, Frac(r.want, 1))
      /\ \A f \in Flags : AtMost(w, Cap(r, f))
  BY AdmissibleByCaps
<1>2. w.num \in Nat \ {0} /\ w.den \in Nat \ {0}
  <2>1. w.num \in Int /\ w.den \in Nat \ {0}
    BY DEF Positive
  <2>2. r.least * w.den <= w.num
    BY <1>1, <2>1 DEF AtMost, Frac
  <2>3. r.least * w.den \in Nat \ {0}
    BY <2>1, ReadyType
  <2> QED BY <2>1, <2>2, <2>3
<1>3. ASSUME NEW f \in Flags PROVE Above(Cap(r, f), 0)
  <2>1. Cap(r, f).num \in Int /\ Cap(r, f).den \in Nat \ {0}
    BY <1>3, CapType DEF Positive
  <2>2. w.num * Cap(r, f).den <= Cap(r, f).num * w.den
    BY <1>1, <1>3 DEF AtMost
  <2>3. w.num * Cap(r, f).den \in Nat \ {0}
    BY <1>2, <2>1
  <2>4. Cap(r, f).num * w.den > 0
    BY <1>2, <2>1, <2>2, <2>3
  <2>5. Cap(r, f).num > 0
    <3>1. CASE Cap(r, f).num <= 0
      <4>1. w.den * Cap(r, f).num <= w.den * 0
        BY <1>2, <2>1, <3>1, Scale
      <4> QED BY <1>2, <2>1, <2>4, <4>1
    <3> QED BY <2>1, <3>1
  <2> QED BY <2>1, <2>5 DEF Above
<1>4. AtMost(w, Bandwidth(r)) /\ Bandwidth(r) \in Positive
  BY <1>1, BandwidthIsLeast
<1>5. Frac(r.least, 1) \in Positive
  BY ReadyType DEF Frac, Positive
<1>6. AtMost(Frac(r.least, 1), Bandwidth(r))
  BY <1>1, <1>4, <1>5, Transitive
<1>7. ~Below(Bandwidth(r), r.least)
  <2>1. r.least * Bandwidth(r).den <= Bandwidth(r).num * 1
    BY <1>6 DEF AtMost, Frac
  <2>2. Bandwidth(r).num \in Int /\ r.least * Bandwidth(r).den \in Int
    BY <1>4, ReadyType DEF Positive
  <2> QED BY <2>1, <2>2 DEF Below
<1> QED BY <1>3, <1>7, ReadyType DEF Feasible, Ready

\* The caps reported are those below what was asked for.
LEMMA CapsAreTold ==
  ASSUME NEW r, Ready(r)
  PROVE  Design(r).caps = {} <=> AtMost(Frac(r.want, 1), Bandwidth(r))
<1>1. Frac(r.want, 1) \in Positive
  BY ReadyType DEF Frac, Positive
<1>2. ASSUME NEW f \in Flags
      PROVE  Below(Cap(r, f), r.want) <=> ~AtMost(Frac(r.want, 1), Cap(r, f))
  <2>1. Cap(r, f).num \in Int /\ r.want * Cap(r, f).den \in Int
    BY <1>2, CapType, ReadyType DEF Positive
  <2> QED BY <2>1 DEF Below, AtMost, Frac
<1>3. Design(r).caps = {} <=> \A f \in Flags : AtMost(Frac(r.want, 1), Cap(r, f))
  BY <1>2 DEF Design
<1>4. AtMost(Frac(r.want, 1), Frac(r.want, 1))
  BY <1>1, Total
<1> QED BY <1>1, <1>3, <1>4, BandwidthIsLeast

-----------------------------------------------------------------------------
(* The specification.                                                      *)

DesignIInv ==
  /\ request \in Requests
  /\ result \in {"OK", "INFEASIBLE"} => result = DesignVerdict(request)
  /\ result = "OK" => candidate = Design(request)

\* What a verdict says of the checks before it.
LEMMA VerdictMeans ==
  ASSUME NEW r \in Requests
  PROVE  /\ DesignVerdict(r) = "OK" => Ready(r) /\ Feasible(r)
         /\ DesignVerdict(r) = "INFEASIBLE" /\ InReach(r) /\ Headroom(r) > 0
              => Ready(r) /\ ~Feasible(r)
<1>1. ASSUME Feasible(r) PROVE Headroom(r) > 0
  BY <1>1 DEF Feasible
<1> QED BY <1>1 DEF DesignVerdict, Ready

LEMMA DesignInvariance == DesignSpec => []DesignIInv
<1>1. DesignInit => DesignIInv
  BY DEF DesignInit, DesignIInv
<1>2. DesignIInv /\ [DesignNext]_designVars => DesignIInv'
  <2> SUFFICES ASSUME DesignIInv, [DesignNext]_designVars PROVE DesignIInv'
    OBVIOUS
  <2>1. ASSUME NEW r \in Requests, Tune(r) PROVE DesignIInv'
    BY <2>1 DEF Tune, DesignIInv
  <2>2. CASE UNCHANGED designVars
    BY <2>2 DEF designVars, DesignIInv
  <2> QED BY <2>1, <2>2 DEF DesignNext
<1> QED BY <1>1, <1>2, PTL DEF DesignSpec

\* The gains of an accepted design keep every budget the caller declared, for
\* all requests and all maps.
THEOREM DesignKeepsBudgets == DesignSpec => []BudgetsKept
<1>1. DesignIInv => BudgetsKept
  <2> SUFFICES ASSUME DesignIInv, result = "OK" PROVE Admissible(candidate.bandwidth, request)
    BY DEF BudgetsKept
  <2>1. request \in Requests /\ DesignVerdict(request) = "OK" /\ candidate = Design(request)
    BY DEF DesignIInv
  <2>2. candidate.bandwidth = Bandwidth(request)
    BY <2>1 DEF Design
  <2>3. Ready(request) /\ Feasible(request)
    BY <2>1, VerdictMeans
  <2> QED BY <2>2, <2>3, AcceptedIsLargest
<1> QED BY <1>1, DesignInvariance, PTL

\* The accepted design is the best its own budgets admit, and a refusal by the
\* caps is never unfounded; bandwidths of any denominator may be compared.
LEMMA InvIsBest ==
  ASSUME DesignIInv, NEW w \in Positive PROVE LargestAt(w) /\ RefusedAt(w)
<1>1. LargestAt(w)
  <2> SUFFICES ASSUME result = "OK", Admissible(w, request)
      PROVE AtMost(w, candidate.bandwidth)
    BY DEF LargestAt
  <2>1. request \in Requests /\ DesignVerdict(request) = "OK" /\ candidate = Design(request)
    BY DEF DesignIInv
  <2>2. candidate.bandwidth = Bandwidth(request)
    BY <2>1 DEF Design
  <2>3. Ready(request) /\ Feasible(request)
    BY <2>1, VerdictMeans
  <2> QED BY <2>2, <2>3, AcceptedIsLargest
<1>2. RefusedAt(w)
  <2> SUFFICES ASSUME result = "INFEASIBLE", InReach(request), Headroom(request) > 0,
                      Admissible(w, request)
      PROVE FALSE
    BY DEF RefusedAt
  <2>1. request \in Requests /\ DesignVerdict(request) = "INFEASIBLE"
    BY DEF DesignIInv
  <2>2. Ready(request) /\ ~Feasible(request)
    BY <2>1, VerdictMeans
  <2> QED BY <2>2, RefusedIsEmpty
<1> QED BY <1>1, <1>2

LEMMA InvTells == DesignIInv => CapsTellBandwidth
<1> SUFFICES ASSUME DesignIInv, result = "OK"
    PROVE candidate.caps = {} <=> AtMost(Frac(request.want, 1), candidate.bandwidth)
  BY DEF CapsTellBandwidth
<1>1. request \in Requests /\ DesignVerdict(request) = "OK" /\ candidate = Design(request)
  BY DEF DesignIInv
<1>2. candidate.bandwidth = Bandwidth(request)
  BY <1>1 DEF Design
<1>3. Ready(request)
  BY <1>1, VerdictMeans
<1> QED BY <1>1, <1>2, <1>3, CapsAreTold

\* Compared with every fraction, where the run compares with quarters.
THEOREM BestOfAllBandwidths == DesignSpec => [](\A w \in Positive : LargestAt(w) /\ RefusedAt(w))
<1>1. DesignIInv => \A w \in Positive : LargestAt(w) /\ RefusedAt(w)
  BY InvIsBest
<1> QED BY <1>1, DesignInvariance, PTL

\* What the run checks: the design is the largest, refusals are founded, and the
\* flags tell whether the caller got less than was asked for.
THEOREM DesignIsTheLargest == DesignSpec => []DesignIsLargest
<1>1. DesignIInv => DesignIsLargest
  <2> SUFFICES ASSUME DesignIInv PROVE CapsTellBandwidth /\ \A w \in Grid : LargestAt(w) /\ RefusedAt(w)
    BY DEF DesignIsLargest
  <2>1. \A w \in Grid : w \in Positive
    <3>1. request.want \in Int
      BY RequestsAssumption DEF DesignIInv, RequestType
    <3> QED BY <3>1 DEF Grid, Frac, Positive
  <2> QED BY <2>1, InvIsBest, InvTells
<1> QED BY <1>1, DesignInvariance, PTL
=============================================================================
