--------------------------- MODULE CurrentControl ---------------------------
(***************************************************************************)
(* The model-aware current controller, src/src/core/reference.c: a PI      *)
(* kernel with hard guards, and around it the policy for a flux map that   *)
(* rejects a lookup.  The kernel without the map is namc_current_step.     *)
(*                                                                         *)
(* The d and q axes run the same arithmetic; one axis stands for both, so  *)
(* the radial voltage limit is a clip.  Quantities are integers in an      *)
(* arbitrary unit, with exact arithmetic; sample time is the unit of time. *)
(***************************************************************************)
EXTENDS Integers

CONSTANTS
  Configs,     \* the configurations a caller may pass, to each call anew
  Inputs       \* what a call may be shown

Policies == {"DISABLE", "NOMINAL_FALLBACK"}
LookupStatus ==
  {"OK", "INVALID_INPUT", "INVALID_MAP", "OUT_OF_DOMAIN", "ILL_CONDITIONED",
   "NON_RECIPROCAL", "NON_PASSIVE"}
Results == {"OK", "INVALID_INPUT", "LIMIT_EXCEEDED", "FAULT_LATCHED", "MODEL_REJECTED"}

Laws == {"map", "nominal"}

\* Gains of one law; "sound" says namc_config_valid accepts the configuration
\* with these gains in it.
Gains == [kp : Nat, ki : Nat, sound : BOOLEAN]

\* "known" says that the configuration is present and its version and policy
\* are known ones.  The gains of mapped operation are those of "nominal" when
\* the caller gave no others; the antiwindup gain is shared.
ConfigType ==
  [known : BOOLEAN, policy : Policies, kaw : {0, 1}, gains : [Laws -> Gains]]

\* "sensed" says what the guards make of the measurement and the reference:
\* GOOD, not finite or not balanced, beyond a hard limit, or a reference whose
\* magnitude overflows.  "bus" is the voltage limit of the bus, "emf" the
\* rotational voltage the map or the nominal priors give, "finite" says whether
\* the law's arithmetic and the modulation stay finite to the end.
InputType ==
  [sensed : {"GOOD", "MALFORMED", "BEYOND", "WILD_REFERENCE"},
   error : Int, bus : Nat \ {0}, lookup : LookupStatus,
   emf : [Laws -> Int], finite : [Laws -> BOOLEAN]]

ASSUME ControlConfigs == Configs \subseteq ConfigType
ASSUME ControlInputs == Inputs \subseteq InputType

VARIABLES
  faulted,       \* pi.faulted
  integral,      \* pi.integral, of one axis
  fallback,      \* fallback_latched
  modelFailure,  \* model_failure
  duty,          \* what the call left in its output
  returned,      \* the code of the last step, "NONE" before the first
  \* History of the properties, never read by an action:
  origin,        \* laws that built the integral: "none", "map", "nominal", "both"
  last           \* the input and policy of the last step since a reset

vars == <<faulted, integral, fallback, modelFailure, duty, returned, origin, last>>

Clip(x, limit) == IF x < -limit THEN -limit ELSE IF x > limit THEN limit ELSE x

Disabled == [enabled |-> FALSE, voltage |-> 0]
Duties == [enabled : BOOLEAN, voltage : Int]

NoStep == [bus |-> 0, sensed |-> "GOOD", lookup |-> "OK", policy |-> "DISABLE"]
Shown(c, in) ==
  [bus |-> in.bus, sensed |-> in.sensed, lookup |-> in.lookup, policy |-> c.policy]

-----------------------------------------------------------------------------
(* The kernel, as the outcome of a call on an unfaulted state.             *)

\* Mutant: the map is asked before the hard limits are tested.
VerdictMapFirst(c, law, in) ==
  IF ~c.gains[law].sound \/ in.sensed = "MALFORMED" THEN "INVALID_INPUT"
  ELSE IF law = "map" /\ in.lookup # "OK" THEN "MODEL_REJECTED"
  ELSE IF in.sensed = "BEYOND" THEN "LIMIT_EXCEEDED"
  ELSE IF in.sensed = "WILD_REFERENCE" \/ ~in.finite[law] THEN "INVALID_INPUT"
  ELSE "OK"

\* The guards in their order, up to a finite command and integral.
Verdict(c, law, in) ==
  IF ~c.gains[law].sound \/ in.sensed = "MALFORMED" THEN "INVALID_INPUT"
  ELSE IF in.sensed = "BEYOND" THEN "LIMIT_EXCEEDED"
  ELSE IF in.sensed = "WILD_REFERENCE" THEN "INVALID_INPUT"
  ELSE IF law = "map" /\ in.lookup # "OK" THEN "MODEL_REJECTED"
  ELSE IF ~in.finite[law] THEN "INVALID_INPUT"
  ELSE "OK"

Raw(c, law, in, i) == c.gains[law].kp * in.error + i + in.emf[law]
Limited(c, law, in, i) == Clip(Raw(c, law, in, i), in.bus)

\* The integral with back-calculation, before it is clipped to the bus.
Integrated(c, law, in, i) ==
  i + c.gains[law].ki * in.error
    + c.kaw * (Limited(c, law, in, i) - Raw(c, law, in, i))

NextIntegral(c, law, in, i) == Clip(Integrated(c, law, in, i), in.bus)

\* A fault: latched, and the output disabled.  The integral is left alone.
Fault(code) ==
  /\ faulted' = TRUE
  /\ duty' = Disabled
  /\ returned' = code

\* The kernel run on integral i, which the laws in "built" have built.
Run(c, law, in, i, built) ==
  LET v == Verdict(c, law, in)
  IN IF v = "OK"
     THEN /\ duty' = [enabled |-> TRUE, voltage |-> Limited(c, law, in, i)]
          /\ integral' = NextIntegral(c, law, in, i)
          /\ origin' = IF built \in {"none", law} THEN law ELSE "both"
          /\ returned' = "OK"
          /\ faulted' = FALSE
     ELSE /\ Fault(v)
          /\ integral' = i
          /\ origin' = built

-----------------------------------------------------------------------------

Init ==
  /\ faulted = FALSE
  /\ integral = 0
  /\ fallback = FALSE
  /\ modelFailure = "OK"
  /\ duty = Disabled
  /\ returned = "NONE"
  /\ origin = "none"
  /\ last = NoStep

\* namc_model_current_reset: explicit, from any state.  The output of the last
\* step is the caller's and stays what it was.
Reset ==
  /\ faulted' = FALSE
  /\ integral' = 0
  /\ fallback' = FALSE
  /\ modelFailure' = "OK"
  /\ origin' = "none"
  /\ last' = NoStep
  /\ UNCHANGED <<duty, returned>>

\* A latched fault answers every call, before anything is looked at.
Refuse(c, in) ==
  /\ faulted
  /\ duty' = Disabled
  /\ returned' = "FAULT_LATCHED"
  /\ last' = Shown(c, in)
  /\ UNCHANGED <<faulted, integral, fallback, modelFailure, origin>>

WellFormed(c) == c.known /\ c.gains["nominal"].sound

\* Mutant: a policy changed under a latched fallback is not looked at.
PolicyIgnored(c) == FALSE

\* An unusable configuration, or fallback where the caller now wants none.
PolicyForbids(c) == fallback /\ c.policy = "DISABLE"

StopCall(c, in) ==
  /\ ~faulted
  /\ ~WellFormed(c) \/ PolicyForbids(c)
  /\ Fault(IF WellFormed(c) THEN "MODEL_REJECTED" ELSE "INVALID_INPUT")
  /\ last' = Shown(c, in)
  /\ UNCHANGED <<integral, fallback, modelFailure, origin>>

Usable(c) == ~faulted /\ WellFormed(c) /\ ~PolicyForbids(c)

\* Latched fallback: the nominal law, with the nominal gains, and no map.
NominalStep(c, in) ==
  /\ Usable(c)
  /\ fallback
  /\ Run(c, "nominal", in, integral, origin)
  /\ last' = Shown(c, in)
  /\ UNCHANGED <<fallback, modelFailure>>

Rejected(c, in) == Verdict(c, "map", in) = "MODEL_REJECTED"

\* Mapped operation, on a lookup that succeeds or is not reached.
MappedStep(c, in) ==
  /\ Usable(c)
  /\ ~fallback
  /\ ~Rejected(c, in)
  /\ Run(c, "map", in, integral, origin)
  /\ last' = Shown(c, in)
  /\ UNCHANGED <<fallback, modelFailure>>

\* Mutant: the kernel's early return on a rejected lookup is passed on as it is.
RejectStopUnlatched(c, in) ==
  /\ Usable(c)
  /\ ~fallback
  /\ Rejected(c, in)
  /\ c.policy = "DISABLE"
  /\ modelFailure' = in.lookup
  /\ duty' = Disabled
  /\ returned' = "MODEL_REJECTED"
  /\ last' = Shown(c, in)
  /\ UNCHANGED <<faulted, integral, fallback, origin>>

\* A rejected lookup under the policy DISABLE.
RejectStop(c, in) ==
  /\ Usable(c)
  /\ ~fallback
  /\ Rejected(c, in)
  /\ c.policy = "DISABLE"
  /\ modelFailure' = in.lookup
  /\ Fault("MODEL_REJECTED")
  /\ last' = Shown(c, in)
  /\ UNCHANGED <<integral, fallback, origin>>

\* Mutant: the nominal law takes over with the integrals of the mapped one.
FallBackKeepsIntegral(c, in) ==
  /\ Usable(c)
  /\ ~fallback
  /\ Rejected(c, in)
  /\ c.policy = "NOMINAL_FALLBACK"
  /\ modelFailure' = in.lookup
  /\ fallback' = TRUE
  /\ Run(c, "nominal", in, integral, origin)
  /\ last' = Shown(c, in)

\* Mutant: one failed lookup falls back for this call only.
FallBackUnlatched(c, in) ==
  /\ Usable(c)
  /\ ~fallback
  /\ Rejected(c, in)
  /\ c.policy = "NOMINAL_FALLBACK"
  /\ modelFailure' = in.lookup
  /\ Run(c, "nominal", in, 0, "none")
  /\ last' = Shown(c, in)
  /\ UNCHANGED fallback

\* A rejected lookup under the policy of nominal fallback: latch it, clear the
\* integrals, and run the nominal law with all its guards in the same call.
FallBack(c, in) ==
  /\ Usable(c)
  /\ ~fallback
  /\ Rejected(c, in)
  /\ c.policy = "NOMINAL_FALLBACK"
  /\ modelFailure' = in.lookup
  /\ fallback' = TRUE
  /\ Run(c, "nominal", in, 0, "none")
  /\ last' = Shown(c, in)

Step(c, in) ==
  \/ Refuse(c, in)
  \/ StopCall(c, in)
  \/ NominalStep(c, in)
  \/ MappedStep(c, in)
  \/ RejectStop(c, in)
  \/ FallBack(c, in)

Next ==
  \/ Reset
  \/ \E c \in Configs, in \in Inputs : Step(c, in)

Spec == Init /\ [][Next]_vars

-----------------------------------------------------------------------------
(* Properties.                                                             *)

\* The state and the output hold values of their types.
TypeOK ==
  /\ faulted \in BOOLEAN
  /\ integral \in Int
  /\ fallback \in BOOLEAN
  /\ modelFailure \in LookupStatus
  /\ duty \in Duties
  /\ returned \in Results \cup {"NONE"}
  /\ origin \in {"none", "map", "nominal", "both"}

Stepped == last # NoStep

\* No step of the controller ends in between: it drives the bridge and returns
\* OK, or it leaves a latched fault and a disabled output.  The kernel itself
\* does neither on a rejected lookup; every caller of it has to.
DriveOrFault ==
  Stepped => (duty.enabled <=> ~faulted) /\ (duty.enabled <=> returned = "OK")

\* An integral built under the mapped law never enters a step of the nominal
\* law, nor the other way round, over any sequence of calls and policies.
LawsNeverMix == origin # "both"

\* A recorded lookup failure and a controller that still uses its map exclude
\* each other, and fallback is never entered without a recorded failure.
FailureExplained ==
  /\ fallback => modelFailure # "OK"
  /\ modelFailure # "OK" => fallback \/ faulted

\* While the bridge is driven, the commanded voltage and the integral both fit
\* the bus of that very step, also when the bus has dropped since the last one.
WithinBus ==
  Stepped /\ duty.enabled =>
    /\ duty.voltage \in -last.bus..last.bus
    /\ integral \in -last.bus..last.bus

\* A controller on its nominal law drives only for a caller whose present
\* policy wants that; a policy changed after the fallback is honoured at once.
PolicyHonoured ==
  Stepped /\ duty.enabled /\ fallback => last.policy = "NOMINAL_FALLBACK"

\* Fallback is entered on a rejected lookup of a good measurement only: a bad
\* sensor, a broken limit or a wild reference never leads to it.
FallbackOnlyByLookup ==
  [][~fallback /\ fallback' =>
       /\ last'.sensed = "GOOD"
       /\ last'.lookup # "OK"
       /\ last'.policy = "NOMINAL_FALLBACK"]_vars

\* Until a reset the three latches hold: a fault stays, fallback stays, and the
\* first failure recorded stays what it was.
LatchesHold ==
  [][last' # NoStep =>
       /\ faulted => faulted'
       /\ fallback => fallback'
       /\ modelFailure # "OK" => modelFailure' = modelFailure]_vars
=============================================================================
