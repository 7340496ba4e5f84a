------------------------- MODULE ResistanceIdProofs -------------------------
(***************************************************************************)
(* The resistance identifier is correct for every set of configurations    *)
(* and observations, and so is the program that drives it, for every set   *)
(* of options.  FiniteSensors and CompiledPolicy, what the program assumes *)
(* of observations and policy, are cited in the lemmas on the program only.*)
(***************************************************************************)
EXTENDS ResistanceExperiment, TLAPS

-----------------------------------------------------------------------------
(* Facts about the data.                                                   *)

\* The configuration in the state has the configuration's type, also when it
\* is the zeroed one.
LEMMA ConfigTyped ==
  ASSUME TypeOK
  PROVE  config \in ConfigType
<1>1. ZeroConfig \in ConfigType
  BY DEF ZeroConfig, ConfigType, Stages
<1>2. QED
  BY <1>1, ConfigsAssumption DEF TypeOK

\* Adding a sample to a window gives a window.
LEMMA ExtendedTyped ==
  ASSUME NEW w \in WindowType, NEW o \in Observations
  PROVE  Extended(w, o) \in WindowType
<1>1. o \in ObservationType
  BY ObservationsAssumption
<1>2. o.i \in Int /\ o.v \in Int
  BY <1>1 DEF ObservationType
<1>3. QED
  BY <1>2 DEF Extended, WindowType, Lesser, Greater

\* What a fit computes has the type of a result.
LEMMA EstimateTyped ==
  ASSUME NEW ws \in [Stages -> WindowType], config \in ConfigType
  PROVE  Estimate(ws) \in ResultType
<1>1. /\ ws[0].sumI \in Int /\ ws[0].sumV \in Int
      /\ ws[1].sumI \in Int /\ ws[1].sumV \in Int
      /\ ws[2].sumI \in Int /\ ws[2].sumV \in Int
  BY DEF Stages, WindowType
<1>2. config.cu \in Int /\ config.vu \in Int /\ config.measure \in Int
  BY DEF ConfigType
<1> DEFINE m == config.measure
           di == ws[1].sumI - ws[0].sumI
           dv == ws[1].sumV - ws[0].sumV
           ui == 2 * config.cu * m
           uv == 2 * config.vu * m
<1>3. di \in Int /\ dv \in Int /\ ui \in Int /\ uv \in Int /\ m \in Int
  BY <1>1, <1>2
<1> HIDE DEF m, di, dv, ui, uv
<1>4. /\ Frac(dv, di) \in Fractions
      /\ Frac(dv - uv, di + ui) \in Fractions
      /\ Frac(dv + uv, di - ui) \in Fractions
      /\ Frac(ws[0].sumV * di - dv * ws[0].sumI, m * di) \in Fractions
      /\ Frac((ws[2].sumV - ws[0].sumV) * di
                - dv * (ws[2].sumI - ws[0].sumI), m * di) \in Fractions
  BY <1>1, <1>3 DEF Frac, Fractions
<1>5. QED
  BY <1>4 DEF Estimate, ResultType, m, di, dv, ui, uv

LEMMA ZeroResultTyped == ZeroResult \in ResultType
BY DEF ZeroResult, Zero, Frac, Fractions, ResultType

LEMMA ZeroWindowTyped == ZeroWindow \in WindowType
BY DEF ZeroWindow, WindowType

-----------------------------------------------------------------------------
(* Type correctness.                                                       *)

\* A stop gives one of the reasons, and the phase and result it gives fit.
LEMMA StopTyped ==
  ASSUME NEW r \in Reasons, Stop(r)
  PROVE  phase' \in Phases /\ reason' \in Reasons /\ result' \in ResultType
BY ZeroResultTyped DEF Stop, Phases, Terminal

\* Refusals, misfits and objections are reasons.
LEMMA VerdictsTyped ==
  /\ \A seq, o : Refusal(seq, o) \in Reasons
  /\ \A o : Misfit(o) \in Reasons
  /\ \A ws, o : Objection(ws, o) \in Reasons
<1>1. \A seq, o : Refusal(seq, o) \in Reasons
  BY DEF Refusal, Reasons, FaultReasons, DegradedReasons
<1>2. \A o : Misfit(o) \in Reasons
  BY DEF Misfit, Reasons, FaultReasons, DegradedReasons
<1>3. \A ws, o : Objection(ws, o) \in Reasons
  BY DEF Objection, Reasons, FaultReasons, DegradedReasons
<1>4. QED
  BY <1>1, <1>2, <1>3

LEMMA InitTyped == Init => TypeOK
BY ZeroResultTyped, ZeroWindowTyped
   DEF Init, TypeOK, Version, Phases, Reasons, Stages, Sources

LEMMA ContinueTyped ==
  ASSUME TypeOK, NEW p \in Active, Continue(p)
  PROVE  phase' \in Phases /\ reason' \in Reasons /\ result' \in ResultType
<1>1. CASE elapsed + 1 >= config.max
  BY <1>1, StopTyped DEF Continue, Reasons, DegradedReasons
<1>2. CASE ~(elapsed + 1 >= config.max)
  BY <1>2 DEF Continue, TypeOK, Phases
<1>3. QED
  BY <1>1, <1>2

\* The part of a step that accounting for a sample decides keeps its type.
LEMMA AccountTyped ==
  ASSUME TypeOK, NEW seq, NEW o \in Observations, Account(seq, o)
  PROVE  /\ version' \in {0, Version}
         /\ config' \in Configs \cup {ZeroConfig}
         /\ source' \in Sources /\ energy' \in Nat /\ elapsed' \in Nat
         /\ taken' \subseteq Nat
<1>1. o.source \in Sources /\ o.power \in Nat
  BY ObservationsAssumption DEF ObservationType
<1>2. seq = elapsed + 1
  BY DEF Account, Refusal
<1>3. taken' \subseteq Nat
  BY <1>2 DEF Account, TypeOK
<1>4. QED
  BY <1>1, <1>3 DEF Account, TypeOK

\* Every step of the identifier keeps every variable in its type.
LEMMA NextTyped ==
  ASSUME TypeOK, [Next]_vars
  PROVE  TypeOK'
<1> USE DEF TypeOK
<1>w. [s \in Stages |-> ZeroWindow] \in [Stages -> WindowType]
  BY ZeroWindowTyped
<1>c. Cleared => /\ version' \in {0, Version} /\ stage' \in Stages
                 /\ stageSamples' \in Nat /\ elapsed' \in Nat /\ energy' \in Nat
                 /\ source' \in Sources /\ windows' \in [Stages -> WindowType]
                 /\ result' \in ResultType /\ taken' \subseteq Nat
  BY <1>w, ZeroResultTyped DEF Cleared, Stages, Sources
<1>1. ASSUME NEW c \in Configs, StartAccepted(c) PROVE TypeOK'
  BY <1>1, <1>c DEF StartAccepted, Phases, Active, Reasons
<1>2. ASSUME NEW c \in Configs, StartRejected(c) PROVE TypeOK'
  BY <1>2, <1>c, StopTyped DEF StartRejected, Reasons, FaultReasons
<1>3. ASSUME Abort PROVE TypeOK'
  BY <1>3, StopTyped DEF Abort, Reasons, FaultReasons
<1>4. ASSUME NEW seq, NEW o \in Observations, Observe(seq, o) PROVE TypeOK'
  <2>n. NewWindows(o) \in [Stages -> WindowType]
    BY ExtendedTyped DEF NewWindows, NewWindow
  <2>1. CASE Refuse(seq, o)
    BY <2>1, StopTyped, VerdictsTyped DEF Refuse
  <2>2. CASE Trip(seq, o)
    BY <2>2, StopTyped, AccountTyped DEF Trip, Reasons, FaultReasons
  <2>3. CASE Settle(seq, o)
    BY <2>3, ContinueTyped, AccountTyped DEF Settle, Active
  <2>4. CASE DropMisfit(seq, o)
    BY <2>4, StopTyped, VerdictsTyped, AccountTyped DEF DropMisfit, Sampled
  <2>5. CASE Unsettle(seq, o)
    BY <2>5, <2>n, StopTyped, AccountTyped
       DEF Unsettle, Sampled, Reasons, DegradedReasons
  <2>6. CASE Collect(seq, o)
    BY <2>6, <2>n, ContinueTyped, AccountTyped DEF Collect, Kept, Sampled, Active
  <2>7. CASE NextStage(seq, o)
    BY <2>7, <2>n, ContinueTyped, AccountTyped
       DEF NextStage, Kept, Sampled, Active, Stages
  <2>8. CASE Reject(seq, o)
    BY <2>8, <2>n, StopTyped, VerdictsTyped, AccountTyped
       DEF Reject, Closing, Kept, Sampled
  <2>9. CASE Publish(seq, o)
    BY <2>9, <2>n, EstimateTyped, ConfigTyped, AccountTyped
       DEF Publish, Closing, Kept, Sampled, Phases, Terminal
  <2>10. QED
    BY <1>4, <2>1, <2>2, <2>3, <2>4, <2>5, <2>6, <2>7, <2>8, <2>9 DEF Observe
<1>5. CASE UNCHANGED vars
  BY <1>5 DEF vars
<1>6. QED
  BY <1>1, <1>2, <1>3, <1>4, <1>5 DEF Next

\* The state always holds values of its declared types; in particular the stage
\* index never leaves the arrays of levels and windows, for any configuration.
THEOREM TypeCorrect == Spec => []TypeOK
<1>1. Init => TypeOK
  BY InitTyped
<1>2. TypeOK /\ [Next]_vars => TypeOK'
  BY NextTyped
<1>3. QED
  BY <1>1, <1>2, PTL DEF Spec

-----------------------------------------------------------------------------
(* The inductive invariant.                                                *)

\* Only a valid configuration runs, and it stays in the state to the end.
RunConfigured ==
  /\ phase \in Active \cup {"COMPLETE"} => version = Version /\ ConfigValid(config)
  /\ phase \in Active => reason = "NONE"

\* A running state has a sample and some energy left.
BudgetsLeft ==
  phase \in Active => elapsed < config.max /\ energy < config.maxEnergy

\* The samples a running state kept track the level of their stage, within the
\* spans, and came from a trusted source.
SamplesSound ==
  phase \in Active =>
    /\ taken = 1..elapsed
    /\ elapsed > 0 => source \in Trusted
    /\ \A s \in Stages :
         windows[s].count > 0 =>
           /\ ~Wide(windows[s])
           /\ windows[s].minI >= config.levels[s] - config.tracking
           /\ windows[s].maxI <= config.levels[s] + config.tracking

\* The result is nonzero exactly in a complete state.
ResultIffComplete == result # ZeroResult <=> phase = "COMPLETE"

IInv ==
  /\ TypeOK
  /\ RunConfigured
  /\ BudgetsLeft
  /\ ClocksAgree
  /\ WindowsFollowStages
  /\ SamplesSound
  /\ ResultIffComplete
  /\ CompleteMeansEvidence
  /\ BoundsContainEstimate

-----------------------------------------------------------------------------
(* Arithmetic of the fit.                                                  *)

\* Of fractions with an excited denominator, if the outer bounds are inside a
\* positive range then the bounds are around the estimate and it is positive.
LEMMA FitArithmetic ==
  ASSUME NEW dv \in Int, NEW di \in Int, NEW uv \in Int, NEW ui \in Int,
         NEW lo \in Int, NEW hi \in Int,
         lo > 0, ui >= 0, uv >= 0, di - ui > 0,
         ~(dv - uv < lo * (di + ui)),
         ~(dv + uv > hi * (di - ui))
  PROVE  /\ dv > 0
         /\ lo * (di + ui) <= (dv - uv) * 1
         /\ (dv - uv) * di <= dv * (di + ui)
         /\ dv * (di - ui) <= (dv + uv) * di
         /\ (dv + uv) * 1 <= hi * (di - ui)
<1>1. lo * (di + ui) > 0
  <2> DEFINE sum == di + ui
  <2>1. sum \in Int /\ sum > 0
    OBVIOUS
  <2> HIDE DEF sum
  <2>2. lo * sum > 0
    BY <2>1
  <2>3. QED
    BY <2>2 DEF sum
<1>2. dv > 0
  <2> DEFINE p == lo * (di + ui)
  <2>1. p \in Int /\ p > 0
    BY <1>1
  <2>2. ~(dv - uv < p)
    OBVIOUS
  <2> HIDE DEF p
  <2>3. QED
    BY <2>1, <2>2
<1>3. uv * di >= 0 /\ dv * ui >= 0
  BY <1>2
<1>4. /\ (dv - uv) * di = dv * di - uv * di
      /\ dv * (di + ui) = dv * di + dv * ui
      /\ dv * (di - ui) = dv * di - dv * ui
      /\ (dv + uv) * di = dv * di + uv * di
  OBVIOUS
<1>5. /\ (dv - uv) * di <= dv * (di + ui)
      /\ dv * (di - ui) <= (dv + uv) * di
  <2> DEFINE a == dv * di
             b == uv * di
             c == dv * ui
  <2>1. a \in Int /\ b \in Int /\ c \in Int /\ b >= 0 /\ c >= 0
    BY <1>3
  <2>2. a - b <= a + c /\ a - c <= a + b
    BY <2>1
  <2>3. QED
    BY <2>2, <1>4
<1>6. /\ lo * (di + ui) <= (dv - uv) * 1
      /\ (dv + uv) * 1 <= hi * (di - ui)
  <2> DEFINE p == lo * (di + ui)
             q == hi * (di - ui)
  <2>1. p \in Int /\ q \in Int
    OBVIOUS
  <2>2. ~(dv - uv < p) /\ ~(dv + uv > q)
    OBVIOUS
  <2> HIDE DEF p, q
  <2>3. p <= (dv - uv) * 1 /\ (dv + uv) * 1 <= q
    BY <2>1, <2>2
  <2>4. QED
    BY <2>3 DEF p, q
<1>7. QED
  BY <1>2, <1>5, <1>6

\* A fit without objection has its estimate between its bounds, and is not zero.
LEMMA PublishedFit ==
  ASSUME NEW ws \in [Stages -> WindowType], NEW o,
         config \in ConfigType, ConfigValid(config),
         Objection(ws, o) = "NONE"
  PROVE  LET r == Estimate(ws)
         IN /\ r # ZeroResult
            /\ AtMost(Frac(config.minR, 1), r.lower)
            /\ AtMost(r.lower, r.resistance)
            /\ AtMost(r.resistance, r.upper)
            /\ AtMost(r.upper, Frac(config.maxR, 1))
<1> DEFINE m == config.measure
           di == ws[1].sumI - ws[0].sumI
           dv == ws[1].sumV - ws[0].sumV
           ui == 2 * config.cu * m
           uv == 2 * config.vu * m
           r == Estimate(ws)
<1>1. /\ ws[0].sumI \in Int /\ ws[0].sumV \in Int
      /\ ws[1].sumI \in Int /\ ws[1].sumV \in Int
  BY DEF Stages, WindowType
<1>2. /\ config.cu \in Int /\ config.vu \in Int /\ config.measure \in Int
      /\ config.separation \in Int /\ config.minR \in Int /\ config.maxR \in Int
  BY DEF ConfigType
<1>3. /\ config.cu >= 0 /\ config.vu >= 0 /\ config.measure > 0
      /\ config.separation > 0 /\ config.minR > 0
  BY <1>2 DEF ConfigValid
<1>4. di \in Int /\ dv \in Int /\ ui \in Int /\ uv \in Int
  BY <1>1, <1>2
<1>5. ui >= 0 /\ uv >= 0
  BY <1>2, <1>3
<1>6. /\ Excited(ws)
      /\ ~Below(r.lower, config.minR)
      /\ ~Above(r.upper, config.maxR)
  BY DEF Objection
<1>7. di - ui > 0
  <2> DEFINE p == config.separation * config.measure
  <2>1. p \in Int /\ p > 0
    BY <1>2, <1>3
  <2>2. di - ui > p
    BY <1>6 DEF Excited
  <2> HIDE DEF p, di, ui
  <2>3. QED
    BY <1>4, <2>1, <2>2
<1>8. /\ r.resistance = Frac(dv, di)
      /\ r.lower = Frac(dv - uv, di + ui)
      /\ r.upper = Frac(dv + uv, di - ui)
  BY DEF Estimate
<1> HIDE DEF di, dv, ui, uv, r
<1>9. /\ ~(dv - uv < config.minR * (di + ui))
      /\ ~(dv + uv > config.maxR * (di - ui))
  BY <1>6, <1>8 DEF Below, Above, Frac
<1>10. /\ dv > 0
       /\ config.minR * (di + ui) <= (dv - uv) * 1
       /\ (dv - uv) * di <= dv * (di + ui)
       /\ dv * (di - ui) <= (dv + uv) * di
       /\ (dv + uv) * 1 <= config.maxR * (di - ui)
  BY <1>2, <1>3, <1>4, <1>5, <1>7, <1>9, FitArithmetic
<1>11. r # ZeroResult
  BY <1>4, <1>8, <1>10 DEF ZeroResult, Zero, Frac
<1>12. /\ AtMost(Frac(config.minR, 1), r.lower)
       /\ AtMost(r.lower, r.resistance)
       /\ AtMost(r.resistance, r.upper)
       /\ AtMost(r.upper, Frac(config.maxR, 1))
  BY <1>8, <1>10 DEF AtMost, Frac
<1>13. QED
  BY <1>11, <1>12 DEF r

-----------------------------------------------------------------------------
(* Every step keeps the invariant.                                         *)

LEMMA InitInv == Init => IInv
<1> SUFFICES ASSUME Init PROVE IInv
  OBVIOUS
<1>1. TypeOK
  BY InitTyped
<1>2. phase = "IDLE" /\ result = ZeroResult
  BY DEF Init
<1>3. QED
  BY <1>1, <1>2
     DEF IInv, RunConfigured, BudgetsLeft, ClocksAgree, WindowsFollowStages,
         SamplesSound, ResultIffComplete, CompleteMeansEvidence,
         BoundsContainEstimate, Active

\* In a state that is stopped without a result only the types are left to show.
LEMMA StoppedInv ==
  ASSUME TypeOK', phase' \in {"DEGRADED", "FAULT"}, result' = ZeroResult
  PROVE  IInv'
BY DEF IInv, RunConfigured, BudgetsLeft, ClocksAgree, WindowsFollowStages,
       SamplesSound, ResultIffComplete, CompleteMeansEvidence,
       BoundsContainEstimate, Active

LEMMA StopInv ==
  ASSUME TypeOK', NEW r, Stop(r)
  PROVE  IInv'
BY StoppedInv DEF Stop

\* A freshly started run.
LEMMA StartInv ==
  ASSUME TypeOK', NEW c \in Configs, StartAccepted(c)
  PROVE  IInv'
<1>1. /\ config' = c /\ phase' = "SETTLING" /\ reason' = "NONE"
      /\ version' = Version /\ stage' = 0 /\ stageSamples' = 0
      /\ elapsed' = 0 /\ energy' = 0
      /\ windows' = [s \in Stages |-> ZeroWindow]
      /\ result' = ZeroResult /\ taken' = {}
  BY DEF StartAccepted, Cleared
<1>2. ConfigValid(c)' /\ c \in ConfigType
  BY ConfigsAssumption DEF StartAccepted, ConfigValid, Abs
<1>3. c.settle > 0 /\ c.max > 0 /\ c.maxEnergy > 0
      /\ c.settle \in Nat /\ c.measure \in Nat
  BY <1>2, ConfigsAssumption DEF ConfigValid, ConfigType
<1>4. \A s \in Stages : windows'[s].count = 0
  BY <1>1 DEF ZeroWindow
<1>5. RunConfigured'
  BY <1>1, <1>2 DEF RunConfigured, StartAccepted
<1>6. BudgetsLeft'
  BY <1>1, <1>3 DEF BudgetsLeft
<1>7. ClocksAgree'
  BY <1>1, <1>3 DEF ClocksAgree
<1>8. WindowsFollowStages'
  BY <1>1, <1>4 DEF WindowsFollowStages, Stages
<1>9. SamplesSound'
  BY <1>1, <1>4 DEF SamplesSound
<1>10. QED
  BY <1>1, <1>5, <1>6, <1>7, <1>8, <1>9
     DEF IInv, ResultIffComplete, CompleteMeansEvidence, BoundsContainEstimate

\* What is known when a sample has been accounted for and breaks no limit.
LEMMA AdmittedFacts ==
  ASSUME IInv, NEW seq, NEW o \in Observations, Account(seq, o), ~OverLimit(o)
  PROVE  /\ phase \in Active
         /\ version = Version /\ ConfigValid(config)
         /\ config' = config /\ version' = version
         /\ elapsed' = elapsed + 1 /\ elapsed' \in Nat /\ elapsed \in Nat
         /\ elapsed' > 0 /\ taken' = 1..elapsed'
         /\ energy' < config.maxEnergy
         /\ source' \in Trusted
         /\ stage \in Stages /\ stageSamples \in Nat
         /\ config.settle \in Nat /\ config.measure \in Nat /\ config.max \in Nat
         /\ config.settle > 0 /\ config.measure > 1
         /\ config.tracking \in Int /\ config.levels \in [Stages -> Int]
         /\ o \in ObservationType
         /\ reason = "NONE"
<1> USE DEF IInv
<1>1. Refusal(seq, o) = "NONE"
  BY DEF Account
<1>2. phase \in Active /\ version = Version /\ ConfigValid(config) /\ ~Untrusted(o)
  BY <1>1 DEF Refusal
<1>3. config \in ConfigType
  BY ConfigTyped
<1>4. o \in ObservationType
  BY ObservationsAssumption
<1>5. energy' < config.maxEnergy
  BY <1>3, <1>4 DEF Account, OverLimit, TypeOK, ConfigType, ObservationType
<1>6. source' \in Trusted
  BY <1>2 DEF Account, Untrusted
<1>7. /\ config.settle \in Nat /\ config.measure \in Nat /\ config.max \in Nat
      /\ config.settle > 0 /\ config.measure > 1
      /\ config.tracking \in Int /\ config.levels \in [Stages -> Int]
  BY <1>2, <1>3, ConfigsAssumption DEF ConfigValid, ConfigType
<1>8. elapsed \in Nat /\ elapsed' = elapsed + 1 /\ taken' = 1..elapsed'
  <2>1. seq = elapsed + 1 /\ elapsed' = elapsed + 1 /\ taken' = taken \cup {seq}
    BY <1>1, <1>2 DEF Account, Refusal
  <2>2. elapsed \in Nat /\ taken = 1..elapsed
    BY <1>2 DEF TypeOK, SamplesSound
  <2>3. (1..elapsed) \cup {elapsed + 1} = 1..(elapsed + 1)
    BY <2>2
  <2>4. QED
    BY <2>1, <2>2, <2>3
<1>9. QED
  BY <1>2, <1>4, <1>5, <1>6, <1>7, <1>8 DEF Account, TypeOK, RunConfigured

\* A run that is not too late goes on in the phase it is given.
LEMMA ContinueCases ==
  ASSUME NEW p, Continue(p)
  PROVE  \/ Stop("TIMEOUT")
         \/ ~(elapsed + 1 >= config.max) /\ phase' = p /\ UNCHANGED <<reason, result>>
BY DEF Continue

LEMMA SettleInv ==
  ASSUME IInv, TypeOK', NEW seq, NEW o \in Observations, Settle(seq, o)
  PROVE  IInv'
<1>1. /\ Account(seq, o) /\ ~OverLimit(o) /\ phase = "SETTLING"
      /\ UNCHANGED <<stage, windows>>
  BY DEF Settle
<1>2. CASE Stop("TIMEOUT")
  BY <1>2, StopInv
<1>3. CASE ~(elapsed + 1 >= config.max) /\ UNCHANGED <<reason, result>>
           /\ phase' \in Active
  <2>1. RunConfigured'
    BY <1>1, <1>3, AdmittedFacts DEF RunConfigured, Active, ConfigValid
  <2>2. BudgetsLeft'
    BY <1>1, <1>3, AdmittedFacts DEF BudgetsLeft
  <2>3. ClocksAgree' /\ WindowsFollowStages'
    <3>1. /\ elapsed = stage * (config.settle + config.measure) + stageSamples
          /\ stageSamples < config.settle
      BY <1>1 DEF IInv, ClocksAgree, Active
    <3>2. \A s \in Stages :
            windows[s].count = IF s < stage THEN config.measure ELSE 0
      BY <1>1, AdmittedFacts DEF IInv, WindowsFollowStages, Active, Stages
    <3> DEFINE before == stage * (config.settle + config.measure)
    <3>3. before \in Int /\ elapsed = before + stageSamples
      BY <1>1, <3>1, AdmittedFacts DEF Stages
    <3>4. before' = before
      BY <1>1, AdmittedFacts
    <3> HIDE DEF before
    <3>5. CASE stageSamples + 1 >= config.settle
      <4>1. phase' = "SAMPLING" /\ stageSamples' = 0
        BY <1>3, <3>5 DEF Settle, Continue
      <4>2. elapsed' = before + config.settle + stageSamples'
        BY <1>1, <3>1, <3>3, <3>5, <4>1, AdmittedFacts
      <4>3. ClocksAgree'
        BY <1>1, <3>4, <4>1, <4>2, AdmittedFacts DEF ClocksAgree, before
      <4>4. WindowsFollowStages'
        BY <1>1, <3>2, <4>1, AdmittedFacts DEF WindowsFollowStages, Stages
      <4>5. QED
        BY <4>3, <4>4
    <3>6. CASE ~(stageSamples + 1 >= config.settle)
      <4>1. phase' = "SETTLING" /\ stageSamples' = stageSamples + 1
        BY <1>3, <3>6 DEF Settle, Continue
      <4>2. elapsed' = before + stageSamples' /\ stageSamples' < config.settle
        BY <1>1, <3>1, <3>3, <3>6, <4>1, AdmittedFacts
      <4>3. ClocksAgree'
        BY <1>1, <3>4, <4>1, <4>2, AdmittedFacts DEF ClocksAgree, before
      <4>4. WindowsFollowStages'
        BY <1>1, <3>2, <4>1, AdmittedFacts DEF WindowsFollowStages, Stages
      <4>5. QED
        BY <4>3, <4>4
    <3>7. QED
      BY <3>5, <3>6
  <2>4. SamplesSound'
    BY <1>1, <1>3, AdmittedFacts DEF IInv, SamplesSound, Active, Wide
  <2>5. QED
    BY <1>1, <1>3, <2>1, <2>2, <2>3, <2>4
       DEF IInv, ResultIffComplete, CompleteMeansEvidence, BoundsContainEstimate,
           Active
<1>4. QED
  BY <1>2, <1>3 DEF Settle, Continue, Active

\* The window a kept sample leaves: one longer, within its spans and on level.
LEMMA KeptFacts ==
  ASSUME IInv, NEW seq, NEW o \in Observations, Kept(seq, o)
  PROVE  /\ Account(seq, o) /\ ~OverLimit(o) /\ phase = "SAMPLING"
         /\ windows' = [windows EXCEPT ![stage] = NewWindow(o)]
         /\ windows[stage].count = stageSamples /\ stageSamples < config.measure
         /\ elapsed = stage * (config.settle + config.measure)
                        + config.settle + stageSamples
         /\ NewWindow(o).count = stageSamples + 1
         /\ ~Wide(NewWindow(o))
         /\ NewWindow(o).minI >= config.levels[stage] - config.tracking
         /\ NewWindow(o).maxI <= config.levels[stage] + config.tracking
<1> USE DEF IInv
<1>1. /\ Account(seq, o) /\ ~OverLimit(o) /\ phase = "SAMPLING"
      /\ Misfit(o) = "NONE" /\ ~Wide(NewWindow(o))
      /\ windows' = [windows EXCEPT ![stage] = NewWindow(o)]
  BY DEF Kept, Sampled, NewWindows
<1>2. windows[stage].count = stageSamples /\ stageSamples < config.measure
  BY <1>1, AdmittedFacts DEF WindowsFollowStages, ClocksAgree, Active, Stages
<1>3. elapsed = stage * (config.settle + config.measure)
                  + config.settle + stageSamples
  BY <1>1 DEF ClocksAgree, Active
<1> DEFINE w == windows[stage]
           level == config.levels[stage]
           t == config.tracking
<1>4. w \in WindowType /\ level \in Int /\ t \in Int /\ o.i \in Int
  BY <1>1, AdmittedFacts DEF TypeOK, ObservationType
<1>5. o.i - level <= t /\ level - o.i <= t
  BY <1>1, <1>4 DEF Misfit, Abs
<1>6. w.count > 0 => w.minI >= level - t /\ w.maxI <= level + t
  BY <1>1, AdmittedFacts DEF SamplesSound, Active
<1>7. /\ NewWindow(o).count = w.count + 1
      /\ NewWindow(o).minI = IF w.count = 0 THEN o.i ELSE Lesser(w.minI, o.i)
      /\ NewWindow(o).maxI = IF w.count = 0 THEN o.i ELSE Greater(w.maxI, o.i)
  BY DEF NewWindow, Extended
<1>8. /\ NewWindow(o).minI >= level - t
      /\ NewWindow(o).maxI <= level + t
  BY <1>4, <1>5, <1>6, <1>7 DEF WindowType, Lesser, Greater
<1>9. QED
  BY <1>1, <1>2, <1>3, <1>7, <1>8

\* A kept sample leaves every window of the run sound.
LEMMA KeptSound ==
  ASSUME IInv, NEW seq, NEW o \in Observations, Kept(seq, o)
  PROVE  \A s \in Stages :
           windows'[s].count > 0 =>
             /\ ~Wide(windows'[s])
             /\ windows'[s].minI >= config.levels[s] - config.tracking
             /\ windows'[s].maxI <= config.levels[s] + config.tracking
<1>1. \A s \in Stages : s # stage => windows'[s] = windows[s]
  BY KeptFacts DEF IInv, TypeOK
<1>2. windows'[stage] = NewWindow(o)
  BY KeptFacts DEF IInv, TypeOK
<1>3. QED
  BY <1>1, <1>2, KeptFacts DEF IInv, SamplesSound, Active

\* The counts of the windows after a kept sample.
LEMMA KeptCounts ==
  ASSUME IInv, NEW seq, NEW o \in Observations, Kept(seq, o)
  PROVE  \A s \in Stages :
           windows'[s].count =
             IF s < stage THEN config.measure
             ELSE IF s = stage THEN stageSamples + 1 ELSE 0
<1>1. \A s \in Stages : s # stage => windows'[s] = windows[s]
  BY KeptFacts DEF IInv, TypeOK
<1>2. windows'[stage] = NewWindow(o)
  BY KeptFacts DEF IInv, TypeOK
<1>3. QED
  BY <1>1, <1>2, KeptFacts DEF IInv, TypeOK, WindowsFollowStages, Active, Stages

\* A sample that does not fill its window.
LEMMA CollectInv ==
  ASSUME IInv, TypeOK', NEW seq, NEW o \in Observations, Collect(seq, o)
  PROVE  IInv'
<1>1. /\ Kept(seq, o) /\ Account(seq, o) /\ ~OverLimit(o) /\ phase = "SAMPLING"
      /\ NewWindow(o).count # config.measure
      /\ stageSamples' = stageSamples + 1 /\ stage' = stage
  BY DEF Collect, Kept, Sampled
<1>2. CASE Stop("TIMEOUT")
  BY <1>2, StopInv
<1>3. CASE /\ ~(elapsed + 1 >= config.max) /\ UNCHANGED <<reason, result>>
           /\ phase' = "SAMPLING"
  <2>1. RunConfigured'
    BY <1>1, <1>3, AdmittedFacts DEF RunConfigured, Active, ConfigValid
  <2>2. BudgetsLeft'
    BY <1>1, <1>3, AdmittedFacts DEF BudgetsLeft
  <2>3. ClocksAgree'
    <3> DEFINE before == stage * (config.settle + config.measure)
    <3>1. before \in Int /\ before' = before
      BY <1>1, AdmittedFacts DEF Stages
    <3>2. elapsed = before + config.settle + stageSamples
      BY <1>1, KeptFacts
    <3>3. stageSamples' < config.measure
      <4>1. stageSamples + 1 # config.measure /\ stageSamples < config.measure
        BY <1>1, KeptFacts
      <4>2. stageSamples \in Nat /\ config.measure \in Nat
        BY <1>1, AdmittedFacts
      <4>3. QED
        BY <1>1, <4>1, <4>2
    <3> HIDE DEF before
    <3>4. elapsed' = before + config.settle + stageSamples'
      BY <1>1, <3>1, <3>2, AdmittedFacts
    <3>5. QED
      BY <1>1, <1>3, <3>1, <3>3, <3>4, AdmittedFacts DEF ClocksAgree, before
  <2>4. WindowsFollowStages'
    BY <1>1, <1>3, KeptCounts, AdmittedFacts DEF WindowsFollowStages
  <2>5. SamplesSound'
    BY <1>1, KeptSound, AdmittedFacts DEF SamplesSound, Wide
  <2>6. QED
    BY <1>1, <1>3, <2>1, <2>2, <2>3, <2>4, <2>5
       DEF IInv, ResultIffComplete, CompleteMeansEvidence, BoundsContainEstimate
<1>4. QED
  BY <1>2, <1>3 DEF Collect, Continue

\* A sample that fills a window before the last.
LEMMA NextStageInv ==
  ASSUME IInv, TypeOK', NEW seq, NEW o \in Observations, NextStage(seq, o)
  PROVE  IInv'
<1>1. /\ Kept(seq, o) /\ Account(seq, o) /\ ~OverLimit(o) /\ phase = "SAMPLING"
      /\ NewWindow(o).count = config.measure
      /\ stageSamples' = 0 /\ stage' = stage + 1 /\ stage # 2
  BY DEF NextStage, Kept, Sampled
<1>2. CASE Stop("TIMEOUT")
  BY <1>2, StopInv
<1>3. CASE /\ ~(elapsed + 1 >= config.max) /\ UNCHANGED <<reason, result>>
           /\ phase' = "SETTLING"
  <2>0. stageSamples + 1 = config.measure
    BY <1>1, KeptFacts
  <2>1. RunConfigured'
    BY <1>1, <1>3, AdmittedFacts DEF RunConfigured, Active, ConfigValid
  <2>2. BudgetsLeft'
    BY <1>1, <1>3, AdmittedFacts DEF BudgetsLeft
  <2>3. ClocksAgree'
    <3> DEFINE span == config.settle + config.measure
    <3>1. stage * span + span = (stage + 1) * span /\ stage * span \in Int
      BY <1>1, AdmittedFacts DEF Stages
    <3>2. /\ elapsed' = elapsed + 1 /\ stageSamples \in Nat
          /\ config.settle \in Nat /\ config.measure \in Nat
          /\ elapsed = stage * span + config.settle + stageSamples
      BY <1>1, KeptFacts, AdmittedFacts
    <3>3. elapsed' = (stage + 1) * span
      BY <2>0, <3>1, <3>2
    <3>4. QED
      BY <1>1, <1>3, <3>3, AdmittedFacts DEF ClocksAgree
  <2>4. WindowsFollowStages'
    BY <1>1, <1>3, <2>0, KeptCounts, AdmittedFacts DEF WindowsFollowStages, Stages
  <2>5. SamplesSound'
    BY <1>1, KeptSound, AdmittedFacts DEF SamplesSound, Wide
  <2>6. QED
    BY <1>1, <1>3, <2>1, <2>2, <2>3, <2>4, <2>5
       DEF IInv, ResultIffComplete, CompleteMeansEvidence, BoundsContainEstimate
<1>4. QED
  BY <1>2, <1>3 DEF NextStage, Continue

\* The sample that completes the run.
LEMMA PublishInv ==
  ASSUME IInv, TypeOK', NEW seq, NEW o \in Observations, Publish(seq, o)
  PROVE  IInv'
<1>1. /\ Kept(seq, o) /\ Account(seq, o) /\ ~OverLimit(o) /\ phase = "SAMPLING"
      /\ NewWindow(o).count = config.measure /\ stage = 2
      /\ phase' = "COMPLETE" /\ reason' = reason
      /\ result' = Estimate(NewWindows(o))
      /\ Objection(NewWindows(o), o) = "NONE"
      /\ windows' = NewWindows(o)
  BY DEF Publish, Closing, Kept, Sampled
<1>2. NewWindows(o) \in [Stages -> WindowType]
  BY <1>1 DEF TypeOK
<1>3. stageSamples + 1 = config.measure
  BY <1>1, KeptFacts
<1>4. ConfigValid(config)' /\ config \in ConfigType
  BY <1>1, AdmittedFacts, ConfigTyped DEF IInv, ConfigValid
<1>5. ResultIffComplete' /\ BoundsContainEstimate'
  BY <1>1, <1>2, <1>4, AdmittedFacts, PublishedFit
     DEF ResultIffComplete, BoundsContainEstimate
<1>6. elapsed' = Needed(config)
  <2>1. /\ config.settle \in Nat /\ config.measure \in Nat /\ stageSamples \in Nat
        /\ elapsed' = elapsed + 1
    BY <1>1, AdmittedFacts
  <2>2. elapsed = 2 * (config.settle + config.measure) + config.settle + stageSamples
    BY <1>1, KeptFacts
  <2>3. QED
    BY <1>3, <2>1, <2>2 DEF Needed
<1>7. elapsed' <= config.max
  BY <1>1, AdmittedFacts DEF IInv, BudgetsLeft
<1>8. \A s \in Stages : windows'[s].count = config.measure
  BY <1>1, <1>3, KeptCounts DEF Stages
<1>9. CompleteMeansEvidence'
  <2>1. /\ energy' < config'.maxEnergy /\ source' \in Trusted /\ reason' = "NONE"
        /\ elapsed' = Needed(config') /\ elapsed' <= config'.max
        /\ taken' = 1..elapsed' /\ config' = config
    BY <1>1, <1>6, <1>7, AdmittedFacts
  <2>2. \A s \in Stages :
          /\ ~Wide(windows'[s])
          /\ windows'[s].minI >= config.levels[s] - config.tracking
          /\ windows'[s].maxI <= config.levels[s] + config.tracking
    <3>1. config.measure > 0
      BY <1>1, AdmittedFacts
    <3>2. QED
      BY <1>1, <1>8, <3>1, KeptSound
  <2>3. QED
    BY <1>4, <1>8, <2>1, <2>2 DEF CompleteMeansEvidence, Needed, Wide
<1>10. RunConfigured'
  BY <1>1, <1>4, AdmittedFacts DEF RunConfigured, Active
<1>11. QED
  BY <1>1, <1>5, <1>9, <1>10
     DEF IInv, BudgetsLeft, ClocksAgree, WindowsFollowStages, SamplesSound, Active

LEMMA NextInv ==
  ASSUME IInv, [Next]_vars
  PROVE  IInv'
<1>t. TypeOK'
  BY NextTyped DEF IInv
<1>1. ASSUME NEW c \in Configs, StartAccepted(c) PROVE IInv'
  BY <1>t, <1>1, StartInv
<1>2. ASSUME NEW c \in Configs, StartRejected(c) PROVE IInv'
  BY <1>t, <1>2, StopInv DEF StartRejected
<1>3. CASE Abort
  BY <1>t, <1>3, StopInv DEF Abort
<1>4. ASSUME NEW seq, NEW o \in Observations, Observe(seq, o) PROVE IInv'
  <2>1. CASE Refuse(seq, o)
    BY <1>t, <2>1, StopInv DEF Refuse
  <2>2. CASE Trip(seq, o)
    BY <1>t, <2>2, StopInv DEF Trip
  <2>3. CASE Settle(seq, o)
    BY <1>t, <2>3, SettleInv
  <2>4. CASE DropMisfit(seq, o)
    BY <1>t, <2>4, StopInv DEF DropMisfit
  <2>5. CASE Unsettle(seq, o)
    BY <1>t, <2>5, StopInv DEF Unsettle
  <2>6. CASE Collect(seq, o)
    BY <1>t, <2>6, CollectInv
  <2>7. CASE NextStage(seq, o)
    BY <1>t, <2>7, NextStageInv
  <2>8. CASE Reject(seq, o)
    BY <1>t, <2>8, StopInv DEF Reject
  <2>9. CASE Publish(seq, o)
    BY <1>t, <2>9, PublishInv
  <2>10. QED
    BY <1>4, <2>1, <2>2, <2>3, <2>4, <2>5, <2>6, <2>7, <2>8, <2>9 DEF Observe
<1>5. CASE UNCHANGED vars
  BY <1>5
     DEF vars, IInv, TypeOK, RunConfigured, BudgetsLeft, ClocksAgree,
         WindowsFollowStages, SamplesSound, ResultIffComplete,
         CompleteMeansEvidence, BoundsContainEstimate, ConfigValid, Wide, Needed
<1>6. QED
  BY <1>1, <1>2, <1>3, <1>4, <1>5 DEF Next

LEMMA Invariance == Spec => []IInv
<1>1. Init => IInv
  BY InitInv
<1>2. IInv /\ [Next]_vars => IInv'
  BY NextInv
<1>3. QED
  BY <1>1, <1>2, PTL DEF Spec

-----------------------------------------------------------------------------
(* The safety properties.                                                  *)

\* The three sample counters of a running state always tell the same time.
THEOREM ClocksAlwaysAgree == Spec => []ClocksAgree
<1>1. IInv => ClocksAgree
  BY DEF IInv
<1>2. QED
  BY <1>1, Invariance, PTL

\* The windows of a running state always hold just the samples of their stages.
THEOREM WindowsAlwaysFollow == Spec => []WindowsFollowStages
<1>1. IInv => WindowsFollowStages
  BY DEF IInv
<1>2. QED
  BY <1>1, Invariance, PTL

\* Together: a restart, a stage change and every refused sample keep the counters
\* and the windows in step.
THEOREM AlwaysInStep == Spec => []InStep
<1>1. IInv => InStep
  BY DEF IInv, InStep
<1>2. QED
  BY <1>1, Invariance, PTL

\* Whatever the configuration and the observations, a complete run rests on
\* three full, settled, tracked windows of one source, inside both budgets.
THEOREM EvidenceBehindResults == Spec => []CompleteMeansEvidence
<1>1. IInv => CompleteMeansEvidence
  BY DEF IInv
<1>2. QED
  BY <1>1, Invariance, PTL

\* A published estimate always lies between bounds inside the declared range.
THEOREM EstimatesBounded == Spec => []BoundsContainEstimate
<1>1. IInv => BoundsContainEstimate
  BY DEF IInv
<1>2. QED
  BY <1>1, Invariance, PTL

\* While the run goes on a current is granted, and only then.
LEMMA GrantedIffActive ==
  ASSUME IInv
  PROVE  Granted <=> phase \in Active
<1> SUFFICES ASSUME phase \in Active PROVE Granted
  BY DEF Granted
<1>1. version = Version /\ ConfigValid(config)
  BY DEF IInv, RunConfigured
<1>2. elapsed < config.max /\ energy < config.maxEnergy
  BY DEF IInv, BudgetsLeft
<1>3. stage < 3 /\ energy >= 0
  BY DEF IInv, TypeOK, Stages
<1>4. QED
  BY <1>1, <1>2, <1>3 DEF Granted

\* A current is granted in the running states and in no other.
THEOREM AuthorityIsRunning == Spec => []AuthorityFollowsPhase
<1>1. IInv => AuthorityFollowsPhase
  BY GrantedIffActive DEF AuthorityFollowsPhase
<1>2. QED
  BY <1>1, Invariance, PTL

\* The energy budget is overrun by one interval at most, and that faults.
THEOREM OvershootBounded == Spec => OvershootOnce
<1>1. ASSUME IInv, [Next]_vars
      PROVE  [energy' > energy =>
                /\ energy < config.maxEnergy
                /\ energy' >= config.maxEnergy => phase' = "FAULT"]_vars
  <2> SUFFICES ASSUME Next, energy' > energy
               PROVE  /\ energy < config.maxEnergy
                      /\ energy' >= config.maxEnergy => phase' = "FAULT"
    BY <1>1
  <2>t. energy \in Nat
    BY <1>1 DEF IInv, TypeOK
  <2>1. ASSUME NEW c \in Configs, StartAccepted(c) \/ StartRejected(c) PROVE FALSE
    BY <2>1, <2>t DEF StartAccepted, StartRejected, Cleared
  <2>2. ASSUME Abort PROVE FALSE
    BY <2>2, <2>t DEF Abort
  <2>3. ASSUME NEW seq, NEW o \in Observations, Refuse(seq, o) PROVE FALSE
    BY <2>3, <2>t DEF Refuse
  <2>4. ASSUME NEW seq, NEW o \in Observations, Observe(seq, o)
        PROVE  Account(seq, o) /\ (Trip(seq, o) \/ ~OverLimit(o))
    BY <2>3, <2>4
       DEF Observe, Trip, Settle, DropMisfit, Unsettle, Collect, NextStage, Reject,
           Publish, Closing, Kept, Sampled
  <2>5. ASSUME NEW seq, NEW o \in Observations, Observe(seq, o)
        PROVE  /\ energy < config.maxEnergy
               /\ energy' >= config.maxEnergy => phase' = "FAULT"
    <3>1. energy < config.maxEnergy
      BY <1>1, <2>4, <2>5 DEF IInv, BudgetsLeft, Account, Refusal
    <3>2. CASE Trip(seq, o)
      BY <3>1, <3>2 DEF Trip, Stop, FaultReasons
    <3>3. CASE ~OverLimit(o)
      <4>1. config.maxEnergy \in Int /\ o.power \in Nat
        BY <1>1, ConfigTyped, ObservationsAssumption
           DEF IInv, ConfigType, ObservationType
      <4>2. ~(energy' >= config.maxEnergy)
        BY <2>4, <2>5, <3>3, <4>1, <2>t DEF OverLimit, Account
      <4>3. QED
        BY <3>1, <4>2
    <3>4. QED
      BY <2>4, <2>5, <3>2, <3>3
  <2>6. QED
    BY <2>1, <2>2, <2>5 DEF Next
<1>2. QED
  BY <1>1, Invariance, PTL DEF Spec, OvershootOnce

-----------------------------------------------------------------------------
(* The identifier implements Acquisition.                                  *)

\* The initial state is an idle acquisition.
LEMMA InitMaps == Init => A!Init
BY DEF Init, A!Init, Mode, Active, ContractOf, Needed, ZeroConfig, A!NoContract

\* A stop of a run that still has budget is a failure, counted or not.
LEMMA StopMaps ==
  ASSUME IInv, phase \in Active, NEW r, Stop(r), config' = config,
         elapsed' \in {elapsed, elapsed + 1}
  PROVE  A!Fail
<1>1. Mode = "active" /\ Mode' \in {"degraded", "fault"}
  BY DEF Mode, Active, Stop
<1>2. elapsed < config.max
  BY DEF IInv, BudgetsLeft
<1>3. ~(result # ZeroResult) /\ ~(result # ZeroResult)'
  BY DEF IInv, ResultIffComplete, Active, Stop
<1>4. QED
  BY <1>1, <1>2, <1>3 DEF A!Fail, ContractOf, Needed

\* A stop outside a run withdraws what was there.
LEMMA StopAbandons ==
  ASSUME NEW r, Stop(r), Mode' = "fault", config' = config, elapsed' = elapsed
  PROVE  A!Abandon
BY DEF A!Abandon, Stop, ContractOf, Needed

\* A run that goes on has taken one more sample, short of need and budget.
LEMMA ContinueMaps ==
  ASSUME IInv, phase \in Active, IInv', phase' \in Active,
         config' = config, elapsed' = elapsed + 1
  PROVE  A!Accept
<1>1. Mode = "active" /\ Mode' = "active"
  BY DEF Mode, Active
<1>2. elapsed + 1 < config.max
  BY DEF IInv, BudgetsLeft
<1>3. elapsed + 1 < Needed(config)
  <2>1. config.settle \in Nat /\ config.measure \in Nat /\ config.measure > 0
        /\ config.settle > 0
    BY ConfigTyped, ConfigsAssumption DEF IInv, RunConfigured, ConfigValid, ConfigType
  <2>2. ClocksAgree' /\ stage' \in Stages /\ stageSamples' \in Nat
    BY DEF IInv, TypeOK
  <2>3. elapsed' < 3 * (config.settle + config.measure)
    BY <2>1, <2>2 DEF ClocksAgree, Stages, Active
  <2>4. QED
    BY <2>3 DEF Needed
<1>4. (result # ZeroResult) = FALSE /\ (result # ZeroResult)' = FALSE
  BY DEF IInv, ResultIffComplete, Active
<1>5. QED
  BY <1>1, <1>2, <1>3, <1>4 DEF A!Accept, ContractOf, Needed

LEMMA NextMaps ==
  ASSUME IInv, [Next]_vars
  PROVE  [A!Next]_(A!vars)
<1>i. IInv'
  BY NextInv
<1>1. ASSUME NEW c \in Configs, StartAccepted(c) PROVE A!Begin
  <2>1. Mode' = "active"
    BY <1>1 DEF StartAccepted, Mode, Active
  <2>2. ContractOf(config)' \in {ContractOf(d) : d \in {e \in Configs : ConfigValid(e)}}
    BY <1>1 DEF StartAccepted, ContractOf, Needed
  <2>3. QED
    BY <1>1, <2>1, <2>2 DEF A!Begin, StartAccepted, Cleared
<1>2. ASSUME NEW c \in Configs, StartRejected(c) PROVE A!RefuseStart
  <2>1. Mode' = "fault"
    BY <1>2 DEF StartRejected, Stop, FaultReasons, Mode, Active
  <2>2. ContractOf(config)' = A!NoContract
    BY <1>2 DEF StartRejected, ContractOf, Needed, ZeroConfig, A!NoContract
  <2>3. QED
    BY <1>2, <2>1, <2>2 DEF A!RefuseStart, StartRejected, Cleared
<1>3. ASSUME Abort PROVE A!Abandon
  BY <1>3, StopAbandons DEF Abort, Stop, FaultReasons, Mode, Active
<1>4. ASSUME NEW seq, NEW o \in Observations, Observe(seq, o) PROVE A!Next
  <2>a. ASSUME Account(seq, o)
        PROVE  phase \in Active /\ config' = config /\ elapsed' = elapsed + 1
    BY <2>a DEF Account, Refusal
  <2>1. CASE Refuse(seq, o)
    <3>1. CASE phase \in Active
      BY <1>4, <2>1, <3>1, StopMaps DEF Refuse, A!Next, A!Progress
    <3>2. CASE phase \notin Active
      <4>1. Refusal(seq, o) = "BAD_CONFIG"
        BY <3>2 DEF Refusal
      <4>2. Stop("BAD_CONFIG") /\ Mode' = "fault"
        BY <2>1, <4>1 DEF Refuse, Stop, FaultReasons, Mode, Active
      <4>3. QED
        BY <2>1, <4>2, StopAbandons DEF Refuse, A!Next
    <3>3. QED
      BY <3>1, <3>2
  <2>2. CASE Trip(seq, o)
    BY <2>2, <2>a, StopMaps DEF Trip, A!Next, A!Progress
  <2>3. CASE Settle(seq, o)
    BY <1>i, <2>3, <2>a, StopMaps, ContinueMaps
       DEF Settle, Continue, Active, A!Next, A!Progress
  <2>4. CASE DropMisfit(seq, o)
    BY <2>4, <2>a, StopMaps DEF DropMisfit, Sampled, A!Next, A!Progress
  <2>5. CASE Unsettle(seq, o)
    BY <2>5, <2>a, StopMaps DEF Unsettle, Sampled, A!Next, A!Progress
  <2>6. CASE Collect(seq, o)
    BY <1>i, <2>6, <2>a, StopMaps, ContinueMaps
       DEF Collect, Kept, Sampled, Continue, Active, A!Next, A!Progress
  <2>7. CASE NextStage(seq, o)
    BY <1>i, <2>7, <2>a, StopMaps, ContinueMaps
       DEF NextStage, Kept, Sampled, Continue, Active, A!Next, A!Progress
  <2>8. CASE Reject(seq, o)
    BY <2>8, <2>a, StopMaps DEF Reject, Closing, Kept, Sampled, A!Next, A!Progress
  <2>9. CASE Publish(seq, o)
    <3>1. /\ phase \in Active /\ config' = config /\ elapsed' = elapsed + 1
          /\ phase' = "COMPLETE"
      BY <2>9, <2>a DEF Publish, Closing, Kept, Sampled
    <3>2. Mode = "active" /\ Mode' = "complete"
      BY <3>1 DEF Mode, Active
    <3>3. elapsed' = Needed(config) /\ elapsed' <= config.max
      BY <1>i, <3>1 DEF IInv, CompleteMeansEvidence, Needed
    <3>4. (result # ZeroResult)' = TRUE
      BY <1>i, <3>1 DEF IInv, ResultIffComplete
    <3>5. A!Complete
      BY <3>1, <3>2, <3>3, <3>4 DEF A!Complete, ContractOf, Needed
    <3>6. QED
      BY <3>5 DEF A!Next, A!Progress
  <2>10. QED
    BY <1>4, <2>1, <2>2, <2>3, <2>4, <2>5, <2>6, <2>7, <2>8, <2>9 DEF Observe
<1>5. CASE UNCHANGED vars
  BY <1>5 DEF vars, A!vars, Mode, ContractOf, Needed
<1>6. QED
  BY <1>1, <1>2, <1>3, <1>4, <1>5 DEF Next, A!Next

\* For every set of configurations and observations the identifier behaves as a
\* bounded acquisition: one result, at the sample it needs, inside the budget.
THEOREM Implementation == Spec => ImplementsAcquisition
<1>1. Init => A!Init
  BY InitMaps
<1>2. IInv /\ [Next]_vars => [A!Next]_(A!vars)
  BY NextMaps
<1>3. QED
  BY <1>1, <1>2, Invariance, PTL DEF Spec, ImplementsAcquisition, A!Spec

-----------------------------------------------------------------------------
(* A published estimate is as certain as it was asked to be.               *)

\* What a caller may divide by and compare: positive denominators, and an
\* interval no wider on either side than the configuration allows.
EstimateNarrow ==
  phase = "COMPLETE" =>
    /\ result.resistance.den > 0 /\ result.lower.den > 0 /\ result.upper.den > 0
    /\ ~Uncertain(result)

\* A run becomes complete in one way.
LEMMA OnlyPublishCompletes ==
  ASSUME [Next]_vars, phase' = "COMPLETE"
  PROVE  \/ UNCHANGED vars
         \/ \E seq, o : o \in Observations /\ Publish(seq, o)
<1>s. ASSUME NEW r, Stop(r) PROVE FALSE
  BY <1>s DEF Stop
<1>c. ASSUME NEW p, p # "COMPLETE", Continue(p) PROVE FALSE
  BY <1>c, <1>s DEF Continue
<1>1. ASSUME NEW c \in Configs, StartAccepted(c) \/ StartRejected(c) PROVE FALSE
  BY <1>1, <1>s DEF StartAccepted, StartRejected
<1>2. ASSUME NEW seq, NEW o \in Observations, Observe(seq, o) PROVE Publish(seq, o)
  BY <1>2, <1>s, <1>c
     DEF Observe, Refuse, Trip, Settle, DropMisfit, Unsettle, Collect, NextStage, Reject
<1>3. ASSUME Abort PROVE FALSE
  BY <1>3, <1>s DEF Abort
<1>4. QED
  BY <1>1, <1>2, <1>3 DEF Next

\* The fit that is published has passed the test of its uncertainty.
LEMMA PublishNarrow ==
  ASSUME IInv, NEW seq, NEW o \in Observations, Publish(seq, o)
  PROVE  EstimateNarrow'
<1> DEFINE ws == NewWindows(o)
           di == ws[1].sumI - ws[0].sumI
           ui == 2 * config.cu * config.measure
<1>1. /\ Account(seq, o) /\ ~OverLimit(o)
      /\ windows' = ws /\ result' = Estimate(ws) /\ Objection(ws, o) = "NONE"
  BY DEF Publish, Closing, Kept, Sampled
<1>2. /\ config' = config /\ config \in ConfigType /\ ConfigValid(config)
  BY <1>1, AdmittedFacts, ConfigTyped DEF IInv
<1>3. Excited(ws) /\ ~Uncertain(Estimate(ws))
  BY <1>1 DEF Objection
<1>4. /\ config.cu \in Int /\ config.measure \in Int /\ config.separation \in Int
      /\ config.cu >= 0 /\ config.measure > 0 /\ config.separation > 0
  BY <1>2 DEF ConfigType, ConfigValid
<1>5. di \in Int
  <2>1. ws \in [Stages -> WindowType]
    BY <1>1, ExtendedTyped DEF IInv, TypeOK, NewWindows, NewWindow
  <2>2. QED
    BY <2>1 DEF Stages, WindowType
<1>6. ui \in Int /\ ui >= 0 /\ di - ui > 0
  <2> DEFINE p == config.separation * config.measure
  <2>1. p \in Int /\ p > 0 /\ ui \in Int /\ ui >= 0
    BY <1>4
  <2>2. di - ui > p
    BY <1>3 DEF Excited
  <2> HIDE DEF p, ui, di
  <2>3. QED
    BY <1>5, <2>1, <2>2
<1>7. /\ Estimate(ws).resistance.den = di
      /\ Estimate(ws).lower.den = di + ui
      /\ Estimate(ws).upper.den = di - ui
  BY DEF Estimate, Frac
<1> HIDE DEF ws, di, ui
<1>8. /\ result'.resistance.den > 0 /\ result'.lower.den > 0 /\ result'.upper.den > 0
  BY <1>1, <1>5, <1>6, <1>7
<1>9. ~Uncertain(result)'
  BY <1>1, <1>2, <1>3 DEF Uncertain, Above, Minus, Frac
<1>10. QED
  BY <1>8, <1>9 DEF EstimateNarrow

LEMMA NextNarrow ==
  ASSUME IInv, EstimateNarrow, [Next]_vars
  PROVE  EstimateNarrow'
<1> SUFFICES ASSUME phase' = "COMPLETE" PROVE EstimateNarrow'
  BY DEF EstimateNarrow
<1>1. CASE UNCHANGED vars
  BY <1>1 DEF vars, EstimateNarrow, Uncertain
<1>2. ASSUME NEW seq, NEW o \in Observations, Publish(seq, o) PROVE EstimateNarrow'
  BY <1>2, PublishNarrow
<1>3. QED
  BY <1>1, <1>2, OnlyPublishCompletes

\* A fraction p / d of at most mu is below n / a, which is at least lo > mu.
LEMMA NarrowIsBelow ==
  ASSUME NEW p \in Int, NEW d \in Int, NEW n \in Int, NEW a \in Int,
         NEW mu \in Int, NEW lo \in Int,
         d > 0, a > 0, mu < lo, p <= mu * d, lo * a <= n
  PROVE  p * a < n * d
<1>1. p * a <= (mu * d) * a
  OBVIOUS
<1>2. (lo * a) * d <= n * d
  OBVIOUS
<1>3. (mu * d) * a < (lo * a) * d
  <2> DEFINE da == d * a
  <2>1. da \in Int /\ da > 0
    OBVIOUS
  <2>2. (mu * d) * a = mu * da /\ (lo * a) * d = lo * da
    OBVIOUS
  <2> HIDE DEF da
  <2>3. mu * da < lo * da
    BY <2>1
  <2>4. QED
    BY <2>2, <2>3
<1>4. QED
  <2> DEFINE x == p * a
             y == (mu * d) * a
             z == (lo * a) * d
             w == n * d
  <2>1. x \in Int /\ y \in Int /\ z \in Int /\ w \in Int
    OBVIOUS
  <2>2. x <= y /\ y < z /\ z <= w
    BY <1>1, <1>2, <1>3
  <2> HIDE DEF x, y, z, w
  <2>3. x < w
    BY <2>1, <2>2
  <2>4. QED
    BY <2>3 DEF x, w

\* lo <= l / b <= n / a, with positive denominators.
LEMMA AboveLeast ==
  ASSUME NEW l \in Int, NEW b \in Int, NEW n \in Int, NEW a \in Int, NEW lo \in Int,
         a > 0, b > 0, lo * b <= l, l * a <= n * b
  PROVE  lo * a <= n
<1>1. (lo * b) * a <= l * a
  OBVIOUS
<1>2. (lo * a) * b = (lo * b) * a
  OBVIOUS
<1> DEFINE q == lo * a
<1>3. q \in Int /\ q * b <= n * b
  <2> DEFINE x == (lo * b) * a
             y == l * a
             z == n * b
  <2>1. x \in Int /\ y \in Int /\ z \in Int /\ q * b = x /\ x <= y /\ y <= z
    BY <1>1, <1>2
  <2> HIDE DEF x, y, z, q
  <2>2. x <= z
    BY <2>1
  <2>3. QED
    BY <2>1, <2>2 DEF z, q
<1> HIDE DEF q
<1>4. q <= n
  BY <1>3
<1>5. QED
  BY <1>4 DEF q

\* A complete run hands on a resistance that is more than its uncertainty.
LEMMA CompleteIsAccepted ==
  ASSUME IInv, EstimateNarrow, phase = "COMPLETE"
  PROVE  FluxAccepts(result)
<1>1. /\ ConfigValid(config) /\ config \in ConfigType /\ result \in ResultType
  BY ConfigTyped DEF IInv, TypeOK, CompleteMeansEvidence
<1>2. config.maxUncertainty < config.minR
  <2>1. config # ZeroConfig
    BY <1>1 DEF ConfigValid, ZeroConfig
  <2>2. QED
    BY <2>1, CompiledPolicy DEF IInv, TypeOK
<1> DEFINE n == result.resistance.num
           a == result.resistance.den
           l == result.lower.num
           b == result.lower.den
           u == result.upper.num
           c == result.upper.den
           mu == config.maxUncertainty
           lo == config.minR
<1>3. /\ n \in Int /\ a \in Int /\ l \in Int /\ b \in Int /\ u \in Int /\ c \in Int
      /\ mu \in Int /\ lo \in Int
  BY <1>1 DEF ResultType, Fractions, ConfigType
<1>4. a > 0 /\ b > 0 /\ c > 0 /\ ~Uncertain(result)
  BY DEF EstimateNarrow
<1>5. lo * b <= l * 1 /\ l * a <= n * b
  BY DEF IInv, BoundsContainEstimate, AtMost, Frac
<1>6. /\ ~(n * b - l * a > mu * (a * b))
      /\ ~(u * a - n * c > mu * (c * a))
  BY <1>4 DEF Uncertain, Above, Minus, Frac
<1>7. FluxAccepts(result) <=> /\ (n * b - l * a) * a < n * (a * b)
                             /\ (u * a - n * c) * a < n * (c * a)
  BY DEF FluxAccepts, Minus, Frac
<1> HIDE DEF n, a, l, b, u, c, mu, lo
<1>8. lo * a <= n
  BY <1>3, <1>4, <1>5, AboveLeast
<1>9. mu < lo
  BY <1>2 DEF mu, lo
<1>10. \A x, d \in Int : d > 0 /\ ~(x > mu * d) => x * a < n * d
  <2>1. SUFFICES ASSUME NEW x \in Int, NEW d \in Int, d > 0, ~(x > mu * d)
                 PROVE  x * a < n * d
    OBVIOUS
  <2>2. x <= mu * d
    <3> DEFINE y == mu * d
    <3>1. y \in Int /\ ~(x > y)
      BY <1>3, <2>1
    <3> HIDE DEF y
    <3>2. x <= y
      BY <3>1
    <3>3. QED
      BY <3>2 DEF y
  <2>3. QED
    BY <1>3, <1>4, <1>8, <1>9, <2>1, <2>2, NarrowIsBelow
<1>11. /\ n * b - l * a \in Int /\ u * a - n * c \in Int
       /\ a * b \in Int /\ c * a \in Int /\ a * b > 0 /\ c * a > 0
  BY <1>3, <1>4
<1>12. QED
  BY <1>6, <1>7, <1>10, <1>11

-----------------------------------------------------------------------------
(* The program that drives the identifier: what holds where it stands.     *)

\* The reasons only a program out of step with its identifier could cause.
OwnFaults == {"BAD_CONFIG", "BAD_OBSERVATION", "ABORTED"}

\* Where main is tells how far the run is: a start has accepted the run before
\* the map is read, an interval is only entered with a request in hand and with
\* the books in step, and only an ended run is reported.
ProgramFollowsRun ==
  /\ at \in {"start", "map", "head", "interval", "report", "exited"}
  /\ at = "start" => phase = "IDLE" /\ piAge = 0 /\ steps = 0
  /\ at = "map" => phase = "SETTLING" /\ elapsed = 0 /\ steps = 0
  /\ at = "head" => phase \in Active \cup Terminal /\ reason \notin OwnFaults
  /\ at = "interval" => phase \in Active /\ steps = elapsed /\ piAge = elapsed
  /\ at = "report" => phase \in Terminal
  /\ at # "exited" => exit = -1

EInv == IInv /\ EstimateNarrow /\ ProgramFollowsRun /\ BooksInStep /\ HandOffUsable

LEMMA ExperimentInitInv == ExperimentInit => EInv
<1> SUFFICES ASSUME ExperimentInit PROVE EInv
  OBVIOUS
<1>1. IInv
  BY InitInv DEF ExperimentInit
<1>2. QED
  BY <1>1 DEF EInv, ExperimentInit, Init, EstimateNarrow, ProgramFollowsRun,
              BooksInStep, HandOffUsable

-----------------------------------------------------------------------------
(* One interval.                                                           *)

\* In an interval the next sequence is the one the identifier expects, and the
\* numbers are finite: it refuses the observation for its source or not at all.
LEMMA IntervalRefusal ==
  ASSUME EInv, NEW o \in Observations, at = "interval"
  PROVE  Refusal(steps + 1, o) \in {"UNTRUSTED_VOLTAGE", "NONE"}
<1>1. phase \in Active /\ steps = elapsed
  BY DEF EInv, ProgramFollowsRun
<1>2. version = Version /\ ConfigValid(config) /\ elapsed < config.max
  BY <1>1 DEF EInv, IInv, RunConfigured, BudgetsLeft
<1>3. /\ stage \in Nat /\ stage < 3 /\ energy \in Nat
      /\ elapsed \in Nat /\ config.max \in Nat
  BY ConfigTyped DEF EInv, IInv, TypeOK, Stages, ConfigType
<1>4. o.rep = "FINITE"
  BY FiniteSensors
<1>5. /\ ~(elapsed >= config.max) /\ ~(stage >= 3) /\ ~(energy < 0)
      /\ steps + 1 = elapsed + 1
  BY <1>1, <1>2, <1>3
<1>6. Refusal(steps + 1, o) = IF Untrusted(o) THEN "UNTRUSTED_VOLTAGE" ELSE "NONE"
  BY <1>1, <1>2, <1>4, <1>5 DEF Refusal
<1>7. QED
  BY <1>6

\* The window is where the stage counter says it is.
LEMMA IntervalMisfit ==
  ASSUME IInv, phase = "SAMPLING", NEW o
  PROVE  Misfit(o) \in {"TRACKING", "NONE"}
<1>1. windows[stage].count = stageSamples /\ stageSamples < config.measure
  BY DEF IInv, TypeOK, WindowsFollowStages, ClocksAgree, Active, Stages
<1>2. stageSamples \in Nat /\ config.measure \in Nat
  BY ConfigTyped DEF IInv, TypeOK, ConfigType
<1>3. QED
  BY <1>1, <1>2 DEF Misfit

\* What an observation makes of the run, seen by the program: it ends for a
\* reason that is not the program's, or it goes on with one sample more.
LEMMA Observed ==
  ASSUME EInv, NEW o \in Observations, at = "interval", Observe(steps + 1, o)
  PROVE  \/ phase' \in Terminal /\ reason' \notin OwnFaults
         \/ phase' \in Active /\ reason' \notin OwnFaults /\ elapsed' = elapsed + 1
<1> DEFINE seq == steps + 1
           Ends == phase' \in Terminal /\ reason' \notin OwnFaults
           Lasts == /\ phase' \in Active /\ reason' \notin OwnFaults
                    /\ elapsed' = elapsed + 1
<1>a. IInv /\ phase \in Active /\ reason = "NONE"
  BY DEF EInv, ProgramFollowsRun, IInv, RunConfigured
<1>s. ASSUME NEW r, Stop(r), r \notin OwnFaults PROVE Ends
  BY <1>s DEF Stop, Terminal
<1>c. ASSUME NEW p \in Active, Continue(p), Account(seq, o) PROVE Ends \/ Lasts
  BY <1>a, <1>c, <1>s DEF Continue, Account, OwnFaults
<1>1. CASE Refuse(seq, o)
  BY <1>1, <1>s, IntervalRefusal DEF Refuse, OwnFaults
<1>2. CASE Trip(seq, o)
  BY <1>2, <1>s DEF Trip, OwnFaults
<1>3. CASE Settle(seq, o)
  BY <1>3, <1>c DEF Settle, Active
<1>4. CASE DropMisfit(seq, o)
  BY <1>4, <1>a, <1>s, IntervalMisfit DEF DropMisfit, Sampled, OwnFaults
<1>5. CASE Unsettle(seq, o)
  BY <1>5, <1>s DEF Unsettle, OwnFaults
<1>6. CASE Collect(seq, o)
  BY <1>6, <1>c DEF Collect, Kept, Sampled, Active
<1>7. CASE NextStage(seq, o)
  BY <1>7, <1>c DEF NextStage, Kept, Sampled, Active
<1>8. CASE Reject(seq, o)
  <2>1. Objection(NewWindows(o), o) \notin OwnFaults
    BY FiniteSensors DEF Objection, OwnFaults
  <2>2. QED
    BY <1>8, <1>s, <2>1 DEF Reject
<1>9. CASE Publish(seq, o)
  BY <1>9, <1>a DEF Publish, Terminal, OwnFaults
<1>10. QED
  BY <1>1, <1>2, <1>3, <1>4, <1>5, <1>6, <1>7, <1>8, <1>9 DEF Observe

-----------------------------------------------------------------------------
(* Every step of the program.                                              *)

\* The program calls the identifier only as ResistanceId lets a caller.
LEMMA StepDrives ==
  ASSUME EInv, [Step]_all
  PROVE  [Next]_vars
<1>1. ASSUME NEW c \in Configs, StartRun(c) PROVE Next
  BY <1>1 DEF StartRun, Next
<1>2. ASSUME NEW o \in Observations, Interval(o) PROVE Next
  <2>1. Observe(steps + 1, o) /\ at = "interval"
    BY <1>2 DEF Interval
  <2>2. steps + 1 \in Sequences
    BY <2>1 DEF EInv, ProgramFollowsRun, Sequences
  <2>3. QED
    BY <2>1, <2>2 DEF Next
<1>3. CASE Leave
  BY <1>3 DEF Leave, Next
<1>4. CASE BadOption \/ ReadMap \/ Requested \/ IntervalRejected \/ Report
  BY <1>4 DEF BadOption, ReadMap, Requested, IntervalRejected, Report
<1>5. CASE UNCHANGED all
  BY <1>5 DEF all
<1>6. QED
  BY <1>1, <1>2, <1>3, <1>4, <1>5 DEF Step

\* A report of an ended run is whole, and what it accepts the campaign can use.
LEMMA ReportUsable ==
  ASSUME EInv, Report
  PROVE  HandOffUsable'
<1>1. CASE output' = Printed /\ exit' = 0
  <2>1. phase \in Terminal /\ config' = config
    BY DEF EInv, ProgramFollowsRun, Report, vars
  <2>2. /\ output'.text = "whole" /\ output'.phase = phase
        /\ output'.accepted = (phase = "COMPLETE")
        /\ output'.estimate = IF phase = "COMPLETE" THEN result ELSE ZeroResult
        /\ output'.samples = [s \in Stages |-> windows[s].count]
    BY <1>1 DEF Printed
  <2>3. phase = "COMPLETE" =>
          FluxAccepts(result) /\ \A s \in Stages : windows[s].count = config.measure
    BY CompleteIsAccepted DEF EInv, IInv, CompleteMeansEvidence
  <2>4. QED
    BY <2>1, <2>2, <2>3 DEF HandOffUsable, EndPhases, Terminal, FluxAccepts
<1>2. CASE exit' = 1
  BY <1>2 DEF HandOffUsable
<1>3. QED
  BY <1>1, <1>2 DEF Report

\* What is printed stays true of the run, which is not touched after it.
LEMMA StepUsable ==
  ASSUME EInv, [Step]_all
  PROVE  HandOffUsable'
<1>1. CASE Report
  BY <1>1, ReportUsable
<1>2. CASE exit' # 0
  BY <1>2 DEF HandOffUsable
<1>3. ASSUME exit' = exit, at # "exited" PROVE HandOffUsable'
  BY <1>3 DEF EInv, ProgramFollowsRun, HandOffUsable
<1>4. CASE UNCHANGED all
  BY <1>4 DEF all, vars, EInv, HandOffUsable, FluxAccepts
<1>5. CASE BadOption \/ IntervalRejected
  BY <1>2, <1>5 DEF BadOption, IntervalRejected, Exit
<1>6. CASE \/ \E c \in Configs : StartRun(c)
           \/ ReadMap
  BY <1>2, <1>3, <1>6 DEF StartRun, ReadMap, Exit
<1>7. CASE \/ Requested
           \/ \E o \in Observations : Interval(o)
           \/ Leave
  BY <1>3, <1>7 DEF Requested, Interval, Leave
<1>8. QED
  BY <1>1, <1>4, <1>5, <1>6, <1>7 DEF Step

\* Every step leaves the program where the run allows it, and the books in step.
LEMMA StepFollows ==
  ASSUME EInv, [Step]_all
  PROVE  ProgramFollowsRun' /\ BooksInStep'
<1> DEFINE Goal == ProgramFollowsRun' /\ BooksInStep'
<1>e. ASSUME at' = "exited" PROVE Goal
  BY <1>e DEF ProgramFollowsRun, BooksInStep
<1>1. ASSUME NEW c \in Configs, StartRun(c) PROVE Goal
  <2>1. at = "start" /\ steps' = 0 /\ exit = -1
    BY <1>1 DEF StartRun, loop, EInv, ProgramFollowsRun
  <2>2. CASE StartAccepted(c) /\ at' = "map" /\ UNCHANGED exit
    BY <2>1, <2>2 DEF StartAccepted, Cleared, ProgramFollowsRun, BooksInStep
  <2>3. QED
    BY <1>1, <1>e, <2>2 DEF StartRun, Exit
<1>2. CASE ReadMap
  <2>1. CASE at' = "head" /\ piAge' = 0 /\ UNCHANGED exit
    <3>1. /\ phase' = "SETTLING" /\ reason' = "NONE" /\ elapsed' = 0 /\ steps' = 0
          /\ exit' = -1
      BY <1>2, <2>1
         DEF ReadMap, EInv, IInv, RunConfigured, ProgramFollowsRun, vars, Active
    <3>2. QED
      BY <2>1, <3>1 DEF ProgramFollowsRun, BooksInStep, Active, OwnFaults
  <2>2. QED
    BY <1>2, <1>e, <2>1 DEF ReadMap, Exit
<1>3. CASE Requested
  <2>1. phase \in Active /\ steps = elapsed /\ piAge = elapsed /\ exit = -1
    BY <1>3, GrantedIffActive DEF Requested, EInv, BooksInStep, ProgramFollowsRun
  <2>2. QED
    BY <1>3, <2>1 DEF Requested, vars, loop, ProgramFollowsRun, BooksInStep
<1>4. ASSUME NEW o \in Observations, Interval(o) PROVE Goal
  <2>1. /\ at = "interval" /\ at' = "head" /\ exit' = exit /\ exit = -1
        /\ steps' = elapsed + 1 /\ piAge' = elapsed + 1 /\ Observe(steps + 1, o)
    BY <1>4 DEF Interval, EInv, ProgramFollowsRun
  <2>2. \/ phase' \in Terminal /\ reason' \notin OwnFaults
        \/ phase' \in Active /\ reason' \notin OwnFaults /\ elapsed' = elapsed + 1
    BY <2>1, Observed
  <2>3. QED
    BY <2>1, <2>2 DEF ProgramFollowsRun, BooksInStep, Active, Terminal
<1>5. CASE Leave
  <2>1. /\ at' = "report" /\ phase \in Terminal /\ reason \notin OwnFaults
        /\ exit' = -1
    BY <1>5, GrantedIffActive DEF EInv, Leave, ProgramFollowsRun
  <2>2. phase' = phase /\ reason' = reason
    BY <1>5, <2>1 DEF Leave, vars
  <2>3. QED
    BY <2>1, <2>2 DEF ProgramFollowsRun, BooksInStep, OwnFaults
<1>6. CASE BadOption \/ IntervalRejected \/ Report
  BY <1>6, <1>e DEF BadOption, IntervalRejected, Report, Exit
<1>7. CASE UNCHANGED all
  BY <1>7 DEF all, vars, loop, EInv, ProgramFollowsRun, BooksInStep
<1>8. QED
  BY <1>1, <1>2, <1>3, <1>4, <1>5, <1>6, <1>7 DEF Step

LEMMA ExperimentInvariance == ExperimentSpec => []EInv
<1>1. ExperimentInit => EInv
  BY ExperimentInitInv
<1>2. EInv /\ [Step]_all => EInv'
  BY StepDrives, NextInv, NextNarrow, StepFollows, StepUsable DEF EInv
<1>3. QED
  BY <1>1, <1>2, PTL DEF ExperimentSpec

-----------------------------------------------------------------------------
(* What the program may count on, and what may be counted on of it.        *)

\* The program calls the identifier only in ways a caller of ResistanceId may:
\* what is proved of every caller holds in the program.
THEOREM ProgramDrivesIdentifier == ExperimentSpec => Spec
<1>1. ExperimentInit => Init
  BY DEF ExperimentInit
<1>2. EInv /\ [Step]_all => [Next]_vars
  BY StepDrives
<1>3. QED
  BY <1>1, <1>2, ExperimentInvariance, PTL DEF ExperimentSpec, Spec

\* For every set of options and everything plant and sensors may show, the
\* program counts what the identifier counts, and no run ends by its own fault.
THEOREM BooksAlwaysInStep == ExperimentSpec => []BooksInStep
<1>1. EInv => BooksInStep
  BY DEF EInv
<1>2. QED
  BY <1>1, ExperimentInvariance, PTL

\* Every resistance the program accepts, with the interval the campaign makes
\* of its bounds, is one a flux program can be started with.
THEOREM HandOffAlwaysUsable == ExperimentSpec => []HandOffUsable
<1>1. EInv => HandOffUsable
  BY DEF EInv
<1>2. QED
  BY <1>1, ExperimentInvariance, PTL
=============================================================================
