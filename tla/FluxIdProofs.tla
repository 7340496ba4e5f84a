---------------------------- MODULE FluxIdProofs ----------------------------
(***************************************************************************)
(* The acquisition of a flux point is correct for every set of             *)
(* configurations and observations, and so is the program that drives it,  *)
(* for every set of options.  FiniteSensors, what the program assumes of   *)
(* its observations, is cited in the lemmas on the program only.           *)
(***************************************************************************)
EXTENDS FluxExperiment, TLAPS

-----------------------------------------------------------------------------
(* Facts about the data.                                                   *)

\* The configuration in the state has the configuration's type, also when it
\* is the zeroed one.
LEMMA ConfigTyped ==
  ASSUME TypeOK
  PROVE  config \in ConfigType
<1>1. ZeroConfig \in ConfigType
  BY DEF ZeroConfig, ConfigType, Stages
<1>2. QED
  BY <1>1, ConfigsAssumption DEF TypeOK

\* Adding a sample to a window gives a window.
LEMMA ExtendedTyped ==
  ASSUME NEW w \in WindowType, NEW o \in Observations
  PROVE  Extended(w, o) \in WindowType
<1>1. o \in ObservationType
  BY ObservationsAssumption
<1>2. o.i \in Int /\ o.v \in Int /\ o.w \in Int
  BY <1>1 DEF ObservationType
<1>3. QED
  BY <1>2 DEF Extended, WindowType, Lesser, Greater

\* The parts of a fit are integers.
LEMMA PartsTyped ==
  ASSUME NEW w \in WindowType, config \in ConfigType
  PROVE  Residual(w) \in Int /\ Error(w) \in Int
<1>1. /\ config.measure \in Int /\ config.r \in Int /\ config.ur \in Int
      /\ config.cu \in Int /\ config.vu \in Int /\ config.wu \in Int
      /\ config.model \in Int /\ config.gradient \in Int /\ config.target \in Int
  BY DEF ConfigType
<1>2. /\ w.sumI \in Int /\ w.sumV \in Int
      /\ w.minI \in Int /\ w.maxI \in Int /\ w.minW \in Int /\ w.maxW \in Int
  BY DEF WindowType
<1>3. Residual(w) \in Int
  BY <1>1, <1>2 DEF Residual
<1> DEFINE top == Greater(Abs(w.minW), Abs(w.maxW)) + config.wu
           dist == Distance(w)
<1>4. top \in Int /\ dist \in Int /\ Abs(w.sumI) \in Int
  BY <1>1, <1>2 DEF Distance, Greater, Abs
<1> HIDE DEF top, dist
<1>5. top * config.gradient * dist \in Int
  BY <1>1, <1>4
<1>6. Error(w) \in Int
  BY <1>1, <1>4, <1>5 DEF Error, top, dist
<1>7. QED
  BY <1>3, <1>6

\* What a fit computes are fractions.
LEMMA EstimateTyped ==
  ASSUME NEW ws \in [Stages -> WindowType], config \in ConfigType
  PROVE  /\ Estimate(ws).flux \in Fractions
         /\ Estimate(ws).uncertainty \in Fractions
         /\ Estimate(ws).offset \in Fractions
         /\ Estimate(ws).residual \in Fractions
<1>1. \A k \in Stages : /\ ws[k] \in WindowType /\ ws[k].sumW \in Int
                        /\ Residual(ws[k]) \in Int /\ Error(ws[k]) \in Int
  BY PartsTyped DEF WindowType
<1>2. config.wu \in Int /\ config.measure \in Int
  BY DEF ConfigType
<1> DEFINE m == config.measure
           d == ws[0].sumW - ws[1].sumW
           ud == 2 * config.wu * m
           dy == Residual(ws[0]) - Residual(ws[1])
           y0 == Residual(ws[0])
           y2 == Residual(ws[2]) - Residual(ws[0])
           w0 == ws[0].sumW
           w2 == ws[2].sumW - ws[0].sumW
           e == Error(ws[0]) + Error(ws[1])
<1>3. /\ m \in Int /\ d \in Int /\ ud \in Int /\ dy \in Int /\ y0 \in Int
      /\ y2 \in Int /\ w0 \in Int /\ w2 \in Int /\ e \in Int /\ Abs(dy) \in Int
  BY <1>1, <1>2 DEF Stages, Abs
<1>4. /\ Estimate(ws).flux = Frac(dy, d)
      /\ Estimate(ws).uncertainty = Frac(e * d + Abs(dy) * ud, d * (d - ud))
      /\ Estimate(ws).offset = Frac(y0 * d - w0 * dy, m * d)
      /\ Estimate(ws).residual = Frac(y2 * d - w2 * dy, m * d)
  BY DEF Estimate
<1> HIDE DEF m, d, ud, dy, y0, y2, w0, w2, e
<1>5. /\ e * d + Abs(dy) * ud \in Int /\ d * (d - ud) \in Int
      /\ y0 * d - w0 * dy \in Int /\ m * d \in Int /\ y2 * d - w2 * dy \in Int
  BY <1>3
<1>6. QED
  BY <1>3, <1>4, <1>5 DEF Frac, Fractions

LEMMA ZeroResultTyped == ZeroResult \in ResultType
BY DEF ZeroResult, Zero, Frac, Fractions, ResultType

LEMMA ZeroWindowTyped == ZeroWindow \in WindowType
BY DEF ZeroWindow, WindowType

-----------------------------------------------------------------------------
(* Type correctness.                                                       *)

\* A stop gives one of the reasons, and the phase and result it gives fit.
LEMMA StopTyped ==
  ASSUME NEW r \in Reasons, Stop(r)
  PROVE  phase' \in Phases /\ reason' \in Reasons /\ result' \in ResultType
BY ZeroResultTyped DEF Stop, Phases, Terminal

\* Refusals, misfits and objections are reasons.
LEMMA VerdictsTyped ==
  /\ \A seq, o : Refusal(seq, o) \in Reasons
  /\ \A o : Misfit(o) \in Reasons
  /\ \A ws : \A o \in Observations : Objection(ws, o) \in Reasons
<1> USE DEF Reasons, FaultReasons, DegradedReasons
<1>1. \A seq, o : Refusal(seq, o) \in Reasons
  BY DEF Refusal
<1>2. \A o : Misfit(o) \in Reasons
  BY DEF Misfit
<1>3. \A ws, o : AxisObjection(ws, o) \in Reasons
  BY DEF AxisObjection
<1>4. \A o \in Observations : o.other \in Reasons \cup {"TILTED"}
  BY ObservationsAssumption DEF ObservationType
<1>5. \A ws : \A o \in Observations : Objection(ws, o) \in Reasons
  BY <1>3, <1>4 DEF Objection
<1>6. QED
  BY <1>1, <1>2, <1>5

LEMMA InitTyped == Init => TypeOK
BY ZeroResultTyped, ZeroWindowTyped
   DEF Init, TypeOK, Version, Phases, Reasons, Stages, Sources

LEMMA ContinueTyped ==
  ASSUME TypeOK, NEW p \in Active, Continue(p)
  PROVE  phase' \in Phases /\ reason' \in Reasons /\ result' \in ResultType
<1>1. CASE elapsed + 1 >= config.max
  BY <1>1, StopTyped DEF Continue, Reasons, DegradedReasons
<1>2. CASE ~(elapsed + 1 >= config.max)
  BY <1>2 DEF Continue, TypeOK, Phases
<1>3. QED
  BY <1>1, <1>2

\* The part of a step that accounting for a sample decides keeps its type.
LEMMA AccountTyped ==
  ASSUME TypeOK, NEW seq, NEW o \in Observations, Account(seq, o)
  PROVE  /\ version' \in {0, Version}
         /\ config' \in Configs \cup {ZeroConfig}
         /\ source' \in Sources /\ energy' \in Nat /\ elapsed' \in Nat
         /\ taken' \subseteq Nat
<1>1. o.source \in Sources /\ o.power \in Nat
  BY ObservationsAssumption DEF ObservationType
<1>2. seq = elapsed + 1
  BY DEF Account, Refusal
<1>3. taken' \subseteq Nat
  BY <1>2 DEF Account, TypeOK
<1>4. QED
  BY <1>1, <1>3 DEF Account, TypeOK

\* Every step of the identifier keeps every variable in its type.
LEMMA NextTyped ==
  ASSUME TypeOK, [Next]_vars
  PROVE  TypeOK'
<1> USE DEF TypeOK
<1>w. [s \in Stages |-> ZeroWindow] \in [Stages -> WindowType]
  BY ZeroWindowTyped
<1>c. Cleared => /\ version' \in {0, Version} /\ stage' \in Stages
                 /\ stageSamples' \in Nat /\ elapsed' \in Nat /\ energy' \in Nat
                 /\ source' \in Sources /\ windows' \in [Stages -> WindowType]
                 /\ result' \in ResultType /\ taken' \subseteq Nat
  BY <1>w, ZeroResultTyped DEF Cleared, Stages, Sources
<1>1. ASSUME NEW c \in Configs, StartAccepted(c) PROVE TypeOK'
  BY <1>1, <1>c DEF StartAccepted, Phases, Active, Reasons
<1>2. ASSUME NEW c \in Configs, StartRejected(c) PROVE TypeOK'
  BY <1>2, <1>c, StopTyped DEF StartRejected, Reasons, FaultReasons
<1>3. ASSUME Abort PROVE TypeOK'
  BY <1>3, StopTyped DEF Abort, Reasons, FaultReasons
<1>4. ASSUME NEW seq, NEW o \in Observations, Observe(seq, o) PROVE TypeOK'
  <2>n. NewWindows(o) \in [Stages -> WindowType]
    BY ExtendedTyped DEF NewWindows, NewWindow
  <2>1. CASE Refuse(seq, o)
    BY <2>1, StopTyped, VerdictsTyped DEF Refuse
  <2>2. CASE Trip(seq, o)
    BY <2>2, StopTyped, AccountTyped DEF Trip, Reasons, FaultReasons
  <2>3. CASE Settle(seq, o)
    BY <2>3, ContinueTyped, AccountTyped DEF Settle, Active
  <2>4. CASE DropMisfit(seq, o)
    BY <2>4, StopTyped, VerdictsTyped, AccountTyped DEF DropMisfit, Sampled
  <2>e. Torn(o) \subseteq [Stages -> WindowType]
    <3>1. windows[stage].count \in Nat /\ NewWindow(o) \in WindowType
      BY ExtendedTyped DEF NewWindow, WindowType
    <3>2. [NewWindow(o) EXCEPT !.count = windows[stage].count] \in WindowType
      BY <3>1 DEF WindowType
    <3>3. QED
      BY <3>2 DEF Torn
  <2>5. CASE Tear(seq, o)
    BY <2>5, <2>e, StopTyped, AccountTyped
       DEF Tear, Sampled, Reasons, FaultReasons
  <2>6. CASE Unsettle(seq, o)
    BY <2>6, <2>n, StopTyped, AccountTyped
       DEF Unsettle, Entered, Sampled, Reasons, DegradedReasons
  <2>7. CASE Collect(seq, o)
    BY <2>7, <2>n, ContinueTyped, AccountTyped
       DEF Collect, Kept, Entered, Sampled, Active
  <2>8. CASE NextStage(seq, o)
    BY <2>8, <2>n, ContinueTyped, AccountTyped
       DEF NextStage, Kept, Entered, Sampled, Active, Stages
  <2>9. CASE Reject(seq, o)
    BY <2>9, <2>n, StopTyped, VerdictsTyped, AccountTyped
       DEF Reject, Closing, Kept, Entered, Sampled
  <2>10. CASE Publish(seq, o)
    <3>1. result' \in ResultType
      <4>1. config \in ConfigType /\ AtOrigin \in BOOLEAN
        BY ConfigTyped DEF AtOrigin, ConfigType
      <4>2. QED
        BY <2>10, <2>n, <4>1, EstimateTyped DEF Publish, ResultType
    <3>2. /\ Account(seq, o) /\ windows' = NewWindows(o) /\ stage' = stage
          /\ stageSamples' = stageSamples + 1 /\ phase' = "COMPLETE" /\ reason' = reason
      BY <2>10 DEF Publish, Closing, Kept, Entered, Sampled
    <3>3. QED
      BY <2>n, <3>1, <3>2, AccountTyped DEF Phases, Terminal
  <2>11. QED
    BY <1>4, <2>1, <2>2, <2>3, <2>4, <2>5, <2>6, <2>7, <2>8, <2>9, <2>10 DEF Observe
<1>5. CASE UNCHANGED vars
  BY <1>5 DEF vars
<1>6. QED
  BY <1>1, <1>2, <1>3, <1>4, <1>5 DEF Next

\* The state always holds values of its declared types; in particular the stage
\* index never leaves the arrays of speeds and windows, for any configuration.
THEOREM TypeCorrect == Spec => []TypeOK
<1>1. Init => TypeOK
  BY InitTyped
<1>2. TypeOK /\ [Next]_vars => TypeOK'
  BY NextTyped
<1>3. QED
  BY <1>1, <1>2, PTL DEF Spec

-----------------------------------------------------------------------------
(* The inductive invariant.                                                *)

\* Only a valid configuration runs, and it stays in the state to the end.
RunConfigured ==
  /\ phase \in Active \cup {"COMPLETE"} => version = Version /\ ConfigValid(config)
  /\ phase \in Active => reason = "NONE"

\* A running state has a sample and some energy left.
BudgetsLeft ==
  phase \in Active => elapsed < config.max /\ energy < config.maxEnergy

\* The two halves of InStep.
ClocksAgree ==
  phase \in Active =>
    LET before == stage * (config.settle + config.measure)
    IN IF phase = "SETTLING"
       THEN elapsed = before + stageSamples /\ stageSamples < config.settle
       ELSE /\ elapsed = before + config.settle + stageSamples
            /\ stageSamples < config.measure

WindowsFollowStages ==
  phase \in Active =>
    \A s \in Stages :
      windows[s].count =
        IF s < stage THEN config.measure
        ELSE IF s = stage /\ phase = "SAMPLING" THEN stageSamples
        ELSE 0

\* The samples a running state kept are on level, from a trusted source.
SamplesSound ==
  phase \in Active =>
    /\ taken = 1..elapsed
    /\ elapsed > 0 => source \in Trusted
    /\ \A s \in Stages : windows[s].count > 0 => OnLevel(s)

\* The result is nonzero exactly in a complete state.
ResultIffComplete == result # ZeroResult <=> phase = "COMPLETE"

IInv ==
  /\ TypeOK
  /\ RunConfigured
  /\ BudgetsLeft
  /\ ClocksAgree
  /\ WindowsFollowStages
  /\ SamplesSound
  /\ ResultIffComplete
  /\ CompleteMeansEvidence
  /\ ReferenceIsMagnet

\* A fit without objection is published as something, in range, and as the
\* reference of the magnet only when it is one.
LEMMA PublishedFit ==
  ASSUME NEW ws \in [Stages -> WindowType], NEW o,
         config \in ConfigType, ConfigValid(config),
         Objection(ws, o) = "NONE"
  PROVE  LET e == Estimate(ws)
         IN /\ e.flux # Zero
            /\ Observable(ws)
            /\ ~Above(Plus(Magnitude(e.flux), e.uncertainty), config.maxFlux)
            /\ AtOrigin => Above(Minus(e.flux, e.uncertainty), 0)
<1> DEFINE e == Estimate(ws)
<1>1. /\ Observable(ws) /\ AxisObjection(ws, o) = "NONE" /\ ~NoReference(ws, o)
  BY DEF Objection
<1>2. ~Above(Plus(Magnitude(e.flux), e.uncertainty), config.maxFlux)
  BY <1>1 DEF AxisObjection
<1>3. AtOrigin => Above(Minus(e.flux, e.uncertainty), 0)
  BY <1>1 DEF NoReference
<1>4. e.flux # Zero
  <2> DEFINE d == ws[0].sumW - ws[1].sumW
             p == config.separation * config.measure
             ud == 2 * config.wu * config.measure
  <2>1. /\ ws[0].sumW \in Int /\ ws[1].sumW \in Int
        /\ config.separation \in Int /\ config.measure \in Int /\ config.wu \in Int
    BY DEF WindowType, Stages, ConfigType
  <2>2. config.separation >= 1 /\ config.measure >= 2 /\ config.wu >= 0
    BY <2>1 DEF ConfigValid
  <2>3. p \in Int /\ p >= 1 /\ ud \in Int /\ ud >= 0 /\ d \in Int
    BY <2>1, <2>2
  <2>4. d - ud > p
    BY <1>1 DEF Observable, Apart
  <2>5. e.flux.den = d
    BY DEF Estimate, Frac
  <2> HIDE DEF d, p, ud, e
  <2>6. e.flux.den # 1
    BY <2>3, <2>4, <2>5
  <2>7. QED
    BY <2>6 DEF Zero, Frac
<1>5. QED
  BY <1>1, <1>2, <1>3, <1>4

-----------------------------------------------------------------------------
(* Every step keeps the invariant.                                         *)

LEMMA InitInv == Init => IInv
<1> SUFFICES ASSUME Init PROVE IInv
  OBVIOUS
<1>1. TypeOK
  BY InitTyped
<1>2. phase = "IDLE" /\ result = ZeroResult
  BY DEF Init
<1>3. QED
  BY <1>1, <1>2
     DEF IInv, RunConfigured, BudgetsLeft, ClocksAgree, WindowsFollowStages,
         SamplesSound, ResultIffComplete, CompleteMeansEvidence,
         ReferenceIsMagnet, Active

\* In a state that is stopped without a result only the types are left to show.
LEMMA StoppedInv ==
  ASSUME TypeOK', phase' \in {"DEGRADED", "FAULT"}, result' = ZeroResult
  PROVE  IInv'
BY DEF IInv, RunConfigured, BudgetsLeft, ClocksAgree, WindowsFollowStages,
       SamplesSound, ResultIffComplete, CompleteMeansEvidence,
       ReferenceIsMagnet, Active

LEMMA StopInv ==
  ASSUME TypeOK', NEW r, Stop(r)
  PROVE  IInv'
BY StoppedInv DEF Stop

\* A freshly started run.
LEMMA StartInv ==
  ASSUME TypeOK', NEW c \in Configs, StartAccepted(c)
  PROVE  IInv'
<1>1. /\ config' = c /\ phase' = "SETTLING" /\ reason' = "NONE"
      /\ version' = Version /\ stage' = 0 /\ stageSamples' = 0
      /\ elapsed' = 0 /\ energy' = 0
      /\ windows' = [s \in Stages |-> ZeroWindow]
      /\ result' = ZeroResult /\ taken' = {}
  BY DEF StartAccepted, Cleared
<1>2. ConfigValid(c)' /\ c \in ConfigType
  BY ConfigsAssumption DEF StartAccepted, ConfigValid, Abs
<1>3. c.settle > 0 /\ c.max > 0 /\ c.maxEnergy > 0
      /\ c.settle \in Nat /\ c.measure \in Nat
  BY <1>2, ConfigsAssumption DEF ConfigValid, ConfigType
<1>4. \A s \in Stages : windows'[s].count = 0
  BY <1>1 DEF ZeroWindow
<1>5. RunConfigured'
  BY <1>1, <1>2 DEF RunConfigured, StartAccepted
<1>6. BudgetsLeft'
  BY <1>1, <1>3 DEF BudgetsLeft
<1>7. ClocksAgree'
  BY <1>1, <1>3 DEF ClocksAgree
<1>8. WindowsFollowStages'
  BY <1>1, <1>4 DEF WindowsFollowStages, Stages
<1>9. SamplesSound'
  BY <1>1, <1>4 DEF SamplesSound
<1>10. QED
  BY <1>1, <1>5, <1>6, <1>7, <1>8, <1>9
     DEF IInv, ResultIffComplete, CompleteMeansEvidence, ReferenceIsMagnet

\* What is known when a sample has been accounted for and breaks no limit.
LEMMA AdmittedFacts ==
  ASSUME IInv, NEW seq, NEW o \in Observations, Account(seq, o), ~OverLimit(o)
  PROVE  /\ phase \in Active
         /\ version = Version /\ ConfigValid(config)
         /\ config' = config /\ version' = version
         /\ elapsed' = elapsed + 1 /\ elapsed' \in Nat /\ elapsed \in Nat
         /\ elapsed' > 0 /\ taken' = 1..elapsed'
         /\ energy' < config.maxEnergy
         /\ source' \in Trusted
         /\ stage \in Stages /\ stageSamples \in Nat
         /\ config.settle \in Nat /\ config.measure \in Nat /\ config.max \in Nat
         /\ config.settle > 0 /\ config.measure > 1
         /\ config \in ConfigType
         /\ o \in ObservationType
         /\ reason = "NONE"
<1> USE DEF IInv
<1>1. Refusal(seq, o) = "NONE"
  BY DEF Account
<1>2. phase \in Active /\ version = Version /\ ConfigValid(config) /\ ~Untrusted(o)
  BY <1>1 DEF Refusal
<1>3. config \in ConfigType
  BY ConfigTyped
<1>4. o \in ObservationType
  BY ObservationsAssumption
<1>5. energy' < config.maxEnergy
  BY <1>3, <1>4 DEF Account, OverLimit, TypeOK, ConfigType, ObservationType
<1>6. source' \in Trusted
  BY <1>2 DEF Account, Untrusted
<1>7. /\ config.settle \in Nat /\ config.measure \in Nat /\ config.max \in Nat
      /\ config.settle > 0 /\ config.measure > 1
  BY <1>2, <1>3, ConfigsAssumption DEF ConfigValid, ConfigType
<1>8. elapsed \in Nat /\ elapsed' = elapsed + 1 /\ taken' = 1..elapsed'
  <2>1. seq = elapsed + 1 /\ elapsed' = elapsed + 1 /\ taken' = taken \cup {seq}
    BY <1>1, <1>2 DEF Account, Refusal
  <2>2. elapsed \in Nat /\ taken = 1..elapsed
    BY <1>2 DEF TypeOK, SamplesSound
  <2>3. (1..elapsed) \cup {elapsed + 1} = 1..(elapsed + 1)
    BY <2>2
  <2>4. QED
    BY <2>1, <2>2, <2>3
<1>9. QED
  BY <1>2, <1>3, <1>4, <1>5, <1>6, <1>7, <1>8 DEF Account, TypeOK, RunConfigured

\* A run that is not too late goes on in the phase it is given.
LEMMA ContinueCases ==
  ASSUME NEW p, Continue(p)
  PROVE  \/ Stop("TIMEOUT")
         \/ ~(elapsed + 1 >= config.max) /\ phase' = p /\ UNCHANGED <<reason, result>>
BY DEF Continue

LEMMA SettleInv ==
  ASSUME IInv, TypeOK', NEW seq, NEW o \in Observations, Settle(seq, o)
  PROVE  IInv'
<1>1. /\ Account(seq, o) /\ ~OverLimit(o) /\ phase = "SETTLING"
      /\ UNCHANGED <<stage, windows>>
  BY DEF Settle
<1>2. CASE Stop("TIMEOUT")
  BY <1>2, StopInv
<1>3. CASE ~(elapsed + 1 >= config.max) /\ UNCHANGED <<reason, result>>
           /\ phase' \in Active
  <2>1. RunConfigured'
    BY <1>1, <1>3, AdmittedFacts DEF RunConfigured, Active, ConfigValid
  <2>2. BudgetsLeft'
    BY <1>1, <1>3, AdmittedFacts DEF BudgetsLeft
  <2>3. ClocksAgree' /\ WindowsFollowStages'
    <3>1. /\ elapsed = stage * (config.settle + config.measure) + stageSamples
          /\ stageSamples < config.settle
      BY <1>1 DEF IInv, ClocksAgree, Active
    <3>2. \A s \in Stages :
            windows[s].count = IF s < stage THEN config.measure ELSE 0
      BY <1>1, AdmittedFacts DEF IInv, WindowsFollowStages, Active, Stages
    <3> DEFINE before == stage * (config.settle + config.measure)
    <3>3. before \in Int /\ elapsed = before + stageSamples
      BY <1>1, <3>1, AdmittedFacts DEF Stages
    <3>4. before' = before
      BY <1>1, AdmittedFacts
    <3> HIDE DEF before
    <3>5. CASE stageSamples + 1 >= config.settle
      <4>1. phase' = "SAMPLING" /\ stageSamples' = 0
        BY <1>3, <3>5 DEF Settle, Continue
      <4>2. elapsed' = before + config.settle + stageSamples'
        BY <1>1, <3>1, <3>3, <3>5, <4>1, AdmittedFacts
      <4>3. ClocksAgree'
        BY <1>1, <3>4, <4>1, <4>2, AdmittedFacts DEF ClocksAgree, before
      <4>4. WindowsFollowStages'
        BY <1>1, <3>2, <4>1, AdmittedFacts DEF WindowsFollowStages, Stages
      <4>5. QED
        BY <4>3, <4>4
    <3>6. CASE ~(stageSamples + 1 >= config.settle)
      <4>1. phase' = "SETTLING" /\ stageSamples' = stageSamples + 1
        BY <1>3, <3>6 DEF Settle, Continue
      <4>2. elapsed' = before + stageSamples' /\ stageSamples' < config.settle
        BY <1>1, <3>1, <3>3, <3>6, <4>1, AdmittedFacts
      <4>3. ClocksAgree'
        BY <1>1, <3>4, <4>1, <4>2, AdmittedFacts DEF ClocksAgree, before
      <4>4. WindowsFollowStages'
        BY <1>1, <3>2, <4>1, AdmittedFacts DEF WindowsFollowStages, Stages
      <4>5. QED
        BY <4>3, <4>4
    <3>7. QED
      BY <3>5, <3>6
  <2>4. SamplesSound'
    BY <1>1, <1>3, AdmittedFacts DEF IInv, SamplesSound, OnLevel, Active, Wide
  <2>5. QED
    BY <1>1, <1>3, <2>1, <2>2, <2>3, <2>4
       DEF IInv, ResultIffComplete, CompleteMeansEvidence, ReferenceIsMagnet,
           Active
<1>4. QED
  BY <1>2, <1>3 DEF Settle, Continue, Active

\* The window a kept sample leaves: one longer, within its spans and on level.
LEMMA KeptFacts ==
  ASSUME IInv, NEW seq, NEW o \in Observations, Kept(seq, o)
  PROVE  /\ Account(seq, o) /\ ~OverLimit(o) /\ phase = "SAMPLING"
         /\ windows' = [windows EXCEPT ![stage] = NewWindow(o)]
         /\ windows[stage].count = stageSamples /\ stageSamples < config.measure
         /\ elapsed = stage * (config.settle + config.measure)
                        + config.settle + stageSamples
         /\ NewWindow(o).count = stageSamples + 1
         /\ ~Wide(NewWindow(o))
         /\ NewWindow(o).minI >= config.target - config.tracking
         /\ NewWindow(o).maxI <= config.target + config.tracking
         /\ NewWindow(o).minW >= config.speeds[stage] - config.werror
         /\ NewWindow(o).maxW <= config.speeds[stage] + config.werror
<1> USE DEF IInv
<1>1. /\ Account(seq, o) /\ ~OverLimit(o) /\ phase = "SAMPLING"
      /\ Misfit(o) = "NONE" /\ ~Wide(NewWindow(o))
      /\ windows' = [windows EXCEPT ![stage] = NewWindow(o)]
  BY DEF Kept, Entered, Sampled, NewWindows
<1>2. windows[stage].count = stageSamples /\ stageSamples < config.measure
  BY <1>1, AdmittedFacts DEF WindowsFollowStages, ClocksAgree, Active, Stages
<1>3. elapsed = stage * (config.settle + config.measure)
                  + config.settle + stageSamples
  BY <1>1 DEF ClocksAgree, Active
<1> DEFINE w == windows[stage]
           n == NewWindow(o)
           speed == config.speeds[stage]
<1>4. /\ w \in WindowType /\ o.i \in Int /\ o.w \in Int /\ speed \in Int
      /\ config.target \in Int /\ config.tracking \in Int /\ config.werror \in Int
  BY <1>1, AdmittedFacts DEF TypeOK, ObservationType, ConfigType
<1>5. Abs(o.i - config.target) <= config.tracking /\ Abs(o.w - speed) <= config.werror
  <2>1. ~OffLevel(o)
    BY <1>1 DEF Misfit
  <2>2. Abs(o.i - config.target) \in Int /\ Abs(o.w - speed) \in Int
    BY <1>4 DEF Abs
  <2>3. QED
    BY <1>4, <2>1, <2>2 DEF OffLevel
<1>6. w.count # 0 => OnLevel(stage)
  BY <1>1, <1>4, AdmittedFacts DEF SamplesSound, Active, WindowType
<1>7. /\ n.count = w.count + 1
      /\ n.minI = IF w.count = 0 THEN o.i ELSE Lesser(w.minI, o.i)
      /\ n.maxI = IF w.count = 0 THEN o.i ELSE Greater(w.maxI, o.i)
      /\ n.minW = IF w.count = 0 THEN o.w ELSE Lesser(w.minW, o.w)
      /\ n.maxW = IF w.count = 0 THEN o.w ELSE Greater(w.maxW, o.w)
  BY DEF NewWindow, Extended
<1>8. /\ w.count # 0 => /\ w.minI >= config.target - config.tracking
                       /\ w.maxI <= config.target + config.tracking
                       /\ w.minW >= speed - config.werror
                       /\ w.maxW <= speed + config.werror
      /\ w.minI \in Int /\ w.maxI \in Int /\ w.minW \in Int /\ w.maxW \in Int
  BY <1>4, <1>6 DEF OnLevel, WindowType
<1> HIDE DEF n, w, speed
<1>9. /\ n.minI >= config.target - config.tracking
      /\ n.maxI <= config.target + config.tracking
  BY <1>4, <1>5, <1>7, <1>8 DEF Lesser, Greater, Abs
<1>10. /\ n.minW >= speed - config.werror
       /\ n.maxW <= speed + config.werror
  BY <1>4, <1>5, <1>7, <1>8 DEF Lesser, Greater, Abs
<1>11. QED
  BY <1>1, <1>2, <1>3, <1>7, <1>9, <1>10 DEF n, w, speed

\* A kept sample leaves every window of the run sound.
LEMMA KeptSound ==
  ASSUME IInv, NEW seq, NEW o \in Observations, Kept(seq, o)
  PROVE  \A s \in Stages : windows'[s].count > 0 => OnLevel(s)'
<1>1. \A s \in Stages : s # stage => windows'[s] = windows[s]
  BY KeptFacts DEF IInv, TypeOK
<1>2. windows'[stage] = NewWindow(o)
  BY KeptFacts DEF IInv, TypeOK
<1>3. config' = config /\ phase = "SAMPLING"
  BY KeptFacts, AdmittedFacts
<1>4. \A s \in Stages : s # stage /\ windows'[s].count > 0 => OnLevel(s)'
  BY <1>1, <1>3 DEF IInv, SamplesSound, Active, OnLevel, Wide
<1>5. \A s \in Stages : s = stage => OnLevel(s)'
  BY <1>2, <1>3, KeptFacts DEF OnLevel, Wide
<1>6. QED
  BY <1>4, <1>5

\* The counts of the windows after a kept sample.
LEMMA KeptCounts ==
  ASSUME IInv, NEW seq, NEW o \in Observations, Kept(seq, o)
  PROVE  \A s \in Stages :
           windows'[s].count =
             IF s < stage THEN config.measure
             ELSE IF s = stage THEN stageSamples + 1 ELSE 0
<1>1. \A s \in Stages : s # stage => windows'[s] = windows[s]
  BY KeptFacts DEF IInv, TypeOK
<1>2. windows'[stage] = NewWindow(o)
  BY KeptFacts DEF IInv, TypeOK
<1>3. QED
  BY <1>1, <1>2, KeptFacts DEF IInv, TypeOK, WindowsFollowStages, Active, Stages

\* A sample that does not fill its window.
LEMMA CollectInv ==
  ASSUME IInv, TypeOK', NEW seq, NEW o \in Observations, Collect(seq, o)
  PROVE  IInv'
<1>1. /\ Kept(seq, o) /\ Account(seq, o) /\ ~OverLimit(o) /\ phase = "SAMPLING"
      /\ NewWindow(o).count # config.measure
      /\ stageSamples' = stageSamples + 1 /\ stage' = stage
  BY DEF Collect, Kept, Entered, Sampled
<1>2. CASE Stop("TIMEOUT")
  BY <1>2, StopInv
<1>3. CASE /\ ~(elapsed + 1 >= config.max) /\ UNCHANGED <<reason, result>>
           /\ phase' = "SAMPLING"
  <2>1. RunConfigured'
    BY <1>1, <1>3, AdmittedFacts DEF RunConfigured, Active, ConfigValid
  <2>2. BudgetsLeft'
    BY <1>1, <1>3, AdmittedFacts DEF BudgetsLeft
  <2>3. ClocksAgree'
    <3> DEFINE before == stage * (config.settle + config.measure)
    <3>1. before \in Int /\ before' = before
      BY <1>1, AdmittedFacts DEF Stages
    <3>2. elapsed = before + config.settle + stageSamples
      BY <1>1, KeptFacts
    <3>3. stageSamples' < config.measure
      <4>1. stageSamples + 1 # config.measure /\ stageSamples < config.measure
        BY <1>1, KeptFacts
      <4>2. stageSamples \in Nat /\ config.measure \in Nat
        BY <1>1, AdmittedFacts
      <4>3. QED
        BY <1>1, <4>1, <4>2
    <3> HIDE DEF before
    <3>4. elapsed' = before + config.settle + stageSamples'
      BY <1>1, <3>1, <3>2, AdmittedFacts
    <3>5. QED
      BY <1>1, <1>3, <3>1, <3>3, <3>4, AdmittedFacts DEF ClocksAgree, before
  <2>4. WindowsFollowStages'
    BY <1>1, <1>3, KeptCounts, AdmittedFacts DEF WindowsFollowStages
  <2>5. SamplesSound'
    BY <1>1, KeptSound, AdmittedFacts DEF SamplesSound, OnLevel, Wide
  <2>6. QED
    BY <1>1, <1>3, <2>1, <2>2, <2>3, <2>4, <2>5
       DEF IInv, ResultIffComplete, CompleteMeansEvidence, ReferenceIsMagnet
<1>4. QED
  BY <1>2, <1>3 DEF Collect, Continue

\* A sample that fills a window before the last.
LEMMA NextStageInv ==
  ASSUME IInv, TypeOK', NEW seq, NEW o \in Observations, NextStage(seq, o)
  PROVE  IInv'
<1>1. /\ Kept(seq, o) /\ Account(seq, o) /\ ~OverLimit(o) /\ phase = "SAMPLING"
      /\ NewWindow(o).count = config.measure
      /\ stageSamples' = 0 /\ stage' = stage + 1 /\ stage # 2
  BY DEF NextStage, Kept, Entered, Sampled
<1>2. CASE Stop("TIMEOUT")
  BY <1>2, StopInv
<1>3. CASE /\ ~(elapsed + 1 >= config.max) /\ UNCHANGED <<reason, result>>
           /\ phase' = "SETTLING"
  <2>0. stageSamples + 1 = config.measure
    BY <1>1, KeptFacts
  <2>1. RunConfigured'
    BY <1>1, <1>3, AdmittedFacts DEF RunConfigured, Active, ConfigValid
  <2>2. BudgetsLeft'
    BY <1>1, <1>3, AdmittedFacts DEF BudgetsLeft
  <2>3. ClocksAgree'
    <3> DEFINE span == config.settle + config.measure
    <3>1. stage * span + span = (stage + 1) * span /\ stage * span \in Int
      BY <1>1, AdmittedFacts DEF Stages
    <3>2. elapsed' = (stage + 1) * span
      BY <1>1, <2>0, <3>1, KeptFacts, AdmittedFacts
    <3>3. QED
      BY <1>1, <1>3, <3>2, AdmittedFacts DEF ClocksAgree
  <2>4. WindowsFollowStages'
    BY <1>1, <1>3, <2>0, KeptCounts, AdmittedFacts DEF WindowsFollowStages, Stages
  <2>5. SamplesSound'
    BY <1>1, KeptSound, AdmittedFacts DEF SamplesSound, OnLevel, Wide
  <2>6. QED
    BY <1>1, <1>3, <2>1, <2>2, <2>3, <2>4, <2>5
       DEF IInv, ResultIffComplete, CompleteMeansEvidence, ReferenceIsMagnet
<1>4. QED
  BY <1>2, <1>3 DEF NextStage, Continue

\* The sample that completes the run.
LEMMA PublishInv ==
  ASSUME IInv, TypeOK', NEW seq, NEW o \in Observations, Publish(seq, o)
  PROVE  IInv'
<1> DEFINE e == Estimate(NewWindows(o))
<1>1. /\ Kept(seq, o) /\ Account(seq, o) /\ ~OverLimit(o) /\ phase = "SAMPLING"
      /\ NewWindow(o).count = config.measure /\ stage = 2
      /\ phase' = "COMPLETE" /\ reason' = reason
      /\ result' = [flux |-> e.flux, uncertainty |-> e.uncertainty,
                    offset |-> e.offset, residual |-> e.residual,
                    pmReference |-> AtOrigin]
      /\ Objection(NewWindows(o), o) = "NONE"
      /\ windows' = NewWindows(o)
  BY DEF Publish, Closing, Kept, Entered, Sampled
<1>2. NewWindows(o) \in [Stages -> WindowType]
  BY <1>1 DEF TypeOK
<1>3. stageSamples + 1 = config.measure
  BY <1>1, KeptFacts
<1>4. ConfigValid(config)' /\ config \in ConfigType /\ config' = config
  BY <1>1, AdmittedFacts, ConfigTyped DEF IInv, ConfigValid
<1>5. /\ e.flux # Zero
      /\ Observable(windows')
      /\ ~Above(Plus(Magnitude(e.flux), e.uncertainty), config.maxFlux)
      /\ AtOrigin => Above(Minus(e.flux, e.uncertainty), 0)
  BY <1>1, <1>2, <1>4, AdmittedFacts, PublishedFit
<1>6. Observable(windows)'
  BY <1>4, <1>5 DEF Observable, Apart
<1> HIDE DEF e
<1>7. ResultIffComplete' /\ ReferenceIsMagnet'
  <2>1. result'.flux # ZeroResult.flux
    BY <1>1, <1>5 DEF ZeroResult
  <2>2. result' # ZeroResult
    BY <2>1
  <2>3. /\ result'.pmReference = AtOrigin /\ result'.flux = e.flux
        /\ result'.uncertainty = e.uncertainty
    BY <1>1
  <2>4. AtOrigin' = AtOrigin
    BY <1>4 DEF AtOrigin
  <2>5. QED
    BY <1>1, <1>5, <2>2, <2>3, <2>4 DEF ResultIffComplete, ReferenceIsMagnet
<1>8. elapsed' = Needed(config)
  <2>1. /\ config.settle \in Nat /\ config.measure \in Nat /\ stageSamples \in Nat
        /\ elapsed' = elapsed + 1
    BY <1>1, AdmittedFacts
  <2>2. elapsed = 2 * (config.settle + config.measure) + config.settle + stageSamples
    BY <1>1, KeptFacts
  <2>3. QED
    BY <1>3, <2>1, <2>2 DEF Needed
<1>9. elapsed' <= config.max
  BY <1>1, AdmittedFacts DEF IInv, BudgetsLeft
<1>10. \A s \in Stages : windows'[s].count = config.measure
  BY <1>1, <1>3, KeptCounts DEF Stages
<1>11. \A s \in Stages : OnLevel(s)'
  BY <1>1, <1>10, KeptSound, AdmittedFacts
<1>12. ~Above(Plus(Magnitude(result'.flux), result'.uncertainty), config.maxFlux)
  BY <1>1, <1>5
<1>13. CompleteMeansEvidence'
  BY <1>1, <1>4, <1>6, <1>8, <1>9, <1>10, <1>11, <1>12, AdmittedFacts
     DEF CompleteMeansEvidence, Needed
<1>14. RunConfigured'
  BY <1>1, <1>4, AdmittedFacts DEF RunConfigured, Active
<1>15. QED
  BY <1>1, <1>7, <1>13, <1>14
     DEF IInv, BudgetsLeft, ClocksAgree, WindowsFollowStages, SamplesSound, Active

LEMMA NextInv ==
  ASSUME IInv, [Next]_vars
  PROVE  IInv'
<1>t. TypeOK'
  BY NextTyped DEF IInv
<1>1. ASSUME NEW c \in Configs, StartAccepted(c) PROVE IInv'
  BY <1>t, <1>1, StartInv
<1>2. ASSUME NEW c \in Configs, StartRejected(c) PROVE IInv'
  BY <1>t, <1>2, StopInv DEF StartRejected
<1>3. CASE Abort
  BY <1>t, <1>3, StopInv DEF Abort
<1>4. ASSUME NEW seq, NEW o \in Observations, Observe(seq, o) PROVE IInv'
  <2>1. CASE Refuse(seq, o)
    BY <1>t, <2>1, StopInv DEF Refuse
  <2>2. CASE Trip(seq, o)
    BY <1>t, <2>2, StopInv DEF Trip
  <2>3. CASE Settle(seq, o)
    BY <1>t, <2>3, SettleInv
  <2>4. CASE DropMisfit(seq, o)
    BY <1>t, <2>4, StopInv DEF DropMisfit
  <2>5. CASE Tear(seq, o)
    BY <1>t, <2>5, StopInv DEF Tear
  <2>6. CASE Unsettle(seq, o)
    BY <1>t, <2>6, StopInv DEF Unsettle
  <2>7. CASE Collect(seq, o)
    BY <1>t, <2>7, CollectInv
  <2>8. CASE NextStage(seq, o)
    BY <1>t, <2>8, NextStageInv
  <2>9. CASE Reject(seq, o)
    BY <1>t, <2>9, StopInv DEF Reject
  <2>10. CASE Publish(seq, o)
    BY <1>t, <2>10, PublishInv
  <2>11. QED
    BY <1>4, <2>1, <2>2, <2>3, <2>4, <2>5, <2>6, <2>7, <2>8, <2>9, <2>10 DEF Observe
<1>5. CASE UNCHANGED vars
  BY <1>5
     DEF vars, IInv, TypeOK, RunConfigured, BudgetsLeft, ClocksAgree,
         WindowsFollowStages, SamplesSound, ResultIffComplete, OnLevel,
         CompleteMeansEvidence, ReferenceIsMagnet, ConfigValid, Wide, Needed,
         Observable, Apart, AtOrigin
<1>6. QED
  BY <1>1, <1>2, <1>3, <1>4, <1>5 DEF Next

LEMMA Invariance == Spec => []IInv
<1>1. Init => IInv
  BY InitInv
<1>2. IInv /\ [Next]_vars => IInv'
  BY NextInv
<1>3. QED
  BY <1>1, <1>2, PTL DEF Spec

-----------------------------------------------------------------------------
(* The safety properties.                                                  *)

\* The counters and windows of a running state always tell one time.
THEOREM AlwaysInStep == Spec => []InStep
<1>1. IInv => InStep
  BY DEF IInv, InStep, ClocksAgree, WindowsFollowStages
<1>2. QED
  BY <1>1, Invariance, PTL

\* Whatever the configuration and the observations, a complete run rests on
\* three full, tracked windows at speeds apart, of one source, inside both budgets.
THEOREM EvidenceBehindResults == Spec => []CompleteMeansEvidence
<1>1. IInv => CompleteMeansEvidence
  BY DEF IInv
<1>2. QED
  BY <1>1, Invariance, PTL

\* A flux offered as the reference of the magnet is always positive throughout
\* its interval and taken at zero current.
THEOREM ReferencesAreMagnets == Spec => []ReferenceIsMagnet
<1>1. IInv => ReferenceIsMagnet
  BY DEF IInv
<1>2. QED
  BY <1>1, Invariance, PTL

\* While the run goes on a request is granted, and only then.
LEMMA GrantedIffActive ==
  ASSUME IInv
  PROVE  Granted <=> phase \in Active
<1> SUFFICES ASSUME phase \in Active PROVE Granted
  BY DEF Granted
<1>1. version = Version /\ ConfigValid(config)
  BY DEF IInv, RunConfigured
<1>2. elapsed < config.max /\ energy < config.maxEnergy
  BY DEF IInv, BudgetsLeft
<1>3. stage < 3 /\ energy >= 0
  BY DEF IInv, TypeOK, Stages
<1>4. QED
  BY <1>1, <1>2, <1>3 DEF Granted

\* Current and speed are granted in the running states and in no other.
THEOREM AuthorityIsRunning == Spec => []AuthorityFollowsPhase
<1>1. IInv => AuthorityFollowsPhase
  BY GrantedIffActive DEF AuthorityFollowsPhase
<1>2. QED
  BY <1>1, Invariance, PTL

-----------------------------------------------------------------------------
(* The identifier implements Acquisition.                                  *)

\* The initial state is an idle acquisition.
LEMMA InitMaps == Init => A!Init
BY DEF Init, A!Init, Mode, Active, ContractOf, Needed, ZeroConfig, A!NoContract

\* A stop of a run that still has budget is a failure, counted or not.
LEMMA StopMaps ==
  ASSUME IInv, phase \in Active, NEW r, Stop(r), config' = config,
         elapsed' \in {elapsed, elapsed + 1}
  PROVE  A!Fail
<1>1. Mode = "active" /\ Mode' \in {"degraded", "fault"}
  BY DEF Mode, Active, Stop
<1>2. elapsed < config.max
  BY DEF IInv, BudgetsLeft
<1>3. ~(result # ZeroResult) /\ ~(result # ZeroResult)'
  BY DEF IInv, ResultIffComplete, Active, Stop
<1>4. QED
  BY <1>1, <1>2, <1>3 DEF A!Fail, ContractOf, Needed

\* A stop outside a run withdraws what was there.
LEMMA StopAbandons ==
  ASSUME NEW r, Stop(r), Mode' = "fault", config' = config, elapsed' = elapsed
  PROVE  A!Abandon
BY DEF A!Abandon, Stop, ContractOf, Needed

\* A run that goes on has taken one more sample, short of need and budget.
LEMMA ContinueMaps ==
  ASSUME IInv, phase \in Active, IInv', phase' \in Active,
         config' = config, elapsed' = elapsed + 1
  PROVE  A!Accept
<1>1. Mode = "active" /\ Mode' = "active"
  BY DEF Mode, Active
<1>2. elapsed + 1 < config.max
  BY DEF IInv, BudgetsLeft
<1>3. elapsed + 1 < Needed(config)
  <2>1. config.settle \in Nat /\ config.measure \in Nat /\ config.measure > 0
        /\ config.settle > 0
    BY ConfigTyped, ConfigsAssumption DEF IInv, RunConfigured, ConfigValid, ConfigType
  <2>2. ClocksAgree' /\ stage' \in Stages /\ stageSamples' \in Nat
    BY DEF IInv, TypeOK
  <2>3. elapsed' < 3 * (config.settle + config.measure)
    BY <2>1, <2>2 DEF ClocksAgree, Stages, Active
  <2>4. QED
    BY <2>3 DEF Needed
<1>4. (result # ZeroResult) = FALSE /\ (result # ZeroResult)' = FALSE
  BY DEF IInv, ResultIffComplete, Active
<1>5. QED
  BY <1>1, <1>2, <1>3, <1>4 DEF A!Accept, ContractOf, Needed

LEMMA NextMaps ==
  ASSUME IInv, [Next]_vars
  PROVE  [A!Next]_(A!vars)
<1>i. IInv'
  BY NextInv
<1>1. ASSUME NEW c \in Configs, StartAccepted(c) PROVE A!Begin
  <2>1. Mode' = "active"
    BY <1>1 DEF StartAccepted, Mode, Active
  <2>2. ContractOf(config)' \in {ContractOf(d) : d \in {e \in Configs : ConfigValid(e)}}
    BY <1>1 DEF StartAccepted, ContractOf, Needed
  <2>3. QED
    BY <1>1, <2>1, <2>2 DEF A!Begin, StartAccepted, Cleared
<1>2. ASSUME NEW c \in Configs, StartRejected(c) PROVE A!RefuseStart
  <2>1. Mode' = "fault"
    BY <1>2 DEF StartRejected, Stop, FaultReasons, Mode, Active
  <2>2. ContractOf(config)' = A!NoContract
    BY <1>2 DEF StartRejected, ContractOf, Needed, ZeroConfig, A!NoContract
  <2>3. QED
    BY <1>2, <2>1, <2>2 DEF A!RefuseStart, StartRejected, Cleared
<1>3. ASSUME Abort PROVE A!Abandon
  BY <1>3, StopAbandons DEF Abort, Stop, FaultReasons, Mode, Active
<1>4. ASSUME NEW seq, NEW o \in Observations, Observe(seq, o) PROVE A!Next
  <2>a. ASSUME Account(seq, o)
        PROVE  phase \in Active /\ config' = config /\ elapsed' = elapsed + 1
    BY <2>a DEF Account, Refusal
  <2>1. CASE Refuse(seq, o)
    <3>1. CASE phase \in Active
      BY <1>4, <2>1, <3>1, StopMaps DEF Refuse, A!Next, A!Progress
    <3>2. CASE phase \notin Active
      <4>1. Refusal(seq, o) = "CONFIG"
        BY <3>2 DEF Refusal
      <4>2. Stop("CONFIG") /\ Mode' = "fault"
        BY <2>1, <4>1 DEF Refuse, Stop, FaultReasons, Mode, Active
      <4>3. QED
        BY <2>1, <4>2, StopAbandons DEF Refuse, A!Next
    <3>3. QED
      BY <3>1, <3>2
  <2>2. CASE Trip(seq, o)
    BY <2>2, <2>a, StopMaps DEF Trip, A!Next, A!Progress
  <2>3. CASE Settle(seq, o)
    BY <1>i, <2>3, <2>a, StopMaps, ContinueMaps
       DEF Settle, Continue, Active, A!Next, A!Progress
  <2>4. CASE DropMisfit(seq, o)
    BY <2>4, <2>a, StopMaps DEF DropMisfit, Sampled, A!Next, A!Progress
  <2>5. CASE Tear(seq, o)
    BY <2>5, <2>a, StopMaps DEF Tear, Sampled, A!Next, A!Progress
  <2>6. CASE Unsettle(seq, o)
    BY <2>6, <2>a, StopMaps DEF Unsettle, Entered, Sampled, A!Next, A!Progress
  <2>7. CASE Collect(seq, o)
    BY <1>i, <2>7, <2>a, StopMaps, ContinueMaps
       DEF Collect, Kept, Entered, Sampled, Continue, Active, A!Next, A!Progress
  <2>8. CASE NextStage(seq, o)
    BY <1>i, <2>8, <2>a, StopMaps, ContinueMaps
       DEF NextStage, Kept, Entered, Sampled, Continue, Active, A!Next, A!Progress
  <2>9. CASE Reject(seq, o)
    BY <2>9, <2>a, StopMaps
       DEF Reject, Closing, Kept, Entered, Sampled, A!Next, A!Progress
  <2>10. CASE Publish(seq, o)
    <3>1. /\ phase \in Active /\ config' = config /\ elapsed' = elapsed + 1
          /\ phase' = "COMPLETE"
      BY <2>10, <2>a DEF Publish, Closing, Kept, Entered, Sampled
    <3>2. Mode = "active" /\ Mode' = "complete"
      BY <3>1 DEF Mode, Active
    <3>3. elapsed' = Needed(config) /\ elapsed' <= config.max
      BY <1>i, <3>1 DEF IInv, CompleteMeansEvidence, Needed
    <3>4. (result # ZeroResult)' = TRUE
      BY <1>i, <3>1 DEF IInv, ResultIffComplete
    <3>5. A!Complete
      BY <3>1, <3>2, <3>3, <3>4 DEF A!Complete, ContractOf, Needed
    <3>6. QED
      BY <3>5 DEF A!Next, A!Progress
  <2>11. QED
    BY <1>4, <2>1, <2>2, <2>3, <2>4, <2>5, <2>6, <2>7, <2>8, <2>9, <2>10 DEF Observe
<1>5. CASE UNCHANGED vars
  BY <1>5 DEF vars, A!vars, Mode, ContractOf, Needed
<1>6. QED
  BY <1>1, <1>2, <1>3, <1>4, <1>5 DEF Next, A!Next

\* For every set of configurations and observations the acquisition of a flux
\* point behaves as a
\* bounded acquisition: one result, at the sample it needs, inside the budget.
THEOREM Implementation == Spec => ImplementsAcquisition
<1>1. Init => A!Init
  BY InitMaps
<1>2. IInv /\ [Next]_vars => [A!Next]_(A!vars)
  BY NextMaps
<1>3. QED
  BY <1>1, <1>2, Invariance, PTL DEF Spec, ImplementsAcquisition, A!Spec

-----------------------------------------------------------------------------
(* The program that drives the identifier: what holds where it stands.     *)

\* The reasons only a program out of step with its identifier could cause.
OwnFaults == {"CONFIG", "OBSERVATION", "ABORTED"}

\* Nothing was driven yet.
Untouched == previous = Unset /\ plantAge = 0 /\ piAge = 0 /\ steps = 0

\* Where main is tells how far the run is: a start has accepted the run before
\* the map is read, an interval is only entered with a request in hand, and
\* only an ended run is reported.
ProgramFollowsRun ==
  /\ at \in {"start", "map", "head", "interval", "report", "exited"}
  /\ at = "start" => phase = "IDLE" /\ Untouched
  /\ at = "map" => /\ phase = "SETTLING" /\ Untouched
                   /\ elapsed = 0 /\ stage = 0 /\ stageSamples = 0
  /\ at = "head" => phase \in Active \cup Terminal /\ reason \notin OwnFaults
  /\ at = "interval" => phase \in Active /\ previous = stage
  /\ at = "report" => phase \in Terminal
  /\ at # "exited" => exit = -1

EInv == IInv /\ ProgramFollowsRun /\ FreshPerStage /\ CleanExitIsReport

LEMMA ExperimentInitInv == ExperimentInit => EInv
<1> SUFFICES ASSUME ExperimentInit PROVE EInv
  OBVIOUS
<1>1. IInv
  BY InitInv DEF ExperimentInit
<1>2. QED
  BY <1>1 DEF EInv, ExperimentInit, Init, ProgramFollowsRun, Untouched,
              FreshPerStage, CleanExitIsReport

-----------------------------------------------------------------------------
(* One interval.                                                           *)

\* In an interval the next sequence is the one the identifier expects, and the
\* numbers are finite: it refuses the observation for its source or not at all.
LEMMA IntervalRefusal ==
  ASSUME EInv, NEW o \in Observations, at = "interval"
  PROVE  Refusal(steps + 1, o) \in {"SOURCE", "NONE"}
<1>1. phase \in Active /\ previous = stage /\ steps = elapsed
  BY DEF EInv, ProgramFollowsRun, FreshPerStage
<1>2. version = Version /\ ConfigValid(config) /\ elapsed < config.max
  BY <1>1 DEF EInv, IInv, RunConfigured, BudgetsLeft
<1>3. /\ stage \in Nat /\ stage < 3 /\ energy \in Nat
      /\ elapsed \in Nat /\ config.max \in Nat
  BY ConfigTyped DEF EInv, IInv, TypeOK, Stages, ConfigType
<1>4. o.rep = "FINITE"
  BY FiniteSensors
<1>5. /\ ~(elapsed >= config.max) /\ ~(stage >= 3) /\ ~(energy < 0)
      /\ steps + 1 = elapsed + 1
  BY <1>1, <1>2, <1>3
<1>6. Refusal(steps + 1, o) = IF Untrusted(o) THEN "SOURCE" ELSE "NONE"
  BY <1>1, <1>2, <1>4, <1>5 DEF Refusal
<1>7. QED
  BY <1>6

\* The window is where the stage counter says it is.
LEMMA IntervalMisfit ==
  ASSUME IInv, phase = "SAMPLING", NEW o
  PROVE  Misfit(o) \in {"UNOBSERVABLE", "TRACKING", "NONE"}
<1>1. windows[stage].count = stageSamples /\ stageSamples < config.measure
  BY DEF IInv, TypeOK, WindowsFollowStages, ClocksAgree, Active, Stages
<1>2. stageSamples \in Nat /\ config.measure \in Nat
  BY ConfigTyped DEF IInv, TypeOK, ConfigType
<1>3. QED
  BY <1>1, <1>2 DEF Misfit

\* The fit fails for what it shows.
LEMMA IntervalObjection ==
  ASSUME NEW ws, NEW o \in Observations
  PROVE  Objection(ws, o) \notin OwnFaults
<1>1. o.rep = "FINITE" /\ o.other # "OBSERVATION"
  BY FiniteSensors
<1>2. o.other \in {"NONE", "OBSERVATION", "RANGE", "OFFSET", "UNCERTAINTY",
                   "VALIDATION", "TILTED"}
  BY ObservationsAssumption DEF ObservationType
<1>3. AxisObjection(ws, o) \in {"RANGE", "OFFSET", "UNCERTAINTY", "VALIDATION", "NONE"}
  BY <1>1 DEF AxisObjection
<1>4. QED
  BY <1>1, <1>2, <1>3 DEF Objection, OwnFaults

\* What an observation makes of the run, seen by the program: it ends for a
\* reason that is not the program's, or it goes on one interval older, in the
\* stage it was in or at the start of the next.
LEMMA Observed ==
  ASSUME EInv, NEW o \in Observations, at = "interval", Observe(steps + 1, o)
  PROVE  \/ phase' \in Terminal /\ reason' \notin OwnFaults
         \/ /\ phase' \in Active /\ reason' \notin OwnFaults
            /\ elapsed' = elapsed + 1
            /\ \/ stage' = stage /\ Clock' = Clock + 1
               \/ stage' # stage /\ Clock' = 0
<1> DEFINE seq == steps + 1
           Ends == phase' \in Terminal /\ reason' \notin OwnFaults
<1>a. IInv /\ phase \in Active /\ reason = "NONE"
  BY DEF EInv, ProgramFollowsRun, IInv, RunConfigured
<1>t. /\ stage \in Stages /\ stageSamples \in Nat /\ elapsed \in Nat
      /\ config.settle \in Nat /\ config.measure \in Nat
  BY <1>a, ConfigTyped DEF IInv, TypeOK, ConfigType
<1>s. ASSUME NEW r, Stop(r), r \notin OwnFaults PROVE Ends
  BY <1>s DEF Stop, Terminal
<1>1. CASE Refuse(seq, o)
  BY <1>1, <1>s, IntervalRefusal DEF Refuse, OwnFaults
<1>2. CASE Trip(seq, o)
  BY <1>2, <1>s DEF Trip, OwnFaults
<1>3. CASE Settle(seq, o)
  <2>1. /\ elapsed' = elapsed + 1 /\ stage' = stage /\ config' = config
        /\ phase = "SETTLING" /\ stageSamples < config.settle
    BY <1>3, <1>a DEF Settle, Account, IInv, ClocksAgree, Active
  <2>2. CASE stageSamples + 1 >= config.settle
    BY <1>3, <1>a, <1>s, <1>t, <2>1, <2>2
       DEF Settle, Continue, Active, Clock, OwnFaults
  <2>3. CASE ~(stageSamples + 1 >= config.settle)
    BY <1>3, <1>a, <1>s, <1>t, <2>1, <2>3
       DEF Settle, Continue, Active, Clock, OwnFaults
  <2>4. QED
    BY <2>2, <2>3
<1>4. CASE DropMisfit(seq, o)
  BY <1>4, <1>a, <1>s, IntervalMisfit DEF DropMisfit, Sampled, OwnFaults
<1>5. CASE Tear(seq, o)
  BY <1>5, FiniteSensors DEF Tear
<1>6. CASE Unsettle(seq, o)
  BY <1>6, <1>s DEF Unsettle, OwnFaults
<1>7. CASE Collect(seq, o)
  <2>1. /\ elapsed' = elapsed + 1 /\ stage' = stage /\ config' = config
        /\ phase = "SAMPLING" /\ stageSamples' = stageSamples + 1
    BY <1>7 DEF Collect, Kept, Entered, Sampled, Account
  <2>2. QED
    BY <1>7, <1>a, <1>s, <1>t, <2>1
       DEF Collect, Continue, Active, Clock, OwnFaults
<1>8. CASE NextStage(seq, o)
  <2>1. /\ elapsed' = elapsed + 1 /\ stage' = stage + 1 /\ stageSamples' = 0
    BY <1>8 DEF NextStage, Kept, Entered, Sampled, Account
  <2>2. QED
    BY <1>8, <1>a, <1>s, <1>t, <2>1
       DEF NextStage, Continue, Active, Clock, OwnFaults, Stages
<1>9. CASE Reject(seq, o)
  BY <1>9, <1>s, IntervalObjection DEF Reject
<1>10. CASE Publish(seq, o)
  BY <1>10, <1>a DEF Publish, Terminal, OwnFaults
<1>11. QED
  BY <1>1, <1>2, <1>3, <1>4, <1>5, <1>6, <1>7, <1>8, <1>9, <1>10 DEF Observe

-----------------------------------------------------------------------------
(* Every step of the program.                                              *)

\* The program calls the identifier only as FluxId lets a caller.
LEMMA StepDrives ==
  ASSUME EInv, [Step]_all
  PROVE  [Next]_vars
<1>1. ASSUME NEW c \in Configs, StartRun(c) PROVE Next
  BY <1>1 DEF StartRun, Next
<1>2. ASSUME NEW o \in Observations, Interval(o) PROVE Next
  <2>1. Observe(steps + 1, o) /\ at = "interval"
    BY <1>2 DEF Interval, Driven
  <2>2. steps + 1 \in Sequences
    BY <2>1 DEF EInv, ProgramFollowsRun, FreshPerStage, Sequences
  <2>3. QED
    BY <2>1, <2>2 DEF Next
<1>3. CASE Leave
  BY <1>3 DEF Leave, Next
<1>4. CASE \/ BadOption \/ ReadMap \/ Restart \/ IntervalRejected
           \/ DiagnosticRejected \/ TruthRejected \/ Report
  BY <1>4 DEF BadOption, ReadMap, Restart, IntervalRejected, DiagnosticRejected,
              TruthRejected, Report
<1>5. CASE UNCHANGED all
  BY <1>5 DEF all
<1>6. QED
  BY <1>1, <1>2, <1>3, <1>4, <1>5 DEF Step

\* A report of an ended run is one of those the campaign counts on.
LEMMA ReportClean ==
  ASSUME EInv, Report
  PROVE  CleanExitIsReport'
<1>1. CASE output' = Printed /\ exit' = 0
  <2>1. phase \in Terminal /\ UNCHANGED vars
    BY DEF EInv, ProgramFollowsRun, Report
  <2>2. /\ config' = config /\ AtOrigin' = AtOrigin /\ Needed(config)' = Needed(config)
    BY <2>1 DEF vars, AtOrigin, Needed
  <2>3. /\ output'.text = "whole" /\ output'.phase = phase
        /\ output'.accepted = (phase = "COMPLETE") /\ output'.elapsed = elapsed
        /\ output'.estimate = IF phase = "COMPLETE" THEN result ELSE ZeroResult
        /\ output'.samples = [s \in Stages |-> windows[s].count]
    BY <1>1 DEF Printed
  <2>4. [phase |-> output'.phase, magnet |-> output'.estimate.pmReference]
          \in FluxReports(AtOrigin)
    <3>1. CASE phase = "COMPLETE"
      <4>1. result.pmReference <=> AtOrigin
        BY <3>1 DEF EInv, IInv, ReferenceIsMagnet
      <4>2. result.pmReference \in BOOLEAN
        BY DEF EInv, IInv, TypeOK, ResultType
      <4>3. QED
        BY <2>3, <3>1, <4>1, <4>2 DEF FluxReports, EndPhases
    <3>2. CASE phase # "COMPLETE"
      <4>1. output'.estimate.pmReference = FALSE
        BY <2>3, <3>2 DEF ZeroResult
      <4>2. QED
        BY <2>1, <2>3, <4>1 DEF FluxReports, EndPhases, Terminal
    <3>3. QED
      BY <3>1, <3>2
  <2>5. phase = "COMPLETE" =>
          elapsed = Needed(config) /\ \A s \in Stages : windows[s].count = config.measure
    BY DEF EInv, IInv, CompleteMeansEvidence
  <2>6. QED
    BY <2>2, <2>3, <2>4, <2>5 DEF CleanExitIsReport
<1>2. CASE exit' = 1
  BY <1>2 DEF CleanExitIsReport
<1>3. QED
  BY <1>1, <1>2 DEF Report

\* An interval leaves plant and controller as old as the stage of the run, or
\* the run at the top of a new one.
LEMMA IntervalInv ==
  ASSUME EInv, NEW o \in Observations, Interval(o)
  PROVE  ProgramFollowsRun' /\ FreshPerStage'
<1>1. /\ at = "interval" /\ at' = "head" /\ Observe(steps + 1, o)
      /\ plantAge' = plantAge + 1 /\ piAge' = piAge + 1 /\ steps' = steps + 1
      /\ previous' = previous /\ exit' = exit
  BY DEF Interval, Driven
<1>2. /\ phase \in Active /\ previous = stage /\ steps = elapsed
      /\ plantAge = Clock /\ piAge = Clock /\ exit = -1
  BY <1>1 DEF EInv, ProgramFollowsRun, FreshPerStage
<1>3. \/ phase' \in Terminal /\ reason' \notin OwnFaults
      \/ /\ phase' \in Active /\ reason' \notin OwnFaults
         /\ elapsed' = elapsed + 1
         /\ \/ stage' = stage /\ Clock' = Clock + 1
            \/ stage' # stage /\ Clock' = 0
  BY <1>1, Observed
<1>4. ProgramFollowsRun'
  BY <1>1, <1>2, <1>3 DEF ProgramFollowsRun
<1>5. FreshPerStage'
  BY <1>1, <1>2, <1>3 DEF FreshPerStage, Active, Terminal
<1>6. QED
  BY <1>4, <1>5

\* The top of an iteration: a fresh plant and controller where the stage is new.
LEMMA RestartInv ==
  ASSUME EInv, Restart
  PROVE  ProgramFollowsRun' /\ FreshPerStage'
<1>1. /\ at = "head" /\ at' = "interval" /\ phase \in Active
      /\ UNCHANGED vars /\ steps' = steps /\ exit' = exit
  BY GrantedIffActive DEF EInv, Restart
<1>2. Clock' = Clock
  BY <1>1 DEF vars, Clock
<1>3. phase' \in Active /\ previous' = stage' /\ exit' = -1
  BY <1>1 DEF vars, Restart, EInv, ProgramFollowsRun
<1>4. ProgramFollowsRun'
  BY <1>1, <1>3 DEF ProgramFollowsRun
<1>5. steps' = elapsed' /\ plantAge' = Clock' /\ piAge' = Clock'
  <2>1. /\ steps = elapsed
        /\ previous = stage => plantAge = Clock /\ piAge = Clock
        /\ previous # stage => Clock = 0
    BY <1>1 DEF EInv, FreshPerStage
  <2>2. IF stage # previous THEN plantAge' = 0 /\ piAge' = 0
        ELSE plantAge' = plantAge /\ piAge' = piAge
    BY DEF Restart
  <2>3. QED
    BY <1>1, <1>2, <2>1, <2>2 DEF vars
<1>6. QED
  BY <1>1, <1>3, <1>4, <1>5 DEF FreshPerStage

\* Before the first iteration no stage has a plant yet.
LEMMA ReadMapInv ==
  ASSUME EInv, ReadMap
  PROVE  ProgramFollowsRun' /\ FreshPerStage'
<1>1. /\ at = "map" /\ UNCHANGED vars /\ UNCHANGED loop
      /\ \/ at' = "head" /\ exit' = exit
         \/ at' = "exited"
  BY DEF ReadMap, Exit
<1>2. /\ phase = "SETTLING" /\ Untouched /\ exit = -1
      /\ elapsed = 0 /\ stage = 0 /\ stageSamples = 0 /\ reason = "NONE"
  BY <1>1 DEF EInv, ProgramFollowsRun, IInv, RunConfigured, Active
<1>3. /\ phase' = "SETTLING" /\ previous' = Unset /\ steps' = 0 /\ elapsed' = 0
      /\ stage' = 0 /\ stageSamples' = 0 /\ reason' = "NONE"
  BY <1>1, <1>2 DEF vars, loop, Untouched
<1>4. ProgramFollowsRun'
  BY <1>1, <1>2, <1>3 DEF ProgramFollowsRun, Active, OwnFaults
<1>5. FreshPerStage'
  BY <1>1, <1>3 DEF FreshPerStage, Clock, Unset
<1>6. QED
  BY <1>4, <1>5

\* The loop is only left with a run that has ended by itself.
LEMMA LeaveInv ==
  ASSUME EInv, Leave
  PROVE  ProgramFollowsRun' /\ FreshPerStage'
<1>1. /\ at = "head" /\ at' = "report" /\ phase \in Terminal /\ reason \notin OwnFaults
      /\ exit' = exit /\ exit = -1
  BY GrantedIffActive DEF EInv, Leave, ProgramFollowsRun
<1>2. UNCHANGED vars
  BY <1>1 DEF Leave
<1>3. phase' \in Terminal /\ reason' \notin OwnFaults
  BY <1>1, <1>2 DEF vars
<1>4. QED
  BY <1>1, <1>3 DEF ProgramFollowsRun, FreshPerStage, OwnFaults

\* A start either hands the run to the loop or ends the program.
LEMMA StartRunInv ==
  ASSUME EInv, NEW c \in Configs, StartRun(c)
  PROVE  ProgramFollowsRun' /\ FreshPerStage'
<1>1. at = "start" /\ UNCHANGED loop /\ Untouched /\ exit = -1
  BY DEF StartRun, EInv, ProgramFollowsRun
<1>2. CASE StartAccepted(c) /\ at' = "map" /\ UNCHANGED exit
  BY <1>1, <1>2
     DEF StartAccepted, Cleared, loop, Untouched, ProgramFollowsRun, FreshPerStage
<1>3. CASE at' = "exited"
  BY <1>3 DEF ProgramFollowsRun, FreshPerStage
<1>4. QED
  BY <1>2, <1>3 DEF StartRun, Exit

\* Once the program has ended, or is about to, nothing is left to keep.
LEMMA ExitedInv ==
  ASSUME at' = "exited"
  PROVE  ProgramFollowsRun' /\ FreshPerStage'
BY DEF ProgramFollowsRun, FreshPerStage

\* What is printed stays true of the run, which is not touched after it.
LEMMA StepClean ==
  ASSUME EInv, [Step]_all
  PROVE  CleanExitIsReport'
<1>1. CASE Report
  BY <1>1, ReportClean
<1>2. CASE exit' # 0
  BY <1>2 DEF CleanExitIsReport
<1>3. ASSUME exit' = exit, at # "exited" PROVE CleanExitIsReport'
  BY <1>3 DEF EInv, ProgramFollowsRun, CleanExitIsReport
<1>4. CASE UNCHANGED all
  <2>1. /\ exit' = exit /\ output' = output /\ config' = config
        /\ AtOrigin' = AtOrigin /\ Needed(config)' = Needed(config)
    BY <1>4 DEF all, vars, AtOrigin, Needed
  <2>2. QED
    BY <2>1 DEF EInv, CleanExitIsReport
<1>5. CASE BadOption \/ IntervalRejected \/ DiagnosticRejected \/ TruthRejected
  BY <1>2, <1>5
     DEF BadOption, IntervalRejected, DiagnosticRejected, TruthRejected, Exit
<1>6. CASE \/ \E c \in Configs : StartRun(c)
           \/ ReadMap
  BY <1>2, <1>3, <1>6 DEF StartRun, ReadMap, Exit
<1>7. CASE \/ Restart
           \/ \E o \in Observations : Interval(o)
           \/ Leave
  BY <1>3, <1>7 DEF Restart, Interval, Driven, Leave
<1>8. QED
  BY <1>1, <1>4, <1>5, <1>6, <1>7 DEF Step

LEMMA StepInv ==
  ASSUME EInv, [Step]_all
  PROVE  EInv'
<1>i. IInv'
  BY StepDrives, NextInv DEF EInv
<1>c. CleanExitIsReport'
  BY StepClean
<1> SUFFICES ProgramFollowsRun' /\ FreshPerStage'
  BY <1>i, <1>c DEF EInv
<1>1. ASSUME NEW c \in Configs, StartRun(c) PROVE ProgramFollowsRun' /\ FreshPerStage'
  BY <1>1, StartRunInv
<1>2. ASSUME NEW o \in Observations, Interval(o)
      PROVE  ProgramFollowsRun' /\ FreshPerStage'
  BY <1>2, IntervalInv
<1>3. CASE ReadMap
  BY <1>3, ReadMapInv
<1>4. CASE Restart
  BY <1>4, RestartInv
<1>5. CASE Leave
  BY <1>5, LeaveInv
<1>6. CASE \/ BadOption \/ IntervalRejected \/ DiagnosticRejected \/ TruthRejected
           \/ Report
  BY <1>6, ExitedInv
     DEF BadOption, IntervalRejected, DiagnosticRejected, TruthRejected, Report, Exit
<1>7. CASE UNCHANGED all
  BY <1>7 DEF all, vars, loop, EInv, ProgramFollowsRun, FreshPerStage, Untouched, Clock
<1>8. QED
  BY <1>1, <1>2, <1>3, <1>4, <1>5, <1>6, <1>7 DEF Step

LEMMA ExperimentInvariance == ExperimentSpec => []EInv
<1>1. ExperimentInit => EInv
  BY ExperimentInitInv
<1>2. EInv /\ [Step]_all => EInv'
  BY StepInv
<1>3. QED
  BY <1>1, <1>2, PTL DEF ExperimentSpec

-----------------------------------------------------------------------------
(* What the program may count on, and what may be counted on of it.        *)

\* The program calls the identifier only in ways a caller of FluxId may: what
\* is proved of every caller holds in the program.
THEOREM ProgramDrivesIdentifier == ExperimentSpec => Spec
<1>1. ExperimentInit => Init
  BY DEF ExperimentInit
<1>2. EInv /\ [Step]_all => [Next]_vars
  BY StepDrives
<1>3. QED
  BY <1>1, <1>2, ExperimentInvariance, PTL DEF ExperimentSpec, Spec

\* For every set of options and everything plant and sensors may show, plant
\* and controller are as old as the stage, and no run ends by the program's
\* own fault.
THEOREM AlwaysFreshPerStage == ExperimentSpec => []FreshPerStage
<1>1. EInv => FreshPerStage
  BY DEF EInv
<1>2. QED
  BY <1>1, ExperimentInvariance, PTL

\* An exit with 0 is always a whole report the campaign can take as it is.
THEOREM CleanExitsAreReports == ExperimentSpec => []CleanExitIsReport
<1>1. EInv => CleanExitIsReport
  BY DEF EInv
<1>2. QED
  BY <1>1, ExperimentInvariance, PTL

-----------------------------------------------------------------------------
(* The program comes to an end: what can be proved of it without fairness. *)

\* The steps the program can still take, at most: two for each sample of its
\* budget that is left, and those around the loop.
RunLeft ==
  CASE at = "map" -> 2 * (config.max - elapsed) + 3
    [] at = "head" -> IF phase \in Active THEN 2 * (config.max - elapsed) + 2 ELSE 2
    [] at = "interval" -> 2 * (config.max - elapsed) + 1
    [] at = "report" -> 1
    [] OTHER -> 0

LEMMA SamplesLeft ==
  ASSUME IInv, phase \in Active
  PROVE  config.max \in Nat /\ elapsed \in Nat /\ config.max - elapsed \in Nat \ {0}
<1>1. elapsed \in Nat /\ elapsed < config.max /\ config \in Configs \cup {ZeroConfig}
  BY DEF IInv, TypeOK, BudgetsLeft
<1>2. config.max \in Nat
  BY <1>1, ConfigsAssumption DEF ConfigType, ZeroConfig
<1>3. QED
  BY <1>1, <1>2

LEMMA RunLeftIsNat ==
  ASSUME EInv
  PROVE  RunLeft \in Nat
<1>1. at = "map" \/ at = "interval" => phase \in Active
  BY DEF EInv, ProgramFollowsRun, Active
<1>2. phase \in Active => config.max - elapsed \in Nat
  BY SamplesLeft DEF EInv
<1>3. QED
  BY <1>1, <1>2 DEF RunLeft

\* No observation changes what it is judged by.
LEMMA ObserveKeepsConfig ==
  ASSUME NEW seq, NEW o, Observe(seq, o)
  PROVE  config' = config
<1>1. Account(seq, o) => config' = config
  BY DEF Account
<1>2. Refuse(seq, o) => config' = config
  BY DEF Refuse
<1>3. ASSUME ~Refuse(seq, o) PROVE Account(seq, o)
  BY <1>3 DEF Observe, Trip, Settle, DropMisfit, Tear, Unsettle, Collect, NextStage,
              Reject, Publish, Closing, Kept, Entered, Sampled
<1>4. QED
  BY <1>1, <1>2, <1>3

\* An interval uses up a sample of the budget or ends the run.
LEMMA IntervalCounts ==
  ASSUME EInv, EInv', NEW o \in Observations, Interval(o)
  PROVE  RunLeft' < RunLeft
<1>1. /\ at = "interval" /\ at' = "head" /\ Observe(steps + 1, o)
      /\ steps' = steps + 1
  BY DEF Interval, Driven
<1>2. phase \in Active /\ steps = elapsed
  BY <1>1 DEF EInv, ProgramFollowsRun, FreshPerStage
<1>3. config' = config
  BY <1>1, ObserveKeepsConfig
<1>4. config.max \in Nat /\ elapsed \in Nat /\ config.max - elapsed \in Nat \ {0}
  BY <1>2, SamplesLeft DEF EInv
<1>5. RunLeft = 2 * (config.max - elapsed) + 1
  BY <1>1 DEF RunLeft
<1>6. RunLeft' = IF phase' \in Active THEN 2 * (config.max - elapsed') + 2 ELSE 2
  BY <1>1, <1>3 DEF RunLeft, Active
<1>7. phase' \in Active => elapsed' = elapsed + 1
  BY <1>1, <1>2 DEF EInv, FreshPerStage
<1>8. QED
  BY <1>4, <1>5, <1>6, <1>7

LEMMA StepCounts ==
  ASSUME EInv, EInv', Step, at # "start"
  PROVE  RunLeft' < RunLeft
<1>1. CASE ReadMap
  <2>1. phase \in Active /\ at = "map" /\ UNCHANGED vars /\ at' \in {"head", "exited"}
    BY <1>1 DEF ReadMap, Exit, EInv, ProgramFollowsRun, Active
  <2>2. config.max - elapsed \in Nat /\ phase' = phase /\ config' = config /\ elapsed' = elapsed
    BY <2>1, SamplesLeft DEF EInv, vars
  <2>3. RunLeft = 2 * (config.max - elapsed) + 3
    BY <2>1 DEF RunLeft
  <2>4. RunLeft' = 2 * (config.max - elapsed) + 2 \/ RunLeft' = 0
    BY <2>1, <2>2 DEF RunLeft
  <2>5. QED
    BY <2>2, <2>3, <2>4
<1>2. CASE Restart
  <2>1. phase \in Active /\ at = "head" /\ UNCHANGED vars /\ at' = "interval"
    BY <1>2 DEF Restart, Granted
  <2>2. config.max - elapsed \in Nat /\ config' = config /\ elapsed' = elapsed
    BY <2>1, SamplesLeft DEF EInv, vars
  <2>3. RunLeft = 2 * (config.max - elapsed) + 2
    BY <2>1 DEF RunLeft
  <2>4. RunLeft' = 2 * (config.max - elapsed) + 1
    BY <2>1, <2>2 DEF RunLeft
  <2>5. QED
    BY <2>2, <2>3, <2>4
<1>3. CASE IntervalRejected \/ DiagnosticRejected
  <2>1. at = "interval" /\ at' = "exited" /\ phase \in Active
    BY <1>3 DEF IntervalRejected, DiagnosticRejected, Driven, Exit, EInv, ProgramFollowsRun
  <2>2. config.max - elapsed \in Nat
    BY <2>1, SamplesLeft DEF EInv
  <2>3. RunLeft = 2 * (config.max - elapsed) + 1 /\ RunLeft' = 0
    BY <2>1 DEF RunLeft
  <2>4. QED
    BY <2>2, <2>3
<1>4. CASE \E o \in Observations : Interval(o)
  BY <1>4, IntervalCounts
<1>5. CASE Leave
  <2>1. at = "head" /\ at' = "report"
    BY <1>5 DEF Leave
  <2>2. phase \in Active => config.max - elapsed \in Nat
    BY SamplesLeft DEF EInv
  <2>3. RunLeft' = 1
    BY <2>1 DEF RunLeft
  <2>4. RunLeft = IF phase \in Active THEN 2 * (config.max - elapsed) + 2 ELSE 2
    BY <2>1 DEF RunLeft
  <2>5. QED
    BY <2>2, <2>3, <2>4
<1>6. CASE TruthRejected \/ Report
  BY <1>6 DEF TruthRejected, Report, Exit, RunLeft
<1>7. QED
  BY <1>1, <1>2, <1>3, <1>4, <1>5, <1>6 DEF Step, BadOption, StartRun

\* Every step the program takes, once it has begun, leaves it fewer steps to
\* take; their number is never negative.  The loop has no bound of its own: the
\* count falls because the identifier's budget does.
THEOREM ProgramRunsOut ==
  ExperimentSpec => [][at # "start" => RunLeft \in Nat /\ RunLeft' < RunLeft]_all
<1>1. EInv /\ EInv' /\ [Step]_all =>
        [at # "start" => RunLeft \in Nat /\ RunLeft' < RunLeft]_all
  BY StepCounts, RunLeftIsNat
<1>2. QED
  BY <1>1, ExperimentInvariance, PTL DEF ExperimentSpec
=============================================================================
