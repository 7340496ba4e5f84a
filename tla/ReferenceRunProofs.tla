------------------------- MODULE ReferenceRunProofs -------------------------
(***************************************************************************)
(* Theorems about ReferenceRun, for every number of samples, stride, fault *)
(* step, capacity of the trace and set of inputs.                          *)
(***************************************************************************)
EXTENDS ReferenceRun, TLAPS

-----------------------------------------------------------------------------
(* The invariant: what the report says must hold of the samples so far.    *)

\* A run that has not ended badly.
Sound == exit \in {"running", "reported"}

Accepted ==
  /\ settings.faultStep < settings.steps
  /\ ~settings.useMap => settings.faultStep = -1
  /\ TraceFits(settings)

Healthy == ~faulted /\ ~beyond /\ fallback \in BOOLEAN

FallbackCounted ==
  /\ fallbackFirst < n
  /\ fallback <=> fallbackFirst # -1
  /\ fallbackSteps = IF fallback THEN n - fallbackFirst ELSE 0
  /\ ~settings.useMap => ~fallback

\* A dropped map has led to fallback, in its own sample at the latest.
DropSeen ==
  settings.faultStep # -1 /\ n > settings.faultStep =>
    fallback /\ fallbackFirst \in 0..settings.faultStep

Booked ==
  settings.timed =>
    /\ timing["nominal"] = IF settings.useMap THEN 0 ELSE n
    /\ timing["transition"] = IF fallback THEN 1 ELSE 0
    /\ timing["transition"] + timing["latched"] = fallbackSteps
    /\ timing["mapped"] + fallbackSteps + timing["nominal"] = n

Moded == \A k \in DOMAIN trace : trace[k].mode = 2 <=> fallback /\ trace[k].step > fallbackFirst

\* The steps a trace of m samples has.
Due(m) ==
  IF settings.stride = 0 THEN {}
  ELSE {s \in 1..m : s % settings.stride = 0 \/ s = settings.steps}

Traced == {trace[k].step : k \in DOMAIN trace} = Due(n)

\* The trace has at most one entry per stride, and one more at the end.
TraceShort ==
  IF settings.stride = 0 THEN trace = <<>>
  ELSE IF n < settings.steps THEN Len(trace) * settings.stride <= n
  ELSE (Len(trace) - 1) * settings.stride <= settings.steps - 1

Settled ==
  /\ Len(band) = n + 1
  /\ lastOutside <= n
  /\ lastOutside # -1 => band[lastOutside + 1]
  /\ \A i \in (lastOutside + 1)..n : ~band[i + 1]

Unstarted ==
  /\ n = 0
  /\ timing = [b \in Buckets |-> 0]
  /\ fallbackFirst = -1
  /\ fallbackSteps = 0
  /\ trace = <<>>
  /\ beyond = FALSE

IInv ==
  /\ TypeOK
  /\ exit = "configuring" => Unstarted
  /\ exit = "reported" => n = settings.steps
  /\ Sound =>
       /\ Accepted
       /\ Healthy
       /\ FallbackCounted
       /\ DropSeen
       /\ Booked
       /\ Moded
       /\ Traced
       /\ TraceShort
       /\ Settled

-----------------------------------------------------------------------------
(* Arithmetic of the trace's storage.                                      *)

LEMMA Division ==
  ASSUME NEW m \in Nat, NEW d \in Nat \ {0}
  PROVE  /\ m \div d \in Nat
         /\ m % d \in 0..(d - 1)
         /\ m = d * (m \div d) + (m % d)
OBVIOUS

LEMMA Times ==
  ASSUME NEW a \in Int, NEW b \in Int, NEW d \in Nat, a <= b
  PROVE  a * d <= b * d
<1>1. (b - a) * d >= 0
  OBVIOUS
<1>2. QED
  BY <1>1

\* A product below the next multiple is at most a multiple.
LEMMA Quotient ==
  ASSUME NEW a \in Int, NEW q \in Int, NEW d \in Nat \ {0}, a * d < (q + 1) * d
  PROVE  a <= q
<1>1. SUFFICES ASSUME q + 1 <= a PROVE FALSE
  OBVIOUS
<1>2. (q + 1) * d <= a * d
  BY <1>1, Times
<1>3. (q + 1) * d \in Int /\ a * d \in Int
  OBVIOUS
<1>4. QED
  BY <1>2, <1>3

\* A trace that is short in this sense fits a storage of m \div d + 1 entries.
LEMMA ShortFits ==
  ASSUME NEW l \in Nat, NEW m \in Nat, NEW d \in Nat \ {0}, (l - 1) * d <= m
  PROVE  l <= m \div d + 1
<1>1. /\ m \div d \in Nat
      /\ m % d \in 0..(d - 1)
      /\ m = d * (m \div d) + (m % d)
  BY Division
<1> DEFINE q == m \div d
<1>2. m < (q + 1) * d
  <2>1. (q + 1) * d = d * q + d
    BY <1>1
  <2>2. QED
    BY <1>1, <2>1
<1>3. (l - 1) * d < (q + 1) * d
  <2>1. (l - 1) * d \in Int /\ (q + 1) * d \in Int
    BY <1>1
  <2>2. QED
    BY <1>2, <2>1
<1>4. l - 1 <= q
  BY <1>1, <1>3, Quotient
<1>5. QED
  BY <1>1, <1>4

\* The sample that completes a stride keeps the trace short.
LEMMA ShortGrows ==
  ASSUME NEW l \in Nat, NEW m \in Nat, NEW d \in Nat \ {0},
         l * d <= m, (m + 1) % d = 0
  PROVE  (l + 1) * d <= m + 1
<1> DEFINE q == (m + 1) \div d
<1>1. /\ q \in Nat
      /\ m + 1 = d * q + 0
  BY Division
<1>2. m + 1 = q * d
  BY <1>1
<1>3. l * d < q * d
  <2>1. l * d \in Int /\ q * d \in Int
    BY <1>1
  <2>2. QED
    BY <1>2, <2>1
<1>4. l <= q - 1
  <2>1. l * d < ((q - 1) + 1) * d
    BY <1>1, <1>3
  <2>2. QED
    BY <1>1, <2>1, Quotient
<1>5. (l + 1) * d <= q * d
  BY <1>1, <1>4, Times
<1>6. QED
  BY <1>2, <1>5

-----------------------------------------------------------------------------
(* One call of the controller.                                             *)

\* A call that returns OK leaves no fault, keeps a latched fallback, needs the
\* map to stay on it, and does not fall back where no map is used.
LEMMA CallFacts ==
  ASSUME TypeOK, fallback \in BOOLEAN, NEW in \in Inputs, Called(in), returned' = "OK"
  PROVE  /\ ~faulted'
         /\ fallback' \in BOOLEAN
         /\ fallback => fallback'
         /\ ~settings.useMap => fallback' = fallback
         /\ settings.useMap /\ ~mapHeld' => fallback'
         /\ mapHeld' \in BOOLEAN
         /\ n = settings.faultStep => ~mapHeld'
<1> DEFINE c == settings.config
           seen == Seen(in)
<1>1. mapHeld' \in BOOLEAN /\ (n = settings.faultStep => ~mapHeld')
  BY DEF Called, TypeOK
<1>2. in \in Control!InputType
  BY RunInputs
<1>3. ~mapHeld' => seen.lookup = "INVALID_INPUT"
  BY <1>2 DEF Seen, Control!InputType
<1>4. CASE ~settings.useMap
  <2>1. NominalStep(c, seen)
    BY <1>4 DEF Called
  <2>2. Control!Run(c, "nominal", seen, integral, origin) /\ fallback' = fallback
    BY <2>1 DEF NominalStep
  <2>3. ~faulted'
    BY <2>2 DEF Control!Run, Control!Fault, Control!Verdict
  <2>4. QED
    BY <1>1, <1>4, <2>2, <2>3
<1>5. CASE settings.useMap
  <2>1. Control!Step(c, seen)
    BY <1>5 DEF Called
  <2>2. CASE Control!Refuse(c, seen)
    BY <2>2 DEF Control!Refuse
  <2>3. CASE Control!StopCall(c, seen)
    BY <2>3 DEF Control!StopCall, Control!Fault
  <2>4. CASE Control!NominalStep(c, seen)
    <3>1. fallback /\ fallback' = fallback
          /\ Control!Run(c, "nominal", seen, integral, origin)
      BY <2>4 DEF Control!NominalStep
    <3>2. ~faulted'
      BY <3>1 DEF Control!Run, Control!Fault, Control!Verdict
    <3>3. QED
      BY <1>1, <1>5, <3>1, <3>2
  <2>5. CASE Control!MappedStep(c, seen)
    <3>1. /\ fallback' = fallback
          /\ ~Control!Rejected(c, seen)
          /\ Control!Run(c, "map", seen, integral, origin)
      BY <2>5 DEF Control!MappedStep
    <3>2. ~faulted' /\ Control!Verdict(c, "map", seen) = "OK"
      BY <3>1 DEF Control!Run, Control!Fault, Control!Verdict
    <3>3. seen.lookup = "OK"
      BY <3>2 DEF Control!Verdict
    <3>4. QED
      BY <1>1, <1>3, <1>5, <3>1, <3>2, <3>3
  <2>6. CASE Control!RejectStop(c, seen)
    BY <2>6 DEF Control!RejectStop, Control!Fault
  <2>7. CASE Control!FallBack(c, seen)
    <3>1. fallback' = TRUE /\ Control!Run(c, "nominal", seen, 0, "none")
      BY <2>7 DEF Control!FallBack
    <3>2. ~faulted'
      BY <3>1 DEF Control!Run, Control!Fault, Control!Verdict
    <3>3. QED
      BY <1>1, <1>5, <3>1, <3>2
  <2>8. QED
    BY <2>1, <2>2, <2>3, <2>4, <2>5, <2>6, <2>7 DEF Control!Step
<1>6. settings.useMap \in BOOLEAN
  BY DEF TypeOK, SettingsType
<1>7. QED
  BY <1>4, <1>5, <1>6

-----------------------------------------------------------------------------
(* The invariant is inductive.                                             *)

LEMMA InitInv == Init => IInv
<1>1. SUFFICES ASSUME Init PROVE IInv
  OBVIOUS
<1>2. settings \in SettingsType /\ settings.steps \in Nat
  BY <1>1, RunSettings DEF Init, SettingsType
<1>3. TypeOK
  <2>1. /\ exit \in Exits /\ mapHeld \in BOOLEAN /\ beyond \in BOOLEAN
        /\ timing \in [Buckets -> Nat]
    BY <1>1 DEF Init, Exits
  <2>2. /\ n \in 0..settings.steps
        /\ fallbackFirst \in -1..settings.steps
        /\ fallbackSteps \in 0..settings.steps
        /\ lastOutside \in -1..settings.steps
    BY <1>1, <1>2 DEF Init
  <2>3. /\ trace \in Seq([step : Nat \ {0}, mode : 0..2]) /\ Len(trace) <= TraceCapacity
        /\ band \in Seq(BOOLEAN)
    BY <1>1, CapacityPositive DEF Init
  <2>4. QED
    BY <1>2, <2>1, <2>2, <2>3 DEF TypeOK
<1>4. Unstarted
  BY <1>1 DEF Init, Unstarted
<1>5. exit = "configuring"
  BY <1>1 DEF Init
<1>6. QED
  BY <1>3, <1>4, <1>5 DEF IInv, Sound

LEMMA ConfigureInv ==
  ASSUME IInv, Configure
  PROVE  IInv'
<1>1. CASE Acceptable(settings)
  <2>1. /\ exit' = "running"
        /\ settings' = Effective(settings)
        /\ mapHeld' = settings.useMap
        /\ lastOutside' = IF settings.farStart THEN 0 ELSE -1
        /\ band' = <<settings.farStart>>
        /\ ~faulted' /\ fallback' = FALSE
        /\ UNCHANGED <<n, timing, fallbackFirst, fallbackSteps, trace, beyond>>
    BY <1>1 DEF Configure, Control!Reset
  <2>2. Unstarted /\ TypeOK
    BY DEF Configure, IInv
  <2>3. settings \in SettingsType
    BY <2>2 DEF TypeOK
  <2>4. /\ settings' \in SettingsType
        /\ settings'.steps = settings.steps /\ settings'.stride = settings.stride
        /\ settings'.useMap = settings.useMap /\ settings'.timed = settings.timed
        /\ settings'.faultStep = settings.faultStep
    <3>1. settings.config \in Control!ConfigType
      BY <2>3 DEF SettingsType
    <3>2. CASE settings.tune = "applied"
      BY <2>1, <2>3, <3>2 DEF Effective
    <3>3. CASE settings.tune # "applied"
      <4> DEFINE nominal == settings.config.gains["nominal"]
                 gains == [settings.config.gains EXCEPT !["map"] = nominal]
                 config == [settings.config EXCEPT !.gains = gains]
      <4>1. gains \in [Control!Laws -> Control!Gains]
        BY <3>1 DEF Control!ConfigType, Control!Laws
      <4>2. config \in Control!ConfigType
        BY <3>1, <4>1 DEF Control!ConfigType
      <4>3. settings' = [settings EXCEPT !.config = config]
        BY <2>1, <3>3 DEF Effective
      <4>4. QED
        BY <2>3, <4>2, <4>3 DEF SettingsType
    <3>4. QED
      BY <3>2, <3>3
  <2>5. settings.steps \in Nat \ {0, 1} /\ settings.useMap \in BOOLEAN
        /\ settings.farStart \in BOOLEAN /\ settings.stride \in Nat
        /\ settings.faultStep \in Nat \cup {-1}
    BY <2>3 DEF SettingsType
  <2>6. band' \in Seq(BOOLEAN) /\ Len(band') = 1 /\ band'[1] = settings.farStart
    BY <2>1, <2>5
  <2>7. TypeOK'
    BY <2>1, <2>2, <2>4, <2>5, <2>6 DEF TypeOK, Exits, Unstarted
  <2>8. Accepted'
    BY <1>1, <2>4 DEF Acceptable, Accepted, TraceFits
  <2>9. Healthy' /\ FallbackCounted'
    <3>1. n' = 0 /\ fallbackFirst' = -1 /\ fallbackSteps' = 0 /\ beyond' = FALSE
      BY <2>1, <2>2 DEF Unstarted
    <3>2. Healthy'
      BY <2>1, <3>1, Zenon DEF Healthy
    <3>3. FallbackCounted'
      BY <2>1, <3>1 DEF FallbackCounted
    <3>4. QED
      BY <3>2, <3>3
  <2>10. DropSeen'
    BY <2>1, <2>2, <2>4, <2>5 DEF Unstarted, DropSeen
  <2>11. Booked'
    BY <2>1, <2>2, <2>4 DEF Unstarted, Booked, Buckets
  <2>12. Moded' /\ Traced' /\ TraceShort'
    <3>1. trace' = <<>> /\ n' = 0 /\ DOMAIN trace' = {} /\ Len(trace') = 0
      BY <2>1, <2>2 DEF Unstarted
    <3>2. Due(n)' = {}
      BY <3>1 DEF Due
    <3>3. Moded' /\ Traced'
      BY <3>1, <3>2 DEF Moded, Traced
    <3>4. TraceShort'
      BY <3>1, <2>4, <2>5 DEF TraceShort
    <3>5. QED
      BY <3>3, <3>4
  <2>13. Settled'
    BY <2>1, <2>2, <2>5, <2>6 DEF Unstarted, Settled
  <2>14. QED
    BY <2>1, <2>7, <2>8, <2>9, <2>10, <2>11, <2>12, <2>13 DEF IInv, Sound
<1>2. CASE ~Acceptable(settings)
  BY <1>2 DEF Configure, IInv, TypeOK, Exits, Sound
<1>3. QED
  BY <1>1, <1>2

\* What a sample that goes well finds and does.
LEMMA SampleFacts ==
  ASSUME IInv, NEW in \in Inputs, NEW outside \in BOOLEAN, NEW breach \in BOOLEAN,
         Sample(in, outside, breach)
  PROVE  /\ TypeOK /\ Accepted /\ Healthy /\ FallbackCounted /\ DropSeen
         /\ Booked /\ Moded /\ Traced /\ TraceShort /\ Settled
         /\ settings.steps \in Nat /\ settings.stride \in Nat
         /\ settings.useMap \in BOOLEAN /\ settings.timed \in BOOLEAN
         /\ settings.faultStep \in Nat \cup {-1}
         /\ n \in Nat /\ n < settings.steps /\ n' = n + 1
         /\ settings' = settings /\ exit = "running" /\ exit' = "running"
         /\ beyond' = FALSE /\ band' = Append(band, outside)
         /\ Timed /\ CountFallback /\ Settle(outside) /\ Trace
         /\ ~faulted' /\ fallback' \in BOOLEAN /\ mapHeld' \in BOOLEAN
         /\ fallback => fallback'
         /\ ~settings.useMap => fallback' = fallback
         /\ settings.useMap /\ n = settings.faultStep => fallback'
<1>1. exit = "running" /\ n < settings.steps
  BY DEF Sample, Looping
<1>2. /\ TypeOK /\ Accepted /\ Healthy /\ FallbackCounted /\ DropSeen
      /\ Booked /\ Moded /\ Traced /\ TraceShort /\ Settled
  BY <1>1 DEF IInv, Sound
<1>3. /\ settings.steps \in Nat /\ settings.stride \in Nat
      /\ settings.useMap \in BOOLEAN /\ settings.timed \in BOOLEAN
      /\ settings.faultStep \in Nat \cup {-1}
  BY <1>2 DEF TypeOK, SettingsType
<1>4. n \in Nat
  BY <1>2, <1>3 DEF TypeOK
<1>5. /\ Called(in) /\ returned' = "OK"
      /\ n' = n + 1 /\ settings' = settings /\ exit' = "running"
      /\ band' = Append(band, outside) /\ beyond' = breach /\ ~breach
      /\ Timed /\ CountFallback /\ Settle(outside) /\ Trace
  BY <1>1 DEF Sample, PostStepHolds
<1>6. fallback \in BOOLEAN
  BY <1>2 DEF Healthy
<1>7. /\ ~faulted' /\ fallback' \in BOOLEAN /\ mapHeld' \in BOOLEAN
      /\ fallback => fallback'
      /\ ~settings.useMap => fallback' = fallback
      /\ settings.useMap /\ n = settings.faultStep => fallback'
  BY <1>2, <1>5, <1>6, CallFacts
<1>8. QED
  BY <1>1, <1>2, <1>3, <1>4, <1>5, <1>7

LEMMA FallbackStep ==
  ASSUME IInv, NEW in \in Inputs, NEW outside \in BOOLEAN, NEW breach \in BOOLEAN,
         Sample(in, outside, breach)
  PROVE  /\ FallbackCounted' /\ DropSeen'
         /\ fallbackFirst' \in -1..settings.steps
         /\ fallbackSteps' \in 0..settings.steps
         /\ fallback => fallbackFirst' = fallbackFirst
         /\ ~fallback /\ fallback' => fallbackFirst' = n
<1>1. /\ TypeOK /\ Accepted /\ Healthy /\ FallbackCounted /\ DropSeen
      /\ settings.steps \in Nat /\ settings.faultStep \in Nat \cup {-1}
      /\ n \in Nat /\ n < settings.steps /\ n' = n + 1 /\ settings' = settings
      /\ CountFallback /\ fallback' \in BOOLEAN
      /\ fallback => fallback'
      /\ ~settings.useMap => fallback' = fallback
      /\ settings.useMap /\ n = settings.faultStep => fallback'
      /\ settings.useMap \in BOOLEAN
  BY SampleFacts
<1>2. /\ fallbackFirst \in -1..settings.steps /\ fallbackSteps \in 0..settings.steps
      /\ fallback \in BOOLEAN
  BY <1>1 DEF TypeOK, Healthy
<1>3. CASE fallback
  <2>1. fallbackFirst # -1 /\ fallbackFirst < n /\ fallbackSteps = n - fallbackFirst
    BY <1>1, <1>3 DEF FallbackCounted
  <2>2. fallbackSteps' = fallbackSteps + 1 /\ fallbackFirst' = fallbackFirst
    BY <1>1, <1>2, <1>3, <2>1 DEF CountFallback
  <2>3. FallbackCounted'
    BY <1>1, <1>2, <1>3, <2>1, <2>2 DEF FallbackCounted
  <2>4. DropSeen'
    BY <1>1, <1>2, <1>3, <2>1, <2>2 DEF DropSeen, Accepted
  <2>5. QED
    BY <1>1, <1>2, <1>3, <2>1, <2>2, <2>3, <2>4
<1>4. CASE ~fallback /\ fallback'
  <2>1. fallbackFirst = -1 /\ fallbackSteps = 0 /\ settings.useMap
    BY <1>1, <1>4 DEF FallbackCounted
  <2>2. fallbackSteps' = 1 /\ fallbackFirst' = n
    BY <1>4, <1>1, <2>1 DEF CountFallback
  <2>3. FallbackCounted'
    BY <1>1, <1>4, <2>1, <2>2 DEF FallbackCounted
  <2>4. DropSeen'
    BY <1>1, <1>4, <2>2 DEF DropSeen
  <2>5. QED
    BY <1>1, <1>4, <2>2, <2>3, <2>4
<1>5. CASE ~fallback /\ ~fallback'
  <2>1. fallbackFirst = -1 /\ fallbackSteps = 0
    BY <1>1, <1>5 DEF FallbackCounted
  <2>2. fallbackSteps' = 0 /\ fallbackFirst' = -1
    BY <1>1, <1>5, <2>1 DEF CountFallback
  <2>3. FallbackCounted'
    BY <1>1, <1>5, <2>1, <2>2 DEF FallbackCounted
  <2>4. DropSeen'
    BY <1>1, <1>5 DEF DropSeen, Accepted
  <2>5. QED
    BY <1>1, <1>5, <2>2, <2>3, <2>4
<1>6. QED
  BY <1>1, <1>2, <1>3, <1>4, <1>5

LEMMA TimingStep ==
  ASSUME IInv, NEW in \in Inputs, NEW outside \in BOOLEAN, NEW breach \in BOOLEAN,
         Sample(in, outside, breach)
  PROVE  Booked' /\ timing' \in [Buckets -> Nat]
<1>1. /\ TypeOK /\ Healthy /\ FallbackCounted /\ Booked
      /\ n \in Nat /\ n' = n + 1 /\ settings' = settings
      /\ Timed /\ CountFallback /\ fallback' \in BOOLEAN
      /\ fallback => fallback'
      /\ ~settings.useMap => fallback' = fallback
      /\ settings.useMap \in BOOLEAN /\ settings.timed \in BOOLEAN
  BY SampleFacts
<1>2. timing \in [Buckets -> Nat] /\ fallback \in BOOLEAN /\ fallbackSteps \in Int
  BY <1>1 DEF TypeOK, Healthy
<1>3. CASE ~settings.timed
  BY <1>1, <1>2, <1>3 DEF Timed, Booked
<1>4. CASE settings.timed
  <2>1. Bucket \in Buckets /\ timing' = [timing EXCEPT ![Bucket] = @ + 1]
    BY <1>1, <1>4 DEF Timed, Bucket, Buckets
  <2>2. timing' \in [Buckets -> Nat]
    BY <1>2, <2>1
  <2>3. \A b \in Buckets : timing'[b] = IF b = Bucket THEN timing[b] + 1 ELSE timing[b]
    BY <1>2, <2>1
  <2>4. /\ timing["nominal"] \in Nat /\ timing["mapped"] \in Nat
        /\ timing["transition"] \in Nat /\ timing["latched"] \in Nat
    BY <1>2 DEF Buckets
  <2>5. CASE ~settings.useMap
    <3>1. Bucket = "nominal" /\ ~fallback /\ ~fallback' /\ fallbackSteps' = fallbackSteps
      BY <1>1, <2>5 DEF Bucket, FallbackCounted, CountFallback
    <3>2. /\ timing'["nominal"] = timing["nominal"] + 1
          /\ timing'["mapped"] = timing["mapped"]
          /\ timing'["transition"] = timing["transition"]
          /\ timing'["latched"] = timing["latched"]
      BY <2>3, <3>1 DEF Buckets
    <3>3. QED
      BY <1>1, <1>2, <1>4, <2>2, <2>4, <2>5, <3>1, <3>2 DEF Booked
  <2>6. CASE settings.useMap /\ ~fallback'
    <3>1. Bucket = "mapped" /\ ~fallback /\ fallbackSteps' = fallbackSteps
      BY <1>1, <2>6 DEF Bucket, CountFallback
    <3>2. /\ timing'["nominal"] = timing["nominal"]
          /\ timing'["mapped"] = timing["mapped"] + 1
          /\ timing'["transition"] = timing["transition"]
          /\ timing'["latched"] = timing["latched"]
      BY <2>3, <3>1 DEF Buckets
    <3>3. /\ timing["nominal"] = 0 /\ timing["transition"] = 0
          /\ timing["transition"] + timing["latched"] = fallbackSteps
          /\ timing["mapped"] + fallbackSteps + timing["nominal"] = n
      BY <1>1, <1>4, <2>6, <3>1 DEF Booked
    <3>4. /\ timing'["transition"] + timing'["latched"] = fallbackSteps'
          /\ timing'["mapped"] + fallbackSteps' + timing'["nominal"] = n'
          /\ timing'["nominal"] = 0 /\ timing'["transition"] = 0
      BY <1>1, <1>2, <2>4, <3>1, <3>2, <3>3
    <3>5. Booked'
      BY <1>1, <2>6, <3>4 DEF Booked
    <3>6. QED
      BY <2>2, <3>5
  <2>7. CASE settings.useMap /\ fallback' /\ ~fallback
    <3>1. Bucket = "transition" /\ fallbackSteps' = fallbackSteps + 1
      BY <1>1, <2>7 DEF Bucket, CountFallback
    <3>2. /\ timing'["nominal"] = timing["nominal"]
          /\ timing'["mapped"] = timing["mapped"]
          /\ timing'["transition"] = timing["transition"] + 1
          /\ timing'["latched"] = timing["latched"]
      BY <2>3, <3>1 DEF Buckets
    <3>3. QED
      BY <1>1, <1>2, <1>4, <2>2, <2>4, <2>7, <3>1, <3>2 DEF Booked
  <2>8. CASE settings.useMap /\ fallback' /\ fallback
    <3>1. Bucket = "latched" /\ fallbackSteps' = fallbackSteps + 1
      BY <1>1, <2>8 DEF Bucket, CountFallback
    <3>2. /\ timing'["nominal"] = timing["nominal"]
          /\ timing'["mapped"] = timing["mapped"]
          /\ timing'["transition"] = timing["transition"]
          /\ timing'["latched"] = timing["latched"] + 1
      BY <2>3, <3>1 DEF Buckets
    <3>3. QED
      BY <1>1, <1>2, <1>4, <2>2, <2>4, <2>8, <3>1, <3>2 DEF Booked
  <2>9. QED
    BY <1>1, <1>2, <2>5, <2>6, <2>7, <2>8
<1>5. QED
  BY <1>1, <1>3, <1>4

\* What appending does to a trace.
LEMMA TraceAppended ==
  ASSUME NEW S, NEW q \in Seq(S), NEW e \in S
  PROVE  /\ Append(q, e) \in Seq(S)
         /\ Len(Append(q, e)) = Len(q) + 1
         /\ DOMAIN Append(q, e) = 1..(Len(q) + 1)
         /\ DOMAIN q = 1..Len(q)
         /\ \A k \in DOMAIN q : Append(q, e)[k] = q[k]
         /\ Append(q, e)[Len(q) + 1] = e
OBVIOUS

Lines == [step : Nat \ {0}, mode : 0..2]

LEMMA TraceStep ==
  ASSUME IInv, NEW in \in Inputs, NEW outside \in BOOLEAN, NEW breach \in BOOLEAN,
         Sample(in, outside, breach)
  PROVE  /\ Moded' /\ Traced' /\ TraceShort'
         /\ trace' \in Seq(Lines) /\ Len(trace') <= TraceCapacity
<1>1. /\ TypeOK /\ Accepted /\ Healthy /\ FallbackCounted /\ Moded /\ Traced /\ TraceShort
      /\ settings.steps \in Nat /\ settings.stride \in Nat
      /\ n \in Nat /\ n < settings.steps /\ n' = n + 1 /\ settings' = settings
      /\ Trace /\ fallback' \in BOOLEAN /\ (fallback => fallback')
      /\ (~settings.useMap => fallback' = fallback) /\ settings.useMap \in BOOLEAN
  BY SampleFacts
<1>2. /\ trace \in Seq(Lines) /\ fallback \in BOOLEAN /\ fallbackFirst \in Int
      /\ Len(trace) \in Nat /\ DOMAIN trace = 1..Len(trace)
  BY <1>1 DEF TypeOK, Healthy, Lines
<1>3. /\ FallbackCounted' /\ fallbackFirst' \in -1..settings.steps
      /\ fallback => fallbackFirst' = fallbackFirst
      /\ ~fallback /\ fallback' => fallbackFirst' = n
  BY FallbackStep
<1> DEFINE line == [step |-> n + 1, mode |-> Mode]
<1>4. line \in Lines /\ line.step = n + 1 /\ line.mode = Mode
  BY <1>1 DEF Mode, Lines
<1>5. line.mode = 2 <=> fallback' /\ line.step > fallbackFirst'
  <2>1. fallback' => settings.useMap
    BY <1>1, <1>2 DEF FallbackCounted
  <2>2. Mode = 2 <=> fallback'
    BY <1>1, <2>1 DEF Mode
  <2>3. fallback' => n + 1 > fallbackFirst'
    BY <1>1, <1>3 DEF FallbackCounted
  <2>4. QED
    BY <1>4, <2>2, <2>3
<1>6. \A k \in DOMAIN trace : trace[k] \in Lines /\ trace[k].step \in 1..n
  <2>1. \A k \in DOMAIN trace : trace[k].step \in Due(n)
    BY <1>1 DEF Traced
  <2>2. Due(n) \subseteq 1..n
    BY DEF Due
  <2>3. QED
    BY <1>2, <2>1, <2>2
<1>7. \A k \in DOMAIN trace :
         trace[k].mode = 2 <=> fallback' /\ trace[k].step > fallbackFirst'
  <2>1. SUFFICES ASSUME NEW k \in DOMAIN trace
                 PROVE  trace[k].mode = 2 <=> fallback' /\ trace[k].step > fallbackFirst'
    OBVIOUS
  <2>2. trace[k].mode = 2 <=> fallback /\ trace[k].step > fallbackFirst
    BY <1>1 DEF Moded
  <2>3. trace[k].step \in 1..n
    BY <1>6
  <2>4. QED
    BY <1>1, <1>2, <1>3, <2>2, <2>3
<1>8. Due(n + 1) = IF TraceDue THEN Due(n) \cup {n + 1} ELSE Due(n)
  <2>1. CASE settings.stride = 0
    BY <2>1 DEF Due, TraceDue
  <2>2. CASE settings.stride # 0
    <3>1. TraceDue <=> (n + 1) % settings.stride = 0 \/ n + 1 = settings.steps
      BY <2>2 DEF TraceDue
    <3>2. \A s : s \in 1..(n + 1) <=> s \in 1..n \/ s = n + 1
      BY <1>1
    <3>3. QED
      BY <2>2, <3>1, <3>2 DEF Due
  <2>3. QED
    BY <2>1, <2>2
<1>9. CASE ~TraceDue
  <2>1. trace' = trace
    BY <1>1, <1>9 DEF Trace
  <2>2. Moded'
    BY <1>7, <2>1 DEF Moded
  <2>3. Due(n)' = Due(n)
    BY <1>1, <1>8, <1>9 DEF Due
  <2>4. Traced'
    BY <1>1, <2>1, <2>3 DEF Traced
  <2>5. settings.stride = 0 \/ n + 1 < settings.steps
    BY <1>1, <1>9 DEF TraceDue
  <2>6. settings.stride = 0 => trace = <<>>
    BY <1>1 DEF TraceShort
  <2>7. settings.stride # 0 => Len(trace) * settings.stride <= n
    BY <1>1 DEF TraceShort
  <2>8. Len(trace) * settings.stride \in Int
    BY <1>1, <1>2
  <2>9. TraceShort'
    BY <1>1, <2>1, <2>5, <2>6, <2>7, <2>8 DEF TraceShort
  <2>10. QED
    BY <1>1, <1>2, <2>1, <2>2, <2>4, <2>9 DEF TypeOK
<1>10. CASE TraceDue
  <2>1. trace' = Append(trace, line)
    BY <1>1, <1>10 DEF Trace
  <2>2. /\ trace' \in Seq(Lines)
        /\ Len(trace') = Len(trace) + 1
        /\ DOMAIN trace' = 1..(Len(trace) + 1)
        /\ \A k \in DOMAIN trace : trace'[k] = trace[k]
        /\ trace'[Len(trace) + 1] = line
    BY <1>2, <1>4, <2>1, TraceAppended
  <2>3. \A k \in DOMAIN trace' : k \in DOMAIN trace \/ k = Len(trace) + 1
    BY <1>2, <2>2
  <2>4. Moded'
    <3>1. SUFFICES ASSUME NEW k \in DOMAIN trace'
                   PROVE  trace'[k].mode = 2 <=> fallback' /\ trace'[k].step > fallbackFirst'
      BY DEF Moded
    <3>2. QED
      BY <1>5, <1>7, <2>2, <2>3
  <2>5. {trace'[k].step : k \in DOMAIN trace'} = {trace[k].step : k \in DOMAIN trace} \cup {n + 1}
    <3>1. \A k \in DOMAIN trace : k \in DOMAIN trace'
      BY <1>2, <2>2
    <3>2. Len(trace) + 1 \in DOMAIN trace'
      BY <1>2, <2>2
    <3>3. QED
      BY <1>4, <2>2, <2>3, <3>1, <3>2
  <2>6. Due(n)' = Due(n + 1)
    BY <1>1 DEF Due
  <2>7. Traced'
    BY <1>1, <1>8, <1>10, <2>5, <2>6 DEF Traced
  <2>8. settings.stride \in Nat \ {0}
    BY <1>1, <1>10 DEF TraceDue
  <2>9. Len(trace) * settings.stride <= n /\ Len(trace) * settings.stride \in Int
    BY <1>1, <1>2, <2>8 DEF TraceShort
  <2>10. (Len(trace') - 1) * settings.stride <= settings.steps - 1
    <3>1. Len(trace') - 1 = Len(trace)
      BY <1>2, <2>2
    <3>2. QED
      BY <1>1, <2>9, <3>1
  <2>11. TraceShort'
    <3>1. CASE n + 1 < settings.steps
      <4>1. (n + 1) % settings.stride = 0
        BY <1>10, <3>1, <1>1 DEF TraceDue
      <4>2. (Len(trace) + 1) * settings.stride <= n + 1
        BY <1>1, <1>2, <2>8, <2>9, <4>1, ShortGrows
      <4>3. QED
        BY <1>1, <2>2, <2>8, <3>1, <4>2 DEF TraceShort
    <3>2. CASE ~(n + 1 < settings.steps)
      BY <1>1, <2>8, <2>10, <3>2 DEF TraceShort
    <3>3. QED
      BY <3>1, <3>2
  <2>12. Len(trace') <= TraceCapacity
    <3>1. (settings.steps - 1) \div settings.stride + 1 <= TraceCapacity
      BY <1>1, <2>8 DEF Accepted, TraceFits
    <3>2. settings.steps - 1 \in Nat /\ Len(trace') \in Nat
      BY <1>1, <1>2, <2>2
    <3>3. Len(trace') <= (settings.steps - 1) \div settings.stride + 1
      BY <2>8, <2>10, <3>2, ShortFits
    <3>4. (settings.steps - 1) \div settings.stride \in Nat
      BY <2>8, <3>2, Division
    <3>5. QED
      BY <3>1, <3>2, <3>3, <3>4, CapacityPositive
  <2>13. QED
    BY <2>2, <2>4, <2>7, <2>11, <2>12
<1>11. QED
  BY <1>9, <1>10

LEMMA SettlingStep ==
  ASSUME IInv, NEW in \in Inputs, NEW outside \in BOOLEAN, NEW breach \in BOOLEAN,
         Sample(in, outside, breach)
  PROVE  /\ Settled' /\ band' \in Seq(BOOLEAN)
         /\ lastOutside' \in -1..settings.steps
<1>1. /\ TypeOK /\ Settled
      /\ settings.steps \in Nat /\ n \in Nat /\ n < settings.steps /\ n' = n + 1
      /\ band' = Append(band, outside) /\ Settle(outside)
  BY SampleFacts
<1>2. band \in Seq(BOOLEAN) /\ Len(band) = n + 1 /\ lastOutside \in -1..n
  BY <1>1 DEF TypeOK, Settled
<1>3. /\ band' \in Seq(BOOLEAN) /\ Len(band') = n' + 1
      /\ \A i \in 0..n : band'[i + 1] = band[i + 1]
      /\ band'[n' + 1] = outside
  BY <1>1, <1>2
<1>4. CASE outside
  <2>1. lastOutside' = n + 1
    BY <1>1, <1>4 DEF Settle
  <2>2. QED
    BY <1>1, <1>3, <1>4, <2>1 DEF Settled
<1>5. CASE ~outside
  <2>1. lastOutside' = lastOutside
    BY <1>1, <1>5 DEF Settle
  <2>2. \A i \in (lastOutside + 1)..(n + 1) : i \in (lastOutside + 1)..n \/ i = n + 1
    BY <1>1, <1>2
  <2>3. \A i \in (lastOutside + 1)..n : ~band'[i + 1]
    BY <1>1, <1>2, <1>3 DEF Settled
  <2>4. lastOutside # -1 => band'[lastOutside + 1]
    BY <1>1, <1>2, <1>3 DEF Settled
  <2>5. QED
    BY <1>1, <1>2, <1>3, <1>5, <2>1, <2>2, <2>3, <2>4 DEF Settled
<1>6. QED
  BY <1>4, <1>5

LEMMA SampleInv ==
  ASSUME IInv, NEW in \in Inputs, NEW outside \in BOOLEAN, NEW breach \in BOOLEAN,
         Sample(in, outside, breach)
  PROVE  IInv'
<1>1. /\ TypeOK /\ Accepted /\ settings' = settings /\ settings.steps \in Nat
      /\ n \in Nat /\ n < settings.steps /\ n' = n + 1
      /\ exit = "running" /\ exit' = "running" /\ beyond' = FALSE
      /\ ~faulted' /\ fallback' \in BOOLEAN /\ mapHeld' \in BOOLEAN
  BY SampleFacts
<1>2. /\ FallbackCounted' /\ DropSeen' /\ fallbackFirst' \in -1..settings.steps
      /\ fallbackSteps' \in 0..settings.steps
  BY FallbackStep
<1>3. Booked' /\ timing' \in [Buckets -> Nat]
  BY TimingStep
<1>4. /\ Moded' /\ Traced' /\ TraceShort'
      /\ trace' \in Seq(Lines) /\ Len(trace') <= TraceCapacity
  BY TraceStep
<1>5. Settled' /\ band' \in Seq(BOOLEAN) /\ lastOutside' \in -1..settings.steps
  BY SettlingStep
<1>6. TypeOK'
  <2>1. exit' \in Exits /\ settings' \in SettingsType /\ n' \in 0..settings'.steps
    BY <1>1 DEF TypeOK, Exits
  <2>2. mapHeld' \in BOOLEAN /\ beyond' \in BOOLEAN
    BY <1>1
  <2>3. QED
    BY <1>1, <1>2, <1>3, <1>4, <1>5, <2>1, <2>2 DEF TypeOK, Lines
<1>7. Accepted'
  BY <1>1 DEF Accepted, TraceFits
<1>8. Healthy'
  BY <1>1, Zenon DEF Healthy
<1>9. QED
  BY <1>1, <1>2, <1>3, <1>4, <1>5, <1>6, <1>7, <1>8 DEF IInv, Sound

\* A step that changes nothing but the way the process has ended.
LEMMA LeaveInv ==
  ASSUME IInv, exit = "running", exit' \in {"stopped", "reported"},
         exit' = "reported" => n = settings.steps,
         UNCHANGED <<settings, n, mapHeld, diagnostics, control, band, beyond>>
  PROVE  IInv'
<1>1. /\ UNCHANGED <<settings, n, mapHeld, timing, fallbackFirst, fallbackSteps>>
      /\ UNCHANGED <<lastOutside, trace, band, beyond, faulted, fallback>>
  BY DEF diagnostics, control
<1>2. /\ TypeOK /\ Accepted /\ Healthy /\ FallbackCounted /\ DropSeen
      /\ Booked /\ Moded /\ Traced /\ TraceShort /\ Settled
  BY DEF IInv, Sound
<1>3. TypeOK'
  BY <1>1, <1>2 DEF TypeOK, Exits
<1>4. Accepted' /\ FallbackCounted' /\ DropSeen' /\ Booked'
  BY <1>1, <1>2 DEF Accepted, TraceFits, FallbackCounted, DropSeen, Booked
<1>5. Healthy'
  BY <1>1, <1>2 DEF Healthy
<1>6. Moded' /\ Traced' /\ TraceShort' /\ Settled'
  BY <1>1, <1>2 DEF Moded, Traced, Due, TraceShort, Settled
<1>7. QED
  BY <1>1, <1>3, <1>4, <1>5, <1>6 DEF IInv

LEMMA StopInv ==
  ASSUME IInv, NEW in \in Inputs, Stop(in)
  PROVE  IInv'
<1>1. /\ exit' = "stopped" /\ mapHeld' \in BOOLEAN
      /\ UNCHANGED <<settings, n, timing, fallbackFirst, fallbackSteps>>
      /\ UNCHANGED <<lastOutside, trace, band, beyond>>
  BY DEF Stop, Called, IInv, TypeOK, diagnostics
<1>2. TypeOK'
  BY <1>1 DEF IInv, TypeOK, Exits
<1>3. QED
  BY <1>1, <1>2 DEF IInv, Sound

LEMMA StutterInv ==
  ASSUME IInv, UNCHANGED vars
  PROVE  IInv'
<1>1. /\ UNCHANGED <<exit, settings, n, mapHeld, timing, fallbackFirst, fallbackSteps>>
      /\ UNCHANGED <<lastOutside, trace, band, beyond, faulted, fallback>>
  BY DEF vars, diagnostics, control
<1>2. TypeOK'
  BY <1>1 DEF TypeOK, IInv
<1>3. Unstarted' = Unstarted /\ Sound' = Sound
  BY <1>1 DEF Unstarted, Sound
<1>4. /\ Accepted' = Accepted /\ FallbackCounted' = FallbackCounted
      /\ DropSeen' = DropSeen /\ Booked' = Booked /\ Healthy' = Healthy
  BY <1>1 DEF Accepted, TraceFits, FallbackCounted, DropSeen, Booked, Healthy
<1>5. /\ Moded' = Moded /\ Traced' = Traced /\ TraceShort' = TraceShort
      /\ Settled' = Settled
  BY <1>1 DEF Moded, Traced, Due, TraceShort, Settled
<1>6. QED
  BY <1>1, <1>2, <1>3, <1>4, <1>5 DEF IInv

LEMMA NextInv == IInv /\ [Next]_vars => IInv'
<1>1. SUFFICES ASSUME IInv, [Next]_vars PROVE IInv'
  OBVIOUS
<1>2. CASE Configure
  BY <1>1, <1>2, ConfigureInv
<1>3. CASE SampleFails
  BY <1>1, <1>3, LeaveInv DEF SampleFails, Looping
<1>4. CASE \E in \in Inputs, outside, breach \in BOOLEAN : Sample(in, outside, breach)
  BY <1>1, <1>4, SampleInv
<1>5. CASE \E in \in Inputs : Stop(in)
  BY <1>1, <1>5, StopInv
<1>6. CASE \E code \in {"reported", "stopped"} : Report(code)
  BY <1>1, <1>6, LeaveInv DEF Report
<1>7. CASE UNCHANGED vars
  BY <1>1, <1>7, StutterInv
<1>8. QED
  BY <1>1, <1>2, <1>3, <1>4, <1>5, <1>6, <1>7 DEF Next

LEMMA Invariance == Spec => []IInv
<1>1. IInv /\ [Next]_vars => IInv'
  BY NextInv
<1>2. QED
  BY InitInv, <1>1, PTL DEF Spec

-----------------------------------------------------------------------------
(* The theorems.                                                           *)

\* The process keeps values of their types, and the trace never outgrows its
\* storage, for every stride, number of samples and capacity.
THEOREM TypeCorrect == Spec => []TypeOK
<1>1. IInv => TypeOK
  BY DEF IInv
<1>2. QED
  BY Invariance, <1>1, PTL

\* A printed report is evidence of a run in which every sample went well, and of
\* latched fallback where the map was dropped.
THEOREM ReportsMeanSuccess == Spec => []ReportMeansSuccess
<1>1. IInv => ReportMeansSuccess
  <2>1. SUFFICES ASSUME IInv, Reported PROVE ReportMeansSuccess
    BY DEF ReportMeansSuccess
  <2>2. n = settings.steps /\ Accepted /\ Healthy /\ DropSeen /\ TypeOK
    BY <2>1 DEF IInv, Sound, Reported
  <2>3. settings.faultStep \in Int /\ settings.steps \in Int
    BY <2>2 DEF TypeOK, SettingsType
  <2>4. QED
    BY <2>1, <2>2, <2>3 DEF ReportMeansSuccess, Accepted, Healthy, DropSeen
<1>2. QED
  BY Invariance, <1>1, PTL

\* Latch, fallback counters, timing buckets and trace of a printed report tell
\* one story.
THEOREM DiagnosticsAlwaysAgree == Spec => []DiagnosticsAgree
<1>1. IInv => DiagnosticsAgree
  <2>0. ASSUME IInv PROVE Len(trace) <= TraceCapacity
    BY <2>0 DEF IInv, Sound, TypeOK
  <2>1. SUFFICES ASSUME IInv, Reported PROVE DiagnosticsAgree
    BY <2>0 DEF DiagnosticsAgree
  <2>2. /\ n = settings.steps /\ TypeOK
        /\ FallbackCounted /\ Booked /\ Moded /\ Traced
    BY <2>1 DEF IInv, Sound, Reported
  <2>3. {trace[k].step : k \in DOMAIN trace} =
           IF settings.stride = 0 THEN {}
           ELSE {s \in 1..settings.steps : s % settings.stride = 0 \/ s = settings.steps}
    BY <2>2 DEF Traced, Due
  <2>4. QED
    BY <2>0, <2>1, <2>2, <2>3 DEF DiagnosticsAgree, FallbackCounted, Booked, Moded
<1>2. QED
  BY Invariance, <1>1, PTL

\* Settling is reported at the first state from which the current stays inside
\* the band to the end.
THEOREM SettlingAlwaysLast == Spec => []SettlingIsLast
<1>1. IInv => SettlingIsLast
  <2>1. SUFFICES ASSUME IInv, Reported PROVE SettlingIsLast
    BY DEF SettlingIsLast
  <2>2. n = settings.steps /\ TypeOK /\ Settled
    BY <2>1 DEF IInv, Sound, Reported
  <2>3. settings.steps \in Nat /\ lastOutside \in -1..settings.steps
    BY <2>2 DEF TypeOK, SettingsType
  <2>4. CASE lastOutside = settings.steps
    BY <2>2, <2>3, <2>4 DEF SettlingIsLast, SettlingSamples, Settled
  <2>5. CASE lastOutside # settings.steps
    BY <2>2, <2>3, <2>5 DEF SettlingIsLast, SettlingSamples, Settled
  <2>6. QED
    BY <2>4, <2>5
<1>2. QED
  BY Invariance, <1>1, PTL
=============================================================================
