---------------------------- MODULE MachineProofs ----------------------------
(***************************************************************************)
(* What is proved of the machine's side: the voltage it is given           *)
(* (Modulation.tla) and what a step of the plant makes of it               *)
(* (PlantStep.tla), for every bus, command, machine, start, step length    *)
(* and region of the map.                                                  *)
(*                                                                         *)
(* Modulation.  The three phases of a command on or below the circle never *)
(* span more than the bus, so that centring them leaves nothing for the    *)
(* clip to do; the bridge then undoes the modulator exactly.               *)
(*                                                                         *)
(* PlantStep.  The slopes collected so far are always the derivatives at   *)
(* the points that follow from the state and the slopes before             *)
(* (SlopesFollow); with that, what a commit computes is a calculation.     *)
(***************************************************************************)
EXTENDS Modulation, PlantStep, SequenceTheorems, TLAPS

-----------------------------------------------------------------------------
(* The modulator and the bridge.                                           *)

IntVector == [alpha : Int, beta : Int, bus : Int]

\* Comparing squares compares magnitudes.
LEMMA SquareOrder ==
  ASSUME NEW x \in Int, NEW c \in Nat, x * x <= c * c
  PROVE  x <= c /\ -c <= x
<1>1. ASSUME x > c PROVE FALSE
  <2>1. x * x > c * c
    BY <1>1
  <2> QED BY <2>1
<1>2. ASSUME -x > c PROVE FALSE
  <2>1. (-x) * (-x) > c * c
    BY <1>2
  <2>2. (-x) * (-x) = x * x
    OBVIOUS
  <2> QED BY <2>1, <2>2
<1> QED BY <1>1, <1>2

\* Cauchy's inequality for the three line voltages of a command: none is larger
\* than the bus when the command is on or below the circle.
LEMMA SpanWithinBus ==
  ASSUME NEW a \in Int, NEW b \in Int, NEW u \in Nat, 3 * a * a + b * b <= u * u
  PROVE  /\ 3 * a - b <= 2 * u /\ -(2 * u) <= 3 * a - b
         /\ 3 * a + b <= 2 * u /\ -(2 * u) <= 3 * a + b
         /\ 2 * b <= 2 * u /\ -(2 * u) <= 2 * b
<1> DEFINE bound == (2 * u) * (2 * u)
<1>0. 2 * u \in Nat /\ bound = 4 * (u * u)
  OBVIOUS
<1>1. (3 * a - b) * (3 * a - b) <= bound
  <2>1. (3 * a - b) * (3 * a - b)
          = 4 * (3 * a * a + b * b) - 3 * ((a + b) * (a + b))
    OBVIOUS
  <2>2. (a + b) * (a + b) >= 0
    OBVIOUS
  <2> QED BY <1>0, <2>1, <2>2
<1>2. (3 * a + b) * (3 * a + b) <= bound
  <2>1. (3 * a + b) * (3 * a + b)
          = 4 * (3 * a * a + b * b) - 3 * ((a - b) * (a - b))
    OBVIOUS
  <2>2. (a - b) * (a - b) >= 0
    OBVIOUS
  <2> QED BY <1>0, <2>1, <2>2
<1>3. (2 * b) * (2 * b) <= bound
  <2>1. (2 * b) * (2 * b) = 4 * (3 * a * a + b * b) - 12 * (a * a)
    OBVIOUS
  <2>2. a * a >= 0
    OBVIOUS
  <2> QED BY <1>0, <2>1, <2>2
<1> HIDE DEF bound
<1>4. 3 * a - b \in Int /\ 3 * a + b \in Int /\ 2 * b \in Int
  OBVIOUS
<1> QED BY <1>0, <1>1, <1>2, <1>3, <1>4, SquareOrder DEF bound

\* What centring makes of three phases that span no more than 2 * n.
LEMMA CentredFits ==
  ASSUME NEW a \in Int, NEW b \in Int, NEW c \in Int, NEW n \in Nat,
         a - b <= 2 * n, b - a <= 2 * n, a - c <= 2 * n, c - a <= 2 * n,
         b - c <= 2 * n, c - b <= 2 * n, NEW x \in {a, b, c}
  PROVE  LET k == -(Greater(a, Greater(b, c)) + Lesser(a, Lesser(b, c)))
         IN k \in Int /\ 0 <= 2 * n + 2 * x + k /\ 2 * n + 2 * x + k <= 4 * n
<1> DEFINE high == Greater(a, Greater(b, c))
           low == Lesser(a, Lesser(b, c))
<1>1. high \in {a, b, c} /\ low \in {a, b, c}
  BY DEF Greater, Lesser
<1>2. x <= high /\ low <= x /\ high - low <= 2 * n
  BY DEF Greater, Lesser
<1> HIDE DEF high, low
<1>3. -(high + low) \in Int /\ 0 <= 2 * n + 2 * x - (high + low)
        /\ 2 * n + 2 * x - (high + low) <= 4 * n
  BY <1>1, <1>2
<1> QED BY <1>1, <1>3 DEF high, low

\* The duties before the clip.
Centred(w, x) == 2 * w.bus + 2 * x + Common(InverseClarke(w))

\* The clip has nothing to do.
LEMMA NothingClipped ==
  ASSUME NEW w \in IntVector, w.bus > 0, Square(w) <= w.bus * w.bus
  PROVE  LET p == InverseClarke(w)
         IN /\ Duties(w) = [a |-> Centred(w, p.a), b |-> Centred(w, p.b),
                            c |-> Centred(w, p.c), den |-> 4 * w.bus, enabled |-> 1]
            /\ InRange(Duties(w))
            /\ Common(p) \in Int
<1> DEFINE p == InverseClarke(w)
<1>1. w.alpha \in Int /\ w.beta \in Int /\ w.bus \in Nat
  BY DEF IntVector
<1>2. /\ 3 * w.alpha - w.beta <= 2 * w.bus /\ -(2 * w.bus) <= 3 * w.alpha - w.beta
      /\ 3 * w.alpha + w.beta <= 2 * w.bus /\ -(2 * w.bus) <= 3 * w.alpha + w.beta
      /\ 2 * w.beta <= 2 * w.bus /\ -(2 * w.bus) <= 2 * w.beta
  BY <1>1, SpanWithinBus DEF Square
<1>3. /\ p.a = 2 * w.alpha /\ p.b = w.beta - w.alpha /\ p.c = -w.beta - w.alpha
      /\ p.a \in Int /\ p.b \in Int /\ p.c \in Int
  BY <1>1 DEF InverseClarke
<1>4. Common(p) = -(Greater(p.a, Greater(p.b, p.c)) + Lesser(p.a, Lesser(p.b, p.c)))
  BY DEF Common
<1>5. \A x \in {p.a, p.b, p.c} :
         0 <= Centred(w, x) /\ Centred(w, x) <= 4 * w.bus /\ Centred(w, x) \in Int
  <2> HIDE DEF p
  <2> SUFFICES ASSUME NEW x \in {p.a, p.b, p.c}
      PROVE 0 <= Centred(w, x) /\ Centred(w, x) <= 4 * w.bus /\ Centred(w, x) \in Int
    OBVIOUS
  <2>1. Centred(w, x) = 2 * w.bus + 2 * x + Common(p)
    BY DEF Centred, p
  <2>2. /\ p.a - p.b <= 2 * w.bus /\ p.b - p.a <= 2 * w.bus
        /\ p.a - p.c <= 2 * w.bus /\ p.c - p.a <= 2 * w.bus
        /\ p.b - p.c <= 2 * w.bus /\ p.c - p.b <= 2 * w.bus
    BY <1>1, <1>2, <1>3
  <2>3. /\ Common(p) \in Int
        /\ 0 <= 2 * w.bus + 2 * x + Common(p)
        /\ 2 * w.bus + 2 * x + Common(p) <= 4 * w.bus
    <3> DEFINE n == w.bus
               a == p.a
               b == p.b
               c == p.c
    <3>1. /\ a \in Int /\ b \in Int /\ c \in Int /\ n \in Nat /\ x \in {a, b, c}
          /\ a - b <= 2 * n /\ b - a <= 2 * n /\ a - c <= 2 * n /\ c - a <= 2 * n
          /\ b - c <= 2 * n /\ c - b <= 2 * n
      BY <1>1, <1>3, <2>2
    <3>2. Common(p) = -(Greater(a, Greater(b, c)) + Lesser(a, Lesser(b, c)))
      BY <1>4
    <3> HIDE DEF n, a, b, c
    <3>3. LET k == -(Greater(a, Greater(b, c)) + Lesser(a, Lesser(b, c)))
          IN k \in Int /\ 0 <= 2 * n + 2 * x + k /\ 2 * n + 2 * x + k <= 4 * n
      BY <3>1, CentredFits
    <3> QED BY <3>2, <3>3 DEF n
  <2> QED BY <1>1, <1>3, <2>1, <2>3
<1>6. \A x \in {p.a, p.b, p.c} :
         Clip(2 * w.bus + 2 * x + Common(p), 0, 4 * w.bus) = Centred(w, x)
  BY <1>1, <1>5 DEF Clip, Greater, Lesser, Centred
<1>7. Duties(w) = [a |-> Centred(w, p.a), b |-> Centred(w, p.b),
                   c |-> Centred(w, p.c), den |-> 4 * w.bus, enabled |-> 1]
  BY <1>6 DEF Duties
<1>8. InRange(Duties(w))
  BY <1>5, <1>7 DEF InRange
<1>9. Common(p) \in Int
  BY <1>3, <1>4 DEF Greater, Lesser
<1> QED BY <1>7, <1>8, <1>9

\* The bridge makes of those duties the command, in parts of its bus.
LEMMA BridgeUndoes ==
  ASSUME NEW w \in IntVector, w.bus > 0, Square(w) <= w.bus * w.bus, NEW u \in Int
  PROVE  LET v == Bridge(Duties(w), u)
         IN /\ v.alpha = 36 * u * w.alpha
            /\ v.beta = 36 * u * w.beta
            /\ v.den = 36 * w.bus
<1> DEFINE p == InverseClarke(w)
           k == Common(p)
           d == Duties(w)
           sum == d.a + d.b + d.c
<1>1. w.alpha \in Int /\ w.beta \in Int /\ w.bus \in Nat
  BY DEF IntVector
<1>2. /\ p.a = 2 * w.alpha /\ p.b = w.beta - w.alpha /\ p.c = -w.beta - w.alpha
  BY DEF InverseClarke
<1>3. /\ d.a = 2 * w.bus + 2 * p.a + k /\ d.b = 2 * w.bus + 2 * p.b + k
      /\ d.c = 2 * w.bus + 2 * p.c + k /\ d.den = 4 * w.bus /\ k \in Int
  BY NothingClipped DEF Centred
<1> HIDE DEF p, k, d
<1>4. /\ 3 * d.a - sum = 12 * w.alpha
      /\ 3 * d.b - sum = 6 * w.beta - 6 * w.alpha
      /\ 3 * d.c - sum = -6 * w.beta - 6 * w.alpha
  BY <1>1, <1>2, <1>3
<1>5. Bridge(d, u) =
        [alpha |-> 2 * (u * (12 * w.alpha)) - u * (6 * w.beta - 6 * w.alpha)
                     - u * (-6 * w.beta - 6 * w.alpha),
         beta |-> 3 * (u * (6 * w.beta - 6 * w.alpha) - u * (-6 * w.beta - 6 * w.alpha)),
         den |-> 9 * d.den]
  BY <1>4 DEF Bridge, Clarke
<1>6. 2 * (u * (12 * w.alpha)) - u * (6 * w.beta - 6 * w.alpha)
        - u * (-6 * w.beta - 6 * w.alpha) = 36 * u * w.alpha
  <2>1. /\ u * (12 * w.alpha) = 12 * (u * w.alpha)
        /\ u * (6 * w.beta - 6 * w.alpha) = 6 * (u * w.beta) - 6 * (u * w.alpha)
        /\ u * (-6 * w.beta - 6 * w.alpha) = -6 * (u * w.beta) - 6 * (u * w.alpha)
        /\ 36 * u * w.alpha = 36 * (u * w.alpha)
        /\ u * w.alpha \in Int /\ u * w.beta \in Int
    BY <1>1
  <2> QED BY <2>1
<1>7. 3 * (u * (6 * w.beta - 6 * w.alpha) - u * (-6 * w.beta - 6 * w.alpha))
        = 36 * u * w.beta
  BY <1>1
<1> QED BY <1>1, <1>3, <1>5, <1>6, <1>7 DEF d

\* A command above the circle has a whole magnitude, larger than the radius.
LEMMA RootIsMagnitude ==
  ASSUME NEW v \in Commands, NEW u \in Buses, u > 0, Square(v) > u * u
  PROVE  /\ Root(Square(v)) \in Nat /\ Root(Square(v)) > 0
         /\ Root(Square(v)) * Root(Square(v)) = Square(v)
<1> DEFINE n == Square(v)
           m == Root(n)
<1>1. u \in Int /\ n \in Int
  BY CommandsAssumption, BusesAssumption DEF CommandType, Square
<1>2. \E r \in 0..n : r * r = n
  BY WholeMagnitudes
<1>3. m \in 0..n /\ m * m = n
  BY <1>2 DEF Root
<1>4. u * u > 0
  BY <1>1
<1> HIDE DEF n, m
<1>5. m # 0
  BY <1>1, <1>3, <1>4 DEF n
<1> QED BY <1>1, <1>3, <1>5 DEF n, m

\* The command is brought onto or below the circle, whatever it was.
LEMMA LimitedFits ==
  ASSUME NEW v \in Commands, NEW u \in Buses, u > 0
  PROVE  LET w == Limited(v, u)
         IN w \in IntVector /\ w.bus > 0 /\ Square(w) <= w.bus * w.bus
<1>1. u \in Int /\ v.alpha \in Int /\ v.beta \in Int
  BY CommandsAssumption, BusesAssumption DEF CommandType
<1>2. CASE Square(v) <= u * u
  <2>1. Limited(v, u) = [alpha |-> v.alpha, beta |-> v.beta, bus |-> u]
    BY <1>1, <1>2 DEF Limited, Square
  <2> QED BY <1>1, <1>2, <2>1 DEF IntVector, Square
<1>3. CASE Square(v) > u * u
  <2> DEFINE m == Root(Square(v))
             w == Limited(v, u)
  <2>1. m \in Nat /\ m > 0 /\ m * m = Square(v)
    BY <1>3, RootIsMagnitude
  <2>2. w = [alpha |-> v.alpha * u, beta |-> v.beta * u, bus |-> u * m]
    BY <1>3 DEF Limited
  <2> HIDE DEF m, w
  <2>3. w \in IntVector /\ w.bus > 0
    BY <1>1, <2>1, <2>2 DEF IntVector
  <2>4. Square(w) = (u * u) * Square(v)
    BY <1>1, <2>2 DEF Square
  <2>5. w.bus * w.bus = (u * u) * (m * m)
    BY <1>1, <2>1, <2>2
  <2>6. Square(w) <= w.bus * w.bus
    <3>1. Square(w) = w.bus * w.bus
      BY <2>1, <2>4, <2>5
    <3>2. w.bus * w.bus \in Int
      BY <1>1, <2>1, <2>2
    <3> QED BY <3>1, <3>2
  <2> QED BY <2>3, <2>6 DEF w
<1>4. Square(v) \in Int /\ u * u \in Int
  BY <1>1 DEF Square
<1> QED BY <1>2, <1>3, <1>4

-----------------------------------------------------------------------------
(* The specification.                                                      *)

\* What the output and the bridge hold at each stage.
IInv ==
  /\ command \in Commands /\ vdc \in Buses
  /\ stage \in {"idle", "OK", "INVALID_INPUT", "applied", "refused"}
  /\ stage = "OK" => Sound /\ duty = Duties(Limited(command, vdc))
  /\ stage = "INVALID_INPUT" => ~Sound /\ duty = Disabled
  /\ stage = "applied" /\ Sound => voltage = Bridge(Duties(Limited(command, vdc)), vdc)
  /\ stage = "applied" /\ ~Sound => duty = Disabled /\ voltage = NoVoltage
  /\ stage = "refused" => ~Sound /\ duty = Disabled /\ voltage = NoVoltage

LEMMA InitInv == Init => IInv
BY DEF Init, IInv

\* The modulator writes its output whole, whatever was in it.
LEMMA ModulateInv ==
  ASSUME IInv, NEW v \in Commands, NEW u \in Buses, Modulate(v, u)
  PROVE  IInv'
<1>1. command' = v /\ vdc' = u
  BY DEF Modulate
<1>2. CASE v.finite /\ u > 0
  BY <1>1, <1>2 DEF Modulate, IInv, Sound
<1>3. CASE ~(v.finite /\ u > 0)
  BY <1>1, <1>3 DEF Modulate, IInv, Sound
<1> QED BY <1>2, <1>3

\* The bridge accepts what the modulator makes.
LEMMA ApplyInv ==
  ASSUME IInv, Apply
  PROVE  IInv'
<1>1. command' = command /\ vdc' = vdc /\ duty' = duty /\ Sound' = Sound
  BY DEF Apply, Sound
<1>2. command \in Commands /\ vdc \in Buses
  BY DEF IInv
<1>3. CASE stage = "OK"
  <2>1. Sound /\ duty = Duties(Limited(command, vdc))
    BY <1>3 DEF IInv
  <2>2. vdc > 0
    BY <2>1 DEF Sound
  <2>3. InRange(duty)
    BY <1>2, <2>1, <2>2, LimitedFits, NothingClipped
  <2>4. duty.enabled = 1
    BY <2>1 DEF Duties
  <2>5. stage' = "applied" /\ voltage' = Bridge(duty, vdc)
    BY <2>2, <2>3, <2>4 DEF Apply
  <2> QED BY <1>1, <1>2, <2>1, <2>5 DEF IInv
<1>4. CASE stage = "INVALID_INPUT"
  <2>1. ~Sound /\ duty = Disabled
    BY <1>4 DEF IInv
  <2>2. stage' \in {"applied", "refused"} /\ voltage' = NoVoltage
    BY <2>1 DEF Apply, Disabled
  <2> QED BY <1>1, <1>2, <2>1, <2>2 DEF IInv
<1> QED BY <1>3, <1>4 DEF Apply

\* The two properties at one state.
LEMMA InvDelivers == IInv => DeliversCommand
<1> SUFFICES ASSUME IInv, Sound, stage \in {"applied", "refused"}
    PROVE /\ stage = "applied"
          /\ IF Square(command) <= vdc * vdc THEN WithinCircle ELSE OnCircle
  BY DEF DeliversCommand
<1> DEFINE w == Limited(command, vdc)
<1>1. command \in Commands /\ vdc \in Buses /\ vdc > 0 /\ stage = "applied"
  BY DEF IInv, Sound
<1>2. voltage = Bridge(Duties(w), vdc)
  BY <1>1 DEF IInv
<1>3. w \in IntVector /\ w.bus > 0 /\ Square(w) <= w.bus * w.bus
  BY <1>1, LimitedFits
<1>4. command.alpha \in Int /\ command.beta \in Int /\ vdc \in Int
  BY <1>1, CommandsAssumption, BusesAssumption DEF CommandType
<1> HIDE DEF w
<1>5. /\ voltage.alpha = 36 * vdc * w.alpha /\ voltage.beta = 36 * vdc * w.beta
      /\ voltage.den = 36 * w.bus
  BY <1>2, <1>3, <1>4, BridgeUndoes
<1>6. CASE Square(command) <= vdc * vdc
  <2>1. w.alpha = command.alpha /\ w.beta = command.beta /\ w.bus = vdc
    BY <1>4, <1>6 DEF w, Limited, Square
  <2> QED BY <1>1, <1>4, <1>5, <1>6, <2>1 DEF WithinCircle
<1>7. CASE Square(command) > vdc * vdc
  <2> DEFINE m == Root(Square(command))
  <2>1. m \in Nat
    BY <1>1, <1>7, RootIsMagnitude
  <2>2. w.alpha = command.alpha * vdc /\ w.beta = command.beta * vdc /\ w.bus = vdc * m
    BY <1>7 DEF w, Limited
  <2> HIDE DEF m
  <2>3. /\ voltage.alpha * m = command.alpha * vdc * voltage.den
        /\ voltage.beta * m = command.beta * vdc * voltage.den
    BY <1>4, <1>5, <2>1, <2>2
  <2>4. OnCircle
    BY <2>3 DEF OnCircle, m
  <2>5. ~(Square(command) <= vdc * vdc)
    BY <1>4, <1>7 DEF Square
  <2> QED BY <1>1, <2>4, <2>5
<1>8. Square(command) \in Int /\ vdc * vdc \in Int
  BY <1>4 DEF Square
<1> QED BY <1>6, <1>7, <1>8

LEMMA InvOff == IInv => OffUnlessCommanded
BY DEF IInv, OffUnlessCommanded, Disabled

\* What the output and the bridge hold follows from the last call alone.
THEOREM OutputFollowsCall == Spec => []IInv
<1>1. IInv /\ [Next]_vars => IInv'
  <2> SUFFICES ASSUME IInv, [Next]_vars PROVE IInv'
    OBVIOUS
  <2>1. CASE Apply
    BY <2>1, ApplyInv
  <2>2. ASSUME NEW v \in Commands, NEW u \in Buses, Modulate(v, u) PROVE IInv'
    BY <2>2, ModulateInv
  <2>3. CASE UNCHANGED vars
    BY <2>3 DEF vars, IInv, Sound
  <2> QED BY <2>1, <2>2, <2>3 DEF Next
<1> QED BY <1>1, InitInv, PTL DEF Spec

\* The machine gets the command, for every bus and every command: exactly when
\* it is within reach, and with the length of the limit when it is not (there a
\* command has a whole magnitude, see WholeMagnitudes).
THEOREM CommandIsDelivered == Spec => []DeliversCommand
BY OutputFollowsCall, InvDelivers, PTL

\* A failed call leaves no voltage of an earlier one at the machine.
THEOREM FailureIsOff == Spec => []OffUnlessCommanded
BY OutputFollowsCall, InvOff, PTL

\* The property the run checks is the two together.
THEOREM BridgeAlwaysObeys == Spec => []BridgeObeys
<1>1. IInv => BridgeObeys
  BY InvDelivers, InvOff DEF BridgeObeys
<1> QED BY <1>1, OutputFollowsCall, PTL

-----------------------------------------------------------------------------
(* What a step computes.                                                   *)

\* fmod and the correction after it are the remainder.
LEMMA WrapIs ==
  ASSUME NEW a \in Int
  PROVE  Wrap(a) = a % Turn /\ Wrap(a) \in 0..(Turn - 1)
BY DEF Wrap, Fmod, Turn

LEMMA ParkIs ==
  ASSUME NEW v \in Int \X Int, NEW angle \in Int
  PROVE  /\ Park(v, angle).d \in Int /\ Park(v, angle).q \in Int
         /\ v = <<0, 0>> => Park(v, angle).d = 0 /\ Park(v, angle).q = 0
<1> DEFINE k == (angle % Turn) + 1
           cos == <<1, 0, -1, 0>>[k]
           sin == <<0, 1, 0, -1>>[k]
<1>1. k \in 1..4
  BY DEF Turn
<1>2. Park(v, angle) = [d |-> cos * v[1] + sin * v[2], q |-> cos * v[2] - sin * v[1]]
  BY DEF Park
<1> HIDE DEF k
<1>3. cos \in {-1, 0, 1} /\ sin \in {-1, 0, 1}
  BY <1>1
<1> HIDE DEF cos, sin
<1>4. v[1] \in Int /\ v[2] \in Int
  OBVIOUS
<1> QED BY <1>2, <1>3, <1>4

\* A state, moved along a rate.
LEMMA OffsetIs ==
  ASSUME NEW s \in StateType, NEW rate \in StateType, NEW dt \in Int
  PROVE  LET o == Offset(s, rate, dt)
         IN /\ o \in StateType
            /\ o.id = s.id + dt * rate.id /\ o.iq = s.iq + dt * rate.iq
            /\ o.speed = s.speed + dt * rate.speed /\ o.angle = s.angle + dt * rate.angle
<1> DEFINE o == Offset(s, rate, dt)
<1>1. DOMAIN s = {"id", "iq", "speed", "angle"}
  BY DEF StateType
<1>2. /\ s.id \in Int /\ s.iq \in Int /\ s.speed \in Int /\ s.angle \in Int
      /\ rate.id \in Int /\ rate.iq \in Int /\ rate.speed \in Int /\ rate.angle \in Int
  BY DEF StateType
<1>3. o = [id |-> s.id + dt * rate.id, iq |-> s.iq + dt * rate.iq,
           speed |-> s.speed + dt * rate.speed, angle |-> s.angle + dt * rate.angle]
  BY <1>1 DEF Offset
<1> HIDE DEF o
<1>4. /\ dt * rate.id \in Int /\ dt * rate.iq \in Int
      /\ dt * rate.speed \in Int /\ dt * rate.angle \in Int
  BY <1>2
<1>5. o \in StateType
  BY <1>2, <1>3, <1>4 DEF StateType
<1> QED BY <1>3, <1>5 DEF o

-----------------------------------------------------------------------------
(* The invariant of a step.                                                *)

\* A slope is one of the machine that steps, at the point its turn asks for.
Rate(s) == IF call.kind = "linear" THEN LinearDerivative(s) ELSE MagneticRate(s)

Point(i) ==
  IF i = 1 THEN state ELSE Offset(state, slopes[i - 1], IF i = 4 THEN 6 * H ELSE 3 * H)

SlopesFollow == Running => \A i \in 1..Len(slopes) : slopes[i] = Rate(Point(i))

PlantTyped ==
  /\ machine \in MachineType
  /\ state \in StateType
  /\ call.kind \in Kinds /\ call.load \in Int /\ call.voltage \in Int \X Int
  /\ slopes \in Seq(StateType) /\ Len(slopes) <= 4
  /\ result \in {"NONE", "OK", "REJECTED"}

PlantIInv == PlantTyped /\ SlopesFollow

LEMMA RateTyped ==
  ASSUME PlantTyped, NEW s \in StateType
  PROVE  Rate(s) \in StateType
<1>1. /\ machine.r \in Int /\ machine.friction \in Int /\ machine.magnet \in Int
      /\ machine.poles \in Int
  BY DEF PlantTyped, MachineType
<1>2. s.id \in Int /\ s.iq \in Int /\ s.speed \in Int /\ s.angle \in Int
  BY DEF StateType
<1> DEFINE we == machine.poles * s.speed
<1>3. we \in Int
  BY <1>1, <1>2
<1>4. ASSUME NEW flux, flux.d \in Int, flux.q \in Int, NEW load \in Int
      PROVE  /\ Drop(s, flux).d \in Int /\ Drop(s, flux).q \in Int
             /\ Acceleration(s, flux, load) \in Int
  <2> DEFINE v == Park(call.voltage, s.angle)
  <2>1. v.d \in Int /\ v.q \in Int
    BY <1>2, ParkIs DEF PlantTyped
  <2> HIDE DEF v
  <2>2. Drop(s, flux) = [d |-> v.d - machine.r * s.id + we * flux.q,
                         q |-> v.q - machine.r * s.iq - we * flux.d]
    BY DEF Drop, v
  <2> HIDE DEF we
  <2>3. machine.r * s.id \in Int /\ machine.r * s.iq \in Int
    BY <1>1, <1>2
  <2>4. we * flux.q \in Int /\ we * flux.d \in Int
    BY <1>3, <1>4
  <2>5. flux.d * s.iq - flux.q * s.id \in Int
    BY <1>2, <1>4
  <2>6. machine.poles * (flux.d * s.iq - flux.q * s.id) \in Int
    <3> DEFINE x == flux.d * s.iq - flux.q * s.id
    <3> HIDE DEF x
    <3>1. x \in Int
      BY <2>5 DEF x
    <3>2. machine.poles * x \in Int
      BY <1>1, <3>1
    <3> QED BY <3>2 DEF x
  <2>7. machine.friction * s.speed \in Int
    BY <1>1, <1>2
  <2>8. Acceleration(s, flux, load) \in Int
    <3> DEFINE x == machine.poles * (flux.d * s.iq - flux.q * s.id)
               y == machine.friction * s.speed
    <3>1. x \in Int /\ y \in Int
      BY <2>6, <2>7
    <3>2. Acceleration(s, flux, load) = x - load - y
      BY DEF Acceleration
    <3> HIDE DEF x, y
    <3> QED BY <1>4, <3>1, <3>2
  <2> QED BY <2>1, <2>2, <2>3, <2>4, <2>8
<1> HIDE DEF we
<1>5. /\ LinearFlux(s).d \in Int /\ LinearFlux(s).q \in Int
      /\ MagneticFlux(s).d \in Int /\ MagneticFlux(s).q \in Int
  BY <1>1, <1>2 DEF LinearFlux, MagneticFlux
<1>6. call.load \in Int /\ 0 \in Int
  BY DEF PlantTyped
<1>7. LinearDerivative(s) \in StateType
  <2> DEFINE flux == LinearFlux(s)
             rhs == Drop(s, flux)
             a == Acceleration(s, flux, call.load)
  <2>1. rhs.d \in Int /\ rhs.q \in Int /\ a \in Int
    BY <1>4, <1>5, <1>6
  <2>2. LinearDerivative(s) = [id |-> rhs.d, iq |-> rhs.q, speed |-> a, angle |-> we]
    BY DEF LinearDerivative, we
  <2> HIDE DEF flux, rhs, a
  <2> QED BY <1>3, <2>1, <2>2 DEF StateType
<1>8. MagneticDerivative(s) \in StateType
  <2> DEFINE flux == MagneticFlux(s)
             rhs == Drop(s, flux)
             load == IF call.kind = "driven" THEN 0 ELSE call.load
             a == Acceleration(s, flux, load)
  <2>1. rhs.d \in Int /\ rhs.q \in Int /\ a \in Int
    <3>1. load \in Int
      BY <1>6
    <3> HIDE DEF load
    <3> QED BY <1>4, <1>5, <3>1
  <2>2. MagneticDerivative(s)
          = [id |-> 2 * rhs.d - rhs.q, iq |-> rhs.q - rhs.d, speed |-> a, angle |-> we]
    BY DEF MagneticDerivative, we
  <2> HIDE DEF flux, rhs, a
  <2> QED BY <1>3, <2>1, <2>2 DEF StateType
<1>9. MagneticRate(s) \in StateType
  BY <1>8 DEF MagneticRate, StateType
<1> QED BY <1>7, <1>9 DEF Rate

\* The mean of four slopes, applied to the state.
LEMMA AdvancedIs ==
  ASSUME PlantTyped, Len(slopes) = 4
  PROVE  LET sum(f) == slopes[1][f] + 2 * slopes[2][f] + 2 * slopes[3][f] + slopes[4][f]
         IN /\ Advanced \in StateType
            /\ Advanced.id = state.id + H * sum("id")
            /\ Advanced.speed = state.speed + H * sum("speed")
            /\ Advanced.angle = state.angle + H * sum("angle")
<1> DEFINE sum(f) == slopes[1][f] + 2 * slopes[2][f] + 2 * slopes[3][f] + slopes[4][f]
           F == {"id", "iq", "speed", "angle"}
<1>1. state \in StateType /\ DOMAIN state = F /\ \A f \in F : state[f] \in Int
  BY DEF PlantTyped, StateType
<1>2. ASSUME NEW i \in 1..4 PROVE slopes[i] \in StateType /\ \A f \in F : slopes[i][f] \in Int
  <2>1. slopes \in Seq(StateType) /\ i \in 1..Len(slopes)
    BY DEF PlantTyped
  <2>2. slopes[i] \in StateType
    BY <2>1, ElementOfSeq
  <2> QED BY <2>2 DEF StateType
<1>3. \A f \in F : sum(f) \in Int
  BY <1>2
<1>4. Advanced = [f \in F |-> state[f] + H * sum(f)]
  BY <1>1 DEF Advanced
<1> HIDE DEF sum
<1>5. \A f \in F : H * sum(f) \in Int
  BY <1>3, StepAssumption
<1>6. Advanced = [id |-> state["id"] + H * sum("id"), iq |-> state["iq"] + H * sum("iq"),
                  speed |-> state["speed"] + H * sum("speed"),
                  angle |-> state["angle"] + H * sum("angle")]
  BY <1>4
<1>7. Advanced \in StateType
  BY <1>1, <1>5, <1>6 DEF StateType
<1> QED BY <1>6, <1>7 DEF sum

LEMMA WrappedIs ==
  ASSUME PlantTyped, Len(slopes) = 4
  PROVE  /\ Wrapped \in StateType /\ Wrapped.angle \in 0..(Turn - 1)
         /\ Wrapped.id = Advanced.id /\ Wrapped.speed = Advanced.speed
         /\ Wrapped.angle = Advanced.angle % Turn
<1>1. Advanced \in StateType /\ Advanced.angle \in Int
  BY AdvancedIs DEF StateType
<1>2. /\ Wrap(Advanced.angle) = Advanced.angle % Turn
      /\ Wrap(Advanced.angle) \in 0..(Turn - 1) /\ Wrap(Advanced.angle) \in Int
  <2>1. \A x \in 0..(Turn - 1) : x \in Int
    BY DEF Turn
  <2> QED BY <1>1, <2>1, WrapIs
<1>3. Wrapped = [Advanced EXCEPT !.angle = Wrap(Advanced.angle)]
  BY DEF Wrapped
<1> QED BY <1>1, <1>2, <1>3 DEF StateType

LEMMA StageIsPoint == slopes \in Seq(StateType) => Stage = Point(Len(slopes) + 1)
<1> SUFFICES ASSUME slopes \in Seq(StateType) PROVE Stage = Point(Len(slopes) + 1)
  OBVIOUS
<1> DEFINE n == Len(slopes)
<1>1. n \in Nat /\ (slopes = << >> <=> n = 0)
  OBVIOUS
<1>2. Stage = IF slopes = << >> THEN state
              ELSE Offset(state, slopes[n], IF n = 3 THEN 6 * H ELSE 3 * H)
  BY DEF Stage
<1> HIDE DEF n
<1>3. Point(n + 1) = IF n = 0 THEN state
                     ELSE Offset(state, slopes[n], IF n = 3 THEN 6 * H ELSE 3 * H)
  <2>1. (n + 1) - 1 = n /\ (n + 1 = 1 <=> n = 0) /\ (n + 1 = 4 <=> n = 3)
    BY <1>1
  <2> QED BY <2>1 DEF Point
<1> QED BY <1>1, <1>2, <1>3 DEF n

LEMMA PointTyped ==
  ASSUME PlantTyped, NEW i \in 1..(Len(slopes) + 1)
  PROVE  Point(i) \in StateType
<1>1. CASE i = 1
  BY <1>1 DEF Point, PlantTyped
<1>2. CASE i # 1
  <2> DEFINE dt == IF i = 4 THEN 6 * H ELSE 3 * H
  <2>1. slopes[i - 1] \in StateType /\ state \in StateType /\ dt \in Int
    BY <1>2, StepAssumption DEF PlantTyped
  <2>2. Point(i) = Offset(state, slopes[i - 1], dt)
    BY <1>2 DEF Point
  <2> HIDE DEF dt
  <2> QED BY <2>1, <2>2, OffsetIs
<1> QED BY <1>1, <1>2

LEMMA PlantInitInvariant == PlantInit => PlantIInv
<1> SUFFICES ASSUME PlantInit PROVE PlantIInv
  OBVIOUS
<1>1. PlantTyped
  BY PlantAssumption DEF PlantInit, PlantTyped, Kinds
<1>2. SlopesFollow
  BY DEF PlantInit, SlopesFollow, Running
<1> QED BY <1>1, <1>2 DEF PlantIInv

LEMMA BeginInvariant ==
  ASSUME PlantIInv, NEW c \in Calls, Begin(c)
  PROVE  PlantIInv'
<1>1. PlantTyped'
  <2>1. /\ c.kind \in Kinds /\ c.load \in Int /\ c.voltage \in Int \X Int
    BY PlantAssumption DEF Calls
  <2>2. /\ machine' = machine /\ state' = state /\ call' = c /\ slopes' = << >>
        /\ result' \in {"NONE", "REJECTED"}
    BY DEF Begin
  <2>3. << >> \in Seq(StateType) /\ Len(<< >>) <= 4
    OBVIOUS
  <2> QED BY <2>1, <2>2, <2>3 DEF PlantIInv, PlantTyped
<1>2. SlopesFollow'
  BY DEF Begin, SlopesFollow
<1> QED BY <1>1, <1>2 DEF PlantIInv

LEMMA SlopeInvariant ==
  ASSUME PlantIInv, LinearSlope \/ MagneticSlope
  PROVE  PlantIInv'
<1> DEFINE n == Len(slopes)
<1>1. /\ PlantTyped /\ SlopesFollow /\ Running /\ n < 4
      /\ slopes' = Append(slopes, Rate(Stage))
      /\ machine' = machine /\ state' = state /\ call' = call /\ result' = result
      /\ calls' = calls
  BY DEF PlantIInv, LinearSlope, MagneticSlope, Slope, Rate
<1>2. slopes \in Seq(StateType) /\ n \in Nat
  BY <1>1 DEF PlantTyped
<1>3. Stage = Point(n + 1) /\ Stage \in StateType
  <2>1. n + 1 \in 1..(Len(slopes) + 1)
    BY <1>2
  <2> QED BY <1>1, <1>2, <2>1, StageIsPoint, PointTyped
<1>4. Rate(Stage) \in StateType
  BY <1>1, <1>3, RateTyped
<1>5. /\ slopes' \in Seq(StateType) /\ Len(slopes') = n + 1 /\ slopes'[n + 1] = Rate(Stage)
      /\ \A i \in 1..n : slopes'[i] = slopes[i]
  BY <1>1, <1>2, <1>4
<1>6. PlantTyped'
  BY <1>1, <1>2, <1>5 DEF PlantTyped
<1>7. SlopesFollow'
  <2> SUFFICES ASSUME NEW i \in 1..(n + 1) PROVE slopes'[i] = Rate(Point(i))'
    BY <1>5 DEF SlopesFollow
  <2>1. Point(i)' = Point(i)
    <3>1. i # 1 => slopes'[i - 1] = slopes[i - 1]
      BY <1>2, <1>5
    <3> QED BY <1>1, <3>1 DEF Point
  <2>2. \A s : Rate(s)' = Rate(s)
    BY <1>1
    DEF Rate, LinearDerivative, MagneticRate, MagneticDerivative, LinearFlux, MagneticFlux,
        Drop, Acceleration
  <2>3. slopes'[i] = Rate(Point(i))
    <3>1. CASE i = n + 1
      BY <1>3, <1>5, <3>1
    <3>2. CASE i # n + 1
      <4>1. i \in 1..n
        BY <1>2, <3>2
      <4> QED BY <1>1, <1>5, <4>1 DEF SlopesFollow
    <3> QED BY <3>1, <3>2
  <2>4. Rate(Point(i))' = Rate(Point(i))
    BY <1>1, <2>1
    DEF Rate, LinearDerivative, MagneticRate, MagneticDerivative, LinearFlux, MagneticFlux,
        Drop, Acceleration
  <2> QED BY <2>3, <2>4
<1> QED BY <1>6, <1>7 DEF PlantIInv

LEMMA EndOfStepInvariant ==
  ASSUME PlantIInv, Reject \/ LinearCommit \/ MagneticCommit
  PROVE  PlantIInv'
<1>1. /\ PlantTyped /\ Running /\ result' \in {"OK", "REJECTED"}
      /\ machine' = machine /\ call' = call /\ slopes' = slopes
      /\ state' = state \/ (state' = Wrapped /\ Len(slopes) = 4)
  BY DEF PlantIInv, Reject, LinearCommit, MagneticCommit, Commit, Return
<1>2. state' \in StateType
  BY <1>1, WrappedIs DEF PlantTyped
<1>3. PlantTyped'
  BY <1>1, <1>2 DEF PlantTyped
<1>4. SlopesFollow'
  BY <1>1 DEF SlopesFollow, Running
<1> QED BY <1>3, <1>4 DEF PlantIInv

LEMMA PlantInvariance == PlantSpec => []PlantIInv
<1>1. PlantIInv /\ [PlantNext]_plantVars => PlantIInv'
  <2> SUFFICES ASSUME PlantIInv, [PlantNext]_plantVars PROVE PlantIInv'
    OBVIOUS
  <2>1. CASE UNCHANGED plantVars
    BY <2>1
    DEF plantVars, PlantIInv, PlantTyped, SlopesFollow, Running, Point, Rate, LinearDerivative,
        MagneticRate, MagneticDerivative, LinearFlux, MagneticFlux, Drop, Acceleration
  <2>2. CASE PlantNext
    BY <2>2, BeginInvariant, SlopeInvariant, EndOfStepInvariant DEF PlantNext
  <2> QED BY <2>1, <2>2
<1> QED BY PlantInitInvariant, <1>1, PTL DEF PlantSpec

\* A step is a transaction: the state changes only when it succeeds, and then to
\* one whose angle is a whole turn's at most and where the model is defined.
THEOREM StepIsAlwaysTransaction == PlantSpec => StepIsTransaction
<1> DEFINE Goal ==
      /\ state' # state => result' = "OK"
      /\ result' = "OK" /\ result # "OK" =>
           /\ state'.angle \in 0..(Turn - 1)
           /\ IF call.kind = "linear" THEN LinearEvaluates(state')
              ELSE MagneticEvaluates(state')
<1>1. PlantIInv /\ [PlantNext]_plantVars => [Goal]_plantVars
  <2> SUFFICES ASSUME PlantIInv, PlantNext PROVE Goal
    OBVIOUS
  <2>1. ASSUME NEW c \in Calls, Begin(c) PROVE Goal
    BY <2>1 DEF Begin
  <2>2. CASE LinearSlope \/ MagneticSlope
    BY <2>2 DEF LinearSlope, MagneticSlope, Slope, Running
  <2>3. CASE Reject
    BY <2>3 DEF Reject, Return
  <2>4. CASE LinearCommit
    <3>1. CASE result' = "OK"
      <4>1. state' = Wrapped /\ LinearEvaluates(Wrapped) /\ Len(slopes) = 4 /\ call.kind = "linear"
        BY <2>4, <3>1 DEF LinearCommit, Commit, Return
      <4>2. Wrapped.angle \in 0..(Turn - 1)
        BY <4>1, WrappedIs DEF PlantIInv
      <4> HIDE DEF Goal
      <4>3. LinearEvaluates(state')
        BY <4>1
      <4> QED BY <3>1, <4>1, <4>2, <4>3 DEF Goal
    <3>2. CASE result' # "OK"
      BY <2>4, <3>2 DEF LinearCommit, Commit, Return
    <3> QED BY <3>1, <3>2
  <2>5. CASE MagneticCommit
    <3>1. CASE result' = "OK"
      <4>1. /\ state' = Wrapped /\ MagneticEvaluates(Wrapped) /\ Len(slopes) = 4
            /\ call.kind # "linear"
        BY <2>5, <3>1 DEF MagneticCommit, Commit, Return
      <4>2. Wrapped.angle \in 0..(Turn - 1)
        BY <4>1, WrappedIs DEF PlantIInv
      <4>3. MagneticEvaluates(state')
        BY <4>1
      <4> HIDE DEF Goal
      <4> QED BY <3>1, <4>1, <4>2, <4>3 DEF Goal
    <3>2. CASE result' # "OK"
      BY <2>5, <3>2 DEF MagneticCommit, Commit, Return
    <3> QED BY <3>1, <3>2
  <2> QED BY <2>1, <2>2, <2>3, <2>4, <2>5 DEF PlantNext
<1> QED BY PlantInvariance, <1>1, PTL DEF PlantSpec, StepIsTransaction

-----------------------------------------------------------------------------
(* Motions whose solution is known.                                        *)

\* The four slopes of a step that is about to commit, and their points.
LEMMA FourSlopes ==
  ASSUME PlantIInv, Running, Len(slopes) = 4
  PROVE  /\ \A i \in 1..4 :
              /\ slopes[i] \in StateType /\ Point(i) \in StateType
              /\ slopes[i] = Rate(Point(i))
         /\ Point(1) = state
         /\ \A i \in 2..4 :
              LET dt == IF i = 4 THEN 6 * H ELSE 3 * H
              IN /\ Point(i).id = state.id + dt * slopes[i - 1].id
                 /\ Point(i).iq = state.iq + dt * slopes[i - 1].iq
                 /\ Point(i).speed = state.speed + dt * slopes[i - 1].speed
<1>1. PlantTyped /\ SlopesFollow /\ slopes \in Seq(StateType) /\ state \in StateType
  BY DEF PlantIInv, PlantTyped
<1>2. \A i \in 1..4 : slopes[i] \in StateType
  BY <1>1, ElementOfSeq
<1>3. \A i \in 1..4 : Point(i) \in StateType
  BY <1>1, PointTyped
<1>4. \A i \in 1..4 : slopes[i] = Rate(Point(i))
  BY <1>1 DEF SlopesFollow
<1>5. ASSUME NEW i \in 2..4
      PROVE  LET dt == IF i = 4 THEN 6 * H ELSE 3 * H
             IN /\ Point(i).id = state.id + dt * slopes[i - 1].id
                /\ Point(i).iq = state.iq + dt * slopes[i - 1].iq
                /\ Point(i).speed = state.speed + dt * slopes[i - 1].speed
  <2> DEFINE dt == IF i = 4 THEN 6 * H ELSE 3 * H
  <2>1. dt \in Int /\ slopes[i - 1] \in StateType
    BY <1>2, StepAssumption
  <2>2. Point(i) = Offset(state, slopes[i - 1], dt)
    BY DEF Point
  <2> DEFINE rate == slopes[i - 1]
             o == Offset(state, rate, dt)
  <2>3. rate \in StateType /\ state \in StateType /\ dt \in Int
    BY <1>1, <2>1
  <2> HIDE DEF dt, rate
  <2>4. /\ o.id = state.id + dt * rate.id /\ o.iq = state.iq + dt * rate.iq
        /\ o.speed = state.speed + dt * rate.speed
    BY <2>3, OffsetIs
  <2> QED BY <2>2, <2>4 DEF dt, rate
<1>6. Point(1) = state
  BY DEF Point
<1> QED BY <1>2, <1>3, <1>4, <1>5, <1>6

\* The shaft of a driven step.
LEMMA DrivenRate ==
  ASSUME call.kind = "driven", NEW s \in StateType
  PROVE  Rate(s).speed = 0 /\ Rate(s).angle = machine.poles * s.speed
BY DEF Rate, MagneticRate, MagneticDerivative

LEMMA NoProduct == \A x \in Int : x * 0 = 0 /\ 0 * x = 0
OBVIOUS

\* A machine at rest without flux.
LEMMA RestRate ==
  ASSUME PlantTyped, call.kind # "driven", NoDrive(call),
         machine.magnet = 0, machine.friction = 0,
         NEW s \in StateType, s.id = 0, s.iq = 0
  PROVE  /\ Rate(s).id = 0 /\ Rate(s).iq = 0 /\ Rate(s).speed = -call.load
         /\ Rate(s).angle = machine.poles * s.speed
<1> DEFINE we == machine.poles * s.speed
           v == Park(call.voltage, s.angle)
           flux == [d |-> 0, q |-> 0]
<1>1. /\ machine.r \in Int /\ machine.poles \in Int /\ s.speed \in Int /\ s.angle \in Int
      /\ call.load \in Int /\ call.voltage \in Int \X Int
  BY DEF PlantTyped, MachineType, StateType
<1>2. v.d = 0 /\ v.q = 0
  BY <1>1, ParkIs DEF NoDrive
<1>3. we \in Int
  BY <1>1
<1>4. LinearFlux(s) = flux /\ MagneticFlux(s) = flux
  BY DEF LinearFlux, MagneticFlux
<1> HIDE DEF v
<1>5. Drop(s, flux) = [d |-> 0, q |-> 0]
  <2>1. Drop(s, flux) = [d |-> v.d - machine.r * s.id + we * flux.q,
                         q |-> v.q - machine.r * s.iq - we * flux.d]
    BY DEF Drop, v
  <2> HIDE DEF we
  <2>2. machine.r * s.id = 0 /\ machine.r * s.iq = 0 /\ we * flux.q = 0 /\ we * flux.d = 0
    BY <1>1, <1>3, NoProduct
  <2> HIDE DEF flux
  <2> QED BY <1>2, <2>1, <2>2
<1>6. Acceleration(s, flux, call.load) = -call.load
  <2>1. /\ flux.d * s.iq - flux.q * s.id = 0
        /\ machine.friction * s.speed = 0 /\ machine.poles * 0 = 0
    BY <1>1, NoProduct
  <2>2. Acceleration(s, flux, call.load)
          = machine.poles * (flux.d * s.iq - flux.q * s.id) - call.load
              - machine.friction * s.speed
    BY DEF Acceleration
  <2> HIDE DEF flux
  <2> QED BY <1>1, <2>1, <2>2
<1> HIDE DEF flux, we
<1>7. CASE call.kind = "linear"
  <2>1. Rate(s) = LinearDerivative(s)
    BY <1>7 DEF Rate
  <2> QED BY <1>4, <1>5, <1>6, <2>1 DEF LinearDerivative
<1>8. CASE call.kind # "linear"
  <2>1. Rate(s) = MagneticDerivative(s)
    BY <1>8 DEF Rate, MagneticRate
  <2> QED BY <1>4, <1>5, <1>6, <2>1 DEF MagneticDerivative
<1> QED BY <1>7, <1>8

\* A current in the linear machine at standstill.
LEMMA DecayRate ==
  ASSUME PlantTyped, call.kind = "linear", NoDrive(call), call.load = 0,
         NEW s \in StateType, s.iq = 0, s.speed = 0
  PROVE  Rate(s).id = -(machine.r * s.id) /\ Rate(s).iq = 0 /\ Rate(s).speed = 0
<1> DEFINE we == machine.poles * s.speed
           v == Park(call.voltage, s.angle)
           flux == LinearFlux(s)
<1>1. /\ machine.r \in Int /\ machine.poles \in Int /\ machine.friction \in Int
      /\ machine.magnet \in Int
      /\ s.id \in Int /\ s.angle \in Int /\ call.voltage \in Int \X Int
  BY DEF PlantTyped, MachineType, StateType
<1>2. v.d = 0 /\ v.q = 0
  BY <1>1, ParkIs DEF NoDrive
<1>3. we = 0
  BY <1>1, NoProduct
<1>4. flux.d \in Int /\ flux.q = 0
  BY <1>1 DEF LinearFlux
<1> HIDE DEF v, flux
<1>5. Drop(s, flux) = [d |-> -(machine.r * s.id), q |-> 0]
  <2>1. Drop(s, flux) = [d |-> v.d - machine.r * s.id + we * flux.q,
                         q |-> v.q - machine.r * s.iq - we * flux.d]
    BY DEF Drop, v
  <2> HIDE DEF we
  <2>2. machine.r * s.iq = 0 /\ we * flux.q = 0 /\ we * flux.d = 0
    BY <1>1, <1>3, <1>4, NoProduct
  <2>3. machine.r * s.id \in Int
    BY <1>1
  <2> QED BY <1>2, <2>1, <2>2, <2>3
<1>6. Acceleration(s, flux, call.load) = 0
  <2>1. /\ flux.d * s.iq = 0 /\ flux.q * s.id = 0 /\ machine.friction * s.speed = 0
        /\ machine.poles * 0 = 0
    BY <1>1, <1>4, NoProduct
  <2>2. Acceleration(s, flux, call.load)
          = machine.poles * (flux.d * s.iq - flux.q * s.id) - call.load
              - machine.friction * s.speed
    BY DEF Acceleration
  <2> QED BY <2>1, <2>2
<1> HIDE DEF we
<1>7. Rate(s) = LinearDerivative(s)
  BY DEF Rate
<1> QED BY <1>5, <1>6, <1>7 DEF LinearDerivative, flux

\* A driven shaft turns evenly.
LEMMA DrivenExact ==
  ASSUME PlantIInv, Running, Len(slopes) = 4, call.kind = "driven"
  PROVE  /\ Wrapped.speed = state.speed
         /\ Wrapped.angle = (state.angle + machine.poles * Duration * state.speed) % Turn
<1> DEFINE v == state.speed
           w == machine.poles * v
<1>1. PlantTyped /\ v \in Int /\ machine.poles \in Int /\ H \in Int /\ state.angle \in Int
  BY StepAssumption DEF PlantIInv, PlantTyped, StateType, MachineType
<1>2. \A i \in 1..4 : slopes[i].speed = 0 /\ slopes[i].angle = machine.poles * Point(i).speed
  <2> SUFFICES ASSUME NEW i \in 1..4
               PROVE  slopes[i].speed = 0 /\ slopes[i].angle = machine.poles * Point(i).speed
    OBVIOUS
  <2>1. Point(i) \in StateType /\ slopes[i] = Rate(Point(i))
    BY FourSlopes
  <2> QED BY <2>1, DrivenRate
<1>3. Point(1).speed = v /\ Point(2).speed = v /\ Point(3).speed = v /\ Point(4).speed = v
  <2>1. /\ Point(1) = state
        /\ Point(2).speed = v + (3 * H) * slopes[1].speed
        /\ Point(3).speed = v + (3 * H) * slopes[2].speed
        /\ Point(4).speed = v + (6 * H) * slopes[3].speed
    BY FourSlopes
  <2>2. (3 * H) * 0 = 0 /\ (6 * H) * 0 = 0
    BY <1>1
  <2> QED BY <1>1, <1>2, <2>1, <2>2
<1>4. \A i \in 1..4 : slopes[i].angle = w
  BY <1>2, <1>3
<1>5. w \in Int
  BY <1>1
<1>6. Advanced.speed = v + H * (0 + 2 * 0 + 2 * 0 + 0)
  BY <1>1, <1>2, AdvancedIs
<1>7. Advanced.angle = state.angle + H * (w + 2 * w + 2 * w + w)
  BY <1>1, <1>4, AdvancedIs
<1>8. machine.poles * Duration * v = 6 * (H * w)
  <2>1. Duration = 6 * H
    BY DEF Duration
  <2> QED BY <1>1, <2>1
<1> HIDE DEF v, w
<1>9. Advanced.speed = v /\ H * (w + 2 * w + 2 * w + w) = 6 * (H * w)
  BY <1>1, <1>5, <1>6
<1>10. Advanced.speed = state.speed
  BY <1>9 DEF v
<1>11. Advanced.angle = state.angle + machine.poles * Duration * v
  BY <1>7, <1>8, <1>9
<1> QED BY <1>1, <1>10, <1>11, WrappedIs DEF v

\* A free shaft without flux turns under its load.
LEMMA FreeExact ==
  ASSUME PlantIInv, Running, Len(slopes) = 4, call.kind # "driven", AtRest(state), NoDrive(call),
         machine.magnet = 0, machine.friction = 0
  PROVE  /\ Wrapped.speed = state.speed - Duration * call.load
         /\ Wrapped.angle
              = (state.angle + machine.poles * Duration * state.speed
                   - (machine.poles * Duration * Duration * call.load) \div 2) % Turn
<1> DEFINE v == state.speed
           l == call.load
           n == machine.poles
<1>1. /\ PlantTyped /\ v \in Int /\ n \in Int /\ H \in Int /\ l \in Int /\ state.angle \in Int
  BY StepAssumption DEF PlantIInv, PlantTyped, StateType, MachineType
<1>2. ASSUME NEW i \in 1..4, Point(i).id = 0, Point(i).iq = 0
      PROVE  /\ slopes[i].id = 0 /\ slopes[i].iq = 0 /\ slopes[i].speed = -l
             /\ slopes[i].angle = n * Point(i).speed
  <2>1. Point(i) \in StateType /\ slopes[i] = Rate(Point(i))
    BY FourSlopes
  <2> QED BY <1>1, <1>2, <2>1, RestRate
<1>3. /\ Point(1) = state
      /\ \A i \in 2..4 :
           LET dt == IF i = 4 THEN 6 * H ELSE 3 * H
           IN /\ Point(i).id = state.id + dt * slopes[i - 1].id
              /\ Point(i).iq = state.iq + dt * slopes[i - 1].iq
              /\ Point(i).speed = v + dt * slopes[i - 1].speed
  BY FourSlopes
<1>4. state.id = 0 /\ state.iq = 0 /\ (3 * H) * 0 = 0 /\ (6 * H) * 0 = 0
  BY <1>1 DEF AtRest
<1>5. slopes[1].id = 0 /\ slopes[1].iq = 0 /\ slopes[1].speed = -l /\ slopes[1].angle = n * v
  BY <1>2, <1>3, <1>4
<1>6. Point(2).id = 0 /\ Point(2).iq = 0 /\ Point(2).speed = v + (3 * H) * (-l)
  BY <1>3, <1>4, <1>5
<1>7. /\ slopes[2].id = 0 /\ slopes[2].iq = 0 /\ slopes[2].speed = -l
      /\ slopes[2].angle = n * (v + (3 * H) * (-l))
  BY <1>2, <1>6
<1>8. Point(3).id = 0 /\ Point(3).iq = 0 /\ Point(3).speed = v + (3 * H) * (-l)
  BY <1>3, <1>4, <1>7
<1>9. /\ slopes[3].id = 0 /\ slopes[3].iq = 0 /\ slopes[3].speed = -l
      /\ slopes[3].angle = n * (v + (3 * H) * (-l))
  BY <1>2, <1>8
<1>10. Point(4).id = 0 /\ Point(4).iq = 0 /\ Point(4).speed = v + (6 * H) * (-l)
  BY <1>3, <1>4, <1>9
<1>11. slopes[4].speed = -l /\ slopes[4].angle = n * (v + (6 * H) * (-l))
  BY <1>2, <1>10
<1>12. Advanced.speed = v + H * (-l + 2 * (-l) + 2 * (-l) + -l)
  BY <1>1, <1>5, <1>7, <1>9, <1>11, AdvancedIs
<1>13. Advanced.angle
         = state.angle + H * (n * v + 2 * (n * (v + (3 * H) * (-l)))
                               + 2 * (n * (v + (3 * H) * (-l))) + n * (v + (6 * H) * (-l)))
  BY <1>1, <1>5, <1>7, <1>9, <1>11, AdvancedIs
<1> DEFINE turned == n * Duration * v
           slowed == n * Duration * Duration * l
<1>14. Duration = 6 * H
  BY DEF Duration
<1> HIDE DEF v, l, n
<1>15. Advanced.speed = v - Duration * l
  BY <1>1, <1>12, <1>14
<1> DEFINE a == (H * n) * v
           b == ((H * H) * n) * l
<1>16. a \in Int /\ b \in Int
  BY <1>1
<1>17. H * (n * v + 2 * (n * (v + (3 * H) * (-l)))
              + 2 * (n * (v + (3 * H) * (-l))) + n * (v + (6 * H) * (-l))) = 6 * a - 18 * b
  BY <1>1
<1>18. turned = 6 * a /\ slowed = 36 * b
  BY <1>1, <1>14
<1> HIDE DEF a, b, turned, slowed
<1>19. slowed \div 2 = 18 * b
  BY <1>16, <1>18
<1>20. Advanced.angle = state.angle + turned - slowed \div 2
  BY <1>1, <1>13, <1>16, <1>17, <1>18, <1>19
<1> QED BY <1>1, <1>15, <1>20, WrappedIs DEF v, l, n, turned, slowed

\* The rule on a decay, stage by stage, with y for a sixth of r * Duration.
LEMMA RungeKuttaDecay ==
  ASSUME NEW x \in Int, NEW h \in Int, NEW r \in Int,
         NEW k1, NEW k2, NEW k3, NEW k4,
         k1 = -(r * x), k2 = -(r * (x + (3 * h) * k1)), k3 = -(r * (x + (3 * h) * k2)),
         k4 = -(r * (x + (6 * h) * k3))
  PROVE  LET y == r * h
             z == r * (6 * h)
         IN /\ x + h * (k1 + 2 * k2 + 2 * k3 + k4)
                 = (1 - 6 * y + 18 * (y * y) - 36 * ((y * y) * y) + 54 * (((y * y) * y) * y)) * x
            /\ z = 6 * y /\ (z * z) \div 2 = 18 * (y * y)
            /\ (z * z * z) \div 6 = 36 * ((y * y) * y)
            /\ (z * z * z * z) \div 24 = 54 * (((y * y) * y) * y)
<1> DEFINE y == r * h
           y2 == y * y
           y3 == y2 * y
           y4 == y3 * y
           z == r * (6 * h)
<1>1. y \in Int /\ z = 6 * y
  OBVIOUS
<1>2. y2 \in Int /\ y3 \in Int /\ y4 \in Int
  <2> HIDE DEF y
  <2> QED BY <1>1
<1>3. k1 \in Int /\ k2 \in Int /\ k3 \in Int /\ k4 \in Int
  OBVIOUS
<1> DEFINE g1 == h * k1
           g2 == h * k2
           g3 == h * k3
           g4 == h * k4
<1>4. g1 \in Int /\ g2 \in Int /\ g3 \in Int /\ g4 \in Int
  BY <1>3
<1>5. g1 = -(y * x)
  OBVIOUS
<1>6. g2 = -(y * x) - 3 * (y * g1)
  OBVIOUS
<1>7. g3 = -(y * x) - 3 * (y * g2)
  OBVIOUS
<1>8. g4 = -(y * x) - 6 * (y * g3)
  OBVIOUS
<1>9. h * (k1 + 2 * k2 + 2 * k3 + k4) = g1 + 2 * g2 + 2 * g3 + g4
  BY <1>3
<1> HIDE DEF y, y2, y3, y4, z, g1, g2, g3, g4
<1>10. y2 = y * y /\ y3 = y2 * y /\ y4 = y3 * y
  BY DEF y2, y3, y4
<1>11. y * g1 = -(y2 * x)
  BY <1>1, <1>5, <1>10
<1>12. g2 = -(y * x) + 3 * (y2 * x)
  BY <1>1, <1>2, <1>4, <1>6, <1>11
<1>13. y * g2 = -(y2 * x) + 3 * (y3 * x)
  BY <1>1, <1>2, <1>10, <1>12
<1>14. g3 = -(y * x) + 3 * (y2 * x) - 9 * (y3 * x)
  BY <1>1, <1>2, <1>4, <1>7, <1>13
<1>15. y * g3 = -(y2 * x) + 3 * (y3 * x) - 9 * (y4 * x)
  BY <1>1, <1>2, <1>10, <1>14
<1>16. g4 = -(y * x) + 6 * (y2 * x) - 18 * (y3 * x) + 54 * (y4 * x)
  BY <1>1, <1>2, <1>4, <1>8, <1>15
<1>17. x + (g1 + 2 * g2 + 2 * g3 + g4)
         = (1 - 6 * y + 18 * y2 - 36 * y3 + 54 * y4) * x
  BY <1>1, <1>2, <1>5, <1>12, <1>14, <1>16
<1>18. (z * z) \div 2 = 18 * y2
  <2>1. z * z = 2 * (18 * y2)
    BY <1>1, <1>10
  <2>2. \A i \in Int : (2 * i) \div 2 = i
    OBVIOUS
  <2>3. 18 * y2 \in Int
    BY <1>2
  <2> QED BY <2>1, <2>2, <2>3
<1>19. (z * z * z) \div 6 = 36 * y3
  <2>1. z * z * z = 6 * (36 * y3)
    BY <1>1, <1>10
  <2>2. \A i \in Int : (6 * i) \div 6 = i
    OBVIOUS
  <2>3. 36 * y3 \in Int
    BY <1>2
  <2> QED BY <2>1, <2>2, <2>3
<1>20. (z * z * z * z) \div 24 = 54 * y4
  <2>1. z * z * z * z = 24 * (54 * y4)
    BY <1>1, <1>10
  <2>2. \A i \in Int : (24 * i) \div 24 = i
    OBVIOUS
  <2>3. 54 * y4 \in Int
    BY <1>2
  <2> QED BY <2>1, <2>2, <2>3
<1> QED BY <1>1, <1>9, <1>17, <1>18, <1>19, <1>20 DEF y, y2, y3, y4, z

\* A current without voltage at standstill decays.
LEMMA DecayExact ==
  ASSUME PlantIInv, Running, Len(slopes) = 4, call.kind = "linear", NoDrive(call),
         state.iq = 0, state.speed = 0, call.load = 0
  PROVE  Wrapped.id = Decay * state.id
<1> DEFINE x == state.id
           r == machine.r
           k(i) == slopes[i].id
<1>1. PlantTyped /\ x \in Int /\ r \in Int /\ H \in Int
  BY StepAssumption DEF PlantIInv, PlantTyped, StateType, MachineType
<1>2. ASSUME NEW i \in 1..4, Point(i).iq = 0, Point(i).speed = 0
      PROVE  slopes[i].id = -(r * Point(i).id) /\ slopes[i].iq = 0 /\ slopes[i].speed = 0
  <2>1. Point(i) \in StateType /\ slopes[i] = Rate(Point(i))
    BY FourSlopes
  <2> QED BY <1>1, <1>2, <2>1, DecayRate
<1>3. /\ Point(1) = state
      /\ \A i \in 2..4 :
           LET dt == IF i = 4 THEN 6 * H ELSE 3 * H
           IN /\ Point(i).id = x + dt * slopes[i - 1].id
              /\ Point(i).iq = state.iq + dt * slopes[i - 1].iq
              /\ Point(i).speed = state.speed + dt * slopes[i - 1].speed
  BY FourSlopes
<1>4. state.iq = 0 /\ state.speed = 0 /\ (3 * H) * 0 = 0 /\ (6 * H) * 0 = 0
  BY <1>1
<1>5. k(1) = -(r * x) /\ slopes[1].iq = 0 /\ slopes[1].speed = 0
  BY <1>2, <1>3, <1>4
<1>6. Point(2).iq = 0 /\ Point(2).speed = 0 /\ Point(2).id = x + (3 * H) * k(1)
  BY <1>3, <1>4, <1>5
<1>7. k(2) = -(r * (x + (3 * H) * k(1))) /\ slopes[2].iq = 0 /\ slopes[2].speed = 0
  BY <1>2, <1>6
<1>8. Point(3).iq = 0 /\ Point(3).speed = 0 /\ Point(3).id = x + (3 * H) * k(2)
  BY <1>3, <1>4, <1>7
<1>9. k(3) = -(r * (x + (3 * H) * k(2))) /\ slopes[3].iq = 0 /\ slopes[3].speed = 0
  BY <1>2, <1>8
<1>10. Point(4).iq = 0 /\ Point(4).speed = 0 /\ Point(4).id = x + (6 * H) * k(3)
  BY <1>3, <1>4, <1>9
<1>11. k(4) = -(r * (x + (6 * H) * k(3)))
  BY <1>2, <1>10
<1>12. Advanced.id = x + H * (k(1) + 2 * k(2) + 2 * k(3) + k(4))
  BY <1>1, AdvancedIs
<1>13. Decay = LET z == r * (6 * H)
               IN 1 - z + (z * z) \div 2 - (z * z * z) \div 6 + (z * z * z * z) \div 24
  BY DEF Decay, Duration
<1> DEFINE y == r * H
           z == r * (6 * H)
           c2 == 18 * (y * y)
           c3 == 36 * ((y * y) * y)
           c4 == 54 * (((y * y) * y) * y)
           k1 == k(1)
           k2 == k(2)
           k3 == k(3)
           k4 == k(4)
<1>14. /\ k1 = -(r * x) /\ k2 = -(r * (x + (3 * H) * k1)) /\ k3 = -(r * (x + (3 * H) * k2))
       /\ k4 = -(r * (x + (6 * H) * k3)) /\ Advanced.id = x + H * (k1 + 2 * k2 + 2 * k3 + k4)
  BY <1>5, <1>7, <1>9, <1>11, <1>12
<1> HIDE DEF k, k1, k2, k3, k4, x, r
<1>15. /\ Advanced.id = (1 - 6 * y + c2 - c3 + c4) * x
       /\ z = 6 * y /\ (z * z) \div 2 = c2 /\ (z * z * z) \div 6 = c3
       /\ (z * z * z * z) \div 24 = c4
  BY <1>1, <1>14, RungeKuttaDecay
<1>16. Decay = 1 - z + (z * z) \div 2 - (z * z * z) \div 6 + (z * z * z * z) \div 24
  BY <1>13
<1>17. y \in Int
  BY <1>1
<1>18. c2 \in Int /\ c3 \in Int /\ c4 \in Int
  <2> HIDE DEF y
  <2> QED BY <1>17
<1> HIDE DEF y, z, c2, c3, c4
<1>19. Decay = 1 - 6 * y + c2 - c3 + c4
  BY <1>15, <1>16, <1>17, <1>18
<1>20. Advanced.id = Decay * x
  BY <1>15, <1>19
<1> QED BY <1>1, <1>20, WrappedIs DEF x

\* Every accepted step integrates exactly where a rule of the fourth order must,
\* for all machines, states, loads and step lengths.
THEOREM StepAlwaysIntegrates == PlantSpec => Integrates
<1> DEFINE Goal ==
      result' = "OK" /\ result # "OK" =>
        LET s == state
            turned == machine.poles * Duration * s.speed
        IN /\ call.kind = "driven" =>
                state'.speed = s.speed /\ state'.angle = (s.angle + turned) % Turn
           /\ call.kind # "driven" /\ AtRest(s) /\ NoDrive(call)
                /\ machine.magnet = 0 /\ machine.friction = 0 =>
                /\ state'.speed = s.speed - Duration * call.load
                /\ state'.angle =
                     (s.angle + turned
                       - (machine.poles * Duration * Duration * call.load) \div 2) % Turn
           /\ call.kind = "linear" /\ NoDrive(call) /\ s.iq = 0 /\ s.speed = 0
                /\ call.load = 0 =>
                state'.id = Decay * s.id
<1>1. PlantIInv /\ [PlantNext]_plantVars => [Goal]_plantVars
  <2> SUFFICES ASSUME PlantIInv, PlantNext, result' = "OK", result # "OK" PROVE Goal
    OBVIOUS
  <2>1. Running /\ Len(slopes) = 4 /\ state' = Wrapped
    <3>1. LinearCommit \/ MagneticCommit
      BY DEF PlantNext, Begin, LinearSlope, MagneticSlope, Slope, Reject, Return
    <3> QED BY <3>1 DEF LinearCommit, MagneticCommit, Commit, Return
  <2>2. call.kind = "driven" =>
          /\ state'.speed = state.speed
          /\ state'.angle = (state.angle + machine.poles * Duration * state.speed) % Turn
    BY <2>1, DrivenExact
  <2>3. call.kind # "driven" /\ AtRest(state) /\ NoDrive(call)
          /\ machine.magnet = 0 /\ machine.friction = 0 =>
          /\ state'.speed = state.speed - Duration * call.load
          /\ state'.angle =
               (state.angle + machine.poles * Duration * state.speed
                 - (machine.poles * Duration * Duration * call.load) \div 2) % Turn
    BY <2>1, FreeExact
  <2>4. call.kind = "linear" /\ NoDrive(call) /\ state.iq = 0 /\ state.speed = 0
          /\ call.load = 0 =>
          state'.id = Decay * state.id
    BY <2>1, DecayExact
  <2> QED BY <2>2, <2>3, <2>4
<1> QED BY PlantInvariance, <1>1, PTL DEF PlantSpec, Integrates
=============================================================================
