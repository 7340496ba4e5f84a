------------------------------ MODULE FluxMap ------------------------------
(***************************************************************************)
(* The coupled flux map, src/src/core/flux_map.c: a handle that borrows a   *)
(* caller's tables once they pass the physical tests at the corners of all  *)
(* cells (prepare), answers flux and Jacobian at a current (lookup), and    *)
(* the rates of the currents that a Jacobian gives (solve).                 *)
(*                                                                          *)
(* Prepare and lookup are run loop step by loop step.  Currents, fluxes and *)
(* limits are integers; a Jacobian is kept times the area of its cell, so   *)
(* that the interpolation and its tests are exact.  Optional outputs are    *)
(* requested.                                                              *)
(***************************************************************************)
EXTENDS Fractions

CONSTANTS
  MaxAxis,     \* NAMC_FLUX_MAX_AXIS
  Sources,     \* names of the tables a caller owns
  Tables,      \* what is in them: borrowed, and immutable while borrowed
  Limits,      \* the limits a caller passes
  Currents,    \* the currents it looks up, and numbers that are not finite
  FluxRates,   \* the flux rates it solves for: voltages less what is not inductive
  NoSource     \* the NULL of a zeroed handle

Statuses == {"OK", "INVALID_INPUT", "INVALID_MAP", "OUT_OF_DOMAIN",
             "ILL_CONDITIONED", "NON_RECIPROCAL", "NON_PASSIVE"}

\* namc_flux_data_t.  "sane" stands for version, units, convention, evidence,
\* source, temperature and declared error; "bad" are the table entries that are
\* not finite, or so large that a slope is not.
IsTable(t) ==
  /\ t.sane \in BOOLEAN /\ t.nd \in Nat /\ t.nq \in Nat /\ t.count \in Nat
  /\ t.id \in [0..(t.nd - 1) -> Int] /\ t.iq \in [0..(t.nq - 1) -> Int]
  /\ t.psid \in [0..(t.count - 1) -> Int] /\ t.psiq \in [0..(t.count - 1) -> Int]
  /\ t.bad \subseteq 0..(t.count - 1)

\* namc_flux_limits_t; the least reciprocal condition number is a fraction.
LimitsType == [floor : Int, reciprocity : Int, rcond : Fractions]

CurrentType == [d : Int, q : Int, finite : BOOLEAN]

\* The right-hand side of a solve, and what double precision makes of it: finite,
\* not finite, or so large that a rate is not.
FluxRateType == [d : Int, q : Int, rep : {"FINITE", "NONFINITE", "HUGE"}]

ASSUME MaxAxisAssumption == MaxAxis \in 2..256
ASSUME TablesAssumption == \A s \in Sources : IsTable(Tables[s])
ASSUME LimitsAssumption == Limits \subseteq LimitsType
ASSUME CurrentsAssumption == Currents \subseteq CurrentType
ASSUME FluxRatesAssumption == FluxRates \subseteq FluxRateType
ASSUME NoSourceAssumption == NoSource \notin Sources

VARIABLES
  handle,      \* namc_flux_map_t: what it borrows, its limits, is it prepared
  pc,          \* where the call in progress is, "idle" between calls
  call,        \* the arguments of that call
  at,          \* the cell and corner prepare is testing, or the cell found
  low, high,   \* the interval of the search
  probes,      \* comparisons of this search
  status,      \* what the last call returned
  flux,        \* the flux a lookup answered
  jacobian,    \* and its Jacobian
  rate         \* the rates the last solve gave

vars == <<handle, pc, call, at, low, high, probes, status, flux, jacobian, rate>>
search == <<low, high, probes>>
answer == <<flux, jacobian>>
outputs == <<answer, rate>>

Points == {"idle", "scan", "search d", "search q", "evaluate"}

ZeroLimits == [floor |-> 0, reciprocity |-> 0, rcond |-> Zero]
ZeroHandle == [source |-> NoSource, limits |-> ZeroLimits, prepared |-> FALSE]
ZeroJacobian == [k |-> 1, dd |-> 0, dq |-> 0, qd |-> 0, qq |-> 0]
ZeroCurrent == [d |-> 0, q |-> 0, finite |-> TRUE]
NoCall == [source |-> NoSource, limits |-> ZeroLimits, current |-> ZeroCurrent]
Origin == [i |-> 0, k |-> 0, corner |-> 0]

Init ==
  /\ handle = ZeroHandle
  /\ pc = "idle" /\ call = NoCall /\ at = Origin
  /\ low = 0 /\ high = 0 /\ probes = 0
  /\ status = "OK"
  /\ flux = [d |-> Zero, q |-> Zero]
  /\ jacobian = ZeroJacobian
  /\ rate = [d |-> Zero, q |-> Zero]

-----------------------------------------------------------------------------
(* What is tested of tables, limits and Jacobians.                         *)

ShapeValid(t) ==
  /\ t.sane
  /\ t.nd \in 2..MaxAxis /\ t.nq \in 2..MaxAxis
  /\ t.count = t.nd * t.nq

RcondValid(l) == l.rcond.num > 0 /\ l.rcond.num <= l.rcond.den

LimitsValid(l) == l.floor > 0 /\ l.reciprocity >= 0 /\ RcondValid(l)

Increasing(axis, n) == \A i \in 1..(n - 1) : axis[i - 1] < axis[i]

Usable(t, l) ==
  /\ ShapeValid(t)
  /\ LimitsValid(l)
  /\ Increasing(t.id, t.nd) /\ Increasing(t.iq, t.nq)

Determinant(j) == j.dd * j.qq - j.dq * j.qd

\* namc_flux_matrix: is the Jacobian singular, or its condition below the limit?
Singular(j, l) ==
  LET det == Determinant(j)
      norm == Greater(Abs(j.dd) + Abs(j.dq), Abs(j.qd) + Abs(j.qq))
      inverse == Greater(Abs(j.qq) + Abs(j.dq), Abs(j.qd) + Abs(j.dd))
  IN det = 0 \/ Abs(det) * l.rcond.den < l.rcond.num * (norm * inverse)

\* The symmetric part, given with twice its mixed entry, is positive definite.
Definite(a, b2, c) == a > 0 /\ c > 0 /\ 4 * (a * c) - b2 * b2 > 0

Reciprocal(j, l) == Abs(j.dq - j.qd) <= l.reciprocity * j.k

Passive(j, l) == Definite(j.dd - l.floor * j.k, j.dq + j.qd, j.qq - l.floor * j.k)

\* namc_flux_physics.
Physics(j, l) ==
  IF Singular(j, l) THEN "ILL_CONDITIONED"
  ELSE IF ~Reciprocal(j, l) THEN "NON_RECIPROCAL"
  ELSE IF ~Passive(j, l) THEN "NON_PASSIVE"
  ELSE "OK"

-----------------------------------------------------------------------------
(* Interpolation in cell (i, k), at s of its width and r of its height.    *)

Width(t, i) == t.id[i + 1] - t.id[i]
Height(t, k) == t.iq[k + 1] - t.iq[k]

Offset(t, i, k) == i * t.nq + k

Entries(t, i, k) ==
  {Offset(t, i, k), Offset(t, i, k) + 1,
   Offset(t, i, k) + t.nq, Offset(t, i, k) + t.nq + 1}

\* Mutant: the weights of the second axis are crossed.
FluxAtCrossed(t, psi, i, k, s, r) ==
  LET o == Offset(t, i, k)  w == Width(t, i)  h == Height(t, k)
  IN (w - s) * (r * psi[o] + (h - r) * psi[o + 1])
       + s * (r * psi[o + t.nq] + (h - r) * psi[o + t.nq + 1])

\* Flux and the two slopes, times the area of the cell.
FluxAt(t, psi, i, k, s, r) ==
  LET o == Offset(t, i, k)  w == Width(t, i)  h == Height(t, k)
  IN (w - s) * ((h - r) * psi[o] + r * psi[o + 1])
       + s * ((h - r) * psi[o + t.nq] + r * psi[o + t.nq + 1])

SlopeD(t, psi, i, k, r) ==
  LET o == Offset(t, i, k)  h == Height(t, k)
  IN (h - r) * (psi[o + t.nq] - psi[o]) + r * (psi[o + t.nq + 1] - psi[o + 1])

SlopeQ(t, psi, i, k, s) ==
  LET o == Offset(t, i, k)  w == Width(t, i)
  IN (w - s) * (psi[o + 1] - psi[o]) + s * (psi[o + t.nq + 1] - psi[o + t.nq])

JacobianAt(t, i, k, s, r) ==
  [k |-> Width(t, i) * Height(t, k),
   dd |-> SlopeD(t, t.psid, i, k, r), dq |-> SlopeQ(t, t.psid, i, k, s),
   qd |-> SlopeD(t, t.psiq, i, k, r), qq |-> SlopeQ(t, t.psiq, i, k, s)]

\* namc_flux_cell.
Cell(t, l, i, k, s, r) ==
  IF Entries(t, i, k) \cap t.bad # {} THEN "INVALID_MAP"
  ELSE Physics(JacobianAt(t, i, k, s, r), l)

-----------------------------------------------------------------------------
(* namc_flux_map_prepare.                                                  *)

\* Nothing is left of the local variables of a call that returned.
Return(result) ==
  /\ pc' = "idle" /\ call' = NoCall /\ at' = Origin
  /\ low' = 0 /\ high' = 0 /\ probes' = 0
  /\ status' = result

\* The handle is zeroed before anything is looked at.
PrepareRefused(s, l) ==
  /\ pc = "idle"
  /\ ~Usable(Tables[s], l)
  /\ handle' = ZeroHandle
  /\ status' = "INVALID_MAP"
  /\ UNCHANGED <<pc, call, at, search, outputs>>

PrepareBegin(s, l) ==
  /\ pc = "idle"
  /\ Usable(Tables[s], l)
  /\ handle' = ZeroHandle
  /\ pc' = "scan"
  /\ call' = [NoCall EXCEPT !.source = s, !.limits = l]
  /\ at' = Origin
  /\ UNCHANGED <<search, status, outputs>>

\* The corner under test, as it stands in its cell.
CornerStatus ==
  LET t == Tables[call.source]
  IN Cell(t, call.limits, at.i, at.k,
          (at.corner \div 2) * Width(t, at.i), (at.corner % 2) * Height(t, at.k))

CornerFails ==
  /\ pc = "scan"
  /\ CornerStatus # "OK"
  /\ Return(CornerStatus)
  /\ UNCHANGED <<handle, outputs>>

\* Mutant: the last row of cells is never reached.
LastCornerShort ==
  LET t == Tables[call.source]
  IN at.corner = 3 /\ at.k + 2 = t.nq /\ at.i + 2 >= t.nd - 1

LastCorner ==
  LET t == Tables[call.source]
  IN at.corner = 3 /\ at.k + 2 = t.nq /\ at.i + 2 = t.nd

\* Mutant: a corner too many.
NextCornerFive ==
  IF at.corner < 4 THEN [at EXCEPT !.corner = at.corner + 1]
  ELSE IF at.k + 2 < Tables[call.source].nq THEN [at EXCEPT !.k = at.k + 1, !.corner = 0]
  ELSE [i |-> at.i + 1, k |-> 0, corner |-> 0]

\* Mutant: opposite corners are taken to vouch for the other two.
NextCornerDiagonal ==
  IF at.corner < 3 THEN [at EXCEPT !.corner = 3]
  ELSE IF at.k + 2 < Tables[call.source].nq THEN [at EXCEPT !.k = at.k + 1, !.corner = 0]
  ELSE [i |-> at.i + 1, k |-> 0, corner |-> 0]

NextCorner ==
  IF at.corner < 3 THEN [at EXCEPT !.corner = at.corner + 1]
  ELSE IF at.k + 2 < Tables[call.source].nq THEN [at EXCEPT !.k = at.k + 1, !.corner = 0]
  ELSE [i |-> at.i + 1, k |-> 0, corner |-> 0]

CornerPasses ==
  /\ pc = "scan"
  /\ CornerStatus = "OK"
  /\ ~LastCorner
  /\ at' = NextCorner
  /\ UNCHANGED <<handle, pc, call, search, status, outputs>>

PrepareDone ==
  /\ pc = "scan"
  /\ CornerStatus = "OK"
  /\ LastCorner
  /\ handle' = [source |-> call.source, limits |-> call.limits, prepared |-> TRUE]
  /\ Return("OK")
  /\ UNCHANGED outputs

-----------------------------------------------------------------------------
(* namc_flux_map_lookup.                                                   *)

Map == Tables[handle.source]

Outside(c) ==
  \/ c.d < Map.id[0] \/ c.d > Map.id[Map.nd - 1]
  \/ c.q < Map.iq[0] \/ c.q > Map.iq[Map.nq - 1]

\* The first reason not to search, "NONE" if there is none.
Refusal(c) ==
  IF ~c.finite THEN "INVALID_INPUT"
  ELSE IF ~handle.prepared THEN "INVALID_MAP"
  ELSE IF ~ShapeValid(Map) \/ ~LimitsValid(handle.limits) THEN "INVALID_MAP"
  ELSE IF Outside(c) THEN "OUT_OF_DOMAIN"
  ELSE "NONE"

LookupRefused(c) ==
  /\ pc = "idle"
  /\ Refusal(c) # "NONE"
  /\ status' = Refusal(c)
  /\ UNCHANGED <<handle, pc, call, at, search, outputs>>

LookupBegin(c) ==
  /\ pc = "idle"
  /\ Refusal(c) = "NONE"
  /\ pc' = "search d"
  /\ call' = [NoCall EXCEPT !.current = c]
  /\ low' = 0 /\ high' = Map.nd - 1 /\ probes' = 0
  /\ UNCHANGED <<handle, at, status, outputs>>

Searching == pc \in {"search d", "search q"}
Axis == IF pc = "search d" THEN Map.id ELSE Map.iq
Knots == IF pc = "search d" THEN Map.nd ELSE Map.nq
Value == IF pc = "search d" THEN call.current.d ELSE call.current.q

\* Mutant: an inner knot is given to the cell below it.
ProbeLow ==
  LET mid == low + (high - low) \div 2
  IN /\ Searching
     /\ high - low > 1
     /\ IF Value <= Axis[mid] THEN high' = mid /\ low' = low
                              ELSE low' = mid /\ high' = high
     /\ probes' = probes + 1
     /\ UNCHANGED <<handle, pc, call, at, status, outputs>>

\* Mutant: the middle knot stays in the interval when it is not the answer.
ProbeSticks ==
  LET mid == low + (high - low) \div 2
  IN /\ Searching
     /\ high - low > 1
     /\ IF Value < Axis[mid] THEN high' = Lesser(mid + 1, high) /\ low' = low
                             ELSE low' = mid /\ high' = high
     /\ probes' = Lesser(probes + 1, 9)
     /\ UNCHANGED <<handle, pc, call, at, status, outputs>>

\* One round of namc_flux_interval.
Probe ==
  LET mid == low + (high - low) \div 2
  IN /\ Searching
     /\ high - low > 1
     /\ IF Value < Axis[mid] THEN high' = mid /\ low' = low
                             ELSE low' = mid /\ high' = high
     /\ probes' = probes + 1
     /\ UNCHANGED <<handle, pc, call, at, status, outputs>>

\* The row is found, the column is searched next.
FoundRow ==
  /\ pc = "search d"
  /\ high - low <= 1
  /\ pc' = "search q"
  /\ at' = [i |-> low, k |-> 0, corner |-> 0]
  /\ low' = 0 /\ high' = Map.nq - 1 /\ probes' = 0
  /\ UNCHANGED <<handle, call, status, outputs>>

FoundColumn ==
  /\ pc = "search q"
  /\ high - low <= 1
  /\ pc' = "evaluate"
  /\ at' = [at EXCEPT !.k = low]
  /\ UNCHANGED <<handle, call, search, status, outputs>>

\* Where the current lies in the cell that was found.
InD == call.current.d - Map.id[at.i]
InQ == call.current.q - Map.iq[at.k]

\* Mutant: the corners are taken to vouch for the condition number as well.
VerdictTrusted == "OK"

Verdict == Cell(Map, handle.limits, at.i, at.k, InD, InQ)

Answer ==
  LET area == Width(Map, at.i) * Height(Map, at.k)
  IN [d |-> Frac(FluxAt(Map, Map.psid, at.i, at.k, InD, InQ), area),
      q |-> Frac(FluxAt(Map, Map.psiq, at.i, at.k, InD, InQ), area)]

\* The tests are repeated here, and outputs are written after they passed.
Evaluate ==
  /\ pc = "evaluate"
  /\ Return(Verdict)
  /\ IF Verdict = "OK"
     THEN flux' = Answer /\ jacobian' = JacobianAt(Map, at.i, at.k, InD, InQ)
     ELSE UNCHANGED answer
  /\ UNCHANGED <<handle, rate>>

-----------------------------------------------------------------------------
(* namc_flux_solve, called as the plants and the tuning do: with a Jacobian *)
(* a lookup answered and the condition number of the map's limits.         *)

SolveVerdict(y) ==
  IF y.rep = "NONFINITE" \/ ~RcondValid(handle.limits) THEN "INVALID_INPUT"
  ELSE IF Singular(jacobian, handle.limits) THEN "ILL_CONDITIONED"
  ELSE IF y.rep = "HUGE" THEN "INVALID_INPUT"
  ELSE "OK"

\* Mutant: the cross terms are taken from the transposed matrix.
SolutionTransposed(j, y) ==
  [d |-> Frac(j.k * (j.qq * y.d - j.qd * y.q), Determinant(j)),
   q |-> Frac(j.k * (j.dd * y.q - j.dq * y.d), Determinant(j))]

\* The rates of the currents under the flux rates y, over one determinant.
Solution(j, y) ==
  [d |-> Frac(j.k * (j.qq * y.d - j.dq * y.q), Determinant(j)),
   q |-> Frac(j.k * (j.dd * y.q - j.qd * y.d), Determinant(j))]

Solve(y) ==
  /\ pc = "idle"
  /\ status' = SolveVerdict(y)
  /\ IF SolveVerdict(y) = "OK" THEN rate' = Solution(jacobian, y) ELSE UNCHANGED rate
  /\ UNCHANGED <<handle, pc, call, at, search, answer>>

-----------------------------------------------------------------------------

Proceed ==
  \/ CornerFails \/ CornerPasses \/ PrepareDone
  \/ Probe \/ FoundRow \/ FoundColumn \/ Evaluate

Next ==
  \/ \E s \in Sources, l \in Limits : PrepareRefused(s, l) \/ PrepareBegin(s, l)
  \/ \E c \in Currents : LookupRefused(c) \/ LookupBegin(c)
  \/ \E y \in FluxRates : Solve(y)
  \/ Proceed

Spec == Init /\ [][Next]_vars

\* A call that was made runs: the loops are those of one C function.
FairSpec == Spec /\ WF_vars(Proceed)

-----------------------------------------------------------------------------
(* Properties.                                                             *)

HandleTyped ==
  /\ handle.prepared \in BOOLEAN
  /\ handle.source \in Sources \cup {NoSource}
  /\ handle.limits \in Limits \cup {ZeroLimits}

CallTyped ==
  /\ call.source \in Sources \cup {NoSource}
  /\ call.limits \in Limits \cup {ZeroLimits}
  /\ call.current \in Currents \cup {ZeroCurrent}

PlaceTyped ==
  /\ pc \in Points /\ status \in Statuses
  /\ at \in [i : Nat, k : Nat, corner : 0..3]
  /\ low \in Nat /\ high \in Nat /\ probes \in Nat

AnswerTyped ==
  /\ flux.d \in Fractions /\ flux.q \in Fractions
  /\ rate.d \in Fractions /\ rate.q \in Fractions
  /\ jacobian \in [k : Int, dd : Int, dq : Int, qd : Int, qq : Int]

InsideTables ==
  /\ pc = "scan" => at.i + 1 < Tables[call.source].nd /\ at.k + 1 < Tables[call.source].nq
  /\ Searching => low < high /\ high < Knots

\* The state holds values of the types of the code; in particular neither scan
\* nor search leaves the axes and tables, for any shape.
TypeOK == HandleTyped /\ CallTyped /\ PlaceTyped /\ AnswerTyped /\ InsideTables

\* The corners of cell (i, k) of a table all pass.
CornersPass(t, l, i, k) ==
  \A s \in {0, Width(t, i)}, r \in {0, Height(t, k)} : Cell(t, l, i, k, s, r) = "OK"

\* A prepared handle borrows usable tables, every corner of every cell of which
\* was tested and passed; any other handle borrows nothing, whatever was in it
\* before and however far the preparation came.
HandleSound ==
  IF handle.prepared
  THEN /\ handle.source \in Sources
       /\ Usable(Map, handle.limits)
       /\ \A i \in 0..(Map.nd - 2), k \in 0..(Map.nq - 2) :
            CornersPass(Map, handle.limits, i, k)
  ELSE handle = ZeroHandle

\* Knot n is the one the search is to find: value is not below it, and below the
\* next one unless that is the last ("interior knots use the higher-current cell,
\* final knots the last cell", flux_map.h).
Holds(axis, count, n, value) ==
  /\ n \in 0..(count - 2)
  /\ axis[n] <= value
  /\ \/ value < axis[n + 1]
     \/ n = count - 2 /\ value <= axis[n + 1]

\* The powers of two.
Power == <<1, 2, 4, 8, 16, 32, 64, 128, 256>>

\* Both searches end in the cell the current lies in, after eight comparisons at
\* most, and the search still going on has that cell between its ends, where
\* every comparison halves what is left of the axis.
SearchFindsCell ==
  /\ pc = "search q" => Holds(Map.id, Map.nd, at.i, call.current.d)
  /\ pc = "evaluate" => /\ Holds(Map.id, Map.nd, at.i, call.current.d)
                        /\ Holds(Map.iq, Map.nq, at.k, call.current.q)
  /\ Searching => /\ Axis[low] <= Value
                  /\ \/ Value < Axis[high]
                     \/ high = Knots - 1 /\ Value <= Axis[high]
                  /\ probes \in 0..8
                  /\ (high - low - 1) * Power[probes + 1] <= Knots - 2

\* A solve for finite flux rates is not refused.
Solvable == \A y \in FluxRates : y.rep = "FINITE" => SolveVerdict(y) = "OK"

\* Inside a prepared map a lookup answers, or finds a bad condition number: what
\* the corners passed bounds reciprocity and incremental response everywhere in
\* the cell, which docs/development/flux-maps.md claims without proof.  And what
\* it answers can be solved for every voltage, so that a plant whose current stays
\* in the map is not stopped between lookup and solve.
InteriorHolds ==
  [][pc = "evaluate" =>
       /\ status' \in {"OK", "ILL_CONDITIONED"}
       /\ status' = "OK" => Solvable']_vars

Least(S) == CHOOSE x \in S : \A y \in S : x <= y
Largest(S) == CHOOSE x \in S : \A y \in S : x >= y

\* The answer is between the entries at the corners, and equal to an entry at its
\* own knot.
Interpolates(psi, answered) ==
  LET values == {psi[e] : e \in Entries(Map, at.i, at.k)}
      atKnot == InD \in {0, Width(Map, at.i)} /\ InQ \in {0, Height(Map, at.k)}
      row == IF InD = 0 THEN at.i ELSE at.i + 1
      column == IF InQ = 0 THEN at.k ELSE at.k + 1
  IN /\ ~Below(answered, Least(values)) /\ ~Above(answered, Largest(values))
     /\ atKnot => LET entry == psi[row * Map.nq + column]
                  IN ~Below(answered, entry) /\ ~Above(answered, entry)

\* Do the rates r solve J * r = y, over a determinant that is not zero?
Solves(r, j, y) ==
  /\ r.d.den # 0 /\ r.q.den = r.d.den
  /\ j.dd * r.d.num + j.dq * r.q.num = (j.k * y.d) * r.d.den
  /\ j.qd * r.d.num + j.qq * r.q.num = (j.k * y.q) * r.q.den

\* Outputs change only in a call that returns OK: flux and Jacobian together and
\* with an interpolation of the table, the rates with a solution for the Jacobian
\* at hand, and none of them with a refusal, whichever call was made before.
OutputsAnswer ==
  [][/\ answer' # answer =>
          /\ status' = "OK"
          /\ Interpolates(Map.psid, flux'.d) /\ Interpolates(Map.psiq, flux'.q)
     /\ rate' # rate =>
          /\ status' = "OK"
          /\ \E y \in FluxRates : y.rep = "FINITE" /\ Solves(rate', jacobian, y)]_vars

\* Every call returns.
CallsReturn == pc # "idle" ~> pc = "idle"
=============================================================================
