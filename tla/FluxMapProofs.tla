--------------------------- MODULE FluxMapProofs ---------------------------
(***************************************************************************)
(* The flux map for every table, limit and current: preparation tests all   *)
(* corners, the search finds the cell, what holds at the corners holds      *)
(* inside, and what a lookup answers can be solved.                         *)
(***************************************************************************)
EXTENDS FluxMap, TLAPS

-----------------------------------------------------------------------------
(* Positive definite symmetric matrices, as Definite tests them.           *)

\* The product of positive numbers is positive.
LEMMA ProductPositive ==
  ASSUME NEW x \in Int, NEW y \in Int, x > 0, y > 0
  PROVE  x * y > 0
OBVIOUS

LEMMA ProductNatural ==
  ASSUME NEW x \in Int, NEW y \in Int, x >= 0, y >= 0
  PROVE  x * y >= 0
OBVIOUS

\* A factor can be taken out of an inequality.
LEMMA FactorPositive ==
  ASSUME NEW x \in Int, NEW y \in Int, x > 0, x * y > 0
  PROVE  y > 0
OBVIOUS

LEMMA DefiniteScale ==
  ASSUME NEW h \in Int, h > 0, NEW a \in Int, NEW b \in Int, NEW c \in Int,
         Definite(h * a, h * b, h * c)
  PROVE  Definite(a, b, c)
<1>1. a > 0 /\ c > 0
  BY FactorPositive DEF Definite
<1>2. 4 * ((h * a) * (h * c)) - (h * b) * (h * b) > 0
  BY DEF Definite
<1>3. (h * h) * (4 * (a * c) - b * b) > 0
  <2>1. 4 * ((h * a) * (h * c)) - (h * b) * (h * b) = (h * h) * (4 * (a * c) - b * b)
    OBVIOUS
  <2>2. QED
    BY <1>2, <2>1
<1>4. h * h > 0
  BY ProductPositive
<1>5. 4 * (a * c) - b * b \in Int /\ h * h \in Int
  OBVIOUS
<1>6. 4 * (a * c) - b * b > 0
  BY <1>3, <1>4, <1>5, FactorPositive
<1>7. QED
  BY <1>1, <1>6 DEF Definite

\* Twice the mixed product of two definite matrices is positive.
LEMMA DefiniteMixed ==
  ASSUME NEW a \in Int, NEW b \in Int, NEW c \in Int, Definite(a, b, c),
         NEW x \in Int, NEW y \in Int, NEW z \in Int, Definite(x, y, z)
  PROVE  2 * (a * z + x * c) - b * y > 0
<1>1. a > 0 /\ c > 0 /\ x > 0 /\ z > 0
  BY DEF Definite
<1>2. 4 * (a * c) - b * b > 0 /\ 4 * (x * z) - y * y > 0
  BY DEF Definite
<1>3. a * x > 0 /\ a * a > 0 /\ x * x > 0
  BY <1>1, ProductPositive
<1>4. (a * a) * (4 * (x * z) - y * y) > 0
  BY <1>2, <1>3, ProductPositive
<1>5. (x * x) * (4 * (a * c) - b * b) > 0
  BY <1>2, <1>3, ProductPositive
<1>6. (a * y - x * b) * (a * y - x * b) >= 0
  OBVIOUS
<1>7. 2 * ((a * x) * (2 * (a * z + x * c) - b * y))
        = (a * a) * (4 * (x * z) - y * y) + (x * x) * (4 * (a * c) - b * b)
            + (a * y - x * b) * (a * y - x * b)
  OBVIOUS
<1>8. (a * x) * (2 * (a * z + x * c) - b * y) > 0
  <2> DEFINE p == (a * x) * (2 * (a * z + x * c) - b * y)
             q == (a * a) * (4 * (x * z) - y * y)
             r == (x * x) * (4 * (a * c) - b * b)
             e == (a * y - x * b) * (a * y - x * b)
  <2>1. p \in Int /\ q \in Int /\ r \in Int /\ e \in Int
    OBVIOUS
  <2>2. q > 0 /\ r > 0 /\ e >= 0 /\ 2 * p = q + r + e
    BY <1>4, <1>5, <1>6, <1>7
  <2> HIDE DEF p, q, r, e
  <2>3. p > 0
    BY <2>1, <2>2
  <2>4. QED
    BY <2>3 DEF p
<1>9. a * x \in Int /\ 2 * (a * z + x * c) - b * y \in Int
  OBVIOUS
<1>10. QED
  BY <1>3, <1>8, <1>9, FactorPositive

LEMMA DefiniteTimes ==
  ASSUME NEW h \in Int, h > 0, NEW a \in Int, NEW b \in Int, NEW c \in Int,
         Definite(a, b, c)
  PROVE  Definite(h * a, h * b, h * c)
<1>1. a > 0 /\ c > 0 /\ 4 * (a * c) - b * b > 0
  BY DEF Definite
<1>2. h * a > 0 /\ h * c > 0 /\ h * h > 0
  BY <1>1, ProductPositive
<1>3. 4 * (a * c) - b * b \in Int /\ h * h \in Int
  OBVIOUS
<1>4. (h * h) * (4 * (a * c) - b * b) > 0
  BY <1>1, <1>2, <1>3, ProductPositive
<1>5. 4 * ((h * a) * (h * c)) - (h * b) * (h * b) = (h * h) * (4 * (a * c) - b * b)
  OBVIOUS
<1>6. QED
  BY <1>2, <1>4, <1>5 DEF Definite

LEMMA DefiniteSum ==
  ASSUME NEW a \in Int, NEW b \in Int, NEW c \in Int, Definite(a, b, c),
         NEW x \in Int, NEW y \in Int, NEW z \in Int, Definite(x, y, z)
  PROVE  Definite(a + x, b + y, c + z)
<1>1. 2 * (a * z + x * c) - b * y > 0
  BY DefiniteMixed
<1>2. a + x > 0 /\ c + z > 0
  BY DEF Definite
<1>3. 4 * (a * c) - b * b > 0 /\ 4 * (x * z) - y * y > 0
  BY DEF Definite
<1>4. 4 * ((a + x) * (c + z)) - (b + y) * (b + y)
        = (4 * (a * c) - b * b) + (4 * (x * z) - y * y)
            + 2 * (2 * (a * z + x * c) - b * y)
  OBVIOUS
<1>5. 4 * ((a + x) * (c + z)) - (b + y) * (b + y) > 0
  <2> DEFINE p == 4 * (a * c) - b * b
             q == 4 * (x * z) - y * y
             r == 2 * (a * z + x * c) - b * y
  <2>1. p \in Int /\ q \in Int /\ r \in Int
    OBVIOUS
  <2>2. p > 0 /\ q > 0 /\ r > 0
    BY <1>1, <1>3
  <2> HIDE DEF p, q, r
  <2>3. p + q + 2 * r > 0
    BY <2>1, <2>2
  <2>4. QED
    BY <1>4, <2>3 DEF p, q, r
<1>6. QED
  BY <1>2, <1>5 DEF Definite

\* z lies between x and y, at m of h.
Between(h, m, x, y, z) == h * z = (h - m) * x + m * y

\* What lies between two definite matrices is definite.
LEMMA DefiniteBetween ==
  ASSUME NEW h \in Int, h > 0, NEW m \in 0..h,
         NEW a \in Int, NEW b \in Int, NEW c \in Int, Definite(a, b, c),
         NEW x \in Int, NEW y \in Int, NEW z \in Int, Definite(x, y, z),
         NEW p \in Int, NEW q \in Int, NEW r \in Int,
         Between(h, m, a, x, p), Between(h, m, b, y, q), Between(h, m, c, z, r)
  PROVE  Definite(p, q, r)
<1>0. /\ h * p = (h - m) * a + m * x
      /\ h * q = (h - m) * b + m * y
      /\ h * r = (h - m) * c + m * z
  BY DEF Between
<1>1. CASE m = 0
  <2>1. h * p = h * a /\ h * q = h * b /\ h * r = h * c
    BY <1>0, <1>1
  <2>2. Definite(h * a, h * b, h * c)
    BY DefiniteTimes
  <2>3. Definite(h * p, h * q, h * r)
    BY <2>1, <2>2
  <2>4. QED
    BY <2>3, DefiniteScale
<1>2. CASE m = h
  <2>1. h * p = h * x /\ h * q = h * y /\ h * r = h * z
    BY <1>0, <1>2
  <2>2. Definite(h * x, h * y, h * z)
    BY DefiniteTimes
  <2>3. Definite(h * p, h * q, h * r)
    BY <2>1, <2>2
  <2>4. QED
    BY <2>3, DefiniteScale
<1>3. CASE m > 0 /\ m < h
  <2>1. h - m \in Int /\ h - m > 0
    BY <1>3
  <2>2. Definite((h - m) * a, (h - m) * b, (h - m) * c)
    BY <2>1, DefiniteTimes
  <2>3. Definite(m * x, m * y, m * z)
    <3>1. m \in Int /\ m > 0
      BY <1>3
    <3>2. QED
      BY <3>1, DefiniteTimes
  <2>4. /\ (h - m) * a \in Int /\ (h - m) * b \in Int /\ (h - m) * c \in Int
        /\ m * x \in Int /\ m * y \in Int /\ m * z \in Int
    OBVIOUS
  <2>5. Definite((h - m) * a + m * x, (h - m) * b + m * y, (h - m) * c + m * z)
    BY <2>2, <2>3, <2>4, DefiniteSum
  <2>6. Definite(h * p, h * q, h * r)
    BY <1>0, <2>5
  <2>7. QED
    BY <2>6, DefiniteScale
<1>4. m = 0 \/ m = h \/ (m > 0 /\ m < h)
  OBVIOUS
<1>5. QED
  BY <1>1, <1>2, <1>3, <1>4

\* What lies between two bounded numbers is bounded.
LEMMA AbsBetween ==
  ASSUME NEW h \in Int, h > 0, NEW m \in 0..h, NEW bound \in Int,
         NEW x \in Int, NEW y \in Int, NEW z \in Int,
         Abs(x) <= bound, Abs(y) <= bound, Between(h, m, x, y, z)
  PROVE  Abs(z) <= bound
<1>0. h * z = (h - m) * x + m * y
  BY DEF Between
<1>1. x \in -bound..bound /\ y \in -bound..bound
  BY DEF Abs
<1>2. (h - m) * (bound - x) >= 0 /\ (h - m) * (bound + x) >= 0
  BY <1>1, ProductNatural
<1>3. m * (bound - y) >= 0 /\ m * (bound + y) >= 0
  BY <1>1, ProductNatural
<1>4. h * (bound - z) = (h - m) * (bound - x) + m * (bound - y)
  BY <1>0
<1>5. h * (bound + z) = (h - m) * (bound + x) + m * (bound + y)
  BY <1>0
<1>6. h * (bound - z) >= 0 /\ h * (bound + z) >= 0
  BY <1>2, <1>3, <1>4, <1>5
<1>7. bound - z >= 0
  BY <1>6
<1>8. bound + z >= 0
  BY <1>6
<1>9. QED
  BY <1>7, <1>8 DEF Abs

-----------------------------------------------------------------------------
(* Tables.                                                                 *)

\* What a usable table and its limits are.
LEMMA UsableTable ==
  ASSUME NEW s \in Sources, NEW l \in Limits, Usable(Tables[s], l)
  PROVE  /\ IsTable(Tables[s])
         /\ Tables[s].nd \in 2..256 /\ Tables[s].nq \in 2..256
         /\ Tables[s].count = Tables[s].nd * Tables[s].nq
         /\ Increasing(Tables[s].id, Tables[s].nd)
         /\ Increasing(Tables[s].iq, Tables[s].nq)
         /\ l.floor \in Int /\ l.reciprocity \in Int /\ l.rcond \in Fractions
         /\ LimitsValid(l)
<1>1. IsTable(Tables[s])
  BY TablesAssumption
<1>2. l.floor \in Int /\ l.reciprocity \in Int /\ l.rcond \in Fractions
  BY LimitsAssumption DEF LimitsType
<1>3. MaxAxis \in 2..256
  BY MaxAxisAssumption
<1>4. QED
  BY <1>1, <1>2, <1>3 DEF Usable, ShapeValid

\* Cell (i, k) is one of the cells of a table of the shape the code accepts.
IsCell(t, i, k) ==
  /\ IsTable(t)
  /\ t.nd \in 2..256 /\ t.nq \in 2..256
  /\ t.count = t.nd * t.nq
  /\ Increasing(t.id, t.nd) /\ Increasing(t.iq, t.nq)
  /\ i \in 0..(t.nd - 2) /\ k \in 0..(t.nq - 2)

\* The entries of a cell are in the table.
LEMMA EntriesInside ==
  ASSUME NEW t, NEW i \in Int, NEW k \in Int, IsCell(t, i, k)
  PROVE  /\ Offset(t, i, k) \in 0..(t.count - 1)
         /\ Offset(t, i, k) + 1 \in 0..(t.count - 1)
         /\ Offset(t, i, k) + t.nq \in 0..(t.count - 1)
         /\ Offset(t, i, k) + t.nq + 1 \in 0..(t.count - 1)
<1> DEFINE nd == t.nd
           nq == t.nq
<1>1. nd \in 2..256 /\ nq \in 2..256 /\ i \in 0..(nd - 2) /\ k \in 0..(nq - 2)
  BY DEF IsCell
<1>2. t.count = nd * nq
  BY DEF IsCell
<1>3. Offset(t, i, k) = i * nq + k
  BY DEF Offset
<1> HIDE DEF nd, nq
<1>4. (nd - 2 - i) * nq >= 0 /\ i * nq >= 0
  <2>1. nd - 2 - i \in Int /\ nd - 2 - i >= 0 /\ nq \in Int /\ nq >= 0 /\ i >= 0
    BY <1>1
  <2>2. QED
    BY <2>1, ProductNatural
<1>5. (nd - 2 - i) * nq = nd * nq - 2 * nq - i * nq
  BY <1>1
<1>6. nd * nq \in Int /\ i * nq \in Int
  BY <1>1
<1> DEFINE all == nd * nq
           row == i * nq
<1>7. all \in Int /\ row \in Int /\ row >= 0 /\ row <= all - 2 * nq
  BY <1>4, <1>5, <1>6, <1>1
<1>8. Offset(t, i, k) = row + k /\ t.count = all
  BY <1>2, <1>3
<1> HIDE DEF all, row
<1>9. QED
  BY <1>1, <1>7, <1>8 DEF nq

\* The sides of a cell.
LEMMA Sides ==
  ASSUME NEW t, NEW i \in Int, NEW k \in Int, IsCell(t, i, k)
  PROVE  /\ Width(t, i) \in Int /\ Width(t, i) > 0
         /\ Height(t, k) \in Int /\ Height(t, k) > 0
         /\ t.id[i] \in Int /\ t.id[i + 1] \in Int
         /\ t.iq[k] \in Int /\ t.iq[k + 1] \in Int
<1>0. t.id \in [0..(t.nd - 1) -> Int] /\ t.iq \in [0..(t.nq - 1) -> Int]
  BY DEF IsCell, IsTable
<1>1. t.nd \in 2..256 /\ t.nq \in 2..256 /\ i \in 0..(t.nd - 2) /\ k \in 0..(t.nq - 2)
  BY DEF IsCell
<1>2. i \in 0..(t.nd - 1) /\ i + 1 \in 0..(t.nd - 1)
      /\ k \in 0..(t.nq - 1) /\ k + 1 \in 0..(t.nq - 1)
  BY <1>1
<1>3. t.id[i] < t.id[i + 1]
  <2> DEFINE n == i + 1
  <2>1. n \in 1..(t.nd - 1) /\ n - 1 = i
    BY <1>1
  <2> HIDE DEF n
  <2>2. t.id[n - 1] < t.id[n]
    BY <2>1 DEF IsCell, Increasing
  <2>3. QED
    BY <2>1, <2>2 DEF n
<1>4. t.iq[k] < t.iq[k + 1]
  <2> DEFINE n == k + 1
  <2>1. n \in 1..(t.nq - 1) /\ n - 1 = k
    BY <1>1
  <2> HIDE DEF n
  <2>2. t.iq[n - 1] < t.iq[n]
    BY <2>1 DEF IsCell, Increasing
  <2>3. QED
    BY <2>1, <2>2 DEF n
<1>5. t.id[i] \in Int /\ t.id[i + 1] \in Int /\ t.iq[k] \in Int /\ t.iq[k + 1] \in Int
  BY <1>0, <1>2
<1>6. QED
  BY <1>3, <1>4, <1>5 DEF Width, Height

LEMMA EntriesTyped ==
  ASSUME NEW t, NEW i \in Int, NEW k \in Int, IsCell(t, i, k),
         NEW psi, psi \in {t.psid, t.psiq}
  PROVE  /\ psi[Offset(t, i, k)] \in Int
         /\ psi[Offset(t, i, k) + 1] \in Int
         /\ psi[Offset(t, i, k) + t.nq] \in Int
         /\ psi[Offset(t, i, k) + t.nq + 1] \in Int
<1>1. psi \in [0..(t.count - 1) -> Int]
  BY DEF IsCell, IsTable
<1>2. QED
  BY <1>1, EntriesInside

LEMMA JacobianTyped ==
  ASSUME NEW t, NEW i \in Int, NEW k \in Int, IsCell(t, i, k), NEW s \in Int, NEW r \in Int
  PROVE  /\ JacobianAt(t, i, k, s, r) \in [k : Int, dd : Int, dq : Int, qd : Int, qq : Int]
         /\ FluxAt(t, t.psid, i, k, s, r) \in Int
         /\ FluxAt(t, t.psiq, i, k, s, r) \in Int
         /\ Width(t, i) * Height(t, k) \in Int
<1>1. Width(t, i) \in Int /\ Height(t, k) \in Int
  BY Sides
<1>2. ASSUME NEW psi, psi \in {t.psid, t.psiq}
      PROVE  /\ FluxAt(t, psi, i, k, s, r) \in Int
             /\ SlopeD(t, psi, i, k, r) \in Int
             /\ SlopeQ(t, psi, i, k, s) \in Int
  <2> DEFINE o == Offset(t, i, k)
             f00 == psi[o]
             f01 == psi[o + 1]
             f10 == psi[o + t.nq]
             f11 == psi[o + t.nq + 1]
             w == Width(t, i)
             h == Height(t, k)
  <2>1. f00 \in Int /\ f01 \in Int /\ f10 \in Int /\ f11 \in Int
    BY <1>2, EntriesTyped
  <2>2. w \in Int /\ h \in Int
    BY <1>1
  <2>3. /\ FluxAt(t, psi, i, k, s, r)
             = (w - s) * ((h - r) * f00 + r * f01) + s * ((h - r) * f10 + r * f11)
        /\ SlopeD(t, psi, i, k, r) = (h - r) * (f10 - f00) + r * (f11 - f01)
        /\ SlopeQ(t, psi, i, k, s) = (w - s) * (f01 - f00) + s * (f11 - f10)
    BY DEF FluxAt, SlopeD, SlopeQ
  <2> HIDE DEF o, f00, f01, f10, f11, w, h
  <2>4. QED
    BY <2>1, <2>2, <2>3
<1>3. /\ FluxAt(t, t.psid, i, k, s, r) \in Int /\ FluxAt(t, t.psiq, i, k, s, r) \in Int
      /\ SlopeD(t, t.psid, i, k, r) \in Int /\ SlopeD(t, t.psiq, i, k, r) \in Int
      /\ SlopeQ(t, t.psid, i, k, s) \in Int /\ SlopeQ(t, t.psiq, i, k, s) \in Int
  BY <1>2
<1>4. Width(t, i) * Height(t, k) \in Int
  BY <1>1
<1>5. QED
  BY <1>3, <1>4 DEF JacobianAt

-----------------------------------------------------------------------------
(* What holds at the corners of a cell holds inside.                       *)

\* A symmetric matrix whose diagonal entries depend on one coordinate each and
\* whose mixed entry on both, all linearly, is definite inside a rectangle if it
\* is at the corners: first along one side, then across.
LEMMA DefiniteInside ==
  ASSUME NEW w \in Int, w > 0, NEW h \in Int, h > 0, NEW g \in Int,
         NEW A0 \in Int, NEW A1 \in Int, NEW B0 \in Int, NEW B1 \in Int,
         NEW C0 \in Int, NEW C1 \in Int, NEW D0 \in Int, NEW D1 \in Int,
         Definite(h * A0 - g, w * B0 + h * C0, w * D0 - g),
         Definite(h * A1 - g, w * B0 + h * C1, w * D0 - g),
         Definite(h * A0 - g, w * B1 + h * C0, w * D1 - g),
         Definite(h * A1 - g, w * B1 + h * C1, w * D1 - g),
         NEW s \in 0..w, NEW r \in 0..h
  PROVE  Definite((h - r) * A0 + r * A1 - g,
                  ((w - s) * B0 + s * B1) + ((h - r) * C0 + r * C1),
                  (w - s) * D0 + s * D1 - g)
<1> DEFINE a == (h - r) * A0 + r * A1 - g
           m == (h - r) * C0 + r * C1
<1>1. a \in Int /\ m \in Int
  OBVIOUS
<1>2. h * a = (h - r) * (h * A0 - g) + r * (h * A1 - g)
  OBVIOUS
<1>3. ASSUME NEW B \in Int, NEW D \in Int,
             Definite(h * A0 - g, w * B + h * C0, w * D - g),
             Definite(h * A1 - g, w * B + h * C1, w * D - g)
      PROVE  Definite(a, w * B + m, w * D - g)
  <2>1. h * (w * B + m) = (h - r) * (w * B + h * C0) + r * (w * B + h * C1)
    OBVIOUS
  <2>2. h * (w * D - g) = (h - r) * (w * D - g) + r * (w * D - g)
    OBVIOUS
  <2> DEFINE a0 == h * A0 - g
             a1 == h * A1 - g
             b0 == w * B + h * C0
             b1 == w * B + h * C1
             c == w * D - g
             b == w * B + m
  <2>3. /\ a0 \in Int /\ a1 \in Int /\ b0 \in Int /\ b1 \in Int
        /\ c \in Int /\ b \in Int
    BY <1>1
  <2>4. Between(h, r, a0, a1, a) /\ Between(h, r, b0, b1, b) /\ Between(h, r, c, c, c)
    BY <1>2, <2>1, <2>2 DEF Between
  <2>5. Definite(a0, b0, c) /\ Definite(a1, b1, c)
    BY <1>3
  <2>6. ASSUME a \in Int PROVE Definite(a, b, c)
    <3> HIDE DEF a, m, a0, a1, b0, b1, b, c
    <3>1. QED
      BY <2>3, <2>4, <2>5, <2>6, DefiniteBetween
  <2>7. QED
    BY <1>1, <2>6
<1>4. Definite(a, w * B0 + m, w * D0 - g) /\ Definite(a, w * B1 + m, w * D1 - g)
  BY <1>3
<1>5. w * (((w - s) * B0 + s * B1) + m) = (w - s) * (w * B0 + m) + s * (w * B1 + m)
  <2> HIDE DEF a, m
  <2>1. QED
    BY <1>1
<1>6. w * ((w - s) * D0 + s * D1 - g) = (w - s) * (w * D0 - g) + s * (w * D1 - g)
  OBVIOUS
<1>7. w * a = (w - s) * a + s * a
  <2> HIDE DEF a, m
  <2>1. QED
    BY <1>1
<1>8. /\ w * B0 + m \in Int /\ w * B1 + m \in Int
      /\ w * D0 - g \in Int /\ w * D1 - g \in Int
      /\ ((w - s) * B0 + s * B1) + m \in Int /\ (w - s) * D0 + s * D1 - g \in Int
  BY <1>1
<1> HIDE DEF a, m
<1>9. Definite(a, ((w - s) * B0 + s * B1) + m, (w - s) * D0 + s * D1 - g)
  <2> DEFINE b0 == w * B0 + m
             b1 == w * B1 + m
             c0 == w * D0 - g
             c1 == w * D1 - g
             b == ((w - s) * B0 + s * B1) + m
             c == (w - s) * D0 + s * D1 - g
  <2>1. /\ b0 \in Int /\ b1 \in Int /\ c0 \in Int /\ c1 \in Int
        /\ b \in Int /\ c \in Int
    BY <1>8
  <2>2. Between(w, s, a, a, a) /\ Between(w, s, b0, b1, b) /\ Between(w, s, c0, c1, c)
    BY <1>5, <1>6, <1>7 DEF Between
  <2>3. Definite(a, b0, c0) /\ Definite(a, b1, c1)
    BY <1>4
  <2> HIDE DEF b0, b1, c0, c1, b, c
  <2>4. Definite(a, b, c)
    BY <1>1, <2>1, <2>2, <2>3, DefiniteBetween
  <2>5. QED
    BY <2>4 DEF b, c
<1>10. QED
  BY <1>9 DEF a, m

\* The same for a bound on what depends linearly on both coordinates.
LEMMA AbsInside ==
  ASSUME NEW w \in Int, w > 0, NEW h \in Int, h > 0, NEW bound \in Int,
         NEW B0 \in Int, NEW B1 \in Int, NEW C0 \in Int, NEW C1 \in Int,
         Abs(w * B0 - h * C0) <= bound, Abs(w * B0 - h * C1) <= bound,
         Abs(w * B1 - h * C0) <= bound, Abs(w * B1 - h * C1) <= bound,
         NEW s \in 0..w, NEW r \in 0..h
  PROVE  Abs(((w - s) * B0 + s * B1) - ((h - r) * C0 + r * C1)) <= bound
<1> DEFINE m == (h - r) * C0 + r * C1
<1>1. m \in Int
  OBVIOUS
<1>2. ASSUME NEW B \in Int, Abs(w * B - h * C0) <= bound, Abs(w * B - h * C1) <= bound
      PROVE  Abs(w * B - m) <= bound
  <2>1. h * (w * B - m) = (h - r) * (w * B - h * C0) + r * (w * B - h * C1)
    OBVIOUS
  <2>2. w * B - h * C0 \in Int /\ w * B - h * C1 \in Int /\ w * B - m \in Int
    BY <1>1
  <2> DEFINE x == w * B - h * C0
             y == w * B - h * C1
             z == w * B - m
  <2>3. x \in Int /\ y \in Int /\ z \in Int
    BY <2>2
  <2>4. Abs(x) <= bound /\ Abs(y) <= bound /\ Between(h, r, x, y, z)
    BY <1>2, <2>1 DEF Between
  <2> HIDE DEF m, x, y, z
  <2>5. Abs(z) <= bound
    BY <2>3, <2>4, AbsBetween
  <2>6. QED
    BY <2>5 DEF z
<1>3. Abs(w * B0 - m) <= bound /\ Abs(w * B1 - m) <= bound
  BY <1>2
<1>4. /\ w * B0 - m \in Int /\ w * B1 - m \in Int
      /\ ((w - s) * B0 + s * B1) - m \in Int
  BY <1>1
<1> HIDE DEF m
<1>5. w * (((w - s) * B0 + s * B1) - m) = (w - s) * (w * B0 - m) + s * (w * B1 - m)
  BY <1>1
<1>6. Abs(((w - s) * B0 + s * B1) - m) <= bound
  <2> DEFINE x == w * B0 - m
             y == w * B1 - m
             z == ((w - s) * B0 + s * B1) - m
  <2>1. x \in Int /\ y \in Int /\ z \in Int
    BY <1>4
  <2>2. Abs(x) <= bound /\ Abs(y) <= bound /\ Between(w, s, x, y, z)
    BY <1>3, <1>5 DEF Between
  <2> HIDE DEF x, y, z
  <2>3. Abs(z) <= bound
    BY <2>1, <2>2, AbsBetween
  <2>4. QED
    BY <2>3 DEF z
<1>7. QED
  BY <1>6 DEF m

\* Where a cell is answered.
LEMMA PhysicsMeans ==
  ASSUME NEW t, NEW l, NEW i, NEW k, NEW s, NEW r
  PROVE  Cell(t, l, i, k, s, r) = "OK" <=>
           /\ Entries(t, i, k) \cap t.bad = {}
           /\ ~Singular(JacobianAt(t, i, k, s, r), l)
           /\ Reciprocal(JacobianAt(t, i, k, s, r), l)
           /\ Passive(JacobianAt(t, i, k, s, r), l)
BY DEF Cell, Physics

\* The corners of a cell vouch for its inside, the condition number apart.
LEMMA CornersVouch ==
  ASSUME NEW t, NEW i \in Int, NEW k \in Int, IsCell(t, i, k),
         NEW l, l.floor \in Int, l.reciprocity \in Int, CornersPass(t, l, i, k),
         NEW s \in 0..Width(t, i), NEW r \in 0..Height(t, k)
  PROVE  Cell(t, l, i, k, s, r) \in {"OK", "ILL_CONDITIONED"}
<1> DEFINE w == Width(t, i)
           h == Height(t, k)
           o == Offset(t, i, k)
           A0 == t.psid[o + t.nq] - t.psid[o]
           A1 == t.psid[o + t.nq + 1] - t.psid[o + 1]
           B0 == t.psid[o + 1] - t.psid[o]
           B1 == t.psid[o + t.nq + 1] - t.psid[o + t.nq]
           C0 == t.psiq[o + t.nq] - t.psiq[o]
           C1 == t.psiq[o + t.nq + 1] - t.psiq[o + 1]
           D0 == t.psiq[o + 1] - t.psiq[o]
           D1 == t.psiq[o + t.nq + 1] - t.psiq[o + t.nq]
           f == l.floor
           J(x, y) == JacobianAt(t, i, k, x, y)
<1>1. w \in Int /\ w > 0 /\ h \in Int /\ h > 0
  BY Sides
<1>2. /\ A0 \in Int /\ A1 \in Int /\ B0 \in Int /\ B1 \in Int
      /\ C0 \in Int /\ C1 \in Int /\ D0 \in Int /\ D1 \in Int
  <2>1. /\ t.psid[o] \in Int /\ t.psid[o + 1] \in Int
        /\ t.psid[o + t.nq] \in Int /\ t.psid[o + t.nq + 1] \in Int
    BY EntriesTyped
  <2>2. /\ t.psiq[o] \in Int /\ t.psiq[o + 1] \in Int
        /\ t.psiq[o + t.nq] \in Int /\ t.psiq[o + t.nq + 1] \in Int
    BY EntriesTyped
  <2> HIDE DEF o
  <2>3. QED
    BY <2>1, <2>2
<1>3. ASSUME NEW x, NEW y
      PROVE  /\ J(x, y).k = w * h
             /\ J(x, y).dd = (h - y) * A0 + y * A1
             /\ J(x, y).dq = (w - x) * B0 + x * B1
             /\ J(x, y).qd = (h - y) * C0 + y * C1
             /\ J(x, y).qq = (w - x) * D0 + x * D1
  BY DEF JacobianAt, SlopeD, SlopeQ
<1>4. s \in 0..w /\ r \in 0..h /\ f \in Int /\ f * (w * h) \in Int
  BY <1>1
<1>5. ASSUME NEW x \in {0, w}, NEW y \in {0, h}
      PROVE  /\ Entries(t, i, k) \cap t.bad = {}
             /\ Reciprocal(J(x, y), l)
             /\ Passive(J(x, y), l)
  <2>1. Cell(t, l, i, k, x, y) = "OK"
    BY <1>5 DEF CornersPass
  <2>2. QED
    BY <2>1, PhysicsMeans
<1> HIDE DEF w, h, o, A0, A1, B0, B1, C0, C1, D0, D1, f, J
<1>6. ASSUME NEW x \in Int, NEW y \in Int
      PROVE  /\ Passive(J(x, y), l) <=>
                  Definite((h - y) * A0 + y * A1 - f * (w * h),
                           ((w - x) * B0 + x * B1) + ((h - y) * C0 + y * C1),
                           (w - x) * D0 + x * D1 - f * (w * h))
             /\ Reciprocal(J(x, y), l) <=>
                  Abs(((w - x) * B0 + x * B1) - ((h - y) * C0 + y * C1))
                    <= l.reciprocity * (w * h)
  <2>1. /\ J(x, y).k = w * h
        /\ J(x, y).dd = (h - y) * A0 + y * A1
        /\ J(x, y).dq = (w - x) * B0 + x * B1
        /\ J(x, y).qd = (h - y) * C0 + y * C1
        /\ J(x, y).qq = (w - x) * D0 + x * D1
    BY <1>3
  <2>2. Passive(J(x, y), l) <=>
          Definite(J(x, y).dd - l.floor * J(x, y).k, J(x, y).dq + J(x, y).qd,
                   J(x, y).qq - l.floor * J(x, y).k)
    BY DEF Passive
  <2>3. Reciprocal(J(x, y), l) <=>
          Abs(J(x, y).dq - J(x, y).qd) <= l.reciprocity * J(x, y).k
    BY DEF Reciprocal
  <2>4. Passive(J(x, y), l) <=>
          Definite((h - y) * A0 + y * A1 - f * (w * h),
                   ((w - x) * B0 + x * B1) + ((h - y) * C0 + y * C1),
                   (w - x) * D0 + x * D1 - f * (w * h))
    BY <1>1, <1>2, <2>1, <2>2 DEF f
  <2>5. Reciprocal(J(x, y), l) <=>
          Abs(((w - x) * B0 + x * B1) - ((h - y) * C0 + y * C1))
            <= l.reciprocity * (w * h)
    BY <1>1, <1>2, <2>1, <2>3
  <2>6. QED
    BY <2>4, <2>5
<1>7. /\ (h - 0) * A0 + 0 * A1 = h * A0 /\ (h - h) * A0 + h * A1 = h * A1
      /\ (w - 0) * B0 + 0 * B1 = w * B0 /\ (w - w) * B0 + w * B1 = w * B1
      /\ (h - 0) * C0 + 0 * C1 = h * C0 /\ (h - h) * C0 + h * C1 = h * C1
      /\ (w - 0) * D0 + 0 * D1 = w * D0 /\ (w - w) * D0 + w * D1 = w * D1
  BY <1>1, <1>2
<1> DEFINE g == f * (w * h)
           bound == l.reciprocity * (w * h)
<1>8. g \in Int /\ bound \in Int
  BY <1>1, <1>4
<1>9. /\ Definite(h * A0 - g, w * B0 + h * C0, w * D0 - g)
      /\ Definite(h * A1 - g, w * B0 + h * C1, w * D0 - g)
      /\ Definite(h * A0 - g, w * B1 + h * C0, w * D1 - g)
      /\ Definite(h * A1 - g, w * B1 + h * C1, w * D1 - g)
  <2>1. Passive(J(0, 0), l) /\ Passive(J(0, h), l) /\ Passive(J(w, 0), l) /\ Passive(J(w, h), l)
    BY <1>5
  <2>2. 0 \in Int /\ h \in Int /\ w \in Int
    BY <1>1
  <2>3. Definite(h * A0 - g, w * B0 + h * C0, w * D0 - g)
    <3>1. Definite((h - 0) * A0 + 0 * A1 - g,
                   ((w - 0) * B0 + 0 * B1) + ((h - 0) * C0 + 0 * C1),
                   (w - 0) * D0 + 0 * D1 - g)
      BY <1>6, <2>1, <2>2
    <3>2. QED
      BY <1>1, <1>2, <1>4, <1>7, <3>1
  <2>4. Definite(h * A1 - g, w * B0 + h * C1, w * D0 - g)
    <3>1. Definite((h - h) * A0 + h * A1 - g,
                   ((w - 0) * B0 + 0 * B1) + ((h - h) * C0 + h * C1),
                   (w - 0) * D0 + 0 * D1 - g)
      BY <1>6, <2>1, <2>2
    <3>2. QED
      BY <1>1, <1>2, <1>4, <1>7, <3>1
  <2>5. Definite(h * A0 - g, w * B1 + h * C0, w * D1 - g)
    <3>1. Definite((h - 0) * A0 + 0 * A1 - g,
                   ((w - w) * B0 + w * B1) + ((h - 0) * C0 + 0 * C1),
                   (w - w) * D0 + w * D1 - g)
      BY <1>6, <2>1, <2>2
    <3>2. QED
      BY <1>1, <1>2, <1>4, <1>7, <3>1
  <2>6. Definite(h * A1 - g, w * B1 + h * C1, w * D1 - g)
    <3>1. Definite((h - h) * A0 + h * A1 - g,
                   ((w - w) * B0 + w * B1) + ((h - h) * C0 + h * C1),
                   (w - w) * D0 + w * D1 - g)
      BY <1>6, <2>1, <2>2
    <3>2. QED
      BY <1>1, <1>2, <1>4, <1>7, <3>1
  <2>7. QED
    BY <2>3, <2>4, <2>5, <2>6
<1>10. /\ Abs(w * B0 - h * C0) <= bound /\ Abs(w * B0 - h * C1) <= bound
       /\ Abs(w * B1 - h * C0) <= bound /\ Abs(w * B1 - h * C1) <= bound
  <2>1. /\ Reciprocal(J(0, 0), l) /\ Reciprocal(J(0, h), l)
        /\ Reciprocal(J(w, 0), l) /\ Reciprocal(J(w, h), l)
    BY <1>5
  <2>2. QED
    BY <1>1, <1>6, <1>7, <2>1
<1>11. Passive(J(s, r), l)
  <2> HIDE DEF g
  <2>1. Definite((h - r) * A0 + r * A1 - g,
                 ((w - s) * B0 + s * B1) + ((h - r) * C0 + r * C1),
                 (w - s) * D0 + s * D1 - g)
    BY <1>1, <1>2, <1>4, <1>8, <1>9, DefiniteInside
  <2>2. s \in Int /\ r \in Int
    BY <1>4
  <2>3. QED
    BY <1>6, <2>1, <2>2 DEF g
<1>12. Reciprocal(J(s, r), l)
  <2> HIDE DEF bound
  <2>1. Abs(((w - s) * B0 + s * B1) - ((h - r) * C0 + r * C1)) <= bound
    BY <1>1, <1>2, <1>4, <1>8, <1>10, AbsInside
  <2>2. s \in Int /\ r \in Int
    BY <1>4
  <2>3. QED
    BY <1>6, <2>1, <2>2 DEF bound
<1>13. Entries(t, i, k) \cap t.bad = {}
  BY <1>5
<1>14. QED
  BY <1>11, <1>12, <1>13 DEF Cell, Physics, J

-----------------------------------------------------------------------------
(* The inductive invariant.                                                *)

\* Corner n of cell (i, k) passes.
Tested(t, l, i, k, n) ==
  Cell(t, l, i, k, (n \div 2) * Width(t, i), (n % 2) * Height(t, k)) = "OK"

LEMMA FourCorners ==
  ASSUME NEW t, NEW l, NEW i \in Int, NEW k \in Int, IsCell(t, i, k),
         \A n \in 0..3 : Tested(t, l, i, k, n)
  PROVE  CornersPass(t, l, i, k)
<1> DEFINE w == Width(t, i)
           h == Height(t, k)
<1>1. w \in Int /\ h \in Int
  BY Sides
<1>2. /\ Cell(t, l, i, k, (0 \div 2) * w, (0 % 2) * h) = "OK"
      /\ Cell(t, l, i, k, (1 \div 2) * w, (1 % 2) * h) = "OK"
      /\ Cell(t, l, i, k, (2 \div 2) * w, (2 % 2) * h) = "OK"
      /\ Cell(t, l, i, k, (3 \div 2) * w, (3 % 2) * h) = "OK"
  BY DEF Tested
<1> HIDE DEF w, h
<1>3. /\ (0 \div 2) * w = 0 /\ (0 % 2) * h = 0 /\ (1 \div 2) * w = 0 /\ (1 % 2) * h = h
      /\ (2 \div 2) * w = w /\ (2 % 2) * h = 0 /\ (3 \div 2) * w = w /\ (3 % 2) * h = h
  BY <1>1
<1>4. /\ Cell(t, l, i, k, 0, 0) = "OK" /\ Cell(t, l, i, k, 0, h) = "OK"
      /\ Cell(t, l, i, k, w, 0) = "OK" /\ Cell(t, l, i, k, w, h) = "OK"
  BY <1>2, <1>3
<1>5. \A s \in {0, w}, r \in {0, h} : Cell(t, l, i, k, s, r) = "OK"
  BY <1>4
<1>6. QED
  BY <1>5 DEF CornersPass, w, h

\* A preparation in progress: the handle is still empty, and all corners before
\* the one under test passed, in the order of the three loops.
Scanning ==
  pc = "scan" =>
    LET t == Tables[call.source]
    IN /\ handle = ZeroHandle
       /\ call.source \in Sources /\ call.limits \in Limits
       /\ Usable(t, call.limits)
       /\ at.i \in 0..(t.nd - 2) /\ at.k \in 0..(t.nq - 2)
       /\ \A i \in 0..(at.i - 1), k \in 0..(t.nq - 2) : CornersPass(t, call.limits, i, k)
       /\ \A k \in 0..(at.k - 1) : CornersPass(t, call.limits, at.i, k)
       /\ \A n \in 0..(at.corner - 1) : Tested(t, call.limits, at.i, at.k, n)

\* A lookup in progress: the map is prepared, the current in its domain.
LookingUp ==
  pc \in {"search d", "search q", "evaluate"} =>
    handle.prepared /\ call.current \in Currents /\ ~Outside(call.current)

\* A handle with limits carries those of a caller.
LimitsBorrowed == handle.prepared => handle.limits \in Limits

IInv ==
  TypeOK /\ HandleSound /\ LimitsBorrowed /\ Scanning /\ LookingUp /\ SearchFindsCell

\* What a prepared handle gives to the search.
LEMMA Borrowed ==
  ASSUME IInv, handle.prepared
  PROVE  /\ handle.source \in Sources /\ handle.limits \in Limits
         /\ IsTable(Map) /\ Map.nd \in 2..256 /\ Map.nq \in 2..256
         /\ handle.limits.floor \in Int /\ handle.limits.reciprocity \in Int
         /\ \A i \in 0..(Map.nd - 2), k \in 0..(Map.nq - 2) :
              IsCell(Map, i, k) /\ CornersPass(Map, handle.limits, i, k)
<1>1. /\ handle.source \in Sources /\ handle.limits \in Limits
      /\ Usable(Tables[handle.source], handle.limits)
  BY DEF IInv, HandleSound, LimitsBorrowed, Map
<1>2. /\ IsTable(Map)
      /\ Map.nd \in 2..256 /\ Map.nq \in 2..256
      /\ Map.count = Map.nd * Map.nq
      /\ Increasing(Map.id, Map.nd) /\ Increasing(Map.iq, Map.nq)
      /\ handle.limits.floor \in Int /\ handle.limits.reciprocity \in Int
  BY <1>1, UsableTable DEF Map
<1>3. \A i \in 0..(Map.nd - 2), k \in 0..(Map.nq - 2) : IsCell(Map, i, k)
  BY <1>2 DEF IsCell
<1>4. \A i \in 0..(Map.nd - 2), k \in 0..(Map.nq - 2) :
        CornersPass(Map, handle.limits, i, k)
  BY DEF IInv, HandleSound
<1>5. QED
  BY <1>1, <1>2, <1>3, <1>4

LEMMA InitInvariant == Init => IInv
<1> SUFFICES ASSUME Init PROVE IInv
  OBVIOUS
<1>1. TypeOK
  BY DEF Init, TypeOK, HandleTyped, CallTyped, PlaceTyped, AnswerTyped, InsideTables, ZeroHandle, ZeroJacobian, NoCall, Origin, Statuses, Points,
     Fractions, Frac, Zero, Searching
<1>2. HandleSound /\ LimitsBorrowed /\ Scanning /\ LookingUp /\ SearchFindsCell
  BY DEF Init, HandleSound, LimitsBorrowed, Scanning, LookingUp, SearchFindsCell,
     ZeroHandle, Searching
<1>3. QED
  BY <1>1, <1>2 DEF IInv

LEMMA StutterInvariant ==
  ASSUME IInv, UNCHANGED vars
  PROVE  IInv'
BY DEF IInv, vars, TypeOK, HandleTyped, CallTyped, PlaceTyped, AnswerTyped, InsideTables, HandleSound, LimitsBorrowed, Scanning, LookingUp,
   SearchFindsCell, Searching, Map, Axis, Knots, Value, Outside

LEMMA ZeroTyped == ASSUME handle' = ZeroHandle PROVE HandleTyped'
BY DEF HandleTyped, ZeroHandle

LEMMA SameTyped == ASSUME IInv, handle' = handle PROVE HandleTyped'
BY DEF HandleTyped, IInv, TypeOK

\* The calls that are refused at once.
LEMMA RefusedInvariant ==
  ASSUME IInv,
         \/ \E s \in Sources, l \in Limits : PrepareRefused(s, l)
         \/ \E c \in Currents : LookupRefused(c)
  PROVE  IInv'
<1>1. /\ pc = "idle" /\ pc' = "idle"
      /\ UNCHANGED <<call, at, low, high, probes, flux, jacobian, rate>>
      /\ handle' = handle \/ handle' = ZeroHandle
      /\ status' \in Statuses
  BY DEF PrepareRefused, LookupRefused, search, answer, outputs, Statuses, Refusal
<1>2. TypeOK'
  <2>1. HandleTyped'
    BY <1>1, ZeroTyped, SameTyped
  <2>2. CallTyped' /\ PlaceTyped' /\ AnswerTyped'
    BY <1>1 DEF IInv, TypeOK, CallTyped, PlaceTyped, Points, AnswerTyped
  <2>3. InsideTables'
    BY <1>1 DEF InsideTables, Searching
  <2>4. QED
    BY <2>1, <2>2, <2>3 DEF TypeOK
<1>3. HandleSound' /\ LimitsBorrowed'
  BY <1>1 DEF IInv, HandleSound, LimitsBorrowed, ZeroHandle, Map
<1>4. Scanning' /\ LookingUp' /\ SearchFindsCell'
  BY <1>1 DEF Scanning, LookingUp, SearchFindsCell, Searching
<1>5. QED
  BY <1>2, <1>3, <1>4 DEF IInv

LEMMA SameAnswer == ASSUME IInv, UNCHANGED outputs PROVE AnswerTyped'
BY DEF IInv, TypeOK, AnswerTyped, answer, outputs

\* A call that returns leaves no trace of itself.
LEMMA Returned ==
  ASSUME NEW result \in Statuses, Return(result)
  PROVE  CallTyped' /\ PlaceTyped' /\ InsideTables' /\ Scanning' /\ LookingUp' /\ SearchFindsCell'
<1>1. CallTyped'
  BY DEF Return, CallTyped, NoCall
<1>2. PlaceTyped'
  BY DEF Return, PlaceTyped, Points, Origin
<1>3. InsideTables' /\ Scanning' /\ LookingUp' /\ SearchFindsCell'
  BY DEF Return, InsideTables, Scanning, LookingUp, SearchFindsCell, Searching
<1>4. QED
  BY <1>1, <1>2, <1>3

LEMMA CellStatus ==
  ASSUME NEW t, NEW l, NEW i, NEW k, NEW s, NEW r
  PROVE  Cell(t, l, i, k, s, r) \in Statuses
BY DEF Cell, Physics, Statuses

LEMMA PrepareBeginInvariant ==
  ASSUME IInv, NEW s \in Sources, NEW l \in Limits, PrepareBegin(s, l)
  PROVE  IInv'
<1>1. /\ Usable(Tables[s], l) /\ handle' = ZeroHandle /\ pc' = "scan"
      /\ call' = [source |-> s, limits |-> l, current |-> ZeroCurrent]
      /\ at' = [i |-> 0, k |-> 0, corner |-> 0]
      /\ UNCHANGED <<low, high, probes, status>> /\ UNCHANGED outputs
  BY DEF PrepareBegin, NoCall, Origin, search
<1>2. Tables[s].nd \in 2..256 /\ Tables[s].nq \in 2..256
  BY <1>1, UsableTable
<1>3. HandleTyped' /\ AnswerTyped'
  BY <1>1, ZeroTyped, SameAnswer
<1>4. CallTyped'
  BY <1>1 DEF CallTyped
<1>5. PlaceTyped'
  <2>1. PlaceTyped
    BY DEF IInv, TypeOK
  <2>2. at' \in [i : Nat, k : Nat, corner : 0..3]
    BY <1>1
  <2>3. QED
    BY <1>1, <2>1, <2>2 DEF PlaceTyped, Points
<1>6. InsideTables'
  BY <1>1, <1>2 DEF InsideTables, Searching
<1>7. HandleSound' /\ LimitsBorrowed'
  BY <1>1 DEF HandleSound, LimitsBorrowed, ZeroHandle
<1>8. Scanning'
  BY <1>1, <1>2 DEF Scanning
<1>9. LookingUp' /\ SearchFindsCell'
  BY <1>1 DEF LookingUp, SearchFindsCell, Searching
<1>10. TypeOK'
  BY <1>3, <1>4, <1>5, <1>6 DEF TypeOK
<1>11. QED
  BY <1>7, <1>8, <1>9, <1>10 DEF IInv

LEMMA CornerFailsInvariant ==
  ASSUME IInv, CornerFails
  PROVE  IInv'
<1>1. Return(CornerStatus) /\ handle' = handle /\ UNCHANGED outputs /\ pc = "scan"
  BY DEF CornerFails
<1>2. CornerStatus \in Statuses
  BY CellStatus DEF CornerStatus
<1>3. HandleTyped' /\ AnswerTyped'
  BY <1>1, SameTyped, SameAnswer
<1>4. CallTyped' /\ PlaceTyped' /\ InsideTables' /\ Scanning' /\ LookingUp' /\ SearchFindsCell'
  BY <1>1, <1>2, Returned
<1>5. handle' = ZeroHandle
  BY <1>1 DEF IInv, Scanning
<1>6. HandleSound' /\ LimitsBorrowed'
  BY <1>5 DEF HandleSound, LimitsBorrowed, ZeroHandle
<1>7. TypeOK'
  BY <1>3, <1>4 DEF TypeOK
<1>8. QED
  BY <1>4, <1>6, <1>7 DEF IInv

\* The facts of a scan that the next two steps use.
LEMMA ScanFacts ==
  ASSUME IInv, pc = "scan", CornerStatus = "OK"
  PROVE  LET t == Tables[call.source]
         IN /\ call.source \in Sources /\ call.limits \in Limits /\ Usable(t, call.limits)
            /\ IsCell(t, at.i, at.k)
            /\ at \in [i : Nat, k : Nat, corner : 0..3]
            /\ Tested(t, call.limits, at.i, at.k, at.corner)
<1> DEFINE t == Tables[call.source]
<1>1. call.source \in Sources /\ call.limits \in Limits /\ Usable(t, call.limits)
  BY DEF IInv, Scanning
<1>2. at.i \in 0..(t.nd - 2) /\ at.k \in 0..(t.nq - 2)
  BY DEF IInv, Scanning
<1>3. IsCell(t, at.i, at.k)
  <2>1. /\ IsTable(t) /\ t.nd \in 2..256 /\ t.nq \in 2..256 /\ t.count = t.nd * t.nq
        /\ Increasing(t.id, t.nd) /\ Increasing(t.iq, t.nq)
    BY <1>1, UsableTable
  <2> HIDE DEF t
  <2>2. QED
    BY <1>2, <2>1 DEF IsCell
<1>4. at \in [i : Nat, k : Nat, corner : 0..3]
  BY DEF IInv, TypeOK, PlaceTyped
<1>5. Tested(t, call.limits, at.i, at.k, at.corner)
  BY DEF CornerStatus, Tested
<1>6. QED
  BY <1>1, <1>3, <1>4, <1>5

\* After the last corner of a cell, the whole cell passed.
LEMMA CellDone ==
  ASSUME IInv, pc = "scan", CornerStatus = "OK", at.corner = 3
  PROVE  CornersPass(Tables[call.source], call.limits, at.i, at.k)
<1> DEFINE t == Tables[call.source]
<1>1. IsCell(t, at.i, at.k) /\ Tested(t, call.limits, at.i, at.k, 3)
  BY ScanFacts
<1>2. at.i \in Int /\ at.k \in Int
  <2>1. at \in [i : Nat, k : Nat, corner : 0..3]
    BY ScanFacts
  <2>2. QED
    BY <2>1
<1>3. \A n \in 0..(3 - 1) : Tested(t, call.limits, at.i, at.k, n)
  BY DEF IInv, Scanning
<1> HIDE DEF t
<1>4. \A n \in 0..3 : Tested(t, call.limits, at.i, at.k, n)
  <2> SUFFICES ASSUME NEW n \in 0..3 PROVE Tested(t, call.limits, at.i, at.k, n)
    OBVIOUS
  <2>1. CASE n = 3
    BY <1>1, <2>1
  <2>2. CASE n # 3
    <3>1. n \in 0..(3 - 1)
      BY <2>2
    <3>2. QED
      BY <1>3, <3>1
  <2>3. QED
    BY <2>1, <2>2
<1>5. CornersPass(t, call.limits, at.i, at.k)
  BY <1>1, <1>2, <1>4, FourCorners
<1>6. QED
  BY <1>5 DEF t

LEMMA CornerPassesInvariant ==
  ASSUME IInv, CornerPasses
  PROVE  IInv'
<1> DEFINE t == Tables[call.source]
           l == call.limits
<1>1. /\ pc = "scan" /\ CornerStatus = "OK" /\ ~LastCorner /\ at' = NextCorner
      /\ UNCHANGED <<handle, pc, call, low, high, probes, status>> /\ UNCHANGED outputs
  BY DEF CornerPasses, search
<1>2. /\ call.source \in Sources /\ l \in Limits /\ Usable(t, l)
      /\ at \in [i : Nat, k : Nat, corner : 0..3]
      /\ Tested(t, l, at.i, at.k, at.corner)
  BY <1>1, ScanFacts
<1>3. /\ handle = ZeroHandle
      /\ at.i \in 0..(t.nd - 2) /\ at.k \in 0..(t.nq - 2)
      /\ \A i \in 0..(at.i - 1), k \in 0..(t.nq - 2) : CornersPass(t, l, i, k)
      /\ \A k \in 0..(at.k - 1) : CornersPass(t, l, at.i, k)
      /\ \A n \in 0..(at.corner - 1) : Tested(t, l, at.i, at.k, n)
  BY <1>1 DEF IInv, Scanning
<1>4. t.nd \in 2..256 /\ t.nq \in 2..256
  BY <1>2, UsableTable
<1>5. at.corner = 3 => CornersPass(t, l, at.i, at.k)
  BY <1>1, CellDone
<1>6. ~(at.corner = 3 /\ at.k + 2 = t.nq /\ at.i + 2 = t.nd)
  BY <1>1 DEF LastCorner
<1> DEFINE Progressed ==
             /\ at' \in [i : Nat, k : Nat, corner : 0..3]
             /\ at'.i \in 0..(t.nd - 2) /\ at'.k \in 0..(t.nq - 2)
             /\ \A i \in 0..(at'.i - 1), k \in 0..(t.nq - 2) : CornersPass(t, l, i, k)
             /\ \A k \in 0..(at'.k - 1) : CornersPass(t, l, at'.i, k)
             /\ \A n \in 0..(at'.corner - 1) : Tested(t, l, at'.i, at'.k, n)
<1>7. Progressed
  <2> HIDE DEF t, l
  <2>0. at.i \in Nat /\ at.k \in Nat /\ at.corner \in 0..3
    BY <1>2
  <2>1. CASE at.corner < 3
    <3>1. at' = [at EXCEPT !.corner = at.corner + 1]
      BY <1>1, <2>1 DEF NextCorner
    <3>2. at'.i = at.i /\ at'.k = at.k /\ at'.corner = at.corner + 1
      BY <1>2, <3>1
    <3>3. at' \in [i : Nat, k : Nat, corner : 0..3]
      BY <1>2, <2>0, <2>1, <3>1
    <3>4. \A n \in 0..(at'.corner - 1) : Tested(t, l, at'.i, at'.k, n)
      <4> SUFFICES ASSUME NEW n \in 0..at.corner PROVE Tested(t, l, at.i, at.k, n)
        BY <2>0, <3>2
      <4>1. n = at.corner \/ n \in 0..(at.corner - 1)
        BY <2>0
      <4>2. QED
        BY <1>2, <1>3, <4>1
    <3>5. QED
      BY <1>3, <3>2, <3>3, <3>4
  <2>2. CASE at.corner = 3 /\ at.k + 2 < t.nq
    <3>1. at' = [at EXCEPT !.k = at.k + 1, !.corner = 0]
      BY <1>1, <2>2 DEF NextCorner, t
    <3>2. at'.i = at.i /\ at'.k = at.k + 1 /\ at'.corner = 0
      BY <1>2, <3>1
    <3>3. at' \in [i : Nat, k : Nat, corner : 0..3]
      <4>1. at' = [i |-> at.i, k |-> at.k + 1, corner |-> 0]
        BY <1>2, <3>1
      <4>2. at.k + 1 \in Nat
        BY <2>0
      <4>3. QED
        BY <2>0, <4>1, <4>2
    <3>4. at'.i \in 0..(t.nd - 2) /\ at'.k \in 0..(t.nq - 2)
      BY <1>3, <1>4, <2>0, <2>2, <3>2
    <3>5. \A k \in 0..(at'.k - 1) : CornersPass(t, l, at'.i, k)
      <4> SUFFICES ASSUME NEW k \in 0..at.k PROVE CornersPass(t, l, at.i, k)
        BY <2>0, <3>2
      <4>1. k = at.k \/ k \in 0..(at.k - 1)
        BY <2>0
      <4>2. QED
        BY <1>3, <1>5, <2>2, <4>1
    <3>6. \A n \in 0..(at'.corner - 1) : Tested(t, l, at'.i, at'.k, n)
      BY <3>2
    <3>7. QED
      BY <1>3, <3>2, <3>3, <3>4, <3>5, <3>6
  <2>3. CASE at.corner = 3 /\ ~(at.k + 2 < t.nq)
    <3>1. at' = [i |-> at.i + 1, k |-> 0, corner |-> 0]
      BY <1>1, <2>3 DEF NextCorner, t
    <3>2. at'.i = at.i + 1 /\ at'.k = 0 /\ at'.corner = 0
      BY <3>1
    <3>3. at' \in [i : Nat, k : Nat, corner : 0..3]
      BY <2>0, <3>1
    <3>4. at.k = t.nq - 2 /\ at.i + 2 < t.nd
      <4>1. at.i \in 0..(t.nd - 2) /\ at.k \in 0..(t.nq - 2)
        BY <1>3
      <4>2. at.k + 2 = t.nq
        BY <1>4, <2>0, <2>3, <4>1
      <4>3. at.i + 2 # t.nd
        BY <1>6, <2>3, <4>2 DEF t
      <4>4. QED
        BY <1>4, <2>0, <4>1, <4>2, <4>3
    <3>5. at'.i \in 0..(t.nd - 2) /\ at'.k \in 0..(t.nq - 2)
      BY <1>4, <2>0, <3>2, <3>4
    <3>6. \A i \in 0..(at'.i - 1), k \in 0..(t.nq - 2) : CornersPass(t, l, i, k)
      <4> SUFFICES ASSUME NEW i \in 0..at.i, NEW k \in 0..(t.nq - 2)
                   PROVE  CornersPass(t, l, i, k)
        BY <2>0, <3>2
      <4>1. i = at.i \/ i \in 0..(at.i - 1)
        BY <2>0
      <4>2. CASE i \in 0..(at.i - 1)
        BY <1>3, <4>2
      <4>3. CASE i = at.i
        <5>1. k = at.k \/ k \in 0..(at.k - 1)
          BY <1>4, <2>0, <3>4
        <5>2. QED
          BY <1>3, <1>5, <2>3, <4>3, <5>1
      <4>4. QED
        BY <4>1, <4>2, <4>3
    <3>7. /\ \A k \in 0..(at'.k - 1) : CornersPass(t, l, at'.i, k)
          /\ \A n \in 0..(at'.corner - 1) : Tested(t, l, at'.i, at'.k, n)
      BY <3>2
    <3>8. QED
      BY <3>2, <3>3, <3>5, <3>6, <3>7
  <2>4. QED
    BY <2>0, <2>1, <2>2, <2>3
<1>8. HandleTyped' /\ AnswerTyped'
  BY <1>1, SameTyped, SameAnswer
<1>9. CallTyped' /\ PlaceTyped'
  BY <1>1, <1>7 DEF IInv, TypeOK, CallTyped, PlaceTyped
<1>10. InsideTables'
  <2>1. at'.i \in 0..(t.nd - 2) /\ at'.k \in 0..(t.nq - 2)
    BY <1>7
  <2>2. at'.i + 1 < t.nd /\ at'.k + 1 < t.nq
    <3> HIDE DEF t
    <3>1. QED
      BY <1>4, <2>1
  <2>3. QED
    BY <1>1, <2>2 DEF InsideTables, Searching
<1>11. HandleSound' /\ LimitsBorrowed'
  BY <1>1, <1>3 DEF HandleSound, LimitsBorrowed, ZeroHandle
<1>12. Scanning'
  BY <1>1, <1>2, <1>3, <1>7 DEF Scanning
<1>13. LookingUp' /\ SearchFindsCell'
  BY <1>1 DEF LookingUp, SearchFindsCell, Searching
<1>14. TypeOK'
  BY <1>8, <1>9, <1>10 DEF TypeOK
<1>15. QED
  BY <1>11, <1>12, <1>13, <1>14 DEF IInv

LEMMA PrepareDoneInvariant ==
  ASSUME IInv, PrepareDone
  PROVE  IInv'
<1> DEFINE t == Tables[call.source]
           l == call.limits
<1>1. /\ pc = "scan" /\ CornerStatus = "OK" /\ LastCorner
      /\ handle' = [source |-> call.source, limits |-> l, prepared |-> TRUE]
      /\ Return("OK") /\ UNCHANGED outputs
  BY DEF PrepareDone
<1>2. /\ call.source \in Sources /\ l \in Limits /\ Usable(t, l)
      /\ at \in [i : Nat, k : Nat, corner : 0..3]
  BY <1>1, ScanFacts
<1>3. /\ \A i \in 0..(at.i - 1), k \in 0..(t.nq - 2) : CornersPass(t, l, i, k)
      /\ \A k \in 0..(at.k - 1) : CornersPass(t, l, at.i, k)
  BY <1>1 DEF IInv, Scanning
<1>4. at.corner = 3 /\ at.k + 2 = t.nq /\ at.i + 2 = t.nd
  BY <1>1 DEF LastCorner
<1>5. t.nd \in 2..256 /\ t.nq \in 2..256
  BY <1>2, UsableTable
<1>6. CornersPass(t, l, at.i, at.k)
  BY <1>1, <1>4, CellDone
<1>7. \A i \in 0..(t.nd - 2), k \in 0..(t.nq - 2) : CornersPass(t, l, i, k)
  <2> HIDE DEF t, l
  <2> SUFFICES ASSUME NEW i \in 0..(t.nd - 2), NEW k \in 0..(t.nq - 2)
               PROVE  CornersPass(t, l, i, k)
    OBVIOUS
  <2>1. at.i \in Nat /\ at.k \in Nat
    BY <1>2
  <2>2. i = at.i \/ i \in 0..(at.i - 1)
    BY <1>4, <1>5, <2>1
  <2>3. k = at.k \/ k \in 0..(at.k - 1)
    BY <1>4, <1>5, <2>1
  <2>4. QED
    BY <1>3, <1>6, <2>2, <2>3
<1>8. handle'.source = call.source /\ handle'.limits = l /\ handle'.prepared = TRUE
  BY <1>1
<1>9. HandleSound'
  <2>1. Map' = t
    BY <1>8 DEF Map
  <2>2. QED
    BY <1>2, <1>7, <1>8, <2>1 DEF HandleSound
<1>10. LimitsBorrowed' /\ HandleTyped'
  BY <1>2, <1>8 DEF LimitsBorrowed, HandleTyped
<1>11. CallTyped' /\ PlaceTyped' /\ InsideTables' /\ Scanning' /\ LookingUp' /\ SearchFindsCell'
  <2>1. "OK" \in Statuses
    BY DEF Statuses
  <2>2. QED
    BY <1>1, <2>1, Returned
<1>12. AnswerTyped'
  BY <1>1, SameAnswer
<1>13. QED
  BY <1>9, <1>10, <1>11, <1>12 DEF IInv, TypeOK

LEMMA SameHandle ==
  ASSUME IInv, handle' = handle
  PROVE  HandleTyped' /\ HandleSound' /\ LimitsBorrowed' /\ Map' = Map
BY DEF IInv, TypeOK, HandleTyped, HandleSound, LimitsBorrowed, Map

\* The powers of two that bound the search.
LEMMA Powers ==
  /\ \A p \in 0..8 : Power[p + 1] \in Nat /\ Power[p + 1] > 0
  /\ \A p \in 0..7 : Power[(p + 1) + 1] = 2 * Power[p + 1]
  /\ Power[1] = 1 /\ Power[9] = 256
BY DEF Power

\* A comparison leaves less than half of what was between the ends.
LEMMA ProbeHalves ==
  ASSUME NEW n \in 2..256, NEW a \in Nat, NEW b \in Nat, b - a > 1, b < n,
         NEW p \in 0..8, (b - a - 1) * Power[p + 1] <= n - 2
  PROVE  LET mid == a + (b - a) \div 2
         IN /\ mid \in Nat /\ a < mid /\ mid < b
            /\ p + 1 \in 0..8
            /\ (mid - a - 1) * Power[(p + 1) + 1] <= n - 2
            /\ (b - mid - 1) * Power[(p + 1) + 1] <= n - 2
<1> DEFINE mid == a + (b - a) \div 2
           power == Power[p + 1]
<1>1. mid \in Nat /\ a < mid /\ mid < b
  OBVIOUS
<1>2. power \in Nat /\ power > 0
  BY Powers
<1>3. p # 8
  <2> SUFFICES ASSUME p = 8 PROVE FALSE
    OBVIOUS
  <2>1. power = 256
    BY Powers
  <2>2. (b - a - 1) * 256 <= n - 2
    BY <2>1
  <2>3. QED
    BY <2>2
<1>4. Power[(p + 1) + 1] = 2 * power
  BY <1>3, Powers
<1>5. 2 * (mid - a - 1) <= b - a - 1 /\ 2 * (b - mid - 1) <= b - a - 1
  OBVIOUS
<1> HIDE DEF mid, power
<1>6. /\ (b - a - 1 - 2 * (mid - a - 1)) * power >= 0
      /\ (b - a - 1 - 2 * (b - mid - 1)) * power >= 0
  <2>1. b - a - 1 - 2 * (mid - a - 1) \in Nat /\ b - a - 1 - 2 * (b - mid - 1) \in Nat
    BY <1>1, <1>5
  <2>2. QED
    BY <1>2, <2>1, ProductNatural
<1>7. (b - a - 1) * power <= n - 2
  BY DEF power
<1>8. /\ (mid - a - 1) * (2 * power) <= n - 2
      /\ (b - mid - 1) * (2 * power) <= n - 2
  BY <1>1, <1>2, <1>6, <1>7
<1>9. QED
  BY <1>1, <1>3, <1>4, <1>8 DEF mid

\* What the search looks through, and for what.
LEMMA SearchFacts ==
  ASSUME IInv, Searching
  PROVE  /\ handle.prepared
         /\ Knots \in 2..256 /\ Value \in Int
         /\ \A n \in 0..(Knots - 1) : Axis[n] \in Int
         /\ low \in Nat /\ high \in Nat /\ low < high /\ high < Knots
         /\ Axis[low] <= Value
         /\ Value < Axis[high] \/ (high = Knots - 1 /\ Value <= Axis[high])
         /\ probes \in 0..8
         /\ (high - low - 1) * Power[probes + 1] <= Knots - 2
         /\ call.current \in Currents
<1>1. handle.prepared /\ call.current \in Currents
  BY DEF IInv, LookingUp, Searching
<1>2. IsTable(Map) /\ Map.nd \in 2..256 /\ Map.nq \in 2..256
  BY <1>1, Borrowed
<1>3. Knots \in 2..256
  BY <1>2 DEF Knots
<1>4. Axis \in [0..(Knots - 1) -> Int]
  BY <1>2 DEF Axis, Knots, IsTable
<1>5. Value \in Int
  BY <1>1, CurrentsAssumption DEF Value, CurrentType
<1>6. low \in Nat /\ high \in Nat
  BY DEF IInv, TypeOK, PlaceTyped
<1>7. low < high /\ high < Knots
  BY DEF IInv, TypeOK, InsideTables
<1>8. /\ Axis[low] <= Value
      /\ Value < Axis[high] \/ (high = Knots - 1 /\ Value <= Axis[high])
      /\ probes \in 0..8
      /\ (high - low - 1) * Power[probes + 1] <= Knots - 2
  BY DEF IInv, SearchFindsCell
<1>9. QED
  BY <1>1, <1>3, <1>4, <1>5, <1>6, <1>7, <1>8

LEMMA LookupBeginInvariant ==
  ASSUME IInv, NEW c \in Currents, LookupBegin(c)
  PROVE  IInv'
<1>1. /\ pc' = "search d" /\ call' = [source |-> NoSource, limits |-> ZeroLimits, current |-> c]
      /\ low' = 0 /\ high' = Map.nd - 1 /\ probes' = 0
      /\ handle' = handle /\ at' = at /\ status' = status /\ UNCHANGED outputs
  BY DEF LookupBegin, NoCall
<1>2. handle.prepared /\ ~Outside(c)
  BY DEF LookupBegin, Refusal
<1>3. IsTable(Map) /\ Map.nd \in 2..256
  BY <1>2, Borrowed
<1>4. c.d \in Int
  BY CurrentsAssumption DEF CurrentType
<1>5. HandleTyped' /\ HandleSound' /\ LimitsBorrowed' /\ Map' = Map
  BY <1>1, SameHandle
<1>6. CallTyped' /\ AnswerTyped'
  BY <1>1, SameAnswer DEF CallTyped
<1> DEFINE n == Map.nd
<1>7. n \in 2..256 /\ high' = n - 1 /\ low' = 0 /\ probes' = 0
  BY <1>1, <1>3
<1>8. Axis' = Map.id /\ Knots' = n /\ Value' = c.d
  BY <1>1, <1>5 DEF Axis, Knots, Value
<1> HIDE DEF n
<1>9. PlaceTyped' /\ InsideTables'
  <2>1. low' \in Nat /\ high' \in Nat /\ low' < high' /\ high' < Knots'
    BY <1>7, <1>8
  <2>2. PlaceTyped
    BY DEF IInv, TypeOK
  <2>3. QED
    BY <1>1, <1>7, <2>1, <2>2 DEF InsideTables, PlaceTyped, Points
<1>10. Scanning'
  BY <1>1 DEF Scanning
<1>11. LookingUp'
  BY <1>1, <1>2, <1>5 DEF LookingUp, Outside
<1>12. SearchFindsCell'
  <2>1. Map.id[0] <= c.d /\ c.d <= Map.id[n - 1]
    <3>1. Map.id \in [0..(n - 1) -> Int]
      BY <1>3 DEF IsTable, n
    <3>2. Map.id[0] \in Int /\ Map.id[n - 1] \in Int
      BY <1>7, <3>1
    <3>3. ~(c.d < Map.id[0]) /\ ~(c.d > Map.id[n - 1])
      BY <1>2 DEF Outside, n
    <3>4. QED
      BY <1>4, <3>2, <3>3
  <2>2. ((n - 1) - 0 - 1) * Power[0 + 1] <= n - 2
    BY <1>7, Powers
  <2>3. /\ Axis'[low'] <= Value'
        /\ Value' < Axis'[high'] \/ (high' = Knots' - 1 /\ Value' <= Axis'[high'])
    BY <1>7, <1>8, <2>1
  <2>4. probes' \in 0..8 /\ (high' - low' - 1) * Power[probes' + 1] <= Knots' - 2
    BY <1>7, <1>8, <2>2
  <2>5. QED
    BY <1>1, <2>3, <2>4 DEF SearchFindsCell
<1>13. QED
  BY <1>5, <1>6, <1>9, <1>10, <1>11, <1>12 DEF IInv, TypeOK

LEMMA ProbeInvariant ==
  ASSUME IInv, Probe
  PROVE  IInv'
<1> DEFINE mid == low + (high - low) \div 2
<1>1. /\ Searching /\ high - low > 1
      /\ IF Value < Axis[mid] THEN high' = mid /\ low' = low ELSE low' = mid /\ high' = high
      /\ probes' = probes + 1
      /\ handle' = handle /\ pc' = pc /\ call' = call /\ at' = at /\ status' = status
      /\ UNCHANGED outputs
  BY DEF Probe
<1>2. /\ handle.prepared
      /\ Knots \in 2..256 /\ Value \in Int
      /\ \A n \in 0..(Knots - 1) : Axis[n] \in Int
      /\ low \in Nat /\ high \in Nat /\ low < high /\ high < Knots
      /\ Axis[low] <= Value
      /\ Value < Axis[high] \/ (high = Knots - 1 /\ Value <= Axis[high])
      /\ probes \in 0..8
      /\ (high - low - 1) * Power[probes + 1] <= Knots - 2
  BY <1>1, SearchFacts
<1>3. HandleTyped' /\ HandleSound' /\ LimitsBorrowed' /\ Map' = Map
  BY <1>1, SameHandle
<1>4. Axis' = Axis /\ Knots' = Knots /\ Value' = Value
  BY <1>1, <1>3 DEF Axis, Knots, Value
<1>5. /\ mid \in Nat /\ low < mid /\ mid < high
      /\ probes + 1 \in 0..8
      /\ (mid - low - 1) * Power[(probes + 1) + 1] <= Knots - 2
      /\ (high - mid - 1) * Power[(probes + 1) + 1] <= Knots - 2
  BY <1>1, <1>2, ProbeHalves
<1> HIDE DEF mid
<1>6. Axis[mid] \in Int
  <2>1. mid \in 0..(Knots - 1)
    BY <1>2, <1>5
  <2>2. QED
    BY <1>2, <2>1
<1>7. /\ low' \in Nat /\ high' \in Nat /\ low' < high' /\ high' < Knots
      /\ Axis[low'] <= Value
      /\ Value < Axis[high'] \/ (high' = Knots - 1 /\ Value <= Axis[high'])
      /\ (high' - low' - 1) * Power[(probes + 1) + 1] <= Knots - 2
  <2>1. CASE Value < Axis[mid]
    <3>1. high' = mid /\ low' = low
      BY <1>1, <2>1
    <3>2. low' \in Nat /\ high' \in Nat /\ low' < high' /\ high' < Knots
      BY <1>2, <1>5, <3>1
    <3>3. QED
      BY <1>2, <1>5, <2>1, <3>1, <3>2
  <2>2. CASE ~(Value < Axis[mid])
    <3>1. low' = mid /\ high' = high
      BY <1>1, <2>2
    <3>2. low' \in Nat /\ high' \in Nat /\ low' < high' /\ high' < Knots
      BY <1>2, <1>5, <3>1
    <3>3. Axis[mid] <= Value
      BY <1>2, <1>6, <2>2
    <3>4. QED
      BY <1>2, <1>5, <3>1, <3>2, <3>3
  <2>3. QED
    BY <2>1, <2>2
<1>8. CallTyped' /\ AnswerTyped'
  BY <1>1, SameAnswer DEF IInv, TypeOK, CallTyped
<1>9. PlaceTyped'
  BY <1>1, <1>5, <1>7 DEF IInv, TypeOK, PlaceTyped
<1>10. InsideTables'
  BY <1>1, <1>4, <1>7 DEF InsideTables, Searching
<1>11. Scanning'
  BY <1>1 DEF Scanning, Searching
<1>12. LookingUp'
  BY <1>1, <1>3 DEF IInv, LookingUp, Outside
<1>13. SearchFindsCell'
  <2>1. /\ pc = "search q" => Holds(Map.id, Map.nd, at.i, call.current.d)
        /\ pc # "evaluate"
    BY <1>1 DEF IInv, SearchFindsCell, Searching
  <2>2. /\ Axis'[low'] <= Value'
        /\ Value' < Axis'[high'] \/ (high' = Knots' - 1 /\ Value' <= Axis'[high'])
        /\ probes' \in 0..8
        /\ (high' - low' - 1) * Power[probes' + 1] <= Knots' - 2
    BY <1>1, <1>4, <1>5, <1>7
  <2>3. QED
    BY <1>1, <1>3, <2>1, <2>2 DEF SearchFindsCell
<1>14. QED
  BY <1>3, <1>8, <1>9, <1>10, <1>11, <1>12, <1>13 DEF IInv, TypeOK

\* Where a search that ends has come to.
LEMMA Found ==
  ASSUME IInv, Searching, high - low <= 1
  PROVE  low \in Nat /\ Holds(Axis, Knots, low, Value)
<1>1. /\ Knots \in 2..256 /\ low \in Nat /\ high \in Nat /\ low < high /\ high < Knots
      /\ Axis[low] <= Value
      /\ Value < Axis[high] \/ (high = Knots - 1 /\ Value <= Axis[high])
  BY SearchFacts
<1>2. high = low + 1 /\ low \in 0..(Knots - 2)
  BY <1>1
<1>3. high = Knots - 1 => low = Knots - 2
  BY <1>1, <1>2
<1>4. QED
  BY <1>1, <1>2, <1>3 DEF Holds

LEMMA FoundRowInvariant ==
  ASSUME IInv, FoundRow
  PROVE  IInv'
<1>1. /\ pc = "search d" /\ high - low <= 1 /\ pc' = "search q"
      /\ at' = [i |-> low, k |-> 0, corner |-> 0]
      /\ low' = 0 /\ high' = Map.nq - 1 /\ probes' = 0
      /\ handle' = handle /\ call' = call /\ status' = status /\ UNCHANGED outputs
  BY DEF FoundRow
<1>2. handle.prepared /\ call.current \in Currents /\ ~Outside(call.current)
  BY <1>1 DEF IInv, LookingUp
<1>3. low \in Nat /\ Holds(Map.id, Map.nd, low, call.current.d)
  BY <1>1, Found DEF Searching, Axis, Knots, Value
<1>4. call.current.q \in Int
  BY <1>2, CurrentsAssumption DEF CurrentType
<1>5. HandleTyped' /\ HandleSound' /\ LimitsBorrowed' /\ Map' = Map
  BY <1>1, SameHandle
<1>6. CallTyped' /\ AnswerTyped'
  BY <1>1, SameAnswer DEF IInv, TypeOK, CallTyped
<1> DEFINE n == Map.nq
<1>7. n \in 2..256 /\ high' = n - 1 /\ low' = 0 /\ probes' = 0
  BY <1>1, <1>2, Borrowed
<1>8. Axis' = Map.iq /\ Knots' = n /\ Value' = call.current.q
  BY <1>1, <1>5 DEF Axis, Knots, Value
<1> HIDE DEF n
<1>9. Map.iq \in [0..(n - 1) -> Int]
  <2>1. IsTable(Map)
    BY <1>2, Borrowed
  <2>2. QED
    BY <2>1 DEF IsTable, n
<1>10. ~(call.current.q < Map.iq[0]) /\ ~(call.current.q > Map.iq[n - 1])
  BY <1>2 DEF Outside, n
<1>11. PlaceTyped' /\ InsideTables'
  <2>1. low' \in Nat /\ high' \in Nat /\ low' < high' /\ high' < Knots'
    BY <1>7, <1>8
  <2>2. at' \in [i : Nat, k : Nat, corner : 0..3]
    <3>1. at' = [i |-> low, k |-> 0, corner |-> 0]
      BY <1>1
    <3>2. low \in Nat
      BY <1>3
    <3>3. QED
      BY <3>1, <3>2
  <2>3. PlaceTyped
    BY DEF IInv, TypeOK
  <2>4. QED
    BY <1>1, <1>7, <2>1, <2>2, <2>3 DEF InsideTables, PlaceTyped, Points
<1>12. Scanning'
  BY <1>1 DEF Scanning
<1>13. LookingUp'
  BY <1>1, <1>2, <1>5 DEF LookingUp, Outside
<1>14. SearchFindsCell'
  <2>1. Map.iq[0] <= call.current.q /\ call.current.q <= Map.iq[n - 1]
    <3>1. Map.iq[0] \in Int /\ Map.iq[n - 1] \in Int
      <4>1. n \in 2..256
        BY <1>7
      <4>2. 0 \in 0..(n - 1) /\ n - 1 \in 0..(n - 1)
        BY <4>1
      <4>3. QED
        BY <1>9, <4>2
    <3>2. QED
      BY <1>4, <1>10, <3>1
  <2>2. ((n - 1) - 0 - 1) * Power[0 + 1] <= n - 2
    BY <1>7, Powers
  <2>3. /\ Axis'[low'] <= Value'
        /\ Value' < Axis'[high'] \/ (high' = Knots' - 1 /\ Value' <= Axis'[high'])
    BY <1>7, <1>8, <2>1
  <2>4. probes' \in 0..8 /\ (high' - low' - 1) * Power[probes' + 1] <= Knots' - 2
    BY <1>7, <1>8, <2>2
  <2>5. Holds(Map.id, Map.nd, at'.i, call.current.d)
    BY <1>1, <1>3
  <2>6. QED
    BY <1>1, <1>5, <2>3, <2>4, <2>5 DEF SearchFindsCell
<1>15. QED
  BY <1>5, <1>6, <1>11, <1>12, <1>13, <1>14 DEF IInv, TypeOK

LEMMA FoundColumnInvariant ==
  ASSUME IInv, FoundColumn
  PROVE  IInv'
<1>1. /\ pc = "search q" /\ high - low <= 1 /\ pc' = "evaluate"
      /\ at' = [at EXCEPT !.k = low]
      /\ low' = low /\ high' = high /\ probes' = probes
      /\ handle' = handle /\ call' = call /\ status' = status /\ UNCHANGED outputs
  BY DEF FoundColumn, search
<1>2. low \in Nat /\ Holds(Map.iq, Map.nq, low, call.current.q)
  BY <1>1, Found DEF Searching, Axis, Knots, Value
<1>3. Holds(Map.id, Map.nd, at.i, call.current.d)
  BY <1>1 DEF IInv, SearchFindsCell
<1>4. at \in [i : Nat, k : Nat, corner : 0..3] /\ PlaceTyped
  BY DEF IInv, TypeOK, PlaceTyped
<1>5. at' \in [i : Nat, k : Nat, corner : 0..3] /\ at'.i = at.i /\ at'.k = low
  BY <1>1, <1>2, <1>4
<1>6. HandleTyped' /\ HandleSound' /\ LimitsBorrowed' /\ Map' = Map
  BY <1>1, SameHandle
<1>7. CallTyped' /\ AnswerTyped'
  BY <1>1, SameAnswer DEF IInv, TypeOK, CallTyped
<1>8. PlaceTyped' /\ InsideTables'
  BY <1>1, <1>4, <1>5 DEF PlaceTyped, Points, InsideTables, Searching
<1>9. Scanning'
  BY <1>1 DEF Scanning
<1>10. LookingUp'
  BY <1>1, <1>6 DEF IInv, LookingUp, Outside
<1>11. SearchFindsCell'
  BY <1>1, <1>2, <1>3, <1>5, <1>6 DEF SearchFindsCell, Searching
<1>12. QED
  BY <1>6, <1>7, <1>8, <1>9, <1>10, <1>11 DEF IInv, TypeOK

\* Where a current lies in the cell that was found.
LEMMA InsideCell ==
  ASSUME IInv, pc = "evaluate"
  PROVE  /\ handle.prepared
         /\ at.i \in 0..(Map.nd - 2) /\ at.k \in 0..(Map.nq - 2)
         /\ IsCell(Map, at.i, at.k)
         /\ CornersPass(Map, handle.limits, at.i, at.k)
         /\ InD \in 0..Width(Map, at.i) /\ InQ \in 0..Height(Map, at.k)
<1>1. handle.prepared /\ call.current \in Currents
  BY DEF IInv, LookingUp
<1>2. /\ Holds(Map.id, Map.nd, at.i, call.current.d)
      /\ Holds(Map.iq, Map.nq, at.k, call.current.q)
  BY DEF IInv, SearchFindsCell
<1>3. at.i \in 0..(Map.nd - 2) /\ at.k \in 0..(Map.nq - 2)
  BY <1>2 DEF Holds
<1>4. IsCell(Map, at.i, at.k) /\ CornersPass(Map, handle.limits, at.i, at.k)
  BY <1>1, <1>3, Borrowed
<1>5. call.current.d \in Int /\ call.current.q \in Int
  BY <1>1, CurrentsAssumption DEF CurrentType
<1> DEFINE i == at.i
           k == at.k
<1>6. i \in Int /\ k \in Int
  BY <1>3
<1>7. /\ Map.id[i] \in Int /\ Map.id[i + 1] \in Int
      /\ Map.iq[k] \in Int /\ Map.iq[k + 1] \in Int
  BY <1>4, <1>6, Sides
<1>8. /\ Map.id[i] <= call.current.d /\ call.current.d <= Map.id[i + 1]
      /\ Map.iq[k] <= call.current.q /\ call.current.q <= Map.iq[k + 1]
  BY <1>2, <1>5, <1>7 DEF Holds
<1>9. InD \in 0..Width(Map, at.i) /\ InQ \in 0..Height(Map, at.k)
  BY <1>5, <1>7, <1>8 DEF InD, InQ, Width, Height
<1>10. QED
  BY <1>1, <1>3, <1>4, <1>9

LEMMA EvaluateInvariant ==
  ASSUME IInv, Evaluate
  PROVE  IInv'
<1>1. /\ pc = "evaluate" /\ Return(Verdict) /\ handle' = handle
      /\ \/ /\ flux' = Answer /\ rate' = rate
            /\ jacobian' = JacobianAt(Map, at.i, at.k, InD, InQ)
         \/ UNCHANGED outputs
  BY DEF Evaluate, outputs
<1>2. Verdict \in Statuses
  BY CellStatus DEF Verdict
<1>3. CallTyped' /\ PlaceTyped' /\ InsideTables' /\ Scanning' /\ LookingUp' /\ SearchFindsCell'
  BY <1>1, <1>2, Returned
<1>4. HandleTyped' /\ HandleSound' /\ LimitsBorrowed'
  BY <1>1, SameHandle
<1>5. AnswerTyped'
  <2>1. CASE UNCHANGED outputs
    BY <2>1, SameAnswer
  <2>2. CASE flux' = Answer /\ rate' = rate /\ jacobian' = JacobianAt(Map, at.i, at.k, InD, InQ)
    <3>1. /\ IsCell(Map, at.i, at.k)
          /\ at.i \in 0..(Map.nd - 2) /\ at.k \in 0..(Map.nq - 2)
          /\ InD \in 0..Width(Map, at.i) /\ InQ \in 0..Height(Map, at.k)
      BY <1>1, InsideCell
    <3>2. at.i \in Int /\ at.k \in Int /\ InD \in Int /\ InQ \in Int
      BY <3>1
    <3>3. /\ JacobianAt(Map, at.i, at.k, InD, InQ)
               \in [k : Int, dd : Int, dq : Int, qd : Int, qq : Int]
          /\ FluxAt(Map, Map.psid, at.i, at.k, InD, InQ) \in Int
          /\ FluxAt(Map, Map.psiq, at.i, at.k, InD, InQ) \in Int
          /\ Width(Map, at.i) * Height(Map, at.k) \in Int
      BY <3>1, <3>2, JacobianTyped
    <3>4. Answer.d \in Fractions /\ Answer.q \in Fractions
      BY <3>3 DEF Answer, Frac, Fractions
    <3>5. QED
      BY <2>2, <3>3, <3>4 DEF AnswerTyped, IInv, TypeOK
  <2>3. QED
    BY <1>1, <2>1, <2>2
<1>6. QED
  BY <1>3, <1>4, <1>5 DEF IInv, TypeOK

\* A solve writes rates only, and they are fractions.
LEMMA SolveInvariant ==
  ASSUME IInv, NEW y \in FluxRates, Solve(y)
  PROVE  IInv'
<1>1. /\ pc = "idle" /\ pc' = "idle" /\ handle' = handle
      /\ UNCHANGED <<call, at, low, high, probes, flux, jacobian>>
      /\ rate' = rate \/ rate' = Solution(jacobian, y)
      /\ status' \in Statuses
  BY DEF Solve, search, answer, Statuses, SolveVerdict
<1>2. HandleTyped' /\ HandleSound' /\ LimitsBorrowed'
  BY <1>1, SameHandle
<1>3. CallTyped' /\ PlaceTyped'
  BY <1>1 DEF IInv, TypeOK, CallTyped, PlaceTyped, Points
<1>4. AnswerTyped'
  <2>1. /\ flux.d \in Fractions /\ flux.q \in Fractions
        /\ rate.d \in Fractions /\ rate.q \in Fractions
        /\ jacobian \in [k : Int, dd : Int, dq : Int, qd : Int, qq : Int]
    BY DEF IInv, TypeOK, AnswerTyped
  <2>2. y.d \in Int /\ y.q \in Int
    BY FluxRatesAssumption DEF FluxRateType
  <2>3. Determinant(jacobian) \in Int
    BY <2>1 DEF Determinant
  <2>4. Solution(jacobian, y).d \in Fractions /\ Solution(jacobian, y).q \in Fractions
    BY <2>1, <2>2, <2>3 DEF Solution, Frac, Fractions
  <2>5. QED
    BY <1>1, <2>1, <2>4 DEF AnswerTyped
<1>5. InsideTables' /\ Scanning' /\ LookingUp' /\ SearchFindsCell'
  BY <1>1 DEF InsideTables, Scanning, LookingUp, SearchFindsCell, Searching
<1>6. QED
  BY <1>2, <1>3, <1>4, <1>5 DEF IInv, TypeOK

LEMMA NextInvariant == IInv /\ [Next]_vars => IInv'
<1> SUFFICES ASSUME IInv, [Next]_vars PROVE IInv'
  OBVIOUS
<1>1. CASE UNCHANGED vars
  BY <1>1, StutterInvariant
<1>2. CASE \E s \in Sources, l \in Limits : PrepareRefused(s, l) \/ PrepareBegin(s, l)
  BY <1>2, RefusedInvariant, PrepareBeginInvariant
<1>3. CASE \E c \in Currents : LookupRefused(c) \/ LookupBegin(c)
  BY <1>3, RefusedInvariant, LookupBeginInvariant
<1>4. CASE Proceed
  BY <1>4, CornerFailsInvariant, CornerPassesInvariant, PrepareDoneInvariant,
     ProbeInvariant, FoundRowInvariant, FoundColumnInvariant, EvaluateInvariant DEF Proceed
<1>5. CASE \E y \in FluxRates : Solve(y)
  BY <1>5, SolveInvariant
<1>6. QED
  BY <1>1, <1>2, <1>3, <1>4, <1>5 DEF Next

LEMMA Invariance == Spec => []IInv
BY InitInvariant, NextInvariant, PTL DEF Spec

-----------------------------------------------------------------------------
(* What is answered.                                                       *)

LEMMA LeastOfFour ==
  ASSUME NEW a \in Int, NEW b \in Int, NEW c \in Int, NEW d \in Int
  PROVE  LET least == Least({a, b, c, d})
         IN least \in Int /\ least <= a /\ least <= b /\ least <= c /\ least <= d
<1> DEFINE S == {a, b, c, d}
<1>1. \E x \in S : \A y \in S : x <= y
  <2>1. \E x \in {a, b} : x <= a /\ x <= b
    OBVIOUS
  <2>2. PICK x \in {a, b} : x <= a /\ x <= b
    BY <2>1
  <2>3. \E z \in {x, c} : z <= x /\ z <= c
    OBVIOUS
  <2>4. PICK z \in {x, c} : z <= x /\ z <= c
    BY <2>3
  <2>5. \E v \in {z, d} : v <= z /\ v <= d
    OBVIOUS
  <2>6. PICK v \in {z, d} : v <= z /\ v <= d
    BY <2>5
  <2>7. v \in S /\ v <= a /\ v <= b /\ v <= c /\ v <= d
    BY <2>2, <2>4, <2>6
  <2>8. QED
    BY <2>7
<1>2. Least(S) \in S /\ \A y \in S : Least(S) <= y
  BY <1>1 DEF Least
<1>3. QED
  BY <1>2

LEMMA LargestOfFour ==
  ASSUME NEW a \in Int, NEW b \in Int, NEW c \in Int, NEW d \in Int
  PROVE  LET largest == Largest({a, b, c, d})
         IN largest \in Int /\ largest >= a /\ largest >= b /\ largest >= c /\ largest >= d
<1> DEFINE S == {a, b, c, d}
<1>1. \E x \in S : \A y \in S : x >= y
  <2>1. \E x \in {a, b} : x >= a /\ x >= b
    OBVIOUS
  <2>2. PICK x \in {a, b} : x >= a /\ x >= b
    BY <2>1
  <2>3. \E z \in {x, c} : z >= x /\ z >= c
    OBVIOUS
  <2>4. PICK z \in {x, c} : z >= x /\ z >= c
    BY <2>3
  <2>5. \E v \in {z, d} : v >= z /\ v >= d
    OBVIOUS
  <2>6. PICK v \in {z, d} : v >= z /\ v >= d
    BY <2>5
  <2>7. v \in S /\ v >= a /\ v >= b /\ v >= c /\ v >= d
    BY <2>2, <2>4, <2>6
  <2>8. QED
    BY <2>7
<1>2. Largest(S) \in S /\ \A y \in S : Largest(S) >= y
  BY <1>1 DEF Largest
<1>3. QED
  BY <1>2

\* A weighted mean is between the bounds of what it is the mean of.
LEMMA BilinearBetween ==
  ASSUME NEW w \in Int, NEW h \in Int, NEW s \in 0..w, NEW r \in 0..h,
         NEW f00 \in Int, NEW f01 \in Int, NEW f10 \in Int, NEW f11 \in Int,
         NEW lo \in Int, lo <= f00, lo <= f01, lo <= f10, lo <= f11,
         NEW hi \in Int, hi >= f00, hi >= f01, hi >= f10, hi >= f11
  PROVE  LET n == (w - s) * ((h - r) * f00 + r * f01) + s * ((h - r) * f10 + r * f11)
         IN n \in Int /\ n >= lo * (w * h) /\ n <= hi * (w * h)
<1> DEFINE n == (w - s) * ((h - r) * f00 + r * f01) + s * ((h - r) * f10 + r * f11)
           a == (w - s) * (h - r)
           b == (w - s) * r
           c == s * (h - r)
           d == s * r
<1>1. /\ a \in Int /\ b \in Int /\ c \in Int /\ d \in Int
      /\ a >= 0 /\ b >= 0 /\ c >= 0 /\ d >= 0
  BY ProductNatural
<1>2. n - lo * (w * h) = a * (f00 - lo) + b * (f01 - lo) + c * (f10 - lo) + d * (f11 - lo)
  OBVIOUS
<1>3. hi * (w * h) - n = a * (hi - f00) + b * (hi - f01) + c * (hi - f10) + d * (hi - f11)
  OBVIOUS
<1>4. n \in Int /\ lo * (w * h) \in Int /\ hi * (w * h) \in Int
  OBVIOUS
<1> HIDE DEF n, a, b, c, d
<1>5. /\ a * (f00 - lo) >= 0 /\ b * (f01 - lo) >= 0
      /\ c * (f10 - lo) >= 0 /\ d * (f11 - lo) >= 0
  BY <1>1, ProductNatural
<1>6. /\ a * (hi - f00) >= 0 /\ b * (hi - f01) >= 0
      /\ c * (hi - f10) >= 0 /\ d * (hi - f11) >= 0
  BY <1>1, ProductNatural
<1>7. n >= lo * (w * h)
  BY <1>1, <1>2, <1>4, <1>5
<1>8. n <= hi * (w * h)
  BY <1>1, <1>3, <1>4, <1>6
<1>9. QED
  BY <1>4, <1>7, <1>8 DEF n

\* The flux of one table at the current that is evaluated.
LEMMA FluxInterpolates ==
  ASSUME IInv, pc = "evaluate", NEW psi, psi \in {Map.psid, Map.psiq},
         NEW answered,
         answered = Frac(FluxAt(Map, psi, at.i, at.k, InD, InQ),
                         Width(Map, at.i) * Height(Map, at.k))
  PROVE  Interpolates(psi, answered)
<1> DEFINE o == Offset(Map, at.i, at.k)
           nq == Map.nq
           f00 == psi[o]
           f01 == psi[o + 1]
           f10 == psi[o + nq]
           f11 == psi[o + nq + 1]
           w == Width(Map, at.i)
           h == Height(Map, at.k)
           n == (w - InD) * ((h - InQ) * f00 + InQ * f01)
                  + InD * ((h - InQ) * f10 + InQ * f11)
           values == {psi[e] : e \in Entries(Map, at.i, at.k)}
<1>1. /\ at.i \in 0..(Map.nd - 2) /\ at.k \in 0..(Map.nq - 2)
      /\ IsCell(Map, at.i, at.k)
      /\ InD \in 0..w /\ InQ \in 0..h
  BY InsideCell
<1>2. at.i \in Int /\ at.k \in Int /\ nq \in Int
  BY <1>1 DEF IsCell
<1>3. w \in Int /\ w > 0 /\ h \in Int /\ h > 0
  BY <1>1, <1>2, Sides
<1>4. f00 \in Int /\ f01 \in Int /\ f10 \in Int /\ f11 \in Int
  BY <1>1, <1>2, EntriesTyped
<1>5. values = {f00, f01, f10, f11}
  <2> HIDE DEF o
  <2>1. Entries(Map, at.i, at.k) = {o, o + 1, o + nq, o + nq + 1}
    BY DEF Entries, o
  <2>2. QED
    BY <2>1
<1>6. answered.num = n /\ answered.den = w * h
  BY DEF Frac, FluxAt
<1>7. InD \in Int /\ InQ \in Int
  BY <1>1, <1>3
<1> DEFINE row == IF InD = 0 THEN at.i ELSE at.i + 1
           column == IF InQ = 0 THEN at.k ELSE at.k + 1
<1>8. o = at.i * nq + at.k
  BY DEF Offset
<1> HIDE DEF o, nq, f00, f01, f10, f11, w, h, values
<1>9. n \in Int /\ n >= Least(values) * (w * h) /\ n <= Largest(values) * (w * h)
  <2> DEFINE lo == Least(values)
             hi == Largest(values)
  <2>1. /\ lo \in Int /\ lo <= f00 /\ lo <= f01 /\ lo <= f10 /\ lo <= f11
        /\ hi \in Int /\ hi >= f00 /\ hi >= f01 /\ hi >= f10 /\ hi >= f11
    BY <1>4, <1>5, LeastOfFour, LargestOfFour
  <2> HIDE DEF lo, hi
  <2>2. n \in Int /\ n >= lo * (w * h) /\ n <= hi * (w * h)
    BY <1>1, <1>3, <1>4, <2>1, BilinearBetween
  <2>3. QED
    BY <2>2 DEF lo, hi
<1>10. ASSUME InD \in {0, w}, InQ \in {0, h}
       PROVE  n = psi[row * nq + column] * (w * h)
  <2>1. CASE InD = 0 /\ InQ = 0
    <3>1. row * nq + column = o
      BY <1>8, <2>1
    <3>2. n = f00 * (w * h)
      BY <1>3, <1>4, <2>1
    <3>3. QED
      BY <3>1, <3>2 DEF f00
  <2>2. CASE InD = 0 /\ InQ = h
    <3>1. row * nq + column = o + 1
      BY <1>2, <1>3, <1>8, <2>2
    <3>2. n = f01 * (w * h)
      BY <1>3, <1>4, <2>2
    <3>3. QED
      BY <3>1, <3>2 DEF f01
  <2>3. CASE InD = w /\ InQ = 0
    <3>1. row * nq + column = o + nq
      BY <1>2, <1>3, <1>8, <2>3
    <3>2. n = f10 * (w * h)
      BY <1>3, <1>4, <2>3
    <3>3. QED
      BY <3>1, <3>2 DEF f10
  <2>4. CASE InD = w /\ InQ = h
    <3>1. row * nq + column = o + nq + 1
      BY <1>2, <1>3, <1>8, <2>4
    <3>2. n = f11 * (w * h)
      BY <1>3, <1>4, <2>4
    <3>3. QED
      BY <3>1, <3>2 DEF f11
  <2>5. QED
    BY <1>10, <2>1, <2>2, <2>3, <2>4
<1>11. ~Below(answered, Least(values)) /\ ~Above(answered, Largest(values))
  <2> DEFINE lo == Least(values) * (w * h)
             hi == Largest(values) * (w * h)
  <2>1. Least(values) \in Int /\ Largest(values) \in Int
    BY <1>4, <1>5, LeastOfFour, LargestOfFour
  <2>2. lo \in Int /\ hi \in Int
    BY <1>3, <2>1
  <2>3. QED
    BY <1>6, <1>9, <2>2 DEF Below, Above
<1>12. ASSUME InD \in {0, w}, InQ \in {0, h}
       PROVE  /\ ~Below(answered, psi[row * nq + column])
              /\ ~Above(answered, psi[row * nq + column])
  <2>1. n = psi[row * nq + column] * (w * h)
    BY <1>10, <1>12
  <2>2. QED
    BY <1>6, <1>9, <2>1 DEF Below, Above
<1>13. QED
  BY <1>11, <1>12 DEF Interpolates, values, w, h, nq

-----------------------------------------------------------------------------
(* Theorems.                                                               *)

\* The state has the types of the code, and no access leaves a table, for tables
\* of every shape.
THEOREM TypeCorrect == Spec => []TypeOK
<1>1. IInv => TypeOK
  BY DEF IInv
<1>2. QED
  BY <1>1, Invariance, PTL

\* A prepared handle borrows a table all of whose corners passed; otherwise it is
\* empty.
THEOREM PreparedIsTested == Spec => []HandleSound
<1>1. IInv => HandleSound
  BY DEF IInv
<1>2. QED
  BY <1>1, Invariance, PTL

\* The search finds the documented cell in eight comparisons for axes of up to 256
\* knots.
THEOREM SearchIsBounded == Spec => []SearchFindsCell
<1>1. IInv => SearchFindsCell
  BY DEF IInv
<1>2. QED
  BY <1>1, Invariance, PTL

\* Cramer's rule, for a matrix times k: the products of the matrix with what is
\* computed are the right-hand sides, over the determinant.
LEMMA SolutionSolves ==
  ASSUME NEW j \in [k : Int, dd : Int, dq : Int, qd : Int, qq : Int],
         NEW y, y.d \in Int, y.q \in Int, Determinant(j) # 0
  PROVE  Solves(Solution(j, y), j, y)
<1> DEFINE k == j.k
           a == j.dd
           b == j.dq
           c == j.qd
           d == j.qq
           e == y.d
           f == y.q
           r == Solution(j, y)
<1>1. /\ k \in Int /\ a \in Int /\ b \in Int /\ c \in Int /\ d \in Int
      /\ e \in Int /\ f \in Int
  OBVIOUS
<1>2. /\ r.d.num = k * (d * e - b * f) /\ r.d.den = a * d - b * c
      /\ r.q.num = k * (a * f - c * e) /\ r.q.den = a * d - b * c
      /\ a * d - b * c # 0
  BY DEF Solution, Determinant, Frac
<1> HIDE DEF k, a, b, c, d, e, f, r
<1>3. /\ a * (k * (d * e - b * f)) + b * (k * (a * f - c * e)) = (k * e) * (a * d - b * c)
      /\ c * (k * (d * e - b * f)) + d * (k * (a * f - c * e)) = (k * f) * (a * d - b * c)
  BY <1>1
<1>4. /\ r.d.den # 0 /\ r.q.den = r.d.den
      /\ a * r.d.num + b * r.q.num = (k * e) * r.d.den
      /\ c * r.d.num + d * r.q.num = (k * f) * r.q.den
  BY <1>2, <1>3
<1>5. QED
  BY <1>4 DEF Solves, k, a, b, c, d, e, f, r

\* What passed the tests in a prepared map is not refused by a solve.
LEMMA AnswerSolvable ==
  ASSUME IInv, handle.prepared, handle' = handle,
         ~Singular(jacobian', handle.limits)
  PROVE  Solvable'
<1>1. RcondValid(handle.limits)
  BY DEF IInv, HandleSound, Usable, LimitsValid
<1>2. ASSUME NEW y \in FluxRates, y.rep = "FINITE"
      PROVE  SolveVerdict(y)' = "OK"
  BY <1>1, <1>2 DEF SolveVerdict
<1>3. QED
  BY <1>2 DEF Solvable

\* Inside a prepared map no lookup is refused for reciprocity or for incremental
\* response, whatever the table: the corners vouch for their cell.  And no solve
\* for a finite right-hand side is refused after a lookup that answered.
THEOREM CornersSuffice == Spec => InteriorHolds
<1> DEFINE Good ==
      pc = "evaluate" =>
        /\ status' \in {"OK", "ILL_CONDITIONED"}
        /\ status' = "OK" => Solvable'
<1>1. IInv /\ [Next]_vars => [Good]_vars
  <2> SUFFICES ASSUME IInv, Next, pc = "evaluate"
               PROVE  /\ status' \in {"OK", "ILL_CONDITIONED"}
                      /\ status' = "OK" => Solvable'
    OBVIOUS
  <2>1. Evaluate
    BY DEF Next, PrepareRefused, PrepareBegin, LookupRefused, LookupBegin, Solve, Proceed,
       CornerFails, CornerPasses, PrepareDone, Probe, Searching, FoundRow, FoundColumn
  <2>2. /\ status' = Cell(Map, handle.limits, at.i, at.k, InD, InQ) /\ handle' = handle
        /\ status' = "OK" => jacobian' = JacobianAt(Map, at.i, at.k, InD, InQ)
    BY <2>1 DEF Evaluate, Return, Verdict
  <2>3. /\ handle.prepared /\ at.i \in 0..(Map.nd - 2) /\ at.k \in 0..(Map.nq - 2)
        /\ IsCell(Map, at.i, at.k) /\ CornersPass(Map, handle.limits, at.i, at.k)
        /\ InD \in 0..Width(Map, at.i) /\ InQ \in 0..Height(Map, at.k)
    BY InsideCell
  <2>4. at.i \in Int /\ at.k \in Int
    BY <2>3
  <2>5. handle.limits.floor \in Int /\ handle.limits.reciprocity \in Int
    BY <2>3, Borrowed
  <2>6. status' \in {"OK", "ILL_CONDITIONED"}
    BY <2>2, <2>3, <2>4, <2>5, CornersVouch
  <2>7. ASSUME status' = "OK" PROVE Solvable'
    <3>1. ~Singular(JacobianAt(Map, at.i, at.k, InD, InQ), handle.limits)
      BY <2>2, <2>7, PhysicsMeans
    <3>2. QED
      BY <2>2, <2>3, <2>7, <3>1, AnswerSolvable
  <2>8. QED
    BY <2>6, <2>7
<1>2. QED
  BY <1>1, Invariance, PTL DEF Spec, InteriorHolds

\* Outputs change only in a call that returns OK.  Flux and Jacobian change with an
\* interpolation: between the entries around it, and the entry itself at a knot.
\* The rates change with the exact solution for the Jacobian at hand, which the
\* condition number keeps from being singular.
THEOREM OutputsAlwaysAnswer == Spec => OutputsAnswer
<1> DEFINE Looked ==
      answer' # answer =>
        /\ status' = "OK"
        /\ Interpolates(Map.psid, flux'.d) /\ Interpolates(Map.psiq, flux'.q)
           Solved ==
      rate' # rate =>
        /\ status' = "OK"
        /\ \E y \in FluxRates : y.rep = "FINITE" /\ Solves(rate', jacobian, y)
<1>1. ASSUME IInv, Next, answer' # answer PROVE Looked
  <2>1. Evaluate
    BY <1>1 DEF Next, PrepareRefused, PrepareBegin, LookupRefused, LookupBegin, Solve,
       Proceed, CornerFails, CornerPasses, PrepareDone, Probe, FoundRow, FoundColumn, outputs
  <2>2. pc = "evaluate" /\ Verdict = "OK" /\ status' = "OK" /\ flux' = Answer
    BY <1>1, <2>1 DEF Evaluate, Return
  <2>3. /\ flux'.d = Frac(FluxAt(Map, Map.psid, at.i, at.k, InD, InQ),
                          Width(Map, at.i) * Height(Map, at.k))
        /\ flux'.q = Frac(FluxAt(Map, Map.psiq, at.i, at.k, InD, InQ),
                          Width(Map, at.i) * Height(Map, at.k))
    BY <2>2 DEF Answer
  <2>4. Interpolates(Map.psid, flux'.d) /\ Interpolates(Map.psiq, flux'.q)
    BY <1>1, <2>2, <2>3, FluxInterpolates
  <2>5. QED
    BY <2>2, <2>4
<1>2. ASSUME IInv, Next, rate' # rate PROVE Solved
  <2>1. PICK y \in FluxRates : Solve(y)
    BY <1>2 DEF Next, PrepareRefused, PrepareBegin, LookupRefused, LookupBegin,
       Proceed, CornerFails, CornerPasses, PrepareDone, Probe, FoundRow, FoundColumn,
       Evaluate, outputs
  <2>2. /\ status' = "OK" /\ SolveVerdict(y) = "OK" /\ rate' = Solution(jacobian, y)
    BY <1>2, <2>1 DEF Solve
  <2>3. y.rep = "FINITE" /\ y.d \in Int /\ y.q \in Int
    BY <2>2, FluxRatesAssumption DEF SolveVerdict, FluxRateType
  <2>4. Determinant(jacobian) # 0
    BY <2>2 DEF SolveVerdict, Singular
  <2>5. jacobian \in [k : Int, dd : Int, dq : Int, qd : Int, qq : Int]
    BY <1>2 DEF IInv, TypeOK, AnswerTyped
  <2>6. Solves(rate', jacobian, y)
    BY <2>2, <2>3, <2>4, <2>5, SolutionSolves
  <2>7. QED
    BY <2>2, <2>3, <2>6
<1>3. IInv /\ [Next]_vars => [Looked /\ Solved]_vars
  <2> SUFFICES ASSUME IInv, Next PROVE Looked /\ Solved
    OBVIOUS
  <2>1. Looked
    BY <1>1
  <2>2. Solved
    BY <1>2
  <2>3. QED
    BY <2>1, <2>2
<1>4. QED
  BY <1>3, Invariance, PTL DEF Spec, OutputsAnswer
=============================================================================
