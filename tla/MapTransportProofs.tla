------------------------- MODULE MapTransportProofs -------------------------
(***************************************************************************)
(* Theorems about MapTransport, for maps and texts of any size.            *)
(*                                                                         *)
(* First what a map is as a text: Written lays its parts one after the     *)
(* other (WrittenParts), a table is its rows in a line (FlatOfTable,       *)
(* TableOfFlat).  Then what a slot holds of a text: the fields and cells   *)
(* read so far are those of its tokens (Placed, Agreed), so a slot that    *)
(* was read to the end shows the map whose text it was (ViewFollows,       *)
(* ViewIsMap).  Last, that every step of the reader keeps it so.           *)
(***************************************************************************)
EXTENDS MapTransport, SequenceTheorems, TLAPS

-----------------------------------------------------------------------------
(* Tables and their rows.                                                  *)

\* Part of a sequence.
LEMMA SubSeqRange ==
  ASSUME NEW q \in Seq(Int), NEW a \in Nat, NEW n \in Nat, a + n <= Len(q)
  PROVE  /\ SubSeq(q, a + 1, a + n) \in Seq(Int) /\ Len(SubSeq(q, a + 1, a + n)) = n
         /\ \A i \in 1..n : SubSeq(q, a + 1, a + n)[i] = q[a + i]
OBVIOUS

\* Where a cell of a flat table lies: its row and column.
LEMMA RowAndColumn ==
  ASSUME NEW nd \in Nat \ {0}, NEW nq \in Nat \ {0}, NEW k \in 1..(nd * nq)
  PROVE  /\ (k - 1) \div nq \in 0..(nd - 1) /\ (k - 1) % nq \in 0..(nq - 1)
         /\ k = (((k - 1) \div nq) * nq + ((k - 1) % nq)) + 1
<1> DEFINE r == (k - 1) \div nq
           c == (k - 1) % nq
<1>1. r \in Int /\ c \in 0..(nq - 1) /\ k - 1 = nq * r + c
  OBVIOUS
<1> HIDE DEF r, c
<1>2. r >= 0
  <2> SUFFICES ASSUME r <= -1 PROVE FALSE
    BY <1>1
  <2>1. nq * r <= nq * (-1)
    BY <1>1
  <2> QED BY <1>1, <2>1
<1>3. r < nd
  <2> SUFFICES ASSUME r >= nd PROVE FALSE
    BY <1>1
  <2>1. nq * r >= nq * nd
    BY <1>1
  <2> QED BY <1>1, <2>1
<1> QED BY <1>1, <1>2, <1>3 DEF r, c

\* And back.
LEMMA CellOf ==
  ASSUME NEW nq \in Nat \ {0}, NEW r \in Nat, NEW c \in 0..(nq - 1)
  PROVE  (r * nq + c) \div nq = r /\ (r * nq + c) % nq = c
<1> DEFINE k == r * nq + c
           x == k \div nq
           y == k % nq
<1>1. k \in Int /\ x \in Int /\ y \in 0..(nq - 1) /\ k = nq * x + y
  OBVIOUS
<1>2. k = r * nq + c
  OBVIOUS
<1> HIDE DEF x, y, k
<1>3. nq * (x - r) = c - y
  BY <1>1, <1>2
<1>4. x - r < 1
  <2> SUFFICES ASSUME x - r >= 1 PROVE FALSE
    BY <1>1
  <2>1. nq * (x - r) >= nq * 1
    BY <1>1
  <2> QED BY <1>1, <1>3, <2>1
<1>5. x - r > -1
  <2> SUFFICES ASSUME x - r <= -1 PROVE FALSE
    BY <1>1
  <2>1. nq * (x - r) <= nq * (-1)
    BY <1>1
  <2> QED BY <1>1, <1>3, <2>1
<1>6. x = r
  BY <1>1, <1>4, <1>5
<1>7. y = c
  BY <1>1, <1>2, <1>6
<1> QED BY <1>6, <1>7 DEF x, y, k

\* A row and its cells lie inside the table.
LEMMA RowInside ==
  ASSUME NEW nd \in Nat \ {0}, NEW nq \in Nat \ {0}, NEW r \in 1..nd
  PROVE  /\ (r - 1) * nq \in Nat /\ r * nq = (r - 1) * nq + nq
         /\ (r - 1) * nq + nq <= nd * nq
         /\ \A c \in 1..nq : (r - 1) * nq + c \in 1..(nd * nq)
<1> DEFINE start == (r - 1) * nq
           cells == nd * nq
<1>1. start \in Nat /\ cells \in Nat /\ r * nq = start + nq
  OBVIOUS
<1>2. r * nq <= cells
  OBVIOUS
<1> HIDE DEF start, cells
<1>3. start + nq <= cells
  BY <1>1, <1>2
<1>4. \A c \in 1..nq : start + c \in 1..cells
  BY <1>1, <1>3
<1> QED BY <1>1, <1>3, <1>4 DEF start, cells

\* The rows of a table, put one after the other, are its cells.
LEMMA FlatOfTable ==
  ASSUME NEW nd \in Nat \ {0}, NEW nq \in Nat \ {0}, NEW room \in Nat,
         NEW values \in [1..room -> Int], nd * nq <= room
  PROVE  Flat(Table(values, nd, nq)) = [k \in 1..(nd * nq) |-> values[k]]
<1> DEFINE rows == Table(values, nd, nq)
<1>1. /\ Len(rows) = nd
      /\ \A r \in 1..nd : rows[r] = SubSeq(values, (r - 1) * nq + 1, r * nq)
  BY DEF Table
<1>2. ASSUME NEW r \in 0..(nd - 1)
      PROVE  /\ Len(rows[r + 1]) = nq
             /\ \A c \in 0..(nq - 1) : rows[r + 1][c + 1] = values[r * nq + c + 1]
  <2>1. rows[r + 1] = SubSeq(values, r * nq + 1, r * nq + nq)
    BY <1>1
  <2>2. r * nq \in Nat /\ r * nq + nq <= nd * nq
    <3>1. (r + 1) * nq <= nd * nq
      OBVIOUS
    <3> QED BY <3>1
  <2>3. values \in Seq(Int) /\ Len(values) = room
    OBVIOUS
  <2> HIDE DEF rows
  <2> QED BY <2>1, <2>2, <2>3
<1> HIDE DEF rows
<1>3. Len(rows[1]) = nq
  BY <1>2
<1>4. \A k \in 1..(nd * nq) : rows[(k - 1) \div nq + 1][((k - 1) % nq) + 1] = values[k]
  <2> TAKE k \in 1..(nd * nq)
  <2> DEFINE r == (k - 1) \div nq
             c == (k - 1) % nq
  <2>1. r \in 0..(nd - 1) /\ c \in 0..(nq - 1) /\ k = (r * nq + c) + 1
    BY RowAndColumn
  <2> HIDE DEF r, c
  <2>2. rows[r + 1][c + 1] = values[r * nq + c + 1]
    BY <1>2, <2>1
  <2>3. r * nq + c + 1 = k
    BY <2>1
  <2>4. rows[r + 1][c + 1] = values[k]
    BY <2>2, <2>3
  <2> QED BY <2>4 DEF r, c
<1> QED BY <1>1, <1>3, <1>4 DEF Flat, rows

\* Rows of equal length, flattened.
LEMMA FlatCells ==
  ASSUME NEW rows \in Seq(Seq(Int)), NEW nd \in Nat \ {0}, NEW nq \in Nat \ {0},
         Len(rows) = nd, \A r \in 1..nd : Len(rows[r]) = nq
  PROVE  /\ Flat(rows) \in [1..(nd * nq) -> Int]
         /\ \A r \in 1..nd, c \in 1..nq :
              /\ (r - 1) * nq + c \in 1..(nd * nq)
              /\ Flat(rows)[(r - 1) * nq + c] = rows[r][c]
<1> DEFINE cell(k) == rows[(k - 1) \div nq + 1][((k - 1) % nq) + 1]
<1>1. Flat(rows) = [k \in 1..(nd * nq) |-> cell(k)]
  <2>1. Len(rows[1]) = nq
    OBVIOUS
  <2> QED BY <2>1 DEF Flat
<1>2. \A k \in 1..(nd * nq) : cell(k) \in Int
  <2> TAKE k \in 1..(nd * nq)
  <2>1. (k - 1) \div nq \in 0..(nd - 1) /\ (k - 1) % nq \in 0..(nq - 1)
    BY RowAndColumn
  <2> DEFINE r == (k - 1) \div nq + 1
             c == ((k - 1) % nq) + 1
  <2>2. r \in 1..nd /\ c \in 1..nq
    BY <2>1
  <2> HIDE DEF r, c
  <2>3. rows[r] \in Seq(Int) /\ Len(rows[r]) = nq
    BY <2>2
  <2>4. rows[r][c] \in Int
    BY <2>2, <2>3
  <2> QED BY <2>4 DEF r, c
<1>3. ASSUME NEW r \in 1..nd, NEW c \in 1..nq
      PROVE  /\ (r - 1) * nq + c \in 1..(nd * nq)
             /\ cell((r - 1) * nq + c) = rows[r][c]
  <2>1. (r - 1) * nq \in Nat /\ (r - 1) * nq + c \in 1..(nd * nq)
    BY RowInside
  <2>2. /\ ((r - 1) * nq + (c - 1)) \div nq = r - 1
        /\ ((r - 1) * nq + (c - 1)) % nq = c - 1
    <3>1. r - 1 \in Nat /\ c - 1 \in 0..(nq - 1)
      OBVIOUS
    <3> QED BY <3>1, CellOf
  <2>3. ((r - 1) * nq + c) - 1 = (r - 1) * nq + (c - 1)
    BY <2>1
  <2>4. (r - 1) + 1 = r /\ (c - 1) + 1 = c
    OBVIOUS
  <2>5. cell((r - 1) * nq + c) = rows[(r - 1) + 1][(c - 1) + 1]
    BY <2>2, <2>3
  <2>6. cell((r - 1) * nq + c) = rows[r][c]
    BY <2>4, <2>5
  <2> HIDE DEF cell
  <2> QED BY <2>1, <2>6
<1> HIDE DEF cell
<1>4. Flat(rows) \in [1..(nd * nq) -> Int]
  BY <1>1, <1>2
<1>5. \A k \in 1..(nd * nq) : Flat(rows)[k] = cell(k)
  BY <1>1
<1>6. ASSUME NEW r \in 1..nd, NEW c \in 1..nq
      PROVE  Flat(rows)[(r - 1) * nq + c] = rows[r][c]
  BY <1>3, <1>5
<1> QED BY <1>3, <1>4, <1>6

\* A table made of flattened rows is those rows.
LaidOut(rows, nd, nq, values, room) ==
  /\ rows \in Seq(Seq(Int)) /\ nd \in Nat \ {0} /\ nq \in Nat \ {0}
  /\ Len(rows) = nd /\ \A r \in 1..nd : Len(rows[r]) = nq
  /\ room \in Nat /\ values \in [1..room -> Int] /\ nd * nq <= room
  /\ \A k \in 1..(nd * nq) : values[k] = Flat(rows)[k]

LEMMA TableOfFlat ==
  ASSUME NEW rows, NEW nd, NEW nq, NEW room, NEW values, LaidOut(rows, nd, nq, values, room)
  PROVE  Table(values, nd, nq) = rows
<1> USE DEF LaidOut
<1>1. ASSUME NEW r \in 1..nd
      PROVE  SubSeq(values, (r - 1) * nq + 1, r * nq) = rows[r]
  <2>1. /\ (r - 1) * nq \in Nat /\ r * nq = (r - 1) * nq + nq
        /\ (r - 1) * nq + nq <= nd * nq
    BY RowInside
  <2>2. values \in Seq(Int) /\ Len(values) = room
    OBVIOUS
  <2> DEFINE start == (r - 1) * nq
             row == SubSeq(values, start + 1, start + nq)
  <2> DEFINE cells == nd * nq
  <2>0. start \in Nat /\ start + nq <= room
    <3>1. start \in Nat /\ cells \in Nat /\ start + nq <= cells /\ cells <= room
      BY <2>1
    <3> HIDE DEF start, cells
    <3> QED BY <3>1
  <2>10. r * nq = start + nq
    BY <2>1
  <2> HIDE DEF start
  <2>3. /\ row \in Seq(Int) /\ Len(row) = nq
        /\ \A c \in 1..nq : row[c] = values[start + c]
    <3>1. start + nq <= Len(values)
      BY <2>0, <2>2
    <3> QED BY <2>0, <2>2, <3>1, SubSeqRange
  <2>4. \A c \in 1..nq : row[c] = rows[r][c]
    <3>1. \A c \in 1..nq : start + c \in 1..(nd * nq) /\ Flat(rows)[start + c] = rows[r][c]
      <4>1. \A x \in 1..nd, y \in 1..nq :
              /\ (x - 1) * nq + y \in 1..(nd * nq)
              /\ Flat(rows)[(x - 1) * nq + y] = rows[x][y]
        BY FlatCells
      <4> QED BY <4>1 DEF start
    <3> QED BY <2>3, <3>1
  <2>5. rows[r] \in Seq(Int) /\ Len(rows[r]) = nq
    OBVIOUS
  <2> HIDE DEF row
  <2>6. row = rows[r]
    BY <2>3, <2>4, <2>5
  <2> QED BY <2>6, <2>10 DEF row, start
<1>2. rows = [r \in 1..nd |-> rows[r]]
  OBVIOUS
<1> QED BY <1>1, <1>2 DEF Table

-----------------------------------------------------------------------------
(* Maps as texts.                                                          *)

\* The tokens after the first b are those of a sequence of values.
Follows(text, b, q) == \A i \in 1..Len(q) : text[b + i].n = q[i]

LEMMA FollowsBoth ==
  ASSUME NEW text, NEW b \in Nat, NEW q \in Seq(Int), NEW r \in Seq(Int)
  PROVE  /\ q \o r \in Seq(Int) /\ Len(q \o r) = Len(q) + Len(r)
         /\ Follows(text, b, q \o r) <=> Follows(text, b, q) /\ Follows(text, b + Len(q), r)
<1> DEFINE w == q \o r
<1>1. /\ w \in Seq(Int) /\ Len(w) = Len(q) + Len(r)
      /\ Len(q) \in Nat /\ Len(r) \in Nat
      /\ \A i \in 1..Len(q) : w[i] = q[i]
      /\ \A i \in 1..Len(r) : w[Len(q) + i] = r[i]
  OBVIOUS
<1> HIDE DEF w
<1>2. ASSUME Follows(text, b, w) PROVE Follows(text, b, q) /\ Follows(text, b + Len(q), r)
  <2>1. ASSUME NEW i \in 1..Len(q) PROVE text[b + i].n = q[i]
    BY <1>1, <1>2 DEF Follows
  <2>2. ASSUME NEW i \in 1..Len(r) PROVE text[(b + Len(q)) + i].n = r[i]
    <3>1. Len(q) + i \in 1..Len(w) /\ b + (Len(q) + i) = (b + Len(q)) + i
      BY <1>1
    <3>2. text[b + (Len(q) + i)].n = w[Len(q) + i]
      BY <1>2, <3>1 DEF Follows
    <3> QED BY <1>1, <3>1, <3>2
  <2> QED BY <2>1, <2>2 DEF Follows
<1>3. ASSUME Follows(text, b, q), Follows(text, b + Len(q), r) PROVE Follows(text, b, w)
  <2> SUFFICES ASSUME NEW i \in 1..Len(w) PROVE text[b + i].n = w[i]
    BY DEF Follows
  <2>1. CASE i <= Len(q)
    BY <1>1, <1>3, <2>1 DEF Follows
  <2>2. CASE i > Len(q)
    <3> DEFINE j == i - Len(q)
    <3>1. j \in 1..Len(r) /\ (b + Len(q)) + j = b + i /\ Len(q) + j = i
      BY <1>1, <2>2
    <3> HIDE DEF j
    <3>2. text[(b + Len(q)) + j].n = r[j] /\ w[Len(q) + j] = r[j]
      BY <1>1, <1>3, <3>1 DEF Follows
    <3> QED BY <3>1, <3>2
  <2> QED BY <1>1, <2>1, <2>2
<1> QED BY <1>1, <1>2, <1>3 DEF w

\* A sequence that ends before token e, and what is put after it.
Joined(w, q, r, b, e, f) ==
  q \in Seq(Int) /\ r \in Seq(Int) /\ w = q \o r /\ b + Len(q) = e /\ f = e + Len(r)

LEMMA JoinedEnds ==
  ASSUME NEW b \in Nat, NEW e, NEW f, NEW q, NEW r, NEW w, Joined(w, q, r, b, e, f)
  PROVE  b + Len(w) = f
<1> USE DEF Joined
<1> DEFINE lw == Len(w)
           lq == Len(q)
           lr == Len(r)
<1>1. lq \in Nat /\ lr \in Nat /\ lw = lq + lr /\ b + lq = e /\ f = e + lr
  OBVIOUS
<1> HIDE DEF lw, lq, lr
<1>2. b + lw = f
  BY <1>1
<1> QED BY <1>2 DEF lw

LEMMA FollowsNext ==
  ASSUME NEW text, NEW b \in Nat, NEW e, NEW f, NEW q, NEW r, NEW w, Joined(w, q, r, b, e, f)
  PROVE  /\ w \in Seq(Int)
         /\ Follows(text, b, w) <=> Follows(text, b, q) /\ Follows(text, e, r)
<1> USE DEF Joined
<1>1. w \in Seq(Int)
  OBVIOUS
<1>2. Follows(text, b, w) <=> Follows(text, b, q) /\ Follows(text, b + Len(q), r)
  BY FollowsBoth
<1> QED BY <1>1, <1>2

\* A map whose values are numbers, whatever they are.
Shape(m) ==
  /\ m.evidence \in Int /\ m.reals \in [1..5 -> Int]
  /\ m.source \in Seq(Int) /\ m.id_A \in Seq(Int) /\ m.iq_A \in Seq(Int)
  /\ Flat(m.psi_d_Wb) \in Seq(Int) /\ Flat(m.psi_q_Wb) \in Seq(Int)

Lead(m) == <<0, 2, 2, 2, 2 * Len(m.id_A), 2 * Len(m.iq_A), 2 * m.evidence, 2 * Len(m.source)>>

Doubled(q) == [i \in 1..Len(q) |-> 2 * q[i]]

\* The parts of a map in its text, one after the other.
LEMMA WrittenParts ==
  ASSUME NEW m, Shape(m), NEW text, NEW b \in Nat
  PROVE  LET ns == Len(m.source)
             nd == Len(m.id_A)
             nq == Len(m.iq_A)
             cells == Len(Flat(m.psi_d_Wb))
         IN /\ Written(m) \in Seq(Int)
            /\ Len(Written(m)) = 13 + ns + nd + nq + cells + Len(Flat(m.psi_q_Wb))
            /\ Follows(text, b, Written(m)) <=>
                 /\ Follows(text, b, Lead(m))
                 /\ Follows(text, b + 8, m.reals)
                 /\ Follows(text, b + 13, Doubled(m.source))
                 /\ Follows(text, b + 13 + ns, m.id_A)
                 /\ Follows(text, b + 13 + ns + nd, m.iq_A)
                 /\ Follows(text, b + 13 + ns + nd + nq, Flat(m.psi_d_Wb))
                 /\ Follows(text, b + 13 + ns + nd + nq + cells, Flat(m.psi_q_Wb))
<1> DEFINE q1 == Lead(m)
           q2 == [i \in 1..5 |-> m.reals[i]]
           q3 == [i \in 1..Len(m.source) |-> 2 * m.source[i]]
           q4 == m.id_A
           q5 == m.iq_A
           q6 == Flat(m.psi_d_Wb)
           q7 == Flat(m.psi_q_Wb)
<1>1. /\ q4 \in Seq(Int) /\ q5 \in Seq(Int) /\ q6 \in Seq(Int) /\ q7 \in Seq(Int)
      /\ m.source \in Seq(Int) /\ m.reals \in [1..5 -> Int] /\ m.evidence \in Int
  BY DEF Shape
<1>2. q1 \in Seq(Int) /\ Len(q1) = 8
  <2>1. Len(m.id_A) \in Int /\ Len(m.iq_A) \in Int /\ Len(m.source) \in Int
    BY <1>1
  <2> QED BY <1>1, <2>1 DEF Lead
<1>3. q2 = m.reals /\ q2 \in Seq(Int) /\ Len(q2) = 5
  <2>1. \A i \in 1..5 : m.reals[i] \in Int
    BY <1>1
  <2>2. q2 = m.reals
    BY <1>1
  <2> QED BY <2>1, <2>2
<1>4. q3 = Doubled(m.source) /\ q3 \in Seq(Int) /\ Len(q3) = Len(m.source)
  BY <1>1 DEF Doubled
<1>5. Written(m) = (((((q1 \o q2) \o q3) \o q4) \o q5) \o q6) \o q7
  BY DEF Written, Lead
<1> DEFINE w2 == q1 \o q2
           w3 == w2 \o q3
           w4 == w3 \o q4
           w5 == w4 \o q5
           w6 == w5 \o q6
           w7 == w6 \o q7
           e1 == b + 8
           e2 == b + 13
           e3 == e2 + Len(q3)
           e4 == e3 + Len(q4)
           e5 == e4 + Len(q5)
           e6 == e5 + Len(q6)
           e7 == e6 + Len(q7)
<1>6. /\ w2 = q1 \o q2 /\ w3 = w2 \o q3 /\ w4 = w3 \o q4 /\ w5 = w4 \o q5
      /\ w6 = w5 \o q6 /\ w7 = w6 \o q7 /\ Written(m) = w7
      /\ e3 = e2 + Len(q3) /\ e4 = e3 + Len(q4) /\ e5 = e4 + Len(q5) /\ e6 = e5 + Len(q6)
      /\ e7 = e6 + Len(q7)
  BY <1>5
<1>7. b + Len(q1) = e1 /\ e1 \in Nat /\ e1 + Len(q2) = e2
  BY <1>2, <1>3
<1> HIDE DEF q1, q2, q3, q4, q5, q6, q7, w2, w3, w4, w5, w6, w7, e1, e2, e3, e4, e5, e6, e7
<1>8. /\ w2 \in Seq(Int) /\ b + Len(w2) = e2
      /\ Follows(text, b, w2) <=> Follows(text, b, q1) /\ Follows(text, e1, q2)
  <2>1. Joined(w2, q1, q2, b, e1, e2)
    BY <1>2, <1>3, <1>7, <1>6 DEF Joined
  <2>2. w2 \in Seq(Int)
    BY <2>1, FollowsNext
  <2>3. b + Len(w2) = e2
    BY <2>1, JoinedEnds
  <2>4. Follows(text, b, w2) <=> Follows(text, b, q1) /\ Follows(text, e1, q2)
    BY <2>1, FollowsNext
  <2> QED BY <2>2, <2>3, <2>4
<1>9. /\ w3 \in Seq(Int) /\ b + Len(w3) = e3
      /\ Follows(text, b, w3) <=> Follows(text, b, w2) /\ Follows(text, e2, q3)
  <2>1. Joined(w3, w2, q3, b, e2, e3)
    BY <1>4, <1>8, <1>6 DEF Joined
  <2>2. w3 \in Seq(Int)
    BY <2>1, FollowsNext
  <2>3. b + Len(w3) = e3
    BY <2>1, JoinedEnds
  <2>4. Follows(text, b, w3) <=> Follows(text, b, w2) /\ Follows(text, e2, q3)
    BY <2>1, FollowsNext
  <2> QED BY <2>2, <2>3, <2>4
<1>10. /\ w4 \in Seq(Int) /\ b + Len(w4) = e4
       /\ Follows(text, b, w4) <=> Follows(text, b, w3) /\ Follows(text, e3, q4)
  <2>1. Joined(w4, w3, q4, b, e3, e4)
    BY <1>1, <1>9, <1>6 DEF Joined
  <2>2. w4 \in Seq(Int)
    BY <2>1, FollowsNext
  <2>3. b + Len(w4) = e4
    BY <2>1, JoinedEnds
  <2>4. Follows(text, b, w4) <=> Follows(text, b, w3) /\ Follows(text, e3, q4)
    BY <2>1, FollowsNext
  <2> QED BY <2>2, <2>3, <2>4
<1>11. /\ w5 \in Seq(Int) /\ b + Len(w5) = e5
       /\ Follows(text, b, w5) <=> Follows(text, b, w4) /\ Follows(text, e4, q5)
  <2>1. Joined(w5, w4, q5, b, e4, e5)
    BY <1>1, <1>10, <1>6 DEF Joined
  <2>2. w5 \in Seq(Int)
    BY <2>1, FollowsNext
  <2>3. b + Len(w5) = e5
    BY <2>1, JoinedEnds
  <2>4. Follows(text, b, w5) <=> Follows(text, b, w4) /\ Follows(text, e4, q5)
    BY <2>1, FollowsNext
  <2> QED BY <2>2, <2>3, <2>4
<1>12. /\ w6 \in Seq(Int) /\ b + Len(w6) = e6
       /\ Follows(text, b, w6) <=> Follows(text, b, w5) /\ Follows(text, e5, q6)
  <2>1. Joined(w6, w5, q6, b, e5, e6)
    BY <1>1, <1>11, <1>6 DEF Joined
  <2>2. w6 \in Seq(Int)
    BY <2>1, FollowsNext
  <2>3. b + Len(w6) = e6
    BY <2>1, JoinedEnds
  <2>4. Follows(text, b, w6) <=> Follows(text, b, w5) /\ Follows(text, e5, q6)
    BY <2>1, FollowsNext
  <2> QED BY <2>2, <2>3, <2>4
<1>13. /\ w7 \in Seq(Int) /\ b + Len(w7) = e7
       /\ Follows(text, b, w7) <=> Follows(text, b, w6) /\ Follows(text, e6, q7)
  <2>1. Joined(w7, w6, q7, b, e6, e7)
    BY <1>1, <1>12, <1>6 DEF Joined
  <2>2. w7 \in Seq(Int)
    BY <2>1, FollowsNext
  <2>3. b + Len(w7) = e7
    BY <2>1, JoinedEnds
  <2>4. Follows(text, b, w7) <=> Follows(text, b, w6) /\ Follows(text, e6, q7)
    BY <2>1, FollowsNext
  <2> QED BY <2>2, <2>3, <2>4
<1>14. Follows(text, b, w7) <=>
         /\ Follows(text, b, q1) /\ Follows(text, e1, q2) /\ Follows(text, e2, q3)
         /\ Follows(text, e3, q4) /\ Follows(text, e4, q5) /\ Follows(text, e5, q6)
         /\ Follows(text, e6, q7)
  BY <1>8, <1>9, <1>10, <1>11, <1>12, <1>13
<1>15. Len(q3) = Len(m.source)
  BY <1>4
<1>16. Len(w7) = 13 + Len(q3) + Len(q4) + Len(q5) + Len(q6) + Len(q7)
  <2>1. /\ Len(q3) \in Nat /\ Len(q4) \in Nat /\ Len(q5) \in Nat /\ Len(q6) \in Nat
        /\ Len(q7) \in Nat /\ Len(w7) \in Nat
    BY <1>1, <1>4, <1>13
  <2> QED BY <1>13, <2>1 DEF e2, e3, e4, e5, e6, e7
<1> QED
  BY <1>3, <1>4, <1>6, <1>13, <1>14, <1>15, <1>16
  DEF q1, q4, q5, q6, q7, e1, e2, e3, e4, e5, e6

-----------------------------------------------------------------------------
(* What a slot holds, as a map and as a text.                              *)

FieldNames == {Fields[i] : i \in 1..13}

\* The value of the token of a field.
Coded(f, v) == IF f = "magic" THEN 0 ELSE IF f \in DOMAIN Whole THEN 2 * v ELSE v

\* Where a part begins: the tokens of the map before it.
First(h, part) ==
  CASE part = "head" -> 0
    [] part = "source" -> 13
    [] part = "id_axis" -> 13 + h["source_length"]
    [] part = "iq_axis" -> 13 + h["source_length"] + h["nd"]
    [] part = "psi_d" -> 13 + h["source_length"] + h["nd"] + h["nq"]
    [] part = "psi_q" -> 13 + h["source_length"] + h["nd"] + h["nq"] + h["nd"] * h["nq"]
    [] part = "full" -> 13 + h["source_length"] + h["nd"] + h["nq"]
                           + h["nd"] * h["nq"] + h["nd"] * h["nq"]

Total(h) == First(h, "full")

\* The first n fields are those of the text after its first b tokens, and those
\* of them that count something are in their range.
HeadAgrees(text, h, b, n) ==
  \A i \in 1..n :
    /\ text[b + i].n = Coded(Fields[i], h[Fields[i]])
    /\ Fields[i] \in DOMAIN Whole => h[Fields[i]] \in Whole[Fields[i]]

\* So are the first n cells of a part; a byte of the source is never zero.
CellsAgree(text, cells, part, b, n) ==
  \A j \in 1..n :
    IF part = "source" THEN text[b + j].n = 2 * cells[j] /\ cells[j] \in 1..255
    ELSE text[b + j].n = cells[j]

Closed(h, cells) == cells["source"][h["source_length"] + 1] = 0

\* All of a map has been read.
Agreed(text, h, cells, b) ==
  /\ HeadAgrees(text, h, b, 13)
  /\ \A part \in Arrays :
       CellsAgree(text, cells[part], part, b + First(h, part), Size(h, part))
  /\ Closed(h, cells)

HeadType == [FieldNames -> Int]

CellsTyped(cells) ==
  /\ DOMAIN cells = Arrays
  /\ \A part \in Arrays : cells[part] \in [1..Room(part) -> Int]

\* What its users see of it.
View(h, cells) ==
  [evidence |-> h["evidence"], reals |-> [i \in 1..5 |-> h[Fields[i + 8]]],
   source |-> Name(cells["source"]),
   id_A |-> SubSeq(cells["id_axis"], 1, h["nd"]),
   iq_A |-> SubSeq(cells["iq_axis"], 1, h["nq"]),
   psi_d_Wb |-> Table(cells["psi_d"], h["nd"], h["nq"]),
   psi_q_Wb |-> Table(cells["psi_q"], h["nd"], h["nq"])]

LEMMA PrintedIsView ==
  ASSUME NEW s, NEW h
  PROVE  Printed([slot |-> s, head |-> h]) = View(h, storage[s])
BY DEF Printed, View

LEMMA FieldIs ==
  /\ Fields[1] = "magic" /\ Fields[2] = "version" /\ Fields[3] = "units"
  /\ Fields[4] = "convention" /\ Fields[5] = "nd" /\ Fields[6] = "nq"
  /\ Fields[7] = "evidence" /\ Fields[8] = "source_length"
  /\ Fields[9] = "temperature_k" /\ Fields[10] = "declared_flux_error_wb"
  /\ Fields[11] = "min_incremental_h" /\ Fields[12] = "max_reciprocity_error_h"
  /\ Fields[13] = "min_rcond" /\ Len(Fields) = 13
BY DEF Fields

LEMMA FieldsDiffer == \A i, j \in 1..13 : Fields[i] = Fields[j] => i = j
BY DEF Fields

LEMMA WholeIs ==
  /\ DOMAIN Whole = {"version", "units", "convention", "nd", "nq", "evidence", "source_length"}
  /\ Whole["version"] = 1..1 /\ Whole["units"] = 1..1 /\ Whole["convention"] = 1..1
  /\ Whole["nd"] = 2..MaxAxis /\ Whole["nq"] = 2..MaxAxis
  /\ Whole["evidence"] = 1..4 /\ Whole["source_length"] = 1..MaxSource
BY DEF Whole

LEMMA CodedIs ==
  \A v :
    /\ Coded("magic", v) = 0
    /\ Coded("version", v) = 2 * v /\ Coded("units", v) = 2 * v
    /\ Coded("convention", v) = 2 * v /\ Coded("nd", v) = 2 * v /\ Coded("nq", v) = 2 * v
    /\ Coded("evidence", v) = 2 * v /\ Coded("source_length", v) = 2 * v
BY WholeIs DEF Coded

\* The tokens of a header, one by one.
LEMMA HeadTokens ==
  ASSUME NEW text, NEW h, NEW b \in Nat, HeadAgrees(text, h, b, 13)
  PROVE  /\ text[b + 1].n = 0
         /\ text[b + 2].n = 2 /\ text[b + 3].n = 2 /\ text[b + 4].n = 2
         /\ text[b + 5].n = 2 * h["nd"] /\ text[b + 6].n = 2 * h["nq"]
         /\ text[b + 7].n = 2 * h["evidence"] /\ text[b + 8].n = 2 * h["source_length"]
         /\ \A i \in 1..5 : text[b + (i + 8)].n = h[Fields[i + 8]]
         /\ h["nd"] \in 2..MaxAxis /\ h["nq"] \in 2..MaxAxis
         /\ h["evidence"] \in 1..4 /\ h["source_length"] \in 1..MaxSource
<1>1. \A i \in 1..13 :
        /\ text[b + i].n = Coded(Fields[i], h[Fields[i]])
        /\ Fields[i] \in DOMAIN Whole => h[Fields[i]] \in Whole[Fields[i]]
  BY DEF HeadAgrees
<1>2. text[b + 1].n = 0
  BY <1>1, FieldIs DEF Coded
<1>3. text[b + 2].n = 2 * h["version"] /\ h["version"] \in 1..1
  <2>1. /\ text[b + 2].n = Coded("version", h["version"])
        /\ "version" \in DOMAIN Whole => h["version"] \in Whole["version"]
    BY <1>1, FieldIs
  <2> QED BY <2>1, CodedIs, WholeIs
<1>4. text[b + 3].n = 2 * h["units"] /\ h["units"] \in 1..1
  <2>1. /\ text[b + 3].n = Coded("units", h["units"])
        /\ "units" \in DOMAIN Whole => h["units"] \in Whole["units"]
    BY <1>1, FieldIs
  <2> QED BY <2>1, CodedIs, WholeIs
<1>5. text[b + 4].n = 2 * h["convention"] /\ h["convention"] \in 1..1
  <2>1. /\ text[b + 4].n = Coded("convention", h["convention"])
        /\ "convention" \in DOMAIN Whole => h["convention"] \in Whole["convention"]
    BY <1>1, FieldIs
  <2> QED BY <2>1, CodedIs, WholeIs
<1>6. text[b + 5].n = 2 * h["nd"] /\ h["nd"] \in 2..MaxAxis
  <2>1. /\ text[b + 5].n = Coded("nd", h["nd"])
        /\ "nd" \in DOMAIN Whole => h["nd"] \in Whole["nd"]
    BY <1>1, FieldIs
  <2> QED BY <2>1, CodedIs, WholeIs
<1>7. text[b + 6].n = 2 * h["nq"] /\ h["nq"] \in 2..MaxAxis
  <2>1. /\ text[b + 6].n = Coded("nq", h["nq"])
        /\ "nq" \in DOMAIN Whole => h["nq"] \in Whole["nq"]
    BY <1>1, FieldIs
  <2> QED BY <2>1, CodedIs, WholeIs
<1>8. text[b + 7].n = 2 * h["evidence"] /\ h["evidence"] \in 1..4
  <2>1. /\ text[b + 7].n = Coded("evidence", h["evidence"])
        /\ "evidence" \in DOMAIN Whole => h["evidence"] \in Whole["evidence"]
    BY <1>1, FieldIs
  <2> QED BY <2>1, CodedIs, WholeIs
<1>9. text[b + 8].n = 2 * h["source_length"] /\ h["source_length"] \in 1..MaxSource
  <2>1. /\ text[b + 8].n = Coded("source_length", h["source_length"])
        /\ "source_length" \in DOMAIN Whole => h["source_length"] \in Whole["source_length"]
    BY <1>1, FieldIs
  <2> QED BY <2>1, CodedIs, WholeIs
<1>10. ASSUME NEW i \in 1..5 PROVE text[b + (i + 8)].n = h[Fields[i + 8]]
  <2>1. i + 8 \in 1..13 /\ Fields[i + 8] # "magic" /\ Fields[i + 8] \notin DOMAIN Whole
    BY FieldIs, WholeIs
  <2> QED BY <1>1, <2>1 DEF Coded
<1> QED BY <1>2, <1>3, <1>4, <1>5, <1>6, <1>7, <1>8, <1>9, <1>10

\* A name ends where it is closed.
LEMMA NameEnds ==
  ASSUME NEW bytes \in [1..(MaxSource + 1) -> Int], NEW n \in 1..MaxSource,
         \A j \in 1..n : bytes[j] \in 1..255, bytes[n + 1] = 0
  PROVE  Name(bytes) = SubSeq(bytes, 1, n)
<1>0. n \in Nat /\ n <= MaxSource /\ MaxSource \in Nat
  BY TransportBounds
<1> DEFINE ends(i) == bytes[i] = 0 /\ \A j \in 1..(i - 1) : bytes[j] # 0
           end == CHOOSE i \in DOMAIN bytes : ends(i)
<1>1. n + 1 \in DOMAIN bytes /\ ends(n + 1)
  <2>1. \A j \in 1..n : bytes[j] # 0
    <3> SUFFICES ASSUME NEW j \in 1..n PROVE bytes[j] # 0
      OBVIOUS
    <3> DEFINE x == bytes[j]
    <3>1. x \in 1..255
      OBVIOUS
    <3> HIDE DEF x
    <3>2. x # 0
      BY <3>1
    <3> QED BY <3>2 DEF x
  <2>2. (n + 1) - 1 = n /\ n + 1 \in 1..(MaxSource + 1)
    BY <1>0
  <2> QED BY <2>1, <2>2
<1>2. ASSUME NEW i \in DOMAIN bytes, ends(i) PROVE i = n + 1
  <2>1. i \in 1..(MaxSource + 1)
    OBVIOUS
  <2>2. ASSUME i <= n PROVE FALSE
    <3>1. i \in 1..n
      BY <1>0, <2>1, <2>2
    <3>2. bytes[i] \in 1..255
      BY <3>1
    <3> QED BY <1>2, <3>2
  <2>3. ASSUME n + 1 <= i - 1 PROVE FALSE
    <3>1. n + 1 \in 1..(i - 1)
      BY <1>0, <2>1, <2>3
    <3> QED BY <1>2, <3>1
  <2> QED BY <1>0, <2>1, <2>2, <2>3
<1>3. end = n + 1
  BY <1>1, <1>2
<1>4. Name(bytes) = SubSeq(bytes, 1, end - 1)
  BY DEF Name
<1> HIDE DEF end
<1>5. end - 1 = n
  BY <1>3
<1> QED BY <1>4, <1>5

LEMMA RoomIs ==
  /\ Room("source") = MaxSource + 1 /\ Room("id_axis") = MaxAxis /\ Room("iq_axis") = MaxAxis
  /\ Room("psi_d") = MaxAxis * MaxAxis /\ Room("psi_q") = MaxAxis * MaxAxis
BY DEF Room

LEMMA SizeIs ==
  ASSUME NEW h
  PROVE  /\ Size(h, "head") = 13 /\ Size(h, "source") = h["source_length"]
         /\ Size(h, "id_axis") = h["nd"] /\ Size(h, "iq_axis") = h["nq"]
         /\ Size(h, "psi_d") = h["nd"] * h["nq"] /\ Size(h, "psi_q") = h["nd"] * h["nq"]
BY FieldIs DEF Size

\* What a slot needs to hold of a header, to be looked at.
Bounded(h) ==
  /\ h["nd"] \in 2..MaxAxis /\ h["nq"] \in 2..MaxAxis
  /\ h["evidence"] \in 1..4 /\ h["source_length"] \in 1..MaxSource

LEMMA TablesFit ==
  ASSUME NEW nd \in 2..MaxAxis, NEW nq \in 2..MaxAxis
  PROVE  nd * nq \in Nat \ {0} /\ nd * nq <= MaxAxis * MaxAxis
<1>1. nd \in Nat \ {0} /\ nq \in Nat \ {0} /\ MaxAxis \in Nat /\ nd <= MaxAxis /\ nq <= MaxAxis
  BY TransportBounds
<1>2. nd * nq <= nd * MaxAxis /\ nd * MaxAxis <= MaxAxis * MaxAxis
  BY <1>1
<1>3. nd * nq \in Nat \ {0} /\ nd * MaxAxis \in Nat /\ MaxAxis * MaxAxis \in Nat
  BY <1>1
<1> QED BY <1>2, <1>3

LEMMA Prefix ==
  ASSUME NEW room \in Nat, NEW values \in [1..room -> Int], NEW n \in Nat, n <= room
  PROVE  /\ SubSeq(values, 1, n) \in Seq(Int) /\ Len(SubSeq(values, 1, n)) = n
         /\ \A i \in 1..n : SubSeq(values, 1, n)[i] = values[i]
OBVIOUS

LEMMA FlatTyped ==
  ASSUME NEW room \in Nat, NEW values \in [1..room -> Int], NEW n \in Nat, n <= room
  PROVE  LET q == [k \in 1..n |-> values[k]]
         IN q \in Seq(Int) /\ Len(q) = n /\ \A k \in 1..n : q[k] = values[k]
OBVIOUS

\* A map that shows what a slot holds, cell by cell.
Shows(v, h, cells) ==
  /\ Shape(v)
  /\ v.evidence = h["evidence"] /\ \A i \in 1..5 : v.reals[i] = h[Fields[i + 8]]
  /\ Len(v.source) = h["source_length"]
  /\ \A j \in 1..h["source_length"] : v.source[j] = cells["source"][j]
  /\ Len(v.id_A) = h["nd"] /\ \A j \in 1..h["nd"] : v.id_A[j] = cells["id_axis"][j]
  /\ Len(v.iq_A) = h["nq"] /\ \A j \in 1..h["nq"] : v.iq_A[j] = cells["iq_axis"][j]
  /\ Len(Flat(v.psi_d_Wb)) = h["nd"] * h["nq"]
  /\ \A j \in 1..(h["nd"] * h["nq"]) : Flat(v.psi_d_Wb)[j] = cells["psi_d"][j]
  /\ Len(Flat(v.psi_q_Wb)) = h["nd"] * h["nq"]
  /\ \A j \in 1..(h["nd"] * h["nq"]) : Flat(v.psi_q_Wb)[j] = cells["psi_q"][j]

LEMMA ViewShape ==
  ASSUME NEW h \in HeadType, NEW cells, CellsTyped(cells), Bounded(h), Closed(h, cells),
         \A j \in 1..h["source_length"] : cells["source"][j] \in 1..255
  PROVE  Shows(View(h, cells), h, cells)
<1> DEFINE ns == h["source_length"]
           nd == h["nd"]
           nq == h["nq"]
           n == nd * nq
           v == View(h, cells)
           room == MaxSource + 1
           area == MaxAxis * MaxAxis
<1>1. /\ cells["source"] \in [1..room -> Int]
      /\ cells["id_axis"] \in [1..MaxAxis -> Int] /\ cells["iq_axis"] \in [1..MaxAxis -> Int]
      /\ cells["psi_d"] \in [1..area -> Int] /\ cells["psi_q"] \in [1..area -> Int]
  BY RoomIs DEF CellsTyped, Arrays
<1>2. /\ ns \in Nat /\ nd \in Nat \ {0} /\ nq \in Nat \ {0} /\ n \in Nat \ {0}
      /\ ns <= room /\ nd <= MaxAxis /\ nq <= MaxAxis /\ n <= area
      /\ MaxAxis \in Nat /\ room \in Nat /\ area \in Nat
  BY TransportBounds, TablesFit DEF Bounded
<1>20. /\ h["source_length"] = ns /\ h["nd"] = nd /\ h["nq"] = nq /\ h["nd"] * h["nq"] = n
       /\ n = nd * nq
  OBVIOUS
<1>21. /\ v.id_A = SubSeq(cells["id_axis"], 1, nd) /\ v.iq_A = SubSeq(cells["iq_axis"], 1, nq)
       /\ v.psi_d_Wb = Table(cells["psi_d"], nd, nq) /\ v.psi_q_Wb = Table(cells["psi_q"], nd, nq)
  BY DEF View
<1>22. v.source = SubSeq(cells["source"], 1, ns)
  <2>1. v.source = Name(cells["source"])
    BY DEF View
  <2>2. ns \in 1..MaxSource /\ cells["source"][ns + 1] = 0
    BY DEF Bounded, Closed
  <2>3. \A j \in 1..ns : cells["source"][j] \in 1..255
    OBVIOUS
  <2> HIDE DEF v, ns
  <2> QED BY <1>1, <2>1, <2>2, <2>3, NameEnds
<1>23. v.reals = [i \in 1..5 |-> h[Fields[i + 8]]]
  BY DEF View
<1> HIDE DEF ns, nd, nq, n, v, room, area
<1>3. /\ v.source \in Seq(Int) /\ Len(v.source) = ns
      /\ \A j \in 1..ns : v.source[j] = cells["source"][j]
  BY <1>1, <1>2, <1>22, Prefix
<1>4. /\ v.id_A \in Seq(Int) /\ Len(v.id_A) = nd
      /\ \A j \in 1..nd : v.id_A[j] = cells["id_axis"][j]
  BY <1>1, <1>2, <1>21, Prefix
<1>5. /\ v.iq_A \in Seq(Int) /\ Len(v.iq_A) = nq
      /\ \A j \in 1..nq : v.iq_A[j] = cells["iq_axis"][j]
  BY <1>1, <1>2, <1>21, Prefix
<1>6. /\ Flat(v.psi_d_Wb) \in Seq(Int) /\ Len(Flat(v.psi_d_Wb)) = n
      /\ \A j \in 1..n : Flat(v.psi_d_Wb)[j] = cells["psi_d"][j]
  <2>1. Flat(v.psi_d_Wb) = [k \in 1..n |-> cells["psi_d"][k]]
    <3>1. nd * nq <= area
      BY <1>2, <1>20
    <3>2. Flat(Table(cells["psi_d"], nd, nq)) = [k \in 1..(nd * nq) |-> cells["psi_d"][k]]
      <4>1. /\ nd \in Nat \ {0} /\ nq \in Nat \ {0} /\ area \in Nat
            /\ cells["psi_d"] \in [1..area -> Int] /\ nd * nq <= area
        BY <1>1, <1>2, <3>1
      <4> QED BY <4>1, FlatOfTable
    <3> QED BY <1>20, <1>21, <3>2
  <2> QED BY <1>1, <1>2, <2>1, FlatTyped
<1>7. /\ Flat(v.psi_q_Wb) \in Seq(Int) /\ Len(Flat(v.psi_q_Wb)) = n
      /\ \A j \in 1..n : Flat(v.psi_q_Wb)[j] = cells["psi_q"][j]
  <2>1. Flat(v.psi_q_Wb) = [k \in 1..n |-> cells["psi_q"][k]]
    <3>1. nd * nq <= area
      BY <1>2, <1>20
    <3>2. Flat(Table(cells["psi_q"], nd, nq)) = [k \in 1..(nd * nq) |-> cells["psi_q"][k]]
      <4>1. /\ nd \in Nat \ {0} /\ nq \in Nat \ {0} /\ area \in Nat
            /\ cells["psi_q"] \in [1..area -> Int] /\ nd * nq <= area
        BY <1>1, <1>2, <3>1
      <4> QED BY <4>1, FlatOfTable
    <3> QED BY <1>20, <1>21, <3>2
  <2> QED BY <1>1, <1>2, <2>1, FlatTyped
<1>8. v.evidence = h["evidence"] /\ v.evidence \in Int
  BY DEF View, Bounded, v
<1>9. v.reals \in [1..5 -> Int] /\ \A i \in 1..5 : v.reals[i] = h[Fields[i + 8]]
  <2>2. \A i \in 1..5 : h[Fields[i + 8]] \in Int
    BY DEF HeadType, FieldNames
  <2> QED BY <1>23, <2>2
<1>10. Shape(v)
  BY <1>3, <1>4, <1>5, <1>6, <1>7, <1>8, <1>9 DEF Shape
<1>11. Shows(v, h, cells)
  BY <1>3, <1>4, <1>5, <1>6, <1>7, <1>8, <1>9, <1>10, <1>20 DEF Shows
<1> QED BY <1>11 DEF v

LEMMA BoundedHead ==
  ASSUME NEW text, NEW h, NEW b \in Nat, HeadAgrees(text, h, b, 13)
  PROVE  Bounded(h)
BY HeadTokens DEF Bounded

LEMMA FirstIs ==
  ASSUME NEW h
  PROVE  /\ First(h, "head") = 0 /\ First(h, "source") = 13
         /\ First(h, "id_axis") = 13 + h["source_length"]
         /\ First(h, "iq_axis") = 13 + h["source_length"] + h["nd"]
         /\ First(h, "psi_d") = 13 + h["source_length"] + h["nd"] + h["nq"]
         /\ First(h, "psi_q")
              = 13 + h["source_length"] + h["nd"] + h["nq"] + h["nd"] * h["nq"]
         /\ First(h, "full")
              = 13 + h["source_length"] + h["nd"] + h["nq"] + h["nd"] * h["nq"]
                  + h["nd"] * h["nq"]
BY DEF First

LEMMA AgreedBytes ==
  ASSUME NEW text, NEW h, NEW cells, NEW b \in Nat, Agreed(text, h, cells, b)
  PROVE  \A j \in 1..h["source_length"] :
           text[(b + 13) + j].n = 2 * cells["source"][j] /\ cells["source"][j] \in 1..255
<1>1. CellsAgree(text, cells["source"], "source", b + 13, h["source_length"])
  BY FirstIs, SizeIs DEF Agreed, Arrays
<1> QED BY <1>1 DEF CellsAgree

LEMMA AgreedValues ==
  ASSUME NEW text, NEW h, NEW cells, NEW b \in Nat, Agreed(text, h, cells, b),
         NEW part \in Arrays \ {"source"}
  PROVE  \A j \in 1..Size(h, part) : text[(b + First(h, part)) + j].n = cells[part][j]
<1>1. CellsAgree(text, cells[part], part, b + First(h, part), Size(h, part))
  BY DEF Agreed
<1> QED BY <1>1 DEF CellsAgree

\* What has been read, written again, is the text it was read from.
LEMMA ViewFollows ==
  ASSUME NEW text, NEW h \in HeadType, NEW cells, NEW b \in Nat,
         CellsTyped(cells), Agreed(text, h, cells, b)
  PROVE  LET w == Written(View(h, cells))
         IN w \in Seq(Int) /\ Len(w) = Total(h) /\ Follows(text, b, w)
<1> DEFINE v == View(h, cells)
           ns == h["source_length"]
           nd == h["nd"]
           nq == h["nq"]
           n == nd * nq
<1>1. Bounded(h) /\ HeadAgrees(text, h, b, 13) /\ Closed(h, cells)
  BY BoundedHead DEF Agreed
<1>2. \A j \in 1..ns : text[(b + 13) + j].n = 2 * cells["source"][j]
                        /\ cells["source"][j] \in 1..255
  BY AgreedBytes
<1>3. /\ Shape(v)
      /\ v.evidence = h["evidence"] /\ \A i \in 1..5 : v.reals[i] = h[Fields[i + 8]]
      /\ Len(v.source) = ns /\ \A j \in 1..ns : v.source[j] = cells["source"][j]
      /\ Len(v.id_A) = nd /\ \A j \in 1..nd : v.id_A[j] = cells["id_axis"][j]
      /\ Len(v.iq_A) = nq /\ \A j \in 1..nq : v.iq_A[j] = cells["iq_axis"][j]
      /\ Len(Flat(v.psi_d_Wb)) = n /\ \A j \in 1..n : Flat(v.psi_d_Wb)[j] = cells["psi_d"][j]
      /\ Len(Flat(v.psi_q_Wb)) = n /\ \A j \in 1..n : Flat(v.psi_q_Wb)[j] = cells["psi_q"][j]
  <2>1. Shows(v, h, cells)
    BY <1>1, <1>2, ViewShape
  <2>2. h["source_length"] = ns /\ h["nd"] = nd /\ h["nq"] = nq /\ n = nd * nq
    OBVIOUS
  <2> HIDE DEF v, ns, nd, nq, n
  <2> QED BY <2>1, <2>2 DEF Shows
<1>4. ns \in Nat /\ nd \in Nat /\ nq \in Nat /\ n \in Nat
  <2>1. nd \in 2..MaxAxis /\ nq \in 2..MaxAxis /\ ns \in 1..MaxSource
    BY <1>1 DEF Bounded
  <2> HIDE DEF nd, nq, ns
  <2> QED BY <2>1, TransportBounds
<1>5. /\ text[b + 1].n = 0 /\ text[b + 2].n = 2 /\ text[b + 3].n = 2 /\ text[b + 4].n = 2
      /\ text[b + 5].n = 2 * nd /\ text[b + 6].n = 2 * nq
      /\ text[b + 7].n = 2 * h["evidence"] /\ text[b + 8].n = 2 * ns
      /\ \A i \in 1..5 : text[b + (i + 8)].n = h[Fields[i + 8]]
  BY <1>1, HeadTokens
<1>6. /\ \A j \in 1..nd : text[(b + (13 + ns)) + j].n = cells["id_axis"][j]
      /\ \A j \in 1..nq : text[(b + (13 + ns + nd)) + j].n = cells["iq_axis"][j]
      /\ \A j \in 1..n : text[(b + (13 + ns + nd + nq)) + j].n = cells["psi_d"][j]
      /\ \A j \in 1..n : text[(b + (13 + ns + nd + nq + n)) + j].n = cells["psi_q"][j]
  <2>1. \A part \in {"id_axis", "iq_axis", "psi_d", "psi_q"} :
          \A j \in 1..Size(h, part) : text[(b + First(h, part)) + j].n = cells[part][j]
    BY AgreedValues DEF Arrays
  <2> QED BY <2>1, SizeIs, FirstIs
<1>7. /\ b + 13 + ns = b + (13 + ns) /\ b + 13 + ns + nd = b + (13 + ns + nd)
      /\ b + 13 + ns + nd + nq = b + (13 + ns + nd + nq)
      /\ b + 13 + ns + nd + nq + n = b + (13 + ns + nd + nq + n)
  <2> HIDE DEF ns, nd, nq, n
  <2> QED BY <1>4
<1>8. Total(h) = 13 + ns + nd + nq + n + n
  BY FirstIs DEF Total
<1> HIDE DEF v, ns, nd, nq, n
<1>9. Follows(text, b, Lead(v))
  <2>1. Lead(v) = <<0, 2, 2, 2, 2 * nd, 2 * nq, 2 * h["evidence"], 2 * ns>>
    BY <1>3 DEF Lead
  <2> QED BY <1>5, <2>1 DEF Follows
<1>10. Follows(text, b + 8, v.reals)
  <2>1. v.reals \in [1..5 -> Int] /\ Len(v.reals) = 5
    BY <1>3 DEF Shape
  <2>2. ASSUME NEW i \in 1..5 PROVE text[(b + 8) + i].n = v.reals[i]
    <3>1. (b + 8) + i = b + (i + 8)
      OBVIOUS
    <3> QED BY <1>3, <1>5, <3>1
  <2> QED BY <2>1, <2>2 DEF Follows
<1>11. Follows(text, b + 13, Doubled(v.source))
  <2>1. Len(Doubled(v.source)) = ns /\ \A i \in 1..ns : Doubled(v.source)[i] = 2 * v.source[i]
    BY <1>3, <1>4 DEF Doubled
  <2>2. ASSUME NEW i \in 1..ns PROVE text[(b + 13) + i].n = Doubled(v.source)[i]
    <3>1. v.source[i] = cells["source"][i]
      BY <1>3
    <3>2. text[(b + 13) + i].n = 2 * cells["source"][i]
      BY <1>2
    <3> QED BY <2>1, <3>1, <3>2
  <2> QED BY <2>1, <2>2 DEF Follows
<1>12. Follows(text, b + 13 + ns, v.id_A)
  BY <1>3, <1>6, <1>7 DEF Follows
<1>13. Follows(text, b + 13 + ns + nd, v.iq_A)
  BY <1>3, <1>6, <1>7 DEF Follows
<1>14. Follows(text, b + 13 + ns + nd + nq, Flat(v.psi_d_Wb))
  BY <1>3, <1>6, <1>7 DEF Follows
<1>15. Follows(text, b + 13 + ns + nd + nq + n, Flat(v.psi_q_Wb))
  BY <1>3, <1>6, <1>7 DEF Follows
<1>16. /\ Written(v) \in Seq(Int)
       /\ Len(Written(v)) = 13 + ns + nd + nq + n + n
       /\ Follows(text, b, Written(v)) <=>
            /\ Follows(text, b, Lead(v))
            /\ Follows(text, b + 8, v.reals)
            /\ Follows(text, b + 13, Doubled(v.source))
            /\ Follows(text, b + 13 + ns, v.id_A)
            /\ Follows(text, b + 13 + ns + nd, v.iq_A)
            /\ Follows(text, b + 13 + ns + nd + nq, Flat(v.psi_d_Wb))
            /\ Follows(text, b + 13 + ns + nd + nq + n, Flat(v.psi_q_Wb))
  BY <1>3, WrittenParts
<1>17. Written(v) \in Seq(Int) /\ Len(Written(v)) = Total(h)
  BY <1>8, <1>16
<1>18. Follows(text, b, Written(v))
  BY <1>9, <1>10, <1>11, <1>12, <1>13, <1>14, <1>15, <1>16
<1> QED BY <1>17, <1>18 DEF v

LEMMA BytesAreNumbers ==
  ASSUME NEW q \in Seq(1..255)
  PROVE  q \in Seq(Int)
<1>1. q \in [1..Len(q) -> 1..255] /\ Len(q) \in Nat
  BY LenProperties
<1>2. q \in [1..Len(q) -> Int]
  <2> DEFINE n == Len(q)
  <2>1. q \in [1..n -> 1..255]
    BY <1>1
  <2> HIDE DEF n
  <2>2. q \in [1..n -> Int]
    <3>1. q = [i \in 1..n |-> q[i]] /\ \A i \in 1..n : q[i] \in 1..255
      BY <2>1
    <3>0. \A x \in 1..255 : x \in Int
      OBVIOUS
    <3>2. \A i \in 1..n : q[i] \in Int
      BY <3>0, <3>1, Zenon
    <3> QED BY <3>1, <3>2
  <2> QED BY <2>2 DEF n
<1> QED BY <1>1, <1>2

LEMMA Halved ==
  ASSUME NEW x \in Int, NEW y \in Int, 2 * x = 2 * y
  PROVE  x = y
OBVIOUS

\* A map the loader has accepted, and its tables.
LEMMA MapShape ==
  ASSUME NEW m \in Maps
  PROVE  LET nd == Len(m.id_A)
             nq == Len(m.iq_A)
         IN /\ Shape(m) /\ m \in MapType /\ nd \in 2..MaxAxis /\ nq \in 2..MaxAxis
            /\ Len(m.source) \in 1..MaxSource
            /\ Len(m.psi_d_Wb) = nd /\ \A r \in 1..nd : Len(m.psi_d_Wb[r]) = nq
            /\ Len(m.psi_q_Wb) = nd /\ \A r \in 1..nd : Len(m.psi_q_Wb[r]) = nq
            /\ Len(Flat(m.psi_d_Wb)) = nd * nq /\ Len(Flat(m.psi_q_Wb)) = nd * nq
<1> DEFINE nd == Len(m.id_A)
           nq == Len(m.iq_A)
<1>1. /\ m \in MapType /\ nd \in 2..MaxAxis /\ nq \in 2..MaxAxis
      /\ Len(m.source) \in 1..MaxSource
      /\ \A rows \in {m.psi_d_Wb, m.psi_q_Wb} :
           Len(rows) = nd /\ \A r \in 1..Len(rows) : Len(rows[r]) = nq
  BY MapsAssumption DEF Loads
<1>2. /\ m.psi_d_Wb \in Seq(Seq(Int)) /\ m.psi_q_Wb \in Seq(Seq(Int))
      /\ m.evidence \in 1..4 /\ m.reals \in [1..5 -> Int]
      /\ m.source \in Seq(1..255) /\ m.id_A \in Seq(Int) /\ m.iq_A \in Seq(Int)
  BY <1>1 DEF MapType
<1>3. nd \in Nat \ {0} /\ nq \in Nat \ {0}
  <2> HIDE DEF nd, nq
  <2> QED BY <1>1, TransportBounds
<1>4. \A rows \in {m.psi_d_Wb, m.psi_q_Wb} :
        /\ rows \in Seq(Seq(Int)) /\ Len(rows) = nd /\ \A r \in 1..nd : Len(rows[r]) = nq
  BY <1>1, <1>2
<1> HIDE DEF nd, nq
<1>5. \A rows \in {m.psi_d_Wb, m.psi_q_Wb} : Flat(rows) \in [1..(nd * nq) -> Int]
  BY <1>3, <1>4, FlatCells
<1>6. \A rows \in {m.psi_d_Wb, m.psi_q_Wb} :
        Flat(rows) \in Seq(Int) /\ Len(Flat(rows)) = nd * nq
  <2>1. nd * nq \in Nat
    BY <1>3
  <2> DEFINE n == nd * nq
  <2> HIDE DEF n
  <2> QED BY <1>5, <2>1 DEF n
<1>7. m.source \in Seq(Int)
  BY <1>2, BytesAreNumbers
<1>8. Shape(m)
  BY <1>2, <1>6, <1>7 DEF Shape
<1> QED BY <1>1, <1>4, <1>6, <1>8 DEF nd, nq

\* The counts read from the text of a map are those of the map.
LEMMA CountsOfMap ==
  ASSUME NEW text, NEW h, NEW b \in Nat, NEW m \in Maps,
         Follows(text, b, Written(m)), HeadAgrees(text, h, b, 13)
  PROVE  /\ h["nd"] = Len(m.id_A) /\ h["nq"] = Len(m.iq_A)
         /\ h["source_length"] = Len(m.source) /\ h["evidence"] = m.evidence
         /\ Total(h) = Len(Written(m))
<1>1. /\ Shape(m) /\ m.evidence \in Int /\ Len(m.id_A) \in Int /\ Len(m.iq_A) \in Int
      /\ Len(m.source) \in Int
  <2>1. /\ Shape(m) /\ Len(m.id_A) \in 2..MaxAxis /\ Len(m.iq_A) \in 2..MaxAxis
        /\ Len(m.source) \in 1..MaxSource
    BY MapShape
  <2> QED BY <2>1 DEF Shape
<1>10. /\ Len(Flat(m.psi_d_Wb)) = Len(m.id_A) * Len(m.iq_A)
      /\ Len(Flat(m.psi_q_Wb)) = Len(m.id_A) * Len(m.iq_A)
  BY MapShape
<1>2. Follows(text, b, Lead(m))
  BY <1>1, WrittenParts
<1>3. /\ Len(Lead(m)) = 8 /\ Lead(m)[5] = 2 * Len(m.id_A) /\ Lead(m)[6] = 2 * Len(m.iq_A)
      /\ Lead(m)[7] = 2 * m.evidence /\ Lead(m)[8] = 2 * Len(m.source)
  BY DEF Lead
<1>4. /\ text[b + 5].n = 2 * Len(m.id_A) /\ text[b + 6].n = 2 * Len(m.iq_A)
      /\ text[b + 7].n = 2 * m.evidence /\ text[b + 8].n = 2 * Len(m.source)
  <2>1. \A i \in 1..8 : text[b + i].n = Lead(m)[i]
    BY <1>2, <1>3 DEF Follows
  <2>2. /\ text[b + 5].n = Lead(m)[5] /\ text[b + 6].n = Lead(m)[6]
        /\ text[b + 7].n = Lead(m)[7] /\ text[b + 8].n = Lead(m)[8]
    BY <2>1
  <2> QED BY <1>3, <2>2
<1>5. /\ text[b + 5].n = 2 * h["nd"] /\ text[b + 6].n = 2 * h["nq"]
      /\ text[b + 7].n = 2 * h["evidence"] /\ text[b + 8].n = 2 * h["source_length"]
      /\ h["nd"] \in Int /\ h["nq"] \in Int /\ h["evidence"] \in Int
      /\ h["source_length"] \in Int
  BY HeadTokens
<1>6. /\ h["nd"] = Len(m.id_A) /\ h["nq"] = Len(m.iq_A)
      /\ h["source_length"] = Len(m.source) /\ h["evidence"] = m.evidence
  <2>1. /\ 2 * h["nd"] = 2 * Len(m.id_A) /\ 2 * h["nq"] = 2 * Len(m.iq_A)
        /\ 2 * h["source_length"] = 2 * Len(m.source) /\ 2 * h["evidence"] = 2 * m.evidence
    BY <1>4, <1>5
  <2> QED BY <1>1, <1>5, <2>1, Halved
<1>7. Total(h) = Len(Written(m))
  <2>1. Total(h) = 13 + h["source_length"] + h["nd"] + h["nq"] + h["nd"] * h["nq"]
                      + h["nd"] * h["nq"]
    BY FirstIs DEF Total
  <2>2. Len(Written(m)) = 13 + Len(m.source) + Len(m.id_A) + Len(m.iq_A)
                            + Len(m.id_A) * Len(m.iq_A) + Len(m.id_A) * Len(m.iq_A)
    BY <1>1, <1>10, WrittenParts
  <2> QED BY <1>6, <2>1, <2>2
<1> QED BY <1>6, <1>7

LEMMA SameSeq ==
  ASSUME NEW q \in Seq(Int), NEW r \in Seq(Int), Len(q) = Len(r), \A i \in 1..Len(q) : q[i] = r[i]
  PROVE  q = r
OBVIOUS

\* The map a slot shows is the one whose text was read.
LEMMA ViewIsMap ==
  ASSUME NEW text, NEW h \in HeadType, NEW cells, NEW b \in Nat, NEW m \in Maps,
         CellsTyped(cells), Agreed(text, h, cells, b), Follows(text, b, Written(m))
  PROVE  View(h, cells) = m
<1> DEFINE v == View(h, cells)
           ns == Len(m.source)
           nd == Len(m.id_A)
           nq == Len(m.iq_A)
           n == nd * nq
<1>1. Bounded(h) /\ HeadAgrees(text, h, b, 13) /\ Closed(h, cells)
  BY BoundedHead DEF Agreed
<1>2. /\ h["nd"] = nd /\ h["nq"] = nq /\ h["source_length"] = ns /\ h["evidence"] = m.evidence
  BY <1>1, CountsOfMap
<1>3. /\ Shape(m) /\ m \in MapType /\ nd \in 2..MaxAxis /\ nq \in 2..MaxAxis /\ ns \in 1..MaxSource
      /\ Len(m.psi_d_Wb) = nd /\ \A r \in 1..nd : Len(m.psi_d_Wb[r]) = nq
      /\ Len(m.psi_q_Wb) = nd /\ \A r \in 1..nd : Len(m.psi_q_Wb[r]) = nq
      /\ Len(Flat(m.psi_d_Wb)) = n /\ Len(Flat(m.psi_q_Wb)) = n
  BY MapShape
<1>4. /\ \A j \in 1..ns : text[(b + 13) + j].n = 2 * cells["source"][j]
                            /\ cells["source"][j] \in 1..255
  BY <1>2, AgreedBytes
<1>5. /\ Shape(v) /\ v.evidence = h["evidence"]
      /\ \A i \in 1..5 : v.reals[i] = h[Fields[i + 8]]
      /\ Len(v.source) = ns /\ \A j \in 1..ns : v.source[j] = cells["source"][j]
      /\ Len(v.id_A) = nd /\ \A j \in 1..nd : v.id_A[j] = cells["id_axis"][j]
      /\ Len(v.iq_A) = nq /\ \A j \in 1..nq : v.iq_A[j] = cells["iq_axis"][j]
  <2>1. \A j \in 1..h["source_length"] : cells["source"][j] \in 1..255
    BY <1>2, <1>4
  <2>2. Shows(v, h, cells)
    BY <1>1, <2>1, ViewShape
  <2> HIDE DEF v, ns, nd, nq
  <2> QED BY <1>2, <2>2 DEF Shows
<1>6. /\ \A i \in 1..5 : text[b + (i + 8)].n = h[Fields[i + 8]]
  BY <1>1, HeadTokens
<1>7. \A part \in {"id_axis", "iq_axis", "psi_d", "psi_q"} :
        \A j \in 1..Size(h, part) : text[(b + First(h, part)) + j].n = cells[part][j]
  BY AgreedValues DEF Arrays
<1>8. /\ Follows(text, b + 8, m.reals)
      /\ Follows(text, b + 13, Doubled(m.source))
      /\ Follows(text, b + 13 + ns, m.id_A)
      /\ Follows(text, b + 13 + ns + nd, m.iq_A)
      /\ Follows(text, b + 13 + ns + nd + nq, Flat(m.psi_d_Wb))
      /\ Follows(text, b + 13 + ns + nd + nq + n, Flat(m.psi_q_Wb))
  BY <1>3, WrittenParts
<1>9. ns \in Nat /\ nd \in Nat \ {0} /\ nq \in Nat \ {0} /\ n \in Nat
  <2>1. nd \in Nat \ {0} /\ nq \in Nat \ {0} /\ ns \in Nat
    BY <1>3, TransportBounds
  <2> HIDE DEF nd, nq, ns
  <2> QED BY <2>1
<1>10. /\ v.psi_d_Wb = Table(cells["psi_d"], nd, nq) /\ v.psi_q_Wb = Table(cells["psi_q"], nd, nq)
  BY <1>2 DEF View
<1>11. v = [evidence |-> v.evidence, reals |-> v.reals, source |-> v.source, id_A |-> v.id_A,
            iq_A |-> v.iq_A, psi_d_Wb |-> v.psi_d_Wb, psi_q_Wb |-> v.psi_q_Wb]
  BY DEF View
<1>12. /\ b + 13 + ns = b + (13 + ns) /\ b + 13 + ns + nd = b + (13 + ns + nd)
       /\ b + 13 + ns + nd + nq = b + (13 + ns + nd + nq)
       /\ b + 13 + ns + nd + nq + n = b + (13 + ns + nd + nq + n)
  <2> HIDE DEF ns, nd, nq, n
  <2> QED BY <1>9
<1>13. /\ \A j \in 1..nd : text[(b + 13 + ns) + j].n = cells["id_axis"][j]
       /\ \A j \in 1..nq : text[(b + 13 + ns + nd) + j].n = cells["iq_axis"][j]
       /\ \A j \in 1..n : text[(b + 13 + ns + nd + nq) + j].n = cells["psi_d"][j]
       /\ \A j \in 1..n : text[(b + 13 + ns + nd + nq + n) + j].n = cells["psi_q"][j]
  <2>1. /\ Size(h, "id_axis") = nd /\ Size(h, "iq_axis") = nq
        /\ Size(h, "psi_d") = n /\ Size(h, "psi_q") = n
    BY <1>2, SizeIs
  <2>2. /\ First(h, "id_axis") = 13 + ns /\ First(h, "iq_axis") = 13 + ns + nd
        /\ First(h, "psi_d") = 13 + ns + nd + nq /\ First(h, "psi_q") = 13 + ns + nd + nq + n
    BY <1>2, FirstIs
  <2> HIDE DEF ns, nd, nq, n
  <2> QED BY <1>7, <1>12, <2>1, <2>2
<1> HIDE DEF v, ns, nd, nq, n
<1>14. v.reals = m.reals
  <2>1. v.reals \in [1..5 -> Int] /\ m.reals \in [1..5 -> Int] /\ Len(m.reals) = 5
    <3>1. v.reals \in [1..5 -> Int] /\ m.reals \in [1..5 -> Int]
      BY <1>3, <1>5 DEF Shape
    <3> QED BY <3>1
  <2>2. ASSUME NEW i \in 1..5 PROVE v.reals[i] = m.reals[i]
    <3>1. text[(b + 8) + i].n = m.reals[i]
      BY <1>8, <2>1 DEF Follows
    <3>2. (b + 8) + i = b + (i + 8)
      OBVIOUS
    <3> QED BY <1>5, <1>6, <3>1, <3>2
  <2> QED BY <2>1, <2>2
<1>15. v.source = m.source
  <2>1. v.source \in Seq(Int) /\ m.source \in Seq(Int) /\ Len(m.source) = ns
    BY <1>3, <1>5 DEF Shape, ns
  <2>2. ASSUME NEW i \in 1..ns PROVE v.source[i] = m.source[i]
    <3>1. Len(Doubled(m.source)) = ns /\ Doubled(m.source)[i] = 2 * m.source[i]
      BY <2>1 DEF Doubled
    <3>2. text[(b + 13) + i].n = 2 * m.source[i]
      BY <1>8, <3>1 DEF Follows
    <3>3. text[(b + 13) + i].n = 2 * v.source[i]
      BY <1>4, <1>5
    <3>4. m.source[i] \in Int /\ v.source[i] \in Int
      BY <1>5, <2>1
    <3> QED BY <3>2, <3>3, <3>4
  <2> QED BY <1>5, <2>1, <2>2, SameSeq
<1>16. v.id_A = m.id_A
  <2>1. v.id_A \in Seq(Int) /\ m.id_A \in Seq(Int) /\ Len(m.id_A) = nd
    BY <1>3, <1>5 DEF Shape, nd
  <2>2. \A i \in 1..nd : v.id_A[i] = m.id_A[i]
    BY <1>5, <1>8, <1>13, <2>1 DEF Follows
  <2> QED BY <1>5, <2>1, <2>2, SameSeq
<1>17. v.iq_A = m.iq_A
  <2>1. v.iq_A \in Seq(Int) /\ m.iq_A \in Seq(Int) /\ Len(m.iq_A) = nq
    BY <1>3, <1>5 DEF Shape, nq
  <2>2. \A i \in 1..nq : v.iq_A[i] = m.iq_A[i]
    BY <1>5, <1>8, <1>13, <2>1 DEF Follows
  <2> QED BY <1>5, <2>1, <2>2, SameSeq
<1>18. n <= MaxAxis * MaxAxis /\ MaxAxis * MaxAxis \in Nat
  <2>1. n <= MaxAxis * MaxAxis
    BY <1>3, TablesFit DEF n
  <2> QED BY <2>1, TransportBounds
<1>19. v.psi_d_Wb = m.psi_d_Wb
  <2>1. \A k \in 1..n : cells["psi_d"][k] = Flat(m.psi_d_Wb)[k]
    BY <1>3, <1>8, <1>13 DEF Follows
  <2>2. m.psi_d_Wb \in Seq(Seq(Int)) /\ cells["psi_d"] \in [1..(MaxAxis * MaxAxis) -> Int]
    BY <1>3, RoomIs DEF MapType, CellsTyped, Arrays
  <2> DEFINE area == MaxAxis * MaxAxis
             rows == m.psi_d_Wb
             values == cells["psi_d"]
  <2>3. /\ rows \in Seq(Seq(Int)) /\ nd \in Nat \ {0} /\ nq \in Nat \ {0}
        /\ Len(rows) = nd
        /\ area \in Nat /\ values \in [1..area -> Int] /\ nd * nq <= area
    BY <1>3, <1>9, <1>18, <2>1, <2>2 DEF n
  <2>5. \A r \in 1..nd : Len(rows[r]) = nq
    BY <1>3
  <2>6. \A k \in 1..(nd * nq) : values[k] = Flat(rows)[k]
    BY <2>1 DEF n
  <2> HIDE DEF area, rows, values
  <2>4. Table(values, nd, nq) = rows
    <3>1. LaidOut(rows, nd, nq, values, area)
      BY <2>3, <2>5, <2>6 DEF LaidOut
    <3> QED BY <3>1, TableOfFlat
  <2> QED BY <1>10, <2>4 DEF rows, values
<1>20. v.psi_q_Wb = m.psi_q_Wb
  <2>1. \A k \in 1..n : cells["psi_q"][k] = Flat(m.psi_q_Wb)[k]
    BY <1>3, <1>8, <1>13 DEF Follows
  <2>2. m.psi_q_Wb \in Seq(Seq(Int)) /\ cells["psi_q"] \in [1..(MaxAxis * MaxAxis) -> Int]
    BY <1>3, RoomIs DEF MapType, CellsTyped, Arrays
  <2> DEFINE area == MaxAxis * MaxAxis
             rows == m.psi_q_Wb
             values == cells["psi_q"]
  <2>3. /\ rows \in Seq(Seq(Int)) /\ nd \in Nat \ {0} /\ nq \in Nat \ {0}
        /\ Len(rows) = nd
        /\ area \in Nat /\ values \in [1..area -> Int] /\ nd * nq <= area
    BY <1>3, <1>9, <1>18, <2>1, <2>2 DEF n
  <2>5. \A r \in 1..nd : Len(rows[r]) = nq
    BY <1>3
  <2>6. \A k \in 1..(nd * nq) : values[k] = Flat(rows)[k]
    BY <2>1 DEF n
  <2> HIDE DEF area, rows, values
  <2>4. Table(values, nd, nq) = rows
    <3>1. LaidOut(rows, nd, nq, values, area)
      BY <2>3, <2>5, <2>6 DEF LaidOut
    <3> QED BY <3>1, TableOfFlat
  <2> QED BY <1>10, <2>4 DEF rows, values
<1>21. v.evidence = m.evidence
  BY <1>2, <1>5
<1>22. m = [evidence |-> m.evidence, reals |-> m.reals, source |-> m.source, id_A |-> m.id_A,
            iq_A |-> m.iq_A, psi_d_Wb |-> m.psi_d_Wb, psi_q_Wb |-> m.psi_q_Wb]
  BY <1>3 DEF MapType
<1> QED BY <1>11, <1>14, <1>15, <1>16, <1>17, <1>19, <1>20, <1>21, <1>22 DEF v

-----------------------------------------------------------------------------
(* A map half read.                                                        *)

Rank ==
  [head |-> 0, source |-> 1, id_axis |-> 2, iq_axis |-> 3, psi_d |-> 4, psi_q |-> 5, full |-> 6]

\* How much of a part has been read when the call is at a place.
Reads(h, part, place) ==
  IF part = place[1] THEN place[2] - 1
  ELSE IF Rank[part] < Rank[place[1]] THEN Size(h, part) ELSE 0

Place(h, place) ==
  /\ place = <<place[1], place[2]>> /\ place[1] \in DOMAIN Rank /\ place[2] \in Nat \ {0}
  /\ IF place[1] = "full" THEN place[2] = 1 ELSE place[2] <= Size(h, place[1])

\* All of a map's text up to token k is where it belongs.
Placed(text, h, cells, b, place, k) ==
  /\ Place(h, place)
  /\ k = b + First(h, place[1]) + place[2]
  /\ HeadAgrees(text, h, b, IF place[1] = "head" THEN place[2] - 1 ELSE 13)
  /\ \A part \in Arrays :
       CellsAgree(text, cells[part], part, b + First(h, part), Reads(h, part, place))
  /\ Rank[place[1]] > 1 => Closed(h, cells)

\* A finished map points into the slot that holds what its text says.
Holds(text, m, s, cells, b) ==
  /\ m = [slot |-> s, head |-> m.head]
  /\ m.head \in HeadType
  /\ Agreed(text, m.head, cells, b)

LEMMA RankIs ==
  /\ DOMAIN Rank = Arrays \cup {"head", "full"}
  /\ Rank["head"] = 0 /\ Rank["source"] = 1 /\ Rank["id_axis"] = 2 /\ Rank["iq_axis"] = 3
  /\ Rank["psi_d"] = 4 /\ Rank["psi_q"] = 5 /\ Rank["full"] = 6
BY DEF Rank, Arrays

LEMMA NextIs ==
  /\ NextPart["head"] = "source" /\ NextPart["source"] = "id_axis"
  /\ NextPart["id_axis"] = "iq_axis" /\ NextPart["iq_axis"] = "psi_d"
  /\ NextPart["psi_d"] = "psi_q" /\ NextPart["psi_q"] = "full"
BY DEF NextPart

\* A part fits into its room, and the one after it begins where it ends.
LEMMA SizesFit ==
  ASSUME NEW h, Bounded(h), NEW part \in Arrays
  PROVE  /\ Size(h, part) \in Nat \ {0} /\ First(h, part) \in Nat
         /\ Room(part) \in Nat /\ Size(h, part) <= Room(part)
         /\ part = "source" => Size(h, part) + 1 <= Room(part)
         /\ First(h, NextPart[part]) = First(h, part) + Size(h, part)
         /\ First(h, part) + Size(h, part) <= Total(h) /\ First(h, part) > 0
         /\ Total(h) \in Nat
<1> DEFINE ns == h["source_length"]
           nd == h["nd"]
           nq == h["nq"]
           n == nd * nq
           area == MaxAxis * MaxAxis
<1>1. /\ ns \in Nat \ {0} /\ nd \in Nat \ {0} /\ nq \in Nat \ {0} /\ n \in Nat \ {0}
      /\ ns <= MaxSource /\ nd <= MaxAxis /\ nq <= MaxAxis /\ n <= area
      /\ MaxAxis \in Nat /\ MaxSource \in Nat /\ area \in Nat
  BY TransportBounds, TablesFit DEF Bounded
<1>2. /\ Size(h, "source") = ns /\ Size(h, "id_axis") = nd /\ Size(h, "iq_axis") = nq
      /\ Size(h, "psi_d") = n /\ Size(h, "psi_q") = n
  BY SizeIs
<1>3. /\ First(h, "source") = 13
      /\ First(h, "id_axis") = 13 + ns
      /\ First(h, "iq_axis") = 13 + ns + nd
      /\ First(h, "psi_d") = 13 + ns + nd + nq
      /\ First(h, "psi_q") = 13 + ns + nd + nq + n
      /\ First(h, "full") = 13 + ns + nd + nq + n + n
      /\ Total(h) = 13 + ns + nd + nq + n + n
  BY FirstIs DEF Total
<1>4. /\ Room("source") = MaxSource + 1 /\ Room("id_axis") = MaxAxis
      /\ Room("iq_axis") = MaxAxis /\ Room("psi_d") = area /\ Room("psi_q") = area
  BY RoomIs
<1> HIDE DEF ns, nd, nq, n, area
<1>5. CASE part = "source"
  BY <1>1, <1>2, <1>3, <1>4, <1>5, NextIs
<1>6. CASE part = "id_axis"
  BY <1>1, <1>2, <1>3, <1>4, <1>6, NextIs
<1>7. CASE part = "iq_axis"
  BY <1>1, <1>2, <1>3, <1>4, <1>7, NextIs
<1>8. CASE part = "psi_d"
  BY <1>1, <1>2, <1>3, <1>4, <1>8, NextIs
<1>9. CASE part = "psi_q"
  BY <1>1, <1>2, <1>3, <1>4, <1>9, NextIs
<1> QED BY <1>5, <1>6, <1>7, <1>8, <1>9 DEF Arrays

LEMMA NoneAgree ==
  ASSUME NEW text, NEW cells, NEW part, NEW b
  PROVE  CellsAgree(text, cells, part, b, 0)
BY DEF CellsAgree

\* What a header field keeps of its token.
Kept(f, n) == IF f \in DOMAIN Whole THEN n \div 2 ELSE n

LEMMA KeptIsCoded ==
  ASSUME NEW i \in 1..13, NEW t \in Token, Accepts(<<"head", i>>, t)
  PROVE  LET f == Fields[i]
         IN /\ Kept(f, t.n) \in Int /\ t.n = Coded(f, Kept(f, t.n))
            /\ f \in DOMAIN Whole => Kept(f, t.n) \in Whole[f]
<1> DEFINE f == Fields[i]
<1>1. t.n \in Int /\ (t.kind = "magic" => t.n = 0)
  BY DEF Token
<1>2. /\ f = "magic" => t.kind = "magic"
      /\ f # "magic" /\ f \notin Reals => IsInteger(t, Whole[f])
  BY DEF Accepts
<1>3. "magic" \notin DOMAIN Whole
  BY WholeIs
<1>4. CASE f = "magic"
  BY <1>1, <1>2, <1>3, <1>4 DEF Kept, Coded
<1>5. CASE f # "magic" /\ f \notin DOMAIN Whole
  BY <1>1, <1>5 DEF Kept, Coded
<1>6. CASE f \in DOMAIN Whole
  <2>1. f \notin Reals
    <3>1. \A j \in 9..13 : Fields[j] \notin DOMAIN Whole
      BY FieldIs, WholeIs
    <3> QED BY <1>6, <3>1 DEF Reals
  <2>2. t.n % 2 = 0 /\ t.n \div 2 \in Whole[f]
    BY <1>2, <1>3, <1>6, <2>1 DEF IsInteger
  <2>3. Kept(f, t.n) = t.n \div 2 /\ Coded(f, Kept(f, t.n)) = 2 * (t.n \div 2)
    BY <1>3, <1>6 DEF Kept, Coded
  <2>4. 2 * (t.n \div 2) = t.n /\ t.n \div 2 \in Int
    BY <1>1, <2>2
  <2> QED BY <1>6, <2>2, <2>3, <2>4
<1> QED BY <1>4, <1>5, <1>6

\* Taking a field of the header.
LEMMA FieldTaken ==
  ASSUME NEW text, NEW h \in HeadType, NEW cells, NEW b \in Nat, NEW i \in 1..13, NEW k \in Nat,
         Placed(text, h, cells, b, <<"head", i>>, k),
         text[k] \in Token, Accepts(<<"head", i>>, text[k]),
         NEW g, g = [h EXCEPT ![Fields[i]] = Kept(Fields[i], text[k].n)]
  PROVE  /\ g \in HeadType
         /\ Placed(text, g, cells, b, IF i < 13 THEN <<"head", i + 1>> ELSE <<"source", 1>>, k + 1)
<1> DEFINE f == Fields[i]
           place == IF i < 13 THEN <<"head", i + 1>> ELSE <<"source", 1>>
<1>1. k = b + i /\ HeadAgrees(text, h, b, i - 1)
  BY FirstIs DEF Placed
<1>2. /\ Kept(f, text[k].n) \in Int /\ text[k].n = Coded(f, Kept(f, text[k].n))
      /\ f \in DOMAIN Whole => Kept(f, text[k].n) \in Whole[f]
  BY KeptIsCoded
<1>3. /\ f \in FieldNames /\ g \in HeadType /\ g[f] = Kept(f, text[k].n)
      /\ \A e \in FieldNames \ {f} : g[e] = h[e]
  BY <1>2 DEF HeadType, FieldNames
<1>4. HeadAgrees(text, g, b, i)
  <2> SUFFICES ASSUME NEW j \in 1..i
               PROVE  /\ text[b + j].n = Coded(Fields[j], g[Fields[j]])
                      /\ Fields[j] \in DOMAIN Whole => g[Fields[j]] \in Whole[Fields[j]]
    BY DEF HeadAgrees
  <2>1. CASE j = i
    BY <1>1, <1>2, <1>3, <2>1
  <2>2. CASE j # i
    <3>1. j \in 1..(i - 1) /\ j \in 1..13
      BY <2>2
    <3>2. Fields[j] # f /\ Fields[j] \in FieldNames
      BY <2>2, <3>1, FieldsDiffer DEF FieldNames
    <3>3. g[Fields[j]] = h[Fields[j]]
      BY <1>3, <3>2
    <3> QED BY <1>1, <3>1, <3>3 DEF HeadAgrees
  <2> QED BY <2>1, <2>2
<1>5. \A part \in Arrays :
        CellsAgree(text, cells[part], part, b + First(g, part), Reads(g, part, place))
  <2> SUFFICES ASSUME NEW part \in Arrays PROVE Reads(g, part, place) = 0
    BY NoneAgree
  <2>1. CASE i < 13
    BY <2>1, RankIs DEF Reads, Arrays
  <2>2. CASE ~(i < 13)
    BY <2>2, RankIs DEF Reads, Arrays
  <2> QED BY <2>1, <2>2
<1>6. ~(Rank[place[1]] > 1)
  BY RankIs
<1>7. CASE i < 13
  <2>1. Place(g, place) /\ place[1] = "head" /\ place[2] = i + 1
    BY <1>7, RankIs, SizeIs DEF Place
  <2>2. k + 1 = b + First(g, "head") + (i + 1) /\ (i + 1) - 1 = i
    BY <1>1, FirstIs
  <2> QED BY <1>3, <1>4, <1>5, <1>6, <1>7, <2>1, <2>2 DEF Placed
<1>8. CASE ~(i < 13)
  <2>1. i = 13
    BY <1>8
  <2>2. Bounded(g)
    BY <1>4, <2>1, BoundedHead
  <2>3. 1 <= Size(g, "source")
    BY <2>2, SizesFit DEF Arrays
  <2>4. Place(g, place) /\ place[1] = "source" /\ place[2] = 1
    BY <1>8, <2>3, RankIs DEF Place, Arrays
  <2>5. k + 1 = b + First(g, "source") + 1
    BY <1>1, <2>1, FirstIs
  <2> QED BY <1>3, <1>4, <1>5, <1>6, <1>8, <2>1, <2>4, <2>5 DEF Placed
<1> QED BY <1>7, <1>8

\* What storing a cell does to its slot.
Put(h, cells, place, n) ==
  IF place[1] # "source" THEN [cells EXCEPT ![place[1]][place[2]] = n]
  ELSE LET bytes == [cells EXCEPT !["source"][place[2]] = n \div 2]
       IN IF place[2] = h["source_length"] THEN [bytes EXCEPT !["source"][place[2] + 1] = 0]
          ELSE bytes

LEMMA PutIs ==
  ASSUME NEW h, Bounded(h), NEW cells, CellsTyped(cells), NEW part \in Arrays,
         NEW j \in 1..Size(h, part), NEW n \in Int
  PROVE  LET d == Put(h, cells, <<part, j>>, n)
         IN /\ CellsTyped(d)
            /\ d[part][j] = IF part = "source" THEN n \div 2 ELSE n
            /\ \A i \in 1..(j - 1) : d[part][i] = cells[part][i]
            /\ \A other \in Arrays \ {part} : d[other] = cells[other]
            /\ part = "source" /\ j = h["source_length"] => Closed(h, d)
<1> DEFINE d == Put(h, cells, <<part, j>>, n)
           room == Room(part)
           size == Size(h, part)
           old == cells[part]
<1>1. /\ DOMAIN cells = Arrays /\ \A other \in Arrays : cells[other] \in [1..Room(other) -> Int]
      /\ old \in [1..room -> Int]
  BY DEF CellsTyped
<1>2. /\ size \in Nat /\ room \in Nat /\ size <= room
      /\ part = "source" => size + 1 <= room /\ size = h["source_length"]
  BY SizesFit, SizeIs
<1>3. j \in 1..size
  OBVIOUS
<1> HIDE DEF room, size, old
<1>4. j \in 1..room /\ \A i \in 1..(j - 1) : i \in 1..room /\ i # j
  BY <1>2, <1>3
<1>5. CASE part # "source"
  <2>1. d = [cells EXCEPT ![part] = [old EXCEPT ![j] = n]]
    BY <1>5 DEF Put, old
  <2>2. /\ d[part] = [old EXCEPT ![j] = n] /\ DOMAIN d = Arrays
        /\ \A other \in Arrays \ {part} : d[other] = cells[other]
    BY <1>1, <2>1
  <2> HIDE DEF d
  <2>3. [old EXCEPT ![j] = n] \in [1..room -> Int]
    BY <1>1, <1>4
  <2>4. CellsTyped(d)
    BY <1>1, <2>2, <2>3 DEF CellsTyped, room
  <2>5. d[part][j] = n /\ \A i \in 1..(j - 1) : d[part][i] = old[i]
    BY <1>1, <1>4, <2>2
  <2> QED BY <1>5, <2>2, <2>4, <2>5 DEF d, old
<1>6. CASE part = "source" /\ j # h["source_length"]
  <2>1. d = [cells EXCEPT ![part] = [old EXCEPT ![j] = n \div 2]]
    BY <1>6 DEF Put, old
  <2>2. /\ d[part] = [old EXCEPT ![j] = n \div 2] /\ DOMAIN d = Arrays
        /\ \A other \in Arrays \ {part} : d[other] = cells[other]
    BY <1>1, <2>1
  <2> HIDE DEF d
  <2>3. [old EXCEPT ![j] = n \div 2] \in [1..room -> Int]
    BY <1>1, <1>4
  <2>4. CellsTyped(d)
    BY <1>1, <2>2, <2>3 DEF CellsTyped, room
  <2>5. d[part][j] = n \div 2 /\ \A i \in 1..(j - 1) : d[part][i] = old[i]
    BY <1>1, <1>4, <2>2
  <2> QED BY <1>6, <2>2, <2>4, <2>5 DEF d, old
<1>7. CASE part = "source" /\ j = h["source_length"]
  <2> DEFINE new == [[old EXCEPT ![j] = n \div 2] EXCEPT ![j + 1] = 0]
  <2>1. d = [[cells EXCEPT ![part] = [old EXCEPT ![j] = n \div 2]] EXCEPT ![part][j + 1] = 0]
    BY <1>7 DEF Put, old
  <2>2. /\ d[part] = new /\ DOMAIN d = Arrays
        /\ \A other \in Arrays \ {part} : d[other] = cells[other]
    BY <1>1, <2>1
  <2> HIDE DEF d
  <2>3. j + 1 \in 1..room /\ j + 1 # j /\ \A i \in 1..(j - 1) : i # j + 1
    BY <1>2, <1>4, <1>7
  <2>4. /\ new \in [1..room -> Int] /\ new[j] = n \div 2 /\ new[j + 1] = 0
        /\ \A i \in 1..(j - 1) : new[i] = old[i]
    BY <1>1, <1>4, <2>3
  <2> HIDE DEF new
  <2>5. CellsTyped(d)
    BY <1>1, <2>2, <2>4 DEF CellsTyped, room
  <2>6. Closed(h, d)
    BY <1>7, <2>2, <2>4 DEF Closed
  <2> QED BY <1>7, <2>2, <2>4, <2>5, <2>6 DEF d, old
<1> QED BY <1>5, <1>6, <1>7

LEMMA AcceptedValue ==
  ASSUME NEW part \in Arrays, NEW j, NEW t \in Token, Accepts(<<part, j>>, t)
  PROVE  /\ t.n \in Int
         /\ part = "source" => t.n = 2 * (t.n \div 2) /\ t.n \div 2 \in 1..255
<1>1. t.n \in Int
  BY DEF Token
<1>2. CASE part = "source"
  <2>1. IsInteger(t, 1..255)
    BY <1>2 DEF Accepts
  <2>2. t.n % 2 = 0 /\ t.n \div 2 \in 1..255
    BY <2>1 DEF IsInteger
  <2> QED BY <1>1, <2>2
<1> QED BY <1>1, <1>2

\* Taking a cell.
LEMMA CellTaken ==
  ASSUME NEW text, NEW h \in HeadType, NEW cells, CellsTyped(cells), NEW b \in Nat,
         NEW part \in Arrays, NEW j \in Nat, NEW k \in Nat,
         Placed(text, h, cells, b, <<part, j>>, k),
         text[k] \in Token, Accepts(<<part, j>>, text[k])
  PROVE  LET d == Put(h, cells, <<part, j>>, text[k].n)
             place == IF j < Size(h, part) THEN <<part, j + 1>> ELSE <<NextPart[part], 1>>
         IN CellsTyped(d) /\ Placed(text, h, d, b, place, k + 1)
<1> DEFINE d == Put(h, cells, <<part, j>>, text[k].n)
           place == IF j < Size(h, part) THEN <<part, j + 1>> ELSE <<NextPart[part], 1>>
           size == Size(h, part)
<1>1. /\ HeadAgrees(text, h, b, 13) /\ Bounded(h) /\ j \in 1..size
      /\ k = (b + First(h, part)) + j
      /\ Rank[part] > 1 => Closed(h, cells)
      /\ \A other \in Arrays :
           CellsAgree(text, cells[other], other, b + First(h, other), Reads(h, other, <<part, j>>))
  <2>1. part # "head" /\ part # "full"
    BY DEF Arrays
  <2>2. HeadAgrees(text, h, b, 13) /\ j \in Nat \ {0} /\ j <= size
    BY <2>1 DEF Placed, Place
  <2> HIDE DEF size
  <2>3. Bounded(h)
    BY <2>2, BoundedHead
  <2>4. size \in Nat
    BY <2>3, SizesFit DEF size
  <2>5. j \in 1..size
    BY <2>2, <2>4
  <2> QED BY <2>2, <2>3, <2>5 DEF Placed
<1>2. /\ text[k].n \in Int
      /\ part = "source" =>
           text[k].n = 2 * (text[k].n \div 2) /\ text[k].n \div 2 \in 1..255
  BY AcceptedValue
<1>3. /\ CellsTyped(d)
      /\ d[part][j] = IF part = "source" THEN text[k].n \div 2 ELSE text[k].n
      /\ \A i \in 1..(j - 1) : d[part][i] = cells[part][i]
      /\ \A other \in Arrays \ {part} : d[other] = cells[other]
      /\ part = "source" /\ j = h["source_length"] => Closed(h, d)
  BY <1>1, <1>2, PutIs
<1>4. /\ size \in Nat /\ First(h, part) \in Nat
      /\ First(h, NextPart[part]) = First(h, part) + size
  BY <1>1, SizesFit
<1> HIDE DEF d
<1>5. CellsAgree(text, d[part], part, b + First(h, part), j)
  <2>1. Reads(h, part, <<part, j>>) = j - 1
    BY DEF Reads
  <2>2. CellsAgree(text, cells[part], part, b + First(h, part), j - 1)
    BY <1>1, <2>1
  <2> SUFFICES ASSUME NEW i \in 1..j
               PROVE  IF part = "source"
                      THEN /\ text[(b + First(h, part)) + i].n = 2 * d[part][i]
                           /\ d[part][i] \in 1..255
                      ELSE text[(b + First(h, part)) + i].n = d[part][i]
    BY DEF CellsAgree
  <2>3. CASE i = j
    BY <1>1, <1>2, <1>3, <2>3
  <2>4. CASE i # j
    <3>1. i \in 1..(j - 1)
      BY <2>4
    <3>2. d[part][i] = cells[part][i]
      BY <1>3, <3>1
    <3>3. IF part = "source"
          THEN /\ text[(b + First(h, part)) + i].n = 2 * cells[part][i]
               /\ cells[part][i] \in 1..255
          ELSE text[(b + First(h, part)) + i].n = cells[part][i]
      BY <2>2, <3>1 DEF CellsAgree
    <3> QED BY <3>2, <3>3
  <2> QED BY <2>3, <2>4
<1>6. Closed(h, cells) /\ part # "source" => Closed(h, d)
  <2>1. "source" \in Arrays
    BY DEF Arrays
  <2> QED BY <1>3, <2>1 DEF Closed
<1>7. CASE j < size
  <2>1. /\ place[1] = part /\ place[2] = j + 1 /\ place = <<part, j + 1>>
        /\ (j + 1) - 1 = j /\ j + 1 <= size
    BY <1>1, <1>4, <1>7
  <2> HIDE DEF place, size
  <2>2. Place(h, place)
    BY <1>1, <2>1, RankIs DEF Place, Arrays, size
  <2>3. \A other \in Arrays :
          CellsAgree(text, d[other], other, b + First(h, other), Reads(h, other, place))
    <3> SUFFICES ASSUME NEW other \in Arrays
                 PROVE  CellsAgree(text, d[other], other, b + First(h, other),
                                   Reads(h, other, place))
      OBVIOUS
    <3>1. CASE other = part
      <4>1. Reads(h, other, place) = j
        BY <2>1, <3>1 DEF Reads
      <4> QED BY <1>5, <3>1, <4>1
    <3>2. CASE other # part
      <4>1. Reads(h, other, place) = Reads(h, other, <<part, j>>)
        BY <2>1, <3>2 DEF Reads
      <4> QED BY <1>1, <1>3, <3>2, <4>1
    <3> QED BY <3>1, <3>2
  <2>4. k + 1 = b + First(h, part) + (j + 1)
    BY <1>1, <1>4
  <2>5. part = "source" => Rank[part] = 1
    BY RankIs
  <2>6. part # "head"
    BY DEF Arrays
  <2>7. Rank[place[1]] > 1 => Closed(h, d)
    BY <1>1, <1>6, <2>1, <2>5
  <2>8. Placed(text, h, d, b, place, k + 1)
    BY <1>1, <2>1, <2>2, <2>3, <2>4, <2>6, <2>7 DEF Placed
  <2> QED BY <1>3, <2>8 DEF d, place, size
<1>8. CASE ~(j < size)
  <2>1. j = size /\ place = <<NextPart[part], 1>> /\ place[1] = NextPart[part] /\ place[2] = 1
    BY <1>1, <1>4, <1>8
  <2> HIDE DEF place, size
  <2>2. /\ NextPart[part] \in DOMAIN Rank /\ NextPart[part] # "head"
        /\ NextPart[part] # part /\ Rank[NextPart[part]] = Rank[part] + 1 /\ Rank[part] \in 1..5
        /\ NextPart[part] # "full" => NextPart[part] \in Arrays
    BY NextIs, RankIs DEF Arrays
  <2>3. Place(h, place)
    <3>1. CASE NextPart[part] = "full"
      BY <2>1, <2>2, <3>1 DEF Place
    <3>2. CASE NextPart[part] # "full"
      <4>1. Size(h, NextPart[part]) \in Nat \ {0}
        BY <1>1, <2>2, <3>2, SizesFit
      <4> QED BY <2>1, <2>2, <3>2, <4>1 DEF Place
    <3> QED BY <3>1, <3>2
  <2>4. \A other \in Arrays :
          CellsAgree(text, d[other], other, b + First(h, other), Reads(h, other, place))
    <3> SUFFICES ASSUME NEW other \in Arrays
                 PROVE  CellsAgree(text, d[other], other, b + First(h, other),
                                   Reads(h, other, place))
      OBVIOUS
    <3>1. CASE other = part
      <4>1. Reads(h, other, place) = j
        BY <2>1, <2>2, <3>1 DEF Reads, size
      <4> QED BY <1>5, <3>1, <4>1
    <3>2. CASE other = NextPart[part]
      <4>1. Reads(h, other, place) = 0
        BY <2>1, <3>2 DEF Reads
      <4> QED BY <4>1, NoneAgree
    <3>3. CASE other # part /\ other # NextPart[part]
      <4>1. Rank[other] # Rank[part] /\ Rank[other] # Rank[part] + 1 /\ Rank[other] \in 1..5
        BY <3>3, NextIs, RankIs DEF Arrays
      <4>2. Reads(h, other, place) = Reads(h, other, <<part, j>>)
        BY <2>1, <2>2, <3>3, <4>1 DEF Reads
      <4> QED BY <1>1, <1>3, <3>3, <4>2
    <3> QED BY <3>1, <3>2, <3>3
  <2>5. k + 1 = b + First(h, NextPart[part]) + 1
    BY <1>1, <1>4, <2>1
  <2>6. Closed(h, d)
    <3>1. CASE part = "source"
      BY <1>3, <2>1, <3>1, SizeIs DEF size
    <3>2. CASE part # "source"
      <4>1. Rank[part] > 1
        BY <3>2, RankIs DEF Arrays
      <4> QED BY <1>1, <1>6, <3>2, <4>1
    <3> QED BY <3>1, <3>2
  <2>7. Placed(text, h, d, b, place, k + 1)
    BY <1>1, <2>1, <2>2, <2>3, <2>4, <2>5, <2>6 DEF Placed
  <2> QED BY <1>3, <2>7 DEF d, place, size
<1> QED BY <1>7, <1>8

\* A call begins with nothing in place.
LEMMA NothingPlaced ==
  ASSUME NEW text, NEW cells, NEW b \in Nat
  PROVE  Empty \in HeadType /\ Placed(text, Empty, cells, b, <<"head", 1>>, b + 1)
<1>1. Empty \in HeadType
  BY DEF Empty, HeadType, FieldNames
<1>2. Place(Empty, <<"head", 1>>)
  BY RankIs, SizeIs DEF Place
<1>3. \A part \in Arrays :
        CellsAgree(text, cells[part], part, b + First(Empty, part),
                   Reads(Empty, part, <<"head", 1>>))
  <2> SUFFICES ASSUME NEW part \in Arrays PROVE Reads(Empty, part, <<"head", 1>>) = 0
    BY NoneAgree
  <2> QED BY RankIs DEF Reads, Arrays
<1>4. HeadAgrees(text, Empty, b, 0)
  BY DEF HeadAgrees
<1>5. b + 1 = b + First(Empty, "head") + 1 /\ ~(Rank["head"] > 1)
  BY FirstIs, RankIs
<1> QED BY <1>1, <1>2, <1>3, <1>4, <1>5 DEF Placed

\* It ends with all of the map read.
LEMMA AllPlaced ==
  ASSUME NEW text, NEW h, NEW cells, NEW b \in Nat, NEW k,
         Placed(text, h, cells, b, <<"full", 1>>, k)
  PROVE  Agreed(text, h, cells, b) /\ k = b + Total(h) + 1
<1>1. /\ HeadAgrees(text, h, b, 13) /\ Closed(h, cells)
      /\ \A part \in Arrays :
           CellsAgree(text, cells[part], part, b + First(h, part), Reads(h, part, <<"full", 1>>))
      /\ k = b + Total(h) + 1
  BY RankIs DEF Placed, Total
<1>2. \A part \in Arrays : Reads(h, part, <<"full", 1>>) = Size(h, part)
  BY RankIs DEF Reads, Arrays
<1> QED BY <1>1, <1>2 DEF Agreed

-----------------------------------------------------------------------------
(* A text from the wrappers.                                               *)

\* A map's text after token b, as the wrappers write it.
Carries(text, b, m) ==
  /\ Follows(text, b, Written(m))
  /\ \A k \in 1..Len(Written(m)) :
       /\ b + k <= Len(text) /\ text[b + k].gap = 0
       /\ text[b + k].kind = IF k = 1 THEN "magic" ELSE "number"

LEMMA WrittenIs ==
  ASSUME NEW m \in Maps
  PROVE  Written(m) \in Seq(Int) /\ Len(Written(m)) \in Nat /\ Len(Written(m)) > 13
<1>1. Shape(m) /\ Len(m.id_A) \in 2..MaxAxis /\ Len(m.iq_A) \in 2..MaxAxis
  BY MapShape
<1>2. /\ Len(m.source) \in 1..MaxSource
      /\ Len(Flat(m.psi_d_Wb)) = Len(m.id_A) * Len(m.iq_A)
      /\ Len(Flat(m.psi_q_Wb)) = Len(m.id_A) * Len(m.iq_A)
  BY MapShape
<1> DEFINE ns == Len(m.source)
           nd == Len(m.id_A)
           nq == Len(m.iq_A)
           n == nd * nq
<1>3. Written(m) \in Seq(Int) /\ Len(Written(m)) = 13 + ns + nd + nq + n + n
  <2>1. 0 \in Nat
    OBVIOUS
  <2> QED BY <1>1, <1>2, <2>1, WrittenParts
<1>4. ns \in Nat \ {0} /\ nd \in Nat \ {0} /\ nq \in Nat \ {0} /\ n \in Nat
  <2>1. ns \in Nat \ {0} /\ nd \in Nat \ {0} /\ nq \in Nat \ {0}
    <3>1. ns \in 1..MaxSource /\ nd \in 2..MaxAxis /\ nq \in 2..MaxAxis
      BY <1>1, <1>2
    <3> HIDE DEF ns, nd, nq
    <3> QED BY <3>1, TransportBounds
  <2>2. n \in Nat
    BY <2>1, TablesFit, <1>1
  <2> QED BY <2>1, <2>2
<1> HIDE DEF ns, nd, nq, n
<1> QED BY <1>3, <1>4

LEMMA OneCarried ==
  ASSUME NEW p \in Maps, NEW text, text = Sent(<<p>>)
  PROVE  Carries(text, 0, p) /\ Len(text) = Len(Written(p))
<1> DEFINE w == Written(p)
           n == Len(w)
<1>1. w \in Seq(Int) /\ n \in Nat /\ n > 13
  BY WrittenIs
<1>2. text = [k \in 1..n |-> [kind |-> IF k \in {1, n + 1} THEN "magic" ELSE "number",
                             n |-> w[k], gap |-> 0]]
  <2>1. w \o << >> = w
    BY <1>1
  <2>2. Len(<<p>>) # 2 /\ <<p>>[1] = p
    OBVIOUS
  <2> QED BY <2>1, <2>2 DEF Sent
<1> HIDE DEF w, n
<1>3. Len(text) = n
  BY <1>1, <1>2
<1>4. ASSUME NEW k \in 1..n
      PROVE  /\ text[0 + k].n = w[k] /\ 0 + k <= Len(text) /\ text[0 + k].gap = 0
             /\ text[0 + k].kind = IF k = 1 THEN "magic" ELSE "number"
  <2>1. 0 + k = k /\ (k \in {1, n + 1} <=> k = 1)
    BY <1>1
  <2>2. text[k] = [kind |-> IF k = 1 THEN "magic" ELSE "number", n |-> w[k], gap |-> 0]
    BY <1>2, <2>1
  <2> QED BY <1>1, <1>3, <2>1, <2>2
<1> QED BY <1>3, <1>4 DEF Carries, Follows, w, n

LEMMA TwoCarried ==
  ASSUME NEW p \in Maps, NEW c \in Maps, NEW text, text = Sent(<<p, c>>)
  PROVE  /\ Carries(text, 0, p) /\ Carries(text, Len(Written(p)), c)
         /\ Len(text) = Len(Written(p)) + Len(Written(c))
<1> DEFINE w == Written(p)
           v == Written(c)
           n == Len(w)
           m == Len(v)
           both == w \o v
<1>1. w \in Seq(Int) /\ n \in Nat /\ n > 13 /\ v \in Seq(Int) /\ m \in Nat /\ m > 13
  BY WrittenIs
<1>2. text = [k \in 1..Len(both) |-> [kind |-> IF k \in {1, n + 1} THEN "magic" ELSE "number",
                             n |-> both[k], gap |-> 0]]
  <2>1. Len(<<p, c>>) = 2 /\ <<p, c>>[1] = p /\ <<p, c>>[2] = c
    OBVIOUS
  <2> QED BY <2>1 DEF Sent
<1>3. /\ Len(both) = n + m /\ \A k \in 1..n : both[k] = w[k]
      /\ \A k \in 1..m : both[n + k] = v[k]
  <2> HIDE DEF w, v
  <2> QED BY <1>1
<1> HIDE DEF w, v, n, m, both
<1>4. Len(text) = n + m
  BY <1>1, <1>2, <1>3
<1>5. ASSUME NEW k \in 1..n
      PROVE  /\ text[0 + k].n = w[k] /\ 0 + k <= Len(text) /\ text[0 + k].gap = 0
             /\ text[0 + k].kind = IF k = 1 THEN "magic" ELSE "number"
  <2>1. 0 + k = k /\ (k \in {1, n + 1} <=> k = 1) /\ k \in 1..(n + m)
    BY <1>1
  <2>2. text[k] = [kind |-> IF k = 1 THEN "magic" ELSE "number", n |-> w[k], gap |-> 0]
    BY <1>2, <1>3, <2>1
  <2> QED BY <1>4, <2>1, <2>2
<1>6. ASSUME NEW k \in 1..m
      PROVE  /\ text[n + k].n = v[k] /\ n + k <= Len(text) /\ text[n + k].gap = 0
             /\ text[n + k].kind = IF k = 1 THEN "magic" ELSE "number"
  <2>1. (n + k \in {1, n + 1} <=> k = 1) /\ n + k \in 1..(n + m)
    BY <1>1
  <2>2. text[n + k] = [kind |-> IF k = 1 THEN "magic" ELSE "number", n |-> v[k], gap |-> 0]
    BY <1>2, <1>3, <2>1
  <2> QED BY <1>4, <2>1, <2>2
<1> QED BY <1>4, <1>5, <1>6 DEF Carries, Follows, w, v, n, m

LEMMA Doubling ==
  \A x \in Int : (2 * x) % 2 = 0 /\ (2 * x) \div 2 = x
OBVIOUS

LEMMA EvenAccepted ==
  ASSUME NEW t, IsNumber(t), NEW x \in Int, t.n = 2 * x, NEW range, x \in range
  PROVE  IsInteger(t, range)
<1>1. (2 * x) % 2 = 0 /\ (2 * x) \div 2 = x
  BY Doubling
<1> QED BY <1>1 DEF IsInteger

\* The header of such a text.
LEMMA HeadAccepted ==
  ASSUME NEW text, NEW b \in Nat, NEW m \in Maps, Carries(text, b, m), NEW i \in 1..13
  PROVE  Accepts(<<"head", i>>, text[b + i])
<1> DEFINE t == text[b + i]
           f == Fields[i]
<1>1. /\ Shape(m) /\ m.evidence \in 1..4
      /\ Len(m.id_A) \in 2..MaxAxis /\ Len(m.iq_A) \in 2..MaxAxis
      /\ Len(m.source) \in 1..MaxSource
  BY MapShape DEF MapType
<1>2. t.kind = IF i = 1 THEN "magic" ELSE "number"
  <2>1. i \in 1..Len(Written(m))
    BY WrittenIs
  <2> QED BY <2>1 DEF Carries
<1>3. i # 1 => IsNumber(t)
  BY <1>2 DEF IsNumber
<1>4. \A j \in 1..8 : text[b + j].n = Lead(m)[j]
  <2>1. Follows(text, b, Lead(m))
    BY <1>1, WrittenParts DEF Carries
  <2>2. Len(Lead(m)) = 8
    BY DEF Lead
  <2> QED BY <2>1, <2>2 DEF Follows
<1>5. Accepts(<<"head", i>>, t)
        <=> IF f = "magic" THEN t.kind = "magic"
            ELSE IF f \in Reals THEN IsNumber(t) ELSE IsInteger(t, Whole[f])
  BY DEF Accepts
<1> DEFINE ns == Len(m.source)
           nd == Len(m.id_A)
           nq == Len(m.iq_A)
<1>6. /\ Lead(m)[2] = 2 * 1 /\ Lead(m)[3] = 2 * 1 /\ Lead(m)[4] = 2 * 1
      /\ Lead(m)[5] = 2 * nd /\ Lead(m)[6] = 2 * nq
      /\ Lead(m)[7] = 2 * m.evidence /\ Lead(m)[8] = 2 * ns
  BY DEF Lead
<1>7. /\ nd \in Int /\ nq \in Int /\ ns \in Int /\ m.evidence \in Int /\ 1 \in Int
      /\ nd \in Whole["nd"] /\ nq \in Whole["nq"] /\ ns \in Whole["source_length"]
      /\ m.evidence \in Whole["evidence"] /\ 1 \in 1..1
  <2>1. /\ nd \in Whole["nd"] /\ nq \in Whole["nq"] /\ ns \in Whole["source_length"]
        /\ m.evidence \in Whole["evidence"]
    BY <1>1, WholeIs
  <2>2. nd \in 2..MaxAxis /\ nq \in 2..MaxAxis /\ ns \in 1..MaxSource /\ m.evidence \in 1..4
    BY <1>1
  <2> HIDE DEF nd, nq, ns
  <2> QED BY <2>1, <2>2
<1> SUFFICES Accepts(<<"head", i>>, t)
  OBVIOUS
<1> HIDE DEF t, f, ns, nd, nq
<1>8. CASE i = 1
  BY <1>2, <1>5, <1>8, FieldIs DEF f
<1>9. CASE i \in 9..13
  <2>1. f \in Reals /\ i # 1
    BY <1>9 DEF f, Reals
  <2>2. f # "magic"
    BY <2>1, FieldIs, FieldsDiffer DEF f
  <2> QED BY <1>2, <1>3, <1>5, <2>1, <2>2
<1>10. ASSUME NEW x \in Int, i \in 2..8, Lead(m)[i] = 2 * x, x \in Whole[f] PROVE Accepts(<<"head", i>>, t)
  <2>1. t.n = 2 * x /\ IsNumber(t)
    BY <1>3, <1>4, <1>10 DEF t
  <2>2. IsInteger(t, Whole[f])
    BY <1>10, <2>1, EvenAccepted
  <2>3. f # "magic" /\ f \notin Reals
    <3>1. i \in 1..13 /\ i # 1 /\ i \notin 9..13
      BY <1>10
    <3>2. f # Fields[1] /\ \A j \in 9..13 : f # Fields[j]
      BY <3>1, FieldsDiffer DEF f
    <3> QED BY <3>2, FieldIs DEF Reals
  <2> QED BY <1>5, <2>2, <2>3
<1>11. CASE i \in {2, 3, 4}
  <2>1. Lead(m)[i] = 2 * 1 /\ i \in 2..8
    BY <1>6, <1>11
  <2>2. 1 \in Whole[f]
    BY <1>11, FieldIs, WholeIs DEF f
  <2> QED BY <1>7, <1>10, <2>1, <2>2
<1>12. CASE i = 5
  <2>1. Lead(m)[i] = 2 * nd /\ i \in 2..8 /\ nd \in Whole[f]
    BY <1>6, <1>7, <1>12, FieldIs DEF f
  <2> QED BY <1>7, <1>10, <2>1
<1>13. CASE i = 6
  <2>1. Lead(m)[i] = 2 * nq /\ i \in 2..8 /\ nq \in Whole[f]
    BY <1>6, <1>7, <1>13, FieldIs DEF f
  <2> QED BY <1>7, <1>10, <2>1
<1>14. CASE i = 7
  <2>1. Lead(m)[i] = 2 * m.evidence /\ i \in 2..8 /\ m.evidence \in Whole[f]
    BY <1>6, <1>7, <1>14, FieldIs DEF f
  <2> QED BY <1>7, <1>10, <2>1
<1>15. CASE i = 8
  <2>1. Lead(m)[i] = 2 * ns /\ i \in 2..8 /\ ns \in Whole[f]
    BY <1>6, <1>7, <1>15, FieldIs DEF f
  <2> QED BY <1>7, <1>10, <2>1
<1>16. i = 1 \/ i \in {2, 3, 4} \/ i = 5 \/ i = 6 \/ i = 7 \/ i = 8 \/ i \in 9..13
  OBVIOUS
<1> QED BY <1>8, <1>9, <1>11, <1>12, <1>13, <1>14, <1>15, <1>16

\* Whatever the call asks for next, such a text has it.
LEMMA NextAccepted ==
  ASSUME NEW text, NEW h, NEW cells, NEW b \in Nat, NEW m \in Maps, NEW place, NEW k,
         Carries(text, b, m), Placed(text, h, cells, b, place, k), place[1] # "full"
  PROVE  /\ k <= Len(text) /\ text[k].gap = 0 /\ text[k].kind # "long"
         /\ Accepts(place, text[k])
<1>1. /\ place = <<place[1], place[2]>> /\ place[1] \in Arrays \cup {"head"}
      /\ place[2] \in Nat \ {0} /\ place[2] <= Size(h, place[1])
      /\ k = (b + First(h, place[1])) + place[2]
      /\ HeadAgrees(text, h, b, IF place[1] = "head" THEN place[2] - 1 ELSE 13)
  BY RankIs DEF Placed, Place
<1>2. CASE place[1] = "head"
  <2>1. place[2] \in 1..13 /\ k = b + place[2]
    BY <1>1, <1>2, SizeIs, FirstIs
  <2>2. Accepts(place, text[k])
    BY <1>1, <1>2, <2>1, HeadAccepted
  <2>3. k <= Len(text) /\ text[k].gap = 0 /\ text[k].kind \in {"magic", "number"}
    <3> DEFINE n == Len(Written(m))
    <3>1. n \in Nat /\ n > 13
      BY WrittenIs
    <3>2. \A i \in 1..n :
            /\ b + i <= Len(text) /\ text[b + i].gap = 0
            /\ text[b + i].kind = IF i = 1 THEN "magic" ELSE "number"
      BY DEF Carries
    <3> HIDE DEF n
    <3>3. place[2] \in 1..n
      BY <2>1, <3>1
    <3> QED BY <2>1, <3>2, <3>3
  <2> QED BY <2>2, <2>3
<1>3. CASE place[1] # "head"
  <2> DEFINE part == place[1]
             j == place[2]
  <2>1. part \in Arrays /\ HeadAgrees(text, h, b, 13)
    BY <1>1, <1>3
  <2>2. /\ h["source_length"] = Len(m.source) /\ Total(h) = Len(Written(m)) /\ Bounded(h)
    BY <2>1, CountsOfMap, BoundedHead DEF Carries
  <2> DEFINE size == Size(h, part)
             first == First(h, part)
             total == Total(h)
  <2>3. /\ size \in Nat \ {0} /\ first \in Nat /\ first > 0 /\ total \in Nat
        /\ first + size <= total
    BY <2>1, <2>2, SizesFit
  <2>4. j \in Nat \ {0} /\ j <= size /\ k = (b + first) + j /\ total = Len(Written(m))
    BY <1>1, <2>2
  <2> HIDE DEF size, first, total
  <2>5. first + j \in 1..total /\ first + j # 1 /\ k = b + (first + j)
    BY <2>3, <2>4
  <2>6. k <= Len(text) /\ text[k].gap = 0 /\ text[k].kind = "number"
    BY <2>4, <2>5 DEF Carries
  <2>7. CASE part = "source"
    <3>1. first = 13 /\ size = Len(m.source)
      BY <2>2, <2>7, SizeIs, FirstIs DEF size, first
    <3>2. m.source \in Seq(1..255) /\ j \in 1..Len(m.source)
      <4>1. m.source \in Seq(1..255)
        BY MapShape DEF MapType
      <4>2. j \in 1..size
        BY <2>3, <2>4
      <4> QED BY <3>1, <4>1, <4>2
    <3>3. m.source[j] \in 1..255
      BY <3>2, ElementOfSeq
    <3>4. Follows(text, b + 13, Doubled(m.source))
      <4>1. Shape(m)
        BY MapShape
      <4> QED BY <4>1, WrittenParts DEF Carries
    <3>5. Doubled(m.source)[j] = 2 * m.source[j] /\ j \in 1..Len(Doubled(m.source))
      BY <3>2 DEF Doubled
    <3>6. text[k].n = 2 * m.source[j]
      BY <2>4, <3>1, <3>4, <3>5 DEF Follows
    <3>7. m.source[j] \in Int /\ IsNumber(text[k])
      <4>1. \A x \in 1..255 : x \in Int
        OBVIOUS
      <4>2. m.source[j] \in Int
        BY <3>3, <4>1, Zenon
      <4> QED BY <2>6, <4>2 DEF IsNumber
    <3>8. IsInteger(text[k], 1..255)
      BY <3>3, <3>6, <3>7, EvenAccepted
    <3>9. Accepts(<<part, j>>, text[k])
      BY <2>7, <3>8 DEF Accepts
    <3> QED BY <1>1, <2>6, <3>9
  <2>8. CASE part # "source"
    <3>1. Accepts(<<part, j>>, text[k])
      BY <1>3, <2>6, <2>8 DEF Accepts, IsNumber
    <3> QED BY <1>1, <2>6, <3>1
  <2> QED BY <2>7, <2>8
<1> QED BY <1>2, <1>3

-----------------------------------------------------------------------------
(* The inductive invariant.                                                *)

\* The tokens before the map of a slot: those of the map before.
Start(s) == IF s = 1 /\ input.lut THEN Total(maps[0].head) ELSE 0

Held(s) == Holds(input.text, maps[s], s, storage[s], Start(s))

Over == {"ending", "running", "reported", "failed"}

Typed ==
  /\ input \in InputType
  /\ pos \in Nat /\ pos <= Len(input.text) + 1
  /\ slot \in Slots
  /\ stage \in {"reading", "prepared", "rejected"} \cup Over
  /\ head \in HeadType
  /\ DOMAIN storage = Slots /\ \A s \in Slots : CellsTyped(storage[s])
  /\ DOMAIN maps = Slots

\* The plant's map comes first, and each map is read only where it is asked for.
InOrder ==
  /\ slot = 0 => input.lut
  /\ slot = 0 /\ stage \in Over => ~input.control
  /\ slot = 1 /\ (input.lut \/ stage \in {"reading", "prepared"}) => input.control
  /\ slot = 1 /\ input.lut => Held(0)

\* While a map is read, all of its text up to the next token is in its place.
InPlace ==
  stage = "reading" => Placed(input.text, head, storage[slot], Start(slot), at, pos)

\* The map read last is finished, and its text is all that was read.
Finished ==
  stage \in {"prepared"} \cup Over /\ (slot = 0 \/ input.control) =>
    Held(slot) /\ pos = Start(slot) + Total(maps[slot].head) + 1

\* A run that has maps has seen the end of the text.
Exhausted ==
  stage \in {"running", "reported", "failed"} /\ (input.lut \/ input.control) =>
    pos > Len(input.text) /\ ~input.broken

IInv ==
  Typed /\ InOrder /\ InPlace /\ Finished /\ Exhausted /\ WrapperIsUnderstood

LEMMA HeldBounded ==
  ASSUME NEW s, Held(s), Start(s) \in Nat
  PROVE  Bounded(maps[s].head) /\ Total(maps[s].head) \in Nat
<1>1. Bounded(maps[s].head)
  BY BoundedHead DEF Held, Holds, Agreed
<1>2. "source" \in Arrays
  BY DEF Arrays
<1> QED BY <1>1, <1>2, SizesFit

LEMMA StartIsNat ==
  ASSUME InOrder, slot \in Slots
  PROVE  Start(0) = 0 /\ Start(slot) \in Nat
<1>1. Start(0) = 0
  BY DEF Start
<1>2. CASE slot = 1 /\ input.lut
  <2>1. Total(maps[0].head) \in Nat
    BY <1>1, <1>2, HeldBounded DEF InOrder
  <2> QED BY <1>1, <1>2, <2>1 DEF Start
<1>3. CASE ~(slot = 1 /\ input.lut)
  BY <1>1, <1>3 DEF Start
<1> QED BY <1>2, <1>3

\* A wrapper's text, and the map whose turn it is.
LEMMA TurnOfMap ==
  ASSUME Typed, InOrder, FromWrapper
  PROVE  \E m \in Maps :
           /\ Carries(input.text, Start(slot), m)
           /\ slot = 0 => Supports(m)
           /\ slot = 1 \/ ~input.control => Len(input.text) = Start(slot) + Len(Written(m))
<1>1. PICK p \in Maps, c \in Maps :
        /\ Supports(p) /\ input.lut
        /\ input.text = Sent(IF input.control THEN <<p, c>> ELSE <<p>>)
  BY DEF FromWrapper
<1>2. Start(0) = 0 /\ slot \in {0, 1}
  BY StartIsNat DEF Typed, Slots
<1>3. Len(Written(p)) \in Nat
  BY WrittenIs
<1>4. CASE ~input.control
  <2>1. Carries(input.text, 0, p) /\ Len(input.text) = Len(Written(p))
    BY <1>1, <1>4, OneCarried
  <2>2. slot = 0
    BY <1>1, <1>2, <1>4 DEF InOrder
  <2>3. Len(input.text) = 0 + Len(Written(p))
    BY <1>3, <2>1
  <2> QED BY <1>1, <1>2, <2>1, <2>2, <2>3
<1>5. CASE input.control
  <2>1. /\ Carries(input.text, 0, p) /\ Carries(input.text, Len(Written(p)), c)
        /\ Len(input.text) = Len(Written(p)) + Len(Written(c))
    BY <1>1, <1>5, TwoCarried
  <2>2. CASE slot = 0
    BY <1>1, <1>2, <1>5, <2>1, <2>2
  <2>3. CASE slot = 1
    <3>1. HeadAgrees(input.text, maps[0].head, 0, 13)
      BY <1>1, <1>2, <2>3 DEF InOrder, Held, Holds, Agreed
    <3>2. Total(maps[0].head) = Len(Written(p))
      <4>1. Follows(input.text, 0, Written(p)) /\ 0 \in Nat
        BY <2>1 DEF Carries
      <4> QED BY <3>1, <4>1, CountsOfMap
    <3>3. Start(slot) = Len(Written(p))
      BY <1>1, <2>3, <3>2 DEF Start
    <3> QED BY <2>1, <2>3, <3>3
  <2> QED BY <1>2, <2>2, <2>3
<1> QED BY <1>4, <1>5

LEMMA InitInvariant == Init => IInv
<1> SUFFICES ASSUME Init PROVE IInv
  OBVIOUS
<1> USE DEF Init
<1>1. input \in InputType
  BY TextInputs
<1>2. Len(input.text) \in Nat
  BY <1>1 DEF InputType
<1>3. /\ slot = (IF input.lut THEN 0 ELSE 1) /\ input.lut \in BOOLEAN
      /\ input.control \in BOOLEAN /\ Slots = {0, 1}
  BY <1>1 DEF InputType, Slots
<1>4. Start(slot) = 0
  BY <1>3 DEF Start
<1>5. Empty \in HeadType /\ Placed(input.text, Empty, storage[slot], 0, <<"head", 1>>, 1)
  <2>1. 0 \in Nat /\ 0 + 1 = 1
    OBVIOUS
  <2> QED BY <2>1, NothingPlaced
<1>6. Typed
  <2>1. DOMAIN storage = Slots /\ \A s \in Slots : CellsTyped(storage[s])
    BY DEF CellsTyped
  <2>2. DOMAIN maps = Slots
    OBVIOUS
  <2>3. slot \in Slots /\ stage \in {"reading", "running"}
    BY <1>3
  <2>4. pos \in Nat /\ pos <= Len(input.text) + 1
    BY <1>2
  <2> QED BY <1>1, <1>5, <2>1, <2>2, <2>3, <2>4 DEF Typed, Over
<1>7. InOrder
  BY <1>3 DEF InOrder, Over
<1>8. InPlace
  BY <1>4, <1>5 DEF InPlace
<1>9. Finished
  BY <1>3 DEF Finished, Over
<1>10. Exhausted
  BY DEF Exhausted
<1>11. WrapperIsUnderstood
  BY DEF WrapperIsUnderstood
<1> QED BY <1>6, <1>7, <1>8, <1>9, <1>10, <1>11 DEF IInv

LEMMA TakeInvariant == IInv /\ Take => IInv'
<1> SUFFICES ASSUME IInv, Take PROVE IInv'
  OBVIOUS
<1> DEFINE text == input.text
           b == Start(slot)
           cells == storage[slot]
           t == input.text[pos]
<1>1. /\ Typed /\ InOrder /\ InPlace /\ Finished /\ Exhausted /\ WrapperIsUnderstood
  BY DEF IInv
<1>2. /\ stage = "reading" /\ at[1] # "full" /\ Readable(pos) /\ Accepts(at, t)
      /\ pos' = pos + 1 /\ at' = After(at)
      /\ input' = input /\ slot' = slot /\ maps' = maps /\ stage' = stage
  BY DEF Take, Reading
<1>3. /\ b \in Nat /\ pos \in Nat /\ head \in HeadType /\ slot \in Slots
      /\ DOMAIN storage = Slots /\ \A s \in Slots : CellsTyped(storage[s])
  BY <1>1, StartIsNat DEF Typed
<1>4. Placed(text, head, cells, b, at, pos)
  BY <1>1, <1>2 DEF InPlace
<1>5. /\ at = <<at[1], at[2]>> /\ at[1] \in Arrays \cup {"head"} /\ at[2] \in Nat \ {0}
      /\ at[2] <= Size(head, at[1]) /\ pos > 0
  <2>1. /\ at = <<at[1], at[2]>> /\ at[1] \in Arrays \cup {"head"} /\ at[2] \in Nat \ {0}
        /\ at[2] <= Size(head, at[1])
    BY <1>2, <1>4, RankIs DEF Placed, Place
  <2>2. pos > 0
    <3>1. pos = b + First(head, at[1]) + at[2]
      BY <1>4 DEF Placed
    <3>2. First(head, at[1]) \in Nat
      <4>1. CASE at[1] = "head"
        BY <4>1, FirstIs
      <4>2. CASE at[1] # "head"
        <5>1. at[1] \in Arrays /\ HeadAgrees(text, head, b, 13)
          BY <1>4, <2>1, <4>2 DEF Placed
        <5> QED BY <1>3, <5>1, BoundedHead, SizesFit
      <4> QED BY <4>1, <4>2
    <3> QED BY <1>3, <2>1, <3>1, <3>2
  <2> QED BY <2>1, <2>2
<1>6. text \in Seq(Token) /\ pos <= Len(text) /\ t \in Token
  <2>1. text \in Seq(Token)
    BY <1>1 DEF Typed, InputType
  <2>2. pos <= Len(text)
    BY <1>2 DEF Readable
  <2>3. pos \in 1..Len(text)
    BY <1>3, <1>5, <2>1, <2>2
  <2>4. t \in Token
    BY <2>1, <2>3, ElementOfSeq
  <2> QED BY <2>1, <2>2, <2>4
<1>7. /\ head' \in HeadType
      /\ DOMAIN storage' = Slots /\ \A s \in Slots : CellsTyped(storage'[s])
      /\ \A s \in Slots \ {slot} : storage'[s] = storage[s]
      /\ Placed(text, head', storage'[slot], b, at', pos')
  <2>1. CASE at[1] = "head"
    <3>1. /\ head' = [head EXCEPT ![Fields[at[2]]] = Kept(Fields[at[2]], t.n)]
          /\ storage' = storage
      BY <2>1 DEF Take, Kept
    <3>2. at[2] \in 1..13 /\ at = <<"head", at[2]>>
      BY <1>5, <2>1, SizeIs
    <3>3. at' = IF at[2] < 13 THEN <<"head", at[2] + 1>> ELSE <<"source", 1>>
      BY <1>2, <2>1, SizeIs, NextIs DEF After
    <3> DEFINE i == at[2]
    <3>4. /\ Placed(text, head, cells, b, <<"head", i>>, pos)
          /\ Accepts(<<"head", i>>, text[pos]) /\ text[pos] \in Token
      BY <1>2, <1>4, <1>6, <3>2
    <3>5. /\ head' \in HeadType
          /\ Placed(text, head', cells, b, at', pos + 1)
      <4>1. /\ i \in 1..13 /\ head' = [head EXCEPT ![Fields[i]] = Kept(Fields[i], text[pos].n)]
            /\ at' = IF i < 13 THEN <<"head", i + 1>> ELSE <<"source", 1>>
        BY <3>1, <3>2, <3>3
      <4> HIDE DEF i, text, cells, b
      <4> QED BY <1>3, <3>4, <4>1, FieldTaken
    <3> QED BY <1>2, <1>3, <3>1, <3>5
  <2>2. CASE at[1] # "head"
    <3> DEFINE part == at[1]
               j == at[2]
               d == Put(head, cells, at, t.n)
    <3>1. part \in Arrays /\ at = <<part, j>> /\ j \in Nat
      BY <1>5, <2>2
    <3>2. storage' = Store(at, t.n) /\ head' = head
      BY <2>2 DEF Take
    <3>3. Store(at, t.n) = [storage EXCEPT ![slot] = d]
      <4>1. CASE part # "source"
        BY <4>1 DEF Store, Put
      <4>2. CASE part = "source" /\ j # head["source_length"]
        BY <4>2 DEF Store, Put
      <4>3. CASE part = "source" /\ j = head["source_length"]
        <5> DEFINE bytes == [cells EXCEPT !["source"][j] = t.n \div 2]
        <5>1. Store(at, t.n)
                = [[storage EXCEPT ![slot]["source"][j] = t.n \div 2]
                     EXCEPT ![slot]["source"][j + 1] = 0]
          BY <4>3 DEF Store
        <5>2. [storage EXCEPT ![slot]["source"][j] = t.n \div 2]
                = [storage EXCEPT ![slot] = bytes]
          OBVIOUS
        <5>3. d = [bytes EXCEPT !["source"][j + 1] = 0]
          BY <4>3 DEF Put
        <5>4. [storage EXCEPT ![slot] = bytes][slot] = bytes
          BY <1>3
        <5> HIDE DEF bytes, d
        <5> QED BY <1>3, <5>1, <5>2, <5>3, <5>4
      <4> QED BY <4>1, <4>2, <4>3
    <3>4. /\ DOMAIN storage' = Slots /\ storage'[slot] = d
          /\ \A s \in Slots \ {slot} : storage'[s] = storage[s]
      BY <1>3, <3>2, <3>3
    <3>5. at' = IF j < Size(head, part) THEN <<part, j + 1>> ELSE <<NextPart[part], 1>>
      BY <1>2 DEF After
    <3>6. CellsTyped(d) /\ Placed(text, head, d, b, at', pos + 1)
      <4>1. /\ Placed(text, head, cells, b, <<part, j>>, pos) /\ text[pos] \in Token
            /\ Accepts(<<part, j>>, text[pos]) /\ CellsTyped(cells)
            /\ d = Put(head, cells, <<part, j>>, text[pos].n)
        BY <1>2, <1>3, <1>4, <1>6, <3>1
      <4> HIDE DEF d, part, j, text, cells, b
      <4> QED BY <1>3, <3>1, <3>5, <4>1, CellTaken
    <3> QED BY <1>2, <1>3, <3>2, <3>4, <3>6
  <2> QED BY <2>1, <2>2
<1>8. /\ Start(slot)' = b /\ Start(0)' = Start(0)
  BY <1>2 DEF Start
<1> HIDE DEF text, b, cells, t
<1>9. Typed'
  <2>1. pos' \in Nat /\ pos' <= Len(text) + 1
    <3>1. Len(text) \in Nat
      BY <1>6
    <3> QED BY <1>2, <1>3, <1>6, <3>1
  <2> QED BY <1>1, <1>2, <1>7, <2>1 DEF Typed, text
<1>10. InOrder'
  <2>1. slot = 1 => Held(0)' <=> Held(0)
    <3>1. slot = 1 => storage'[0] = storage[0]
      BY <1>7 DEF Slots
    <3> QED BY <1>2, <1>8, <3>1 DEF Held
  <2> QED BY <1>1, <1>2, <2>1 DEF InOrder
<1>11. InPlace'
  BY <1>2, <1>7, <1>8 DEF InPlace, text
<1>12. Finished' /\ Exhausted'
  BY <1>2 DEF Finished, Exhausted, Over
<1>13. WrapperIsUnderstood'
  BY <1>2 DEF WrapperIsUnderstood
<1> QED BY <1>9, <1>10, <1>11, <1>12, <1>13 DEF IInv

LEMMA RefuseInvariant == IInv /\ Refuse => IInv'
<1> SUFFICES ASSUME IInv, Refuse PROVE IInv'
  OBVIOUS
<1>1. /\ Typed /\ InOrder /\ InPlace /\ Finished /\ Exhausted /\ WrapperIsUnderstood
  BY DEF IInv
<1>2. /\ stage = "reading" /\ at[1] # "full"
      /\ ~(Readable(pos) /\ Accepts(at, input.text[pos])) /\ stage' = "rejected"
      /\ input' = input /\ pos' = pos /\ slot' = slot /\ head' = head /\ at' = at
      /\ storage' = storage /\ maps' = maps
  BY DEF Refuse, Reading
<1>3. ~FromWrapper
  <2> SUFFICES ASSUME FromWrapper PROVE FALSE
    OBVIOUS
  <2>1. PICK m \in Maps : Carries(input.text, Start(slot), m)
    BY <1>1, TurnOfMap
  <2>2. Start(slot) \in Nat /\ slot \in Slots
    BY <1>1, StartIsNat DEF Typed
  <2>3. Placed(input.text, head, storage[slot], Start(slot), at, pos)
    BY <1>1, <1>2 DEF InPlace
  <2>4. /\ pos <= Len(input.text) /\ input.text[pos].gap = 0 /\ input.text[pos].kind # "long"
        /\ Accepts(at, input.text[pos])
    BY <1>2, <2>1, <2>2, <2>3, NextAccepted
  <2>5. ~input.broken /\ 0 + 1 <= MaxSkip
    BY TransportBounds DEF FromWrapper
  <2>6. Readable(pos)
    BY <2>4, <2>5 DEF Readable
  <2> QED BY <1>2, <2>4, <2>6
<1>4. Typed'
  BY <1>1, <1>2 DEF Typed
<1>5. InOrder'
  <2>1. slot = 1 /\ input.lut => Held(0)'
    BY <1>1, <1>2 DEF InOrder, Held, Start
  <2> QED BY <1>1, <1>2, <2>1 DEF InOrder, Over
<1>6. InPlace' /\ Finished' /\ Exhausted'
  BY <1>2 DEF InPlace, Finished, Exhausted, Over
<1>7. WrapperIsUnderstood'
  BY <1>2, <1>3 DEF WrapperIsUnderstood, FromWrapper
<1> QED BY <1>4, <1>5, <1>6, <1>7 DEF IInv

LEMMA PrepareInvariant == IInv /\ Prepare => IInv'
<1> SUFFICES ASSUME IInv, Prepare PROVE IInv'
  OBVIOUS
<1>1. /\ Typed /\ InOrder /\ InPlace /\ Finished /\ Exhausted /\ WrapperIsUnderstood
  BY DEF IInv
<1>2. /\ stage = "reading" /\ at[1] = "full"
      /\ input' = input /\ pos' = pos /\ slot' = slot /\ head' = head /\ at' = at
      /\ storage' = storage
  BY DEF Prepare
<1>3. \/ /\ Prepares(Printed(Prepared))
         /\ maps' = [maps EXCEPT ![slot] = Prepared] /\ stage' = "prepared"
      \/ ~Prepares(Printed(Prepared)) /\ stage' = "rejected" /\ maps' = maps
  BY DEF Prepare
<1>4. /\ Start(0) = 0 /\ Start(slot) \in Nat /\ slot \in Slots /\ head \in HeadType
      /\ CellsTyped(storage[slot]) /\ DOMAIN maps = Slots
  BY <1>1, StartIsNat DEF Typed
<1>5. /\ Agreed(input.text, head, storage[slot], Start(slot))
      /\ pos = Start(slot) + Total(head) + 1
  <2>1. Placed(input.text, head, storage[slot], Start(slot), <<"full", 1>>, pos)
    <3>1. Placed(input.text, head, storage[slot], Start(slot), at, pos)
      BY <1>1, <1>2 DEF InPlace
    <3>2. at = <<"full", 1>>
      BY <1>2, <3>1 DEF Placed, Place
    <3> QED BY <3>1, <3>2
  <2> QED BY <1>4, <2>1, AllPlaced
<1>6. FromWrapper => Prepares(Printed(Prepared))
  <2> SUFFICES ASSUME FromWrapper PROVE Prepares(Printed(Prepared))
    OBVIOUS
  <2>1. PICK m \in Maps : Carries(input.text, Start(slot), m)
    BY <1>1, TurnOfMap
  <2>2. View(head, storage[slot]) = m
    <3>1. Follows(input.text, Start(slot), Written(m))
      BY <2>1 DEF Carries
    <3> QED BY <1>4, <1>5, <3>1, ViewIsMap
  <2>3. Printed(Prepared) = m
    BY <2>2, PrintedIsView DEF Prepared
  <2>4. Prepares(m)
    BY MapsAssumption DEF Loads
  <2> QED BY <2>3, <2>4
<1>7. slot = 1 => maps'[0] = maps[0]
  BY <1>3, <1>4 DEF Slots
<1>8. Start(slot)' = Start(slot) /\ Start(0)' = 0
  BY <1>2, <1>7 DEF Start
<1>9. Typed'
  <2>1. DOMAIN maps' = Slots /\ stage' \in {"prepared", "rejected"}
    BY <1>3, <1>4
  <2> QED BY <1>1, <1>2, <2>1 DEF Typed
<1>10. InOrder'
  <2>1. slot = 1 /\ input.lut => Held(0)'
    BY <1>1, <1>2, <1>4, <1>7, <1>8 DEF InOrder, Held
  <2> QED BY <1>1, <1>2, <1>3, <2>1 DEF InOrder, Over
<1>11. InPlace' /\ Exhausted'
  BY <1>3 DEF InPlace, Exhausted
<1>12. Finished'
  <2>1. CASE stage' = "rejected"
    BY <2>1 DEF Finished, Over
  <2>2. CASE stage' = "prepared"
    <3>1. maps'[slot] = [slot |-> slot, head |-> head]
      BY <1>3, <1>4, <2>2 DEF Prepared
    <3>2. Held(slot)'
      BY <1>2, <1>4, <1>5, <1>8, <3>1 DEF Held, Holds
    <3>3. pos = Start(slot) + Total(maps'[slot].head) + 1
      BY <1>5, <3>1
    <3> QED BY <1>2, <1>8, <3>2, <3>3 DEF Finished
  <2> QED BY <1>3, <2>1, <2>2
<1>13. WrapperIsUnderstood'
  BY <1>2, <1>3, <1>6 DEF WrapperIsUnderstood, FromWrapper
<1> QED BY <1>9, <1>10, <1>11, <1>12, <1>13 DEF IInv

LEMMA ContinueInvariant == IInv /\ Continue => IInv'
<1> SUFFICES ASSUME IInv, Continue PROVE IInv'
  OBVIOUS
<1>1. /\ Typed /\ InOrder /\ InPlace /\ Finished /\ Exhausted /\ WrapperIsUnderstood
  BY DEF IInv
<1>2. /\ stage = "prepared" /\ input' = input /\ pos' = pos /\ storage' = storage /\ maps' = maps
  BY DEF Continue
<1>3. /\ Start(0) = 0 /\ Start(slot) \in Nat /\ slot \in {0, 1} /\ DOMAIN storage = Slots
      /\ \A s \in Slots : CellsTyped(storage[s])
  BY <1>1, StartIsNat DEF Typed, Slots
<1>4. Held(slot) /\ pos = Start(slot) + Total(maps[slot].head) + 1
  BY <1>1, <1>2, <1>3 DEF Finished, InOrder
<1>5. \A s : Start(s)' = Start(s) /\ (Held(s)' <=> Held(s))
  BY <1>2 DEF Start, Held
<1>6. CASE slot = 0 /\ ~Supports(Printed(maps[0]))
  <2>1. stage' = "rejected" /\ slot' = slot /\ head' = head /\ at' = at
    BY <1>6 DEF Continue
  <2>2. ~FromWrapper
    <3> SUFFICES ASSUME FromWrapper PROVE FALSE
      OBVIOUS
    <3>1. PICK m \in Maps : Carries(input.text, Start(slot), m) /\ Supports(m)
      BY <1>1, <1>6, TurnOfMap
    <3> DEFINE h == maps[0].head
    <3>2. /\ maps[0] = [slot |-> 0, head |-> h] /\ h \in HeadType
          /\ Agreed(input.text, h, storage[0], 0)
      BY <1>3, <1>4, <1>6 DEF Held, Holds
    <3>3. View(h, storage[0]) = m
      <4>1. Follows(input.text, 0, Written(m)) /\ CellsTyped(storage[0]) /\ 0 \in Nat
        BY <1>3, <1>6, <3>1 DEF Carries, Slots
      <4> QED BY <3>2, <4>1, ViewIsMap
    <3>4. Printed(maps[0]) = m
      <4> HIDE DEF h
      <4>1. Printed([slot |-> 0, head |-> h]) = View(h, storage[0])
        BY PrintedIsView
      <4> QED BY <3>2, <3>3, <4>1
    <3> QED BY <1>6, <3>1, <3>4
  <2>3. Typed'
    BY <1>1, <1>2, <2>1 DEF Typed
  <2>4. InOrder'
    BY <1>1, <1>2, <1>5, <1>6, <2>1 DEF InOrder, Over
  <2>5. InPlace' /\ Finished' /\ Exhausted'
    BY <2>1 DEF InPlace, Finished, Exhausted, Over
  <2>6. WrapperIsUnderstood'
    BY <1>2, <2>2 DEF WrapperIsUnderstood, FromWrapper
  <2> QED BY <2>3, <2>4, <2>5, <2>6 DEF IInv
<1>7. CASE slot = 0 /\ Supports(Printed(maps[0])) /\ input.control
  <2>1. slot' = 1 /\ head' = Empty /\ at' = <<"head", 1>> /\ stage' = "reading"
    BY <1>7 DEF Continue
  <2>2. input.lut /\ Held(0)
    BY <1>1, <1>4, <1>7 DEF InOrder
  <2>3. Start(1) = Total(maps[0].head) /\ Start(1) \in Nat
    BY <1>3, <2>2, HeldBounded DEF Start
  <2>4. pos = Start(1) + 1
    BY <1>3, <1>4, <1>7, <2>3
  <2>5. /\ Empty \in HeadType
        /\ Placed(input.text, Empty, storage[1], Start(1), <<"head", 1>>, pos)
    BY <2>3, <2>4, NothingPlaced
  <2>6. Typed'
    BY <1>1, <1>2, <2>1, <2>5 DEF Typed, Slots
  <2>7. InOrder'
    BY <1>2, <1>5, <1>7, <2>1, <2>2 DEF InOrder
  <2>8. InPlace'
    BY <1>2, <1>5, <2>1, <2>5 DEF InPlace
  <2>9. Finished' /\ Exhausted'
    BY <2>1 DEF Finished, Exhausted, Over
  <2>10. WrapperIsUnderstood'
    BY <2>1 DEF WrapperIsUnderstood
  <2> QED BY <2>6, <2>7, <2>8, <2>9, <2>10 DEF IInv
<1>8. CASE slot = 1 \/ (Supports(Printed(maps[0])) /\ ~input.control)
  <2>1. stage' = "ending" /\ slot' = slot /\ head' = head /\ at' = at
    <3>1. slot = 0 => Supports(Printed(maps[0])) /\ ~input.control
      BY <1>8
    <3> QED BY <3>1 DEF Continue
  <2>2. Typed'
    BY <1>1, <1>2, <2>1 DEF Typed, Over
  <2>3. InOrder'
    BY <1>1, <1>2, <1>5, <1>8, <2>1 DEF InOrder
  <2>4. Finished'
    BY <1>2, <1>4, <1>5, <2>1 DEF Finished
  <2>5. InPlace' /\ Exhausted' /\ WrapperIsUnderstood'
    BY <2>1 DEF InPlace, Exhausted, WrapperIsUnderstood
  <2> QED BY <2>2, <2>3, <2>4, <2>5 DEF IInv
<1> QED BY <1>3, <1>6, <1>7, <1>8

LEMMA EndInvariant == IInv /\ End => IInv'
<1> SUFFICES ASSUME IInv, End PROVE IInv'
  OBVIOUS
<1>1. /\ Typed /\ InOrder /\ InPlace /\ Finished /\ Exhausted /\ WrapperIsUnderstood
  BY DEF IInv
<1>2. /\ stage = "ending" /\ stage' = IF AtEnd THEN "running" ELSE "rejected"
      /\ input' = input /\ pos' = pos /\ slot' = slot /\ head' = head /\ at' = at
      /\ storage' = storage /\ maps' = maps
  BY DEF End
<1>3. \A s : Start(s)' = Start(s) /\ (Held(s)' <=> Held(s))
  BY <1>2 DEF Start, Held
<1>4. FromWrapper => AtEnd
  <2> SUFFICES ASSUME FromWrapper PROVE AtEnd
    OBVIOUS
  <2>1. PICK m \in Maps :
          /\ Carries(input.text, Start(slot), m)
          /\ slot = 1 \/ ~input.control => Len(input.text) = Start(slot) + Len(Written(m))
    BY <1>1, TurnOfMap
  <2>2. slot \in {0, 1} /\ Start(slot) \in Nat
    BY <1>1, StartIsNat DEF Typed, Slots
  <2>3. slot = 1 \/ ~input.control
    BY <1>1, <1>2, <2>2 DEF InOrder, Over
  <2>4. Held(slot) /\ pos = Start(slot) + Total(maps[slot].head) + 1
    <3>1. slot = 1 => input.control
      BY <1>1 DEF InOrder, FromWrapper
    <3> QED BY <1>1, <1>2, <2>2, <3>1 DEF Finished, Over
  <2>5. Total(maps[slot].head) = Len(Written(m))
    <3>1. HeadAgrees(input.text, maps[slot].head, Start(slot), 13)
      BY <2>4 DEF Held, Holds, Agreed
    <3>2. Follows(input.text, Start(slot), Written(m))
      BY <2>1 DEF Carries
    <3> QED BY <2>2, <3>1, <3>2, CountsOfMap
  <2>6. Len(Written(m)) \in Nat
    BY WrittenIs
  <2>7. pos > Len(input.text)
    BY <2>1, <2>2, <2>3, <2>4, <2>5, <2>6
  <2>8. input.tail = 1 /\ ~input.broken /\ MaxSkip \in Nat \ {0}
    BY TransportBounds DEF FromWrapper
  <2> QED BY <2>7, <2>8 DEF AtEnd
<1>5. Typed'
  BY <1>1, <1>2 DEF Typed, Over
<1>6. InOrder'
  BY <1>1, <1>2, <1>3 DEF InOrder, Over
<1>7. InPlace'
  BY <1>2 DEF InPlace
<1>8. Finished'
  BY <1>1, <1>2, <1>3 DEF Finished, Over
<1>9. Exhausted'
  BY <1>2 DEF Exhausted, AtEnd
<1>10. WrapperIsUnderstood'
  BY <1>2, <1>4 DEF WrapperIsUnderstood, FromWrapper
<1> QED BY <1>5, <1>6, <1>7, <1>8, <1>9, <1>10 DEF IInv

LEMMA ReportInvariant == IInv /\ Report => IInv'
<1> SUFFICES ASSUME IInv, Report PROVE IInv'
  OBVIOUS
<1>1. /\ Typed /\ InOrder /\ InPlace /\ Finished /\ Exhausted /\ WrapperIsUnderstood
  BY DEF IInv
<1>2. /\ stage = "running" /\ stage' \in {"reported", "failed"}
      /\ input' = input /\ pos' = pos /\ slot' = slot /\ head' = head /\ at' = at
      /\ storage' = storage /\ maps' = maps
  BY DEF Report
<1>3. \A s : Start(s)' = Start(s) /\ (Held(s)' <=> Held(s))
  BY <1>2 DEF Start, Held
<1>4. Typed' /\ InOrder' /\ Finished'
  BY <1>1, <1>2, <1>3 DEF Typed, InOrder, Finished, Over
<1>5. InPlace' /\ Exhausted' /\ WrapperIsUnderstood'
  BY <1>1, <1>2 DEF InPlace, Exhausted, WrapperIsUnderstood
<1> QED BY <1>4, <1>5 DEF IInv

LEMMA StutterInvariant == IInv /\ UNCHANGED vars => IInv'
<1> SUFFICES ASSUME IInv, UNCHANGED vars PROVE IInv'
  OBVIOUS
<1>1. /\ input' = input /\ pos' = pos /\ slot' = slot /\ head' = head /\ at' = at
      /\ storage' = storage /\ maps' = maps /\ stage' = stage
  BY DEF vars
<1>2. \A s : Start(s)' = Start(s) /\ (Held(s)' <=> Held(s))
  BY <1>1 DEF Start, Held
<1> QED
  BY <1>1, <1>2
  DEF IInv, Typed, InOrder, InPlace, Finished, Exhausted, WrapperIsUnderstood, FromWrapper

LEMMA Invariance == Spec => []IInv
<1>1. IInv /\ [Next]_vars => IInv'
  BY TakeInvariant, RefuseInvariant, PrepareInvariant, ContinueInvariant, EndInvariant,
     ReportInvariant, StutterInvariant DEF Next
<1> QED BY InitInvariant, <1>1, PTL DEF Spec

\* What the invariant says of a run that has its maps.
LEMMA ReplayFollows == IInv => ReplayIsWhatWasSent
<1> SUFFICES ASSUME IInv, stage \in {"running", "reported"}, input.lut \/ input.control
             PROVE  Values(input.text) = Replayed /\ ~input.broken
  BY DEF ReplayIsWhatWasSent
<1> DEFINE text == input.text
           W(s) == Written(Printed(maps[s]))
<1>1. Typed /\ InOrder /\ Finished /\ Exhausted
  BY DEF IInv
<1>2. /\ Start(0) = 0 /\ Start(slot) \in Nat /\ slot \in {0, 1} /\ pos \in Nat
      /\ pos <= Len(text) + 1 /\ \A s \in {0, 1} : CellsTyped(storage[s])
      /\ text \in Seq(Token) /\ input.lut \in BOOLEAN /\ input.control \in BOOLEAN
  BY <1>1, StartIsNat DEF Typed, Slots, InputType
<1>3. pos > Len(text) /\ ~input.broken
  BY <1>1 DEF Exhausted
<1>4. /\ slot = (IF input.control THEN 1 ELSE 0) /\ Held(slot)
      /\ pos = Start(slot) + Total(maps[slot].head) + 1
      /\ slot = 1 /\ input.lut => Held(0)
  BY <1>1, <1>2 DEF InOrder, Finished, Over
<1>5. ASSUME NEW s \in {0, 1}, Held(s), Start(s) \in Nat
      PROVE  /\ W(s) \in Seq(Int) /\ Len(W(s)) = Total(maps[s].head)
             /\ Follows(text, Start(s), W(s))
  <2> DEFINE h == maps[s].head
             b == Start(s)
             w == Written(View(h, storage[s]))
  <2>1. /\ maps[s] = [slot |-> s, head |-> h] /\ h \in HeadType
        /\ Agreed(text, h, storage[s], b) /\ CellsTyped(storage[s]) /\ b \in Nat
    BY <1>2, <1>5 DEF Held, Holds
  <2>2. w \in Seq(Int) /\ Len(w) = Total(h) /\ Follows(text, b, w)
    <3> HIDE DEF h, b, text
    <3> QED BY <2>1, ViewFollows
  <2>3. Printed(maps[s]) = View(h, storage[s])
    <3> HIDE DEF h
    <3>1. Printed([slot |-> s, head |-> h]) = View(h, storage[s])
      BY PrintedIsView
    <3> QED BY <2>1, <3>1
  <2> QED BY <2>2, <2>3
<1>6. Len(text) \in Nat /\ Len(text) = Start(slot) + Total(maps[slot].head)
  <2>1. Total(maps[slot].head) \in Nat
    BY <1>2, <1>4, HeldBounded
  <2>2. Len(text) \in Nat
    BY <1>2
  <2> HIDE DEF text
  <2> QED BY <1>2, <1>3, <1>4, <2>1, <2>2
<1>7. /\ Replayed \in Seq(Int) /\ Len(Replayed) = Len(text) /\ Follows(text, 0, Replayed)
  <2>1. CASE ~input.control
    <3>1. slot = 0 /\ input.lut /\ Replayed = W(0) \o << >>
      BY <1>4, <2>1 DEF Replayed
    <3>2. W(0) \in Seq(Int) /\ Len(W(0)) = Len(text) /\ Follows(text, 0, W(0))
      <4>1. Total(maps[0].head) \in Nat /\ Held(0)
        BY <1>2, <1>4, <3>1, HeldBounded
      <4> HIDE DEF W, text
      <4> QED BY <1>2, <1>5, <1>6, <3>1, <4>1
    <3> HIDE DEF W
    <3>3. Replayed = W(0)
      BY <3>1, <3>2
    <3> QED BY <3>2, <3>3
  <2>2. CASE input.control /\ ~input.lut
    <3>1. slot = 1 /\ Start(1) = 0 /\ Replayed = << >> \o W(1)
      BY <1>4, <2>2 DEF Replayed, Start
    <3>2. W(1) \in Seq(Int) /\ Len(W(1)) = Len(text) /\ Follows(text, 0, W(1))
      <4>1. Total(maps[1].head) \in Nat /\ Held(1)
        BY <1>2, <1>4, <3>1, HeldBounded
      <4> HIDE DEF W, text
      <4> QED BY <1>2, <1>5, <1>6, <3>1, <4>1
    <3> HIDE DEF W
    <3>3. Replayed = W(1)
      BY <3>1, <3>2
    <3> QED BY <3>2, <3>3
  <2>3. CASE input.control /\ input.lut
    <3>1. /\ slot = 1 /\ Held(0) /\ Held(1) /\ Replayed = W(0) \o W(1)
          /\ Start(1) = Total(maps[0].head)
      BY <1>4, <2>3 DEF Replayed, Start
    <3>2. /\ W(0) \in Seq(Int) /\ Len(W(0)) = Start(1) /\ Follows(text, 0, W(0))
          /\ W(1) \in Seq(Int) /\ Len(W(1)) = Total(maps[1].head)
          /\ Follows(text, Start(1), W(1))
      <4>1. Start(1) \in Nat
        BY <1>2, <3>1
      <4> HIDE DEF W, text
      <4> QED BY <1>2, <1>5, <3>1, <4>1
    <3> DEFINE q == W(0)
               r == W(1)
    <3>3. q \in Seq(Int) /\ r \in Seq(Int) /\ Replayed = q \o r /\ 0 + Len(q) = Start(1)
      BY <1>2, <3>1, <3>2
    <3>4. Follows(text, 0, q) /\ Follows(text, 0 + Len(q), r) /\ 0 \in Nat
      BY <3>2, <3>3
    <3>5. Len(q) + Len(r) = Len(text)
      BY <1>6, <3>1, <3>2
    <3> HIDE DEF q, r, text
    <3>6. /\ q \o r \in Seq(Int) /\ Len(q \o r) = Len(q) + Len(r)
          /\ Follows(text, 0, q \o r)
      BY <3>3, <3>4, FollowsBoth
    <3> QED BY <3>3, <3>5, <3>6
  <2> QED BY <1>2, <2>1, <2>2, <2>3
<1>8. Values(text) = Replayed
  <2> DEFINE n == Len(text)
  <2>1. Values(text) = [k \in 1..n |-> text[k].n]
    BY DEF Values
  <2>2. ASSUME NEW k \in 1..n PROVE text[k].n = Replayed[k]
    <3>1. 0 + k = k
      OBVIOUS
    <3>2. text[0 + k].n = Replayed[k]
      BY <1>7 DEF Follows
    <3> QED BY <3>1, <3>2
  <2>3. Replayed = [k \in 1..n |-> Replayed[k]]
    BY <1>7
  <2> HIDE DEF n
  <2> QED BY <2>1, <2>2, <2>3
<1> QED BY <1>3, <1>8

-----------------------------------------------------------------------------
(* Theorems.                                                               *)

\* A call knows at every moment how far into the text it is, and everything of
\* the map before the next token is in its place: the fields in the header, the
\* cells in the slot, the source closed before an axis is read.
THEOREM ReadInPlace == Spec => [](Typed /\ InOrder /\ InPlace)
BY Invariance, PTL DEF IInv

\* For maps of any size and any text whatever: the maps a run prints for
\* replay, written again, are the text that was sent.
THEOREM ReplayAlwaysWhatWasSent == Spec => []ReplayIsWhatWasSent
BY Invariance, ReplayFollows, PTL

\* A map FluxMap has accepted is never refused on its way into a run.
THEOREM WrapperAlwaysUnderstood == Spec => []WrapperIsUnderstood
BY Invariance, PTL DEF IInv
=============================================================================
