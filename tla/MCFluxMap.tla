----------------------------- MODULE MCFluxMap -----------------------------
(***************************************************************************)
(* Small instances of FluxMap: a coupled affine map of 3 by 4 knots, one    *)
(* with a long axis, one cell whose inside is worse conditioned than its    *)
(* corners, and tables that fail in every way the code knows.               *)
(***************************************************************************)
EXTENDS FluxMap

\* A table of the fluxes fd and fq over two axes.
Sampled(id, nd, iq, nq, fd(_, _), fq(_, _)) ==
  [sane |-> TRUE, nd |-> nd, nq |-> nq, count |-> nd * nq,
   id |-> [i \in 0..(nd - 1) |-> id[i + 1]], iq |-> [k \in 0..(nq - 1) |-> iq[k + 1]],
   psid |-> [e \in 0..(nd * nq - 1) |-> fd(id[1 + (e \div nq)], iq[1 + (e % nq)])],
   psiq |-> [e \in 0..(nd * nq - 1) |-> fq(id[1 + (e \div nq)], iq[1 + (e % nq)])],
   bad |-> {}]

\* A table of one cell, 2 wide and 2 high, by its entries.
OneCell(psid, psiq) ==
  [sane |-> TRUE, nd |-> 2, nq |-> 2, count |-> 4,
   id |-> [i \in 0..1 |-> 2 * i], iq |-> [k \in 0..1 |-> 2 * k],
   psid |-> [e \in 0..3 |-> psid[e + 1]], psiq |-> [e \in 0..3 |-> psiq[e + 1]],
   bad |-> {}]

AffineD(d, q) == 5 + 3 * d + q
AffineQ(d, q) == d + 4 * q

Affine == Sampled(<<0, 2, 5>>, 3, <<-3, -1, 0, 2>>, 4, AffineD, AffineQ)
Long == Sampled(<<0, 2, 3, 5, 6, 8>>, 6, <<0, 2>>, 2, AffineD, AffineQ)
Narrow == OneCell(<<-10, -11, 3, -5>>, <<-9, 9, -3, 12>>)
Skew == OneCell(<<0, 2, 60, 62>>, <<0, 80, -18, 62>>)
Flat == OneCell(<<0, 2, 6, 8>>, <<0, 0, 2, 2>>)
Active == OneCell(<<0, 2, -6, -4>>, <<0, 8, 2, 10>>)

\* Only the corner of the first and the last knot fails.
Saddle == OneCell(<<0, -12, 40, 52>>, <<0, 40, -12, 52>>)

AllSources ==
  {"affine", "long", "narrow", "skew", "flat", "active", "saddle", "holed", "folded",
   "short"}

AllTables ==
  [s \in AllSources |->
     CASE s = "affine" -> Affine
       [] s = "long" -> Long
       [] s = "narrow" -> Narrow
       [] s = "skew" -> Skew
       [] s = "flat" -> Flat
       [] s = "active" -> Active
       [] s = "saddle" -> Saddle
       [] s = "holed" -> [Affine EXCEPT !.bad = {11}]
       [] s = "folded" -> [Affine EXCEPT !.id[1] = 5]
       [] s = "short" -> [Affine EXCEPT !.count = 11,
                            !.psid = [e \in 0..10 |-> 0], !.psiq = [e \in 0..10 |-> 0]]]

Good == [floor |-> 1, reciprocity |-> 7, rcond |-> Frac(19, 69)]
Void == [Good EXCEPT !.floor = 0]
AllLimits == {Good, Void}

At(d, q) == [d |-> d, q |-> q, finite |-> TRUE]
AllCurrents ==
  {At(0, 0), At(1, 2), At(0, 2), At(3, -2), At(5, 1), [At(0, 0) EXCEPT !.finite = FALSE]}

\* A flux rate of both axes, and each way a right-hand side is refused.
AllFluxRates ==
  {[d |-> 3, q |-> -2, rep |-> r] : r \in {"FINITE", "NONFINITE", "HUGE"}}
=============================================================================
