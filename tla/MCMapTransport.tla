-------------------------- MODULE MCMapTransport ----------------------------
(***************************************************************************)
(* Small instances of MapTransport: a square map and an oblong one, sent   *)
(* alone and together, whole and with any one token damaged.               *)
(***************************************************************************)
EXTENDS MapTransport, SequencesExt

Square ==
  [evidence |-> 2, reals |-> <<600, 1, 2, 3, 4>>, source |-> <<97, 98>>,
   id_A |-> <<-2, 2>>, iq_A |-> <<-4, 5>>,
   psi_d_Wb |-> <<<<11, 12>>, <<13, 14>>>>, psi_q_Wb |-> <<<<21, 22>>, <<23, 24>>>>]

Oblong ==
  [evidence |-> 4, reals |-> <<601, 0, 2, 5, 3>>, source |-> <<255>>,
   id_A |-> <<-1, 3>>, iq_A |-> <<-6, 0, 7>>,
   psi_d_Wb |-> <<<<31, 32, 33>>, <<34, 35, 36>>>>,
   psi_q_Wb |-> <<<<41, 42, 43>>, <<44, 45, 46>>>>]

SmallMaps == {Square, Oblong}

Rising(axis) == \A i \in 1..(Len(axis) - 1) : axis[i] < axis[i + 1]

\* What is left of namc_flux_map_prepare: the axes rise.
AxesRise(m) == Rising(m.id_A) /\ Rising(m.iq_A)

\* A reference at half an ampere.
ReachesReference(m) ==
  /\ m.id_A[1] <= 0 /\ 0 <= Last(m.id_A)
  /\ m.iq_A[1] <= 0 /\ 1 <= Last(m.iq_A)

Tok(kind, n, gap) == [kind |-> kind, n |-> n, gap |-> gap]

Bad ==
  {Tok("number", 0, 0), Tok("number", 3, 0), Tok("number", 6, 0), Tok("number", 600, 0),
   Tok("number", -2, 0), Tok("number", 4, MaxSkip - 1), Tok("number", 4, MaxSkip),
   Tok("tiny", 1, 0), Tok("lost", 0, 0), Tok("word", 4, 0), Tok("long", 4, 0), Tok("magic", 0, 0)}

Damaged(text) ==
  {text} \cup UNION {
    {ReplaceAt(text, k, t) : t \in Bad}
      \cup {RemoveAt(text, k), InsertAt(text, k, text[k]), SubSeq(text, 1, k - 1)}
    : k \in 1..Len(text)}

Text(text, lut, control) ==
  [text : text, lut : {lut}, control : {control}, tail : {1}, broken : {FALSE}]

Single == Sent(<<Oblong>>)
Pair == Sent(<<Square, Oblong>>)

SmallInputs ==
  Text(Damaged(Single), TRUE, FALSE)
    \cup Text(Damaged(Pair), TRUE, TRUE)
    \cup Text({Single}, FALSE, TRUE) \cup Text({<<>>}, FALSE, FALSE)
    \cup Text({Single, Pair}, TRUE, TRUE) \cup Text({Pair}, TRUE, FALSE)
    \cup Text({Sent(<<Oblong, Square>>), Sent(<<Oblong, Oblong>>)}, TRUE, TRUE)
    \cup [text : {Single, Append(Single, Tok("number", 0, 1))}, lut : {TRUE}, control : {FALSE},
          tail : {0, 1, MaxSkip, MaxSkip + 1}, broken : BOOLEAN]
=============================================================================
