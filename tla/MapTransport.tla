---------------------------- MODULE MapTransport ----------------------------
(***************************************************************************)
(* How a flux map travels from Python into a native run and back: written  *)
(* as a text by FluxMap._simulation_transport, read into one of two static *)
(* slots by namc_sim_read_map and namc_sim_map_end of simulations/         *)
(* map_transport.c, and printed again by namc_sim_print_map in the report, *)
(* "for replay".  The start of linear_reference.c decides which slots are  *)
(* read.                                                                   *)
(*                                                                         *)
(* A token stands for its characters: what strtod and the bounded reader   *)
(* make of it.  Values count halves, so that some of them are no integers. *)
(***************************************************************************)
EXTENDS Sequences, Integers

CONSTANTS
  MaxAxis,        \* NAMC_FLUX_MAX_AXIS, 256 in the code
  MaxSource,      \* the length of a source name, 127 in the code
  MaxSkip,        \* characters a reader passes over, 1024 in the code
  Inputs,         \* what the process is given: options and standard input
  Maps,           \* maps FluxMap has accepted
  Prepares(_),    \* namc_flux_map_prepare accepts the map, see FluxMap
  Supports(_)     \* the map reaches zero current and the reference

ASSUME TransportBounds ==
  MaxAxis \in Nat \ {0, 1} /\ MaxSource \in Nat \ {0} /\ MaxSkip \in Nat \ {0}

\* A "tiny" number is below the normal range, a "lost" one has no finite value
\* or vanished, a "word" is not all a number, a "long" token overflows a buffer.
TokenKinds == {"magic", "number", "tiny", "lost", "word", "long"}

\* "gap" is the white space before a token, beyond the one separator.
Token ==
  {t \in [kind : TokenKinds, n : Int, gap : Nat] : t.kind = "magic" => t.n = 0}

\* "tail" is the white space at the end; a broken stream ends with an error.
InputType ==
  [lut : BOOLEAN, control : BOOLEAN, text : Seq(Token), tail : Nat, broken : BOOLEAN]

ASSUME TextInputs == Inputs \subseteq InputType

\* What FluxMap.__init__ asks of a map: bytes without a zero, axes of bounded
\* length, tables that match them, and the approval of the native library.
MapType ==
  [evidence : 1..4, reals : [1..5 -> Int], source : Seq(1..255),
   id_A : Seq(Int), iq_A : Seq(Int), psi_d_Wb : Seq(Seq(Int)), psi_q_Wb : Seq(Seq(Int))]

Loads(m) ==
  /\ m \in MapType
  /\ Len(m.source) \in 1..MaxSource
  /\ Len(m.id_A) \in 2..MaxAxis /\ Len(m.iq_A) \in 2..MaxAxis
  /\ \A rows \in {m.psi_d_Wb, m.psi_q_Wb} :
       Len(rows) = Len(m.id_A) /\ \A r \in 1..Len(rows) : Len(rows[r]) = Len(m.iq_A)
  /\ Prepares(m)

ASSUME MapsAssumption == \A m \in Maps : Loads(m)

\* A slot and what is read into it.
Slots == 0..1

Fields ==
  <<"magic", "version", "units", "convention", "nd", "nq", "evidence", "source_length",
    "temperature_k", "declared_flux_error_wb", "min_incremental_h",
    "max_reciprocity_error_h", "min_rcond">>

Reals == {Fields[i] : i \in 9..13}

\* The values of the fields that hold a whole number.
Whole ==
  [version |-> 1..1, units |-> 1..1, convention |-> 1..1,
   nd |-> 2..MaxAxis, nq |-> 2..MaxAxis, evidence |-> 1..4, source_length |-> 1..MaxSource]

\* The parts of a map, and the order they come in.
NextPart ==
  [head |-> "source", source |-> "id_axis", id_axis |-> "iq_axis",
   iq_axis |-> "psi_d", psi_d |-> "psi_q", psi_q |-> "full"]

\* Those a slot keeps, and the room it has for them.
Arrays == {"source", "id_axis", "iq_axis", "psi_d", "psi_q"}

Room(part) ==
  CASE part = "source" -> MaxSource + 1
    [] part \in {"id_axis", "iq_axis"} -> MaxAxis
    [] OTHER -> MaxAxis * MaxAxis

VARIABLES
  input,
  pos,        \* the next token
  slot,
  head,       \* the fields read by this call, zero before
  at,         \* where the call is: <<part, i>>, or <<"full", 1>>
  storage,    \* namc_storage, static: all zero at first
  maps,       \* the maps prepared: their fields and the slot they point into
  stage       \* "reading", "prepared", "ending", "running", "reported", "failed", "rejected"

vars == <<input, pos, slot, head, at, storage, maps, stage>>

None == [slot |-> -1]
Empty == [f \in {Fields[i] : i \in 1..13} |-> 0]

Init ==
  /\ input \in Inputs
  /\ pos = 1
  /\ slot = IF input.lut THEN 0 ELSE 1
  /\ head = Empty
  /\ at = <<"head", 1>>
  /\ storage = [s \in Slots |-> [part \in Arrays |-> [i \in 1..Room(part) |-> 0]]]
  /\ maps = [s \in Slots |-> None]
  /\ stage = IF input.lut \/ input.control THEN "reading" ELSE "running"

-----------------------------------------------------------------------------
(* The writer.                                                             *)

\* The two tables are kept flat, row after row; all rows are as long.
Flat(rows) ==
  LET nq == Len(rows[1])
  IN [k \in 1..(Len(rows) * nq) |-> rows[(k - 1) \div nq + 1][((k - 1) % nq) + 1]]

\* What FluxMap writes for a map, as the values of the tokens.  The magic is 0.
Written(m) ==
  <<0, 2, 2, 2, 2 * Len(m.id_A), 2 * Len(m.iq_A), 2 * m.evidence, 2 * Len(m.source)>>
    \o [i \in 1..5 |-> m.reals[i]]
    \o [i \in 1..Len(m.source) |-> 2 * m.source[i]]
    \o m.id_A \o m.iq_A \o Flat(m.psi_d_Wb) \o Flat(m.psi_q_Wb)

-----------------------------------------------------------------------------
(* The reader.                                                             *)

\* Reading a token: bounded white space, a bounded token, no stream error at
\* its end.
Readable(k) ==
  /\ k <= Len(input.text)
  /\ input.text[k].gap + 1 <= MaxSkip
  /\ input.text[k].kind # "long"
  /\ ~(input.broken /\ k = Len(input.text) /\ input.tail = 0)

IsNumber(t) == t.kind \in {"number", "tiny"}

IsInteger(t, range) == IsNumber(t) /\ t.n % 2 = 0 /\ t.n \div 2 \in range

Accepts(place, t) ==
  LET f == Fields[place[2]]
  IN CASE place[1] = "head" ->
            IF f = "magic" THEN t.kind = "magic"
            ELSE IF f \in Reals THEN IsNumber(t)
            ELSE IsInteger(t, Whole[f])
       [] place[1] = "source" -> IsInteger(t, 1..255)
       [] OTHER -> IsNumber(t)

\* Mutant: both tables have as many cells as a square one.
SizeSquare(h, part) ==
  CASE part = "head" -> Len(Fields)
    [] part = "source" -> h["source_length"]
    [] part = "id_axis" -> h["nd"]
    [] part = "iq_axis" -> h["nq"]
    [] OTHER -> h["nd"] * h["nd"]

Size(h, part) ==
  CASE part = "head" -> Len(Fields)
    [] part = "source" -> h["source_length"]
    [] part = "id_axis" -> h["nd"]
    [] part = "iq_axis" -> h["nq"]
    [] OTHER -> h["nd"] * h["nq"]

\* Where the call goes after a token.
After(place) ==
  IF place[2] < Size(head, place[1]) THEN <<place[1], place[2] + 1>>
  ELSE <<NextPart[place[1]], 1>>

Reading == stage = "reading" /\ at[1] # "full"

\* The source is closed with a zero after its last byte.
Store(place, n) ==
  IF place[1] # "source" THEN [storage EXCEPT ![slot][place[1]][place[2]] = n]
  ELSE LET bytes == [storage EXCEPT ![slot]["source"][place[2]] = n \div 2]
       IN IF place[2] = head["source_length"]
          THEN [bytes EXCEPT ![slot]["source"][place[2] + 1] = 0] ELSE bytes

\* A header field is kept by the call, the rest goes to the static slot.
Take ==
  /\ Reading
  /\ Readable(pos)
  /\ LET t == input.text[pos]
         f == Fields[at[2]]
     IN /\ Accepts(at, t)
        /\ IF at[1] = "head"
           THEN /\ head' = [head EXCEPT ![f] = IF f \in DOMAIN Whole THEN t.n \div 2 ELSE t.n]
                /\ UNCHANGED storage
           ELSE storage' = Store(at, t.n) /\ UNCHANGED head
  /\ pos' = pos + 1
  /\ at' = After(at)
  /\ UNCHANGED <<input, slot, maps, stage>>

Refuse ==
  /\ Reading
  /\ Readable(pos) => ~Accepts(at, input.text[pos])
  /\ stage' = "rejected"
  /\ UNCHANGED <<input, pos, slot, head, at, storage, maps>>

-----------------------------------------------------------------------------
(* A map as its users see it, through its pointers.                        *)

\* A string ends at its first zero.
Name(bytes) ==
  LET end == CHOOSE i \in DOMAIN bytes : bytes[i] = 0 /\ \A j \in 1..(i - 1) : bytes[j] # 0
  IN SubSeq(bytes, 1, end - 1)

Table(values, nd, nq) == [r \in 1..nd |-> SubSeq(values, (r - 1) * nq + 1, r * nq)]

\* What namc_sim_print_map prints of it.
Printed(m) ==
  LET h == m.head
      cells == storage[m.slot]
  IN [evidence |-> h["evidence"], reals |-> [i \in 1..5 |-> h[Fields[i + 8]]],
      source |-> Name(cells["source"]),
      id_A |-> SubSeq(cells["id_axis"], 1, h["nd"]),
      iq_A |-> SubSeq(cells["iq_axis"], 1, h["nq"]),
      psi_d_Wb |-> Table(cells["psi_d"], h["nd"], h["nq"]),
      psi_q_Wb |-> Table(cells["psi_q"], h["nd"], h["nq"])]

\* Mutant: every map points into the first slot.
PreparedShared == [slot |-> 0, head |-> head]

Prepared == [slot |-> slot, head |-> head]

Prepare ==
  /\ stage = "reading" /\ at[1] = "full"
  /\ IF Prepares(Printed(Prepared))
     THEN maps' = [maps EXCEPT ![slot] = Prepared] /\ stage' = "prepared"
     ELSE stage' = "rejected" /\ UNCHANGED maps
  /\ UNCHANGED <<input, pos, slot, head, at, storage>>

\* The plant's map has to reach the reference before the controller's is read.
Continue ==
  /\ stage = "prepared"
  /\ IF slot = 0 /\ ~Supports(Printed(maps[0]))
     THEN stage' = "rejected" /\ UNCHANGED <<slot, head, at>>
     ELSE IF slot = 0 /\ input.control
     THEN slot' = 1 /\ head' = Empty /\ at' = <<"head", 1>> /\ stage' = "reading"
     ELSE stage' = "ending" /\ UNCHANGED <<slot, head, at>>
  /\ UNCHANGED <<input, pos, storage, maps>>

\* namc_sim_map_end: only bounded white space is left, and the stream is sound.
AtEnd ==
  /\ pos > Len(input.text)
  /\ (IF input.tail = 0 THEN 0 ELSE input.tail - 1) + 1 <= MaxSkip
  /\ ~input.broken

End ==
  /\ stage = "ending"
  /\ stage' = IF AtEnd THEN "running" ELSE "rejected"
  /\ UNCHANGED <<input, pos, slot, head, at, storage, maps>>

\* A run that goes well prints the maps it used, one that does not prints none.
Report ==
  /\ stage = "running"
  /\ stage' \in {"reported", "failed"}
  /\ UNCHANGED <<input, pos, slot, head, at, storage, maps>>

Next == Take \/ Refuse \/ Prepare \/ Continue \/ End \/ Report

Spec == Init /\ [][Next]_vars

-----------------------------------------------------------------------------
(* Properties.                                                             *)

Values(text) == [k \in 1..Len(text) |-> text[k].n]

\* The maps of the report, written again, the plant's first.
Replayed ==
  (IF input.lut THEN Written(Printed(maps[0])) ELSE <<>>)
    \o (IF input.control THEN Written(Printed(maps[1])) ELSE <<>>)

\* Reading is the inverse of writing, whatever text arrives: the maps a run
\* uses, and prints for replay, are those which, written again, make all of the
\* text that was sent.  Nothing is skipped, mixed up between the plant's map
\* and the controller's, rounded or left over from another read.
ReplayIsWhatWasSent ==
  stage \in {"running", "reported"} /\ (input.lut \/ input.control) =>
    Values(input.text) = Replayed /\ ~input.broken

\* One map or two, as a text.
Sent(seq) ==
  LET values == Written(seq[1]) \o (IF Len(seq) = 2 THEN Written(seq[2]) ELSE <<>>)
      starts == {1, Len(Written(seq[1])) + 1}
  IN [k \in 1..Len(values) |->
        [kind |-> IF k \in starts THEN "magic" ELSE "number", n |-> values[k], gap |-> 0]]

\* What the wrappers send for a plant map and, possibly, a controller map.
FromWrapper ==
  \E p, c \in Maps :
    /\ Supports(p)
    /\ input.lut /\ input.tail = 1 /\ ~input.broken
    /\ input.text = Sent(IF input.control THEN <<p, c>> ELSE <<p>>)

\* The loader and the native reader agree on what a map is: one that FluxMap
\* has accepted is never refused on its way into a run.
WrapperIsUnderstood ==
  FromWrapper => stage # "rejected"

=============================================================================
