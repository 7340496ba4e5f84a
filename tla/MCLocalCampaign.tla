-------------------------- MODULE MCLocalCampaign ---------------------------
(***************************************************************************)
(* A small instance of LocalCampaign: up to four requests over four        *)
(* points, where three are allowed, with repeated points, both roles, and  *)
(* requests that are not sound.                                            *)
(***************************************************************************)
EXTENDS LocalCampaign

CONSTANTS Zero, Left, Right, Far

FourPoints == {Zero, Left, Right, Far}

Asked(point, role) == [target |-> point, role |-> role, sound |-> TRUE]

SomeRequests ==
  {Asked(point, "acquisition") : point \in FourPoints}
    \cup {Asked(Left, "held-out"), [Asked(Right, "acquisition") EXCEPT !.sound = FALSE]}

ShortCalls == UNION {[1..n -> SomeRequests] : n \in 0..4}
=============================================================================
