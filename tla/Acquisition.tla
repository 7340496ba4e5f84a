---------------------------- MODULE Acquisition ----------------------------
(***************************************************************************)
(* What every bounded identification run of the core promises its caller,  *)
(* whatever it measures: the standstill resistance run and the local flux  *)
(* run both implement this specification.                                  *)
(*                                                                         *)
(* A run works under a contract: the number of samples it needs and the    *)
(* number it may use.  It takes its samples one at a time, publishes one   *)
(* result, only with the last sample it needs and only inside its budget,  *)
(* and any end it comes to stays until the caller starts again or aborts.  *)
(***************************************************************************)
EXTENDS Naturals

CONSTANTS
  Contracts    \* records [needed, budget] a run can be started with

VARIABLES
  mode,        \* "idle", "active", "complete", "degraded" or "fault"
  contract,    \* the contract of the last start
  used,        \* samples accepted since that start
  published    \* is a nonzero result in the caller's storage?

vars == <<mode, contract, used, published>>

\* The contract of storage that never held a valid configuration.
NoContract == [needed |-> 0, budget |-> 0]

Init ==
  /\ mode = "idle"
  /\ contract = NoContract
  /\ used = 0
  /\ published = FALSE

(***************************************************************************)
(* The caller starts, or restarts, a run: everything before it is gone.    *)
(***************************************************************************)
Begin ==
  /\ mode' = "active"
  /\ contract' \in Contracts
  /\ used' = 0
  /\ published' = FALSE

(***************************************************************************)
(* A start whose configuration is refused leaves no runnable state.        *)
(***************************************************************************)
RefuseStart ==
  /\ mode' = "fault"
  /\ contract' = NoContract
  /\ used' = 0
  /\ published' = FALSE

(***************************************************************************)
(* One more sample, and neither the budget nor the need is reached yet.    *)
(***************************************************************************)
Accept ==
  /\ mode = "active"
  /\ used + 1 < contract.needed
  /\ used + 1 < contract.budget
  /\ used' = used + 1
  /\ UNCHANGED <<mode, contract, published>>

(***************************************************************************)
(* The last sample the run needs: the result is published.                 *)
(***************************************************************************)
Complete ==
  /\ mode = "active"
  /\ used + 1 = contract.needed
  /\ used + 1 <= contract.budget
  /\ used' = used + 1
  /\ mode' = "complete"
  /\ published' = TRUE
  /\ UNCHANGED contract

(***************************************************************************)
(* The run gives up, before or after counting the sample it was shown.     *)
(***************************************************************************)
Fail ==
  /\ mode = "active"
  /\ used < contract.budget
  /\ used' \in {used, used + 1}
  /\ mode' \in {"degraded", "fault"}
  /\ UNCHANGED <<contract, published>>

(***************************************************************************)
(* The caller abandons the run, or uses storage no start has prepared: a   *)
(* fault, and whatever was published is withdrawn.                         *)
(***************************************************************************)
Abandon ==
  /\ mode' = "fault"
  /\ published' = FALSE
  /\ UNCHANGED <<contract, used>>

Progress == Accept \/ Complete \/ Fail

Next == Begin \/ RefuseStart \/ Progress \/ Abandon

Spec == Init /\ [][Next]_vars

(***************************************************************************)
(* A caller that keeps showing samples to a run sees it end, unless it     *)
(* restarts it for ever.                                                   *)
(***************************************************************************)
EventuallyEnds ==
  \/ []<><<Begin>>_vars
  \/ []<>(mode # "active")

=============================================================================
