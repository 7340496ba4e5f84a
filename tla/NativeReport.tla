---------------------------- MODULE NativeReport ----------------------------
(***************************************************************************)
(* What the two native identification programs print of a finished run,    *)
(* as far as the campaign of flux_identification.py reads it: what one     *)
(* side guarantees (ResistanceExperiment, FluxExperiment) and the other    *)
(* relies on (LocalCampaign).                                              *)
(***************************************************************************)

EndPhases == {"COMPLETE", "DEGRADED", "FAULT"}

\* A flux program may offer the flux of the magnet only of a complete run at
\* zero current.
FluxReports(atOrigin) ==
  [phase : EndPhases, magnet : {FALSE}]
    \cup (IF atOrigin THEN [phase : {"COMPLETE"}, magnet : {TRUE}] ELSE {})
=============================================================================
