----------------------------- MODULE MCNfSetupJob -----------------------------
(* TLC instances of NfSetupJob: a handful of requests for one slot.        *)
EXTENDS NfSetupJob, TLC
=============================================================================
