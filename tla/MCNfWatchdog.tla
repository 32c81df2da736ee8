---------------------------- MODULE MCNfWatchdog ----------------------------
(* TLC instances of NfWatchdog, with the enumeration values of             *)
(* nf_watchdog.h and intervals of a few seconds.                           *)
EXTENDS NfWatchdog, TLC

MCInterval == (2 :> 3) @@ (6 :> 1) @@ (13 :> 0)
=============================================================================
