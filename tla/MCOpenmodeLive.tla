---------------------------- MODULE MCOpenmodeLive ----------------------------
(* TLC instances of OpenmodeLive: one camera, counts with small limits.    *)
EXTENDS OpenmodeLive, TLC
=============================================================================
