----------------------------- MODULE MCNfNotify -----------------------------
(* TLC instances of NfNotify.                                              *)
EXTENDS NfNotify, TLC

CONSTANTS vloss, analog_rec, h1, h2, r1

MCProps == {vloss, analog_rec}

(* Two handlers of one property; none.                                    *)
MCPropOf2 == (h1 :> vloss) @@ (h2 :> vloss)
MCPropOf0 == <<>>
=============================================================================
