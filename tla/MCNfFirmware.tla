----------------------------- MODULE MCNfFirmware -----------------------------
(* TLC instances of NfFirmware: files of two images, and numbers of a few  *)
(* bits, so that the wrap at the highest number is met.                    *)
EXTENDS NfFirmware, TLC
=============================================================================
