----------------------------- MODULE FirmwareUnit -----------------------------
(***************************************************************************)
(* What the dual-bank upgrade of nf_util_fw.c promises the owner of a unit,*)
(* without banks, headers or images.  A unit runs one firmware, all of it. *)
(* An upgrade that has finished is what the next start runs.  Any other    *)
(* start, in the middle of an upgrade or after a failed one, runs what ran *)
(* before or something newer.  The unit fails to start only after more     *)
(* faults than two banks are there for, or without its U-Boot.             *)
(***************************************************************************)
EXTENDS Naturals

CONSTANT MaxUpgrades  \* bound: upgrades begun

VARIABLES version,  \* the file of the last upgrade begun: the first is 1
          runs,     \* the file the unit runs, 0 the firmware it left the factory with
          up,       \* the unit runs
          finished, \* an upgrade has finished and the unit has not restarted since
          within,   \* the faults so far are those two banks are there for
          uboot     \* U-Boot, which has no second copy, is intact

vars == <<version, runs, up, finished, within, uboot>>

Init ==
  /\ version = 0 /\ runs = 0
  /\ up = TRUE /\ uboot = TRUE /\ within = TRUE
  /\ finished = FALSE

(* One fault more may be one too many.                                     *)
Fault == within' \in {within, FALSE}

Begin ==
  /\ up /\ version < MaxUpgrades
  /\ version' = version + 1
  /\ finished' = FALSE
  /\ Fault
  /\ UNCHANGED <<runs, up, uboot>>

(* The upgrade goes on, fails or finishes; none of it changes what runs.   *)
Proceed ==
  /\ up
  /\ finished' \in {finished, TRUE}
  /\ Fault
  /\ UNCHANGED <<version, runs, up, uboot>>

ReplaceUboot ==
  /\ up /\ ~finished
  /\ uboot' = ~uboot
  /\ UNCHANGED <<version, runs, up, finished, within>>

(* What a start that succeeds may run.                                     *)
Choices == IF finished THEN {version}
           ELSE IF within' THEN runs .. version ELSE 0 .. version

Restart ==
  /\ up
  /\ Fault
  /\ up' \in BOOLEAN
  /\ IF up' THEN uboot /\ runs' \in Choices
            ELSE runs' = runs /\ (uboot => ~within' /\ ~finished)
  /\ finished' = FALSE
  /\ UNCHANGED <<version, uboot>>

Next == Begin \/ Proceed \/ ReplaceUboot \/ Restart

Spec == Init /\ [][Next]_vars
=============================================================================
