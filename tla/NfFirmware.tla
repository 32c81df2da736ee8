------------------------------ MODULE NfFirmware ------------------------------
(***************************************************************************)
(* The dual-bank firmware upgrade of sysman/nf_util_fw.c.                  *)
(*                                                                         *)
(* Flash holds two banks of images, "ping" and "pong", each with a header  *)
(* page that carries a sequence number; an erased header reads as Blank.   *)
(* An upgrade erases, writes and checks the images of one bank and then    *)
(* rewrites the header of that bank with the higher number.  The power may *)
(* fail between any two flash operations, and any of them may fail.  The   *)
(* boot loader is not in src/: it boots the bank with the higher number,   *)
(* and the model allows both readings of a Blank header.                   *)
(*                                                                         *)
(* This is the upgrade of the hotkey, of the blocking call and of builds   *)
(* without CONFIG_FWUPGRADE_SINGLE; the others use nf_util_fw_single.c.    *)
(***************************************************************************)
EXTENDS Naturals

CONSTANTS NImages,      \* images in a firmware file
          FirstSeq,     \* 10000: the lower number of a first upgrade
          Blank,        \* 0xffffffff: the number of an erased header
          MaxUpgrades,  \* bound: upgrades begun
          MaxFaults     \* bound: power failures and failed flash operations

ASSUME NfFirmwareAssumption ==
  /\ NImages \in Nat \ {0}
  /\ FirstSeq \in Nat /\ MaxUpgrades \in Nat /\ MaxFaults \in Nat
  /\ Blank \in Nat /\ FirstSeq + MaxUpgrades + 1 < Blank

Sections == 1 .. NImages
Banks == {"ping", "pong"}
Other(b) == IF b = "ping" THEN "pong" ELSE "ping"

Factory == 0                \* the version a unit leaves the factory with
Broken  == MaxUpgrades + 1  \* stands for an erased or badly written image
Versions == 0 .. MaxUpgrades + 1

VARIABLES
  policy,    \* what the boot loader takes a Blank header for: "oldest", "newest"
  hdr,       \* hdr[b]: the sequence number in the header of bank b
  image,     \* image[b][i]: the version of image i of bank b, or Broken
  uboot,     \* U-Boot, which has no second copy, is intact
  up,        \* the unit runs; it cannot boot any more when FALSE
  running,   \* the bank the unit has booted from
  runs,      \* history: the version the unit has booted
  pc,        \* where nf_fw_start_upgrade is
  seq,       \* ping_seq and pong_seq
  isFirst,   \* is_first
  announced, \* the bank nf_fw_get_seq returns
  target,    \* the bank the images are written to
  section,   \* the image being written
  withUboot, \* is_uboot_up
  version,   \* upgrades begun; the version of the file of the last one
  faults,    \* history: power failures and failed operations
  clean,     \* history: both headers were programmed when the upgrade began
  misread    \* history: a failed read of the pong header went unnoticed

flashVars == <<hdr, image, uboot>>
unitVars  == <<policy, up, running, runs>>
fileVars  == <<seq, isFirst, announced, target, withUboot, version, clean, misread>>
vars      == <<flashVars, unitVars, pc, section, fileVars, faults>>

PCs == {"idle", "erase", "write", "check", "pong_erase", "pong_write", "ping_erase",
        "ping_write", "hdr_erase", "hdr_write", "verify", "uboot_erase", "uboot_write",
        "app_param", "done"}

Complete(b) == \A i \in Sections : image[b][i] # Broken /\ image[b][i] = image[b][1]

(* Blank headers lose, or win, against programmed ones; when both are Blank*)
(* the unit boots ping, which the factory programs.                        *)
BootBank ==
  IF \/ hdr["ping"] = hdr["pong"]
     \/ policy = "oldest" /\ hdr["pong"] = Blank
     \/ hdr["ping"] > hdr["pong"] /\ ~(policy = "oldest" /\ hdr["ping"] = Blank)
    THEN "ping" ELSE "pong"

(* Bootable in the present state of the flash.                             *)
Bootable == uboot /\ Complete(BootBank)

(* A unit from the factory has either no header at all or both.            *)
Init ==
  /\ policy \in {"oldest", "newest"}
  /\ hdr \in {[b \in Banks |-> Blank],
              [b \in Banks |-> IF b = "ping" THEN FirstSeq + 1 ELSE FirstSeq]}
  /\ \E v \in {Factory, Broken} :
       image = [b \in Banks |-> [i \in Sections |-> IF b = "ping" THEN Factory ELSE v]]
  /\ uboot = TRUE
  /\ up = TRUE
  /\ running = "ping"
  /\ runs = Factory
  /\ pc = "idle"
  /\ seq = hdr
  /\ isFirst = FALSE
  /\ announced = "ping"
  /\ target = "pong"
  /\ section = 1
  /\ withUboot = FALSE
  /\ version = 0
  /\ faults = 0
  /\ clean = FALSE
  /\ misread = FALSE

-----------------------------------------------------------------------------
(* guint arithmetic: one more than the highest number is 0.                *)
Succ(s) == IF s = Blank THEN 0 ELSE s + 1

(* What nf_fw_get_seq makes of the headers, and the bank it returns.  It   *)
(* does not look at the result of reading the pong header, whose number is *)
(* then 0; a failed read of the ping header ends the upgrade.              *)
HdrRead(ok) == IF ok THEN hdr ELSE [hdr EXCEPT !["pong"] = 0]

NoHeaders(h)     == h["ping"] = Blank /\ h["pong"] = Blank
ReadSeq(h)       == IF NoHeaders(h)
                      THEN [b \in Banks |-> IF b = "ping" THEN FirstSeq + 1 ELSE FirstSeq]
                      ELSE h
AnnouncedPart(h) == IF NoHeaders(h) \/ h["ping"] < h["pong"] THEN "ping" ELSE "pong"
SeqError(h)      == ~NoHeaders(h) /\ h["ping"] = h["pong"]

(* Mutant: the images go to the bank with the higher number.               *)
TargetNewer(s) == IF s["ping"] < s["pong"] THEN "pong" ELSE "ping"

(* The bank nf_fw_start_upgrade writes to.                                 *)
TargetOf(s) == IF s["ping"] < s["pong"] THEN "ping" ELSE "pong"

(* nf_fw_start_upgrade up to the first image: the numbers are read, and the*)
(* file is found to be a firmware of this product.                         *)
Start(u, ok) ==
  /\ up
  /\ pc \in {"idle", "done"}
  /\ version < MaxUpgrades
  /\ ok \/ faults < MaxFaults
  /\ faults' = IF ok THEN faults ELSE faults + 1
  /\ misread' = (misread \/ ~ok)
  /\ LET h == HdrRead(ok)
     IN /\ ~SeqError(h)
        /\ seq' = ReadSeq(h)
        /\ isFirst' = NoHeaders(h)
        /\ announced' = AnnouncedPart(h)
        /\ target' = TargetOf(ReadSeq(h))
  /\ withUboot' = u
  /\ version' = version + 1
  /\ clean' = (\A b \in Banks : hdr[b] # Blank)
  /\ section' = 1
  /\ pc' = "erase"
  /\ UNCHANGED <<flashVars, unitVars>>

EraseImage ==
  /\ pc = "erase"
  /\ image' = [image EXCEPT ![target][section] = Broken]
  /\ pc' = "write"
  /\ UNCHANGED <<hdr, uboot, unitVars, section, fileVars, faults>>

(* The image is written; the flash may keep something else.                *)
WriteImage(good) ==
  /\ pc = "write"
  /\ good \/ faults < MaxFaults
  /\ image' = [image EXCEPT ![target][section] = IF good THEN version ELSE Broken]
  /\ faults' = IF good THEN faults ELSE faults + 1
  /\ pc' = "check"
  /\ UNCHANGED <<hdr, uboot, unitVars, section, fileVars>>

Last == section + 1 \notin Sections

(* Mutant: the images are not read back.                                   *)
NoCheckImage ==
  /\ pc = "check"
  /\ pc' = IF ~Last THEN "erase" ELSE IF isFirst THEN "pong_erase" ELSE "hdr_erase"
  /\ section' = IF ~Last THEN section + 1 ELSE section
  /\ UNCHANGED <<flashVars, unitVars, fileVars, faults>>

(* nf_fw_crc_check reads it back.  After the last image comes the check of *)
(* the end magic, and then nf_fw_set_seq.                                  *)
CheckImage ==
  /\ pc = "check"
  /\ IF image[target][section] = Broken
       THEN pc' = "idle" /\ UNCHANGED section
       ELSE /\ pc' = IF ~Last THEN "erase" ELSE IF isFirst THEN "pong_erase" ELSE "hdr_erase"
            /\ section' = IF ~Last THEN section + 1 ELSE section
  /\ UNCHANGED <<flashVars, unitVars, fileVars, faults>>

-----------------------------------------------------------------------------
(* nf_fw_set_seq.                                                          *)

SetHdr(from, b, s, to) ==
  /\ pc = from
  /\ hdr' = [hdr EXCEPT ![b] = s]
  /\ pc' = to
  /\ UNCHANGED <<image, uboot, unitVars, section, fileVars, faults>>

(* A first upgrade programs both headers.  Whether the erasure of the ping *)
(* header, Blank as it is, succeeds is not looked at.                      *)
PongErase == SetHdr("pong_erase", "pong", Blank, "pong_write")
PongWrite == SetHdr("pong_write", "pong", seq["pong"], "ping_erase")
PingErase == SetHdr("ping_erase", "ping", Blank, "ping_write")
PingWrite == SetHdr("ping_write", "ping", seq["ping"], "verify")

(* A later one programs the header of the bank with the lower number.      *)
HdrErase  == SetHdr("hdr_erase", target, Blank, "hdr_write")

(* Mutant: the bank's own number is incremented.                           *)
HdrWriteOwn == SetHdr("hdr_write", target, Succ(seq[target]), "verify")
(* Mutant: the number is computed without wrapping.                        *)
HdrWriteWide == SetHdr("hdr_write", target, seq[Other(target)] + 1, "verify")

HdrWrite  == SetHdr("hdr_write", target, Succ(seq[Other(target)]), "verify")

(* The headers are read back.                                              *)
Verify ==
  /\ pc = "verify"
  /\ pc' = IF withUboot THEN "uboot_erase" ELSE "app_param"
  /\ UNCHANGED <<flashVars, unitVars, section, fileVars, faults>>

(* nf_fw_update_uboot.                                                     *)
UbootErase ==
  /\ pc = "uboot_erase"
  /\ uboot' = FALSE
  /\ pc' = "uboot_write"
  /\ UNCHANGED <<hdr, image, unitVars, section, fileVars, faults>>

UbootWrite ==
  /\ pc = "uboot_write"
  /\ uboot' = TRUE
  /\ pc' = "app_param"
  /\ UNCHANGED <<hdr, image, unitVars, section, fileVars, faults>>

(* nf_fw_set_app_param; the parameters are not modelled, a failure is.     *)
SetAppParam ==
  /\ pc = "app_param"
  /\ pc' = "done"
  /\ UNCHANGED <<flashVars, unitVars, section, fileVars, faults>>

Upgrade ==
  \/ \E u, ok \in BOOLEAN : Start(u, ok)
  \/ EraseImage \/ CheckImage
  \/ \E good \in BOOLEAN : WriteImage(good)
  \/ PongErase \/ PongWrite \/ PingErase \/ PingWrite \/ HdrErase \/ HdrWrite
  \/ Verify \/ UbootErase \/ UbootWrite \/ SetAppParam

-----------------------------------------------------------------------------
Busy == pc \notin {"idle", "done"}

(* A flash operation returns an error: nf_fw_upgrade_fail, and the unit    *)
(* runs on.                                                                *)
Fail ==
  /\ Busy
  /\ pc # "ping_erase"
  /\ faults < MaxFaults
  /\ faults' = faults + 1
  /\ pc' = "idle"
  /\ UNCHANGED <<flashVars, unitVars, section, fileVars>>

Boot ==
  /\ up' = Bootable
  /\ running' = BootBank
  /\ runs' = IF Bootable THEN image[BootBank][1] ELSE runs
  /\ pc' = "idle"
  /\ UNCHANGED <<policy, flashVars, section, fileVars>>

(* The power fails during an upgrade.                                      *)
Crash ==
  /\ up
  /\ Busy
  /\ faults < MaxFaults
  /\ faults' = faults + 1
  /\ Boot

(* The unit is restarted, after an upgrade or at any other time.           *)
Restart ==
  /\ up
  /\ ~Busy
  /\ Boot
  /\ UNCHANGED faults

Next == (up /\ (Upgrade \/ Fail)) \/ Crash \/ Restart

Spec == Init /\ [][Next]_vars

-----------------------------------------------------------------------------
(* Every variable holds a value of its type.                               *)
TypeOK ==
  /\ policy \in {"oldest", "newest"}
  /\ hdr \in [Banks -> 0 .. Blank]
  /\ image \in [Banks -> [Sections -> Versions]]
  /\ uboot \in BOOLEAN
  /\ up \in BOOLEAN
  /\ running \in Banks
  /\ runs \in 0 .. MaxUpgrades
  /\ pc \in PCs
  /\ seq \in [Banks -> 0 .. Blank]
  /\ isFirst \in BOOLEAN
  /\ announced \in Banks
  /\ target \in Banks
  /\ section \in Sections
  /\ withUboot \in BOOLEAN
  /\ version \in 0 .. MaxUpgrades
  /\ faults \in Nat
  /\ clean \in BOOLEAN
  /\ misread \in BOOLEAN

(* An erased header counts as the newest, and no failed read was missed.   *)
Newest == policy = "newest" /\ ~misread

(* The faults two banks are there for.                                     *)
Covered == faults <= 1 \/ Newest

(* One fault at any point of any sequence of upgrades leaves a unit that   *)
(* boots, whatever the boot loader takes an erased header for, unless it   *)
(* hit U-Boot itself.  When an erased header counts as the newest, and the *)
(* pong header has always been read, the number of faults does not matter. *)
FaultsSurvived == Covered /\ uboot => up

(* No start, after an upgrade or in the middle of one, goes back to an     *)
(* older file than the unit has run, although an upgrade that finds an     *)
(* erased header may overwrite the bank that runs.                         *)
NeverOlder == [][Covered' => runs' >= runs]_vars

(* The numbers of two programmed banks never tie: nf_fw_get_seq would then *)
(* refuse every later upgrade.                                             *)
NoTie == ~SeqError(hdr)

(* An upgrade that begins with both headers programmed and succeeds is what*)
(* the next start boots.                                                   *)
TakesEffect ==
  pc = "done" /\ clean =>
    /\ BootBank = target
    /\ \A i \in Sections : image[target][i] = version

(* "Upgarade part is ping" (nf_util_fw.c:194): the images go to the bank   *)
(* the upgrade announces.                                                  *)
AnnouncedIsWritten == Busy => announced = target

(* The unit as its owner knows it.                                         *)
Unit == INSTANCE FirmwareUnit WITH finished <- pc = "done" /\ clean, within <- Covered
UnitSpec == Unit!Spec
=============================================================================
