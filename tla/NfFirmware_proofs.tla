--------------------------- MODULE NfFirmware_proofs ---------------------------
(***************************************************************************)
(* Proofs about NfFirmware, for any number of images, upgrades and faults: *)
(* its variables keep their types, the numbers of two programmed banks     *)
(* never tie, a finished upgrade is what boots next, the unit survives the *)
(* faults FaultsSurvived lists, no start goes back to an older file, and   *)
(* to its owner the unit is a FirmwareUnit.                                *)
(***************************************************************************)
EXTENDS NfFirmware, TLAPS

-----------------------------------------------------------------------------
(* The steps of an upgrade: on the images, on the headers of a first       *)
(* upgrade, on the header of a later one, and after the headers.           *)
ImagePCs == {"erase", "write", "check"}
FirstPCs == {"pong_erase", "pong_write", "ping_erase", "ping_write"}
HdrPCs   == {"hdr_erase", "hdr_write"}
AfterPCs == {"verify", "uboot_erase", "uboot_write", "app_param", "done"}

-----------------------------------------------------------------------------
(* Data.                                                                   *)

LEMMA ConstantFacts ==
  /\ Blank \in Nat /\ FirstSeq \in Nat /\ MaxUpgrades \in Nat /\ MaxFaults \in Nat
  /\ FirstSeq + MaxUpgrades + 1 < Blank
  /\ 1 \in Sections /\ Sections \subseteq Nat
  /\ Broken \in Versions /\ Factory \in Versions /\ Factory # Broken
  /\ 0 .. MaxUpgrades \subseteq Versions /\ Broken \notin 0 .. MaxUpgrades
BY NfFirmwareAssumption DEF Sections, Broken, Versions, Factory

LEMMA OtherFacts ==
  /\ \A b \in Banks : Other(b) \in Banks /\ Other(b) # b /\ Other(Other(b)) = b
  /\ \A b, c \in Banks : b = c \/ b = Other(c)
  /\ Other("ping") = "pong" /\ Other("pong") = "ping"
BY DEF Banks, Other

(* The number after s, which wraps at Blank, is a number and not s.        *)
LEMMA SuccFacts ==
  \A s \in 0 .. Blank :
    /\ Succ(s) \in 0 .. Blank /\ Succ(s) # s
    /\ s # Blank => Succ(s) = s + 1
BY NfFirmwareAssumption DEF Succ

(* What nf_fw_get_seq returns is a number for each bank.                   *)
LEMMA ReadType ==
  ASSUME NEW ok \in BOOLEAN, hdr \in [Banks -> 0 .. Blank]
  PROVE  /\ HdrRead(ok) \in [Banks -> 0 .. Blank]
         /\ ReadSeq(HdrRead(ok)) \in [Banks -> 0 .. Blank]
BY NfFirmwareAssumption DEF HdrRead, ReadSeq, Banks

(* A read of the headers that goes well, and one of the pong header that   *)
(* fails.                                                                  *)
LEMMA ReadFacts ==
  ASSUME NEW ok \in BOOLEAN, hdr \in [Banks -> 0 .. Blank]
  PROVE  /\ ok => HdrRead(ok) = hdr
         /\ ~ok => /\ HdrRead(ok)["ping"] = hdr["ping"] /\ HdrRead(ok)["pong"] = 0
                   /\ ~NoHeaders(HdrRead(ok))
         /\ TargetOf(ReadSeq(HdrRead(ok))) \in Banks
BY NfFirmwareAssumption DEF HdrRead, NoHeaders, TargetOf, Banks

-----------------------------------------------------------------------------
(* Types.                                                                  *)

LEMMA InitType == Init => TypeOK
<1> SUFFICES ASSUME Init PROVE TypeOK
  OBVIOUS
<1>1. hdr \in [Banks -> 0 .. Blank] /\ seq \in [Banks -> 0 .. Blank]
  BY NfFirmwareAssumption DEF Init, Banks
<1>2. image \in [Banks -> [Sections -> Versions]]
  BY ConstantFacts DEF Init
<1>3. /\ policy \in {"oldest", "newest"} /\ uboot = TRUE /\ up = TRUE /\ running = "ping"
      /\ runs = 0
      /\ pc = "idle" /\ isFirst = FALSE /\ announced = "ping" /\ target = "pong"
      /\ section = 1 /\ withUboot = FALSE /\ version = 0 /\ faults = 0
      /\ clean = FALSE /\ misread = FALSE
  BY Zenon DEF Init, Factory
<1>4. section \in Sections /\ version \in 0 .. MaxUpgrades /\ faults \in Nat
      /\ runs \in 0 .. MaxUpgrades
  BY <1>3, ConstantFacts
<1>5. running \in Banks /\ announced \in Banks /\ target \in Banks /\ pc \in PCs
  BY <1>3 DEF Banks, PCs
<1>6. QED
  BY <1>1, <1>2, <1>3, <1>4, <1>5, Zenon DEF TypeOK

LEMMA NextType == TypeOK /\ [Next]_vars => TypeOK'
<1> SUFFICES ASSUME TypeOK, [Next]_vars PROVE TypeOK'
  OBVIOUS
<1>1. ASSUME NEW u \in BOOLEAN, NEW ok \in BOOLEAN, Start(u, ok) PROVE TypeOK'
  <2>1. ReadSeq(HdrRead(ok)) \in [Banks -> 0 .. Blank]
    BY ReadType DEF TypeOK
  <2>2. AnnouncedPart(HdrRead(ok)) \in Banks /\ TargetOf(ReadSeq(HdrRead(ok))) \in Banks
    BY DEF AnnouncedPart, TargetOf, Banks
  <2>3. seq' \in [Banks -> 0 .. Blank] /\ announced' \in Banks /\ target' \in Banks
    BY <1>1, <2>1, <2>2, Zenon DEF Start
  <2>4. isFirst' \in BOOLEAN
    BY <1>1, Zenon DEF Start, NoHeaders
  <2>5. misread' \in BOOLEAN /\ clean' \in BOOLEAN /\ withUboot' \in BOOLEAN
    BY <1>1, Zenon DEF Start, TypeOK
  <2>6. version' \in 0 .. MaxUpgrades /\ faults' \in Nat /\ section' \in Sections
    BY <1>1, ConstantFacts DEF Start, TypeOK
  <2>7. pc' \in PCs
    BY <1>1 DEF Start, PCs
  <2>8. UNCHANGED <<flashVars, unitVars>>
    BY <1>1 DEF Start
  <2>9. QED
    BY <2>3, <2>4, <2>5, <2>6, <2>7, <2>8 DEF TypeOK, flashVars, unitVars
<1>2. CASE EraseImage
  <2>1. image' \in [Banks -> [Sections -> Versions]]
    BY <1>2, ConstantFacts DEF EraseImage, TypeOK
  <2>2. QED
    BY <1>2, <2>1 DEF EraseImage, TypeOK, PCs, unitVars, fileVars
<1>3. ASSUME NEW good \in BOOLEAN, WriteImage(good) PROVE TypeOK'
  <2>1. image' \in [Banks -> [Sections -> Versions]]
    BY <1>3, ConstantFacts DEF WriteImage, TypeOK
  <2>2. faults' \in Nat
    BY <1>3 DEF WriteImage, TypeOK
  <2>3. QED
    BY <1>3, <2>1, <2>2 DEF WriteImage, TypeOK, PCs, unitVars, fileVars
<1>4. CASE CheckImage
  <2>1. section' \in Sections /\ pc' \in PCs
    BY <1>4 DEF CheckImage, Last, TypeOK, PCs
  <2>2. QED
    BY <1>4, <2>1 DEF CheckImage, TypeOK, flashVars, unitVars, fileVars
<1>5. ASSUME NEW from, NEW b \in Banks, NEW s \in 0 .. Blank, NEW to \in PCs,
             SetHdr(from, b, s, to)
      PROVE  TypeOK'
  BY <1>5 DEF SetHdr, TypeOK, unitVars, fileVars
<1>6. CASE PongErase \/ PongWrite \/ PingErase \/ PingWrite
  <2>1. /\ "ping" \in Banks /\ "pong" \in Banks /\ Blank \in 0 .. Blank
        /\ seq["ping"] \in 0 .. Blank /\ seq["pong"] \in 0 .. Blank
    BY ConstantFacts DEF TypeOK, Banks
  <2>2. {"pong_write", "ping_erase", "ping_write", "verify"} \subseteq PCs
    BY DEF PCs
  <2>3. QED
    BY <1>5, <1>6, <2>1, <2>2 DEF PongErase, PongWrite, PingErase, PingWrite
<1>7. CASE HdrErase \/ HdrWrite
  <2>1. target \in Banks /\ Blank \in 0 .. Blank /\ Succ(seq[Other(target)]) \in 0 .. Blank
    BY ConstantFacts, OtherFacts, SuccFacts DEF TypeOK
  <2>2. {"hdr_write", "verify"} \subseteq PCs
    BY DEF PCs
  <2>3. QED
    BY <1>5, <1>7, <2>1, <2>2 DEF HdrErase, HdrWrite
<1>8. CASE Verify \/ UbootErase \/ UbootWrite \/ SetAppParam
  BY <1>8 DEF Verify, UbootErase, UbootWrite, SetAppParam, TypeOK, PCs, flashVars,
              unitVars, fileVars
<1>9. CASE Fail
  BY <1>9 DEF Fail, TypeOK, PCs, flashVars, unitVars, fileVars
<1>10. CASE Crash \/ Restart
  <2>1. BootBank \in Banks
    BY DEF BootBank, Banks
  <2>2. Bootable \in BOOLEAN
    BY Zenon DEF Bootable, Complete, TypeOK
  <2>3. Boot /\ faults' \in Nat
    BY <1>10 DEF Crash, Restart, TypeOK
  <2>4. up' \in BOOLEAN
    BY <2>2, <2>3, Zenon DEF Boot
  <2>5. runs' \in 0 .. MaxUpgrades
    <3>1. Bootable => image[BootBank][1] \in Versions \ {Broken}
      BY <2>1, ConstantFacts DEF Bootable, Complete, TypeOK
    <3>2. Versions \ {Broken} \subseteq 0 .. MaxUpgrades
      BY ConstantFacts DEF Versions, Broken
    <3>3. QED
      BY <2>3, <3>1, <3>2 DEF Boot, TypeOK
  <2>6. QED
    BY <2>1, <2>3, <2>4, <2>5 DEF Boot, TypeOK, PCs, flashVars, fileVars
<1>11. CASE UNCHANGED vars
  BY <1>11 DEF vars, TypeOK, flashVars, unitVars, fileVars
<1>12. QED
  BY <1>1, <1>2, <1>3, <1>4, <1>6, <1>7, <1>8, <1>9, <1>10, <1>11 DEF Next, Upgrade

(* Every variable holds a value of its type, for every firmware file and   *)
(* every number of faults.                                                 *)
THEOREM TypeCorrect == Spec => []TypeOK
BY InitType, NextType, PTL DEF Spec

-----------------------------------------------------------------------------
(* The headers.                                                            *)

(* A first upgrade goes through the steps of its own.                      *)
PhaseInv ==
  /\ pc \in FirstPCs => isFirst
  /\ pc \in HdrPCs => ~isFirst

(* The two numbers differ or are both Blank.  Until its own header is      *)
(* rewritten, the number the upgrade has read for the bank it does not     *)
(* write to is still in the header, a failed read of the other one         *)
(* notwithstanding.                                                        *)
HeaderInv ==
  /\ ~SeqError(hdr)
  /\ (Busy /\ isFirst) =>
       target = "pong" /\ seq["ping"] = FirstSeq + 1 /\ seq["pong"] = FirstSeq
  /\ (pc \in ImagePCs \cup {"pong_erase", "pong_write"} /\ isFirst) => NoHeaders(hdr)
  /\ pc \in {"ping_erase", "ping_write"} => hdr["ping"] = Blank /\ hdr["pong"] = FirstSeq
  /\ (pc \in ImagePCs \cup HdrPCs /\ ~isFirst) => seq[Other(target)] = hdr[Other(target)]
  /\ pc = "hdr_write" => hdr[target] = Blank

(* What the start of an upgrade establishes.                               *)
LEMMA StartRead ==
  ASSUME TypeOK, NEW u \in BOOLEAN, NEW ok \in BOOLEAN, Start(u, ok)
  PROVE  /\ hdr' = hdr /\ image' = image /\ pc' = "erase" /\ section' = 1
         /\ version' = version + 1 /\ target' \in Banks
         /\ isFirst' => ok /\ NoHeaders(hdr) /\ target' = "pong"
                        /\ seq'["ping"] = FirstSeq + 1 /\ seq'["pong"] = FirstSeq
         /\ ~isFirst' => seq'[Other(target')] = hdr[Other(target')]
         /\ ok => target' = TargetOf(ReadSeq(hdr)) /\ isFirst' = NoHeaders(hdr)
         /\ ~ok => target' = "pong"
         /\ clean' = (\A b \in Banks : hdr[b] # Blank)
         /\ UNCHANGED <<policy, uboot, up>>
<1> DEFINE h == HdrRead(ok)
<1>1. /\ hdr' = hdr /\ image' = image /\ pc' = "erase" /\ section' = 1
      /\ version' = version + 1 /\ UNCHANGED <<policy, uboot, up>>
      /\ clean' = (\A b \in Banks : hdr[b] # Blank)
  BY Zenon DEF Start, flashVars, unitVars
<1>2. ~SeqError(h) /\ seq' = ReadSeq(h) /\ isFirst' = NoHeaders(h)
      /\ target' = TargetOf(ReadSeq(h))
  BY Zenon DEF Start
<1>3. h \in [Banks -> 0 .. Blank] /\ hdr \in [Banks -> 0 .. Blank]
  BY ReadType DEF TypeOK
<1>4. /\ ok => h = hdr
      /\ ~ok => h["ping"] = hdr["ping"] /\ h["pong"] = 0 /\ ~NoHeaders(h)
      /\ target' \in Banks
  BY <1>2, ReadFacts DEF TypeOK
<1>5. CASE NoHeaders(h)
  <2>1. seq'["ping"] = FirstSeq + 1 /\ seq'["pong"] = FirstSeq
    BY <1>2, <1>5 DEF ReadSeq, Banks
  <2>2. target' = "pong"
    BY <1>2, <2>1, ConstantFacts DEF TargetOf
  <2>3. QED
    BY <1>1, <1>2, <1>4, <1>5, <2>1, <2>2
<1>6. CASE ~NoHeaders(h)
  <2>1. seq' = h /\ h["ping"] # h["pong"]
    BY <1>2, <1>6 DEF ReadSeq, SeqError
  <2>2. CASE ok
    BY <1>1, <1>2, <1>4, <1>6, <2>1, <2>2
  <2>3. CASE ~ok
    <3>1. target' = "pong"
      BY <1>2, <1>3, <1>4, <2>1, <2>3 DEF TargetOf, Banks
    <3>2. seq'[Other(target')] = hdr[Other(target')]
      BY <1>4, <2>1, <2>3, <3>1, OtherFacts
    <3>3. QED
      BY <1>1, <1>2, <1>4, <1>6, <2>3, <3>1, <3>2
  <2>4. QED
    BY <2>2, <2>3
<1>7. QED
  BY <1>5, <1>6

LEMMA PhaseNext == TypeOK /\ PhaseInv /\ [Next]_vars => PhaseInv'
<1> SUFFICES ASSUME TypeOK, PhaseInv, [Next]_vars PROVE PhaseInv'
  OBVIOUS
<1> USE DEF PhaseInv, FirstPCs, HdrPCs
<1>1. ASSUME NEW u \in BOOLEAN, NEW ok \in BOOLEAN, Start(u, ok) PROVE PhaseInv'
  BY <1>1 DEF Start
<1>2. CASE EraseImage
  BY <1>2 DEF EraseImage
<1>3. ASSUME NEW good \in BOOLEAN, WriteImage(good) PROVE PhaseInv'
  BY <1>3 DEF WriteImage
<1>4. CASE CheckImage
  BY <1>4 DEF CheckImage, fileVars
<1>5. CASE PongErase \/ PongWrite \/ PingErase \/ PingWrite \/ HdrErase \/ HdrWrite
  BY <1>5 DEF PongErase, PongWrite, PingErase, PingWrite, HdrErase, HdrWrite, SetHdr,
              fileVars
<1>6. CASE Verify \/ UbootErase \/ UbootWrite \/ SetAppParam
  BY <1>6 DEF Verify, UbootErase, UbootWrite, SetAppParam
<1>7. CASE Fail \/ Crash \/ Restart
  BY <1>7 DEF Fail, Crash, Restart, Boot
<1>8. CASE UNCHANGED vars
  BY <1>8 DEF vars, fileVars
<1>9. QED
  BY <1>1, <1>2, <1>3, <1>4, <1>5, <1>6, <1>7, <1>8 DEF Next, Upgrade

(* A step that writes no header and leaves the numbers of the upgrade.     *)
LEMMA HeaderKept ==
  ASSUME HeaderInv, UNCHANGED <<hdr, seq, target, isFirst>>,
         \/ pc' = pc
         \/ pc' = "idle"
         \/ pc \in ImagePCs /\ pc' \in ImagePCs
         \/ pc \in ImagePCs /\ pc' = (IF isFirst THEN "pong_erase" ELSE "hdr_erase")
         \/ Busy /\ pc' \in AfterPCs
  PROVE  HeaderInv'
BY DEF HeaderInv, ImagePCs, AfterPCs, HdrPCs, Busy, SeqError, NoHeaders

LEMMA HeaderNext == TypeOK /\ PhaseInv /\ HeaderInv /\ [Next]_vars => HeaderInv'
<1> SUFFICES ASSUME TypeOK, PhaseInv, HeaderInv, [Next]_vars PROVE HeaderInv'
  OBVIOUS
<1> USE DEF fileVars
<1>1. ASSUME NEW u \in BOOLEAN, NEW ok \in BOOLEAN, Start(u, ok) PROVE HeaderInv'
  BY <1>1, StartRead DEF HeaderInv, ImagePCs, HdrPCs, SeqError, NoHeaders
<1>2. CASE EraseImage
  BY <1>2, HeaderKept DEF EraseImage, ImagePCs
<1>3. ASSUME NEW good \in BOOLEAN, WriteImage(good) PROVE HeaderInv'
  BY <1>3, HeaderKept DEF WriteImage, ImagePCs
<1>4. CASE CheckImage
  BY <1>4, HeaderKept DEF CheckImage, flashVars, ImagePCs
<1>5. CASE PongErase \/ PongWrite \/ PingErase \/ PingWrite
  <2>1. hdr \in [Banks -> 0 .. Blank] /\ "ping" \in Banks /\ "pong" \in Banks
    BY DEF TypeOK, Banks
  <2>2. isFirst /\ Busy /\ UNCHANGED <<seq, isFirst, target>>
    BY <1>5 DEF PongErase, PongWrite, PingErase, PingWrite, SetHdr, PhaseInv, FirstPCs, Busy
  <2>3. seq["ping"] = FirstSeq + 1 /\ seq["pong"] = FirstSeq /\ target = "pong"
    BY <2>2 DEF HeaderInv
  <2>4. CASE PongErase
    BY <2>1, <2>2, <2>3, <2>4 DEF PongErase, SetHdr, HeaderInv, ImagePCs, HdrPCs, SeqError,
      NoHeaders
  <2>5. CASE PongWrite
    BY <2>1, <2>2, <2>3, <2>5, ConstantFacts DEF PongWrite, SetHdr, HeaderInv, ImagePCs,
      HdrPCs, SeqError, NoHeaders
  <2>6. CASE PingErase
    BY <2>1, <2>2, <2>3, <2>6, ConstantFacts DEF PingErase, SetHdr, HeaderInv, ImagePCs,
      HdrPCs, SeqError, NoHeaders
  <2>7. CASE PingWrite
    BY <2>1, <2>2, <2>3, <2>7, ConstantFacts DEF PingWrite, SetHdr, HeaderInv, ImagePCs,
      HdrPCs, SeqError, NoHeaders
  <2>8. QED
    BY <1>5, <2>4, <2>5, <2>6, <2>7
<1>6. CASE HdrErase \/ HdrWrite
  <2>1. /\ hdr \in [Banks -> 0 .. Blank] /\ target \in Banks /\ Other(target) \in Banks
        /\ Other(target) # target /\ hdr[Other(target)] \in 0 .. Blank
    BY OtherFacts DEF TypeOK
  <2>2. ~isFirst /\ UNCHANGED <<seq, isFirst, target>>
    BY <1>6 DEF HdrErase, HdrWrite, SetHdr, PhaseInv, HdrPCs
  <2>3. seq[Other(target)] = hdr[Other(target)]
    BY <1>6, <2>2 DEF HdrErase, HdrWrite, SetHdr, HeaderInv, HdrPCs
  <2>4. \/ target = "ping" /\ Other(target) = "pong"
        \/ target = "pong" /\ Other(target) = "ping"
    BY <2>1 DEF Banks, Other
  <2>5. CASE HdrErase
    BY <2>1, <2>2, <2>3, <2>4, <2>5 DEF HdrErase, SetHdr, HeaderInv, ImagePCs, HdrPCs,
      SeqError, NoHeaders
  <2>6. CASE HdrWrite
    BY <2>1, <2>2, <2>3, <2>4, <2>6, SuccFacts DEF HdrWrite, SetHdr, HeaderInv, ImagePCs,
      HdrPCs, SeqError, NoHeaders
  <2>7. QED
    BY <1>6, <2>5, <2>6
<1>7. CASE Verify \/ UbootErase \/ UbootWrite \/ SetAppParam
  BY <1>7, HeaderKept DEF Verify, UbootErase, UbootWrite, SetAppParam, flashVars, AfterPCs, Busy
<1>8. CASE Fail \/ Crash \/ Restart
  BY <1>8, HeaderKept DEF Fail, Crash, Restart, Boot, flashVars
<1>9. CASE UNCHANGED vars
  BY <1>9, HeaderKept DEF vars, flashVars
<1>10. QED
  BY <1>1, <1>2, <1>3, <1>4, <1>5, <1>6, <1>7, <1>8, <1>9 DEF Next, Upgrade

LEMMA HeaderInit == Init => PhaseInv /\ HeaderInv
<1> SUFFICES ASSUME Init PROVE PhaseInv /\ HeaderInv
  OBVIOUS
<1>1. pc = "idle" /\ ~Busy
  BY Zenon DEF Init, Busy
<1>2. ~SeqError(hdr)
  BY ConstantFacts DEF Init, SeqError, NoHeaders, Banks
<1>3. QED
  BY <1>1, <1>2 DEF PhaseInv, HeaderInv, FirstPCs, HdrPCs, ImagePCs

(* The numbers of two programmed banks never tie, whatever fails and       *)
(* however often the number wraps.                                         *)
THEOREM NoTieCorrect == Spec => []NoTie
<1>1. HeaderInv => NoTie
  BY DEF HeaderInv, NoTie
<1>2. QED
  BY <1>1, InitType, NextType, HeaderInit, PhaseNext, HeaderNext, PTL DEF Spec

-----------------------------------------------------------------------------
(* What a finished upgrade leaves behind.                                  *)

(* The numbers grow by one an upgrade, the wrapped ones aside; they never  *)
(* reach Blank.                                                            *)
BoundInv ==
  \A b \in Banks : hdr[b] # Blank =>
     /\ hdr[b] <= FirstSeq + version + 1
     /\ pc \in ImagePCs \cup HdrPCs => hdr[b] <= FirstSeq + version

(* The images before the present one have been checked.                    *)
ImageInv ==
  /\ pc \in ImagePCs => \A i \in Sections : i < section => image[target][i] = version
  /\ pc = "check" => image[target][section] \in {version, Broken}
  /\ pc \in FirstPCs \cup HdrPCs \cup AfterPCs =>
       \A i \in Sections : image[target][i] = version

(* An upgrade that begins with two programmed headers ends with two.       *)
EffectInv ==
  clean =>
    /\ Busy => ~isFirst
    /\ pc \in ImagePCs \cup HdrPCs => hdr[Other(target)] # Blank
    /\ pc \in AfterPCs => /\ hdr[Other(target)] # Blank /\ hdr[target] # Blank
                          /\ hdr[target] = hdr[Other(target)] + 1

LEMMA BoundNext ==
  TypeOK /\ PhaseInv /\ HeaderInv /\ BoundInv /\ [Next]_vars => BoundInv'
<1> SUFFICES ASSUME TypeOK, PhaseInv, HeaderInv, BoundInv, [Next]_vars PROVE BoundInv'
  OBVIOUS
<1> USE DEF BoundInv, ImagePCs, HdrPCs, fileVars
<1>0. /\ hdr \in [Banks -> 0 .. Blank] /\ Blank \in Nat /\ FirstSeq \in Nat
      /\ version \in Nat
  BY ConstantFacts DEF TypeOK
<1>1. ASSUME NEW u \in BOOLEAN, NEW ok \in BOOLEAN, Start(u, ok) PROVE BoundInv'
  <2>1. hdr' = hdr /\ version' = version + 1
    BY <1>1, StartRead
  <2>2. QED
    BY <1>0, <2>1
<1>2. CASE EraseImage
  BY <1>2 DEF EraseImage
<1>3. ASSUME NEW good \in BOOLEAN, WriteImage(good) PROVE BoundInv'
  BY <1>3 DEF WriteImage
<1>4. CASE CheckImage
  BY <1>4 DEF CheckImage, flashVars
<1>5. CASE PongErase \/ PongWrite \/ PingErase \/ PingWrite
  <2>1. seq["ping"] = FirstSeq + 1 /\ seq["pong"] = FirstSeq
    BY <1>5 DEF PongErase, PongWrite, PingErase, PingWrite, SetHdr, PhaseInv, FirstPCs, Busy,
                HeaderInv
  <2>2. QED
    BY <1>0, <1>5, <2>1 DEF PongErase, PongWrite, PingErase, PingWrite, SetHdr
<1>6. CASE HdrErase
  BY <1>0, <1>6 DEF HdrErase, SetHdr
<1>7. CASE HdrWrite
  <2>1. seq[Other(target)] = hdr[Other(target)] /\ Other(target) \in Banks
    BY <1>7, OtherFacts DEF HdrWrite, SetHdr, PhaseInv, HeaderInv, TypeOK
  <2>2. Succ(hdr[Other(target)]) <= FirstSeq + version + 1
    BY <1>0, <1>7, <2>1 DEF HdrWrite, SetHdr, Succ
  <2>3. QED
    BY <1>0, <1>7, <2>1, <2>2 DEF HdrWrite, SetHdr
<1>8. CASE Verify \/ UbootErase \/ UbootWrite \/ SetAppParam
  BY <1>8 DEF Verify, UbootErase, UbootWrite, SetAppParam, flashVars
<1>9. CASE Fail \/ Crash \/ Restart
  BY <1>9 DEF Fail, Crash, Restart, Boot, flashVars
<1>10. CASE UNCHANGED vars
  BY <1>10 DEF vars, flashVars
<1>11. QED
  BY <1>1, <1>2, <1>3, <1>4, <1>5, <1>6, <1>7, <1>8, <1>9, <1>10 DEF Next, Upgrade

LEMMA ImageNext == TypeOK /\ ImageInv /\ [Next]_vars => ImageInv'
<1> SUFFICES ASSUME TypeOK, ImageInv, [Next]_vars PROVE ImageInv'
  OBVIOUS
<1> USE DEF ImageInv, ImagePCs, FirstPCs, HdrPCs, AfterPCs, fileVars
<1>0. /\ image \in [Banks -> [Sections -> Versions]] /\ target \in Banks
      /\ section \in Sections /\ Sections = 1 .. NImages /\ NImages \in Nat
  BY NfFirmwareAssumption DEF TypeOK, Sections
<1>1. ASSUME NEW u \in BOOLEAN, NEW ok \in BOOLEAN, Start(u, ok) PROVE ImageInv'
  <2>1. pc' = "erase" /\ section' = 1
    BY <1>1, StartRead
  <2>2. QED
    BY <1>0, <2>1
<1>2. CASE EraseImage
  BY <1>0, <1>2 DEF EraseImage
<1>3. ASSUME NEW good \in BOOLEAN, WriteImage(good) PROVE ImageInv'
  BY <1>0, <1>3 DEF WriteImage
<1>4. CASE CheckImage
  BY <1>0, <1>4 DEF CheckImage, Last, flashVars
<1>5. CASE PongErase \/ PongWrite \/ PingErase \/ PingWrite \/ HdrErase \/ HdrWrite
  BY <1>5 DEF PongErase, PongWrite, PingErase, PingWrite, HdrErase, HdrWrite, SetHdr
<1>6. CASE Verify \/ UbootErase \/ UbootWrite \/ SetAppParam
  BY <1>6 DEF Verify, UbootErase, UbootWrite, SetAppParam, flashVars
<1>7. CASE Fail \/ Crash \/ Restart
  BY <1>7 DEF Fail, Crash, Restart, Boot, flashVars
<1>8. CASE UNCHANGED vars
  BY <1>8 DEF vars, flashVars
<1>9. QED
  BY <1>1, <1>2, <1>3, <1>4, <1>5, <1>6, <1>7, <1>8 DEF Next, Upgrade

LEMMA EffectNext ==
  TypeOK /\ PhaseInv /\ HeaderInv /\ BoundInv /\ EffectInv /\ [Next]_vars => EffectInv'
<1> SUFFICES ASSUME TypeOK, PhaseInv, HeaderInv, BoundInv, EffectInv, [Next]_vars
             PROVE  EffectInv'
  OBVIOUS
<1> USE DEF EffectInv, ImagePCs, HdrPCs, AfterPCs, fileVars, Busy
<1>0. /\ hdr \in [Banks -> 0 .. Blank] /\ Blank \in Nat /\ FirstSeq \in Nat
      /\ target \in Banks /\ Other(target) \in Banks /\ Other(target) # target
      /\ version \in 0 .. MaxUpgrades
  BY ConstantFacts, OtherFacts DEF TypeOK
<1>1. ASSUME NEW u \in BOOLEAN, NEW ok \in BOOLEAN, Start(u, ok) PROVE EffectInv'
  <2>1. target' \in Banks /\ Other(target') \in Banks /\ "ping" \in Banks
    BY <1>1, StartRead, OtherFacts DEF Banks
  <2>2. QED
    BY <1>1, <2>1, StartRead DEF NoHeaders
<1>2. CASE EraseImage
  BY <1>2 DEF EraseImage
<1>3. ASSUME NEW good \in BOOLEAN, WriteImage(good) PROVE EffectInv'
  BY <1>3 DEF WriteImage
<1>4. CASE CheckImage
  BY <1>4 DEF CheckImage, flashVars
<1>5. CASE PongErase \/ PongWrite \/ PingErase \/ PingWrite
  BY <1>5 DEF PongErase, PongWrite, PingErase, PingWrite, SetHdr, PhaseInv, FirstPCs
<1>6. CASE HdrErase
  BY <1>0, <1>6 DEF HdrErase, SetHdr
<1>7. CASE HdrWrite
  <2>1. seq[Other(target)] = hdr[Other(target)]
    BY <1>7 DEF HdrWrite, SetHdr, PhaseInv, HeaderInv
  <2>2. ASSUME clean
        PROVE  /\ hdr[Other(target)] # Blank /\ hdr[Other(target)] + 1 # Blank
               /\ Succ(hdr[Other(target)]) = hdr[Other(target)] + 1
    <3>1. hdr[Other(target)] # Blank
      BY <1>7, <2>2 DEF HdrWrite, SetHdr
    <3>2. hdr[Other(target)] <= FirstSeq + version
      BY <1>0, <1>7, <3>1 DEF HdrWrite, SetHdr, BoundInv
    <3>3. hdr[Other(target)] + 1 # Blank
      BY <1>0, <3>2, ConstantFacts
    <3>4. QED
      BY <3>1, <3>3 DEF Succ
  <2>3. QED
    BY <1>0, <1>7, <2>1, <2>2 DEF HdrWrite, SetHdr
<1>8. CASE Verify \/ UbootErase \/ UbootWrite \/ SetAppParam
  BY <1>8 DEF Verify, UbootErase, UbootWrite, SetAppParam, flashVars
<1>9. CASE Fail \/ Crash \/ Restart
  BY <1>9 DEF Fail, Crash, Restart, Boot, flashVars
<1>10. CASE UNCHANGED vars
  BY <1>10 DEF vars, flashVars
<1>11. QED
  BY <1>1, <1>2, <1>3, <1>4, <1>5, <1>6, <1>7, <1>8, <1>9, <1>10 DEF Next, Upgrade

LEMMA EffectInit == Init => BoundInv /\ ImageInv /\ EffectInv
<1> SUFFICES ASSUME Init PROVE BoundInv /\ ImageInv /\ EffectInv
  OBVIOUS
<1>1. pc = "idle" /\ ~clean /\ version = 0
  BY Zenon DEF Init
<1>2. \A b \in Banks : hdr[b] # Blank => hdr[b] <= FirstSeq + 1
  BY ConstantFacts DEF Init, Banks
<1>3. QED
  BY <1>1, <1>2, ConstantFacts DEF BoundInv, ImageInv, EffectInv, ImagePCs, FirstPCs, HdrPCs,
                                   AfterPCs

(* Of two programmed banks the one with the higher number boots.           *)
LEMMA HigherBoots ==
  ASSUME hdr \in [Banks -> 0 .. Blank], NEW b \in Banks,
         hdr[b] # Blank, hdr[Other(b)] # Blank, hdr[b] > hdr[Other(b)]
  PROVE  BootBank = b
BY NfFirmwareAssumption DEF BootBank, Banks, Other

LEMMA EffectHolds == TypeOK /\ ImageInv /\ EffectInv => TakesEffect
<1> SUFFICES ASSUME TypeOK, ImageInv, EffectInv, pc = "done", clean
             PROVE  BootBank = target /\ \A i \in Sections : image[target][i] = version
  BY DEF TakesEffect
<1>1. hdr[Other(target)] # Blank /\ hdr[target] # Blank
      /\ hdr[target] = hdr[Other(target)] + 1
  BY DEF EffectInv, AfterPCs
<1>2. hdr \in [Banks -> 0 .. Blank] /\ target \in Banks /\ Other(target) \in Banks
  BY OtherFacts DEF TypeOK
<1>3. hdr[target] > hdr[Other(target)]
  BY <1>1, <1>2, ConstantFacts
<1>4. QED
  BY <1>1, <1>2, <1>3, HigherBoots DEF ImageInv, AfterPCs

(* An upgrade that begins with both headers programmed and succeeds is     *)
(* what the next start boots, with every image it has written.             *)
THEOREM TakesEffectCorrect == Spec => []TakesEffect
BY EffectHolds, InitType, NextType, HeaderInit, PhaseNext, HeaderNext, EffectInit, BoundNext,
   ImageNext, EffectNext, PTL DEF Spec

-----------------------------------------------------------------------------
(* Faults.                                                                 *)

Programmed(h) == h["ping"] # Blank /\ h["pong"] # Blank /\ h["ping"] # h["pong"]

(* The bank an upgrade that reads the headers h leaves alone.              *)
Spare(h) == Other(TargetOf(ReadSeq(h)))

BothComplete == Complete("ping") /\ Complete("pong")

(* The upgrade writes to the bank that does not boot.                      *)
Sound == BootBank = Other(target) /\ Spare(hdr) = Other(target)

(* The bank that is not written to is complete, both are from the headers  *)
(* on, and between upgrades the bank that boots and the one the next       *)
(* upgrade leaves alone are.                                               *)
SpareInv ==
  Covered =>
    /\ Busy => Complete(Other(target))
    /\ pc \in FirstPCs \cup HdrPCs \cup AfterPCs => BothComplete
    /\ pc \in {"idle", "done"} => Complete(BootBank) /\ Complete(Spare(hdr))

(* An upgrade may write to the bank that boots only when the one fault has *)
(* been spent, and then every image it writes is good.                     *)
SoundInv ==
  (Covered /\ pc \in ImagePCs) =>
    \/ Sound
    \/ /\ faults = 1 /\ ~Newest
       /\ pc = "check" => image[target][section] = version

(* Before the first fault.                                                 *)
NoFaultInv ==
  faults = 0 =>
    /\ pc = "idle" => Complete("ping")
    /\ pc \in {"idle"} \cup ImagePCs => NoHeaders(hdr) \/ Programmed(hdr)
    /\ (pc \in ImagePCs /\ NoHeaders(hdr)) => isFirst
    /\ pc = "check" => image[target][section] = version
    /\ pc \in HdrPCs => hdr[Other(target)] # Blank
    /\ pc \in AfterPCs => Programmed(hdr)

FaultInv == SpareInv /\ SoundInv /\ NoFaultInv

(* The invariant of everything but the faults.                             *)
FlashInv ==
  TypeOK /\ PhaseInv /\ HeaderInv /\ BoundInv /\ ImageInv /\ EffectInv

LEMMA FlashInit == Init => FlashInv
BY InitType, HeaderInit, EffectInit DEF FlashInv

LEMMA FlashNext == FlashInv /\ [Next]_vars => FlashInv'
BY NextType, PhaseNext, HeaderNext, BoundNext, ImageNext, EffectNext DEF FlashInv

LEMMA BankFacts ==
  ASSUME TypeOK
  PROVE  /\ BootBank \in Banks /\ target \in Banks /\ Other(target) \in Banks
         /\ Spare(hdr) \in Banks
         /\ BothComplete => \A b \in Banks : Complete(b)
         /\ (Complete(target) /\ Complete(Other(target))) => BothComplete
<1>1. BootBank \in Banks /\ target \in Banks /\ TargetOf(ReadSeq(hdr)) \in Banks
  BY DEF BootBank, Banks, TypeOK, TargetOf
<1>2. Other(target) \in Banks /\ Spare(hdr) \in Banks
  BY <1>1, OtherFacts DEF Spare
<1>3. (Complete(target) /\ Complete(Other(target))) => BothComplete
  BY <1>1 DEF BothComplete, Banks, Other
<1>4. QED
  BY <1>1, <1>2, <1>3 DEF BothComplete, Banks

(* Headers from the factory, or two programmed ones, leave no doubt.       *)
LEMMA ConsistentSpare ==
  ASSUME TypeOK, ~SeqError(hdr), NoHeaders(hdr) \/ Programmed(hdr) \/ policy = "newest"
  PROVE  Spare(hdr) = BootBank
<1>1. hdr \in [Banks -> 0 .. Blank] /\ hdr["ping"] \in 0 .. Blank /\ hdr["pong"] \in 0 .. Blank
  BY DEF TypeOK, Banks
<1>2. CASE NoHeaders(hdr)
  <2>1. ReadSeq(hdr)["ping"] = FirstSeq + 1 /\ ReadSeq(hdr)["pong"] = FirstSeq
    BY <1>2 DEF ReadSeq, Banks
  <2>2. TargetOf(ReadSeq(hdr)) = "pong"
    BY <2>1, ConstantFacts DEF TargetOf
  <2>3. BootBank = "ping"
    BY <1>2 DEF NoHeaders, BootBank
  <2>4. QED
    BY <2>2, <2>3, OtherFacts DEF Spare
<1>3. CASE ~NoHeaders(hdr)
  <2>1. ReadSeq(hdr) = hdr /\ hdr["ping"] # hdr["pong"]
    BY <1>3 DEF ReadSeq, SeqError
  <2>2. CASE hdr["ping"] < hdr["pong"]
    <3>1. TargetOf(ReadSeq(hdr)) = "ping"
      BY <2>1, <2>2 DEF TargetOf
    <3>2. BootBank = "pong"
      BY <1>1, <1>3, <2>1, <2>2, ConstantFacts DEF BootBank, Programmed, TypeOK
    <3>3. QED
      BY <3>1, <3>2, OtherFacts DEF Spare
  <2>3. CASE hdr["pong"] < hdr["ping"]
    <3>1. TargetOf(ReadSeq(hdr)) = "pong"
      BY <1>1, <2>1, <2>3 DEF TargetOf
    <3>2. BootBank = "ping"
      BY <1>1, <1>3, <2>1, <2>3, ConstantFacts DEF BootBank, Programmed, TypeOK
    <3>3. QED
      BY <3>1, <3>2, OtherFacts DEF Spare
  <2>4. QED
    BY <1>1, <2>1, <2>2, <2>3
<1>4. QED
  BY <1>2, <1>3

(* A bank all of whose images are those of one file is complete.           *)
LEMMA VersionComplete ==
  ASSUME TypeOK, NEW b \in Banks, \A i \in Sections : image[b][i] = version
  PROVE  Complete(b)
<1>1. version # Broken /\ 1 \in Sections
  BY ConstantFacts DEF TypeOK
<1>2. QED
  BY <1>1 DEF Complete

(* Writing the images of one bank leaves the other as it was, and writing  *)
(* no header leaves the bank that boots.                                   *)
LEMMA ImageWritten ==
  ASSUME TypeOK, NEW v \in Versions, image' = [image EXCEPT ![target][section] = v],
         UNCHANGED <<hdr, policy, target>>
  PROVE  /\ Complete(Other(target)) => Complete(Other(target))'
         /\ BootBank' = BootBank /\ Sound' = Sound
         /\ image'[target][section] = v
<1>1. Other(target) # target /\ Other(target) \in Banks
  BY OtherFacts DEF TypeOK
<1>2. image'[Other(target)] = image[Other(target)] /\ Other(target)' = Other(target)
      /\ image'[target][section] = v
  BY <1>1 DEF TypeOK, Other
<1>3. BootBank' = BootBank /\ Spare(hdr)' = Spare(hdr)
  BY DEF BootBank, Spare, TargetOf, ReadSeq, NoHeaders, Other
<1>4. QED
  BY <1>2, <1>3 DEF Complete, Sound

(* A step that writes neither images nor headers.                          *)
LEMMA FlashKept ==
  ASSUME UNCHANGED <<hdr, image, policy, target>>
  PROVE  /\ \A b \in Banks : Complete(b)' = Complete(b)
         /\ BothComplete' = BothComplete /\ BootBank' = BootBank
         /\ Spare(hdr)' = Spare(hdr) /\ Other(target)' = Other(target) /\ Sound' = Sound
         /\ NoHeaders(hdr)' = NoHeaders(hdr) /\ Programmed(hdr)' = Programmed(hdr)
<1>1. /\ \A b \in Banks : Complete(b)' = Complete(b)
      /\ BothComplete' = BothComplete
  BY DEF Complete, BothComplete
<1>2. BootBank' = BootBank /\ Spare(hdr)' = Spare(hdr) /\ Other(target)' = Other(target)
  BY DEF BootBank, Spare, TargetOf, ReadSeq, NoHeaders, Other
<1>3. NoHeaders(hdr)' = NoHeaders(hdr) /\ Programmed(hdr)' = Programmed(hdr)
  BY DEF NoHeaders, Programmed
<1>4. QED
  BY <1>1, <1>2, <1>3 DEF Sound

LEMMA FaultInit == Init => FaultInv
<1> SUFFICES ASSUME Init PROVE FaultInv
  OBVIOUS
<1>1. pc = "idle" /\ faults = 0
  BY Zenon DEF Init
<1>2. Complete("ping")
  BY ConstantFacts DEF Init, Complete, Banks
<1>3. NoHeaders(hdr) \/ Programmed(hdr)
  BY ConstantFacts DEF Init, NoHeaders, Programmed, Banks
<1>4. BootBank = "ping"
  BY ConstantFacts DEF Init, BootBank, Banks
<1>5. Spare(hdr) = "ping"
  BY <1>3, <1>4, FlashInit, ConsistentSpare DEF FlashInv, HeaderInv
<1>6. QED
  BY <1>1, <1>2, <1>3, <1>4, <1>5
     DEF FaultInv, SpareInv, SoundInv, NoFaultInv, ImagePCs, FirstPCs, HdrPCs, AfterPCs, Busy

LEMMA FaultStart ==
  ASSUME FlashInv, FaultInv, NEW u \in BOOLEAN, NEW ok \in BOOLEAN, Start(u, ok)
  PROVE  FaultInv'
<1>0. TypeOK /\ ~SeqError(hdr)
  BY DEF FlashInv, HeaderInv
<1>1. /\ hdr' = hdr /\ image' = image /\ policy' = policy /\ pc' = "erase"
      /\ ok => target' = TargetOf(ReadSeq(hdr)) /\ isFirst' = NoHeaders(hdr)
      /\ ~ok => target' = "pong"
  BY <1>0, StartRead
<1>2. /\ pc \in {"idle", "done"}
      /\ faults' = (IF ok THEN faults ELSE faults + 1)
      /\ misread' = (misread \/ ~ok)
  BY Zenon DEF Start
<1>3. faults \in Nat /\ misread \in BOOLEAN
  BY <1>0 DEF TypeOK
<1>4. /\ \A b \in Banks : Complete(b)' = Complete(b)
      /\ BothComplete' = BothComplete /\ BootBank' = BootBank /\ Spare(hdr)' = Spare(hdr)
      /\ NoHeaders(hdr)' = NoHeaders(hdr) /\ Programmed(hdr)' = Programmed(hdr)
  <2>1. \A b \in Banks : Complete(b)' = Complete(b)
    BY <1>1 DEF Complete
  <2>2. BothComplete' = BothComplete
    BY <1>1 DEF Complete, BothComplete
  <2>3. BootBank' = BootBank
    BY <1>1 DEF BootBank
  <2>4. Spare(hdr)' = Spare(hdr) /\ NoHeaders(hdr)' = NoHeaders(hdr)
        /\ Programmed(hdr)' = Programmed(hdr)
    BY <1>1 DEF Spare, TargetOf, ReadSeq, NoHeaders, Programmed, Other
  <2>5. QED
    BY <2>1, <2>2, <2>3, <2>4
<1>5. ok => /\ Other(target') = Spare(hdr) /\ faults' = faults /\ Newest' = Newest
            /\ Covered' = Covered
  BY <1>1, <1>2, <1>3 DEF Spare, Newest, Covered
<1>6. ~ok => /\ Other(target') = "ping" /\ faults' = faults + 1 /\ ~Newest'
  BY <1>1, <1>2, OtherFacts DEF Newest
<1>7. (~ok /\ Covered') => faults = 0 /\ faults' = 1
  BY <1>3, <1>6 DEF Covered
<1>8. faults = 0 => /\ Complete("ping") /\ (NoHeaders(hdr) \/ Programmed(hdr))
                    /\ Covered
  BY <1>2, <1>3
     DEF FaultInv, NoFaultInv, SpareInv, Covered, AfterPCs, BothComplete
<1>9. Covered => Complete(Spare(hdr))
  BY <1>2 DEF FaultInv, SpareInv
<1>10. Spare(hdr) \in Banks /\ "ping" \in Banks
  BY <1>0, BankFacts DEF Banks
<1>11. Covered' => Complete(Other(target))'
  <2>1. CASE ok
    BY <1>4, <1>5, <1>9, <1>10, <2>1 DEF Other
  <2>2. CASE ~ok
    <3>1. Covered' => Complete("ping")
      BY <1>7, <1>8, <2>2
    <3>2. Other(target)' = "ping"
      BY <1>6, <2>2 DEF Other
    <3>3. QED
      BY <1>4, <1>10, <3>1, <3>2
  <2>3. QED
    BY <2>1, <2>2
<1>12. Covered' => Sound' \/ (faults' = 1 /\ ~Newest')
  <2>1. ASSUME ok, NoHeaders(hdr) \/ Programmed(hdr) \/ policy = "newest" PROVE Sound'
    <3>1. Spare(hdr) = BootBank
      BY <1>0, <2>1, ConsistentSpare
    <3>2. Other(target)' = Spare(hdr)
      BY <1>5, <2>1 DEF Other
    <3>3. QED
      BY <1>4, <3>1, <3>2 DEF Sound
  <2>2. CASE ok
    <3>1. CASE Newest
      BY <2>1, <2>2, <3>1 DEF Newest
    <3>2. CASE ~Newest
      BY <1>3, <1>5, <1>8, <2>1, <2>2, <3>2 DEF Covered
    <3>3. QED
      BY <3>1, <3>2
  <2>3. CASE ~ok
    BY <1>6, <1>7, <2>3
  <2>4. QED
    BY <2>2, <2>3
<1>13. faults' = 0 => /\ NoHeaders(hdr)' \/ Programmed(hdr)'
                      /\ NoHeaders(hdr)' => isFirst'
  BY <1>1, <1>2, <1>3, <1>4, <1>8
<1>14. SpareInv'
  BY <1>1, <1>11 DEF SpareInv, FirstPCs, HdrPCs, AfterPCs
<1>15. SoundInv'
  BY <1>1, <1>12 DEF SoundInv
<1>16. NoFaultInv'
  BY <1>1, <1>13 DEF NoFaultInv, HdrPCs, AfterPCs
<1>17. QED
  BY <1>14, <1>15, <1>16 DEF FaultInv

LEMMA FaultImage ==
  ASSUME FlashInv, FaultInv, NEW good \in BOOLEAN, EraseImage \/ WriteImage(good)
  PROVE  FaultInv'
<1>0. TypeOK /\ faults \in Nat /\ target \in Banks
  BY DEF FlashInv, TypeOK
<1>1. PICK v \in Versions : image' = [image EXCEPT ![target][section] = v]
  BY <1>0, ConstantFacts DEF EraseImage, WriteImage, TypeOK
<1>2. /\ UNCHANGED <<hdr, policy, target, isFirst, misread, version, section>>
      /\ pc \in {"erase", "write"} /\ pc' \in {"write", "check"}
  BY DEF EraseImage, WriteImage, unitVars, fileVars
<1>3. /\ Complete(Other(target)) => Complete(Other(target))'
      /\ Sound' = Sound /\ image'[target][section] = v
  BY <1>0, <1>1, <1>2, ImageWritten
<1>4. \/ faults' = faults /\ (pc' = "check" => v = version)
      \/ faults' = faults + 1
  <2>1. CASE EraseImage
    BY <2>1 DEF EraseImage
  <2>2. CASE WriteImage(good)
    <3>1. good => image'[target][section] = version /\ faults' = faults
      BY <1>0, <2>2 DEF WriteImage, TypeOK
    <3>2. ~good => faults' = faults + 1
      BY <2>2 DEF WriteImage
    <3>3. QED
      BY <1>3, <3>1, <3>2
  <2>3. QED
    BY <2>1, <2>2
<1>5. Newest' = Newest /\ (Covered' => Covered) /\ NoHeaders(hdr)' = NoHeaders(hdr)
      /\ Programmed(hdr)' = Programmed(hdr)
  BY <1>0, <1>2, <1>4 DEF Newest, Covered, NoHeaders, Programmed
<1>6. SpareInv'
  BY <1>2, <1>3, <1>5
     DEF FaultInv, SpareInv, Busy, FirstPCs, HdrPCs, AfterPCs
<1>7. SoundInv'
  <2>1. Covered' => Sound \/ (faults = 1 /\ ~Newest)
    BY <1>2, <1>5 DEF FaultInv, SoundInv, ImagePCs
  <2>2. (Covered' /\ ~Newest) => faults' <= 1
    BY <1>5 DEF Covered
  <2>3. (Covered' /\ ~Sound) => faults' = 1 /\ ~Newest' /\ (pc' = "check" => v = version)
    BY <1>0, <1>4, <1>5, <2>1, <2>2
  <2>4. QED
    BY <1>2, <1>3, <2>3 DEF SoundInv
<1>8. NoFaultInv'
  <2>1. faults' = 0 => faults = 0 /\ (pc' = "check" => v = version)
    BY <1>0, <1>4
  <2>2. QED
    BY <1>2, <1>3, <1>5, <2>1
       DEF FaultInv, NoFaultInv, ImagePCs, HdrPCs, AfterPCs
<1>9. QED
  BY <1>6, <1>7, <1>8 DEF FaultInv

(* Reading an image back.                                                  *)
LEMMA FaultCheck ==
  ASSUME FlashInv, FaultInv, FlashInv', CheckImage
  PROVE  FaultInv'
<1>0. TypeOK /\ TypeOK' /\ target \in Banks /\ faults \in Nat /\ version # Broken
  BY ConstantFacts DEF FlashInv, TypeOK
<1>1. /\ UNCHANGED <<hdr, image, policy, target, isFirst, misread, version, faults>>
      /\ pc = "check"
      /\ pc' \in {"idle", "erase", "pong_erase", "hdr_erase"}
      /\ pc' = "idle" => image[target][section] = Broken
      /\ pc' = "pong_erase" => isFirst
      /\ pc' = "hdr_erase" => ~isFirst
  BY DEF CheckImage, flashVars, unitVars, fileVars
<1>2. /\ \A b \in Banks : Complete(b)' = Complete(b)
      /\ BothComplete' = BothComplete /\ BootBank' = BootBank
      /\ Spare(hdr)' = Spare(hdr) /\ Other(target)' = Other(target) /\ Sound' = Sound
      /\ NoHeaders(hdr)' = NoHeaders(hdr) /\ Programmed(hdr)' = Programmed(hdr)
  BY <1>1, FlashKept
<1>3. Newest' = Newest /\ Covered' = Covered
  BY <1>1 DEF Newest, Covered
<1>4. Other(target) \in Banks
  BY <1>0, OtherFacts
<1>5. Covered => Complete(Other(target))
  BY <1>1 DEF FaultInv, SpareInv, Busy
<1>6. Covered => Sound \/ (faults = 1 /\ ~Newest /\ image[target][section] = version)
  BY <1>1 DEF FaultInv, SoundInv, ImagePCs
<1>7. (Covered /\ pc' = "idle") => Complete(BootBank) /\ Complete(Spare(hdr))
  BY <1>0, <1>1, <1>5, <1>6 DEF Sound
<1>8. (Covered /\ pc' \in FirstPCs \cup HdrPCs) => BothComplete
  <2> SUFFICES ASSUME Covered, pc' \in FirstPCs \cup HdrPCs PROVE BothComplete
    OBVIOUS
  <2>1. \A i \in Sections : image'[target'][i] = version'
    BY DEF FlashInv, ImageInv
  <2>2. Complete(target)
    BY <1>0, <1>1, <2>1, VersionComplete
  <2>3. QED
    BY <1>0, <1>5, <2>2, BankFacts
<1>9. SpareInv'
  BY <1>1, <1>2, <1>3, <1>4, <1>5, <1>7, <1>8, BankFacts, <1>0
     DEF SpareInv, AfterPCs
<1>10. SoundInv'
  BY <1>1, <1>2, <1>3, <1>6 DEF SoundInv, ImagePCs
<1>11. NoFaultInv'
  <2> SUFFICES ASSUME faults = 0 PROVE NoFaultInv'
    BY <1>1 DEF NoFaultInv
  <2>1. /\ NoHeaders(hdr) \/ Programmed(hdr)
        /\ NoHeaders(hdr) => isFirst
        /\ image[target][section] = version
    BY <1>1 DEF FaultInv, NoFaultInv, ImagePCs
  <2>2. pc' # "idle"
    BY <1>0, <1>1, <2>1
  <2>3. pc' = "hdr_erase" => hdr[Other(target)] # Blank
    BY <1>0, <1>1, <2>1 DEF Programmed, Banks, Other
  <2>4. QED
    BY <1>1, <1>2, <2>1, <2>2, <2>3 DEF NoFaultInv, ImagePCs, HdrPCs, AfterPCs
<1>12. QED
  BY <1>9, <1>10, <1>11 DEF FaultInv

(* The steps that write a header.  Both banks are complete by then, so     *)
(* only the numbers matter.                                                *)
LEMMA FaultHeader ==
  ASSUME FlashInv, FaultInv,
         \/ PongErase \/ PongWrite \/ PingErase \/ PingWrite
         \/ HdrErase \/ HdrWrite
  PROVE  FaultInv'
<1>0. /\ TypeOK /\ target \in Banks /\ faults \in Nat /\ hdr \in [Banks -> 0 .. Blank]
      /\ Other(target) \in Banks /\ Other(target) # target
  BY OtherFacts DEF FlashInv, TypeOK
<1>1. /\ UNCHANGED <<image, policy, target, isFirst, misread, version, faults>>
      /\ pc \in FirstPCs \cup HdrPCs
      /\ pc' \in {"pong_write", "ping_erase", "ping_write", "hdr_write", "verify"}
  BY DEF PongErase, PongWrite, PingErase, PingWrite, HdrErase, HdrWrite, SetHdr, unitVars,
         fileVars, FirstPCs, HdrPCs
<1>2. Newest' = Newest /\ Covered' = Covered
  BY <1>1 DEF Newest, Covered
<1>3. /\ Complete(Other(target))' = Complete(Other(target))
      /\ BothComplete' = BothComplete
  BY <1>1 DEF Complete, BothComplete, Other
<1>4. SpareInv'
  BY <1>1, <1>2, <1>3
     DEF FaultInv, SpareInv, Busy, FirstPCs, HdrPCs
<1>5. SoundInv'
  BY <1>1 DEF SoundInv, ImagePCs
<1>6. ASSUME PingWrite PROVE Programmed(hdr)'
  <2>1. seq["ping"] = FirstSeq + 1 /\ hdr["pong"] = FirstSeq
    BY <1>6 DEF PingWrite, SetHdr, FlashInv, PhaseInv, HeaderInv, FirstPCs, Busy
  <2>2. hdr'["ping"] = FirstSeq + 1 /\ hdr'["pong"] = FirstSeq
    BY <1>0, <1>6, <2>1 DEF PingWrite, SetHdr, Banks
  <2>3. QED
    BY <2>2, ConstantFacts DEF Programmed
<1>7. HdrErase => hdr'[Other(target)] = hdr[Other(target)]
  BY <1>0 DEF HdrErase, SetHdr
<1>8. ASSUME HdrWrite, faults = 0 PROVE Programmed(hdr)'
  <2>1. seq[Other(target)] = hdr[Other(target)]
    BY <1>8 DEF HdrWrite, SetHdr, FlashInv, PhaseInv, HeaderInv, HdrPCs
  <2>2. hdr[Other(target)] # Blank
    BY <1>8 DEF FaultInv, NoFaultInv, HdrWrite, SetHdr, HdrPCs
  <2>3. hdr[Other(target)] <= FirstSeq + version
    BY <1>0, <1>8, <2>2 DEF FlashInv, BoundInv, HdrWrite, SetHdr, HdrPCs
  <2>4. hdr[Other(target)] \in Nat /\ hdr[Other(target)] + 1 # Blank
    BY <1>0, <2>3, ConstantFacts DEF TypeOK
  <2>5. hdr'[target] = hdr[Other(target)] + 1 /\ hdr'[Other(target)] = hdr[Other(target)]
    BY <1>0, <1>8, <2>1, <2>2 DEF HdrWrite, SetHdr, Succ
  <2>6. QED
    BY <1>0, <2>2, <2>4, <2>5 DEF Programmed, Banks, Other
<1>9. NoFaultInv'
  <2> SUFFICES ASSUME faults = 0 PROVE NoFaultInv'
    BY <1>1 DEF NoFaultInv
  <2>1. pc' = "hdr_write" => HdrErase /\ hdr'[Other(target)] # Blank
    BY <1>7 DEF FaultInv, NoFaultInv, HdrPCs, PongErase, PongWrite, PingErase, PingWrite,
                HdrErase, HdrWrite, SetHdr
  <2>2. pc' = "verify" => Programmed(hdr)'
    BY <1>6, <1>8 DEF PongErase, PongWrite, PingErase, PingWrite, HdrErase, HdrWrite, SetHdr
  <2>3. Other(target)' = Other(target)
    BY <1>1 DEF Other
  <2>4. QED
    BY <1>1, <2>1, <2>2, <2>3 DEF NoFaultInv, ImagePCs, HdrPCs, AfterPCs
<1>10. QED
  BY <1>4, <1>5, <1>9 DEF FaultInv

(* The steps after the headers.                                            *)
LEMMA FaultAfter ==
  ASSUME FlashInv, FaultInv, Verify \/ UbootErase \/ UbootWrite \/ SetAppParam
  PROVE  FaultInv'
<1>1. /\ UNCHANGED <<hdr, image, policy, target, isFirst, misread, version, faults>>
      /\ pc \in AfterPCs /\ pc' \in AfterPCs /\ pc # "done"
  BY DEF Verify, UbootErase, UbootWrite, SetAppParam, flashVars, unitVars, fileVars, AfterPCs
<1>2. /\ BothComplete' = BothComplete /\ \A b \in Banks : Complete(b)' = Complete(b)
      /\ Programmed(hdr)' = Programmed(hdr)
      /\ BootBank' = BootBank /\ Spare(hdr)' = Spare(hdr) /\ Other(target)' = Other(target)
  BY <1>1, FlashKept
<1>3. Newest' = Newest /\ Covered' = Covered
  BY <1>1 DEF Newest, Covered
<1>4. /\ BootBank \in Banks /\ Spare(hdr) \in Banks /\ Other(target) \in Banks
      /\ BothComplete => \A b \in Banks : Complete(b)
  BY BankFacts DEF FlashInv
<1>5. Covered => BothComplete
  BY <1>1 DEF FaultInv, SpareInv
<1>6. SpareInv'
  BY <1>2, <1>3, <1>4, <1>5 DEF SpareInv
<1>7. SoundInv' /\ NoFaultInv'
  BY <1>1, <1>2 DEF FaultInv, SoundInv, NoFaultInv, ImagePCs, HdrPCs, AfterPCs
<1>8. QED
  BY <1>6, <1>7 DEF FaultInv

(* An upgrade that ends early, by an error or for want of power, leaves a  *)
(* bank that boots.                                                        *)
LEMMA EndedEarly ==
  ASSUME FlashInv, FaultInv, Busy, faults' = faults + 1, pc' = "idle",
         UNCHANGED <<hdr, image, policy, target, misread>>
  PROVE  FaultInv' /\ (Covered' => Complete(BootBank))
<1>1. /\ BothComplete' = BothComplete /\ \A b \in Banks : Complete(b)' = Complete(b)
      /\ BootBank' = BootBank /\ Spare(hdr)' = Spare(hdr)
  BY FlashKept
<1>2. /\ BootBank \in Banks /\ Spare(hdr) \in Banks /\ Other(target) \in Banks
      /\ BothComplete => \A b \in Banks : Complete(b)
  BY BankFacts DEF FlashInv
<1>3. faults \in Nat /\ pc \in PCs
  BY DEF FlashInv, TypeOK
<1>4. Newest' = Newest /\ (Covered' => Covered) /\ faults' # 0
      /\ ((Covered' /\ ~Newest) => faults = 0)
  BY <1>3 DEF Newest, Covered
<1>5. Covered' => Complete(BootBank) /\ Complete(Spare(hdr))
  <2> SUFFICES ASSUME Covered' PROVE Complete(BootBank) /\ Complete(Spare(hdr))
    OBVIOUS
  <2>1. CASE pc \in ImagePCs
    <3>1. Sound
      BY <1>4, <2>1 DEF FaultInv, SoundInv
    <3>2. Complete(Other(target))
      BY <1>4 DEF FaultInv, SpareInv
    <3>3. QED
      BY <3>1, <3>2 DEF Sound
  <2>2. CASE pc \notin ImagePCs
    <3>1. pc \in FirstPCs \cup HdrPCs \cup AfterPCs
      BY <1>3, <2>2 DEF Busy, PCs, ImagePCs, FirstPCs, HdrPCs, AfterPCs
    <3>2. BothComplete
      BY <1>4, <3>1 DEF FaultInv, SpareInv
    <3>3. QED
      BY <1>2, <3>2
  <2>3. QED
    BY <2>1, <2>2
<1>6. SpareInv'
  BY <1>1, <1>2, <1>5 DEF SpareInv, Busy, FirstPCs, HdrPCs, AfterPCs
<1>7. SoundInv' /\ NoFaultInv'
  BY <1>4 DEF SoundInv, NoFaultInv, ImagePCs
<1>8. QED
  BY <1>5, <1>6, <1>7 DEF FaultInv

(* A restart between upgrades.                                             *)
LEMMA FaultRestart ==
  ASSUME FlashInv, FaultInv, Restart
  PROVE  FaultInv' /\ (Covered' => Complete(BootBank))
<1>1. /\ UNCHANGED <<hdr, image, policy, target, misread, faults>>
      /\ pc \in {"idle", "done"} /\ pc' = "idle"
  BY DEF Restart, Boot, Busy, flashVars, fileVars
<1>2. /\ BothComplete' = BothComplete /\ \A b \in Banks : Complete(b)' = Complete(b)
      /\ BootBank' = BootBank /\ Spare(hdr)' = Spare(hdr)
      /\ NoHeaders(hdr)' = NoHeaders(hdr) /\ Programmed(hdr)' = Programmed(hdr)
  BY <1>1, FlashKept
<1>3. BootBank \in Banks /\ Spare(hdr) \in Banks /\ "ping" \in Banks
  BY BankFacts DEF FlashInv, Banks
<1>4. Newest' = Newest /\ Covered' = Covered
  BY <1>1 DEF Newest, Covered
<1>5. Covered => Complete(BootBank) /\ Complete(Spare(hdr))
  BY <1>1 DEF FaultInv, SpareInv
<1>6. SpareInv'
  BY <1>1, <1>2, <1>3, <1>4, <1>5 DEF SpareInv, Busy, FirstPCs, HdrPCs, AfterPCs
<1>7. SoundInv'
  BY <1>1 DEF SoundInv, ImagePCs
<1>8. NoFaultInv'
  <2>1. faults = 0 => Complete("ping") /\ (NoHeaders(hdr) \/ Programmed(hdr))
    <3>1. CASE pc = "idle"
      BY <3>1 DEF FaultInv, NoFaultInv
    <3>2. CASE pc = "done"
      BY <3>2 DEF FaultInv, NoFaultInv, SpareInv, Covered, BothComplete, AfterPCs
    <3>3. QED
      BY <1>1, <3>1, <3>2
  <2>2. QED
    BY <1>1, <1>2, <1>3, <2>1 DEF NoFaultInv, ImagePCs, HdrPCs, AfterPCs
<1>9. QED
  BY <1>4, <1>5, <1>6, <1>7, <1>8 DEF FaultInv

LEMMA FaultNext == FlashInv /\ FaultInv /\ [Next]_vars => FaultInv'
<1> SUFFICES ASSUME FlashInv, FaultInv, [Next]_vars PROVE FaultInv'
  OBVIOUS
<1>1. ASSUME NEW u \in BOOLEAN, NEW ok \in BOOLEAN, Start(u, ok) PROVE FaultInv'
  BY <1>1, FaultStart
<1>2. ASSUME NEW good \in BOOLEAN, EraseImage \/ WriteImage(good) PROVE FaultInv'
  BY <1>2, FaultImage
<1>3. CASE CheckImage
  BY <1>3, FaultCheck, FlashNext
<1>4. CASE PongErase \/ PongWrite \/ PingErase \/ PingWrite \/ HdrErase \/ HdrWrite
  BY <1>4, FaultHeader
<1>5. CASE Verify \/ UbootErase \/ UbootWrite \/ SetAppParam
  BY <1>5, FaultAfter
<1>6. CASE Fail \/ Crash
  <2>1. /\ Busy /\ faults' = faults + 1 /\ pc' = "idle"
        /\ UNCHANGED <<hdr, image, policy, target, misread>>
    BY <1>6 DEF Fail, Crash, Boot, flashVars, unitVars, fileVars
  <2>2. QED
    BY <2>1, EndedEarly
<1>7. CASE Restart
  BY <1>7, FaultRestart
<1>8. CASE UNCHANGED vars
  <2>1. UNCHANGED <<hdr, image, policy, target, isFirst, misread, version, faults, pc, section>>
    BY <1>8 DEF vars, flashVars, unitVars, fileVars
  <2>2. /\ BothComplete' = BothComplete /\ \A b \in Banks : Complete(b)' = Complete(b)
        /\ BootBank' = BootBank /\ Spare(hdr)' = Spare(hdr)
        /\ Other(target)' = Other(target) /\ Sound' = Sound
        /\ NoHeaders(hdr)' = NoHeaders(hdr) /\ Programmed(hdr)' = Programmed(hdr)
    BY <2>1, FlashKept
  <2>3. /\ BootBank \in Banks /\ Spare(hdr) \in Banks /\ Other(target) \in Banks
        /\ "ping" \in Banks
    BY BankFacts DEF FlashInv, Banks
  <2>4. Newest' = Newest /\ Covered' = Covered
    BY <2>1 DEF Newest, Covered
  <2>5. SpareInv'
    BY <2>1, <2>2, <2>3, <2>4 DEF FaultInv, SpareInv, Busy
  <2>6. SoundInv'
    BY <2>1, <2>2, <2>4 DEF FaultInv, SoundInv
  <2>7. NoFaultInv'
    BY <2>1, <2>2, <2>3 DEF FaultInv, NoFaultInv
  <2>8. QED
    BY <2>5, <2>6, <2>7 DEF FaultInv
<1>9. QED
  BY <1>1, <1>2, <1>3, <1>4, <1>5, <1>6, <1>7, <1>8 DEF Next, Upgrade

(* A unit that cannot boot takes no further step, so it is enough that     *)
(* every start finds a complete bank.                                      *)
LEMMA UpNext == FlashInv /\ FaultInv /\ FaultsSurvived /\ [Next]_vars => FaultsSurvived'
<1> SUFFICES ASSUME FlashInv, FaultInv, FaultsSurvived, [Next]_vars PROVE FaultsSurvived'
  OBVIOUS
<1>1. up \in BOOLEAN
  BY DEF FlashInv, TypeOK
<1>2. CASE up /\ (Upgrade \/ Fail)
  <2>1. up' = up
    BY <1>2 DEF Upgrade, Start, EraseImage, WriteImage, CheckImage, PongErase, PongWrite,
                PingErase, PingWrite, HdrErase, HdrWrite, SetHdr, Verify, UbootErase,
                UbootWrite, SetAppParam, Fail, unitVars
  <2>2. QED
    BY <1>2, <2>1 DEF FaultsSurvived
<1>3. CASE Crash \/ Restart
  <2>1. Covered' => Complete(BootBank)
    <3>1. CASE Crash
      <4>1. /\ Busy /\ faults' = faults + 1 /\ pc' = "idle"
            /\ UNCHANGED <<hdr, image, policy, target, misread>>
        BY <3>1 DEF Crash, Boot, flashVars, fileVars
      <4>2. QED
        BY <4>1, EndedEarly
    <3>2. CASE Restart
      BY <3>2, FaultRestart
    <3>3. QED
      BY <1>3, <3>1, <3>2
  <2>2. up' = (uboot /\ Complete(BootBank)) /\ uboot' = uboot
    BY <1>3 DEF Crash, Restart, Boot, Bootable, flashVars
  <2>3. Covered' /\ uboot' => up'
    BY <2>1, <2>2
  <2>4. QED
    BY <2>3, Zenon DEF FaultsSurvived
<1>4. CASE UNCHANGED vars
  BY <1>4 DEF vars, flashVars, unitVars, fileVars, FaultsSurvived, Covered, Newest
<1>5. QED
  BY <1>2, <1>3, <1>4 DEF Next

(* One fault at any point of any sequence of upgrades leaves a unit that   *)
(* boots, whatever an erased header counts for; if it counts as the newest *)
(* and no failed read was missed, any number of faults does.               *)
THEOREM FaultsSurvivedCorrect == Spec => []FaultsSurvived
<1>1. Init => FlashInv /\ FaultInv /\ FaultsSurvived
  <2>1. Init => up = TRUE
    BY Zenon DEF Init
  <2>2. QED
    BY <2>1, FlashInit, FaultInit, Zenon DEF FaultsSurvived
<1>2. QED
  BY <1>1, FlashNext, FaultNext, UpNext, PTL DEF Spec

-----------------------------------------------------------------------------
(* No start goes back to an older file.                                    *)

(* The images of a bank are at least as new as what the unit has run.      *)
Kept(b) == image[b][1] >= runs

(* The upgrade, once finished, boots the bank it writes to, even when the  *)
(* other header is Blank.                                                  *)
WillBoot == ~isFirst /\ (policy = "oldest" \/ hdr[Other(target)] # Blank)

(* Between upgrades the bank that boots is no older than what runs, and    *)
(* during one the bank that is not written to is not.  Only after the one  *)
(* fault may the upgrade write over the newer bank; it then ends by booting*)
(* that one.                                                               *)
AgeInv ==
  Covered =>
    /\ pc \in {"idle", "done"} => Kept(BootBank)
    /\ Busy => \/ Kept(Other(target))
               \/ /\ faults = 1 /\ ~Newest /\ WillBoot
                  /\ pc = "check" => image[target][section] = version
                  /\ pc \in AfterPCs => BootBank = target

(* The unit runs a file there has been, and the flash holds no other.      *)
FileInv ==
  /\ runs <= version
  /\ \A b \in Banks, i \in Sections : image[b][i] # Broken => image[b][i] <= version

(* The steps by what they do to the images and to what runs.               *)
LEMMA StepKinds ==
  ASSUME [Next]_vars
  PROVE  \/ \E u, ok \in BOOLEAN : up /\ Start(u, ok)
         \/ \E good \in BOOLEAN : up /\ (EraseImage \/ WriteImage(good))
         \/ Crash \/ Restart
         \/ UNCHANGED <<image, runs, version>>
BY DEF Next, Upgrade, CheckImage, PongErase, PongWrite, PingErase, PingWrite, HdrErase,
       HdrWrite, SetHdr, Verify, UbootErase, UbootWrite, SetAppParam, Fail, vars, flashVars,
       unitVars, fileVars

(* What a start runs.                                                      *)
LEMMA BootRuns ==
  ASSUME TypeOK, FileInv, Boot
  PROVE  /\ up' => runs' = image[BootBank][1] /\ runs' <= version /\ Complete(BootBank)
         /\ ~up' => runs' = runs
<1>1. BootBank \in Banks /\ 1 \in Sections
  BY BankFacts, ConstantFacts
<1>2. up' = Bootable /\ runs' = IF Bootable THEN image[BootBank][1] ELSE runs
  BY DEF Boot
<1>3. Bootable => Complete(BootBank)
  BY DEF Bootable
<1>4. Complete(BootBank) => image[BootBank][1] <= version
  BY <1>1 DEF Complete, FileInv
<1>5. QED
  BY <1>2, <1>3, <1>4

LEMMA FileNext == TypeOK /\ FileInv /\ [Next]_vars => FileInv'
<1> SUFFICES ASSUME TypeOK, FileInv, [Next]_vars PROVE FileInv'
  OBVIOUS
<1>0. /\ version \in Nat /\ runs \in Nat /\ target \in Banks /\ section \in Sections
      /\ image \in [Banks -> [Sections -> Versions]] /\ Versions \subseteq Nat
  BY ConstantFacts DEF TypeOK, Versions
<1>1. ASSUME NEW u \in BOOLEAN, NEW ok \in BOOLEAN, Start(u, ok) PROVE FileInv'
  <2>1. version' = version + 1 /\ image' = image /\ runs' = runs
    BY <1>1 DEF Start, flashVars, unitVars
  <2>2. ASSUME NEW b \in Banks, NEW i \in Sections, image[b][i] # Broken
        PROVE  image[b][i] <= version + 1
    <3>1. image[b][i] \in Nat
      BY <1>0
    <3>2. image[b][i] <= version
      BY <2>2 DEF FileInv
    <3>3. QED
      BY <1>0, <3>1, <3>2
  <2>3. QED
    BY <1>0, <2>1, <2>2 DEF FileInv
<1>2. ASSUME NEW good \in BOOLEAN, EraseImage \/ WriteImage(good) PROVE FileInv'
  <2>1. PICK v \in {version, Broken} : image' = [image EXCEPT ![target][section] = v]
    BY <1>2, Zenon DEF EraseImage, WriteImage
  <2>2. version' = version /\ runs' = runs
    BY <1>2 DEF EraseImage, WriteImage, unitVars, fileVars
  <2>3. ASSUME NEW b \in Banks, NEW i \in Sections
        PROVE  image'[b][i] \in {image[b][i], version, Broken}
    BY <1>0, <2>1
  <2>4. ASSUME NEW b \in Banks, NEW i \in Sections, image'[b][i] # Broken
        PROVE  image'[b][i] <= version
    BY <1>0, <2>3, <2>4 DEF FileInv
  <2>5. QED
    BY <2>2, <2>4 DEF FileInv
<1>3. CASE Crash \/ Restart
  <2>1. Boot /\ UNCHANGED <<image, version>>
    BY <1>3 DEF Crash, Restart, Boot, flashVars, fileVars
  <2>2. runs' <= version
    BY <2>1, BootRuns DEF FileInv, Boot
  <2>3. QED
    BY <2>1, <2>2 DEF FileInv
<1>4. CASE UNCHANGED <<image, runs, version>>
  BY <1>4 DEF FileInv
<1>5. QED
  BY <1>1, <1>2, <1>3, <1>4, StepKinds

(* A written bank holds the newest file.                                   *)
LEMMA WrittenKept ==
  ASSUME TypeOK, ImageInv, FileInv, pc \in FirstPCs \cup HdrPCs \cup AfterPCs
  PROVE  Kept(target)
<1>1. image[target][1] = version
  BY ConstantFacts DEF ImageInv
<1>2. runs \in Nat /\ version \in Nat
  BY ConstantFacts DEF TypeOK
<1>3. QED
  BY <1>1, <1>2 DEF Kept, FileInv

(* A step that changes neither images nor what runs.                       *)
LEMMA KeptKept ==
  ASSUME UNCHANGED <<image, runs>>
  PROVE  \A b \in Banks : Kept(b)' = Kept(b)
BY DEF Kept

LEMMA AgeInit == Init => AgeInv /\ FileInv
<1> SUFFICES ASSUME Init PROVE AgeInv /\ FileInv
  OBVIOUS
<1>1. pc = "idle" /\ runs = 0 /\ version = 0
  BY Zenon DEF Init, Factory
<1>2. \A b \in Banks : image[b] \in [Sections -> {Factory, Broken}]
  BY DEF Init
<1>3. BootBank \in Banks /\ 1 \in Sections
  BY FlashInit, BankFacts, ConstantFacts DEF FlashInv
<1>4. image[BootBank][1] \in Nat
  BY <1>2, <1>3, ConstantFacts DEF Factory, Broken
<1>5. Kept(BootBank)
  BY <1>1, <1>4 DEF Kept
<1>6. FileInv
  BY <1>1, <1>2, ConstantFacts DEF FileInv, Factory
<1>7. QED
  BY <1>1, <1>5, <1>6 DEF AgeInv, Busy

(* The start of an upgrade: when it does not leave the bank that boots     *)
(* alone, it will boot the other.                                          *)
LEMMA AgeStart ==
  ASSUME FlashInv, FaultInv, AgeInv, NEW u \in BOOLEAN, NEW ok \in BOOLEAN, Start(u, ok)
  PROVE  AgeInv'
<1>0. TypeOK /\ ~SeqError(hdr) /\ faults \in Nat /\ misread \in BOOLEAN
      /\ policy \in {"oldest", "newest"}
  BY DEF FlashInv, HeaderInv, TypeOK
<1>1. /\ hdr' = hdr /\ image' = image /\ policy' = policy /\ pc' = "erase"
      /\ runs' = runs /\ target' \in Banks
      /\ ok => target' = TargetOf(ReadSeq(hdr)) /\ isFirst' = NoHeaders(hdr)
      /\ ~ok => target' = "pong" /\ ~isFirst'
  <2>1. runs' = runs
    BY Zenon DEF Start, unitVars
  <2>2. QED
    BY <1>0, <2>1, StartRead
<1>2. /\ pc \in {"idle", "done"}
      /\ faults' = (IF ok THEN faults ELSE faults + 1)
      /\ misread' = (misread \/ ~ok)
  BY Zenon DEF Start
<1>3. Covered => Kept(BootBank)
  BY <1>2 DEF AgeInv
<1>4. \A b \in Banks : Kept(b)' = Kept(b)
  BY <1>1, KeptKept
<1>5. faults = 0 => NoHeaders(hdr) \/ Programmed(hdr)
  BY <1>2 DEF FaultInv, NoFaultInv, AfterPCs
<1>6. BootBank \in Banks /\ Other(target') \in Banks
  BY <1>0, <1>1, BankFacts, OtherFacts
<1>7. Covered' => \/ Kept(Other(target))'
                  \/ faults' = 1 /\ ~Newest' /\ WillBoot'
  <2> SUFFICES ASSUME Covered' PROVE Kept(Other(target))' \/ (faults' = 1 /\ ~Newest' /\ WillBoot')
    OBVIOUS
  <2>1. CASE ok
    <3>1. Covered /\ Newest' = Newest
      BY <1>0, <1>1, <1>2, <2>1 DEF Covered, Newest
    <3>2. Other(target') = Spare(hdr)
      BY <1>1, <2>1 DEF Spare
    <3>3. CASE NoHeaders(hdr) \/ Programmed(hdr) \/ policy = "newest"
      <4>1. Other(target') = BootBank
        BY <1>0, <3>2, <3>3, ConsistentSpare
      <4>2. QED
        BY <1>3, <1>4, <1>6, <3>1, <4>1 DEF Other
    <3>4. CASE ~NoHeaders(hdr) /\ ~Programmed(hdr) /\ policy = "oldest"
      BY <1>0, <1>1, <1>2, <1>5, <2>1, <3>1, <3>4 DEF Covered, Newest, WillBoot
    <3>5. QED
      BY <1>0, <3>3, <3>4
  <2>2. CASE ~ok
    <3>0. ~Newest' /\ faults' = faults + 1
      BY <1>2, <2>2 DEF Newest
    <3>1. faults = 0 /\ faults' = 1 /\ ~Newest' /\ Covered
      BY <1>0, <3>0 DEF Covered
    <3>2. Other(target') = "ping"
      BY <1>1, <2>2, OtherFacts
    <3>3. CASE NoHeaders(hdr)
      <4>1. BootBank = "ping"
        BY <3>3 DEF NoHeaders, BootBank
      <4>2. QED
        BY <1>3, <1>4, <1>6, <3>1, <3>2, <4>1 DEF Other
    <3>4. CASE Programmed(hdr)
      BY <1>1, <2>2, <3>1, <3>2, <3>4 DEF WillBoot, Programmed, Other
    <3>5. QED
      BY <1>5, <3>1, <3>3, <3>4
  <2>3. QED
    BY <2>1, <2>2
<1>8. QED
  BY <1>1, <1>7 DEF AgeInv, AfterPCs

(* Writing the images of one bank leaves the other as new as it was.  A bad*)
(* write is the one fault, or an erased header counts as the newest.       *)
LEMMA AgeImage ==
  ASSUME FlashInv, AgeInv, NEW good \in BOOLEAN, EraseImage \/ WriteImage(good)
  PROVE  AgeInv'
<1>0. TypeOK /\ faults \in Nat /\ target \in Banks /\ Other(target) \in Banks
      /\ Other(target) # target /\ section \in Sections
      /\ image \in [Banks -> [Sections -> Versions]]
  BY OtherFacts DEF FlashInv, TypeOK
<1>1. PICK v \in Versions : image' = [image EXCEPT ![target][section] = v]
  BY <1>0, ConstantFacts DEF EraseImage, WriteImage, TypeOK
<1>2. /\ UNCHANGED <<hdr, policy, target, isFirst, misread, version, section, runs>>
      /\ pc \in {"erase", "write"} /\ pc' \in {"write", "check"}
  BY DEF EraseImage, WriteImage, unitVars, fileVars
<1>3. Kept(Other(target))' = Kept(Other(target)) /\ WillBoot' = WillBoot
  BY <1>0, <1>1, <1>2 DEF Kept, WillBoot, Other
<1>4. \/ faults' = faults /\ (pc' = "check" => image'[target][section] = version)
      \/ faults' = faults + 1
  <2>1. CASE EraseImage
    BY <2>1 DEF EraseImage
  <2>2. CASE WriteImage(good)
    BY <1>0, <2>2 DEF WriteImage
  <2>3. QED
    BY <2>1, <2>2
<1>5. Newest' = Newest /\ (Covered' => Covered) /\ ((Covered' /\ ~Newest) => faults' <= 1)
  BY <1>0, <1>2, <1>4 DEF Newest, Covered
<1>6. Covered => Kept(Other(target)) \/ (faults = 1 /\ ~Newest /\ WillBoot)
  BY <1>2 DEF AgeInv, Busy
<1>7. Covered' => \/ Kept(Other(target))'
                  \/ /\ faults' = 1 /\ ~Newest' /\ WillBoot'
                     /\ pc' = "check" => (image[target][section] = version)'
  BY <1>0, <1>2, <1>3, <1>4, <1>5, <1>6
<1>8. QED
  BY <1>2, <1>7 DEF AgeInv, AfterPCs

(* A step that changes neither banks nor faults.                           *)
LEMMA AgeKept ==
  ASSUME TypeOK, AgeInv, Busy,
         UNCHANGED <<hdr, image, policy, target, isFirst, misread, faults, version, runs>>,
         pc' = "idle" => (Covered => Kept(BootBank)),
         pc' = "done" => (Covered => Kept(BootBank)),
         pc' # "check", pc' \in AfterPCs => pc \in AfterPCs
  PROVE  AgeInv'
<1>1. BootBank' = BootBank /\ Other(target)' = Other(target)
  BY FlashKept
<1>2. Newest' = Newest /\ Covered' = Covered /\ WillBoot' = WillBoot
  BY DEF Newest, Covered, WillBoot, Other
<1>3. Kept(BootBank)' = Kept(BootBank) /\ Kept(Other(target))' = Kept(Other(target))
  BY <1>1 DEF Kept
<1>4. Covered => \/ Kept(Other(target))
                 \/ /\ faults = 1 /\ ~Newest /\ WillBoot
                    /\ pc \in AfterPCs => BootBank = target
  BY DEF AgeInv
<1>5. QED
  BY <1>1, <1>2, <1>3, <1>4 DEF AgeInv

(* An image that reads back badly ends the upgrade, which then has left the*)
(* bank that boots alone.                                                  *)
LEMMA AgeCheck ==
  ASSUME FlashInv, FaultInv, AgeInv, CheckImage
  PROVE  AgeInv'
<1>1. /\ UNCHANGED <<hdr, image, policy, target, isFirst, misread, faults, version, runs>>
      /\ pc = "check"
      /\ pc' \in {"idle", "erase", "pong_erase", "hdr_erase"}
      /\ pc' = "idle" => image[target][section] = Broken
  BY DEF CheckImage, flashVars, unitVars, fileVars
<1>2. TypeOK /\ version # Broken /\ Busy
  BY <1>1, ConstantFacts DEF FlashInv, TypeOK, Busy
<1>3. (Covered /\ pc' = "idle") => Sound /\ Kept(Other(target))
  BY <1>1, <1>2 DEF FaultInv, SoundInv, ImagePCs, AgeInv
<1>4. (Covered /\ pc' = "idle") => Kept(BootBank)
  BY <1>3 DEF Sound
<1>5. pc' # "check" /\ pc' # "done" /\ pc' \notin AfterPCs
  BY <1>1 DEF AfterPCs
<1>6. QED
  BY <1>1, <1>2, <1>4, <1>5, AgeKept

(* The number that a later upgrade writes makes its bank the one that      *)
(* boots, though the number before was that of a Blank header.             *)
LEMMA HdrWriteBoots ==
  ASSUME FlashInv, WillBoot, HdrWrite
  PROVE  BootBank' = target
<1>0. /\ hdr \in [Banks -> 0 .. Blank] /\ Blank \in Nat /\ target \in Banks
      /\ Other(target) \in Banks /\ Other(target) # target
      /\ version \in 0 .. MaxUpgrades /\ hdr[Other(target)] \in 0 .. Blank
  BY ConstantFacts, OtherFacts DEF FlashInv, TypeOK
<1>1. policy' = policy /\ seq[Other(target)] = hdr[Other(target)]
  BY DEF HdrWrite, SetHdr, unitVars, FlashInv, PhaseInv, HeaderInv, HdrPCs
<1>2. hdr'[target] = Succ(hdr[Other(target)]) /\ hdr'[Other(target)] = hdr[Other(target)]
  BY <1>0, <1>1 DEF HdrWrite, SetHdr
<1>3. \/ target = "ping" /\ Other(target) = "pong"
      \/ target = "pong" /\ Other(target) = "ping"
  BY <1>0 DEF Banks, Other
<1>4. CASE hdr[Other(target)] = Blank
  <2>1. policy' = "oldest" /\ hdr'[target] = 0 /\ hdr'[Other(target)] = Blank /\ Blank # 0
    BY <1>1, <1>2, <1>4, ConstantFacts DEF WillBoot, Succ
  <2>2. QED
    BY <1>3, <2>1 DEF BootBank
<1>5. CASE hdr[Other(target)] # Blank
  <2>1. hdr[Other(target)] <= FirstSeq + version
    BY <1>0, <1>5 DEF FlashInv, BoundInv, HdrWrite, SetHdr, HdrPCs
  <2>2. hdr[Other(target)] + 1 # Blank
    BY <1>0, <2>1, ConstantFacts
  <2>3. /\ hdr'[target] = hdr[Other(target)] + 1 /\ hdr'[target] # Blank
        /\ hdr'[Other(target)] # Blank /\ hdr'[target] > hdr'[Other(target)]
    BY <1>0, <1>2, <1>5, <2>2 DEF Succ
  <2>4. ~(hdr'[Other(target)] > hdr'[target]) /\ hdr'[Other(target)] # hdr'[target]
    BY <1>0, <1>2, <2>3
  <2>5. QED
    BY <1>3, <2>3, <2>4 DEF BootBank
<1>6. QED
  BY <1>4, <1>5

LEMMA AgeHeader ==
  ASSUME FlashInv, AgeInv,
         \/ PongErase \/ PongWrite \/ PingErase \/ PingWrite
         \/ HdrErase \/ HdrWrite
  PROVE  AgeInv'
<1>0. /\ target \in Banks /\ Other(target) \in Banks /\ Other(target) # target
      /\ hdr \in [Banks -> 0 .. Blank]
  BY OtherFacts DEF FlashInv, TypeOK
<1>1. /\ UNCHANGED <<image, policy, target, isFirst, misread, faults, runs>>
      /\ pc \in FirstPCs \cup HdrPCs
      /\ pc' \in {"pong_write", "ping_erase", "ping_write", "hdr_write", "verify"}
  BY DEF PongErase, PongWrite, PingErase, PingWrite, HdrErase, HdrWrite, SetHdr, unitVars,
         fileVars, FirstPCs, HdrPCs
<1>2. /\ Newest' = Newest /\ Covered' = Covered /\ Other(target)' = Other(target)
      /\ Kept(Other(target))' = Kept(Other(target))
  BY <1>1 DEF Newest, Covered, Kept, Other
<1>3. Covered => Kept(Other(target)) \/ (faults = 1 /\ ~Newest /\ WillBoot)
  BY <1>1 DEF AgeInv, Busy, FirstPCs, HdrPCs
<1>4. CASE PongErase \/ PongWrite \/ PingErase \/ PingWrite
  <2>1. ~WillBoot
    BY <1>4 DEF WillBoot, FlashInv, PhaseInv, FirstPCs, PongErase, PongWrite, PingErase,
                PingWrite, SetHdr
  <2>2. Covered' => Kept(Other(target))'
    BY <1>2, <1>3, <2>1
  <2>3. QED
    BY <1>1, <2>2 DEF AgeInv
<1>5. CASE HdrErase \/ HdrWrite
  <2>1. hdr'[Other(target)] = hdr[Other(target)]
    BY <1>0, <1>5 DEF HdrErase, HdrWrite, SetHdr
  <2>2. WillBoot' = WillBoot
    BY <1>1, <1>2, <2>1 DEF WillBoot
  <2>3. pc' = "hdr_write" \/ HdrWrite
    BY <1>5 DEF HdrErase, SetHdr
  <2>4. Covered' => \/ Kept(Other(target))'
                    \/ /\ faults' = 1 /\ ~Newest' /\ WillBoot'
                       /\ pc' \in AfterPCs => (BootBank = target)'
    BY <1>1, <1>2, <1>3, <2>2, <2>3, HdrWriteBoots DEF AfterPCs
  <2>5. QED
    BY <1>1, <2>4 DEF AgeInv
<1>6. QED
  BY <1>4, <1>5

LEMMA AgeAfter ==
  ASSUME FlashInv, FileInv, AgeInv, Verify \/ UbootErase \/ UbootWrite \/ SetAppParam
  PROVE  AgeInv'
<1>1. /\ UNCHANGED <<hdr, image, policy, target, isFirst, misread, faults, version, runs>>
      /\ pc \in AfterPCs /\ pc' \in AfterPCs /\ Busy
  BY DEF Verify, UbootErase, UbootWrite, SetAppParam, flashVars, unitVars, fileVars, AfterPCs,
         Busy
<1>2. TypeOK /\ BootBank \in Banks /\ target \in Banks
  BY BankFacts DEF FlashInv
<1>3. Kept(target)
  BY <1>1, WrittenKept DEF FlashInv
<1>4. Covered => Kept(Other(target)) \/ BootBank = target
  BY <1>1 DEF AgeInv
<1>5. Covered => Kept(BootBank)
  BY <1>2, <1>3, <1>4, OtherFacts
<1>6. QED
  BY <1>1, <1>2, <1>5, AgeKept DEF AfterPCs

(* An upgrade that ends early: the bank that boots is no older than what   *)
(* runs.                                                                   *)
LEMMA AgeEnded ==
  ASSUME FlashInv, FaultInv, FileInv, AgeInv, Busy, faults' = faults + 1,
         UNCHANGED <<policy, misread>>, Covered'
  PROVE  Kept(BootBank)
<1>1. faults \in Nat /\ pc \in PCs /\ TypeOK
  BY DEF FlashInv, TypeOK
<1>2. Covered /\ (faults = 0 \/ Newest)
  BY <1>1 DEF Covered, Newest
<1>3. Kept(Other(target))
  BY <1>1, <1>2 DEF AgeInv
<1>4. CASE pc \in ImagePCs
  BY <1>1, <1>2, <1>3, <1>4 DEF FaultInv, SoundInv, Sound
<1>5. CASE pc \notin ImagePCs
  <2>1. pc \in FirstPCs \cup HdrPCs \cup AfterPCs
    BY <1>1, <1>5 DEF Busy, PCs, ImagePCs, FirstPCs, HdrPCs, AfterPCs
  <2>2. Kept(target)
    BY <2>1, WrittenKept DEF FlashInv
  <2>3. QED
    BY <1>1, <1>3, <2>2, BankFacts, OtherFacts
<1>6. QED
  BY <1>4, <1>5

(* What a start runs is no older, when the bank that boots is not.         *)
LEMMA AgeBoot ==
  ASSUME FlashInv, FileInv, Boot, Covered' => Kept(BootBank)
  PROVE  AgeInv' /\ (Covered' => runs' >= runs)
<1>1. UNCHANGED <<hdr, image, policy>> /\ pc' = "idle"
  BY DEF Boot, flashVars
<1>2. TypeOK /\ runs \in Nat /\ image[BootBank][1] \in Nat
  <2>1. TypeOK /\ BootBank \in Banks /\ 1 \in Sections /\ Versions \subseteq Nat
    BY BankFacts, ConstantFacts DEF FlashInv, Versions
  <2>2. QED
    BY <2>1, ConstantFacts DEF TypeOK
<1>3. BootBank' = BootBank
  BY <1>1 DEF BootBank
<1>4. \/ up' /\ runs' = image[BootBank][1] /\ runs' <= version
      \/ ~up' /\ runs' = runs
  BY <1>2, BootRuns
<1>5. Covered' => runs' >= runs
  BY <1>2, <1>4 DEF Kept
<1>6. Covered' => Kept(BootBank)'
  <2>1. CASE ~up' /\ runs' = runs
    BY <1>1, <1>3, <2>1 DEF Kept
  <2>2. CASE up' /\ runs' = image[BootBank][1] /\ runs' <= version
    <3>1. runs' = image'[BootBank'][1] /\ runs' \in Nat
      BY <1>1, <1>2, <1>3, <2>2
    <3>2. QED
      BY <3>1 DEF Kept
  <2>3. QED
    BY <1>4, <2>1, <2>2
<1>7. QED
  BY <1>1, <1>5, <1>6 DEF AgeInv, Busy

LEMMA AgeNext ==
  FlashInv /\ FaultInv /\ FileInv /\ AgeInv /\ [Next]_vars
    => AgeInv' /\ (Covered' => runs' >= runs)
<1> SUFFICES ASSUME FlashInv, FaultInv, FileInv, AgeInv, [Next]_vars
             PROVE  AgeInv' /\ (Covered' => runs' >= runs)
  OBVIOUS
<1>0. runs \in Nat /\ runs >= runs
  BY ConstantFacts DEF FlashInv, TypeOK
<1>1. ASSUME NEW u \in BOOLEAN, NEW ok \in BOOLEAN, Start(u, ok)
      PROVE  AgeInv' /\ (Covered' => runs' >= runs)
  BY <1>0, <1>1, AgeStart DEF Start, unitVars
<1>2. ASSUME NEW good \in BOOLEAN, EraseImage \/ WriteImage(good)
      PROVE  AgeInv' /\ (Covered' => runs' >= runs)
  BY <1>0, <1>2, AgeImage DEF EraseImage, WriteImage, unitVars
<1>3. CASE CheckImage
  BY <1>0, <1>3, AgeCheck DEF CheckImage, unitVars
<1>4. CASE PongErase \/ PongWrite \/ PingErase \/ PingWrite \/ HdrErase \/ HdrWrite
  BY <1>0, <1>4, AgeHeader
     DEF PongErase, PongWrite, PingErase, PingWrite, HdrErase, HdrWrite, SetHdr, unitVars
<1>5. CASE Verify \/ UbootErase \/ UbootWrite \/ SetAppParam
  BY <1>0, <1>5, AgeAfter DEF Verify, UbootErase, UbootWrite, SetAppParam, unitVars
<1>6. CASE Fail
  <2>1. /\ Busy /\ faults' = faults + 1 /\ pc' = "idle" /\ runs' = runs
        /\ UNCHANGED <<hdr, image, policy, target, misread>>
    BY <1>6 DEF Fail, flashVars, unitVars, fileVars
  <2>2. Covered' => Kept(BootBank)
    BY <2>1, AgeEnded
  <2>3. (Kept(BootBank))' = Kept(BootBank)
    BY <2>1, FlashKept DEF Kept
  <2>4. QED
    BY <1>0, <2>1, <2>2, <2>3 DEF AgeInv, Busy
<1>7. CASE Crash
  BY <1>7, AgeEnded, AgeBoot DEF Crash, Boot, fileVars
<1>8. CASE Restart
  <2>1. Boot /\ UNCHANGED <<faults, misread, policy>> /\ pc \in {"idle", "done"}
    BY <1>8 DEF Restart, Boot, Busy, fileVars
  <2>2. Covered' => Kept(BootBank)
    BY <2>1 DEF AgeInv, Covered, Newest
  <2>3. QED
    BY <2>1, <2>2, AgeBoot
<1>9. CASE UNCHANGED vars
  <2>1. UNCHANGED <<hdr, image, policy, target, isFirst, misread, faults, version, runs, pc,
                    section>>
    BY <1>9 DEF vars, flashVars, unitVars, fileVars
  <2>2. BootBank' = BootBank
    BY <2>1, FlashKept
  <2>3. QED
    BY <1>0, <2>1, <2>2 DEF AgeInv, Covered, Newest, Kept, WillBoot, Busy, Other
<1>10. QED
  BY <1>1, <1>2, <1>3, <1>4, <1>5, <1>6, <1>7, <1>8, <1>9 DEF Next, Upgrade

UnitInv == FlashInv /\ FaultInv /\ FileInv /\ AgeInv /\ FaultsSurvived

LEMMA UnitInit == Init => UnitInv
<1>1. Init => FaultsSurvived
  <2>1. Init => up = TRUE
    BY Zenon DEF Init
  <2>2. QED
    BY <2>1, Zenon DEF FaultsSurvived
<1>2. QED
  BY <1>1, FlashInit, FaultInit, AgeInit DEF UnitInv

LEMMA UnitNext == UnitInv /\ [Next]_vars => UnitInv'
<1>1. UnitInv /\ [Next]_vars => FileInv'
  BY FileNext DEF UnitInv, FlashInv
<1>2. QED
  BY <1>1, FlashNext, FaultNext, AgeNext, UpNext DEF UnitInv

(* No start, whatever the upgrade was doing when the power failed, goes    *)
(* back to an older file than the unit has run, within the faults two banks*)
(* are there for.                                                          *)
THEOREM NeverOlderCorrect == Spec => NeverOlder
<1>1. UnitInv /\ [Next]_vars => [Covered' => runs' >= runs]_vars
  BY AgeNext DEF UnitInv
<1>2. QED
  BY <1>1, UnitInit, UnitNext, PTL DEF Spec, NeverOlder

-----------------------------------------------------------------------------
(* The unit as its owner knows it.                                         *)

(* Faults only add up.                                                     *)
LEMMA CoveredFalls ==
  ASSUME TypeOK, [Next]_vars
  PROVE  Covered' \in {Covered, FALSE}
<1>1. faults \in Nat /\ misread \in BOOLEAN
  BY DEF TypeOK
<1> DEFINE Adds == /\ policy' = policy /\ faults' \in {faults, faults + 1}
                   /\ misread' = misread \/ misread' = TRUE
<1>2. Adds
  <2>1. ASSUME NEW u \in BOOLEAN, NEW ok \in BOOLEAN, Start(u, ok) PROVE Adds
    BY <1>1, <2>1 DEF Start, unitVars
  <2>2. ASSUME NEW good \in BOOLEAN, EraseImage \/ WriteImage(good) PROVE Adds
    BY <2>2 DEF EraseImage, WriteImage, unitVars, fileVars
  <2>3. CASE \/ CheckImage \/ PongErase \/ PongWrite \/ PingErase \/ PingWrite \/ HdrErase
             \/ HdrWrite \/ Verify \/ UbootErase \/ UbootWrite \/ SetAppParam
    BY <2>3 DEF CheckImage, PongErase, PongWrite, PingErase, PingWrite, HdrErase, HdrWrite,
                SetHdr, Verify, UbootErase, UbootWrite, SetAppParam, unitVars, fileVars
  <2>4. CASE Fail \/ Crash \/ Restart
    BY <2>4 DEF Fail, Crash, Restart, Boot, unitVars, fileVars
  <2>5. CASE UNCHANGED vars
    BY <2>5 DEF vars, unitVars, fileVars
  <2>6. QED
    BY <2>1, <2>2, <2>3, <2>4, <2>5 DEF Next, Upgrade
<1>3. Covered' => Covered
  BY <1>1, <1>2 DEF Covered, Newest
<1>4. Covered \in BOOLEAN /\ Covered' \in BOOLEAN
  BY Zenon DEF Covered
<1>5. QED
  BY <1>3, <1>4

(* An upgrade begins.                                                      *)
LEMMA UnitBegin ==
  ASSUME UnitInv, UnitInv', [Next]_vars, NEW u \in BOOLEAN, NEW ok \in BOOLEAN, up, Start(u, ok)
  PROVE  Unit!Begin
<1>1. Covered' \in {Covered, FALSE}
  BY CoveredFalls DEF UnitInv, FlashInv
<1>2. /\ version < MaxUpgrades /\ version' = version + 1 /\ pc' = "erase"
      /\ UNCHANGED <<runs, up, uboot>>
  BY Zenon DEF Start, flashVars, unitVars
<1>3. (pc = "done" /\ clean)' = FALSE
  BY <1>2
<1>4. QED
  BY <1>1, <1>2, <1>3 DEF Unit!Begin, Unit!Fault

(* The steps of an upgrade, and its failure.                               *)
LEMMA UnitProceed ==
  ASSUME UnitInv, [Next]_vars, up, NEW good \in BOOLEAN,
         \/ EraseImage \/ CheckImage \/ WriteImage(good)
         \/ PongErase \/ PongWrite \/ PingErase \/ PingWrite \/ HdrErase \/ HdrWrite
         \/ Verify \/ SetAppParam \/ Fail
  PROVE  Unit!Proceed
<1>1. Covered' \in {Covered, FALSE}
  BY CoveredFalls DEF UnitInv, FlashInv
<1>2. UNCHANGED <<version, runs, up, uboot>> /\ pc # "done"
  BY DEF EraseImage, CheckImage, WriteImage, PongErase, PongWrite, PingErase, PingWrite,
         HdrErase, HdrWrite, SetHdr, Verify, SetAppParam, Fail, Busy, flashVars, unitVars,
         fileVars
<1>3. (pc = "done" /\ clean)' \in {pc = "done" /\ clean, TRUE}
  BY <1>2
<1>4. QED
  BY <1>1, <1>2, <1>3 DEF Unit!Proceed, Unit!Fault

(* U-Boot is erased, and written: a step of the promise unless it was gone.*)
LEMMA UnitUboot ==
  ASSUME UnitInv, up, UbootErase \/ UbootWrite
  PROVE  Unit!ReplaceUboot \/ UNCHANGED Unit!vars
<1>1. /\ UNCHANGED <<version, runs, up, faults, policy, misread>>
      /\ pc \in {"uboot_erase", "uboot_write"} /\ pc' \in {"uboot_write", "app_param"}
      /\ uboot' \in BOOLEAN
  BY DEF UbootErase, UbootWrite, unitVars, fileVars
<1>2. uboot \in BOOLEAN
  BY DEF UnitInv, FlashInv, TypeOK
<1>3. Covered' = Covered
  BY <1>1 DEF Covered, Newest
<1>4. (pc = "done" /\ clean)' = FALSE /\ (pc = "done" /\ clean) = FALSE
  BY <1>1
<1>5. CASE uboot' = uboot
  BY <1>1, <1>3, <1>4, <1>5 DEF Unit!vars
<1>6. CASE uboot' = ~uboot
  BY <1>1, <1>3, <1>4, <1>6 DEF Unit!ReplaceUboot
<1>7. QED
  BY <1>1, <1>2, <1>5, <1>6

(* A start, after an upgrade, after a failed one or in the middle of one.  *)
LEMMA UnitRestart ==
  ASSUME UnitInv, UnitInv', [Next]_vars, Crash \/ Restart
  PROVE  Unit!Restart
<1>0. TypeOK /\ runs \in Nat /\ version \in Nat /\ up \in BOOLEAN /\ uboot \in BOOLEAN
      /\ clean \in BOOLEAN /\ target \in Banks /\ 1 \in Sections
  BY ConstantFacts DEF UnitInv, FlashInv, TypeOK
<1>1. Covered' \in {Covered, FALSE}
  BY CoveredFalls DEF UnitInv, FlashInv
<1>2. /\ up /\ Boot /\ pc' = "idle" /\ UNCHANGED <<version, uboot>>
      /\ up' = (uboot /\ Complete(BootBank))
  BY DEF Crash, Restart, Boot, Bootable, flashVars, fileVars
<1>3. (pc = "done" /\ clean)' = FALSE
  BY <1>2
<1>4. up' \in BOOLEAN /\ (up' => uboot)
  BY <1>0, <1>2 DEF UnitInv, FlashInv, TypeOK
<1>5. /\ up' => runs' = image[BootBank][1] /\ runs' <= version
      /\ ~up' => runs' = runs
  BY <1>0, <1>2, BootRuns DEF UnitInv
<1>6. Covered' => runs' >= runs
  BY AgeNext DEF UnitInv
<1>7. runs' \in Nat
  BY ConstantFacts DEF UnitInv, FlashInv, TypeOK
<1>8. (pc = "done" /\ clean) => BootBank = target /\ \A i \in Sections : image[target][i] = version
  BY EffectHolds DEF UnitInv, FlashInv, TakesEffect
<1>9. (pc = "done" /\ clean) => Complete(BootBank) /\ image[BootBank][1] = version
  BY <1>0, <1>8, VersionComplete
<1>10. up' => runs' \in (IF pc = "done" /\ clean THEN {version}
                         ELSE IF Covered' THEN runs .. version ELSE 0 .. version)
  BY <1>0, <1>5, <1>6, <1>7, <1>9
<1>11. ~up' => runs' = runs /\ (uboot => ~Covered' /\ ~(pc = "done" /\ clean))
  <2>1. (~up' /\ uboot) => ~Covered'
    BY <1>2 DEF UnitInv, FaultsSurvived
  <2>2. (~up' /\ uboot) => ~(pc = "done" /\ clean)
    BY <1>2, <1>9
  <2>3. QED
    BY <1>5, <2>1, <2>2
<1>12. QED
  BY <1>1, <1>2, <1>3, <1>4, <1>10, <1>11 DEF Unit!Restart, Unit!Fault, Unit!Choices

LEMMA UnitStep == UnitInv /\ UnitInv' /\ [Next]_vars => [Unit!Next]_Unit!vars
<1> SUFFICES ASSUME UnitInv, UnitInv', [Next]_vars PROVE [Unit!Next]_Unit!vars
  OBVIOUS
<1>1. ASSUME NEW u \in BOOLEAN, NEW ok \in BOOLEAN, up, Start(u, ok) PROVE Unit!Next
  BY <1>1, UnitBegin DEF Unit!Next
<1>2. CASE up /\ (UbootErase \/ UbootWrite)
  BY <1>2, UnitUboot DEF Unit!Next
<1>3. ASSUME NEW good \in BOOLEAN, up,
             \/ EraseImage \/ CheckImage \/ WriteImage(good)
             \/ PongErase \/ PongWrite \/ PingErase \/ PingWrite \/ HdrErase \/ HdrWrite
             \/ Verify \/ SetAppParam \/ Fail
      PROVE  Unit!Next
  BY <1>3, UnitProceed DEF Unit!Next
<1>4. CASE Crash \/ Restart
  BY <1>4, UnitRestart DEF Unit!Next
<1>5. CASE UNCHANGED vars
  BY <1>5 DEF vars, flashVars, unitVars, fileVars, Unit!vars, Covered, Newest
<1>6. QED
  BY <1>1, <1>2, <1>3, <1>4, <1>5 DEF Next, Upgrade

(* To its owner a unit is one firmware that only ever gives way to a newer *)
(* one: an upgrade that has finished runs at the next start, and the unit  *)
(* fails to start only after more faults than two banks are there for.     *)
THEOREM ImplementsUnit == Spec => UnitSpec
<1>1. Init => Unit!Init
  <2>1. Init => /\ version = 0 /\ runs = 0 /\ up = TRUE /\ uboot = TRUE /\ faults = 0
                /\ pc = "idle"
    BY Zenon DEF Init, Factory
  <2>2. QED
    BY <2>1 DEF Unit!Init, Covered
<1>2. QED
  BY <1>1, UnitInit, UnitNext, UnitStep, PTL DEF Spec, UnitSpec, Unit!Spec
=============================================================================
