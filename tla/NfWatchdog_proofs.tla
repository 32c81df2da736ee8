--------------------------- MODULE NfWatchdog_proofs ---------------------------
(***************************************************************************)
(* Proofs about NfWatchdog: its variables keep their types, the unit is    *)
(* reset for the disk only during a disk operation, and never without an   *)
(* alarm, and no counter passes its maximum by more than one.              *)
(***************************************************************************)
EXTENDS NfWatchdog, TLAPS

-----------------------------------------------------------------------------
(* What nf_watchdog_ctrl and nf_watchdog_kick do to the disk member.       *)

LEMMA CtrlType ==
  ASSUME NEW ms \in SUBSET Members, NEW sec \in Nat, NEW on \in BOOLEAN,
         enable \in [Members -> BOOLEAN], max \in [Members -> Nat],
         cur \in [Members -> Nat], warned \in BOOLEAN, Ctrl(ms, sec, on)
  PROVE  /\ enable' \in [Members -> BOOLEAN] /\ max' \in [Members -> Nat]
         /\ cur' \in [Members -> Nat] /\ warned' \in BOOLEAN
<1>1. CASE CtrlAccepts(sec)
  <2>1. /\ enable' = [m \in Members |-> IF m \in ms THEN on ELSE enable[m]]
        /\ max' = [m \in Members |-> IF m \in ms THEN sec ELSE max[m]]
        /\ cur' = [m \in Members |-> IF m \in ms THEN 0 ELSE cur[m]]
        /\ warned' = (warned /\ SST \notin ms)
    BY <1>1, Zenon DEF Ctrl, Put
  <2>2. enable' \in [Members -> BOOLEAN]
    BY <2>1, Zenon
  <2>3. max' \in [Members -> Nat]
    BY <2>1
  <2>4. cur' \in [Members -> Nat]
    BY <2>1
  <2>5. warned' \in BOOLEAN
    BY <2>1
  <2>6. QED
    BY <2>2, <2>3, <2>4, <2>5
<1>2. CASE ~CtrlAccepts(sec)
  BY <1>2 DEF Ctrl, cpVars
<1>3. QED
  BY <1>1, <1>2

(* A call for other members does not touch the disk member.                *)
LEMMA CtrlOther ==
  ASSUME NEW ms \in SUBSET Members, NEW sec \in Nat, NEW on \in BOOLEAN,
         SST \notin ms, TypeOK, Ctrl(ms, sec, on)
  PROVE  /\ enable'[SST] = enable[SST] /\ max'[SST] = max[SST]
         /\ cur'[SST] = cur[SST] /\ warned' = warned
<1> SST \in Members
  BY NfWatchdogAssumption
<1>1. CASE CtrlAccepts(sec)
  BY <1>1 DEF Ctrl, Put, TypeOK
<1>2. CASE ~CtrlAccepts(sec)
  BY <1>2 DEF Ctrl, cpVars
<1>3. QED
  BY <1>1, <1>2

(* A call for the disk member that the guard accepts.                      *)
LEMMA CtrlDisk ==
  ASSUME NEW sec \in 0 .. KillSecond - 1, NEW on \in BOOLEAN, Ctrl({SST}, sec, on)
  PROVE  /\ enable'[SST] = on /\ max'[SST] = sec /\ cur'[SST] = 0
         /\ warned' = FALSE
<1>1. SST \in Members /\ CtrlAccepts(sec)
  BY NfWatchdogAssumption DEF CtrlAccepts
<1>2. QED
  BY <1>1 DEF Ctrl, Put

LEMMA OpIntervalFacts ==
  ASSUME NEW o \in DiskOps
  PROVE  OpInterval(o) \in 0 .. KillSecond - 1 /\ OpInterval(o) > PreAlarm
BY NfWatchdogAssumption DEF OpInterval

-----------------------------------------------------------------------------
LEMMA TypeInit == Init => TypeOK
<1> SUFFICES ASSUME Init PROVE TypeOK
  OBVIOUS
<1>1. enable \in [Members -> BOOLEAN]
  BY Zenon DEF Init
<1>2. max \in [Members -> Nat] /\ cur \in [Members -> Nat]
  BY DEF Init
<1>3. ops \in [DiskOps -> {"idle", "busy", "ending"}]
  BY DEF Init
<1>4. cause \subseteq Members /\ recFail \in Nat /\ seenCur \in Nat
  BY DEF Init
<1>5. /\ start \in {"idle", "running", "done"} /\ wpc \in WPCs /\ alarm \in {0, 1}
      /\ sstFailed \in BOOLEAN /\ online \in BOOLEAN /\ warned \in BOOLEAN
      /\ qcFalse \in BOOLEAN
  BY DEF Init, WPCs
<1>6. QED
  BY <1>1, <1>2, <1>3, <1>4, <1>5 DEF TypeOK

LEMMA TypeStep == TypeOK /\ [Next]_vars => TypeOK'
<1> SUFFICES ASSUME TypeOK, [Next]_vars PROVE TypeOK'
  OBVIOUS
<1> USE NfWatchdogAssumption
<1>a. /\ SST \in Members /\ MAIN_TIMER \in Members /\ KillSecond \in Nat
      /\ \A m \in Members : Interval[m] \in 0 .. KillSecond - 1 /\ Interval[m] \in Nat
      /\ FwMembers \subseteq Members
  OBVIOUS
<1>b. /\ enable \in [Members -> BOOLEAN] /\ max \in [Members -> Nat]
      /\ cur \in [Members -> Nat] /\ warned \in BOOLEAN
  BY DEF TypeOK
<1>1. ASSUME NEW ok \in BOOLEAN, WdAudit(ok) PROVE TypeOK'
  <2>1. recFail' \in Nat
    <3>1. recFail' = 0 \/ recFail' = recFail + 1
      BY <1>1 DEF WdAudit
    <3>2. QED
      BY <3>1 DEF TypeOK
  <2>2. wpc' \in WPCs /\ cause' \subseteq Members
    <3>1. CASE recFail' > MaxRecFail
      BY <1>1, <3>1 DEF WdAudit, Reset, WPCs
    <3>2. CASE ~(recFail' > MaxRecFail)
      BY <1>1, <3>2 DEF WdAudit, WPCs, TypeOK
    <3>3. QED
      BY <3>1, <3>2
  <2>3. UNCHANGED <<start, cpVars, sstFailed, seenCur, alarm, diskVars, warned, qcFalse>>
    BY <1>1 DEF WdAudit
  <2>4. QED
    BY <2>1, <2>2, <2>3 DEF TypeOK, cpVars, diskVars
<1>2. CASE WdSst
  BY <1>2, <1>a DEF WdSst, TypeOK, WPCs, cpVars, diskVars
<1>3. CASE WdCompare
  BY <1>3 DEF WdCompare, TypeOK, WPCs, cpVars, diskVars
<1>4. CASE WdRaise
  BY <1>4 DEF WdRaise, TypeOK, WPCs, cpVars, diskVars
<1>5. CASE WdClear
  BY <1>5 DEF WdClear, TypeOK, WPCs, cpVars, diskVars
<1>6. CASE WdScan
  <2>1. cur' \in [Members -> Nat]
    BY <1>6 DEF WdScan, Age, TypeOK
  <2>2. QED
    BY <1>6, <2>1 DEF WdScan, TypeOK, WPCs, diskVars
<1>7. ASSUME NEW m \in Members, WdReset(m) PROVE TypeOK'
  <2>1. cur' \in [Members -> Nat]
    BY <1>7 DEF WdReset, Age, TypeOK
  <2>2. QED
    BY <1>7, <2>1 DEF WdReset, Reset, TypeOK, WPCs, diskVars
<1>8. CASE StartRun
  BY <1>8 DEF StartRun, TypeOK, cpVars, wdVars, diskVars
<1>9. CASE StartMainTimer
  <2>1. Ctrl({MAIN_TIMER}, Interval[MAIN_TIMER], TRUE)
    BY <1>9 DEF StartMainTimer
  <2>2. /\ enable' \in [Members -> BOOLEAN] /\ max' \in [Members -> Nat]
        /\ cur' \in [Members -> Nat] /\ warned' \in BOOLEAN
    BY <1>a, <1>b, <2>1, CtrlType
  <2>3. QED
    BY <1>9, <2>2 DEF StartMainTimer, TypeOK, wdVars, diskVars
<1>10. CASE QcUpgrade
  <2>1. /\ enable' \in [Members -> BOOLEAN] /\ max' \in [Members -> Nat]
        /\ cur' \in [Members -> Nat] /\ warned' \in BOOLEAN
    <3>1. Ctrl({m \in Members : m < NOTIFY}, KillSecond, FALSE)
      BY <1>10 DEF QcUpgrade
    <3>2. QED
      BY <1>a, <1>b, <3>1, CtrlType
  <2>2. QED
    BY <1>10, <2>1 DEF QcUpgrade, TypeOK, wdVars, diskVars
<1>11. ASSUME NEW m \in Members, Kick(m) PROVE TypeOK'
  BY <1>11 DEF Kick, Put, TypeOK, wdVars, diskVars
<1>12. ASSUME NEW m \in Members, Enlist(m) PROVE TypeOK'
  <2>1. /\ enable' \in [Members -> BOOLEAN] /\ max' \in [Members -> Nat]
        /\ cur' \in [Members -> Nat] /\ warned' \in BOOLEAN
    BY <1>a, <1>b, <1>12, CtrlType DEF Enlist
  <2>2. QED
    BY <1>12, <2>1 DEF Enlist, TypeOK, wdVars, diskVars
<1>13. ASSUME NEW m \in FwMembers, FwDisable(m) PROVE TypeOK'
  <2>1. /\ enable' \in [Members -> BOOLEAN] /\ max' \in [Members -> Nat]
        /\ cur' \in [Members -> Nat] /\ warned' \in BOOLEAN
    <3>1. m \in Members /\ Ctrl({m}, Interval[m], FALSE)
      BY <1>a, <1>13 DEF FwDisable
    <3>2. QED
      BY <1>a, <1>b, <3>1, CtrlType
  <2>2. QED
    BY <1>13, <2>1 DEF FwDisable, TypeOK, wdVars, diskVars
<1>14. ASSUME NEW o \in DiskOps, DiskBegin(o) PROVE TypeOK'
  <2>1. /\ enable' \in [Members -> BOOLEAN] /\ max' \in [Members -> Nat]
        /\ cur' \in [Members -> Nat] /\ warned' \in BOOLEAN
    <3>1. Ctrl({SST}, OpInterval(o), TRUE)
      BY <1>14 DEF DiskBegin
    <3>2. OpInterval(o) \in Nat
      BY <1>a, OpIntervalFacts
    <3>3. QED
      BY <1>a, <1>b, <3>1, <3>2, CtrlType
  <2>2. ops' \in [DiskOps -> {"idle", "busy", "ending"}]
    BY <1>14 DEF DiskBegin, TypeOK
  <2>3. UNCHANGED <<start, wdVars, online, qcFalse>>
    BY <1>14 DEF DiskBegin
  <2>4. QED
    BY <2>1, <2>2, <2>3 DEF TypeOK, wdVars
<1>15. ASSUME NEW o \in DiskOps, DiskComplete(o) PROVE TypeOK'
  BY <1>15 DEF DiskComplete, OnlineAfter, TypeOK, cpVars, wdVars
<1>16. ASSUME NEW o \in DiskOps, DiskRelease(o) PROVE TypeOK'
  <2>1. /\ enable' \in [Members -> BOOLEAN] /\ max' \in [Members -> Nat]
        /\ cur' \in [Members -> Nat] /\ warned' \in BOOLEAN
    <3>1. Ctrl({SST}, Interval[SST], FALSE)
      BY <1>16 DEF DiskRelease
    <3>2. QED
      BY <1>a, <1>b, <3>1, CtrlType
  <2>2. QED
    BY <1>16, <2>1 DEF DiskRelease, TypeOK, wdVars
<1>17. ASSUME NEW o \in DiskOps, NEW block \in BOOLEAN, DiskFail(o, block) PROVE TypeOK'
  <2>1. /\ enable' \in [Members -> BOOLEAN] /\ max' \in [Members -> Nat]
        /\ cur' \in [Members -> Nat] /\ warned' \in BOOLEAN
    <3>1. Ctrl({SST}, Interval[SST], FALSE)
      BY <1>17 DEF DiskFail
    <3>2. QED
      BY <1>a, <1>b, <3>1, CtrlType
  <2>2. QED
    BY <1>17, <2>1 DEF DiskFail, OnlineAfter, TypeOK, wdVars
<1>18. CASE UNCHANGED vars
  BY <1>18 DEF vars, cpVars, wdVars, diskVars, TypeOK
<1>19. QED
  BY <1>1, <1>2, <1>3, <1>4, <1>5, <1>6, <1>7, <1>8, <1>9, <1>10, <1>11, <1>12,
     <1>13, <1>14, <1>15, <1>16, <1>17, <1>18 DEF Next, Watchdog, Clients

(* Every variable of the watchdog keeps its type.                          *)
THEOREM TypeCorrect == Spec => []TypeOK
BY TypeInit, TypeStep, PTL DEF Spec

-----------------------------------------------------------------------------
(* The guard is enabled only while an operation is in progress, and a reset*)
(* freezes the state it was decided in.                                    *)
GuardInv ==
  /\ enable[SST] => \E o \in DiskOps : ops[o] # "idle"
  /\ SST \in cause => wpc = "reset" /\ \E o \in DiskOps : ops[o] # "idle"

(* While the guard is enabled and no alarm has been raised, the counter has*)
(* not yet come to the value the thread compares it with, or the thread is *)
(* about to find that it has.                                              *)
Below == cur[SST] + PreAlarm < max[SST]
UpTo  == cur[SST] + PreAlarm <= max[SST]

AlarmInv ==
  /\ enable[SST] => PreAlarm < max[SST]
  /\ enable[SST] /\ ~warned =>
       /\ wpc \in {"audit", "sst", "compare", "raise"} => UpTo
       /\ wpc \in {"clear", "scan"} => Below
       /\ wpc = "compare" => seenCur = cur[SST] \/ cur[SST] = 0
  /\ SST \in cause => wpc = "reset" /\ warned


IInv == TypeOK /\ GuardInv /\ AlarmInv

(* What a step may do to the disk member: nothing but age or be kicked, or *)
(* be enabled by an operation that begins, or be disabled.                 *)
DiskQuiet ==
  /\ enable'[SST] = enable[SST] /\ max'[SST] = max[SST]
  /\ \/ cur'[SST] = cur[SST] /\ warned' = warned
     \/ cur'[SST] = 0 /\ warned' = FALSE /\ wpc # "reset"
  /\ wpc' = wpc /\ seenCur' = seenCur /\ cause' = cause /\ ops' = ops

DiskOff ==
  /\ enable'[SST] = FALSE
  /\ wpc' = wpc /\ cause' = cause /\ wpc # "reset"

DiskOn ==
  /\ \E o \in DiskOps : ops'[o] # "idle"
  /\ max'[SST] \in Nat /\ PreAlarm < max'[SST] /\ cur'[SST] = 0
  /\ wpc' = wpc /\ cause' = cause /\ wpc # "reset"

LEMMA ClientKinds ==
  ASSUME IInv, Clients
  PROVE  DiskQuiet \/ DiskOff \/ DiskOn \/ \E o \in DiskOps : DiskComplete(o)
<1> USE NfWatchdogAssumption DEF IInv
<1>a. /\ SST \in Members /\ MAIN_TIMER \in Members /\ KillSecond \in Nat
      /\ \A m \in Members : Interval[m] \in 0 .. KillSecond - 1 /\ Interval[m] \in Nat
      /\ MAIN_TIMER # SST
  OBVIOUS
<1>1. CASE StartRun
  BY <1>1 DEF StartRun, DiskQuiet, cpVars, wdVars, diskVars
<1>2. CASE StartMainTimer
  <2>1. Ctrl({MAIN_TIMER}, Interval[MAIN_TIMER], TRUE)
    BY <1>2 DEF StartMainTimer
  <2>2. /\ enable'[SST] = enable[SST] /\ max'[SST] = max[SST]
        /\ cur'[SST] = cur[SST] /\ warned' = warned
    BY <1>a, <2>1, CtrlOther
  <2>3. QED
    BY <1>2, <2>2 DEF StartMainTimer, DiskQuiet, wdVars, diskVars
<1>3. CASE QcUpgrade
  <2>1. ~CtrlAccepts(KillSecond)
    BY <1>a DEF CtrlAccepts
  <2>2. UNCHANGED <<cpVars, warned>>
    BY <1>3, <2>1 DEF QcUpgrade, Ctrl
  <2>3. QED
    BY <1>3, <2>2 DEF QcUpgrade, DiskQuiet, cpVars, wdVars, diskVars
<1>4. ASSUME NEW m \in Members, Kick(m) PROVE DiskQuiet
  BY <1>4, <1>a DEF Kick, Alive, Put, DiskQuiet, wdVars, diskVars, TypeOK
<1>5. ASSUME NEW m \in Members, Enlist(m) PROVE DiskQuiet
  <2>1. /\ enable'[SST] = enable[SST] /\ max'[SST] = max[SST]
        /\ cur'[SST] = cur[SST] /\ warned' = warned
    <3>1. Ctrl({m}, Interval[m], TRUE) /\ SST \notin {m}
      BY <1>5 DEF Enlist
    <3>2. QED
      BY <1>a, <3>1, CtrlOther
  <2>2. QED
    BY <1>5, <2>1 DEF Enlist, DiskQuiet, wdVars, diskVars
<1>6. ASSUME NEW m \in FwMembers, FwDisable(m) PROVE DiskQuiet
  <2>1. /\ enable'[SST] = enable[SST] /\ max'[SST] = max[SST]
        /\ cur'[SST] = cur[SST] /\ warned' = warned
    <3>1. Ctrl({m}, Interval[m], FALSE) /\ m \in Members /\ SST \notin {m}
      BY <1>6 DEF FwDisable
    <3>2. QED
      BY <1>a, <3>1, CtrlOther
  <2>2. QED
    BY <1>6, <2>1 DEF FwDisable, DiskQuiet, wdVars, diskVars
<1>7. ASSUME NEW o \in DiskOps, DiskBegin(o) PROVE DiskOn
  <2>1. ops'[o] = "busy"
    BY <1>7 DEF DiskBegin, TypeOK
  <2>2. max'[SST] = OpInterval(o) /\ cur'[SST] = 0
    <3>1. Ctrl({SST}, OpInterval(o), TRUE)
      BY <1>7 DEF DiskBegin
    <3>2. QED
      BY <3>1, OpIntervalFacts, CtrlDisk
  <2>3. wpc' = wpc /\ cause' = cause /\ wpc # "reset"
    BY <1>7 DEF DiskBegin, wdVars, Alive
  <2>4. QED
    BY <2>1, <2>2, <2>3, OpIntervalFacts DEF DiskOn
<1>8. ASSUME NEW o \in DiskOps, DiskRelease(o) PROVE DiskOff
  <2>1. enable'[SST] = FALSE
    <3>1. Ctrl({SST}, Interval[SST], FALSE)
      BY <1>8 DEF DiskRelease
    <3>2. QED
      BY <1>a, <3>1, CtrlDisk
  <2>2. QED
    BY <1>8, <2>1 DEF DiskRelease, DiskOff, wdVars, Alive
<1>9. ASSUME NEW o \in DiskOps, NEW block \in BOOLEAN, DiskFail(o, block) PROVE DiskOff
  <2>1. enable'[SST] = FALSE
    <3>1. Ctrl({SST}, Interval[SST], FALSE)
      BY <1>9 DEF DiskFail
    <3>2. QED
      BY <1>a, <3>1, CtrlDisk
  <2>2. QED
    BY <1>9, <2>1 DEF DiskFail, DiskOff, wdVars, Alive
<1>10. QED
  BY <1>1, <1>2, <1>3, <1>4, <1>5, <1>6, <1>7, <1>8, <1>9 DEF Clients

LEMMA InvInit == Init => IInv
<1> SUFFICES ASSUME Init PROVE GuardInv /\ AlarmInv
  BY TypeInit DEF IInv
<1>1. enable[SST] = FALSE /\ cause = {}
  BY NfWatchdogAssumption DEF Init
<1>2. QED
  BY <1>1 DEF GuardInv, AlarmInv

LEMMA InvStep == IInv /\ [Next]_vars => IInv'
<1> SUFFICES ASSUME IInv, [Next]_vars PROVE GuardInv' /\ AlarmInv'
  BY TypeStep DEF IInv
<1> USE NfWatchdogAssumption DEF IInv
<1>a. /\ SST \in Members /\ cur[SST] \in Nat /\ max[SST] \in Nat /\ seenCur \in Nat
      /\ wpc \in WPCs /\ PreAlarm \in Nat
  BY DEF TypeOK
<1>1. CASE DiskQuiet
  <2>1. GuardInv'
    BY <1>1 DEF DiskQuiet, GuardInv
  <2>2. /\ enable'[SST] = enable[SST] /\ max'[SST] = max[SST]
        /\ wpc' = wpc /\ seenCur' = seenCur /\ cause' = cause
    BY <1>1 DEF DiskQuiet
  <2>3. CASE cur'[SST] = cur[SST] /\ warned' = warned
    BY <2>1, <2>2, <2>3 DEF AlarmInv, UpTo, Below
  <2>4. CASE cur'[SST] = 0 /\ warned' = FALSE /\ wpc # "reset"
    <3>1. enable[SST] => UpTo' /\ Below'
      BY <2>2, <2>4, <1>a DEF AlarmInv, UpTo, Below
    <3>2. SST \notin cause'
      BY <2>2, <2>4 DEF AlarmInv
    <3>3. enable'[SST] => PreAlarm < max'[SST]
      BY <2>2 DEF AlarmInv
    <3>4. QED
      BY <2>1, <2>2, <2>4, <3>1, <3>2, <3>3 DEF AlarmInv
  <2>5. QED
    BY <1>1, <2>3, <2>4 DEF DiskQuiet
<1>2. CASE DiskOff
  BY <1>2, <1>a DEF DiskOff, GuardInv, AlarmInv
<1>3. CASE DiskOn
  BY <1>3, <1>a DEF DiskOn, GuardInv, AlarmInv, UpTo, Below
<1>4. ASSUME NEW o \in DiskOps, DiskComplete(o) PROVE GuardInv' /\ AlarmInv'
  <2>1. ops' = [ops EXCEPT ![o] = "ending"] /\ UNCHANGED <<cpVars, warned, wdVars>>
    BY <1>4 DEF DiskComplete
  <2>2. ops'[o] = "ending"
    BY <2>1 DEF TypeOK
  <2>3. GuardInv'
    BY <2>1, <2>2 DEF GuardInv, cpVars, wdVars
  <2>4. AlarmInv'
    BY <2>1 DEF AlarmInv, UpTo, Below, cpVars, wdVars
  <2>5. QED
    BY <2>3, <2>4
<1>5. ASSUME NEW ok \in BOOLEAN, WdAudit(ok) PROVE GuardInv' /\ AlarmInv'
  <2>1. /\ UNCHANGED <<cpVars, seenCur, diskVars, warned>> /\ wpc = "audit"
        /\ (wpc' = "reset" /\ cause' = {}) \/ (wpc' = "sst" /\ cause' = cause)
    BY <1>5 DEF WdAudit, Reset
  <2>2. QED
    BY <2>1 DEF GuardInv, AlarmInv, UpTo, Below, cpVars, diskVars
<1>6. CASE WdSst
  BY <1>6, <1>a DEF WdSst, GuardInv, AlarmInv, UpTo, Below, cpVars, diskVars
<1>7. CASE WdCompare
  BY <1>7, <1>a DEF WdCompare, GuardInv, AlarmInv, UpTo, Below, cpVars, diskVars
<1>8. CASE WdRaise
  BY <1>8, <1>a DEF WdRaise, GuardInv, AlarmInv, UpTo, Below, cpVars, diskVars
<1>9. CASE WdClear
  BY <1>9, <1>a DEF WdClear, GuardInv, AlarmInv, UpTo, Below, cpVars, diskVars
<1>10. CASE WdScan
  <2>1. cur'[SST] = cur[SST] \/ cur'[SST] = cur[SST] + 1
    BY <1>10, <1>a DEF WdScan, Age
  <2>2. QED
    BY <1>10, <1>a, <2>1 DEF WdScan, GuardInv, AlarmInv, UpTo, Below, diskVars
<1>11. ASSUME NEW m \in Members, WdReset(m) PROVE GuardInv' /\ AlarmInv'
  <2>1. /\ wpc = "scan" /\ wpc' = "reset" /\ cause' = {m} /\ Expired(m)
        /\ enable' = enable /\ max' = max /\ warned' = warned /\ ops' = ops
    BY <1>11 DEF WdReset, Reset, diskVars
  <2>2. CASE m = SST
    <3>1. enable[SST] /\ max[SST] < cur[SST]
      BY <2>1, <2>2 DEF Expired
    <3>2. warned
      BY <3>1, <2>1, <1>a DEF AlarmInv, Below
    <3>3. QED
      BY <2>1, <3>1, <3>2 DEF GuardInv, AlarmInv
  <2>3. CASE m # SST
    BY <2>1, <2>3 DEF GuardInv, AlarmInv
  <2>4. QED
    BY <2>2, <2>3
<1>12. CASE UNCHANGED vars
  BY <1>12 DEF vars, cpVars, wdVars, diskVars, GuardInv, AlarmInv, UpTo, Below
<1>13. CASE Clients
  BY <1>13, <1>1, <1>2, <1>3, <1>4, ClientKinds
<1>14. QED
  BY <1>5, <1>6, <1>7, <1>8, <1>9, <1>10, <1>11, <1>12, <1>13 DEF Next, Watchdog

(* The unit is reset for the disk only while a disk operation is in        *)
(* progress.                                                               *)
THEOREM DiskResetCorrect == Spec => []DiskResetOnlyInOperation
<1>1. IInv => DiskResetOnlyInOperation
  BY DEF IInv, GuardInv, DiskResetOnlyInOperation
<1>2. QED
  BY <1>1, InvInit, InvStep, PTL DEF Spec

(* A reset for the disk is preceded by an alarm of the same silence.       *)
THEOREM DiskAlarmCorrect == Spec => []AlarmBeforeDiskReset
<1>1. IInv => AlarmBeforeDiskReset
  BY DEF IInv, AlarmInv, AlarmBeforeDiskReset
<1>2. QED
  BY <1>1, InvInit, InvStep, PTL DEF Spec

-----------------------------------------------------------------------------
(* The watchdog is never late.                                             *)

(* A member whose counter is zeroed with every change of its maximum has   *)
(* all of it to go.                                                        *)
LEMMA PromptCtrl ==
  ASSUME TypeOK, ResetIsPrompt, NEW ms, NEW sec \in Nat, NEW on, Ctrl(ms, sec, on)
  PROVE  ResetIsPrompt'
<1>1. CASE CtrlAccepts(sec)
  <2>1. ASSUME NEW m \in Members, enable'[m]
        PROVE  cur'[m] <= max'[m] + 1
    <3>1. m \in ms => cur'[m] = 0 /\ max'[m] = sec
      BY <1>1 DEF Ctrl, Put
    <3>2. m \notin ms => cur'[m] = cur[m] /\ max'[m] = max[m] /\ enable'[m] = enable[m]
      BY <1>1 DEF Ctrl, Put
    <3>3. CASE m \in ms
      BY <3>1, <3>3
    <3>4. CASE m \notin ms
      BY <2>1, <3>2, <3>4 DEF ResetIsPrompt
    <3>5. QED
      BY <3>3, <3>4
  <2>2. QED
    BY <2>1 DEF ResetIsPrompt
<1>2. CASE ~CtrlAccepts(sec)
  BY <1>2 DEF Ctrl, cpVars, ResetIsPrompt
<1>3. QED
  BY <1>1, <1>2

(* One second more, for members none of which has expired.                 *)
LEMMA PromptAge ==
  ASSUME TypeOK, ResetIsPrompt, NEW ms \in SUBSET Members,
         \A m \in ms : ~Expired(m), Age(ms), UNCHANGED <<enable, max>>
  PROVE  ResetIsPrompt'
<1>1. ASSUME NEW m \in Members, enable[m]
      PROVE  cur'[m] <= max[m] + 1
  <2>1. cur[m] \in Nat /\ max[m] \in Nat /\ cur[m] <= max[m] + 1
    BY <1>1 DEF TypeOK, ResetIsPrompt
  <2>2. m \notin ms => cur'[m] = cur[m]
    BY DEF Age
  <2>3. m \in ms => cur'[m] = cur[m] + 1 /\ cur[m] <= max[m]
    BY <1>1, <2>1 DEF Age, Expired
  <2>4. QED
    BY <2>1, <2>2, <2>3
<1>2. QED
  BY <1>1 DEF ResetIsPrompt

LEMMA PromptNext == TypeOK /\ ResetIsPrompt /\ [Next]_vars => ResetIsPrompt'
<1> SUFFICES ASSUME TypeOK, ResetIsPrompt, [Next]_vars PROVE ResetIsPrompt'
  OBVIOUS
<1>a. /\ KillSecond \in Nat /\ Interval \in [Members -> Nat] /\ SST \in Members
      /\ MAIN_TIMER \in Members /\ FwMembers \subseteq Members /\ Members \subseteq Nat
  BY NfWatchdogAssumption
<1>1. CASE UNCHANGED cpVars
  BY <1>1 DEF cpVars, ResetIsPrompt
<1>2. ASSUME NEW m \in Members, Kick(m) PROVE ResetIsPrompt'
  BY <1>2 DEF Kick, Put, ResetIsPrompt, TypeOK
<1>3. CASE StartMainTimer \/ QcUpgrade
  BY <1>3, <1>a, PromptCtrl DEF StartMainTimer, QcUpgrade
<1>4. ASSUME NEW m \in Members, Enlist(m) \/ FwDisable(m) PROVE ResetIsPrompt'
  BY <1>4, <1>a, PromptCtrl DEF Enlist, FwDisable
<1>5. ASSUME NEW o \in DiskOps, NEW block \in BOOLEAN,
             DiskBegin(o) \/ DiskRelease(o) \/ DiskFail(o, block)
      PROVE  ResetIsPrompt'
  <2>1. OpInterval(o) \in Nat
    BY <1>a, OpIntervalFacts
  <2>2. QED
    BY <1>5, <1>a, <2>1, PromptCtrl DEF DiskBegin, DiskRelease, DiskFail
<1>6. CASE WdScan
  <2>1. UNCHANGED <<enable, max>> /\ (cur' = cur \/ (Age(Members) /\ \A m \in Members : ~Expired(m)))
    BY <1>6 DEF WdScan
  <2>2. QED
    BY <2>1, PromptAge DEF ResetIsPrompt
<1>7. ASSUME NEW m \in Members, WdReset(m) PROVE ResetIsPrompt'
  <2>1. /\ UNCHANGED <<enable, max>> /\ Age({i \in Members : i < m})
        /\ \A i \in Members : Expired(i) => m <= i
    BY <1>7 DEF WdReset
  <2>2. \A i \in {j \in Members : j < m} : ~Expired(i)
    BY <1>a, <2>1
  <2>3. QED
    BY <2>1, <2>2, PromptAge
<1>8. CASE \/ \E ok \in BOOLEAN : WdAudit(ok)
           \/ WdSst \/ WdCompare \/ WdRaise \/ WdClear \/ StartRun
           \/ \E o \in DiskOps : DiskComplete(o)
           \/ UNCHANGED vars
  BY <1>1, <1>8 DEF WdAudit, WdSst, WdCompare, WdRaise, WdClear, StartRun, DiskComplete, vars,
                    cpVars
<1>9. QED
  BY <1>a, <1>2, <1>3, <1>4, <1>5, <1>6, <1>7, <1>8 DEF Next, Watchdog, Clients

(* No enabled counter passes its maximum by more than one, whatever        *)
(* intervals the owners choose and change to: a silent member is noticed by*)
(* the scan that follows.                                                  *)
THEOREM PromptCorrect == Spec => []ResetIsPrompt
<1>1. Init => ResetIsPrompt
  BY DEF Init, ResetIsPrompt
<1>2. QED
  BY <1>1, TypeInit, TypeStep, PromptNext, PTL DEF Spec
=============================================================================
