------------------------------ MODULE NfWatchdog ------------------------------
(***************************************************************************)
(* The software watchdog of the host process (sysman/nf_watchdog.c), the   *)
(* disk operations it guards (service/nf_api_disk.c) and the factory-test  *)
(* upgrade that wants it out of the way (sysman/nf_qc_app.c).           *)
(*                                                                         *)
(* Every guarded thread is a member: it enables its counter with           *)
(* nf_watchdog_ctrl and zeroes it with nf_watchdog_kick.  Once a second    *)
(* the watchdog thread adds one to every enabled counter, and resets the   *)
(* unit when one has passed its maximum.                                   *)
(***************************************************************************)
EXTENDS Naturals

CONSTANTS Members,      \* members modelled, as numbered by NF_WATCHDOG_MEMBER_E
          SST,          \* the disk member
          MAIN_TIMER,   \* the member start_run enables
          NOTIFY,       \* the notify-thread member, last bound of the QC loop
          FwMembers,    \* the members a firmware upgrade disables
          Interval,     \* Interval[m]: interval_sec its owner passes to ctrl
          DiskOps,      \* subset of {"start", "stop", "rtlimit", "delete"}
          LongInterval, \* interval of "rtlimit" and "delete"
          KillSecond,   \* NF_WATCHDOG_KILL_SECOND
          PreAlarm,     \* 60: how long before the reset the disk alarm is due
          MaxRecFail    \* 14400: record audits that may fail in a row

ASSUME NfWatchdogAssumption ==
  /\ Members \subseteq Nat
  /\ {SST, MAIN_TIMER, NOTIFY} \subseteq Members
  /\ FwMembers \subseteq Members \ {SST}
  /\ SST # MAIN_TIMER
  /\ KillSecond \in Nat /\ PreAlarm \in Nat /\ MaxRecFail \in Nat
  /\ LongInterval \in 0 .. KillSecond - 1
  /\ Interval \in [Members -> 0 .. KillSecond - 1]
  /\ PreAlarm < Interval[SST] /\ PreAlarm < LongInterval
  /\ DiskOps \subseteq {"start", "stop", "rtlimit", "delete"}

VARIABLES
  start,      \* nf_watchdog_start_run: "idle", "running", "done"
  enable,     \* enable_cp
  max,        \* max_cp
  cur,        \* cur_cp
  recFail,    \* record_fail_count of the watchdog thread
  sstFailed,  \* is_sst_failed of the watchdog thread
  wpc,        \* where the watchdog thread is
  seenCur,    \* the disk counter it has read, without the lock
  alarm,      \* the disk_smart value it last fired: 1 raised, 0 cleared
  cause,      \* the member the reset is for, as a set; {} for the record audit
  ops,        \* ops[o]: disk operation o is "idle", "busy" or "ending"
  online,     \* _fs_is_online
  warned,     \* history: the alarm was raised since the disk counter was last zeroed
  qcFalse     \* history: QC reported the watchdog disabled, and it was not

cpVars   == <<enable, max, cur>>
wdVars   == <<recFail, sstFailed, wpc, seenCur, alarm, cause>>
diskVars == <<ops, online>>
vars     == <<start, cpVars, wdVars, diskVars, warned, qcFalse>>

WPCs == {"audit", "sst", "compare", "clear", "raise", "scan", "reset"}

Running == start # "idle"
Alive   == wpc # "reset"

Init ==
  /\ start = "idle"
  /\ enable = [m \in Members |-> FALSE]
  /\ max = [m \in Members |-> 0]
  /\ cur = [m \in Members |-> 0]
  /\ recFail = 0
  /\ sstFailed = FALSE
  /\ wpc = "audit"
  /\ seenCur = 0
  /\ alarm = 0
  /\ cause = {}
  /\ ops = [o \in DiskOps |-> "idle"]
  /\ online = FALSE
  /\ warned = FALSE
  /\ qcFalse = FALSE

-----------------------------------------------------------------------------
(* nf_watchdog_ctrl refuses an interval of KillSecond or more.             *)
CtrlAccepts(sec) == sec < KillSecond

(* f with the value v for every member of ms.                              *)
Put(f, ms, v) == [m \in Members |-> IF m \in ms THEN v ELSE f[m]]

(* Mutant: the counter is not zeroed.                                      *)
CtrlKeepsCur(ms, sec, on) ==
  IF CtrlAccepts(sec)
    THEN /\ enable' = Put(enable, ms, on)
         /\ max' = Put(max, ms, sec)
         /\ warned' = (warned /\ SST \notin ms)
         /\ UNCHANGED cur
    ELSE UNCHANGED <<cpVars, warned>>

(* nf_watchdog_ctrl, called for each of ms.                                *)
Ctrl(ms, sec, on) ==
  IF CtrlAccepts(sec)
    THEN /\ enable' = Put(enable, ms, on)
         /\ max' = Put(max, ms, sec)
         /\ cur' = Put(cur, ms, 0)
         /\ warned' = (warned /\ SST \notin ms)
    ELSE UNCHANGED <<cpVars, warned>>

(* nf_watchdog_kick: an enabled and a disabled member alike.  Its callers  *)
(* are the loops of the guarded threads, the dvr_wdtimer callback and, for *)
(* SST, nf_filesystem_get_progress.                                        *)
Kick(m) ==
  /\ Alive
  /\ cur' = Put(cur, {m}, 0)
  /\ warned' = (warned /\ m # SST)
  /\ UNCHANGED <<start, enable, max, wdVars, diskVars, qcFalse>>

(* nf_watchdog_start_run: the scan is switched on ...                      *)
StartRun ==
  /\ Alive
  /\ start = "idle"
  /\ start' = "running"
  /\ UNCHANGED <<cpVars, wdVars, diskVars, warned, qcFalse>>

(* ... then the timer and the callbacks are installed and MAIN_TIMER is    *)
(* enabled.                                                                *)
StartMainTimer ==
  /\ Alive
  /\ start = "running"
  /\ start' = "done"
  /\ Ctrl({MAIN_TIMER}, Interval[MAIN_TIMER], TRUE)
  /\ UNCHANGED <<wdVars, diskVars, qcFalse>>

(* The first thing a guarded thread does (nf_notify.c:859, nf_action.c:937,*)
(* nf_rec_audio.c:989, nf_record.c:4289), before or after start_run.       *)
Enlist(m) ==
  /\ Alive
  /\ m \notin {SST, MAIN_TIMER}
  /\ ~enable[m]
  /\ Ctrl({m}, Interval[m], TRUE)
  /\ UNCHANGED <<start, wdVars, diskVars, qcFalse>>

(* nf_fw_start_upgrade disables its members one after the other.           *)
FwDisable(m) ==
  /\ Alive
  /\ Ctrl({m}, Interval[m], FALSE)
  /\ UNCHANGED <<start, wdVars, diskVars, qcFalse>>

(* _qcmode_do_fwup calls ctrl for every member below NOTIFY and reports    *)
(* the watchdog disabled.                                                  *)
QcUpgrade ==
  /\ Alive
  /\ Ctrl({m \in Members : m < NOTIFY}, KillSecond, FALSE)
  /\ qcFalse' = (qcFalse \/ \E m \in Members : m < NOTIFY /\ enable'[m])
  /\ UNCHANGED <<start, wdVars, diskVars>>

-----------------------------------------------------------------------------
(* Disk operations: nf_filesystem_start, _stop, _set_rtlimit, _delete_data.*)
(* The kick that follows ctrl zeroes the counter again, as Kick(SST) may   *)
(* at any time.                                                            *)

OpInterval(o) == IF o \in {"start", "stop"} THEN Interval[SST] ELSE LongInterval

(* What _fsstart_complete and _fsstop_complete make of _fs_is_online.      *)
OnlineAfter(o) == CASE o = "start" -> TRUE [] o = "stop" -> FALSE
                    [] OTHER -> online

(* Up to the call of the disk library.  The state test is that of the file *)
(* system, and no operation tests for another in progress.                 *)
DiskBegin(o) ==
  /\ Alive
  /\ ops[o] = "idle"
  /\ o = "start" => ~online
  /\ o = "stop" => online
  /\ ops' = [ops EXCEPT ![o] = "busy"]
  /\ Ctrl({SST}, OpInterval(o), TRUE)
  /\ UNCHANGED <<start, wdVars, online, qcFalse>>

(* Mutant: the guard is left enabled when the library fails.               *)
DiskFailGuarded(o, block) ==
  /\ Alive
  /\ ops[o] = "busy"
  /\ ops' = [ops EXCEPT ![o] = IF block THEN "ending" ELSE "idle"]
  /\ online' = IF block THEN OnlineAfter(o) ELSE online
  /\ UNCHANGED <<start, cpVars, warned, wdVars, qcFalse>>

(* The library fails: the guard is disabled.  A blocking call goes on to   *)
(* complete as if it had succeeded.                                        *)
DiskFail(o, block) ==
  /\ Alive
  /\ ops[o] = "busy"
  /\ ops' = [ops EXCEPT ![o] = IF block THEN "ending" ELSE "idle"]
  /\ online' = IF block THEN OnlineAfter(o) ELSE online
  /\ Ctrl({SST}, Interval[SST], FALSE)
  /\ UNCHANGED <<start, wdVars, qcFalse>>

(* The library completes: the first half of _fsstart_complete and the like.*)
DiskComplete(o) ==
  /\ Alive
  /\ ops[o] = "busy"
  /\ ops' = [ops EXCEPT ![o] = "ending"]
  /\ online' = OnlineAfter(o)
  /\ UNCHANGED <<start, cpVars, warned, wdVars, qcFalse>>

(* The second half: the guard is kicked and disabled.                      *)
DiskRelease(o) ==
  /\ Alive
  /\ ops[o] = "ending"
  /\ ops' = [ops EXCEPT ![o] = "idle"]
  /\ Ctrl({SST}, Interval[SST], FALSE)
  /\ UNCHANGED <<start, wdVars, online, qcFalse>>

-----------------------------------------------------------------------------
(* The watchdog thread, once a second: watchdog_thread_func.               *)

Reset(ms) == wpc' = "reset" /\ cause' = ms

(* The record audit: ok is what nf_record_watchdog_is_ok answers.          *)
WdAudit(ok) ==
  /\ wpc = "audit"
  /\ recFail' = IF ok THEN 0 ELSE recFail + 1
  /\ IF recFail' > MaxRecFail
       THEN Reset({})
       ELSE wpc' = "sst" /\ UNCHANGED cause
  /\ UNCHANGED <<start, cpVars, sstFailed, seenCur, alarm, diskVars, warned, qcFalse>>

(* Mutant: the branch that clears the disk alarm is dropped.               *)
WdSstNeverClears ==
  /\ wpc = "sst"
  /\ wpc' = IF enable[SST] THEN "compare" ELSE "scan"
  /\ seenCur' = cur[SST]
  /\ UNCHANGED <<start, cpVars, recFail, sstFailed, alarm, cause, diskVars, warned,
                 qcFalse>>

(* The disk alarm looks at the counters without the lock: first at enable  *)
(* and cur ...                                                             *)
WdSst ==
  /\ wpc = "sst"
  /\ wpc' = IF enable[SST] THEN "compare" ELSE IF sstFailed THEN "clear" ELSE "scan"
  /\ seenCur' = cur[SST]
  /\ UNCHANGED <<start, cpVars, recFail, sstFailed, alarm, cause, diskVars, warned,
                 qcFalse>>

(* ... then at max.                                                        *)
WdCompare ==
  /\ wpc = "compare"
  /\ wpc' = IF seenCur + PreAlarm = max[SST] THEN "raise" ELSE "scan"
  /\ seenCur' = 0
  /\ UNCHANGED <<start, cpVars, recFail, sstFailed, alarm, cause, diskVars, warned,
                 qcFalse>>

(* Mutant: the parameters of disk_smart are swapped.                       *)
WdRaiseSwapped ==
  /\ wpc = "raise"
  /\ wpc' = "scan"
  /\ sstFailed' = TRUE
  /\ alarm' = 255
  /\ warned' = TRUE
  /\ UNCHANGED <<start, cpVars, recFail, seenCur, cause, diskVars, qcFalse>>

(* disk_smart is fired with 1, or with 0.                                  *)
WdRaise ==
  /\ wpc = "raise"
  /\ wpc' = "scan"
  /\ sstFailed' = TRUE
  /\ alarm' = 1
  /\ warned' = TRUE
  /\ UNCHANGED <<start, cpVars, recFail, seenCur, cause, diskVars, qcFalse>>

WdClear ==
  /\ wpc = "clear"
  /\ wpc' = "scan"
  /\ sstFailed' = FALSE
  /\ alarm' = 0
  /\ UNCHANGED <<start, cpVars, recFail, seenCur, cause, diskVars, warned, qcFalse>>

(* Mutant: one second is added before the comparison.                      *)
ExpiredLater(m) == enable[m] /\ max[m] + 1 < cur[m]

Expired(m) == enable[m] /\ max[m] < cur[m]

(* One more second for the enabled members of ms.                          *)
Age(ms) == cur' = [m \in Members |-> IF m \in ms /\ enable[m] THEN cur[m] + 1 ELSE cur[m]]

(* Mutant: the scan ends after the first enabled member.                   *)
WdScanFirst ==
  /\ wpc = "scan"
  /\ ~(Running /\ \E m \in Members : Expired(m))
  /\ IF Running THEN Age({m \in Members : \A i \in Members : enable[i] => m <= i})
                ELSE UNCHANGED cur
  /\ wpc' = "audit"
  /\ UNCHANGED <<start, enable, max, recFail, sstFailed, seenCur, alarm, cause,
                 diskVars, warned, qcFalse>>

(* The scan, under the lock: every enabled member ages ...                 *)
WdScan ==
  /\ wpc = "scan"
  /\ ~(Running /\ \E m \in Members : Expired(m))
  /\ IF Running THEN Age(Members) ELSE UNCHANGED cur
  /\ wpc' = "audit"
  /\ UNCHANGED <<start, enable, max, recFail, sstFailed, seenCur, alarm, cause,
                 diskVars, warned, qcFalse>>

(* ... or the first that has expired resets the unit, after those before   *)
(* it have aged.                                                           *)
WdReset(m) ==
  /\ wpc = "scan"
  /\ Running
  /\ Expired(m)
  /\ \A i \in Members : Expired(i) => m <= i
  /\ Age({i \in Members : i < m})
  /\ Reset({m})
  /\ UNCHANGED <<start, enable, max, recFail, sstFailed, seenCur, alarm, diskVars,
                 warned, qcFalse>>

Watchdog ==
  \/ \E ok \in BOOLEAN : WdAudit(ok)
  \/ WdSst \/ WdCompare \/ WdRaise \/ WdClear \/ WdScan
  \/ \E m \in Members : WdReset(m)

Clients ==
  \/ StartRun \/ StartMainTimer \/ QcUpgrade
  \/ \E m \in Members : Kick(m) \/ Enlist(m)
  \/ \E m \in FwMembers : FwDisable(m)
  \/ \E o \in DiskOps : \/ DiskBegin(o) \/ DiskComplete(o) \/ DiskRelease(o)
                        \/ \E block \in BOOLEAN : DiskFail(o, block)

Next == Watchdog \/ Clients

Spec == Init /\ [][Next]_vars

(* The watchdog thread has the highest real-time priority.                 *)
FairSpec == Spec /\ WF_vars(Watchdog)

-----------------------------------------------------------------------------
(* Every variable holds a value of its type.                               *)
TypeOK ==
  /\ start \in {"idle", "running", "done"}
  /\ enable \in [Members -> BOOLEAN]
  /\ max \in [Members -> Nat]
  /\ cur \in [Members -> Nat]
  /\ recFail \in Nat
  /\ sstFailed \in BOOLEAN
  /\ wpc \in WPCs
  /\ seenCur \in Nat
  /\ alarm \in {0, 1}
  /\ cause \subseteq Members
  /\ ops \in [DiskOps -> {"idle", "busy", "ending"}]
  /\ online \in BOOLEAN
  /\ warned \in BOOLEAN
  /\ qcFalse \in BOOLEAN

(* A reset for a hung disk never comes without warning: disk_smart has     *)
(* been raised since the disk last made progress, although the thread      *)
(* compares for equality, without the lock, counters that any client may   *)
(* change between the two reads.                                           *)
AlarmBeforeDiskReset == SST \in cause => warned

(* A disk operation leaves no guard behind, whether it completes or fails: *)
(* the unit is never reset for the disk when no operation is in progress.  *)
DiskResetOnlyInOperation == SST \in cause => \E o \in DiskOps : ops[o] # "idle"

(* The watchdog is never late: no enabled counter passes its maximum by    *)
(* more than one, so that a member that falls silent is the end of the unit*)
(* max + 2 scans later at most, although owners change their maximum at any*)
(* time and the scan before start_run does not look.                       *)
ResetIsPrompt == \A m \in Members : enable[m] => cur[m] <= max[m] + 1

(* The disk alarm is cleared after the guard has been disabled, unless     *)
(* another operation enables it first or the unit is reset.                *)
AlarmCleared ==
  (alarm = 1 /\ ~enable[SST]) ~> (alarm = 0 \/ enable[SST] \/ ~Alive)

(* Whoever the other members are, a member that stays enabled and is not   *)
(* kicked any more leads to a reset.                                       *)
SilenceLeadsToReset ==
  \A m \in Members :
    \/ <>(~Alive)
    \/ []<>(cur[m] = 0)
    \/ []<>(~enable[m] \/ ~Running)

(* "watchdog disable" (nf_qc_app.c:807): when the QC upgrade prints it,    *)
(* the members it went through are disabled.                               *)
QcDisables == ~qcFalse
=============================================================================
