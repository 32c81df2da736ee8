# TLA+ models of the IP camera recorder service

The repository (`src/`) is the host process of a network video recorder for IP
cameras: one Linux process of some sixty threads that sets up and streams
cameras, records, watches itself, and upgrades its own firmware. This directory
holds TLA+ models of parts of it, TLC configurations that check them on small
instances, and proofs, checked by TLAPS, of what they check.

In this file `nf_x.c` is `src/src/sysman/nf_x.c` or `src/src/service/nf_x.c`.
The repository has no automated tests; `src/docs/phase0_inventory.md` describes
the manual regression scenarios A to D and the threads.

## 1. Inventory

| component | state | operations | what is hard | what makes it correct |
|---|---|---|---|---|
| Notification bus, `nf_notify.c` | a queue of items, one value block per property, lists of callback records | `nf_notify_fire_*`, the notify thread, `nf_notify_connect_cb`, `nf_notify_remove_cb`, `nf_notify_get*` | many threads fire, connect, remove and read without a common lock; callbacks run while records are freed | a property holds the last value fired; a connected handler sees every fire, once, in order; a removed one stops; readers never go back |
| Software watchdog, `nf_watchdog.c` | per member: enabled, maximum, counter; the disk alarm | `nf_watchdog_ctrl`, `nf_watchdog_kick`, `nf_watchdog_start_run`, the watchdog thread | the disk alarm reads the counters without the lock and compares for equality | silence leads to a reset; no reset for a disk that works; an alarm first |
| Disk API, `nf_api_disk.c` | online flag, operations in progress | start, stop, rtlimit, delete and their completions | four asynchronous operations share one watchdog member | no guard is left behind by a failed operation |
| Dual-bank upgrade, `nf_util_fw.c` | flash: two banks of images, two header pages with sequence numbers, U-Boot | `nf_fw_start_upgrade`, `nf_fw_get_seq`, `nf_fw_set_seq`, `nf_fw_update_uboot`, `nf_fw_set_app_param` | power failures between flash operations, unchecked reads, wrapping numbers | the unit boots after a fault; a finished upgrade takes effect; later upgrades stay possible |
| Single-bank upgrade, `nf_util_fw_single.c`, `nf_api_param_app.c` | upgrade-info and application-parameter pages | write info, restart into a RAM disk, confirm | erase-then-write of single pages | the upgrade resumes or is forgotten, never half |
| QC application, `nf_qc_app.c` | factory tests | only the step before an upgrade matters here | | disables the watchdog as it says |
| Open-mode cameras, `nf_api_openmode.c`, `nf_ipcam_driver_itx_openmode.c` | per channel: `openmode_state`, stream threads, hang and loss counters | init, start, stop, live set-up, stream threads, recovery | start and stop race with the threads they wait for; requests time out and answer late | a reachable camera streams in the end; loss is shown when and only when there is no stream |
| RTSP client library, `mrtp/` | per channel: streams of video, audio and metadata, a request to its session manager | open, close, reconnect, the callback into the open-mode service | a session manager and a receiver of its own; results in one global | opened and closed streams are reported |
| Camera set-up jobs, `nf_ipcam_setup.c` | per channel and kind of job: a slot with callback, socket, state and one reservation, and a sending flag | `nf_ipcam_setup_request`, the manager threads, `nf_ipcam_setup_clear`, the chain of initial set-up requests | no lock: callers, drivers and manager share the slot; time-outs race late answers; settings are sent again for digest authentication | every accepted request is told one result, and the right one |
| Camera plug-and-play, `nf_ipcam_pnd.c`, `nf_ipcam_discovery.c` | event queues, `vloss_status`, channel table | discovery, add, remove | loss events are applied later than they are caused | one camera per channel; loss state in step with the cameras |
| Camera API and drivers, `nf_api_ipcam.c`, `nf_ipcam_driver_itx.c`, `nf_onvif_*.c` | little | requests to cameras per vendor | | formatting |
| Events and actions, `nf_event.c`, `nf_action.c` | event masks, action queue | detect, trigger, act | late enlistment with the watchdog | every event starts its actions |
| Recording and playback, `nf_record.c`, `nf_api_play.c`, `nf_api_archive.c` | stream buffers, disk library handles | record, play, archive, audit | disk changes under running streams | no frame into a stopped disk |
| Sessions, `nf_session.c`, `nf_auth.c` | a table of 20 sessions | login, look-up, logout, expiry | eviction while a session is in use | a session in use is not freed |
| System database, `nf_sysdb.c`, `nfdal.c` | settings, dirty flag, save timer | get, set, delayed save | power failure during a save | a saved setting survives |
| System management, `nf_sysman.c`, `nf_main.c` | start-up and shutdown phases | init, shutdown, timers | order | no service is used before its init |
| Senders, `nf_util_mail/ftp/sms/push.c` | queues | enqueue, send, retry | retry of what was sent | bounded retries |
| PTZ, timers and objects, network servers, `nfgui` | | | | not modelled: formatting, wrappers of GLib, parsing, screens |
| Vendored and generated code | | | | not modelled |

How they interact: every component fires properties on the bus (`vloss`,
`disk_smart`, `analog_rec`, ...), and the handlers of all of them run on the one
notify thread. The notify thread, the action and event threads, the recorder's threads and
the disk operations are members of the watchdog; the upgrades disable members
of it before they write the flash. The watchdog fires `disk_smart` on the bus.
`hazards` in `PROJECT.json` lists, at its line, what in this code is hard to
test, with the properties that cover it.

## 2. Plan

Order, most important first. 1 to 5 are done.

1. `NotifyBus`, `NfNotify`: every other component talks through the bus. Abstract
   specification, refinement, proofs.
2. `NfWatchdog`: the disk guard and its unlocked alarm. Proofs.
3. `NfFirmware`: flash and power failures. Proofs.
4. `NfSetupJob`: the job slots through which cameras are configured. Proofs.
5. `OpenmodeLive`: one camera's life, from its discovery to its recovery, among the
   threads that set it up, stream it and watch it. Proofs.
6. `HostWatchdog`, a composition of the timer, `NfNotify`'s thread and
   `NfWatchdog`: a callback that never returns resets the unit, and an idle bus does not.
7. `OpenmodeLive` with two channels, which share the pool and `nf_openmode_stop`'s wait.

The safety properties the runs check are all proved. Theorems still worth proving: the
safety part of 6, and of 7 that what is proved of one channel holds of each of two that
share the pool.

Earlier plans had the session table of `nf_session.c`, which has no caller in the
repository, and the single-bank upgrade of `nf_util_fw_single.c`, whose flash writes are
made by a RAM disk that is not in the repository.

## 3. Modules

### NotifyBus and NfNotify

`NotifyBus` is what clients may rely on: a log of accepted fires, applied in order to one
register per property. `NfNotify` is the code:

| code | model |
|---|---|
| `nf_notify_init`, `nf_notify_fire_params/chmap/pointer` | `NotifyInit`, `Fire` (a short channel map is refused) |
| `notify_thread_func` | `NtStart`, `NtPop`, `NtDone` |
| `nf_notify_set_property`, `nf_notify_dup`, `nf_notify_free` | `NtStore` (swap the pointer), `NtFree` (free the old block), `NtRefuse` (payload over 1 MiB) |
| GSignal's emission, `wrap_notify_cb` | `NtSelect(h)`, `NtCall` |
| `nf_notify_connect_cb` | `ConnectSignal`, then `ConnectList` under `cb_mutex` |
| `nf_notify_remove_cb` | `RemoveDisconnect`, `RemoveFree` under `cb_mutex` |
| `nf_notify_get`, `_get_param0/1/_idx`, `_get_update_time` | `GetPointer`, `GetCopy` |

A fire is its index in `log`; a value block is the fire it copies. The thread's
step is cut wherever another thread can see the difference: between the store
and the free, between the choice of a handler and its call. The emission itself belongs to GLib and
is modelled from how the code uses it: handlers connected when it begins are
considered once each, in any order, and skipped when disconnected since.

The atomic step of `ConnectSignal` takes the set of connected handlers as
GObject's lock does. A handler once removed is not connected again under the same name: each name
is one call of `nf_notify_connect_cb`.

### NfWatchdog

| code | model |
|---|---|
| `nf_watchdog_ctrl`, `nf_watchdog_kick` | `Ctrl`, `Kick` |
| `nf_watchdog_start_run` | `StartRun`, `StartMainTimer` |
| `watchdog_thread_func` | `WdAudit`, `WdSst`, `WdCompare`, `WdRaise`, `WdClear`, `WdScan`, `WdReset` |
| `nf_filesystem_start/stop/set_rtlimit/delete_data` and completions | `DiskBegin`, `DiskFail`, `DiskComplete`, `DiskRelease` |
| start of a guarded thread | `Enlist` |
| `nf_fw_start_upgrade`, `_qcmode_do_fwup` | `FwDisable`, `QcUpgrade` |

`Members` are numbered as in `NF_WATCHDOG_MEMBER_E`, because the scan goes in
order of the numbers. The disk alarm's two reads (`cur`, then `max`) are two
actions, with any client step in between.

### NfFirmware

| code | model |
|---|---|
| `nf_fw_get_seq`, start of `nf_fw_start_upgrade` | `Start` (with a read of the pong header that may fail unnoticed) |
| the loop over the images | `EraseImage`, `WriteImage`, `CheckImage` |
| `nf_fw_set_seq` | `PongErase` ... `PingWrite` (first upgrade), `HdrErase`, `HdrWrite`, `Verify` |
| `nf_fw_update_uboot`, `nf_fw_set_app_param` | `UbootErase`, `UbootWrite`, `SetAppParam` |
| an error return | `Fail` |
| power failure, restart | `Crash`, `Restart` |

The boot loader is not in the repository. The code implies that it boots the
bank with the higher number; what it takes an erased header for is not implied,
so `policy` is either. `guint` arithmetic wraps: `Succ(Blank)` is 0.

`FirmwareUnit` is what the owner of the unit sees, without banks and headers: one firmware
runs; the start after a finished upgrade runs its file, any other start runs what ran before or
something newer, and a start fails only after more faults than two banks are
there for, or without U-Boot, which has no second copy. The variable `runs` (the file
the last start booted) is history; `finished` is `pc = "done" /\ clean`, `within` is `Covered`.

This is the upgrade of the recovery hotkey (`nf_util_fw_hotkey.c:62`), of the blocking
call (`nf_util_fw.c:150`) and of the builds without `CONFIG_FWUPGRADE_SINGLE`; the variant
configured in `make.env` defines that macro and uses `nf_util_fw_single.c` in its upgrade thread.

### NfSetupJob

One slot `callbacks[ch][type]`, in open mode. A request is one call of
`nf_ipcam_setup_request`, with its own callback and data.

| code | model |
|---|---|
| `nf_ipcam_setup_request`, `cam_setup_setcb` | `Enter` (refused while stopped), `SetCb` (first look at the flags), `Enqueue` (second look, and the copy of the data) |
| the drivers' send functions, `nf_ipcam_setup_sending`, `_send_done`, `_waiting` | `BeginSending`, `SendFailed`, `SendDone`, `Waiting`, `NotSent`, on a caller's thread or on the manager's |
| the calls of the ONVIF library, and settings the camera does not have | `NothingToAwait`, `LibraryFails` |
| `cam_setup_failed_req` | `FailClose`, `FailMark` |
| `cam_setup_func`, pass over the answers; `cam_setup_done` | `NoAnswer`, `NoSocket`, `AnswerOk`, `AnswerBad`, `AnswerDigest`; `Finish` in them, and `FinishMark` |
| `cam_setup_func`, pass over the states | `StateIdle`, `StateBegin`/`SetPending`, `StatePending`/`StillTime`/`TimeUp`, `StateFinal`/`CallFinal`, then `Promote` (with `call_setup_reserved`) or `Release` |
| the loop while the service is stopped | `DropFlags` |
| `nf_openmode_start`, `nf_openmode_stop`, `nf_ipcam_setup_clear` | `Start`, `Stop`, `SetupClear` |

`way` is how the setting reaches the camera: as a text through a plain socket, through SSL,
or by a call of the ONVIF library. After such a call `nf_ipcam_setup_request` marks the slot as
waiting for nothing (line 1286; 1864 for a reserved request) whatever the call returned, and
only then looks at the result.

`cam_setup_done` and `cam_setup_failed_req` are cut between the flag and the state,
and the states pass between the callback and what follows it, because callers
run there. `undisturbed` records which requests found the slot free and have had
it to themselves since; what the code does for the others is in the model, but
no comment promises them anything.

Success is told without an answer in two cases, which the history variable `overlooked`
records: the library's call failed and the manager came between lines 1286 and 1430,
and with SSL a digest answer could not be sent (finding 5). `SuccessWasAnswered` says that there is
no third; `SuccessMeansAnswered` is what the comment at line 1717 says, and either case refutes it.

`SetupPromise` is the life of each request as its caller knows it: refused, or asked and
then told a success, told a failure, or lost. `Outcome` reads it off the slot's two callback
fields and what has been told. A request that has the slot to itself is never lost and hears of
a success only after an answer or an overlooked failure. What others get is left open but for one thing: a request told or lost is
never called again.

### OpenmodeLive

One camera of `_openmode_live_list`: its entry, its `runtime[ch]`, its bit in
`vloss_status` and its RTSP streams. Four threads meet there, two of them under the
channel's mutex `_live_mtx[ch]`. Hardly anything else is locked, so that every store which another
thread can see on its own is a step: a close is three, the report of an opening three,
`nf_openmode_stop` seven.

| code | model |
|---|---|
| `_openmode_th_live_detail` (thread `Live`) | `Wake` |
| `_openmode_live_setup` | `CheckState`, `EndInstallation`, `MarkRunning`, `SkipSetup`, `FindEntry`, then its switch under the mutex: `CaseInit`, `CaseBuild` with `Build` or `BuildFails`, `CaseReady`, `CaseConfigFail`, `CaseConfiguring`, `CaseOther`, and `CaseCleared` for an entry that was cleared meanwhile |
| `_list_search_model_detail_live` | `SkipProbe`, `Probed`, `ProbeFails` |
| `_openmode_recovery` | `SkipRecovery`, `Overdue` (compare before the mutex), `Recover` (after it), `CountLogin`, `LogInAgain`, `Count` |
| `initial_setup_done`, `initial_setup_callback` of `nf_ipcam_setup.c` | `ChainSucceeds`, `ChainFails`, `ChainIsLost`: a chain of set-up jobs outlives the attempt that began it |
| `_openmode_start_stream_thread_func` (thread `Pool`) | `JobVoid`, `JobLate` with `JobClosed`, `JobOpen`, `JobDone` |
| `gst_mrtp_src_open_ch` | `OpenVideo`, `OpenFails`, `OpenMisread`, `OpenRest`, `OpenRestRefused`, and `StreamReady` after the callback |
| `_cmd_callback_func`, op 0 | `ReportOpened`, `ReportUsing` |
| `gst_mrtp_src_close_ch`, `_close_all`, and `_cmd_callback_func`, op 1 | `CloseBegins` (streams closed, loss told), `CloseWipes` (the runtime), `CloseEnds` (the entry), all under the closesync lock of the library |
| `_session_manager_func` (thread `Sess`) | `SessReconn`, `SessPause`, `SessResumed`, `SessResumeFails`, `SessReboot`, `SessClosed`, `SessReset` |
| receiver and frame audit of `gstmrtpclient.c` | `StreamDies`, `DeathSeen` |
| `ipx_vloss_handler_func` | `HandleLoss` |
| `nf_openmode_start` (thread `User`) | `Start` |
| `nf_openmode_stop` | `Stop` (no live thread runs), `StopSetsInit`, `StopSetsNone`, `StopClosed`, `StopUnlinks`, `StopMarksLost`, `StopClears` |
| `nf_openmode_init_detection_list` | `StartInstallation` |
| `nf_openmode_stop_streaming` | `StopStreaming`, `StreamsClosed`, `EntryInit`, `StreamingStopped` |
| `nf_openmode_finalize_installation` | `FinishInstallation`, `FinishWaits`, `FinishClears`, `FinishLists` |
| `nf_openmode_reconnect_ch`, `nf_openmode_retry_login` | `Reconnect`, `ReconnectClosed`, `Reconnected`; `RetryLogin` |

The set-up chain is a sequence of the jobs of `NfSetupJob`. Each of them tells a result at
most once (`ToldAtMostOnce`) and one without interference tells one (`UndisturbedIsTold`);
the chain here therefore ends well, ends badly, or, where its slot was given to another
request, ends without a word.

Recovery has one source: the loss bit. The history variable `cause` names what first made the
bit say nothing of the stream, or left the camera behind:

| cause | race |
|---|---|
| `recount` | recovery resets a camera that came back between its two looks at the count (finding 6) |
| `errno` | the result of an open is read from the global `rtspc_errno`, which another channel's job has written |
| `unreported` | streams are closed between their opening and its report: the event of the loss overtakes that of the opening |
| `crossed` | an opening is reported while the channel is being closed: the loss is already in the queue, the entry not yet set |
| `overwritten` | the job stores `STATE_STREAM_READY` after its callback, over the `STATE_REBOOT_REQ` with which the session manager asks to have the streams it closed reported |
| `stopped` | an opening is reported after `nf_openmode_stop` |
| `reset` | the session manager sets the streams to `STATE_INITIAL` after its callback let a new open begin |
| `relisted` | a second end of an installation makes the list anew while a camera of the old one has its stream |
| `abandoned` | the live thread locks the mutex of a channel, finds the entry cleared, with channel -1, and leaves the mutex locked |

`SilentLossHasCause` says that these are all, in what is modelled: a camera that has no stream and for
which nothing is under way is shown as lost, so that recovery takes it up, unless one of
them has happened. `CameraComesBack` is its liveness half. That a camera listed as
connected is shown as connected is not a property of this code: every close tells the loss
before it touches the entry.

## 4. Runs

| run | question | bounds |
|---|---|---|
| `notify` | Does every accepted fire reach the latch and exactly the connected handlers, in order, while handlers come and go, and do the threads implement `NotifyBus`? Does a reader without a lock go back in time? Is every accepted fire dispatched in the end? | 2 properties, 2 handlers of one of them, 1 reader, 3 fires, each a valid, a short or an oversize payload |
| `notify_freed_read` | Finding: is the block a reader copies from still allocated? | 1 reader, 2 fires |
| `notify_double_free` | Finding: is every payload freed once? | 2 fires, one oversize |
| `watchdog` | Can an overlap of disk operations, kicks, enlistments and upgrades reset the unit for a disk that is idle, or without the alarm? Is a member's silence noticed by the next scan? Is the alarm cleared after the operation, and does silence lead to a reset? | 3 members, 3 kinds of operation, intervals of 0, 1, 3 and 4 s |
| `watchdog_qc` | Finding: does the QC upgrade disable what it says it disables? | as `watchdog` |
| `firmware` | Does the unit boot after faults anywhere, does a finished upgrade take effect, can the next one begin? Does a start ever go back to an older file? Do banks and headers implement `FirmwareUnit`? | 2 images, 3 upgrades, 3 faults, both boot policies, numbers wrap at 15 |
| `firmware_first` | Finding: is the bank the first upgrade announces the one it writes? | 1 upgrade |
| `setup_job` | Whatever callers, camera, clock and manager do, is a result told at most once? Is a request that has the slot to itself never forgotten, told one, and success only after an answer or one of two overlooked failures? Does the slot implement `SetupPromise`? | 2 requests, each way to the camera |
| `setup_job_ssl` | Finding: does success mean an answer with SSL? | 1 request |
| `openmode` | Can a camera be lost without anyone noticing, other than by a named race? Does a job open streams after a stop? | 1 camera, 1 call of the user besides starts, 1 job, 1 chain, 1 queued event |
| `openmode_back` | Does a camera that answers again come back? | as `openmode`, no call of the user besides starts, set-ups of 2 rounds |
| `openmode_lost` | Finding: can the recovery itself lose a camera? | as `openmode`, no call of the user |

Why these bounds are enough:

- *Bus.* Three fires are the fewest with one being dispatched, one queued behind
  it and one stored before. Two handlers of one property are the
  fewest where one comes or goes while the other is called. The second
  property separates the latches. All the reachable orders of the threads' steps
  are explored; nothing else is bounded. The proofs lift the numbers of fires, handlers and properties.
- *Watchdog.* The disk member, the first member after it and the last are enough for
  the order of the scan to matter. The intervals 3 and 4 of the disk and 0 and 1 of the others stand for 60 to 3600 s,
  with `PreAlarm` 1 for 60; only `PreAlarm < Interval[SST]`, which the code's
  numbers satisfy, is used by the proofs. `MaxRecFail` 1 stands for 14400.
  Three overlapping operations are one more than it takes for one to enable the
  guard another has disabled.
- *Firmware.* Three upgrades write ping, pong and ping again. The numbers start at 2
  and wrap at 15 so that `Blank` is never reached by counting
  (`NfFirmwareAssumption`; it would take the code's 32 bits four billion upgrades);
  the wrap itself happens when the other bank's header is `Blank`. Two images are the
  fewest where an interrupted upgrade leaves a mixed bank.
- *Set-up jobs.* Two requests are the fewest that race, reserve and are promoted, and each
  can be late for the other's job. A third would replace a reservation
  (listed under hazards). That none which has the slot to itself is lost by it is part of
  `PromiseSpec`, which is proved for any number. Nothing else is bounded.
- *Open mode.* One job and one chain are what one camera has at a time, unless it is reset while
  one is under way; then the second waits for the bound. A loss event waits
  while the streams change, which is what one place in the queue shows; for more
  places, jobs and calls there are the proofs of the safety properties. The limits of the code are
  20 rounds without video (here 1), 100 of a set-up (0 for safety, 1 for liveness), 30 after a refused login and
  10 after a close (0: these two only delay). With a limit of 0 recovery would reset every set-up, and
  without a round to spare none would end in time, so 1 and 1 are the least that can come back; the
  proofs are for every limit. `openmode` has one call of the user, which meets everything the other
  threads do; `openmode_back` has none, so that its behaviours fit: what it adds is what the
  threads owe each other. `Followed` is empty: a behaviour is explored up to its first
  named race, because what follows has no property to satisfy; `openmode_lost` follows `recount`.

Deadlock is not checked: each system may really stop (no more fires, after a reset,
a unit that cannot boot; the set-up manager never does).

### Fairness

`notify` assumes weak fairness of the notify thread and of `NotifyInit`, which the
start-up calls unconditionally. The thread sleeps on a condition variable
signalled by every fire and its callbacks return; it is weak because the
thread never waits for a lock that clients hold for ever. `watchdog` assumes weak
fairness of the watchdog thread only, which has the highest real-time priority and
waits for nothing but its mutex, held for a few instructions. No client is fair:
members may be silent, disk operations may hang. `setup_job` assumes weak fairness of the
manager thread, whose loop takes no lock that is held for long and whose
connections time out, and strong fairness of `TimeUp`: while a job is pending the
clock goes on. Callers and cameras are not fair.

`openmode_back` assumes weak fairness of every thread of the service and of the library, and of a close
that has begun: they sleep for bounded times and wait only for the channel's mutex and the closesync lock,
neither of which is held across a wait for the other thread. Strong fairness is assumed of
three things that others may disable again and again: `JobOpen`, as the mutex is not kept from a job for
ever and a job is not late every time (recovery leaves it twenty rounds);
`ChainInTime`, as a set-up that takes a few seconds is within the hundred rounds at some
time; and `Proceed`, as `nf_openmode_finalize_installation` polls every 0.1 s for a thread that
sleeps 1 s between rounds. `CameraComesBack` has the faults end and the service run in its premise.

## 5. Findings

Each is a run that TLC ends with a counterexample.

1. `NoFreedRead`: readers of the bus copy from a block the notify thread may have freed.
2. `NoDoubleFree`: the "workaround" for payloads over 1 MiB frees the payload twice.
3. `QcDisables`: the QC upgrade passes `NF_WATCHDOG_KILL_SECOND`, an interval
   `nf_watchdog_ctrl` refuses, and reports the watchdog disabled.
4. `AnnouncedIsWritten`: the first upgrade says ping and writes pong, then gives
   ping, which it did not write, the higher number: the next start runs the old firmware.
   `TakesEffect` is therefore stated of upgrades that find both headers programmed.
5. `SuccessMeansAnswered`: with SSL, a digest re-send that fails leaves a slot that
   is picked and has no socket, which the next pass takes for a finished job: the caller
   is told `END_SUCCESS` for a setting the camera refused. A setting made through the ONVIF library
   can end in the same way without SSL, when the manager thread comes between lines 1286 and 1430 of
   `nf_ipcam_setup.c`: `SuccessMeansAnswered` fails with `Ways = {"library"}` too.
6. `RecoveryLosesNoStream`: recovery waits for the mutex while the open job of the same camera
   holds it, then resets the camera because its own count is still high. The
   set-up begins again, its open meets streams that are open (`ERR_OPEN_CH_DUP`), closes all of them,
   and the callback queues no loss event for an open that failed: the picture is gone,
   the loss bit is clear, and recovery never looks at the camera again.
   Looking at the loss bit or at the entry's state after taking the mutex would do.

## 6. Proofs

TLAPS checks, for every value of the constants that satisfies the module's assumption:

| module | theorems | argument |
|---|---|---|
| `NfNotify_proofs` | `TypeCorrect`, `LatchedCorrect`, `ImplementsBus`, `RemovedAtMostOnce`, `DeliveryCorrect`, `OrderCorrect`, `ReaderCorrect` | The queue is the part of `log` that has not been taken, in order. With it, the latch, the calls made and the calls still due during an emission are each determined by how far the thread has come. `ReaderInv`: what a reader last copied is no newer than what it points to, and that no newer than what the property has now. |
| `NfWatchdog_proofs` | `TypeCorrect`, `DiskResetCorrect`, `DiskAlarmCorrect`, `PromptCorrect` | `GuardInv`: the disk counter is enabled only while an operation is in progress. `AlarmInv`: an enabled disk counter is at most at the alarm's threshold unless the alarm was raised since it was last zeroed; this must say what the thread has read (`seenCur`) relative to what is now there, in every place of the thread. `ResetIsPrompt` is inductive with the types. |
| `NfFirmware_proofs` | `TypeCorrect`, `NoTieCorrect`, `TakesEffectCorrect`, `FaultsSurvivedCorrect`, `NeverOlderCorrect`, `ImplementsUnit` | `FlashInv`: where the upgrade is determines which header is erased, how the two numbers compare and which images of the target are new. `FaultInv` adds that until a fault the bank that would boot is complete at each step, that one fault leaves a bank that is, and that an unnoticed failed read is itself a fault. `AgeInv`: the bank an upgrade does not write to is no older than what runs, or else, after the one fault, the upgrade will boot what it writes; `FileInv`: the flash holds no file there has not been. `ImplementsUnit` takes the steps one by one on all of these. |
| `NfSetupJob_proofs` | `TypeCorrect`, `ToldOnceCorrect`, `SuccessCorrect`, `KeptCorrect` | `HeldInv`: a request is in none of the slot's two callback fields before it registers, in at most one afterwards, and in none with a result already told but for the moment between the callback's return and the slot's reuse. Steps are sorted by whether they keep both fields (`Keeps`). `SoloInv`: until it is told, the slot's socket, the text sent last and the answer are those of the one undisturbed request. `KeptInv`: until then the slot has its callback and a state the manager will come to. |
| `NfSetupJobPromise_proofs` | `ImplementsPromise` | Each step leaves the outcomes of the requests it is not about as they were (`SameOutcome`), or loses one that shared the slot (`LeftOutcome`). `AskedInv`, with the three invariants above: nothing in the slot names a request that has not registered. |
| `OpenmodeLive_proofs` | `TypeCorrect`, `SilentLossCorrect`, `NoJobOpensCorrect` | `JobHeld`: a job that opens is one of the counted ones. `CloserInv`: who has the closesync lock is closing the channel. `MutexInv`: what the threads in the channel's mutex may assume of the entry, and where the user is when it is gone. `HonestInv`: until a race is named, a camera whose loss is not known has been opened and left at `OK`, nobody sets it up or closes it, and its streams are there or about to be closed by a thread that tells. |

`TypeOK /\ LatchedIsLastApplied` and the other properties are not inductive alone: the
latch says nothing of the item being stored, a raised alarm nothing of the
counter, a bootable unit nothing of the numbers the upgrade has read before the fault.

Assumptions: `NfNotifyAssumption` (handlers have a property, `NoHandler` is none of
them, fires are bounded by a number), `NfWatchdogAssumption` (the disk is not a member that upgrades
disable; `PreAlarm` is less than the disk's intervals, all less than `KillSecond`),
`NfFirmwareAssumption` (at least one image; the numbers do not reach `Blank`),
`NfSetupJobAssumption` (neither `None` nor the manager is a request; the ways are those named), `OpenmodeLiveAssumption`
(limits and bounds are numbers, the queue has a place).
TLC evaluates all five on its instances.

Only model-checked: the liveness properties `EveryFireDispatched`, `AlarmCleared`,
`SilenceLeadsToReset`, `UndisturbedIsTold` and `CameraComesBack`: the prover does not do fairness. Every
invariant, action property and refinement that a passing run checks is proved.

## 7. What is not modelled

- Of the set-up jobs: the kinds of job with a path of their own (PTZ moves and stops,
  event polling), the SSL library's states, which only delay an answer, the
  waits between retries, and builds that run without open mode, where
  `cam_setup_restart` clears all slots.
- Of the open-mode service: the search for cameras on the network, previews, virtual cameras,
  the ONVIF variant of the build (a build that succeeds or fails), the camera's
  firmware upgrade, which closes its channel by the same callback, `nf_openmode_apply`
  and `_cancel`, which change the list of an installation only, and several channels at once. Calls of the
  installation while the service is stopped are left out: the screens that make them need it running.
  Lines 634 and 635 are one step, and so are the channels' lines 650 to 653. The camera's set-up writes its
  table under the mutex alone; a close that clears it at the same moment is before or after it. An entry
  cleared under the recovery makes it store to `runtime[-1]`, which no camera reads.
  UNLINKED, LINKED and USING of `runtime[ch].state` are one value, because no line modelled tells them
  apart. `_live_mtx` is a lock, the other mutexes guard single assignments here.
- Of the RTSP library: channels of the model `MODEL_ONTHEFLY_CHEAT`, which are closed without a callback, the protocol, frames, and the audio and metadata streams beyond whether
  their opening was refused.
- The single-bank upgrade and the sessions (see section 2).
- Of the other modelled components: the contents of payloads and of images, log
  output, the LED and buzzer steps of the upgrade, the progress reports, and
  the update of the boot arguments (only its failure counts).
- External: GSignal's emission is modelled from how `nf_notify.c` relies on it, the boot
  loader from what `nf_util_fw.c` takes its choice to be, a camera and its network as faults
  of `OpenmodeLive`.
- Reads of `nf_watchdog`'s unlocked counters return values that were stored at
  some time; tearing of aligned 32-bit words does not occur on the target.
- The components of section 1 that section 2 does not reach: they wrap GLib or a
  driver, format requests or draw screens.
