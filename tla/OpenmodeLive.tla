----------------------------- MODULE OpenmodeLive -----------------------------
(***************************************************************************)
(* The life of one camera in open mode (service/nf_api_openmode.c): how it *)
(* is found, set up, opened and, once its video is lost, brought back.     *)
(*                                                                         *)
(*   Live  the thread _openmode_th_live_detail of the channel              *)
(*   Pool  the worker that has the channel's mutex for an open job         *)
(*   Sess  _session_manager_func of the RTSP library under mrtp/           *)
(*   User  the thread that starts and stops the service and the            *)
(*         installation of cameras                                         *)
(*                                                                         *)
(* Recovery looks at one thing: the channel's bit in vloss_status, which   *)
(* the callback of the RTSP library sets and clears through a queue.  The  *)
(* set-up of a camera is a chain of the jobs of NfSetupJob; here it is a   *)
(* chain that ends well, badly or not at all.                              *)
(*                                                                         *)
(* The counters' limits (100, 20, 30 and 10 in the code) are constants;    *)
(* MaxQueue, MaxJobs, MaxChains, MaxCalls and Followed bound the model.    *)
(***************************************************************************)
EXTENDS Naturals, Sequences

CONSTANTS HangLimit,      \* rounds a set-up may take
          AbnormalLimit,  \* rounds without video before recovery
          LoginLimit,     \* rounds after a refused login
          StayLimit,      \* rounds a closed camera is left alone
          MaxQueue,       \* bound: events in vloss_queue
          MaxJobs,        \* bound: open jobs of the channel
          MaxChains,      \* bound: set-up chains under way
          MaxCalls,       \* bound: calls of the User
          Followed        \* bound: the causes whose aftermath is explored

(* What may make the loss bit say nothing of the stream, or leave a camera *)
(* behind: recovery of a camera that is no longer lost; a result read from *)
(* another channel's rtspc_errno; a stream closed before it is reported,   *)
(* reported after the service was stopped or while the channel is closed,  *)
(* or set to STATE_INITIAL by the session manager; a list of cameras made  *)
(* anew under a stream; a request to report closed streams overwritten by  *)
(* the job that opened them; a mutex that the live thread does not unlock  *)
(* because its entry was cleared.                                          *)
Causes == {"recount", "errno", "unreported", "stopped", "reset", "relisted",
           "overwritten", "crossed", "abandoned"}

ASSUME OpenmodeLiveAssumption ==
  /\ HangLimit \in Nat /\ AbnormalLimit \in Nat
  /\ LoginLimit \in Nat /\ StayLimit \in Nat
  /\ MaxQueue \in Nat \ {0} /\ MaxJobs \in Nat /\ MaxChains \in Nat /\ MaxCalls \in Nat
  /\ Followed \subseteq Causes

VARIABLES
  om,         \* openmode_state is OPENMODE_STATE_RUNNING, not INIT
  disc,       \* _discovery_running
  live,       \* _live_running
  entry,      \* state of the channel's entry in _openmode_live_list
  rt,         \* runtime[ch].state
  table,      \* the rest of runtime[ch] describes the camera
  hang,       \* _setup_hang_cnt[ch]
  abnormal,   \* _abnormal_cnt[ch]
  loginWait,  \* _login_wait_cnt[ch], which from its limit on is not told apart
  stay,       \* _init_stay[ch]
  lost,       \* the channel's bit in vloss_status
  queue,      \* vloss_queue
  stream,     \* the channel's RTSP streams
  request,    \* what the state of the library's channel asks of the session manager
  closer,     \* the thread that closes the channel, under the closesync lock
  wiped,      \* it has cleared runtime[ch]
  mtxLeft,    \* _live_mtx[ch] was left locked
  jobs,       \* open jobs in openmode_work_pool
  chains,     \* set-up chains under way
  pc,         \* where each thread is
  calls,      \* calls the User has made
  cause       \* history: what first made the loss bit say nothing of the stream

service == <<om, disc, live, calls>>
camera  == <<entry, rt, table, hang, abnormal, loginWait, stay>>
counts  == <<hang, abnormal, loginWait, stay>>
loss    == <<lost, queue>>
rtsp    == <<stream, request>>
sync    == <<closer, wiped, mtxLeft>>
work    == <<jobs, chains>>
vars == <<service, camera, loss, rtsp, sync, work, pc, cause>>

Entries == {"gone", "INIT", "DISCOVERED", "DEV_INFO", "STREAM_OPEN_REQ", "OK",
            "STREAM_FAIL", "CONN_FAIL", "LOGIN_FAIL"}

(* What the service tells apart in runtime[ch].state: CONFIGURING,         *)
(* CONFIG_FAIL and READY of open mode, and the states without any of them  *)
(* (UNLINKED, LINKED, USING).                                              *)
Runtimes == {"OTHER", "CONFIGURING", "CONFIG_FAIL", "READY"}

LivePlaces == {"sleep", "checked", "final", "passed", "setup", "locking", "building",
               "probing", "recover", "recount", "relogin"}
PoolPlaces == {"idle", "late", "opening", "audio", "succeeded", "announced", "used",
               "reported"}
SessPlaces == {"idle", "pausing", "resuming", "rebooting", "closed"}
UserPlaces == {"idle", "seen", "init", "stopping", "closed", "unlinked", "clearing",
               "shutting", "closing", "initial", "waiting", "relisting", "listing",
               "reconnecting", "reconnected"}

(* The threads that close the channel, where they wait for the closesync   *)
(* lock or have it, and where the User is with REMOVE_ALL still to push.   *)
Closers == {"Pool", "Sess", "User"}
Closing == {"late", "rebooting", "stopping", "shutting", "reconnecting"}
Telling == {"init", "stopping", "closed", "unlinked", "shutting", "closing", "initial"}

TypeOK ==
  /\ om \in BOOLEAN /\ live \in BOOLEAN
  /\ disc \in {"NONE", "START", "STOPPED", "FINAL"}
  /\ entry \in Entries /\ rt \in Runtimes /\ table \in BOOLEAN
  /\ hang \in 0..HangLimit /\ abnormal \in 0..(AbnormalLimit + 1)
  /\ loginWait \in 0..LoginLimit /\ stay \in 0..StayLimit
  /\ lost \in BOOLEAN /\ queue \in Seq({"ADD", "REMOVE"}) /\ Len(queue) <= MaxQueue
  /\ stream \in {"closed", "open", "dead", "paused"}
  /\ request \in {"none", "RECONN", "REBOOT"}
  /\ closer \in Closers \cup {"none"}
  /\ wiped \in BOOLEAN /\ mtxLeft \in BOOLEAN
  /\ jobs \in 0..MaxJobs /\ chains \in 0..MaxChains /\ calls \in 0..MaxCalls
  /\ pc \in [Live : LivePlaces, Pool : PoolPlaces, Sess : SessPlaces, User : UserPlaces]
  /\ cause \in Causes \cup {"none"}

(* After nf_openmode_init, which marks every channel as lost; perhaps      *)
(* after nf_openmode_start, and the start of an installation.              *)
Init ==
  /\ om \in BOOLEAN /\ disc \in (IF om THEN {"NONE", "START"} ELSE {"NONE"})
  /\ live = FALSE /\ calls = 0
  /\ entry = (IF om THEN "INIT" ELSE "gone") /\ rt = "OTHER" /\ table = FALSE
  /\ hang = 0 /\ abnormal = 0 /\ loginWait = 0 /\ stay = 0
  /\ lost = FALSE /\ queue = <<"REMOVE">>
  /\ stream = "closed" /\ request = "none"
  /\ closer = "none" /\ wiped = FALSE /\ mtxLeft = FALSE
  /\ jobs = 0 /\ chains = 0
  /\ pc = [Live |-> "sleep", Pool |-> "idle", Sess |-> "idle", User |-> "idle"]
  /\ cause = "none"

Go(t, place) == pc' = [pc EXCEPT ![t] = place]

(* The channel's bit in _running_live_detail.                              *)
Running == pc.Live \notin {"sleep", "checked"}

(* _live_mtx[ch].                                                          *)
MtxFree ==
  /\ ~mtxLeft /\ pc.Live # "building" /\ pc.Pool = "idle"
  /\ pc.User \notin {"reconnecting", "reconnected"}

Push(event) == Len(queue) < MaxQueue /\ queue' = Append(queue, event)

(* What the loss bit will be once the queue is empty.                      *)
WillBeLost == IF queue = <<>> THEN lost ELSE queue[Len(queue)] = "REMOVE"

(* The loss is told, or the User is about to tell it.                      *)
Known == WillBeLost \/ pc.User \in Telling

(* A thread waits for the closesync lock to close the channel.             *)
Waiting == \E t \in Closers : pc[t] \in Closing /\ closer # t

(* The entry, unless its list has been cleared.                            *)
SetEntry(st) == entry' = IF entry = "gone" THEN "gone" ELSE st

Blame(condition, what) == cause' = IF condition /\ cause = "none" THEN what ELSE cause

-----------------------------------------------------------------------------
(* vloss_status and the streams.                                           *)
HandleLoss ==
  /\ queue # <<>>
  /\ lost' = (Head(queue) = "REMOVE")
  /\ queue' = Tail(queue)
  /\ UNCHANGED <<service, camera, rtsp, sync, work, pc, cause>>

(* Fault: the streams stop.                                                *)
StreamDies ==
  /\ stream = "open"
  /\ stream' = "dead"
  /\ UNCHANGED <<service, camera, loss, request, sync, work, pc, cause>>

(* The receiver and the frame audit see it; they ask again when the        *)
(* session manager overwrites the request.                                 *)
DeathSeen ==
  /\ stream = "dead" /\ request = "none"
  /\ request' \in {"RECONN", "REBOOT"}
  /\ UNCHANGED <<service, camera, loss, stream, sync, work, pc, cause>>

-----------------------------------------------------------------------------
(* Mutant: the callback does not tell the loss.                            *)
CloseBeginsUntold(t) ==
  /\ closer = "none" /\ pc[t] \in Closing
  /\ stream' = "closed" /\ request' = "none"
  /\ closer' = t
  /\ UNCHANGED <<service, camera, loss, wiped, mtxLeft, work, pc, cause>>

(* gst_mrtp_src_close_ch and gst_mrtp_src_close_all, under closesync: the  *)
(* streams are closed and the callback, op 1 of _cmd_callback_func, tells  *)
(* the loss, ...                                                           *)
CloseBegins(t) ==
  /\ closer = "none" /\ pc[t] \in Closing
  /\ stream' = "closed" /\ request' = "none"
  /\ Push("REMOVE")
  /\ closer' = t
  /\ UNCHANGED <<service, camera, lost, wiped, mtxLeft, work, pc, cause>>

(* ... then clears the runtime of the channel, ...                         *)
CloseWipes ==
  /\ closer # "none" /\ ~wiped
  /\ rt' = "OTHER" /\ table' = FALSE
  /\ wiped' = TRUE
  /\ UNCHANGED <<service, entry, counts, loss, rtsp, closer, mtxLeft, work, pc, cause>>

(* ... and last sets the entry of the channel.                             *)
CloseEnds(t, place) ==
  /\ closer = t /\ wiped
  /\ SetEntry("INIT")
  /\ closer' = "none" /\ wiped' = FALSE
  /\ Go(t, place)
  /\ UNCHANGED <<service, rt, table, counts, loss, rtsp, mtxLeft, chains, cause>>

Close == (\E t \in Closers : CloseBegins(t)) \/ CloseWipes

-----------------------------------------------------------------------------
(* _session_manager_func.                                                  *)
SessReconn ==
  /\ pc.Sess = "idle" /\ request = "RECONN"
  /\ Go("Sess", "pausing")
  /\ UNCHANGED <<service, camera, loss, rtsp, sync, work, cause>>

(* Once it has the lock it pauses the streams, whoever has closed them.    *)
SessPause ==
  /\ pc.Sess = "pausing" /\ closer = "none"
  /\ stream' = "paused"
  /\ Go("Sess", "resuming")
  /\ UNCHANGED <<service, camera, loss, request, sync, work, cause>>

SessResumed ==
  /\ pc.Sess = "resuming" /\ stream = "paused"
  /\ stream' = "open" /\ request' = "none"
  /\ Go("Sess", "idle")
  /\ UNCHANGED <<service, camera, loss, sync, work, cause>>

(* They are not paused any more, or the camera does not play: under the    *)
(* lock they are closed.                                                   *)
SessResumeFails ==
  /\ pc.Sess = "resuming" /\ closer = "none"
  /\ stream' = "closed" /\ request' = "REBOOT"
  /\ Go("Sess", "idle")
  /\ UNCHANGED <<service, camera, loss, sync, work, cause>>

(* Fault: the latter.                                                      *)
SessNotResumed == stream = "paused" /\ SessResumeFails

(* The callback with ERR_TRDN_INTERNAL, which closes the channel ...       *)
SessReboot ==
  /\ pc.Sess = "idle" /\ request = "REBOOT"
  /\ Go("Sess", "rebooting")
  /\ UNCHANGED <<service, camera, loss, rtsp, sync, work, cause>>

SessClosed == CloseEnds("Sess", "closed") /\ UNCHANGED jobs

(* ... and leaves the camera some time; then the streams are set to        *)
(* STATE_INITIAL.                                                          *)
SessReset ==
  /\ pc.Sess = "closed"
  /\ stay' = StayLimit
  /\ stream' = "closed" /\ request' = "none"
  /\ Blame(~Known /\ ~Waiting, "reset")
  /\ Go("Sess", "idle")
  /\ UNCHANGED <<service, entry, rt, table, hang, abnormal, loginWait, loss,
                 sync, work>>

Session ==
  \/ SessReconn \/ SessPause \/ SessResumed \/ SessResumeFails
  \/ SessReboot \/ SessClosed \/ SessReset

-----------------------------------------------------------------------------
(* The set-up chain of a camera, and the callback at its end.              *)
Ends(result) ==
  /\ chains > 0
  /\ chains' = chains - 1
  /\ rt' = result
  /\ UNCHANGED <<service, entry, table, counts, loss, rtsp, sync, jobs, pc,
                 cause>>

ChainSucceeds ==
  Ends(IF ~om \/ disc \in {"START", "STOPPED"} THEN "CONFIG_FAIL" ELSE "READY")

(* While the camera waits for it.                                          *)
ChainInTime == entry = "DEV_INFO" /\ rt = "CONFIGURING" /\ ChainSucceeds

(* Faults: a job fails; its slot was given to another request.             *)
ChainFails == Ends("CONFIG_FAIL")
ChainIsLost == Ends(rt)

-----------------------------------------------------------------------------
(* _openmode_start_stream_thread_func.                                     *)
JobReady == pc.Pool = "idle" /\ jobs > 0 /\ MtxFree

(* Mutant: the entry's channel is not compared.                            *)
JobIgnoresChannel ==
  /\ JobReady /\ entry = "gone"
  /\ Go("Pool", "opening")
  /\ UNCHANGED <<service, camera, loss, rtsp, sync, work, cause>>

(* The list was cleared: the entry has another channel.                    *)
JobVoid ==
  /\ JobReady /\ entry = "gone"
  /\ jobs' = jobs - 1
  /\ UNCHANGED <<service, camera, loss, rtsp, sync, chains, pc, cause>>

(* The entry has moved on: the streams are closed.                         *)
JobLate ==
  /\ JobReady /\ entry \notin {"gone", "STREAM_OPEN_REQ"}
  /\ entry' = "DISCOVERED"
  /\ Go("Pool", "late")
  /\ UNCHANGED <<service, rt, table, counts, loss, rtsp, sync, work, cause>>

JobClosed == CloseEnds("Pool", "idle") /\ jobs' = jobs - 1

JobOpen ==
  /\ JobReady /\ entry = "STREAM_OPEN_REQ"
  /\ Go("Pool", IF table THEN "opening" ELSE "reported")
  /\ UNCHANGED <<service, camera, loss, rtsp, sync, work, cause>>

(* gst_mrtp_src_open_ch: the video streams.                                *)
Openable == stream \in {"closed", "paused"}

OpenVideo ==
  /\ pc.Pool = "opening" /\ Openable
  /\ stream' = "open"
  /\ Go("Pool", "audio")
  /\ UNCHANGED <<service, camera, loss, request, sync, work, cause>>

(* A stream that cannot be opened, or is open already: all are closed, and *)
(* the callback, op 0 of _cmd_callback_func with an error, changes nothing.*)
OpenFails ==
  /\ pc.Pool = "opening"
  /\ stream' = "closed"
  /\ Go("Pool", "reported")
  /\ UNCHANGED <<service, camera, loss, request, sync, work, cause>>

(* Fault: the camera refuses.                                              *)
OpenRefused == Openable /\ OpenFails

(* Fault: the result is read from rtspc_errno, which another channel has   *)
(* written.                                                                *)
OpenMisread ==
  /\ pc.Pool = "opening"
  /\ \/ stream' = "closed" /\ Go("Pool", "succeeded") /\ Blame(TRUE, "errno")
     \/ Openable /\ stream' = "open" /\ Go("Pool", "reported") /\ UNCHANGED cause
  /\ UNCHANGED <<service, camera, loss, request, sync, work>>

(* Audio and metadata: a camera without audio is opened all the same.      *)
OpenRest ==
  /\ pc.Pool = "audio"
  /\ Go("Pool", "succeeded")
  /\ UNCHANGED <<service, camera, loss, rtsp, sync, work, cause>>

(* Fault: they are refused, and all is closed.                             *)
OpenRestRefused ==
  /\ pc.Pool = "audio"
  /\ stream' = "closed"
  /\ Go("Pool", "reported")
  /\ UNCHANGED <<service, camera, loss, request, sync, work, cause>>

(* Op 0 without an error: ADD is pushed, ...                               *)
ReportOpened ==
  /\ pc.Pool = "succeeded"
  /\ Push("ADD")
  /\ cause' = IF cause # "none" \/ pc.User \in Telling THEN cause
              ELSE IF ~om THEN "stopped"
              ELSE IF closer # "none" THEN "crossed"
              ELSE IF stream = "closed" /\ request # "REBOOT" /\ ~Waiting
                THEN "unreported" ELSE "none"
  /\ Go("Pool", "announced")
  /\ UNCHANGED <<service, camera, lost, rtsp, sync, work>>

(* ... then the runtime is USING and no longer READY, ...                  *)
ReportUsing ==
  /\ pc.Pool = "announced"
  /\ rt' = "OTHER"
  /\ Go("Pool", "used")
  /\ UNCHANGED <<service, entry, table, counts, loss, rtsp, sync, work, cause>>

(* ... and after the callback the library sets STATE_STREAM_READY, over    *)
(* whatever was asked of the session manager.                              *)
StreamReady ==
  /\ pc.Pool = "used"
  /\ request' = "none"
  /\ Blame(stream = "closed" /\ ~Known /\ ~Waiting, "overwritten")
  /\ Go("Pool", "reported")
  /\ UNCHANGED <<service, camera, loss, stream, sync, work>>

JobDone ==
  /\ pc.Pool = "reported"
  /\ SetEntry("OK")
  /\ jobs' = jobs - 1
  /\ Go("Pool", "idle")
  /\ UNCHANGED <<service, rt, table, counts, loss, rtsp, sync, chains, cause>>

Job ==
  \/ JobVoid \/ JobLate \/ JobClosed \/ JobOpen \/ OpenVideo \/ OpenFails
  \/ OpenMisread \/ OpenRest \/ OpenRestRefused \/ ReportOpened \/ ReportUsing
  \/ StreamReady \/ JobDone

-----------------------------------------------------------------------------
(* _openmode_th_live_detail.                                               *)
Wake ==
  /\ pc.Live = "sleep" /\ om /\ disc \in {"NONE", "FINAL"}
  /\ Go("Live", "checked")
  /\ UNCHANGED <<service, camera, loss, rtsp, sync, work, cause>>

(* The rest of a round, once the entry is as it stays: a camera that is    *)
(* discovered is probed.                                                   *)
SetUp(st) == Go("Live", IF st = "DISCOVERED" THEN "probing" ELSE "recover")

(* The channel's bit is set; _openmode_live_setup looks at the states, ... *)
CheckState ==
  /\ pc.Live = "checked"
  /\ Go("Live", IF ~om THEN "recover" ELSE IF disc = "FINAL" THEN "final" ELSE "passed")
  /\ UNCHANGED <<service, camera, loss, rtsp, sync, work, cause>>

(* (three seconds after it saw FINAL it sets NONE, whatever disc is) ...   *)
EndInstallation ==
  /\ pc.Live = "final"
  /\ disc' = "NONE"
  /\ Go("Live", "passed")
  /\ UNCHANGED <<om, live, calls, camera, loss, rtsp, sync, work, cause>>

(* ... sets _live_running, whether the service was stopped meanwhile, ...  *)
MarkRunning ==
  /\ pc.Live = "passed"
  /\ live' = TRUE
  /\ Go("Live", "setup")
  /\ UNCHANGED <<om, disc, calls, camera, loss, rtsp, sync, work, cause>>

SkipSetup ==
  /\ pc.Live = "setup" /\ (~om \/ ~live \/ entry = "gone")
  /\ SetUp(entry)
  /\ UNCHANGED <<service, camera, loss, rtsp, sync, work, cause>>

(* ... and looks once more before it waits for the mutex.                  *)
FindEntry ==
  /\ pc.Live = "setup" /\ om /\ live /\ entry # "gone"
  /\ Go("Live", "locking")
  /\ UNCHANGED <<service, camera, loss, rtsp, sync, work, cause>>

(* The cases of the switch over the entry's state, under the mutex.        *)
At(states) == pc.Live = "locking" /\ MtxFree /\ entry \in states

(* The entry was cleared: it reads as INIT without an address, and the     *)
(* mutex unlocked is that of its channel, -1, whichever was locked.        *)
CaseCleared ==
  /\ At({"gone"})
  /\ rt' = "OTHER"
  /\ stay' = IF stay > 0 THEN stay - 1 ELSE 0
  /\ mtxLeft' \in BOOLEAN
  /\ Blame(mtxLeft', "abandoned")
  /\ Go("Live", "recover")
  /\ UNCHANGED <<service, entry, table, hang, abnormal, loginWait, loss, rtsp, closer,
                 wiped, work>>

CaseInit ==
  /\ At({"INIT"})
  /\ rt' = "OTHER"
  /\ IF stay > 0 THEN stay' = stay - 1 /\ UNCHANGED entry
                 ELSE entry' = "DISCOVERED" /\ UNCHANGED stay
  /\ SetUp(entry')
  /\ UNCHANGED <<service, table, hang, abnormal, loginWait, loss, rtsp, sync,
                 work, cause>>

CaseBuild ==
  /\ At({"DEV_INFO"}) /\ rt = "OTHER"
  /\ Go("Live", "building")
  /\ UNCHANGED <<service, camera, loss, rtsp, sync, work, cause>>

(* Fault: build_management_table_openmode or its ONVIF counterpart fails.  *)
BuildFails ==
  /\ pc.Live = "building"
  /\ entry' \in {"CONN_FAIL", "LOGIN_FAIL"}
  /\ SetUp(entry')
  /\ UNCHANGED <<service, rt, table, counts, loss, rtsp, sync, work, cause>>

(* nf_openmode_cam_prepare, up to the start of the set-up chain.           *)
Build ==
  /\ pc.Live = "building" /\ chains < MaxChains
  /\ table' = TRUE
  /\ rt' = "CONFIGURING"
  /\ chains' = chains + 1
  /\ hang' = 0
  /\ SetUp(entry)
  /\ UNCHANGED <<service, entry, abnormal, loginWait, stay, loss, rtsp, sync, jobs,
                 cause>>

CaseReady ==
  /\ At({"DEV_INFO"}) /\ rt = "READY" /\ jobs < MaxJobs
  /\ entry' = "STREAM_OPEN_REQ"
  /\ jobs' = jobs + 1
  /\ hang' = 0
  /\ SetUp(entry')
  /\ UNCHANGED <<service, rt, table, abnormal, loginWait, stay, loss, rtsp, sync,
                 chains, cause>>

CaseConfigFail ==
  /\ At({"DEV_INFO"}) /\ rt = "CONFIG_FAIL"
  /\ entry' = "STREAM_FAIL"
  /\ hang' = 0
  /\ SetUp(entry')
  /\ UNCHANGED <<service, rt, table, abnormal, loginWait, stay, loss, rtsp, sync, work,
                 cause>>

(* Mutant: one round too many.                                             *)
CaseConfiguringLonger ==
  /\ At({"DEV_INFO"}) /\ rt = "CONFIGURING"
  /\ IF hang <= HangLimit
       THEN hang' = hang + 1 /\ UNCHANGED <<entry, rt>>
       ELSE hang' = 0 /\ entry' = "CONN_FAIL" /\ rt' = "CONFIG_FAIL"
  /\ SetUp(entry')
  /\ UNCHANGED <<service, table, abnormal, loginWait, stay, loss, rtsp, sync,
                 work, cause>>

(* Mutant: the rounds of a set-up are not counted.                         *)
CaseConfiguringForEver ==
  /\ At({"DEV_INFO"}) /\ rt = "CONFIGURING"
  /\ SetUp(entry)
  /\ UNCHANGED <<service, camera, loss, rtsp, sync, work, cause>>

CaseConfiguring ==
  /\ At({"DEV_INFO"}) /\ rt = "CONFIGURING"
  /\ IF hang < HangLimit
       THEN hang' = hang + 1 /\ UNCHANGED <<entry, rt>>
       ELSE hang' = 0 /\ entry' = "CONN_FAIL" /\ rt' = "CONFIG_FAIL"
  /\ SetUp(entry')
  /\ UNCHANGED <<service, table, abnormal, loginWait, stay, loss, rtsp, sync,
                 work, cause>>

CaseOther ==
  /\ At(Entries \ {"gone", "INIT", "DEV_INFO"})
  /\ SetUp(entry)
  /\ UNCHANGED <<service, camera, loss, rtsp, sync, work, cause>>

(* _list_search_model_detail_live, which does not take the mutex. It does  *)
(* nothing while the end of an installation waits (_live_stop_requested).  *)
SkipProbe ==
  /\ pc.Live = "probing" /\ (pc.User = "waiting" \/ entry # "DISCOVERED")
  /\ Go("Live", "recover")
  /\ UNCHANGED <<service, camera, loss, rtsp, sync, work, cause>>

Probe(answers) ==
  /\ pc.Live = "probing"
  /\ \E st \in answers : SetEntry(st)
  /\ Go("Live", "recover")
  /\ UNCHANGED <<service, rt, table, counts, loss, rtsp, sync, work, cause>>

Probed == Probe({"DEV_INFO"})

(* Fault: the camera does not answer, or refuses the login.                *)
ProbeFails == Probe({"CONN_FAIL", "LOGIN_FAIL"})

-----------------------------------------------------------------------------
(* _openmode_recovery.                                                     *)
Recovering == pc.Live = "recover" /\ om /\ disc = "NONE" /\ entry # "gone"

SkipRecovery ==
  /\ pc.Live = "recover" /\ (~om \/ disc # "NONE" \/ entry = "gone")
  /\ Go("Live", "sleep")
  /\ UNCHANGED <<service, camera, loss, rtsp, sync, work, cause>>

(* The count is compared before the mutex is taken.                        *)
Overdue ==
  /\ Recovering /\ abnormal > AbnormalLimit
  /\ Go("Live", "recount")
  /\ UNCHANGED <<service, camera, loss, rtsp, sync, work, cause>>

(* Only the count is compared again, and only this thread changes it.      *)
Recover ==
  /\ pc.Live = "recount" /\ MtxFree
  /\ SetEntry("DISCOVERED")
  /\ rt' = IF entry = "gone" THEN rt ELSE "OTHER"
  /\ mtxLeft' \in {FALSE, entry = "gone"}
  /\ abnormal' = 0
  /\ cause' = IF cause # "none" THEN cause
              ELSE IF mtxLeft' THEN "abandoned"
              ELSE IF Known \/ entry = "gone" THEN "none" ELSE "recount"
  /\ Go("Live", "sleep")
  /\ UNCHANGED <<service, table, hang, loginWait, stay, loss, rtsp, closer,
                 wiped, work>>

CountLogin ==
  /\ Recovering /\ abnormal <= AbnormalLimit /\ entry = "LOGIN_FAIL"
  /\ loginWait' = IF loginWait < LoginLimit THEN loginWait + 1 ELSE loginWait
  /\ Go("Live", IF loginWait < LoginLimit THEN "sleep" ELSE "relogin")
  /\ UNCHANGED <<service, entry, rt, table, hang, abnormal, stay, loss, rtsp, sync,
                 work, cause>>

(* Under the mutex the entry is looked at again.                           *)
LogInAgain ==
  /\ pc.Live = "relogin" /\ MtxFree
  /\ IF entry = "LOGIN_FAIL"
       THEN loginWait' = 0 /\ rt' = "OTHER" /\ entry' = "DISCOVERED"
       ELSE UNCHANGED <<loginWait, rt, entry>>
  /\ mtxLeft' \in {FALSE, entry = "gone"}
  /\ Blame(mtxLeft', "abandoned")
  /\ Go("Live", "sleep")
  /\ UNCHANGED <<service, table, hang, abnormal, stay, loss, rtsp, closer, wiped, work>>

Count ==
  /\ Recovering /\ abnormal <= AbnormalLimit /\ entry # "LOGIN_FAIL"
  /\ loginWait' = 0
  /\ abnormal' = IF lost /\ rt # "CONFIGURING" THEN abnormal + 1 ELSE 0
  /\ Go("Live", "sleep")
  /\ UNCHANGED <<service, entry, rt, table, hang, stay, loss, rtsp, sync, work, cause>>

Round ==
  \/ Wake \/ CheckState \/ EndInstallation \/ MarkRunning \/ SkipSetup \/ FindEntry
  \/ CaseCleared \/ CaseInit \/ CaseBuild \/ BuildFails \/ Build \/ CaseReady
  \/ CaseConfigFail \/ CaseConfiguring \/ CaseOther \/ SkipProbe \/ Probed \/ ProbeFails
  \/ SkipRecovery \/ Overdue \/ Recover \/ CountLogin \/ LogInAgain \/ Count

-----------------------------------------------------------------------------
(* The User's calls, one after another.                                    *)
Call == pc.User = "idle" /\ calls < MaxCalls /\ calls' = calls + 1

(* nf_openmode_start, as often as it was stopped.                          *)
Start ==
  /\ pc.User = "idle" /\ ~om
  /\ om' = TRUE
  /\ rt' = "OTHER" /\ hang' = 0
  /\ entry' = IF entry = "gone" THEN "INIT" ELSE entry
  /\ UNCHANGED <<disc, live, calls, table, abnormal, loginWait, stay, loss, rtsp, sync,
                 work, pc, cause>>

(* nf_openmode_stop sees that no live thread is running, ...               *)
Stop ==
  /\ Call /\ om /\ ~Running
  /\ Go("User", "seen")
  /\ UNCHANGED <<om, disc, live, camera, loss, rtsp, sync, work, cause>>

(* ... and only then stops them, ...                                       *)
StopSetsInit ==
  /\ pc.User = "seen"
  /\ om' = FALSE
  /\ Go("User", "init")
  /\ UNCHANGED <<disc, live, calls, camera, loss, rtsp, sync, work, cause>>

StopSetsNone ==
  /\ pc.User = "init"
  /\ live' = FALSE /\ disc' = "NONE"
  /\ Go("User", "stopping")
  /\ UNCHANGED <<om, calls, camera, loss, rtsp, sync, work, cause>>

(* ... closes the streams, ...                                             *)
StopClosed ==
  /\ pc.User = "stopping" /\ CloseEnds("User", "closed")
  /\ UNCHANGED jobs

StopUnlinks ==
  /\ pc.User = "closed"
  /\ rt' = "OTHER"
  /\ Go("User", "unlinked")
  /\ UNCHANGED <<service, entry, table, counts, loss, rtsp, sync, work, cause>>

StopMarksLost ==
  /\ pc.User = "unlinked"
  /\ Push("REMOVE")
  /\ Go("User", "clearing")
  /\ UNCHANGED <<service, camera, lost, rtsp, sync, work, cause>>

StopClears ==
  /\ pc.User = "clearing" /\ MtxFree
  /\ entry' = "gone" /\ stay' = 0
  /\ Go("User", "idle")
  /\ UNCHANGED <<service, rt, table, hang, abnormal, loginWait, loss, rtsp, sync, work,
                 cause>>

(* nf_openmode_init_detection_list.                                        *)
StartInstallation ==
  /\ Call /\ om /\ disc \in {"NONE", "FINAL"}
  /\ disc' = "START"
  /\ UNCHANGED <<om, live, camera, loss, rtsp, sync, work, pc, cause>>

(* nf_openmode_stop_streaming.                                             *)
StopStreaming ==
  /\ Call /\ om /\ live
  /\ live' = FALSE /\ disc' = "STOPPED"
  /\ Go("User", "shutting")
  /\ UNCHANGED <<om, camera, loss, rtsp, sync, work, cause>>

StreamsClosed ==
  /\ pc.User = "shutting" /\ CloseEnds("User", "closing")
  /\ UNCHANGED jobs

EntryInit ==
  /\ pc.User = "closing" /\ MtxFree
  /\ SetEntry("INIT")
  /\ Go("User", "initial")
  /\ UNCHANGED <<service, rt, table, counts, loss, rtsp, sync, work, cause>>

StreamingStopped ==
  /\ pc.User = "initial"
  /\ Push("REMOVE")
  /\ Go("User", "idle")
  /\ UNCHANGED <<service, camera, lost, rtsp, sync, work, cause>>

(* nf_openmode_finalize_installation, which the GUI, the web and another   *)
(* NVR may all call: if the streams were stopped the list is made anew.    *)
FinishInstallation ==
  /\ Call /\ om
  /\ IF live THEN disc' = "FINAL" /\ UNCHANGED pc
             ELSE Go("User", "waiting") /\ UNCHANGED disc
  /\ UNCHANGED <<om, live, camera, loss, rtsp, sync, work, cause>>

FinishWaits ==
  /\ pc.User = "waiting" /\ ~Running
  /\ Go("User", "relisting")
  /\ UNCHANGED <<service, camera, loss, rtsp, sync, work, cause>>

FinishClears ==
  /\ pc.User = "relisting" /\ MtxFree
  /\ entry' = "gone"
  /\ Blame(~Known, "relisted")
  /\ Go("User", "listing")
  /\ UNCHANGED <<service, rt, table, counts, loss, rtsp, sync, work>>

FinishLists ==
  /\ pc.User = "listing"
  /\ entry' = "INIT"
  /\ disc' = "FINAL"
  /\ Go("User", "idle")
  /\ UNCHANGED <<om, live, calls, rt, table, counts, loss, rtsp, sync, work, cause>>

(* nf_openmode_reconnect_ch, after the video codec was changed.            *)
Reconnect ==
  /\ Call /\ entry # "gone" /\ MtxFree
  /\ Go("User", "reconnecting")
  /\ UNCHANGED <<om, disc, live, camera, loss, rtsp, sync, work, cause>>

ReconnectClosed ==
  /\ pc.User = "reconnecting" /\ CloseEnds("User", "reconnected")
  /\ UNCHANGED jobs

Reconnected ==
  /\ pc.User = "reconnected"
  /\ entry' = "DISCOVERED"
  /\ Go("User", "idle")
  /\ UNCHANGED <<service, rt, table, counts, loss, rtsp, sync, work, cause>>

(* nf_openmode_retry_login, with a new password.                           *)
RetryLogin ==
  /\ Call /\ entry = "LOGIN_FAIL" /\ MtxFree
  /\ entry' = "DISCOVERED"
  /\ UNCHANGED <<om, disc, live, rt, table, counts, loss, rtsp, sync, work, pc, cause>>

Begin ==
  \/ Start \/ Stop \/ StartInstallation \/ StopStreaming \/ FinishInstallation
  \/ Reconnect \/ RetryLogin

Proceed ==
  \/ StopSetsInit \/ StopSetsNone \/ StopClosed \/ StopUnlinks \/ StopMarksLost
  \/ StopClears \/ StreamsClosed \/ EntryInit \/ StreamingStopped
  \/ FinishWaits \/ FinishClears \/ FinishLists \/ ReconnectClosed \/ Reconnected

(* What a camera or its network does to the service.                       *)
Fault ==
  \/ StreamDies \/ SessNotResumed \/ ChainFails \/ (rt = "CONFIGURING" /\ ChainIsLost)
  \/ OpenRefused \/ OpenMisread \/ OpenRestRefused \/ BuildFails \/ ProbeFails

Step ==
  \/ HandleLoss \/ StreamDies \/ DeathSeen
  \/ Close \/ Session \/ Job \/ Round \/ Begin \/ Proceed
  \/ ChainSucceeds \/ ChainFails \/ ChainIsLost

(* The bound Followed: a run goes no further than the first other cause.   *)
Explored == cause \in Followed \cup {"none"}

Next == Explored /\ Step

Spec == Init /\ [][Next]_vars

(* The threads run on, the mutex is not kept from a job for ever, a job is *)
(* not late every time, and the User, who polls ten times a second, sees   *)
(* the live thread sleep for one.                                          *)
Fairness ==
  /\ WF_vars(Explored /\ HandleLoss) /\ WF_vars(Explored /\ DeathSeen)
  /\ WF_vars(Explored /\ Close)
  /\ WF_vars(Explored /\ Session) /\ SF_vars(Explored /\ Proceed)
  /\ WF_vars(Explored /\ Round) /\ WF_vars(Explored /\ Job)
  /\ WF_vars(Explored /\ ChainSucceeds) /\ SF_vars(Explored /\ ChainInTime)
  /\ SF_vars(Explored /\ table /\ JobOpen)

FairSpec == Spec /\ Fairness

-----------------------------------------------------------------------------
(* The camera is shown as live, nothing is under way for it, and it has no *)
(* stream: nobody will ever look at it again.                              *)
SilentlyLost ==
  /\ om /\ disc = "NONE" /\ pc.Pool = "idle" /\ pc.Sess = "idle" /\ pc.User = "idle"
  /\ jobs = 0 /\ request = "none" /\ queue = <<>>
  /\ ~lost /\ stream = "closed"
  /\ entry \in {"OK", "STREAM_FAIL", "CONN_FAIL"}

(* A camera is silently lost only after one of the races the history names.*)
SilentLossHasCause == SilentlyLost => cause # "none"

(* What section 6.2 D of docs/phase0_inventory.md asks of the recovery:    *)
(* it brings streams back, and so does not lose one.                       *)
RecoveryLosesNoStream == SilentlyLost => cause # "recount"

(* After nf_openmode_stop no job opens the streams.                        *)
NoJobOpensAfterStop ==
  [][entry = "gone" /\ entry' = "gone" /\ stream = "closed" => stream' # "open"]_vars

(* Once the faults end and the service runs, the camera has its stream     *)
(* again and is shown as live.                                             *)
CameraComesBack ==
  <>[](om /\ disc = "NONE") /\ <>[][~Fault]_vars =>
    <>(cause # "none") \/ <>[](stream = "open" /\ ~lost)
=============================================================================
