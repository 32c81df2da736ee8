-------------------------- MODULE OpenmodeLive_proofs --------------------------
(***************************************************************************)
(* Proofs about OpenmodeLive for all limits and bounds: type correctness;  *)
(* that a camera is silently lost only after one of the races of Causes;   *)
(* that no job opens the streams of a stopped service.                     *)
(***************************************************************************)
EXTENDS OpenmodeLive, TLAPS

(* The job that a worker is at is one of the jobs.                         *)
JobHeld == pc.Pool # "idle" => jobs > 0

(* Who has the closesync lock is closing the channel.                      *)
CloserInv ==
  /\ closer = "Pool" => pc.Pool \in Closing
  /\ closer = "Sess" => pc.Sess \in Closing
  /\ closer = "User" => pc.User \in Closing

(* What the channel's mutex and the state of its entry exclude: a worker   *)
(* has the mutex only of a listed camera, and opens none that is probed;   *)
(* nor is the list cleared or a job run while the user reconnects it. And  *)
(* where the user is with the service stopped, or the list cleared.        *)
MutexInv ==
  /\ pc.Pool # "idle" => pc.Live # "building" /\ entry # "gone"
  /\ pc.User \in {"reconnecting", "reconnected"} =>
       pc.Pool = "idle" /\ pc.Live # "building" /\ entry # "gone"
  /\ pc.Pool \notin {"idle", "late"} => pc.Live # "probing" /\ entry # "DISCOVERED"
  /\ pc.Live = "probing" => entry # "STREAM_OPEN_REQ"
  /\ pc.Live = "building" => entry # "gone"
  /\ pc.User \in {"init", "stopping", "closed", "unlinked", "clearing"} => ~om
  /\ pc.User = "listing" => entry = "gone"

Exclusion == JobHeld /\ CloserInv /\ MutexInv

(* Before the first race the history names: a camera whose loss is not     *)
(* known has been opened, its entry left at OK, and nobody sets it up,     *)
(* closes it or reconnects it; the service runs; and its streams are there *)
(* or about to be closed by a thread that tells the loss.                  *)
HonestInv ==
  cause = "none" =>
    /\ pc.Pool = "idle" /\ ~Known => entry = "OK"
    /\ pc.Pool \in {"opening", "audio", "succeeded"} => Known
    /\ pc.Live = "building" => Known
    /\ pc.Live = "probing" => Known \/ pc.Pool = "late"
    /\ pc.User = "reconnected" => Known
    /\ closer # "none" => Known
    /\ ~om => Known
    /\ stream = "closed" /\ ~Known => request = "REBOOT" \/ Waiting

-----------------------------------------------------------------------------
Places == [Live : LivePlaces, Pool : PoolPlaces, Sess : SessPlaces, User : UserPlaces]

LEMMA GoType ==
  ASSUME pc \in Places,
         NEW t, NEW place, Go(t, place),
         \/ t = "Live" /\ place \in LivePlaces
         \/ t = "Pool" /\ place \in PoolPlaces
         \/ t = "Sess" /\ place \in SessPlaces
         \/ t = "User" /\ place \in UserPlaces
  PROVE  pc' \in Places
<1>1. CASE t = "Live" /\ place \in LivePlaces
  BY <1>1 DEF Go, Places
<1>2. CASE t = "Pool" /\ place \in PoolPlaces
  BY <1>2 DEF Go, Places
<1>3. CASE t = "Sess" /\ place \in SessPlaces
  BY <1>3 DEF Go, Places
<1>4. CASE t = "User" /\ place \in UserPlaces
  BY <1>4 DEF Go, Places
<1>q. QED
  BY <1>1, <1>2, <1>3, <1>4

Events == {"ADD", "REMOVE"}

LEMMA PushType ==
  ASSUME TypeOK, NEW e \in Events, Push(e)
  PROVE  queue' \in Seq(Events) /\ Len(queue') <= MaxQueue
<1>1. queue \in Seq(Events) /\ Len(queue) \in Nat
  BY DEF TypeOK, Events
<1>2. queue' \in Seq(Events) /\ Len(queue') = Len(queue) + 1
  BY <1>1 DEF Push
<1>q. QED
  BY <1>1, <1>2, OpenmodeLiveAssumption DEF Push

LEMMA CloseEndsType ==
  ASSUME TypeOK, NEW t, NEW place, CloseEnds(t, place)
  PROVE  /\ UNCHANGED <<service, rt, table, counts, loss, rtsp, mtxLeft, chains, cause>>
         /\ entry' \in Entries
         /\ closer' \in Closers \cup {"none"} /\ wiped' \in BOOLEAN
<1>1. UNCHANGED <<service, rt, table, counts, loss, rtsp, mtxLeft, chains, cause>>
  BY DEF CloseEnds
<1>2. entry' \in Entries
  BY DEF CloseEnds, SetEntry, TypeOK, Entries
<1>3. closer' \in Closers \cup {"none"} /\ wiped' \in BOOLEAN
  BY DEF CloseEnds
<1>q. QED
  BY <1>1, <1>2, <1>3

(* Types hold after the steps of the RTSP library and of the queue.        *)
LEMMA TypeOKLibrary ==
  ASSUME TypeOK, JobHeld, CloserInv,
         HandleLoss \/ StreamDies \/ DeathSeen \/ Close \/ Session
  PROVE  TypeOK'
<1>0. pc \in Places
  BY DEF TypeOK, Places
<1> USE DEF service, camera, counts, loss, rtsp, sync, work
<1>1. CASE HandleLoss
  <2>1. queue' \in Seq(Events) /\ Len(queue') <= MaxQueue
    <3>1. queue \in Seq(Events) /\ queue # << >> /\ Len(queue) <= MaxQueue
      BY <1>1 DEF TypeOK, HandleLoss, Events
    <3>2. Tail(queue) \in Seq(Events) /\ Len(Tail(queue)) = Len(queue) - 1
      BY <3>1
    <3>3. Len(queue) \in Nat
      BY <3>1
    <3>q. QED
      BY <1>1, <3>1, <3>2, <3>3, OpenmodeLiveAssumption DEF HandleLoss
  <2>q. QED
    BY <1>1, <2>1 DEF TypeOK, HandleLoss, Events
<1>2. CASE StreamDies
  BY <1>2 DEF TypeOK, StreamDies
<1>3. CASE DeathSeen
  BY <1>3 DEF TypeOK, DeathSeen
<1>4. ASSUME NEW t \in Closers, CloseBegins(t)
      PROVE  TypeOK'
  <2>1. queue' \in Seq(Events) /\ Len(queue') <= MaxQueue
    BY <1>4, PushType DEF CloseBegins, Events
  <2>q. QED
    BY <1>4, <2>1 DEF TypeOK, CloseBegins, Events
<1>5. CASE CloseWipes
  BY <1>5 DEF TypeOK, CloseWipes, Runtimes
<1>6. CASE SessReconn
  <2>1. pc' \in Places
    BY <1>0, <1>6, GoType DEF SessReconn, SessPlaces
  <2>q. QED
    BY <1>6, <2>1 DEF TypeOK, SessReconn, Places
<1>7. CASE SessPause
  <2>1. pc' \in Places
    BY <1>0, <1>7, GoType DEF SessPause, SessPlaces
  <2>q. QED
    BY <1>7, <2>1 DEF TypeOK, SessPause, Places
<1>8. CASE SessResumed
  <2>1. pc' \in Places
    BY <1>0, <1>8, GoType DEF SessResumed, SessPlaces
  <2>q. QED
    BY <1>8, <2>1 DEF TypeOK, SessResumed, Places
<1>9. CASE SessResumeFails
  <2>1. pc' \in Places
    BY <1>0, <1>9, GoType DEF SessResumeFails, SessPlaces
  <2>q. QED
    BY <1>9, <2>1 DEF TypeOK, SessResumeFails, Places
<1>10. CASE SessReboot
  <2>1. pc' \in Places
    BY <1>0, <1>10, GoType DEF SessReboot, SessPlaces
  <2>q. QED
    BY <1>10, <2>1 DEF TypeOK, SessReboot, Places
<1>11. CASE SessClosed
  <2>1. pc' \in Places
    BY <1>0, <1>11, GoType DEF SessClosed, CloseEnds, SessPlaces
  <2>2. /\ UNCHANGED <<service, rt, table, counts, loss, rtsp, mtxLeft, chains, cause>>
       /\ entry' \in Entries /\ closer' \in Closers \cup {"none"} /\ wiped' \in BOOLEAN
    BY <1>11, CloseEndsType DEF SessClosed
  <2>3. UNCHANGED jobs
    BY <1>11 DEF SessClosed
  <2>q. QED
    BY <2>1, <2>2, <2>3 DEF TypeOK, Places
<1>12. CASE SessReset
  <2>1. pc' \in Places
    BY <1>0, <1>12, GoType DEF SessReset, SessPlaces
  <2>q. QED
    BY <1>12, <2>1, OpenmodeLiveAssumption
       DEF TypeOK, SessReset, Blame, Causes, Places
<1>q. QED
  BY <1>1, <1>2, <1>3, <1>4, <1>5, <1>6, <1>7, <1>8, <1>9, <1>10, <1>11, <1>12 DEF
       Close, Session

(* The steps of a worker of the pool.                                      *)
LEMMA TypeOKJob ==
  ASSUME TypeOK, JobHeld, CloserInv, Job
  PROVE  TypeOK'
<1>0. pc \in Places
  BY DEF TypeOK, Places
<1> USE DEF service, camera, counts, loss, rtsp, sync, work
<1>1. CASE JobVoid
  <2>1. jobs' \in 0..MaxJobs
    BY <1>1, OpenmodeLiveAssumption DEF TypeOK, JobVoid, JobReady
  <2>q. QED
    BY <1>1, <2>1 DEF TypeOK, JobVoid
<1>2. CASE JobLate
  <2>1. pc' \in Places
    BY <1>0, <1>2, GoType DEF JobLate, PoolPlaces
  <2>q. QED
    BY <1>2, <2>1 DEF TypeOK, JobLate, Entries, Places
<1>3. CASE JobClosed
  <2>1. pc' \in Places
    BY <1>0, <1>3, GoType DEF JobClosed, CloseEnds, PoolPlaces
  <2>2. jobs' \in 0..MaxJobs
    BY <1>3, OpenmodeLiveAssumption
       DEF TypeOK, JobClosed, JobHeld, CloserInv, CloseEnds, Closing
  <2>3. /\ UNCHANGED <<service, rt, table, counts, loss, rtsp, mtxLeft, chains, cause>>
       /\ entry' \in Entries /\ closer' \in Closers \cup {"none"} /\ wiped' \in BOOLEAN
    BY <1>3, CloseEndsType DEF JobClosed
  <2>q. QED
    BY <2>1, <2>2, <2>3 DEF TypeOK, Places
<1>4. CASE JobOpen
  <2>1. pc' \in Places
    BY <1>0, <1>4, GoType DEF JobOpen, PoolPlaces
  <2>q. QED
    BY <1>4, <2>1 DEF TypeOK, JobOpen, Places
<1>5. CASE OpenVideo
  <2>1. pc' \in Places
    BY <1>0, <1>5, GoType DEF OpenVideo, PoolPlaces
  <2>q. QED
    BY <1>5, <2>1 DEF TypeOK, OpenVideo, Places
<1>6. CASE OpenFails
  <2>1. pc' \in Places
    BY <1>0, <1>6, GoType DEF OpenFails, PoolPlaces
  <2>q. QED
    BY <1>6, <2>1 DEF TypeOK, OpenFails, Places
<1>7. CASE OpenMisread
  <2>1. pc' \in Places
    BY <1>0, <1>7, GoType DEF OpenMisread, PoolPlaces
  <2>q. QED
    BY <1>7, <2>1 DEF TypeOK, OpenMisread, Blame, Causes, Places
<1>8. CASE OpenRest
  <2>1. pc' \in Places
    BY <1>0, <1>8, GoType DEF OpenRest, PoolPlaces
  <2>q. QED
    BY <1>8, <2>1 DEF TypeOK, OpenRest, Places
<1>9. CASE OpenRestRefused
  <2>1. pc' \in Places
    BY <1>0, <1>9, GoType DEF OpenRestRefused, PoolPlaces
  <2>q. QED
    BY <1>9, <2>1 DEF TypeOK, OpenRestRefused, Places
<1>10. CASE ReportOpened
  <2>1. pc' \in Places
    BY <1>0, <1>10, GoType DEF ReportOpened, PoolPlaces
  <2>2. queue' \in Seq(Events) /\ Len(queue') <= MaxQueue
    BY <1>10, PushType DEF ReportOpened, Events
  <2>q. QED
    BY <1>10, <2>1, <2>2 DEF TypeOK, ReportOpened, Causes, Places, Events
<1>11. CASE ReportUsing
  <2>1. pc' \in Places
    BY <1>0, <1>11, GoType DEF ReportUsing, PoolPlaces
  <2>q. QED
    BY <1>11, <2>1 DEF TypeOK, ReportUsing, Runtimes, Places
<1>12. CASE StreamReady
  <2>1. pc' \in Places
    BY <1>0, <1>12, GoType DEF StreamReady, PoolPlaces
  <2>q. QED
    BY <1>12, <2>1 DEF TypeOK, StreamReady, Blame, Causes, Places
<1>13. CASE JobDone
  <2>1. pc' \in Places
    BY <1>0, <1>13, GoType DEF JobDone, PoolPlaces
  <2>2. jobs' \in 0..MaxJobs
    BY <1>13, OpenmodeLiveAssumption DEF TypeOK, JobDone, JobHeld
  <2>q. QED
    BY <1>13, <2>1, <2>2 DEF TypeOK, JobDone, SetEntry, Entries, Places
<1>q. QED
  BY <1>1, <1>2, <1>3, <1>4, <1>5, <1>6, <1>7, <1>8, <1>9, <1>10, <1>11, <1>12,
       <1>13 DEF Job

(* The steps of the camera's thread.                                       *)
LEMMA TypeOKRound ==
  ASSUME TypeOK, JobHeld, CloserInv, Round
  PROVE  TypeOK'
<1>0. pc \in Places
  BY DEF TypeOK, Places
<1> USE DEF service, camera, counts, loss, rtsp, sync, work
<1>1. CASE Wake
  <2>1. pc' \in Places
    BY <1>0, <1>1, GoType DEF Wake, LivePlaces
  <2>q. QED
    BY <1>1, <2>1 DEF TypeOK, Wake, Places
<1>2. CASE CheckState
  <2>1. pc' \in Places
    BY <1>0, <1>2, GoType DEF CheckState, LivePlaces
  <2>q. QED
    BY <1>2, <2>1 DEF TypeOK, CheckState, Places
<1>3. CASE EndInstallation
  <2>1. pc' \in Places
    BY <1>0, <1>3, GoType DEF EndInstallation, LivePlaces
  <2>q. QED
    BY <1>3, <2>1 DEF TypeOK, EndInstallation, Places
<1>4. CASE MarkRunning
  <2>1. pc' \in Places
    BY <1>0, <1>4, GoType DEF MarkRunning, LivePlaces
  <2>q. QED
    BY <1>4, <2>1 DEF TypeOK, MarkRunning, Places
<1>5. CASE SkipSetup
  <2>1. pc' \in Places
    BY <1>0, <1>5, GoType DEF SkipSetup, LivePlaces, SetUp
  <2>q. QED
    BY <1>5, <2>1 DEF TypeOK, SkipSetup, Places
<1>6. CASE FindEntry
  <2>1. pc' \in Places
    BY <1>0, <1>6, GoType DEF FindEntry, LivePlaces
  <2>q. QED
    BY <1>6, <2>1 DEF TypeOK, FindEntry, Places
<1>7. CASE CaseCleared
  <2>1. pc' \in Places
    BY <1>0, <1>7, GoType DEF CaseCleared, LivePlaces
  <2>q. QED
    BY <1>7, <2>1, OpenmodeLiveAssumption
       DEF TypeOK, CaseCleared, At, Blame, Runtimes, Causes, Places
<1>8. CASE CaseInit
  <2>1. pc' \in Places
    BY <1>0, <1>8, GoType DEF CaseInit, LivePlaces, SetUp
  <2>q. QED
    BY <1>8, <2>1, OpenmodeLiveAssumption
       DEF TypeOK, CaseInit, At, Runtimes, Entries, Places
<1>9. CASE CaseBuild
  <2>1. pc' \in Places
    BY <1>0, <1>9, GoType DEF CaseBuild, LivePlaces
  <2>q. QED
    BY <1>9, <2>1 DEF TypeOK, CaseBuild, At, Places
<1>10. CASE BuildFails
  <2>1. pc' \in Places
    BY <1>0, <1>10, GoType DEF BuildFails, LivePlaces, SetUp
  <2>q. QED
    BY <1>10, <2>1 DEF TypeOK, BuildFails, Entries, Places
<1>11. CASE Build
  <2>1. pc' \in Places
    BY <1>0, <1>11, GoType DEF Build, LivePlaces, SetUp
  <2>q. QED
    BY <1>11, <2>1, OpenmodeLiveAssumption
       DEF TypeOK, Build, Runtimes, Places
<1>12. CASE CaseReady
  <2>1. pc' \in Places
    BY <1>0, <1>12, GoType DEF CaseReady, LivePlaces, SetUp
  <2>2. jobs' \in 0..MaxJobs
    BY <1>12, OpenmodeLiveAssumption DEF TypeOK, CaseReady, At
  <2>q. QED
    BY <1>12, <2>1, <2>2, OpenmodeLiveAssumption
       DEF TypeOK, CaseReady, At, Entries, Places
<1>13. CASE CaseConfigFail
  <2>1. pc' \in Places
    BY <1>0, <1>13, GoType DEF CaseConfigFail, LivePlaces, SetUp
  <2>q. QED
    BY <1>13, <2>1, OpenmodeLiveAssumption
       DEF TypeOK, CaseConfigFail, At, Entries, Places
<1>14. CASE CaseConfiguring
  <2>1. pc' \in Places
    BY <1>0, <1>14, GoType DEF CaseConfiguring, LivePlaces, SetUp
  <2>q. QED
    BY <1>14, <2>1, OpenmodeLiveAssumption
       DEF TypeOK, CaseConfiguring, At, Runtimes, Entries, Places
<1>15. CASE CaseOther
  <2>1. pc' \in Places
    BY <1>0, <1>15, GoType DEF CaseOther, LivePlaces, SetUp
  <2>q. QED
    BY <1>15, <2>1 DEF TypeOK, CaseOther, At, Places
<1>16. CASE SkipProbe
  <2>1. pc' \in Places
    BY <1>0, <1>16, GoType DEF SkipProbe, LivePlaces
  <2>q. QED
    BY <1>16, <2>1 DEF TypeOK, SkipProbe, Places
<1>17. CASE Probed
  <2>1. pc' \in Places
    BY <1>0, <1>17, GoType DEF Probed, Probe, LivePlaces
  <2>q. QED
    BY <1>17, <2>1 DEF TypeOK, Probed, Probe, SetEntry, Entries, Places
<1>18. CASE ProbeFails
  <2>1. pc' \in Places
    BY <1>0, <1>18, GoType DEF ProbeFails, Probe, LivePlaces
  <2>q. QED
    BY <1>18, <2>1 DEF TypeOK, ProbeFails, Probe, SetEntry, Entries, Places
<1>19. CASE SkipRecovery
  <2>1. pc' \in Places
    BY <1>0, <1>19, GoType DEF SkipRecovery, LivePlaces
  <2>q. QED
    BY <1>19, <2>1 DEF TypeOK, SkipRecovery, Places
<1>20. CASE Overdue
  <2>1. pc' \in Places
    BY <1>0, <1>20, GoType DEF Overdue, LivePlaces
  <2>q. QED
    BY <1>20, <2>1, OpenmodeLiveAssumption DEF TypeOK, Overdue, Places
<1>21. CASE Recover
  <2>1. pc' \in Places
    BY <1>0, <1>21, GoType DEF Recover, LivePlaces
  <2>2. mtxLeft' \in BOOLEAN
    BY <1>21 DEF Recover
  <2>3. cause' \in Causes \cup {"none"}
    BY <1>21 DEF TypeOK, Recover, Causes
  <2>q. QED
    BY <1>21, <2>1, <2>2, <2>3, OpenmodeLiveAssumption
       DEF TypeOK, Recover, SetEntry, Runtimes, Entries, Places
<1>22. CASE CountLogin
  <2>1. pc' \in Places
    BY <1>0, <1>22, GoType DEF CountLogin, LivePlaces
  <2>q. QED
    BY <1>22, <2>1, OpenmodeLiveAssumption DEF TypeOK, CountLogin, Places
<1>23. CASE LogInAgain
  <2>1. pc' \in Places
    BY <1>0, <1>23, GoType DEF LogInAgain, LivePlaces
  <2>2. mtxLeft' \in BOOLEAN
    BY <1>23 DEF LogInAgain
  <2>3. cause' \in Causes \cup {"none"}
    BY <1>23 DEF TypeOK, LogInAgain, Blame, Causes
  <2>q. QED
    BY <1>23, <2>1, <2>2, <2>3, OpenmodeLiveAssumption
       DEF TypeOK, LogInAgain, Runtimes, Entries, Places
<1>24. CASE Count
  <2>1. pc' \in Places
    BY <1>0, <1>24, GoType DEF Count, LivePlaces
  <2>q. QED
    BY <1>24, <2>1, OpenmodeLiveAssumption DEF TypeOK, Count, Places
<1>q. QED
  BY <1>1, <1>2, <1>3, <1>4, <1>5, <1>6, <1>7, <1>8, <1>9, <1>10, <1>11, <1>12,
       <1>13, <1>14, <1>15, <1>16, <1>17, <1>18, <1>19, <1>20, <1>21, <1>22,
       <1>23, <1>24 DEF Round

(* The steps of the user.                                                  *)
LEMMA TypeOKUser ==
  ASSUME TypeOK, JobHeld, CloserInv, Begin \/ Proceed
  PROVE  TypeOK'
<1>0. pc \in Places
  BY DEF TypeOK, Places
<1> USE DEF service, camera, counts, loss, rtsp, sync, work
<1>1. CASE Start
  BY <1>1, OpenmodeLiveAssumption DEF TypeOK, Start, Runtimes, Entries
<1>2. CASE Stop
  <2>1. pc' \in Places
    BY <1>0, <1>2, GoType DEF Stop, UserPlaces
  <2>2. calls' \in 0..MaxCalls
    BY <1>2, OpenmodeLiveAssumption DEF TypeOK, Stop, Call
  <2>q. QED
    BY <1>2, <2>1, <2>2 DEF TypeOK, Stop, Call, Places
<1>3. CASE StartInstallation
  <2>1. calls' \in 0..MaxCalls
    BY <1>3, OpenmodeLiveAssumption DEF TypeOK, StartInstallation, Call
  <2>q. QED
    BY <1>3, <2>1 DEF TypeOK, StartInstallation, Call
<1>4. CASE StopStreaming
  <2>1. pc' \in Places
    BY <1>0, <1>4, GoType DEF StopStreaming, UserPlaces
  <2>2. calls' \in 0..MaxCalls
    BY <1>4, OpenmodeLiveAssumption DEF TypeOK, StopStreaming, Call
  <2>q. QED
    BY <1>4, <2>1, <2>2 DEF TypeOK, StopStreaming, Call, Places
<1>5. CASE FinishInstallation
  <2>1. pc' \in Places
    BY <1>0, <1>5, GoType DEF FinishInstallation, UserPlaces
  <2>2. calls' \in 0..MaxCalls
    BY <1>5, OpenmodeLiveAssumption DEF TypeOK, FinishInstallation, Call
  <2>q. QED
    BY <1>5, <2>1, <2>2 DEF TypeOK, FinishInstallation, Call, Places
<1>6. CASE Reconnect
  <2>1. pc' \in Places
    BY <1>0, <1>6, GoType DEF Reconnect, UserPlaces
  <2>2. calls' \in 0..MaxCalls
    BY <1>6, OpenmodeLiveAssumption DEF TypeOK, Reconnect, Call
  <2>q. QED
    BY <1>6, <2>1, <2>2 DEF TypeOK, Reconnect, Call, Places
<1>7. CASE RetryLogin
  <2>1. calls' \in 0..MaxCalls
    BY <1>7, OpenmodeLiveAssumption DEF TypeOK, RetryLogin, Call
  <2>q. QED
    BY <1>7, <2>1 DEF TypeOK, RetryLogin, Call, Entries
<1>8. CASE StopSetsInit
  <2>1. pc' \in Places
    BY <1>0, <1>8, GoType DEF StopSetsInit, UserPlaces
  <2>2. om' \in BOOLEAN
    BY <1>8 DEF StopSetsInit
  <2>3. UNCHANGED <<disc, live, calls, camera, loss, rtsp, sync, work, cause>>
    BY <1>8 DEF StopSetsInit
  <2>q. QED
    BY <2>1, <2>2, <2>3 DEF TypeOK, Places
<1>9. CASE StopSetsNone
  <2>1. pc' \in Places
    BY <1>0, <1>9, GoType DEF StopSetsNone, UserPlaces
  <2>q. QED
    BY <1>9, <2>1 DEF TypeOK, StopSetsNone, Places
<1>10. CASE StopClosed
  <2>1. pc' \in Places
    BY <1>0, <1>10, GoType DEF StopClosed, CloseEnds, UserPlaces
  <2>2. /\ UNCHANGED <<service, rt, table, counts, loss, rtsp, mtxLeft, chains, cause>>
       /\ entry' \in Entries /\ closer' \in Closers \cup {"none"} /\ wiped' \in BOOLEAN
    BY <1>10, CloseEndsType DEF StopClosed
  <2>3. UNCHANGED jobs
    BY <1>10 DEF StopClosed
  <2>q. QED
    BY <2>1, <2>2, <2>3 DEF TypeOK, Places
<1>11. CASE StopUnlinks
  <2>1. pc' \in Places
    BY <1>0, <1>11, GoType DEF StopUnlinks, UserPlaces
  <2>q. QED
    BY <1>11, <2>1 DEF TypeOK, StopUnlinks, Runtimes, Places
<1>12. CASE StopMarksLost
  <2>1. pc' \in Places
    BY <1>0, <1>12, GoType DEF StopMarksLost, UserPlaces
  <2>2. queue' \in Seq(Events) /\ Len(queue') <= MaxQueue
    BY <1>12, PushType DEF StopMarksLost, Events
  <2>q. QED
    BY <1>12, <2>1, <2>2 DEF TypeOK, StopMarksLost, Places, Events
<1>13. CASE StopClears
  <2>1. pc' \in Places
    BY <1>0, <1>13, GoType DEF StopClears, UserPlaces
  <2>q. QED
    BY <1>13, <2>1, OpenmodeLiveAssumption DEF TypeOK, StopClears, Entries, Places
<1>14. CASE StreamsClosed
  <2>1. pc' \in Places
    BY <1>0, <1>14, GoType DEF StreamsClosed, CloseEnds, UserPlaces
  <2>2. /\ UNCHANGED <<service, rt, table, counts, loss, rtsp, mtxLeft, chains, cause>>
       /\ entry' \in Entries /\ closer' \in Closers \cup {"none"} /\ wiped' \in BOOLEAN
    BY <1>14, CloseEndsType DEF StreamsClosed
  <2>3. UNCHANGED jobs
    BY <1>14 DEF StreamsClosed
  <2>q. QED
    BY <2>1, <2>2, <2>3 DEF TypeOK, Places
<1>15. CASE EntryInit
  <2>1. pc' \in Places
    BY <1>0, <1>15, GoType DEF EntryInit, UserPlaces
  <2>q. QED
    BY <1>15, <2>1 DEF TypeOK, EntryInit, SetEntry, Entries, Places
<1>16. CASE StreamingStopped
  <2>1. pc' \in Places
    BY <1>0, <1>16, GoType DEF StreamingStopped, UserPlaces
  <2>2. queue' \in Seq(Events) /\ Len(queue') <= MaxQueue
    BY <1>16, PushType DEF StreamingStopped, Events
  <2>q. QED
    BY <1>16, <2>1, <2>2 DEF TypeOK, StreamingStopped, Places, Events
<1>17. CASE FinishWaits
  <2>1. pc' \in Places
    BY <1>0, <1>17, GoType DEF FinishWaits, UserPlaces
  <2>q. QED
    BY <1>17, <2>1 DEF TypeOK, FinishWaits, Places
<1>18. CASE FinishClears
  <2>1. pc' \in Places
    BY <1>0, <1>18, GoType DEF FinishClears, UserPlaces
  <2>q. QED
    BY <1>18, <2>1 DEF TypeOK, FinishClears, Blame, Entries, Causes, Places
<1>19. CASE FinishLists
  <2>1. pc' \in Places
    BY <1>0, <1>19, GoType DEF FinishLists, UserPlaces
  <2>q. QED
    BY <1>19, <2>1 DEF TypeOK, FinishLists, Entries, Places
<1>20. CASE ReconnectClosed
  <2>1. pc' \in Places
    BY <1>0, <1>20, GoType DEF ReconnectClosed, CloseEnds, UserPlaces
  <2>2. /\ UNCHANGED <<service, rt, table, counts, loss, rtsp, mtxLeft, chains, cause>>
       /\ entry' \in Entries /\ closer' \in Closers \cup {"none"} /\ wiped' \in BOOLEAN
    BY <1>20, CloseEndsType DEF ReconnectClosed
  <2>3. UNCHANGED jobs
    BY <1>20 DEF ReconnectClosed
  <2>q. QED
    BY <2>1, <2>2, <2>3 DEF TypeOK, Places
<1>21. CASE Reconnected
  <2>1. pc' \in Places
    BY <1>0, <1>21, GoType DEF Reconnected, UserPlaces
  <2>q. QED
    BY <1>21, <2>1 DEF TypeOK, Reconnected, Entries, Places
<1>q. QED
  BY <1>1, <1>2, <1>3, <1>4, <1>5, <1>6, <1>7, <1>8, <1>9, <1>10, <1>11, <1>12,
       <1>13, <1>14, <1>15, <1>16, <1>17, <1>18, <1>19, <1>20, <1>21 DEF Begin,
       Proceed

(* The steps of a set-up chain.                                            *)
LEMMA TypeOKChain ==
  ASSUME TypeOK, ChainSucceeds \/ ChainFails \/ ChainIsLost
  PROVE  TypeOK'
<1>1. PICK result \in Runtimes : Ends(result)
  BY DEF TypeOK, ChainSucceeds, ChainFails, ChainIsLost, Runtimes
<1>2. chains' \in 0..MaxChains
  BY <1>1, OpenmodeLiveAssumption DEF TypeOK, Ends
<1>q. QED
  BY <1>1, <1>2 DEF TypeOK, Ends, service, counts, loss, rtsp, sync

-----------------------------------------------------------------------------
(* Where a step of one thread leaves each thread.                          *)
LEMMA Moves ==
  ASSUME pc \in Places, NEW t \in {"Live", "Pool", "Sess", "User"}, NEW place,
         Go(t, place)
  PROVE  /\ pc'.Live = IF t = "Live" THEN place ELSE pc.Live
         /\ pc'.Pool = IF t = "Pool" THEN place ELSE pc.Pool
         /\ pc'.Sess = IF t = "Sess" THEN place ELSE pc.Sess
         /\ pc'.User = IF t = "User" THEN place ELSE pc.User
BY DEF Go, Places

(* The worker, the locks and the entry: the same four kinds of steps.      *)
LEMMA MutexLibrary ==
  ASSUME TypeOK, Exclusion, HandleLoss \/ StreamDies \/ DeathSeen \/ Close \/ Session
  PROVE  Exclusion'
<1>0. pc \in Places /\ entry \in Entries /\ jobs \in Nat
  BY OpenmodeLiveAssumption DEF TypeOK, Places
<1> USE DEF service, camera, counts, loss, rtsp, sync, work, Exclusion,
           JobHeld, CloserInv, MutexInv, Closing
<1>1. CASE HandleLoss
  BY <1>0, <1>1 DEF HandleLoss
<1>2. CASE StreamDies
  BY <1>0, <1>2 DEF StreamDies
<1>3. CASE DeathSeen
  BY <1>0, <1>3 DEF DeathSeen
<1>4. ASSUME NEW t \in Closers, CloseBegins(t)
      PROVE  Exclusion'
  BY <1>0, <1>4 DEF CloseBegins, Closers
<1>5. CASE CloseWipes
  BY <1>0, <1>5 DEF CloseWipes
<1>6. CASE SessReconn
  BY <1>0, <1>6, Moves DEF SessReconn
<1>7. CASE SessPause
  BY <1>0, <1>7, Moves DEF SessPause
<1>8. CASE SessResumed
  BY <1>0, <1>8, Moves DEF SessResumed
<1>9. CASE SessResumeFails
  BY <1>0, <1>9, Moves DEF SessResumeFails
<1>10. CASE SessReboot
  BY <1>0, <1>10, Moves DEF SessReboot
<1>11. CASE SessClosed
  BY <1>0, <1>11, Moves DEF SessClosed, CloseEnds, SetEntry
<1>12. CASE SessReset
  BY <1>0, <1>12, Moves DEF SessReset
<1>q. QED
  BY <1>1, <1>2, <1>3, <1>4, <1>5, <1>6, <1>7, <1>8, <1>9, <1>10, <1>11, <1>12 DEF
       Close, Session

LEMMA MutexJob ==
  ASSUME TypeOK, Exclusion, Job
  PROVE  Exclusion'
<1>0. pc \in Places /\ entry \in Entries /\ jobs \in Nat
  BY OpenmodeLiveAssumption DEF TypeOK, Places
<1> USE DEF service, camera, counts, loss, rtsp, sync, work, Exclusion,
           JobHeld, CloserInv, MutexInv, Closing
<1>1. CASE JobVoid
  BY <1>0, <1>1 DEF JobVoid, JobReady, MtxFree
<1>2. CASE JobLate
  BY <1>0, <1>2, Moves DEF JobLate, JobReady, MtxFree
<1>3. CASE JobClosed
  BY <1>0, <1>3, Moves DEF JobClosed, CloseEnds, SetEntry
<1>4. CASE JobOpen
  BY <1>0, <1>4, Moves DEF JobOpen, JobReady, MtxFree
<1>5. CASE OpenVideo
  BY <1>0, <1>5, Moves DEF OpenVideo
<1>6. CASE OpenFails
  BY <1>0, <1>6, Moves DEF OpenFails
<1>7. CASE OpenMisread
  BY <1>0, <1>7, Moves DEF OpenMisread
<1>8. CASE OpenRest
  BY <1>0, <1>8, Moves DEF OpenRest
<1>9. CASE OpenRestRefused
  BY <1>0, <1>9, Moves DEF OpenRestRefused
<1>10. CASE ReportOpened
  BY <1>0, <1>10, Moves DEF ReportOpened
<1>11. CASE ReportUsing
  BY <1>0, <1>11, Moves DEF ReportUsing
<1>12. CASE StreamReady
  BY <1>0, <1>12, Moves DEF StreamReady
<1>13. CASE JobDone
  BY <1>0, <1>13, Moves DEF JobDone, SetEntry
<1>q. QED
  BY <1>1, <1>2, <1>3, <1>4, <1>5, <1>6, <1>7, <1>8, <1>9, <1>10, <1>11, <1>12,
       <1>13 DEF Job

LEMMA MutexRound ==
  ASSUME TypeOK, Exclusion, Round
  PROVE  Exclusion'
<1>0. pc \in Places /\ entry \in Entries /\ jobs \in Nat
  BY OpenmodeLiveAssumption DEF TypeOK, Places
<1> USE DEF service, camera, counts, loss, rtsp, sync, work, Exclusion,
           JobHeld, CloserInv, MutexInv, Closing
<1>1. CASE Wake
  BY <1>0, <1>1, Moves DEF Wake
<1>2. CASE CheckState
  BY <1>0, <1>2, Moves DEF CheckState
<1>3. CASE EndInstallation
  BY <1>0, <1>3, Moves DEF EndInstallation
<1>4. CASE MarkRunning
  BY <1>0, <1>4, Moves DEF MarkRunning
<1>5. CASE SkipSetup
  BY <1>0, <1>5, Moves DEF SkipSetup, SetUp
<1>6. CASE FindEntry
  BY <1>0, <1>6, Moves DEF FindEntry
<1>7. CASE CaseCleared
  BY <1>0, <1>7, Moves DEF CaseCleared, At, MtxFree
<1>8. CASE CaseInit
  BY <1>0, <1>8, Moves DEF CaseInit, At, SetUp, MtxFree
<1>9. CASE CaseBuild
  BY <1>0, <1>9, Moves DEF CaseBuild, At, MtxFree
<1>10. CASE BuildFails
  BY <1>0, <1>10, Moves DEF BuildFails, SetUp
<1>11. CASE Build
  BY <1>0, <1>11, Moves DEF Build, SetUp
<1>12. CASE CaseReady
  BY <1>0, <1>12, Moves DEF CaseReady, At, SetUp, MtxFree
<1>13. CASE CaseConfigFail
  BY <1>0, <1>13, Moves DEF CaseConfigFail, At, SetUp, MtxFree
<1>14. CASE CaseConfiguring
  BY <1>0, <1>14, Moves DEF CaseConfiguring, At, SetUp, MtxFree
<1>15. CASE CaseOther
  BY <1>0, <1>15, Moves DEF CaseOther, At, SetUp, MtxFree
<1>16. CASE SkipProbe
  BY <1>0, <1>16, Moves DEF SkipProbe
<1>17. CASE Probed
  BY <1>0, <1>17, Moves DEF Probed, Probe, SetEntry
<1>18. CASE ProbeFails
  BY <1>0, <1>18, Moves DEF ProbeFails, Probe, SetEntry
<1>19. CASE SkipRecovery
  BY <1>0, <1>19, Moves DEF SkipRecovery
<1>20. CASE Overdue
  BY <1>0, <1>20, Moves DEF Overdue
<1>21. CASE Recover
  BY <1>0, <1>21, Moves DEF Recover, SetEntry, MtxFree
<1>22. CASE CountLogin
  BY <1>0, <1>22, Moves DEF CountLogin
<1>23. CASE LogInAgain
  BY <1>0, <1>23, Moves DEF LogInAgain, MtxFree
<1>24. CASE Count
  BY <1>0, <1>24, Moves DEF Count
<1>q. QED
  BY <1>1, <1>2, <1>3, <1>4, <1>5, <1>6, <1>7, <1>8, <1>9, <1>10, <1>11, <1>12,
       <1>13, <1>14, <1>15, <1>16, <1>17, <1>18, <1>19, <1>20, <1>21, <1>22,
       <1>23, <1>24 DEF Round

LEMMA MutexUser ==
  ASSUME TypeOK, Exclusion, Begin \/ Proceed
  PROVE  Exclusion'
<1>0. pc \in Places /\ entry \in Entries /\ jobs \in Nat
  BY OpenmodeLiveAssumption DEF TypeOK, Places
<1> USE DEF service, camera, counts, loss, rtsp, sync, work, Exclusion,
           JobHeld, CloserInv, MutexInv, Closing
<1>1. CASE Start
  BY <1>0, <1>1 DEF Start
<1>2. CASE Stop
  BY <1>0, <1>2, Moves DEF Stop, Call
<1>3. CASE StartInstallation
  BY <1>0, <1>3 DEF StartInstallation, Call
<1>4. CASE StopStreaming
  BY <1>0, <1>4, Moves DEF StopStreaming, Call
<1>5. CASE FinishInstallation
  BY <1>0, <1>5, Moves DEF FinishInstallation, Call
<1>6. CASE Reconnect
  BY <1>0, <1>6, Moves DEF Reconnect, Call, MtxFree
<1>7. CASE RetryLogin
  BY <1>0, <1>7 DEF RetryLogin, Call, MtxFree
<1>8. CASE StopSetsInit
  BY <1>0, <1>8, Moves DEF StopSetsInit
<1>9. CASE StopSetsNone
  BY <1>0, <1>9, Moves DEF StopSetsNone
<1>10. CASE StopClosed
  BY <1>0, <1>10, Moves DEF StopClosed, CloseEnds, SetEntry
<1>11. CASE StopUnlinks
  BY <1>0, <1>11, Moves DEF StopUnlinks
<1>12. CASE StopMarksLost
  BY <1>0, <1>12, Moves DEF StopMarksLost
<1>13. CASE StopClears
  BY <1>0, <1>13, Moves DEF StopClears, MtxFree
<1>14. CASE StreamsClosed
  BY <1>0, <1>14, Moves DEF StreamsClosed, CloseEnds, SetEntry
<1>15. CASE EntryInit
  BY <1>0, <1>15, Moves DEF EntryInit, SetEntry, MtxFree
<1>16. CASE StreamingStopped
  BY <1>0, <1>16, Moves DEF StreamingStopped
<1>17. CASE FinishWaits
  BY <1>0, <1>17, Moves DEF FinishWaits
<1>18. CASE FinishClears
  BY <1>0, <1>18, Moves DEF FinishClears, MtxFree
<1>19. CASE FinishLists
  BY <1>0, <1>19, Moves DEF FinishLists
<1>20. CASE ReconnectClosed
  BY <1>0, <1>20, Moves DEF ReconnectClosed, CloseEnds, SetEntry
<1>21. CASE Reconnected
  BY <1>0, <1>21, Moves DEF Reconnected
<1>q. QED
  BY <1>1, <1>2, <1>3, <1>4, <1>5, <1>6, <1>7, <1>8, <1>9, <1>10, <1>11, <1>12,
       <1>13, <1>14, <1>15, <1>16, <1>17, <1>18, <1>19, <1>20, <1>21 DEF Begin,
       Proceed

LEMMA MutexChain ==
  ASSUME Exclusion, ChainSucceeds \/ ChainFails \/ ChainIsLost
  PROVE  Exclusion'
BY DEF Exclusion, JobHeld, CloserInv, MutexInv, ChainSucceeds, ChainFails, ChainIsLost,
       Ends, sync, service

-----------------------------------------------------------------------------
(* What the queue makes of the loss bit.                                   *)
LEMMA PushLost ==
  ASSUME TypeOK, NEW e \in Events, Push(e)
  PROVE  WillBeLost' = (e = "REMOVE")
<1>1. queue \in Seq(Events) /\ queue' = Append(queue, e)
  BY DEF TypeOK, Push, Events
<1>2. queue' # << >> /\ queue'[Len(queue')] = e
  BY <1>1
<1>q. QED
  BY <1>2 DEF WillBeLost

LEMMA HandleKeepsLost ==
  ASSUME TypeOK, HandleLoss
  PROVE  WillBeLost' = WillBeLost
<1>1. /\ queue \in Seq(Events) /\ queue # << >>
      /\ queue' = Tail(queue) /\ lost' = (Head(queue) = "REMOVE")
  BY DEF TypeOK, HandleLoss, Events
<1> DEFINE n == Len(queue)
<1>2. n \in Nat \ {0} /\ queue \in [1..n -> Events]
  BY <1>1
<1>3. CASE n = 1
  <2>1. Tail(queue) = << >> /\ Head(queue) = queue[n]
    BY <1>1, <1>3
  <2>q. QED
    BY <1>1, <2>1 DEF WillBeLost
<1>4. CASE n # 1
  <2>1. n - 1 \in Nat /\ n - 1 # 0
    <3> HIDE DEF n
    <3>q. QED
      BY <1>2, <1>4
  <2>2. Len(Tail(queue)) = n - 1
    BY <1>1
  <2>3. Tail(queue) # << >>
    BY <2>1, <2>2
  <2>4. Tail(queue)[n - 1] = queue[n]
    BY <1>1, <1>2, <2>1
  <2>q. QED
    BY <1>1, <2>2, <2>3, <2>4 DEF WillBeLost
<1>q. QED
  BY <1>3, <1>4

LEMMA LossKept ==
  ASSUME UNCHANGED loss
  PROVE  WillBeLost' = WillBeLost
BY DEF loss, WillBeLost

(* The threads that wait for the closesync lock, one by one.               *)
WaitingBut(place, name) == place \in Closing /\ closer # name

LEMMA WaitingIs ==
  /\ Waiting = \/ WaitingBut(pc.Pool, "Pool") \/ WaitingBut(pc.Sess, "Sess")
               \/ WaitingBut(pc.User, "User")
  /\ Waiting' = \/ WaitingBut(pc.Pool, "Pool")' \/ WaitingBut(pc.Sess, "Sess")'
                \/ WaitingBut(pc.User, "User")'
BY DEF Waiting, WaitingBut, Closers

(* The history is honest after the same four kinds of steps.               *)
LEMMA HonestLibrary ==
  ASSUME TypeOK, Exclusion, HonestInv,
         HandleLoss \/ StreamDies \/ DeathSeen \/ Close \/ Session
  PROVE  HonestInv'
<1>0. /\ pc \in Places /\ cause \in Causes \cup {"none"}
      /\ closer \in Closers \cup {"none"}
  BY DEF TypeOK, Places
<1> USE DEF service, camera, counts, rtsp, sync, work, Exclusion, CloserInv,
           MutexInv, HonestInv, Known, WaitingBut, Closing, Telling
<1>1. CASE HandleLoss
  <2>1. WillBeLost' = WillBeLost
    BY <1>1, HandleKeepsLost
  <2>q. QED
    BY <1>0, <1>1, <2>1, WaitingIs DEF HandleLoss
<1>2. CASE StreamDies
  <2>1. WillBeLost' = WillBeLost
    BY <1>2, LossKept DEF StreamDies
  <2>q. QED
    BY <1>0, <1>2, <2>1, WaitingIs DEF StreamDies
<1>3. CASE DeathSeen
  <2>1. WillBeLost' = WillBeLost
    BY <1>3, LossKept DEF DeathSeen
  <2>q. QED
    BY <1>0, <1>3, <2>1, WaitingIs DEF DeathSeen
<1>4. ASSUME NEW t \in Closers, CloseBegins(t)
      PROVE  HonestInv'
  <2>1. WillBeLost' = ("REMOVE" = "REMOVE")
    BY <1>4, PushLost DEF CloseBegins, Events
  <2>q. QED
    BY <1>0, <1>4, <2>1, WaitingIs DEF CloseBegins, Closers
<1>5. CASE CloseWipes
  <2>1. WillBeLost' = WillBeLost
    BY <1>5, LossKept DEF CloseWipes
  <2>q. QED
    BY <1>0, <1>5, <2>1, WaitingIs DEF CloseWipes
<1>6. CASE SessReconn
  <2>1. WillBeLost' = WillBeLost
    BY <1>6, LossKept DEF SessReconn
  <2>q. QED
    BY <1>0, <1>6, <2>1, WaitingIs, Moves DEF SessReconn
<1>7. CASE SessPause
  <2>1. WillBeLost' = WillBeLost
    BY <1>7, LossKept DEF SessPause
  <2>q. QED
    BY <1>0, <1>7, <2>1, WaitingIs, Moves DEF SessPause
<1>8. CASE SessResumed
  <2>1. WillBeLost' = WillBeLost
    BY <1>8, LossKept DEF SessResumed
  <2>q. QED
    BY <1>0, <1>8, <2>1, WaitingIs, Moves DEF SessResumed
<1>9. CASE SessResumeFails
  <2>1. WillBeLost' = WillBeLost
    BY <1>9, LossKept DEF SessResumeFails
  <2>q. QED
    BY <1>0, <1>9, <2>1, WaitingIs, Moves DEF SessResumeFails
<1>10. CASE SessReboot
  <2>1. WillBeLost' = WillBeLost
    BY <1>10, LossKept DEF SessReboot
  <2>q. QED
    BY <1>0, <1>10, <2>1, WaitingIs, Moves DEF SessReboot
<1>11. CASE SessClosed
  <2>1. WillBeLost' = WillBeLost
    BY <1>11, LossKept DEF SessClosed, CloseEnds
  <2>q. QED
    BY <1>0, <1>11, <2>1, WaitingIs, Moves DEF SessClosed, CloseEnds, SetEntry
<1>12. CASE SessReset
  <2>1. WillBeLost' = WillBeLost
    BY <1>12, LossKept DEF SessReset
  <2>q. QED
    BY <1>0, <1>12, <2>1, WaitingIs, Moves DEF SessReset, Blame
<1>q. QED
  BY <1>1, <1>2, <1>3, <1>4, <1>5, <1>6, <1>7, <1>8, <1>9, <1>10, <1>11, <1>12 DEF
       Close, Session

LEMMA HonestJob ==
  ASSUME TypeOK, Exclusion, HonestInv, Job
  PROVE  HonestInv'
<1>0. /\ pc \in Places /\ cause \in Causes \cup {"none"}
      /\ closer \in Closers \cup {"none"}
  BY DEF TypeOK, Places
<1> USE DEF service, camera, counts, rtsp, sync, work, Exclusion, CloserInv,
           MutexInv, HonestInv, Known, WaitingBut, Closing, Telling
<1>1. CASE JobVoid
  <2>1. WillBeLost' = WillBeLost
    BY <1>1, LossKept DEF JobVoid
  <2>q. QED
    BY <1>0, <1>1, <2>1, WaitingIs DEF JobVoid, JobReady, MtxFree
<1>2. CASE JobLate
  <2>1. WillBeLost' = WillBeLost
    BY <1>2, LossKept DEF JobLate
  <2>q. QED
    BY <1>0, <1>2, <2>1, WaitingIs, Moves DEF JobLate, JobReady, MtxFree
<1>3. CASE JobClosed
  <2>1. WillBeLost' = WillBeLost
    BY <1>3, LossKept DEF JobClosed, CloseEnds
  <2>q. QED
    BY <1>0, <1>3, <2>1, WaitingIs, Moves DEF JobClosed, CloseEnds, SetEntry
<1>4. CASE JobOpen
  <2>1. WillBeLost' = WillBeLost
    BY <1>4, LossKept DEF JobOpen
  <2>q. QED
    BY <1>0, <1>4, <2>1, WaitingIs, Moves DEF JobOpen, JobReady, MtxFree
<1>5. CASE OpenVideo
  <2>1. WillBeLost' = WillBeLost
    BY <1>5, LossKept DEF OpenVideo
  <2>q. QED
    BY <1>0, <1>5, <2>1, WaitingIs, Moves DEF OpenVideo
<1>6. CASE OpenFails
  <2>1. WillBeLost' = WillBeLost
    BY <1>6, LossKept DEF OpenFails
  <2>q. QED
    BY <1>0, <1>6, <2>1, WaitingIs, Moves DEF OpenFails
<1>7. CASE OpenMisread
  <2>1. WillBeLost' = WillBeLost
    BY <1>7, LossKept DEF OpenMisread
  <2>q. QED
    BY <1>0, <1>7, <2>1, WaitingIs, Moves DEF OpenMisread, Blame
<1>8. CASE OpenRest
  <2>1. WillBeLost' = WillBeLost
    BY <1>8, LossKept DEF OpenRest
  <2>q. QED
    BY <1>0, <1>8, <2>1, WaitingIs, Moves DEF OpenRest
<1>9. CASE OpenRestRefused
  <2>1. WillBeLost' = WillBeLost
    BY <1>9, LossKept DEF OpenRestRefused
  <2>q. QED
    BY <1>0, <1>9, <2>1, WaitingIs, Moves DEF OpenRestRefused
<1>10. CASE ReportOpened
  <2>1. WillBeLost' = ("ADD" = "REMOVE")
    BY <1>10, PushLost DEF ReportOpened, Events
  <2>q. QED
    BY <1>0, <1>10, <2>1, WaitingIs, Moves DEF ReportOpened
<1>11. CASE ReportUsing
  <2>1. WillBeLost' = WillBeLost
    BY <1>11, LossKept DEF ReportUsing
  <2>q. QED
    BY <1>0, <1>11, <2>1, WaitingIs, Moves DEF ReportUsing
<1>12. CASE StreamReady
  <2>1. WillBeLost' = WillBeLost
    BY <1>12, LossKept DEF StreamReady
  <2>q. QED
    BY <1>0, <1>12, <2>1, WaitingIs, Moves DEF StreamReady, Blame
<1>13. CASE JobDone
  <2>1. WillBeLost' = WillBeLost
    BY <1>13, LossKept DEF JobDone
  <2>q. QED
    BY <1>0, <1>13, <2>1, WaitingIs, Moves DEF JobDone, SetEntry
<1>q. QED
  BY <1>1, <1>2, <1>3, <1>4, <1>5, <1>6, <1>7, <1>8, <1>9, <1>10, <1>11, <1>12,
       <1>13 DEF Job

LEMMA HonestRound ==
  ASSUME TypeOK, Exclusion, HonestInv, Round
  PROVE  HonestInv'
<1>0. /\ pc \in Places /\ cause \in Causes \cup {"none"}
      /\ closer \in Closers \cup {"none"}
  BY DEF TypeOK, Places
<1> USE DEF service, camera, counts, rtsp, sync, work, Exclusion, CloserInv,
           MutexInv, HonestInv, Known, WaitingBut, Closing, Telling
<1>1. CASE Wake
  <2>1. WillBeLost' = WillBeLost
    BY <1>1, LossKept DEF Wake
  <2>q. QED
    BY <1>0, <1>1, <2>1, WaitingIs, Moves DEF Wake
<1>2. CASE CheckState
  <2>1. WillBeLost' = WillBeLost
    BY <1>2, LossKept DEF CheckState
  <2>q. QED
    BY <1>0, <1>2, <2>1, WaitingIs, Moves DEF CheckState
<1>3. CASE EndInstallation
  <2>1. WillBeLost' = WillBeLost
    BY <1>3, LossKept DEF EndInstallation
  <2>q. QED
    BY <1>0, <1>3, <2>1, WaitingIs, Moves DEF EndInstallation
<1>4. CASE MarkRunning
  <2>1. WillBeLost' = WillBeLost
    BY <1>4, LossKept DEF MarkRunning
  <2>q. QED
    BY <1>0, <1>4, <2>1, WaitingIs, Moves DEF MarkRunning
<1>5. CASE SkipSetup
  <2>1. WillBeLost' = WillBeLost
    BY <1>5, LossKept DEF SkipSetup
  <2>q. QED
    BY <1>0, <1>5, <2>1, WaitingIs, Moves DEF SkipSetup, SetUp
<1>6. CASE FindEntry
  <2>1. WillBeLost' = WillBeLost
    BY <1>6, LossKept DEF FindEntry
  <2>q. QED
    BY <1>0, <1>6, <2>1, WaitingIs, Moves DEF FindEntry
<1>7. CASE CaseCleared
  <2>1. WillBeLost' = WillBeLost
    BY <1>7, LossKept DEF CaseCleared
  <2>q. QED
    BY <1>0, <1>7, <2>1, WaitingIs, Moves DEF CaseCleared, At, Blame, MtxFree
<1>8. CASE CaseInit
  <2>1. WillBeLost' = WillBeLost
    BY <1>8, LossKept DEF CaseInit
  <2>q. QED
    BY <1>0, <1>8, <2>1, WaitingIs, Moves DEF CaseInit, At, SetUp, MtxFree
<1>9. CASE CaseBuild
  <2>1. WillBeLost' = WillBeLost
    BY <1>9, LossKept DEF CaseBuild
  <2>q. QED
    BY <1>0, <1>9, <2>1, WaitingIs, Moves DEF CaseBuild, At, MtxFree
<1>10. CASE BuildFails
  <2>1. WillBeLost' = WillBeLost
    BY <1>10, LossKept DEF BuildFails
  <2>q. QED
    BY <1>0, <1>10, <2>1, WaitingIs, Moves DEF BuildFails, SetUp
<1>11. CASE Build
  <2>1. WillBeLost' = WillBeLost
    BY <1>11, LossKept DEF Build
  <2>q. QED
    BY <1>0, <1>11, <2>1, WaitingIs, Moves DEF Build, SetUp
<1>12. CASE CaseReady
  <2>1. WillBeLost' = WillBeLost
    BY <1>12, LossKept DEF CaseReady
  <2>q. QED
    BY <1>0, <1>12, <2>1, WaitingIs, Moves DEF CaseReady, At, SetUp, MtxFree
<1>13. CASE CaseConfigFail
  <2>1. WillBeLost' = WillBeLost
    BY <1>13, LossKept DEF CaseConfigFail
  <2>q. QED
    BY <1>0, <1>13, <2>1, WaitingIs, Moves DEF CaseConfigFail, At, SetUp, MtxFree
<1>14. CASE CaseConfiguring
  <2>1. WillBeLost' = WillBeLost
    BY <1>14, LossKept DEF CaseConfiguring
  <2>q. QED
    BY <1>0, <1>14, <2>1, WaitingIs, Moves DEF CaseConfiguring, At, SetUp, MtxFree
<1>15. CASE CaseOther
  <2>1. WillBeLost' = WillBeLost
    BY <1>15, LossKept DEF CaseOther
  <2>q. QED
    BY <1>0, <1>15, <2>1, WaitingIs, Moves DEF CaseOther, At, SetUp, MtxFree
<1>16. CASE SkipProbe
  <2>1. WillBeLost' = WillBeLost
    BY <1>16, LossKept DEF SkipProbe
  <2>q. QED
    BY <1>0, <1>16, <2>1, WaitingIs, Moves DEF SkipProbe
<1>17. CASE Probed
  <2>1. WillBeLost' = WillBeLost
    BY <1>17, LossKept DEF Probed, Probe
  <2>q. QED
    BY <1>0, <1>17, <2>1, WaitingIs, Moves DEF Probed, Probe, SetEntry
<1>18. CASE ProbeFails
  <2>1. WillBeLost' = WillBeLost
    BY <1>18, LossKept DEF ProbeFails, Probe
  <2>q. QED
    BY <1>0, <1>18, <2>1, WaitingIs, Moves DEF ProbeFails, Probe, SetEntry
<1>19. CASE SkipRecovery
  <2>1. WillBeLost' = WillBeLost
    BY <1>19, LossKept DEF SkipRecovery
  <2>q. QED
    BY <1>0, <1>19, <2>1, WaitingIs, Moves DEF SkipRecovery
<1>20. CASE Overdue
  <2>1. WillBeLost' = WillBeLost
    BY <1>20, LossKept DEF Overdue
  <2>q. QED
    BY <1>0, <1>20, <2>1, WaitingIs, Moves DEF Overdue
<1>21. CASE Recover
  <2>1. WillBeLost' = WillBeLost
    BY <1>21, LossKept DEF Recover
  <2>q. QED
    BY <1>0, <1>21, <2>1, WaitingIs, Moves DEF Recover, SetEntry, MtxFree
<1>22. CASE CountLogin
  <2>1. WillBeLost' = WillBeLost
    BY <1>22, LossKept DEF CountLogin
  <2>q. QED
    BY <1>0, <1>22, <2>1, WaitingIs, Moves DEF CountLogin
<1>23. CASE LogInAgain
  <2>1. WillBeLost' = WillBeLost
    BY <1>23, LossKept DEF LogInAgain
  <2>q. QED
    BY <1>0, <1>23, <2>1, WaitingIs, Moves DEF LogInAgain, Blame, MtxFree
<1>24. CASE Count
  <2>1. WillBeLost' = WillBeLost
    BY <1>24, LossKept DEF Count
  <2>q. QED
    BY <1>0, <1>24, <2>1, WaitingIs, Moves DEF Count
<1>q. QED
  BY <1>1, <1>2, <1>3, <1>4, <1>5, <1>6, <1>7, <1>8, <1>9, <1>10, <1>11, <1>12,
       <1>13, <1>14, <1>15, <1>16, <1>17, <1>18, <1>19, <1>20, <1>21, <1>22,
       <1>23, <1>24 DEF Round

LEMMA HonestUser ==
  ASSUME TypeOK, Exclusion, HonestInv, Begin \/ Proceed
  PROVE  HonestInv'
<1>0. /\ pc \in Places /\ cause \in Causes \cup {"none"}
      /\ closer \in Closers \cup {"none"}
  BY DEF TypeOK, Places
<1> USE DEF service, camera, counts, rtsp, sync, work, Exclusion, CloserInv,
           MutexInv, HonestInv, Known, WaitingBut, Closing, Telling
<1>1. CASE Start
  <2>1. WillBeLost' = WillBeLost
    BY <1>1, LossKept DEF Start
  <2>q. QED
    BY <1>0, <1>1, <2>1, WaitingIs DEF Start
<1>2. CASE Stop
  <2>1. WillBeLost' = WillBeLost
    BY <1>2, LossKept DEF Stop
  <2>q. QED
    BY <1>0, <1>2, <2>1, WaitingIs, Moves DEF Stop, Call
<1>3. CASE StartInstallation
  <2>1. WillBeLost' = WillBeLost
    BY <1>3, LossKept DEF StartInstallation
  <2>q. QED
    BY <1>0, <1>3, <2>1, WaitingIs DEF StartInstallation, Call
<1>4. CASE StopStreaming
  <2>1. WillBeLost' = WillBeLost
    BY <1>4, LossKept DEF StopStreaming
  <2>q. QED
    BY <1>0, <1>4, <2>1, WaitingIs, Moves DEF StopStreaming, Call
<1>5. CASE FinishInstallation
  <2>1. WillBeLost' = WillBeLost
    BY <1>5, LossKept DEF FinishInstallation
  <2>q. QED
    BY <1>0, <1>5, <2>1, WaitingIs, Moves DEF FinishInstallation, Call
<1>6. CASE Reconnect
  <2>1. WillBeLost' = WillBeLost
    BY <1>6, LossKept DEF Reconnect
  <2>q. QED
    BY <1>0, <1>6, <2>1, WaitingIs, Moves DEF Reconnect, Call, MtxFree
<1>7. CASE RetryLogin
  <2>1. WillBeLost' = WillBeLost
    BY <1>7, LossKept DEF RetryLogin
  <2>q. QED
    BY <1>0, <1>7, <2>1, WaitingIs DEF RetryLogin, Call, MtxFree
<1>8. CASE StopSetsInit
  <2>1. WillBeLost' = WillBeLost
    BY <1>8, LossKept DEF StopSetsInit
  <2>q. QED
    BY <1>0, <1>8, <2>1, WaitingIs, Moves DEF StopSetsInit
<1>9. CASE StopSetsNone
  <2>1. WillBeLost' = WillBeLost
    BY <1>9, LossKept DEF StopSetsNone
  <2>q. QED
    BY <1>0, <1>9, <2>1, WaitingIs, Moves DEF StopSetsNone
<1>10. CASE StopClosed
  <2>1. WillBeLost' = WillBeLost
    BY <1>10, LossKept DEF StopClosed, CloseEnds
  <2>q. QED
    BY <1>0, <1>10, <2>1, WaitingIs, Moves DEF StopClosed, CloseEnds, SetEntry
<1>11. CASE StopUnlinks
  <2>1. WillBeLost' = WillBeLost
    BY <1>11, LossKept DEF StopUnlinks
  <2>q. QED
    BY <1>0, <1>11, <2>1, WaitingIs, Moves DEF StopUnlinks
<1>12. CASE StopMarksLost
  <2>1. WillBeLost' = ("REMOVE" = "REMOVE")
    BY <1>12, PushLost DEF StopMarksLost, Events
  <2>q. QED
    BY <1>0, <1>12, <2>1, WaitingIs, Moves DEF StopMarksLost
<1>13. CASE StopClears
  <2>1. WillBeLost' = WillBeLost
    BY <1>13, LossKept DEF StopClears
  <2>q. QED
    BY <1>0, <1>13, <2>1, WaitingIs, Moves DEF StopClears, MtxFree
<1>14. CASE StreamsClosed
  <2>1. WillBeLost' = WillBeLost
    BY <1>14, LossKept DEF StreamsClosed, CloseEnds
  <2>q. QED
    BY <1>0, <1>14, <2>1, WaitingIs, Moves DEF StreamsClosed, CloseEnds, SetEntry
<1>15. CASE EntryInit
  <2>1. WillBeLost' = WillBeLost
    BY <1>15, LossKept DEF EntryInit
  <2>q. QED
    BY <1>0, <1>15, <2>1, WaitingIs, Moves DEF EntryInit, SetEntry, MtxFree
<1>16. CASE StreamingStopped
  <2>1. WillBeLost' = ("REMOVE" = "REMOVE")
    BY <1>16, PushLost DEF StreamingStopped, Events
  <2>q. QED
    BY <1>0, <1>16, <2>1, WaitingIs, Moves DEF StreamingStopped
<1>17. CASE FinishWaits
  <2>1. WillBeLost' = WillBeLost
    BY <1>17, LossKept DEF FinishWaits
  <2>q. QED
    BY <1>0, <1>17, <2>1, WaitingIs, Moves DEF FinishWaits
<1>18. CASE FinishClears
  <2>1. WillBeLost' = WillBeLost
    BY <1>18, LossKept DEF FinishClears
  <2>q. QED
    BY <1>0, <1>18, <2>1, WaitingIs, Moves DEF FinishClears, Blame, MtxFree
<1>19. CASE FinishLists
  <2>1. WillBeLost' = WillBeLost
    BY <1>19, LossKept DEF FinishLists
  <2>q. QED
    BY <1>0, <1>19, <2>1, WaitingIs, Moves DEF FinishLists
<1>20. CASE ReconnectClosed
  <2>1. WillBeLost' = WillBeLost
    BY <1>20, LossKept DEF ReconnectClosed, CloseEnds
  <2>q. QED
    BY <1>0, <1>20, <2>1, WaitingIs, Moves DEF ReconnectClosed, CloseEnds, SetEntry
<1>21. CASE Reconnected
  <2>1. WillBeLost' = WillBeLost
    BY <1>21, LossKept DEF Reconnected
  <2>q. QED
    BY <1>0, <1>21, <2>1, WaitingIs, Moves DEF Reconnected
<1>q. QED
  BY <1>1, <1>2, <1>3, <1>4, <1>5, <1>6, <1>7, <1>8, <1>9, <1>10, <1>11, <1>12,
       <1>13, <1>14, <1>15, <1>16, <1>17, <1>18, <1>19, <1>20, <1>21 DEF Begin,
       Proceed

LEMMA HonestChain ==
  ASSUME HonestInv, ChainSucceeds \/ ChainFails \/ ChainIsLost
  PROVE  HonestInv'
<1>1. UNCHANGED <<om, entry, queue, lost, stream, request, closer, pc, cause>>
  BY DEF ChainSucceeds, ChainFails, ChainIsLost, Ends, service, loss, rtsp, sync
<1>q. QED
  BY <1>1 DEF HonestInv, Known, WillBeLost, Waiting

-----------------------------------------------------------------------------
LEMMA InitInv == Init => TypeOK /\ Exclusion /\ HonestInv
<1> SUFFICES ASSUME Init
             PROVE  TypeOK /\ Exclusion /\ HonestInv
  OBVIOUS
<1>1. queue \in Seq(Events) /\ queue # << >> /\ queue[Len(queue)] = "REMOVE"
  BY DEF Init, Events
<1>2. Len(queue) = 1
  BY DEF Init
<1>3. WillBeLost
  BY <1>1 DEF WillBeLost
<1>4. TypeOK
  <2>1. Len(queue) <= MaxQueue
    BY <1>2, OpenmodeLiveAssumption
  <2>2. /\ hang \in 0..HangLimit /\ abnormal \in 0..(AbnormalLimit + 1)
        /\ loginWait \in 0..LoginLimit /\ stay \in 0..StayLimit
        /\ jobs \in 0..MaxJobs /\ chains \in 0..MaxChains /\ calls \in 0..MaxCalls
    BY OpenmodeLiveAssumption DEF Init
  <2>3. pc \in Places
    BY DEF Init, Places, LivePlaces, PoolPlaces, SessPlaces, UserPlaces
  <2>4. /\ om \in BOOLEAN /\ disc \in {"NONE", "START", "STOPPED", "FINAL"}
        /\ entry \in Entries
    BY DEF Init, Entries
  <2>q. QED
    BY <1>1, <2>1, <2>2, <2>3, <2>4
       DEF Init, TypeOK, Runtimes, Places, Events
<1>5. Exclusion
  BY DEF Init, Exclusion, JobHeld, CloserInv, MutexInv
<1>6. HonestInv
  BY <1>3 DEF Init, HonestInv, Known
<1>q. QED
  BY <1>4, <1>5, <1>6

LEMMA InvStep ==
  ASSUME TypeOK, Exclusion, HonestInv, [Next]_vars
  PROVE  (TypeOK /\ Exclusion /\ HonestInv)'
<1>1. CASE Next
  <2>1. Step
    BY <1>1 DEF Next
  <2>2. TypeOK'
    BY <2>1, TypeOKLibrary, TypeOKJob, TypeOKRound, TypeOKUser, TypeOKChain
       DEF Step, Exclusion
  <2>3. Exclusion'
    BY <2>1, MutexLibrary, MutexJob, MutexRound, MutexUser, MutexChain DEF Step
  <2>4. HonestInv'
    BY <2>1, HonestLibrary, HonestJob, HonestRound, HonestUser, HonestChain DEF Step
  <2>q. QED
    BY <2>2, <2>3, <2>4
<1>2. CASE UNCHANGED vars
  <2>1. WillBeLost' = WillBeLost
    BY <1>2, LossKept DEF vars
  <2>q. QED
    BY <1>2, <2>1
       DEF vars, service, camera, loss, rtsp, sync, work, TypeOK, Exclusion, JobHeld,
           CloserInv, MutexInv, HonestInv, Known, Waiting
<1>q. QED
  BY <1>1, <1>2

LEMMA Invariant == Spec => [](TypeOK /\ Exclusion /\ HonestInv)
<1>1. Init => TypeOK /\ Exclusion /\ HonestInv
  BY InitInv
<1>2. TypeOK /\ Exclusion /\ HonestInv /\ [Next]_vars
        => (TypeOK /\ Exclusion /\ HonestInv)'
  BY InvStep
<1>q. QED
  BY <1>1, <1>2, PTL DEF Spec

(* Every variable keeps its type, the counters their limits.               *)
THEOREM TypeCorrect == Spec => []TypeOK
BY Invariant, PTL

(* A camera is silently lost (shown as live, with no stream, its loss bit  *)
(* clear and nothing under way) only after one of the races of Causes.     *)
THEOREM SilentLossCorrect == Spec => []SilentLossHasCause
<1>1. HonestInv => SilentLossHasCause
  <2> SUFFICES ASSUME HonestInv, SilentlyLost, cause = "none"
               PROVE  FALSE
    BY DEF SilentLossHasCause
  <2>1. ~Known
    BY DEF SilentlyLost, Known, WillBeLost, Telling
  <2>2. ~Waiting
    BY WaitingIs DEF SilentlyLost, WaitingBut, Closing
  <2>q. QED
    BY <2>1, <2>2 DEF SilentlyLost, HonestInv
<1>q. QED
  BY <1>1, Invariant, PTL

(* The steps by which streams open.                                        *)
LEMMA Opening ==
  ASSUME Step, stream # "open", stream' = "open"
  PROVE  OpenVideo \/ OpenMisread \/ SessResumed
<1> USE DEF rtsp
<1>1. CASE HandleLoss
  BY <1>1 DEF HandleLoss
<1>2. CASE StreamDies
  BY <1>2 DEF StreamDies
<1>3. CASE DeathSeen
  BY <1>3 DEF DeathSeen
<1>4. ASSUME NEW t \in Closers, CloseBegins(t)
      PROVE  FALSE
  BY <1>4 DEF CloseBegins
<1>5. CASE CloseWipes
  BY <1>5 DEF CloseWipes
<1>6. CASE SessReconn
  BY <1>6 DEF SessReconn
<1>7. CASE SessPause
  BY <1>7 DEF SessPause
<1>8. CASE SessResumeFails
  BY <1>8 DEF SessResumeFails
<1>9. CASE SessReboot
  BY <1>9 DEF SessReboot
<1>10. CASE SessClosed
  BY <1>10 DEF SessClosed, CloseEnds
<1>11. CASE SessReset
  BY <1>11 DEF SessReset
<1>12. CASE JobVoid
  BY <1>12 DEF JobVoid
<1>13. CASE JobLate
  BY <1>13 DEF JobLate
<1>14. CASE JobClosed
  BY <1>14 DEF JobClosed, CloseEnds
<1>15. CASE JobOpen
  BY <1>15 DEF JobOpen
<1>16. CASE OpenFails
  BY <1>16 DEF OpenFails
<1>17. CASE OpenRest
  BY <1>17 DEF OpenRest
<1>18. CASE OpenRestRefused
  BY <1>18 DEF OpenRestRefused
<1>19. CASE ReportOpened
  BY <1>19 DEF ReportOpened
<1>20. CASE ReportUsing
  BY <1>20 DEF ReportUsing
<1>21. CASE StreamReady
  BY <1>21 DEF StreamReady
<1>22. CASE JobDone
  BY <1>22 DEF JobDone
<1>23. CASE Wake
  BY <1>23 DEF Wake
<1>24. CASE CheckState
  BY <1>24 DEF CheckState
<1>25. CASE EndInstallation
  BY <1>25 DEF EndInstallation
<1>26. CASE MarkRunning
  BY <1>26 DEF MarkRunning
<1>27. CASE SkipSetup
  BY <1>27 DEF SkipSetup
<1>28. CASE FindEntry
  BY <1>28 DEF FindEntry
<1>29. CASE CaseCleared
  BY <1>29 DEF CaseCleared
<1>30. CASE CaseInit
  BY <1>30 DEF CaseInit
<1>31. CASE CaseBuild
  BY <1>31 DEF CaseBuild
<1>32. CASE BuildFails
  BY <1>32 DEF BuildFails
<1>33. CASE Build
  BY <1>33 DEF Build
<1>34. CASE CaseReady
  BY <1>34 DEF CaseReady
<1>35. CASE CaseConfigFail
  BY <1>35 DEF CaseConfigFail
<1>36. CASE CaseConfiguring
  BY <1>36 DEF CaseConfiguring
<1>37. CASE CaseOther
  BY <1>37 DEF CaseOther
<1>38. CASE SkipProbe
  BY <1>38 DEF SkipProbe
<1>39. CASE Probed
  BY <1>39 DEF Probed, Probe
<1>40. CASE ProbeFails
  BY <1>40 DEF ProbeFails, Probe
<1>41. CASE SkipRecovery
  BY <1>41 DEF SkipRecovery
<1>42. CASE Overdue
  BY <1>42 DEF Overdue
<1>43. CASE Recover
  BY <1>43 DEF Recover
<1>44. CASE CountLogin
  BY <1>44 DEF CountLogin
<1>45. CASE LogInAgain
  BY <1>45 DEF LogInAgain
<1>46. CASE Count
  BY <1>46 DEF Count
<1>47. CASE Start
  BY <1>47 DEF Start
<1>48. CASE Stop
  BY <1>48 DEF Stop
<1>49. CASE StartInstallation
  BY <1>49 DEF StartInstallation
<1>50. CASE StopStreaming
  BY <1>50 DEF StopStreaming
<1>51. CASE FinishInstallation
  BY <1>51 DEF FinishInstallation
<1>52. CASE Reconnect
  BY <1>52 DEF Reconnect
<1>53. CASE RetryLogin
  BY <1>53 DEF RetryLogin
<1>54. CASE StopSetsInit
  BY <1>54 DEF StopSetsInit
<1>55. CASE StopSetsNone
  BY <1>55 DEF StopSetsNone
<1>56. CASE StopClosed
  BY <1>56 DEF StopClosed, CloseEnds
<1>57. CASE StopUnlinks
  BY <1>57 DEF StopUnlinks
<1>58. CASE StopMarksLost
  BY <1>58 DEF StopMarksLost
<1>59. CASE StopClears
  BY <1>59 DEF StopClears
<1>60. CASE StreamsClosed
  BY <1>60 DEF StreamsClosed, CloseEnds
<1>61. CASE EntryInit
  BY <1>61 DEF EntryInit
<1>62. CASE StreamingStopped
  BY <1>62 DEF StreamingStopped
<1>63. CASE FinishWaits
  BY <1>63 DEF FinishWaits
<1>64. CASE FinishClears
  BY <1>64 DEF FinishClears
<1>65. CASE FinishLists
  BY <1>65 DEF FinishLists
<1>66. CASE ReconnectClosed
  BY <1>66 DEF ReconnectClosed, CloseEnds
<1>67. CASE Reconnected
  BY <1>67 DEF Reconnected
<1>68. CASE ChainSucceeds \/ ChainFails \/ ChainIsLost
  BY <1>68 DEF ChainSucceeds, ChainFails, ChainIsLost, Ends
<1>q. QED
  BY <1>1, <1>2, <1>3, <1>4, <1>5, <1>6, <1>7, <1>8, <1>9, <1>10, <1>11, <1>12,
       <1>13, <1>14, <1>15, <1>16, <1>17, <1>18, <1>19, <1>20, <1>21, <1>22,
       <1>23, <1>24, <1>25, <1>26, <1>27, <1>28, <1>29, <1>30, <1>31, <1>32,
       <1>33, <1>34, <1>35, <1>36, <1>37, <1>38, <1>39, <1>40, <1>41, <1>42,
       <1>43, <1>44, <1>45, <1>46, <1>47, <1>48, <1>49, <1>50, <1>51, <1>52,
       <1>53, <1>54, <1>55, <1>56, <1>57, <1>58, <1>59, <1>60, <1>61, <1>62,
       <1>63, <1>64, <1>65, <1>66, <1>67, <1>68 DEF Step, Job, Round, Close,
       Session, Begin, Proceed

(* After nf_openmode_stop has cleared the list no job of the pool opens    *)
(* the camera's streams, however many were waiting.                        *)
THEOREM NoJobOpensCorrect == Spec => NoJobOpensAfterStop
<1>1. Exclusion /\ [Next]_vars
        => [entry = "gone" /\ entry' = "gone" /\ stream = "closed"
            => stream' # "open"]_vars
  <2> SUFFICES ASSUME Exclusion, Next, entry = "gone", stream = "closed",
                      stream' = "open"
               PROVE  FALSE
    OBVIOUS
  <2>1. OpenVideo \/ OpenMisread \/ SessResumed
    BY Opening DEF Next
  <2>q. QED
    BY <2>1 DEF Exclusion, MutexInv, OpenVideo, OpenMisread, SessResumed
<1>q. QED
  BY <1>1, Invariant, PTL DEF Spec, NoJobOpensAfterStop
=============================================================================
