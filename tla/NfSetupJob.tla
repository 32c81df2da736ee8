------------------------------ MODULE NfSetupJob ------------------------------
(***************************************************************************)
(* The set-up jobs of service/nf_ipcam_setup.c: how a setting is sent to a *)
(* camera and how its caller is told the result.                           *)
(*                                                                         *)
(* There is one slot for each channel and kind of job, callbacks[ch][type],*)
(* with a flag _ipcam_setup_sending[ch][type] beside it, and no lock.  The *)
(* model is one slot.  A caller of nf_ipcam_setup_request takes the slot,  *)
(* or reserves it while a job is in progress, and sends the setting itself;*)
(* a manager thread, cam_setup_func, receives the answers, tells the       *)
(* callbacks and sends the reserved setting.  A request is one call, with  *)
(* its callback and its data.                                              *)
(*                                                                         *)
(* The model is of open mode, and of the kinds of job that take the common *)
(* path of nf_ipcam_setup_request.  It treats as one step what one thread  *)
(* does to the slot between two calls, but for the places where the code   *)
(* stores a flag and a state that another thread reads together.           *)
(***************************************************************************)
EXTENDS Naturals

CONSTANTS Requests,  \* the calls of nf_ipcam_setup_request
          None,      \* NULL, or no socket
          Mgr,       \* the manager thread
          Ways       \* how the camera may be reached

(* A setting goes out as a text through a plain socket or through SSL, or  *)
(* it is made by a call of the ONVIF library, which says how it went.      *)
ASSUME NfSetupJobAssumption ==
  /\ None \notin Requests /\ Mgr \notin Requests
  /\ Ways \subseteq {"plain", "ssl", "library"}

Threads == Requests \cup {Mgr}

VARIABLES
  running,     \* openmode_state is not OPENMODE_STATE_INIT
  way,         \* how settings of this kind reach the camera: use_ssl and ONVIF support
  slot,        \* callbacks[ch][type]
  sending,     \* _ipcam_setup_sending[ch][type]
  lastApi,     \* _last_http_api[ch][type]: the request whose text was sent last
  pc,          \* where each thread is
  phase,       \* the pass of the manager's loop: answers, then states
  job,         \* the request whose data the manager is sending
  answered,    \* history: requests the camera said "200 OK" to, or need no answer
  overlooked,  \* history: requests whose failure left the slot as success leaves it
  told,        \* history: how often each callback was told a final state
  succeeded,   \* history: requests whose callback was told END_SUCCESS
  undisturbed  \* history: requests that have had the slot to themselves so far

historyVars == <<answered, overlooked, told, succeeded, undisturbed>>
vars == <<running, way, slot, sending, lastApi, pc, phase, job, historyVars>>

Final    == {"FAILED_REQ", "TIMEOUT", "END_SUCCESS"}
Ongoing  == {"BEGIN", "PENDING"}
Statuses == {"NORMAL"} \cup Ongoing \cup Final

Slots == [picked : BOOLEAN, sock : Requests \cup {None}, reserved : BOOLEAN,
          cbFunc : Requests \cup {None}, cbNext : Requests \cup {None},
          dataNext : Requests \cup {None}, status : Statuses]

(* What memset leaves.                                                     *)
Cleared == [picked |-> FALSE, sock |-> None, reserved |-> FALSE, cbFunc |-> None,
            cbNext |-> None, dataNext |-> None, status |-> "NORMAL"]

CallerPlaces == {"idle", "entered", "registered"}
DriverPlaces == {"drive", "sending", "sent", "failing", "closed"}
Returned     == {"refused", "returned"}
MgrPlaces    == {"ready", "finishing", "begun", "ticking", "ending", "called"}

TypeOK ==
  /\ running \in BOOLEAN /\ way \in Ways /\ sending \in BOOLEAN
  /\ slot \in Slots
  /\ lastApi \in Requests \cup {None} /\ job \in Requests \cup {None}
  /\ pc \in [Threads -> CallerPlaces \cup DriverPlaces \cup Returned \cup MgrPlaces]
  /\ phase \in {"answers", "states"}
  /\ told \in [Requests -> Nat]
  /\ answered \subseteq Requests /\ overlooked \subseteq Requests
  /\ succeeded \subseteq Requests /\ undisturbed \subseteq Requests

Init ==
  /\ running = FALSE
  /\ way \in Ways
  /\ slot = Cleared
  /\ sending = FALSE
  /\ lastApi = None
  /\ pc = [t \in Threads |-> IF t = Mgr THEN "ready" ELSE "idle"]
  /\ phase = "answers"
  /\ job = None
  /\ answered = {}
  /\ overlooked = {}
  /\ told = [r \in Requests |-> 0]
  /\ succeeded = {}
  /\ undisturbed = {}

Go(t, place) == pc' = [pc EXCEPT ![t] = place]

-----------------------------------------------------------------------------
(* The service starts and stops around the slots, which neither touches.   *)
Start ==
  /\ ~running
  /\ running' = TRUE
  /\ UNCHANGED <<way, slot, sending, lastApi, pc, phase, job, historyVars>>

Stop ==
  /\ running
  /\ running' = FALSE
  /\ undisturbed' = {}
  /\ UNCHANGED <<way, slot, sending, lastApi, pc, phase, job, answered, overlooked, told,
                 succeeded>>

(* nf_ipcam_setup_clear: the camera's stream was closed, or its set-up     *)
(* failed.                                                                 *)
SetupClear ==
  /\ slot' = [slot EXCEPT !.picked = FALSE, !.sock = None]
  /\ sending' = FALSE
  /\ undisturbed' = {}
  /\ UNCHANGED <<running, way, lastApi, pc, phase, job, answered, overlooked, told,
                 succeeded>>

-----------------------------------------------------------------------------
(* nf_ipcam_setup_request.                                                 *)
Enter(r) ==
  /\ pc[r] = "idle"
  /\ Go(r, IF running THEN "entered" ELSE "refused")
  /\ UNCHANGED <<running, way, slot, sending, lastApi, phase, job, historyVars>>

Busy == slot.picked \/ sending

(* Nobody else has anything to do with the slot.                           *)
FreeFor(r) ==
  /\ running /\ slot = Cleared /\ ~sending /\ pc[Mgr] = "ready"
  /\ \A q \in Requests \ {r} : pc[q] \in {"idle", "entered"} \cup Returned

Register(r) ==
  slot' = IF Busy THEN [slot EXCEPT !.cbNext = r, !.reserved = TRUE]
                  ELSE [slot EXCEPT !.cbFunc = r, !.status = "BEGIN"]

(* cam_setup_setcb.                                                        *)
SetCb(r) ==
  /\ pc[r] = "entered"
  /\ Register(r)
  /\ undisturbed' = IF FreeFor(r) THEN undisturbed \cup {r} ELSE {}
  /\ Go(r, "registered")
  /\ UNCHANGED <<running, way, sending, lastApi, phase, job, answered, overlooked, told,
                 succeeded>>

(* The second look at the two flags.                                       *)
Enqueue(r) ==
  /\ pc[r] = "registered"
  /\ IF Busy
       THEN slot' = [slot EXCEPT !.reserved = TRUE, !.dataNext = r] /\ Go(r, "returned")
       ELSE UNCHANGED slot /\ Go(r, "drive")
  /\ UNCHANGED <<running, way, sending, lastApi, phase, job, historyVars>>

-----------------------------------------------------------------------------
(* runtime[ch].sys.use_ssl; a kind the ONVIF library does for the camera.  *)
ssl     == way = "ssl"
library == way = "library"

(* The driver that sends a setting, on the caller's thread, or on the      *)
(* manager's for a reserved request and for a digest answer to a "401".    *)
Resending(t) == t = Mgr /\ phase = "answers"

DataOf(t) == IF t # Mgr THEN t ELSE IF phase = "answers" THEN lastApi ELSE slot.dataNext

OtherPhase == IF phase = "answers" THEN "states" ELSE "answers"

(* The manager goes on with its next pass, a caller returns.               *)
Return(t) ==
  /\ Go(t, IF t = Mgr THEN "ready" ELSE "returned")
  /\ phase' = IF t = Mgr THEN OtherPhase ELSE phase

(* nf_ipcam_setup_sending, once the text is built.                         *)
BeginSending(t) ==
  /\ pc[t] = "drive" /\ ~library
  /\ sending' = TRUE
  /\ lastApi' = DataOf(t)
  /\ job' = IF t = Mgr THEN DataOf(t) ELSE job
  /\ Go(t, "sending")
  /\ UNCHANGED <<running, way, slot, phase, historyVars>>

(* nf_ipcam_setup_waiting without a socket: there is nothing to wait for.  *)
AwaitNothing ==
  /\ slot' = [slot EXCEPT !.sock = None, !.picked = TRUE]
  /\ sending' = FALSE

(* A setting the camera does not have, or one the library call has made.   *)
NothingToAwait(t) ==
  /\ pc[t] = "drive" /\ ~Resending(t)
  /\ AwaitNothing
  /\ answered' = answered \cup ({DataOf(t)} \ {None})
  /\ Return(t)
  /\ UNCHANGED <<running, way, lastApi, job, overlooked, told, succeeded, undisturbed>>

(* The library call failed.  The slot is left as after one that did not,   *)
(* and only then is the result looked at.                                  *)
LibraryFails(t) ==
  /\ pc[t] = "drive" /\ ~Resending(t) /\ library
  /\ AwaitNothing
  /\ overlooked' = overlooked \cup ({DataOf(t)} \ {None})
  /\ Go(t, "failing")
  /\ UNCHANGED <<running, way, lastApi, phase, job, answered, told, succeeded, undisturbed>>

NotSent(t) ==
  /\ pc[t] = "drive" /\ ~Resending(t) /\ ~library
  /\ Go(t, "failing")
  /\ UNCHANGED <<running, way, slot, sending, lastApi, phase, job, historyVars>>

(* socket, connect or send failed.  The result of a digest answer is not   *)
(* looked at, and with SSL the slot still says that there is one to come.  *)
SendFailed(t) ==
  /\ pc[t] = "sending"
  /\ sending' = FALSE
  /\ IF Resending(t) THEN Return(t) ELSE Go(t, "failing") /\ UNCHANGED phase
  /\ overlooked' = IF Resending(t) /\ ssl THEN overlooked \cup ({job} \ {None}) ELSE overlooked
  /\ UNCHANGED <<running, way, slot, lastApi, job, answered, told, succeeded, undisturbed>>

(* nf_ipcam_setup_send_done before nf_ipcam_setup_waiting.                 *)
SendDone(t) ==
  /\ pc[t] = "sending" /\ (ssl \/ Resending(t))
  /\ sending' = FALSE
  /\ Go(t, "sent")
  /\ UNCHANGED <<running, way, slot, lastApi, phase, job, historyVars>>

Sender(t) == IF t = Mgr THEN job ELSE t

(* nf_ipcam_setup_waiting.                                                 *)
Waiting(t) ==
  /\ pc[t] = IF ssl \/ Resending(t) THEN "sent" ELSE "sending"
  /\ slot' = [slot EXCEPT !.sock = Sender(t), !.picked = TRUE]
  /\ sending' = FALSE
  /\ Return(t)
  /\ UNCHANGED <<running, way, lastApi, job, historyVars>>

(* cam_setup_failed_req.                                                   *)
FailClose(t) ==
  /\ pc[t] = "failing"
  /\ slot' = [slot EXCEPT !.sock = None, !.picked = FALSE]
  /\ Go(t, "closed")
  /\ UNCHANGED <<running, way, sending, lastApi, phase, job, historyVars>>

FailMark(t) ==
  /\ pc[t] = "closed"
  /\ slot' = [slot EXCEPT !.status = IF @ \in Ongoing THEN "FAILED_REQ" ELSE @]
  /\ Return(t)
  /\ UNCHANGED <<running, way, sending, lastApi, job, historyVars>>

Drive(t) ==
  \/ BeginSending(t) \/ NothingToAwait(t) \/ LibraryFails(t) \/ NotSent(t)
  \/ SendFailed(t) \/ SendDone(t) \/ Waiting(t) \/ FailClose(t) \/ FailMark(t)

-----------------------------------------------------------------------------
(* cam_setup_func, the manager thread: the pass over the answers.          *)
MgrAt(ph) == pc[Mgr] = "ready" /\ phase = ph

(* While the service is stopped the manager only drops the flags.          *)
DropFlags ==
  /\ MgrAt("answers") /\ ~running
  /\ slot' = [slot EXCEPT !.picked = FALSE]
  /\ sending' = FALSE
  /\ UNCHANGED <<running, way, lastApi, pc, phase, job, historyVars>>

NoAnswer ==
  /\ MgrAt("answers") /\ running
  /\ ~slot.picked \/ slot.sock # None
  /\ phase' = "states"
  /\ UNCHANGED <<running, way, slot, sending, lastApi, pc, job, historyVars>>

(* cam_setup_done begins: without a socket there is nothing to wait for.   *)
Finish ==
  /\ slot' = [slot EXCEPT !.sock = None, !.picked = FALSE]
  /\ Go(Mgr, "finishing")
  /\ UNCHANGED <<running, way, sending, lastApi, phase, job, overlooked, told, succeeded,
                 undisturbed>>

NoSocket ==
  /\ MgrAt("answers") /\ running /\ slot.picked /\ slot.sock = None
  /\ Finish
  /\ UNCHANGED answered

Awaiting == MgrAt("answers") /\ running /\ slot.picked /\ slot.sock # None

AnswerOk ==
  /\ Awaiting
  /\ Finish
  /\ answered' = answered \cup {slot.sock}

(* Mutant: every answer is a good one.                                     *)
RefusalIsAnswer == Awaiting /\ Finish /\ UNCHANGED answered

(* Neither "200 OK" nor a digest challenge.                                *)
AnswerBad ==
  /\ Awaiting
  /\ Go(Mgr, "failing")
  /\ UNCHANGED <<running, way, slot, sending, lastApi, phase, job, historyVars>>

(* Mutant: the slot is not given back before the text is sent again.       *)
DigestKeepsSlot ==
  /\ Awaiting
  /\ slot' = [slot EXCEPT !.sock = None]
  /\ Go(Mgr, "drive")
  /\ UNCHANGED <<running, way, sending, lastApi, phase, job, historyVars>>

(* "401 Unauthorized" with a digest challenge: the text is sent again.     *)
AnswerDigest ==
  /\ Awaiting
  /\ slot' = [slot EXCEPT !.sock = None, !.picked = ssl \/ slot.reserved]
  /\ Go(Mgr, "drive")
  /\ UNCHANGED <<running, way, sending, lastApi, phase, job, historyVars>>

(* Mutant: the return code of a request is stored where its state belongs. *)
FinishMarkRtn ==
  /\ pc[Mgr] = "finishing"
  /\ slot' = [slot EXCEPT !.status = IF @ \in Ongoing THEN "RTN_DONE" ELSE @]
  /\ Return(Mgr)
  /\ UNCHANGED <<running, way, sending, lastApi, job, historyVars>>

FinishMark ==
  /\ pc[Mgr] = "finishing"
  /\ slot' = [slot EXCEPT !.status = IF @ \in Ongoing THEN "END_SUCCESS" ELSE @]
  /\ Return(Mgr)
  /\ UNCHANGED <<running, way, sending, lastApi, job, historyVars>>

-----------------------------------------------------------------------------
(* The pass over the states.                                               *)
StateIdle ==
  /\ MgrAt("states") /\ (~running \/ slot.status = "NORMAL")
  /\ phase' = "answers"
  /\ UNCHANGED <<running, way, slot, sending, lastApi, pc, job, historyVars>>

(* Tells the callback BEGIN, then sets PENDING whatever has happened since.*)
StateBegin ==
  /\ MgrAt("states") /\ running /\ slot.status = "BEGIN"
  /\ Go(Mgr, "begun")
  /\ UNCHANGED <<running, way, slot, sending, lastApi, phase, job, historyVars>>

SetPending ==
  /\ pc[Mgr] = "begun"
  /\ slot' = [slot EXCEPT !.status = "PENDING"]
  /\ Return(Mgr)
  /\ UNCHANGED <<running, way, sending, lastApi, job, historyVars>>

(* Tells the callback PENDING, then compares the time with the time-out.   *)
StatePending ==
  /\ MgrAt("states") /\ running /\ slot.status = "PENDING"
  /\ Go(Mgr, "ticking")
  /\ UNCHANGED <<running, way, slot, sending, lastApi, phase, job, historyVars>>

StillTime ==
  /\ pc[Mgr] = "ticking"
  /\ Return(Mgr)
  /\ UNCHANGED <<running, way, slot, sending, lastApi, job, historyVars>>

(* Mutant: nobody looks at the clock.                                      *)
NoClock == pc[Mgr] = "ticking" /\ slot.status = "NORMAL" /\ StillTime

TimeUp ==
  /\ pc[Mgr] = "ticking"
  /\ slot' = [slot EXCEPT !.status = "TIMEOUT"]
  /\ Return(Mgr)
  /\ UNCHANGED <<running, way, sending, lastApi, job, historyVars>>

StateFinal ==
  /\ MgrAt("states") /\ running /\ slot.status \in Final
  /\ slot' = IF slot.status = "TIMEOUT"
               THEN [slot EXCEPT !.sock = None, !.picked = FALSE] ELSE slot
  /\ Go(Mgr, "ending")
  /\ UNCHANGED <<running, way, sending, lastApi, phase, job, historyVars>>

(* Mutant: the callback of a request that timed out is not called.         *)
CallFinalNotLate ==
  /\ pc[Mgr] = "ending"
  /\ IF slot.cbFunc # None /\ slot.status \in Final \ {"TIMEOUT"}
       THEN /\ told' = [told EXCEPT ![slot.cbFunc] = @ + 1]
            /\ succeeded' = IF slot.status = "END_SUCCESS"
                              THEN succeeded \cup {slot.cbFunc} ELSE succeeded
       ELSE UNCHANGED <<told, succeeded>>
  /\ Go(Mgr, "called")
  /\ UNCHANGED <<running, way, slot, sending, lastApi, phase, job, answered, overlooked,
                 undisturbed>>

(* The callback sees the state as it is when it is called.                 *)
CallFinal ==
  /\ pc[Mgr] = "ending"
  /\ IF slot.cbFunc # None /\ slot.status \in Final
       THEN /\ told' = [told EXCEPT ![slot.cbFunc] = @ + 1]
            /\ succeeded' = IF slot.status = "END_SUCCESS"
                              THEN succeeded \cup {slot.cbFunc} ELSE succeeded
       ELSE UNCHANGED <<told, succeeded>>
  /\ Go(Mgr, "called")
  /\ UNCHANGED <<running, way, slot, sending, lastApi, phase, job, answered, overlooked,
                 undisturbed>>

(* Mutant: the reserved callback is also left for the next time.           *)
PromoteKeeping ==
  /\ pc[Mgr] = "called" /\ slot.reserved
  /\ slot' = [slot EXCEPT !.picked = TRUE, !.cbFunc = slot.cbNext, !.status = "BEGIN"]
  /\ Go(Mgr, "drive")
  /\ UNCHANGED <<running, way, sending, lastApi, phase, job, historyVars>>

(* call_setup_reserved follows on the manager's thread.                    *)
Promote ==
  /\ pc[Mgr] = "called" /\ slot.reserved
  /\ slot' = [slot EXCEPT !.picked = TRUE, !.reserved = FALSE, !.cbFunc = slot.cbNext,
                          !.cbNext = None, !.status = "BEGIN"]
  /\ Go(Mgr, "drive")
  /\ UNCHANGED <<running, way, sending, lastApi, phase, job, historyVars>>

Release ==
  /\ pc[Mgr] = "called" /\ ~slot.reserved
  /\ slot' = Cleared
  /\ Return(Mgr)
  /\ UNCHANGED <<running, way, sending, lastApi, job, historyVars>>

Manage ==
  \/ NoAnswer \/ NoSocket \/ AnswerOk \/ AnswerBad \/ AnswerDigest \/ FinishMark
  \/ DropFlags \/ StateIdle \/ StateBegin \/ SetPending \/ StatePending \/ StillTime
  \/ TimeUp \/ StateFinal \/ CallFinal \/ Promote \/ Release

Request(r) == Enter(r) \/ SetCb(r) \/ Enqueue(r) \/ Drive(r)

Next ==
  \/ Start \/ Stop \/ SetupClear
  \/ \E r \in Requests : Request(r)
  \/ Manage \/ Drive(Mgr)

Spec == Init /\ [][Next]_vars

(* The manager's loop never waits for a lock, its sockets time out and time*)
(* passes; no caller, camera or start of the service is fair.              *)
Fairness == WF_vars(Manage \/ Drive(Mgr)) /\ SF_vars(TimeUp)

FairSpec == Spec /\ Fairness

-----------------------------------------------------------------------------
(* No callback is told a final state twice: not by the manager after a     *)
(* time-out and a late answer, not by a reservation made in between, and   *)
(* not when callers race for the slot.                                     *)
ToldAtMostOnce == \A r \in Requests : told[r] <= 1

(* A request that had the slot to itself is told END_SUCCESS only after the*)
(* camera answered it, whether or not the text had to be sent again and    *)
(* wherever its own failure crossed the manager's steps; but for the two   *)
(* failures after which the slot looks as it does after a success: that of *)
(* a library call, until its result is looked at, and that of a digest     *)
(* answer that could not be sent through SSL, whose result is not.  No     *)
(* other failure is told as a success.                                     *)
SuccessWasAnswered == (succeeded \cap undisturbed) \subseteq answered \cup overlooked

(* What cam_setup_done's comment says of every job: it is complete when    *)
(* the answer has been received.                                           *)
SuccessMeansAnswered == (succeeded \cap undisturbed) \subseteq answered

(* A request that keeps the slot to itself is never forgotten, with SSL or *)
(* without: until its callback has been told a final state it stays in the *)
(* slot, in a state the manager looks at, though its caller's failure may  *)
(* cross the manager's passes and the manager writes states it read before.*)
UndisturbedIsKept ==
  \A r \in undisturbed : told[r] = 0 => slot.cbFunc = r /\ slot.status # "NORMAL"

(* A request that keeps the slot to itself is told a final state in the    *)
(* end, whatever the camera does, because of the time-out.                 *)
UndisturbedIsTold ==
  \A r \in Requests : (r \in undisturbed) ~> (told[r] = 1 \/ r \notin undisturbed)

(* How far a request has got: the slot forgets a callback when another one *)
(* takes its place, and when it is cleared.                                *)
Outcome(r) ==
  IF told[r] > 0 THEN IF r \in succeeded THEN "succeeded" ELSE "failed"
  ELSE IF pc[r] \in {"idle", "entered"} THEN "new"
  ELSE IF pc[r] = "refused" THEN "refused"
  ELSE IF r \in {slot.cbFunc, slot.cbNext} THEN "asked" ELSE "lost"

(* The requests as their callers know them.                                *)
Promise == INSTANCE SetupPromise
             WITH outcome <- [r \in Requests |-> Outcome(r)], alone <- undisturbed
PromiseSpec == Promise!Spec
=============================================================================
