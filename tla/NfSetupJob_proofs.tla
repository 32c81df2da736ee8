--------------------------- MODULE NfSetupJob_proofs ---------------------------
(***************************************************************************)
(* Proofs about NfSetupJob for every set of requests: type correctness,    *)
(* that no callback is told a final state twice, that a success was        *)
(* answered, and that a request left to itself is never forgotten.         *)
(***************************************************************************)
EXTENDS NfSetupJob, TLAPS

Places == CallerPlaces \cup DriverPlaces \cup Returned \cup MgrPlaces

(* A step of a thread keeps pc in its type.                                *)
LEMMA GoType ==
  ASSUME pc \in [Threads -> Places], NEW t \in Threads, NEW place \in Places, Go(t, place)
  PROVE  pc' \in [Threads -> Places]
BY DEF Go

LEMMA ReturnType ==
  ASSUME TypeOK, NEW t \in Threads, Return(t)
  PROVE  pc' \in [Threads -> Places] /\ phase' \in {"answers", "states"}
BY DEF TypeOK, Return, Go, OtherPhase, Places, Returned, MgrPlaces

(* Everything that is sent on belongs to a request, or was never written.  *)
LEMMA DataType ==
  ASSUME TypeOK, NEW t \in Threads
  PROVE  DataOf(t) \in Requests \cup {None} /\ Sender(t) \in Requests \cup {None}
BY DEF TypeOK, DataOf, Sender, Threads, Slots

LEMMA TypeOKInit == Init => TypeOK
<1> SUFFICES ASSUME Init
             PROVE  TypeOK
  OBVIOUS
<1>1. slot \in Slots
  BY DEF Init, Cleared, Slots, Statuses
<1>2. pc \in [Threads -> Places]
  BY DEF Init, Places, CallerPlaces, MgrPlaces
<1>3. told \in [Requests -> Nat]
  BY DEF Init
<1>q. QED
  BY <1>1, <1>2, <1>3 DEF Init, TypeOK, Places

(* The driver's steps, on a caller's thread or on the manager's.           *)
LEMMA TypeOKDrive ==
  ASSUME TypeOK, NEW t \in Threads, Drive(t)
  PROVE  TypeOK'
<1>0. /\ pc \in [Threads -> Places] /\ slot \in Slots
      /\ DriverPlaces \subseteq Places /\ sending \in BOOLEAN
      /\ DataOf(t) \in Requests \cup {None} /\ Sender(t) \in Requests \cup {None}
  BY DataType DEF TypeOK, Places
<1>1. CASE BeginSending(t)
  BY <1>0, <1>1 DEF TypeOK, BeginSending, historyVars, Go, DriverPlaces
<1>2. CASE NothingToAwait(t)
  <2>1. pc' \in [Threads -> Places] /\ phase' \in {"answers", "states"}
    BY <1>2, ReturnType DEF NothingToAwait
  <2>2. slot' \in Slots
    BY <1>0, <1>2 DEF NothingToAwait, AwaitNothing, Slots
  <2>3. answered' \subseteq Requests
    BY <1>0, <1>2 DEF TypeOK, NothingToAwait
  <2>q. QED
    BY <1>2, <2>1, <2>2, <2>3 DEF TypeOK, NothingToAwait, AwaitNothing, Places
<1>3. CASE NotSent(t)
  BY <1>0, <1>3 DEF TypeOK, NotSent, historyVars, Go, DriverPlaces
<1>4. CASE SendFailed(t)
  <2>0. overlooked' \subseteq Requests
    BY <1>4 DEF TypeOK, SendFailed
  <2>1. CASE Resending(t)
    <3>1. pc' \in [Threads -> Places] /\ phase' \in {"answers", "states"}
      BY <1>4, <2>1, ReturnType DEF SendFailed
    <3>q. QED
      BY <1>4, <2>0, <3>1 DEF TypeOK, SendFailed, Places
  <2>2. CASE ~Resending(t)
    BY <1>0, <1>4, <2>0, <2>2 DEF TypeOK, SendFailed, Go, DriverPlaces
  <2>q. QED
    BY <2>1, <2>2
<1>5. CASE SendDone(t)
  BY <1>0, <1>5 DEF TypeOK, SendDone, historyVars, Go, DriverPlaces
<1>6. CASE Waiting(t)
  <2>1. pc' \in [Threads -> Places] /\ phase' \in {"answers", "states"}
    BY <1>6, ReturnType DEF Waiting
  <2>2. slot' \in Slots
    BY <1>0, <1>6 DEF Waiting, Slots
  <2>q. QED
    BY <1>6, <2>1, <2>2 DEF TypeOK, Waiting, historyVars, Places
<1>7. CASE FailClose(t)
  <2>1. slot' \in Slots
    BY <1>0, <1>7 DEF FailClose, Slots
  <2>q. QED
    BY <1>0, <1>7, <2>1 DEF TypeOK, FailClose, historyVars, Go, DriverPlaces
<1>8. CASE FailMark(t)
  <2>1. pc' \in [Threads -> Places] /\ phase' \in {"answers", "states"}
    BY <1>8, ReturnType DEF FailMark
  <2>2. slot' \in Slots
    BY <1>0, <1>8 DEF FailMark, Slots, Statuses, Final
  <2>q. QED
    BY <1>8, <2>1, <2>2 DEF TypeOK, FailMark, historyVars, Places
<1>9. CASE LibraryFails(t)
  <2>1. slot' \in Slots
    BY <1>0, <1>9 DEF LibraryFails, AwaitNothing, Slots
  <2>2. overlooked' \subseteq Requests
    BY <1>0, <1>9 DEF TypeOK, LibraryFails
  <2>q. QED
    BY <1>0, <1>9, <2>1, <2>2 DEF TypeOK, LibraryFails, AwaitNothing, Go, DriverPlaces
<1>q. QED
  BY <1>1, <1>2, <1>3, <1>4, <1>5, <1>6, <1>7, <1>8, <1>9 DEF Drive

(* A caller's steps before it drives.                                      *)
LEMMA TypeOKRequest ==
  ASSUME TypeOK, NEW r \in Requests, Request(r)
  PROVE  TypeOK'
<1>0. /\ pc \in [Threads -> Places] /\ slot \in Slots
      /\ CallerPlaces \subseteq Places /\ Returned \subseteq Places
      /\ "drive" \in Places /\ r \in Threads
  BY DEF TypeOK, Places, Threads, DriverPlaces
<1>1. CASE Enter(r)
  BY <1>0, <1>1 DEF TypeOK, Enter, historyVars, Go, CallerPlaces, Returned
<1>2. CASE SetCb(r)
  <2>1. slot' \in Slots
    BY <1>0, <1>2 DEF SetCb, Register, Slots, Statuses, Ongoing
  <2>2. undisturbed' \subseteq Requests
    BY <1>2 DEF TypeOK, SetCb
  <2>3. pc' \in [Threads -> Places]
    BY <1>0, <1>2 DEF SetCb, Go, CallerPlaces
  <2>q. QED
    BY <1>2, <2>1, <2>2, <2>3 DEF TypeOK, SetCb, Places
<1>3. CASE Enqueue(r)
  <2>1. slot' \in Slots
    BY <1>0, <1>3 DEF Enqueue, Slots
  <2>2. pc' \in [Threads -> Places]
    BY <1>0, <1>3 DEF Enqueue, Go, Returned
  <2>q. QED
    BY <1>3, <2>1, <2>2 DEF TypeOK, Enqueue, historyVars, Places
<1>4. CASE Drive(r)
  BY <1>0, <1>4, TypeOKDrive
<1>q. QED
  BY <1>1, <1>2, <1>3, <1>4 DEF Request

(* The manager's steps that change neither the slot nor what was told.     *)
Watch ==
  \/ NoAnswer \/ AnswerBad \/ StateIdle \/ StateBegin \/ StatePending \/ StillTime

(* Its steps that change the slot, but not whom it is for.                 *)
Settle ==
  \/ NoSocket \/ AnswerOk \/ AnswerDigest \/ FinishMark \/ DropFlags
  \/ SetPending \/ TimeUp \/ StateFinal

LEMMA TypeOKWatch ==
  ASSUME TypeOK, Watch
  PROVE  TypeOK'
<1>0. /\ pc \in [Threads -> Places] /\ Mgr \in Threads
      /\ MgrPlaces \subseteq Places /\ DriverPlaces \subseteq Places
  BY DEF TypeOK, Places, Threads
<1>1. CASE NoAnswer \/ StateIdle
  BY <1>1 DEF TypeOK, NoAnswer, StateIdle, historyVars
<1>2. CASE AnswerBad
  BY <1>0, <1>2 DEF TypeOK, AnswerBad, historyVars, Go, DriverPlaces
<1>3. CASE StateBegin \/ StatePending
  BY <1>0, <1>3 DEF TypeOK, StateBegin, StatePending, historyVars, Go, MgrPlaces
<1>4. CASE StillTime
  <2>1. pc' \in [Threads -> Places] /\ phase' \in {"answers", "states"}
    BY <1>0, <1>4, ReturnType DEF StillTime
  <2>q. QED
    BY <1>4, <2>1 DEF TypeOK, StillTime, historyVars, Places
<1>q. QED
  BY <1>1, <1>2, <1>3, <1>4 DEF Watch

LEMMA TypeOKSettle ==
  ASSUME TypeOK, Settle
  PROVE  TypeOK'
<1>0. /\ pc \in [Threads -> Places] /\ Mgr \in Threads /\ slot \in Slots
      /\ MgrPlaces \subseteq Places /\ DriverPlaces \subseteq Places
  BY DEF TypeOK, Places, Threads
<1>1. CASE NoSocket
  <2>1. slot' \in Slots
    BY <1>0, <1>1 DEF NoSocket, Finish, Slots
  <2>q. QED
    BY <1>0, <1>1, <2>1 DEF TypeOK, NoSocket, Finish, Go, MgrPlaces
<1>2. CASE AnswerOk
  <2>1. slot' \in Slots
    BY <1>0, <1>2 DEF AnswerOk, Finish, Slots
  <2>2. answered' \subseteq Requests
    BY <1>0, <1>2 DEF TypeOK, AnswerOk, Awaiting, Slots
  <2>q. QED
    BY <1>0, <1>2, <2>1, <2>2 DEF TypeOK, AnswerOk, Finish, Go, MgrPlaces
<1>3. CASE AnswerDigest
  <2>1. ssl \/ slot.reserved \in BOOLEAN
    BY DEF TypeOK, Slots
  <2>2. slot' \in Slots
    BY <1>0, <1>3, <2>1 DEF AnswerDigest, Slots
  <2>q. QED
    BY <1>0, <1>3, <2>2 DEF TypeOK, AnswerDigest, historyVars, Go, DriverPlaces
<1>4. CASE DropFlags
  <2>1. slot' \in Slots
    BY <1>0, <1>4 DEF DropFlags, Slots
  <2>q. QED
    BY <1>4, <2>1 DEF TypeOK, DropFlags, historyVars
<1>5. CASE FinishMark \/ SetPending \/ TimeUp
  <2>1. pc' \in [Threads -> Places] /\ phase' \in {"answers", "states"}
    BY <1>0, <1>5, ReturnType DEF FinishMark, SetPending, TimeUp
  <2>2. slot' \in Slots
    BY <1>0, <1>5 DEF FinishMark, SetPending, TimeUp, Slots, Statuses, Final, Ongoing
  <2>q. QED
    BY <1>5, <2>1, <2>2 DEF TypeOK, FinishMark, SetPending, TimeUp, historyVars, Places
<1>6. CASE StateFinal
  <2>1. slot' \in Slots
    BY <1>0, <1>6 DEF StateFinal, Slots
  <2>q. QED
    BY <1>0, <1>6, <2>1 DEF TypeOK, StateFinal, historyVars, Go, MgrPlaces
<1>q. QED
  BY <1>1, <1>2, <1>3, <1>4, <1>5, <1>6 DEF Settle

LEMMA TypeOKEnd ==
  ASSUME TypeOK, CallFinal \/ Promote \/ Release
  PROVE  TypeOK'
<1>0. /\ pc \in [Threads -> Places] /\ Mgr \in Threads /\ slot \in Slots
      /\ MgrPlaces \subseteq Places /\ DriverPlaces \subseteq Places
  BY DEF TypeOK, Places, Threads
<1>1. CASE CallFinal
  <2>1. told' \in [Requests -> Nat] /\ succeeded' \subseteq Requests
    BY <1>0, <1>1 DEF TypeOK, CallFinal, Slots
  <2>q. QED
    BY <1>0, <1>1, <2>1 DEF TypeOK, CallFinal, Go, MgrPlaces
<1>2. CASE Promote
  <2>1. slot' \in Slots
    BY <1>0, <1>2 DEF Promote, Slots, Statuses, Ongoing
  <2>q. QED
    BY <1>0, <1>2, <2>1 DEF TypeOK, Promote, historyVars, Go, DriverPlaces
<1>3. CASE Release
  <2>1. pc' \in [Threads -> Places] /\ phase' \in {"answers", "states"}
    BY <1>0, <1>3, ReturnType DEF Release
  <2>2. slot' \in Slots
    BY <1>3 DEF Release, Cleared, Slots, Statuses
  <2>q. QED
    BY <1>3, <2>1, <2>2 DEF TypeOK, Release, historyVars, Places
<1>q. QED
  BY <1>1, <1>2, <1>3

LEMMA TypeOKNext == TypeOK /\ [Next]_vars => TypeOK'
<1> SUFFICES ASSUME TypeOK, [Next]_vars
             PROVE  TypeOK'
  OBVIOUS
<1>1. CASE Start \/ Stop
  BY <1>1 DEF TypeOK, Start, Stop, historyVars
<1>2. CASE SetupClear
  <2>1. slot' \in Slots
    BY <1>2 DEF TypeOK, SetupClear, Slots
  <2>q. QED
    BY <1>2, <2>1 DEF TypeOK, SetupClear
<1>3. ASSUME NEW r \in Requests, Request(r)
      PROVE  TypeOK'
  BY <1>3, TypeOKRequest
<1>4. CASE Manage
  BY <1>4, TypeOKWatch, TypeOKSettle, TypeOKEnd DEF Manage, Watch, Settle
<1>5. CASE Drive(Mgr)
  BY <1>5, TypeOKDrive DEF Threads
<1>6. CASE UNCHANGED vars
  BY <1>6 DEF TypeOK, vars, historyVars
<1>q. QED
  BY <1>1, <1>2, <1>3, <1>4, <1>5, <1>6 DEF Next

(* Whatever callers, camera and manager do, the slot and the threads are in*)
(* a state the code has a name for.                                        *)
THEOREM TypeCorrect == Spec => []TypeOK
<1>1. Init => TypeOK
  BY TypeOKInit
<1>2. TypeOK /\ [Next]_vars => TypeOK'
  BY TypeOKNext
<1>q. QED
  BY <1>1, <1>2, PTL DEF Spec

-----------------------------------------------------------------------------
(* A request that has not registered is in no field of the slot; one in a  *)
(* field has been told nothing yet, but for the one whose callback has just*)
(* returned; and none is in both fields.                                   *)
Early == {"idle", "entered", "refused"}

HeldInv ==
  \A r \in Requests :
    /\ told[r] <= 1
    /\ slot.cbFunc = r => told[r] = 0 \/ pc[Mgr] = "called"
    /\ slot.cbNext = r => told[r] = 0 /\ slot.cbFunc # r
    /\ pc[r] \in Early => told[r] = 0 /\ slot.cbFunc # r /\ slot.cbNext # r

(* Steps that leave the two callbacks alone.                               *)
Keeps ==
  /\ slot'.cbFunc = slot.cbFunc /\ slot'.cbNext = slot.cbNext /\ told' = told
  /\ pc[Mgr] = "called" => pc'[Mgr] = "called"
  /\ \A r \in Requests : pc'[r] \in Early => pc[r] \in Early

LEMMA KeepsHeld ==
  ASSUME HeldInv, Keeps
  PROVE  HeldInv'
BY DEF HeldInv, Keeps

LEMMA HeldInit == Init => HeldInv
<1>1. ASSUME Init
      PROVE  /\ told = [r \in Requests |-> 0]
             /\ slot.cbFunc \notin Requests /\ slot.cbNext \notin Requests
  BY <1>1, NfSetupJobAssumption DEF Init, Cleared
<1>2. ASSUME told = [r \in Requests |-> 0], NEW r \in Requests
      PROVE  told[r] = 0 /\ told[r] <= 1
  BY <1>2
<1>q. QED
  BY <1>1, <1>2 DEF HeldInv

(* The driver knows nothing of callbacks.                                  *)
LEMMA KeepsDrive ==
  ASSUME TypeOK, NEW t \in Threads, Drive(t)
  PROVE  Keeps
<1>0. /\ pc \in [Threads -> Places] /\ slot \in Slots /\ Mgr \in Threads
      /\ Requests \subseteq Threads
  BY DEF TypeOK, Places, Threads
<1>1. pc[t] \in DriverPlaces /\ told' = told
  BY DEF Drive, DriverPlaces, historyVars, BeginSending, NothingToAwait, AwaitNothing,
     LibraryFails, NotSent,
         SendFailed, SendDone, Waiting, FailClose, FailMark
<1>5. slot'.cbFunc = slot.cbFunc /\ slot'.cbNext = slot.cbNext
  <2>1. CASE NothingToAwait(t) \/ LibraryFails(t) \/ Waiting(t)
    BY <1>0, <2>1 DEF Slots, NothingToAwait, LibraryFails, AwaitNothing, Waiting
  <2>2. CASE FailClose(t)
    BY <1>0, <2>2 DEF Slots, FailClose
  <2>3. CASE FailMark(t)
    BY <1>0, <2>3 DEF Slots, FailMark
  <2>4. CASE BeginSending(t) \/ NotSent(t) \/ SendFailed(t) \/ SendDone(t)
    BY <2>4 DEF BeginSending, NotSent, SendFailed, SendDone
  <2>q. QED
    BY <2>1, <2>2, <2>3, <2>4 DEF Drive
<1>2. \E place \in DriverPlaces \cup {"returned", "ready"} :
         Go(t, place) /\ (place = "ready" => t = Mgr)
  BY DEF Drive, BeginSending, NothingToAwait, LibraryFails, NotSent, SendFailed,
     SendDone, Waiting,
         FailClose, FailMark, Return, DriverPlaces
<1>3. pc[Mgr] = "called" => pc'[Mgr] = "called"
  BY <1>0, <1>1, <1>2 DEF Go, DriverPlaces
<1>4. ASSUME NEW r \in Requests, pc'[r] \in Early
      PROVE  pc[r] \in Early
  BY <1>0, <1>1, <1>2, <1>4 DEF Go, DriverPlaces, Early
<1>q. QED
  BY <1>1, <1>3, <1>4, <1>5 DEF Keeps

LEMMA KeepsManage ==
  ASSUME TypeOK, Watch \/ Settle
  PROVE  Keeps
<1>0. /\ pc \in [Threads -> Places] /\ slot \in Slots /\ Mgr \in Threads
      /\ Requests \subseteq Threads
  BY DEF TypeOK, Places, Threads
<1>1. told' = told
  BY DEF Watch, Settle, historyVars, NoAnswer, AnswerBad, StateIdle, StateBegin,
         StatePending, StillTime, NoSocket, AnswerOk, Finish, AnswerDigest, FinishMark,
         DropFlags, SetPending, TimeUp, StateFinal
<1>2. slot'.cbFunc = slot.cbFunc /\ slot'.cbNext = slot.cbNext
  <2>1. CASE Watch
    BY <2>1 DEF Watch, NoAnswer, AnswerBad, StateIdle, StateBegin, StatePending, StillTime
  <2>2. CASE NoSocket \/ AnswerOk \/ AnswerDigest \/ DropFlags
    BY <1>0, <2>2 DEF Slots, NoSocket, AnswerOk, Finish, AnswerDigest, DropFlags
  <2>3. CASE FinishMark
    BY <1>0, <2>3 DEF Slots, FinishMark
  <2>4. CASE SetPending \/ TimeUp
    BY <1>0, <2>4 DEF Slots, SetPending, TimeUp
  <2>5. CASE StateFinal
    BY <1>0, <2>5 DEF Slots, StateFinal
  <2>q. QED
    BY <2>1, <2>2, <2>3, <2>4, <2>5 DEF Settle
<1>3. pc[Mgr] # "called"
      /\ (pc' = pc \/ \E place : Go(Mgr, place))
  BY DEF Watch, Settle, MgrAt, Awaiting, NoAnswer, AnswerBad, StateIdle, StateBegin,
         StatePending, StillTime, NoSocket, AnswerOk, Finish, AnswerDigest, FinishMark,
         DropFlags, SetPending, TimeUp, StateFinal, Return
<1>4. ASSUME NEW r \in Requests, pc'[r] \in Early
      PROVE  pc[r] \in Early
  BY <1>0, <1>3, <1>4, NfSetupJobAssumption DEF Go
<1>q. QED
  BY <1>1, <1>2, <1>3, <1>4 DEF Keeps

(* A caller enters the slot from outside it.                               *)
LEMMA HeldRequest ==
  ASSUME TypeOK, HeldInv, NEW r \in Requests, Request(r)
  PROVE  HeldInv'
<1>0. /\ pc \in [Threads -> Places] /\ slot \in Slots /\ Mgr \in Threads
      /\ Requests \subseteq Threads /\ r # Mgr
  BY NfSetupJobAssumption DEF TypeOK, Places, Threads
<1>1. CASE Enter(r)
  <2>1. Keeps
    BY <1>0, <1>1 DEF Keeps, Enter, historyVars, Go, Early
  <2>q. QED
    BY <2>1, KeepsHeld
<1>2. CASE SetCb(r)
  <2>1. pc[r] = "entered" /\ pc' = [pc EXCEPT ![r] = "registered"] /\ told' = told
    BY <1>2 DEF SetCb, Go
  <2>2. \/ slot'.cbFunc = slot.cbFunc /\ slot'.cbNext = r
        \/ slot'.cbFunc = r /\ slot'.cbNext = slot.cbNext
    BY <1>0, <1>2 DEF SetCb, Register, Slots
  <2>3. told[r] = 0 /\ slot.cbFunc # r /\ slot.cbNext # r
    BY <2>1 DEF HeldInv, Early
  <2>q. QED
    BY <1>0, <2>1, <2>2, <2>3 DEF HeldInv, Early
<1>3. CASE Enqueue(r)
  <2>1. slot'.cbFunc = slot.cbFunc /\ slot'.cbNext = slot.cbNext
    BY <1>0, <1>3 DEF Enqueue, Slots
  <2>2. Keeps
    BY <1>0, <1>3, <2>1 DEF Keeps, Enqueue, historyVars, Go, Early
  <2>q. QED
    BY <2>2, KeepsHeld
<1>4. CASE Drive(r)
  BY <1>0, <1>4, KeepsDrive, KeepsHeld
<1>q. QED
  BY <1>1, <1>2, <1>3, <1>4 DEF Request

(* The manager tells the callback and then takes it out of the slot.       *)
LEMMA HeldEnd ==
  ASSUME TypeOK, HeldInv, CallFinal \/ Promote \/ Release
  PROVE  HeldInv'
<1>0. /\ pc \in [Threads -> Places] /\ slot \in Slots /\ Mgr \in Threads
      /\ Requests \subseteq Threads /\ Mgr \notin Requests /\ None \notin Requests
      /\ told \in [Requests -> Nat]
  BY NfSetupJobAssumption DEF TypeOK, Places, Threads
<1>1. CASE CallFinal
  <2>1. pc[Mgr] = "ending" /\ pc' = [pc EXCEPT ![Mgr] = "called"] /\ slot' = slot
    BY <1>1 DEF CallFinal, Go
  <2>2. \A r \in Requests : told'[r] = told[r] \/ (r = slot.cbFunc /\ told'[r] = told[r] + 1)
    BY <1>0, <1>1 DEF CallFinal, Slots
  <2>3. ASSUME NEW r \in Requests, slot.cbFunc # r
        PROVE  told'[r] = told[r]
    BY <2>2, <2>3
  <2>4. ASSUME NEW r \in Requests
        PROVE  told'[r] <= 1
    <3>1. told[r] <= 1 /\ (slot.cbFunc = r => told[r] = 0)
      BY <2>1 DEF HeldInv
    <3>q. QED
      BY <1>0, <2>2, <3>1
  <2>5. ASSUME NEW r \in Requests
        PROVE  pc'[r] = pc[r]
    BY <1>0, <2>1
  <2>6. pc'[Mgr] = "called"
    BY <1>0, <2>1
  <2>q. QED
    BY <2>1, <2>3, <2>4, <2>5, <2>6 DEF HeldInv
<1>2. CASE Promote
  <2>1. slot'.cbFunc = slot.cbNext /\ slot'.cbNext = None /\ told' = told
    BY <1>0, <1>2 DEF Promote, Slots, historyVars
  <2>2. ASSUME NEW r \in Requests
        PROVE  pc'[r] = pc[r]
    BY <1>0, <1>2 DEF Promote, Go
  <2>q. QED
    BY <1>0, <2>1, <2>2 DEF HeldInv
<1>3. CASE Release
  <2>1. slot'.cbFunc = None /\ slot'.cbNext = None /\ told' = told
    BY <1>3 DEF Release, Cleared, historyVars
  <2>2. ASSUME NEW r \in Requests
        PROVE  pc'[r] = pc[r]
    BY <1>0, <1>3 DEF Release, Return, Go
  <2>q. QED
    BY <1>0, <2>1, <2>2 DEF HeldInv
<1>q. QED
  BY <1>1, <1>2, <1>3

LEMMA HeldNext == TypeOK /\ HeldInv /\ [Next]_vars => HeldInv'
<1> SUFFICES ASSUME TypeOK, HeldInv, [Next]_vars
             PROVE  HeldInv'
  OBVIOUS
<1>1. CASE Start \/ Stop
  BY <1>1 DEF HeldInv, Start, Stop, historyVars
<1>2. CASE SetupClear
  <2>1. slot'.cbFunc = slot.cbFunc /\ slot'.cbNext = slot.cbNext
    BY <1>2 DEF TypeOK, Slots, SetupClear
  <2>q. QED
    BY <1>2, <2>1 DEF HeldInv, SetupClear
<1>3. ASSUME NEW r \in Requests, Request(r)
      PROVE  HeldInv'
  BY <1>3, HeldRequest
<1>4. CASE Manage
  BY <1>4, KeepsManage, KeepsHeld, HeldEnd DEF Manage, Watch, Settle
<1>5. CASE Drive(Mgr)
  BY <1>5, KeepsDrive, KeepsHeld DEF Threads
<1>6. CASE UNCHANGED vars
  BY <1>6 DEF HeldInv, vars, historyVars
<1>q. QED
  BY <1>1, <1>2, <1>3, <1>4, <1>5, <1>6 DEF Next

(* However callers race with each other and with the manager, no callback  *)
(* is told a final state of its request twice.                             *)
THEOREM ToldOnceCorrect == Spec => []ToldAtMostOnce
<1>1. Init => TypeOK /\ HeldInv
  BY TypeOKInit, HeldInit
<1>2. TypeOK /\ HeldInv /\ [Next]_vars => TypeOK' /\ HeldInv'
  BY TypeOKNext, HeldNext
<1>3. HeldInv => ToldAtMostOnce
  BY DEF HeldInv, ToldAtMostOnce
<1>q. QED
  BY <1>1, <1>2, <1>3, PTL DEF Spec
-----------------------------------------------------------------------------
(* A success was answered.  A request that had the slot to itself is either*)
(* over, its callback out of the slot and its caller back, or the slot is  *)
(* its own: whatever is in the slot or on its way is of this request, and  *)
(* what says that there is nothing left to wait for follows the answer, or *)
(* a failure that is taken for one.                                        *)
Over(r) == pc[r] = "returned" /\ slot.cbFunc # r /\ slot.cbNext # r

Registered == {"registered", "returned"} \cup DriverPlaces

(* Nobody else has a part in the slot.                                     *)
Sole(r) ==
  /\ \A q \in Requests \ {r} : pc[q] \in {"idle", "entered"} \cup Returned
  /\ ~slot.reserved /\ slot.cbNext = None
  /\ slot.cbFunc \in {r, None} /\ slot.sock \in {r, None}

(* The text sent last, which a digest answer sends again, is that of r.    *)
OwnText(r) ==
  /\ pc[r] = "registered" => ~slot.picked /\ ~sending
  /\ slot.sock = r \/ pc[r] \in {"sending", "sent"} => lastApi = r
  /\ pc[Mgr] \in {"drive", "sending", "sent"} =>
       pc[r] # "registered" /\ phase = "answers" /\ lastApi = r
  /\ pc[Mgr] \in {"sending", "sent"} => job = r

(* Answered, or failed where the code takes that for an answer.            *)
Settled == answered \cup overlooked

(* No success, and no way to it, but through an answer.                    *)
AnswerFirst(r) ==
  /\ slot.picked /\ slot.sock = None =>
       r \in Settled \/ (ssl /\ pc[Mgr] \in {"drive", "sending", "sent"})
  /\ pc[Mgr] = "finishing" \/ slot.status = "END_SUCCESS" => r \in Settled

Mine(r) == Sole(r) /\ OwnText(r) /\ AnswerFirst(r)

SoloInv ==
  \A r \in undisturbed : /\ pc[r] \in Registered
                         /\ r \in succeeded => r \in Settled
                         /\ Over(r) \/ Mine(r)

(* A success is one of the times a callback was told.                      *)
ToldInv == \A r \in succeeded : told[r] >= 1

LEMMA ToldStep == TypeOK /\ ToldInv /\ [Next]_vars => ToldInv'
<1> SUFFICES ASSUME TypeOK, ToldInv, [Next]_vars
             PROVE  ToldInv'
  OBVIOUS
<1>0. told \in [Requests -> Nat] /\ succeeded \subseteq Requests
  BY DEF TypeOK
<1>1. CASE CallFinal
  BY <1>0, <1>1 DEF ToldInv, CallFinal, TypeOK, Slots
<1>2. CASE ~CallFinal
  <2>1. told' = told /\ succeeded' = succeeded
    BY <1>2 DEF Next, Request, Manage, Drive, vars, historyVars, Start, Stop, SetupClear,
       Enter, SetCb, Enqueue, BeginSending, NothingToAwait, AwaitNothing, LibraryFails,
       NotSent, SendFailed, SendDone,
       Waiting, FailClose, FailMark, NoAnswer, NoSocket, AnswerOk, AnswerBad, AnswerDigest,
       FinishMark, DropFlags, StateIdle, StateBegin, SetPending, StatePending, StillTime,
       TimeUp, StateFinal, Promote, Release, Finish
  <2>q. QED
    BY <2>1 DEF ToldInv
<1>q. QED
  BY <1>1, <1>2

(* What is over stays over, and is told nothing more.                      *)
LEMMA OverStays ==
  ASSUME TypeOK, NEW r \in Requests, Over(r), [Next]_vars
  PROVE  Over(r)' /\ (r \in succeeded' => r \in succeeded)
<1>0. /\ pc \in [Threads -> Places] /\ slot \in Slots /\ Mgr \in Threads
      /\ r \in Threads /\ r # Mgr /\ r # None /\ Requests \subseteq Threads
  BY NfSetupJobAssumption DEF TypeOK, Places, Threads
<1>1. ASSUME Keeps, NEW t \in Threads, t # r, NEW place, pc' = pc \/ Go(t, place),
             succeeded' = succeeded
      PROVE  Over(r)' /\ (r \in succeeded' => r \in succeeded)
  BY <1>0, <1>1 DEF Over, Keeps, Go
<1>2. ASSUME NEW t \in Threads, Drive(t)
      PROVE  Over(r)' /\ (r \in succeeded' => r \in succeeded)
  <2>1. t # r
    BY <1>2 DEF Over, Drive, BeginSending, NothingToAwait, AwaitNothing, LibraryFails,
       NotSent, SendFailed, SendDone,
       Waiting, FailClose, FailMark
  <2>2. \E place : Go(t, place)
    BY <1>2 DEF Drive, BeginSending, NothingToAwait, LibraryFails, NotSent, SendFailed,
     SendDone, Waiting,
       FailClose, FailMark, Return
  <2>3. succeeded' = succeeded
    BY <1>2 DEF Drive, BeginSending, NothingToAwait, LibraryFails, NotSent, SendFailed,
     SendDone, Waiting,
       FailClose, FailMark, historyVars
  <2>q. QED
    BY <1>1, <1>2, <2>1, <2>2, <2>3, KeepsDrive
<1>3. CASE Watch \/ Settle
  <2>1. pc' = pc \/ \E place : Go(Mgr, place)
    BY <1>3 DEF Watch, Settle, NoAnswer, AnswerBad, StateIdle, StateBegin, StatePending,
       StillTime, NoSocket, AnswerOk, Finish, AnswerDigest, FinishMark, DropFlags,
       SetPending, TimeUp, StateFinal, Return
  <2>2. succeeded' = succeeded
    BY <1>3 DEF Watch, Settle, historyVars, NoAnswer, AnswerBad, StateIdle, StateBegin,
       StatePending, StillTime, NoSocket, AnswerOk, Finish, AnswerDigest, FinishMark,
       DropFlags, SetPending, TimeUp, StateFinal
  <2>q. QED
    BY <1>0, <1>1, <1>3, <2>1, <2>2, KeepsManage
<1>4. CASE CallFinal
  BY <1>0, <1>4 DEF CallFinal, Over, Go
<1>5. CASE Promote
  BY <1>0, <1>5 DEF Promote, Over, Go, Slots, historyVars
<1>6. CASE Release
  BY <1>0, <1>6 DEF Release, Cleared, Over, Return, Go, historyVars
<1>7. ASSUME NEW q \in Requests, Enter(q) \/ SetCb(q) \/ Enqueue(q)
      PROVE  Over(r)' /\ (r \in succeeded' => r \in succeeded)
  <2>1. q # r /\ succeeded' = succeeded
    BY <1>7 DEF Enter, SetCb, Enqueue, Over, historyVars
  <2>2. pc'[r] = pc[r]
    BY <1>0, <1>7, <2>1 DEF Enter, SetCb, Enqueue, Go
  <2>3. slot'.cbFunc \in {slot.cbFunc, q} /\ slot'.cbNext \in {slot.cbNext, q}
    BY <1>0, <1>7 DEF Enter, SetCb, Enqueue, Register, Slots
  <2>q. QED
    BY <2>1, <2>2, <2>3 DEF Over
<1>8. CASE Start \/ Stop \/ SetupClear \/ UNCHANGED vars
  BY <1>0, <1>8 DEF Start, Stop, SetupClear, vars, historyVars, Over, Slots
<1>q. QED
  BY <1>2, <1>3, <1>4, <1>5, <1>6, <1>7, <1>8 DEF Next, Request, Manage, Threads, Watch,
     Settle

(* The driver works for the one request, on its own thread or the manager's*)
LEMMA MineDrive ==
  ASSUME TypeOK, NEW r \in Requests, pc[r] \in Registered, Mine(r),
         NEW t \in Threads, Drive(t)
  PROVE  pc'[r] \in Registered /\ Mine(r)' /\ succeeded' = succeeded
<1>0. /\ pc \in [Threads -> Places] /\ slot \in Slots /\ Mgr \in Threads
      /\ r \in Threads /\ r # Mgr /\ r # None /\ Requests \subseteq Threads
      /\ Mgr \notin Requests
  BY NfSetupJobAssumption DEF TypeOK, Places, Threads
<1>1. Sole(r) /\ OwnText(r) /\ AnswerFirst(r)
  BY DEF Mine
<1>2. t \in {r, Mgr} /\ pc[t] \in DriverPlaces
  <2>1. pc[t] \in DriverPlaces
    BY DEF DriverPlaces, Drive, BeginSending, NothingToAwait, AwaitNothing, LibraryFails,
       NotSent, SendFailed,
       SendDone, Waiting, FailClose, FailMark
  <2>q. QED
    BY <1>0, <1>1, <2>1 DEF Threads, Sole, DriverPlaces, Returned
<1>3. pc[t] \in {"drive", "sending", "sent"} /\ t = Mgr =>
        Resending(t) /\ DataOf(t) = r /\ pc[r] # "registered"
  BY <1>1 DEF OwnText, Resending, DataOf
<1>4. pc[t] \in {"sending", "sent"} => Sender(t) = r
  BY <1>1, <1>2 DEF OwnText, Sender
<1>5. t = r => DataOf(t) = r
  BY <1>0 DEF DataOf
<1>6. ASSUME NEW place \in Places, Go(t, place),
             t = r => place \in Registered
      PROVE  /\ pc'[t] = place /\ pc'[r] \in Registered
             /\ \A u \in Threads \ {t} : pc'[u] = pc[u]
  BY <1>0, <1>2, <1>6 DEF Go
<1>7. \E place \in DriverPlaces \cup {"returned", "ready"} :
         Go(t, place) /\ (place = "ready" => t = Mgr)
  BY DEF Drive, BeginSending, NothingToAwait, LibraryFails, NotSent, SendFailed,
     SendDone, Waiting,
         FailClose, FailMark, Return, DriverPlaces
<1>8. /\ pc'[r] \in Registered
      /\ \A u \in Threads \ {t} : pc'[u] = pc[u]
      /\ pc'[r] # "registered" \/ (pc'[r] = pc[r] /\ t = Mgr)
  BY <1>0, <1>2, <1>6, <1>7 DEF Registered, Places, DriverPlaces, Returned, MgrPlaces, Go
<1>9. succeeded' = succeeded /\ Settled \subseteq Settled'
  BY DEF Drive, BeginSending, NothingToAwait, LibraryFails, NotSent, SendFailed,
     SendDone, Waiting,
         FailClose, FailMark, historyVars, Settled
<1>12. ssl' = ssl
  BY DEF Drive, BeginSending, NothingToAwait, LibraryFails, NotSent, SendFailed, SendDone,
         Waiting, FailClose, FailMark, ssl
<1>10. Sole(r)'
  <2>1. /\ slot'.reserved = slot.reserved /\ slot'.cbFunc = slot.cbFunc
        /\ slot'.cbNext = slot.cbNext /\ slot'.sock \in {slot.sock, r, None}
    <3>1. CASE NothingToAwait(t) \/ LibraryFails(t)
      BY <1>0, <3>1 DEF Slots, NothingToAwait, LibraryFails, AwaitNothing
    <3>2. CASE Waiting(t)
      BY <1>0, <1>4, <3>2 DEF Slots, Waiting
    <3>3. CASE FailClose(t)
      BY <1>0, <3>3 DEF Slots, FailClose
    <3>4. CASE FailMark(t)
      BY <1>0, <3>4 DEF Slots, FailMark
    <3>5. CASE BeginSending(t) \/ NotSent(t) \/ SendFailed(t) \/ SendDone(t)
      BY <3>5 DEF BeginSending, NotSent, SendFailed, SendDone
    <3>q. QED
      BY <3>1, <3>2, <3>3, <3>4, <3>5 DEF Drive
  <2>2. \A q \in Requests \ {r} : pc'[q] = pc[q]
    BY <1>0, <1>2, <1>8
  <2>q. QED
    BY <1>1, <2>1, <2>2 DEF Sole
<1>11. OwnText(r)' /\ AnswerFirst(r)'
  <2>1. CASE BeginSending(t)
    BY <1>0, <1>1, <1>2, <1>3, <1>5, <1>8, <1>12, <2>1
    DEF BeginSending, OwnText, AnswerFirst, Settled, Go, historyVars, Registered
  <2>2. CASE NothingToAwait(t) \/ LibraryFails(t)
    <3>1. t = r /\ r \in Settled' /\ pc'[r] \in {"returned", "failing"}
          /\ \A u \in Threads \ {r} : pc'[u] = pc[u]
      BY <1>0, <1>2, <1>3, <1>5, <1>8, <2>2
         DEF NothingToAwait, LibraryFails, Return, Go, Settled
    <3>2. /\ slot'.sock = None /\ slot'.status = slot.status
          /\ lastApi' = lastApi /\ phase' = phase /\ job' = job
      BY <1>0, <2>2, <3>1 DEF NothingToAwait, LibraryFails, AwaitNothing, Slots, Return
    <3>q. QED
      BY <1>0, <1>1, <3>1, <3>2 DEF OwnText, AnswerFirst
  <2>3. CASE NotSent(t)
    BY <1>0, <1>1, <1>2, <1>3, <1>8, <1>12, <2>3
    DEF NotSent, OwnText, AnswerFirst, Settled, Go, historyVars
  <2>4. CASE SendFailed(t)
    <3>1. /\ slot' = slot /\ lastApi' = lastApi /\ job' = job
          /\ sending' = FALSE
          /\ pc'[t] \in {"returned", "ready", "failing"}
          /\ t = r => phase' = phase
      BY <1>0, <2>4 DEF SendFailed, Return, Go
    <3>2. OwnText(r)'
      BY <1>0, <1>1, <1>2, <1>3, <1>8, <3>1 DEF OwnText
    <3>3. t = Mgr /\ ssl => r \in Settled'
      BY <1>0, <1>3, <1>4, <2>4 DEF SendFailed, Settled, Sender
    <3>4. t = r => pc'[Mgr] = pc[Mgr]
      BY <1>0, <1>8
    <3>q. QED
      BY <1>1, <1>2, <1>9, <1>12, <3>1, <3>2, <3>3, <3>4 DEF AnswerFirst
  <2>5. CASE SendDone(t)
    BY <1>0, <1>1, <1>2, <1>3, <1>8, <1>12, <2>5
    DEF SendDone, OwnText, AnswerFirst, Settled, Go, historyVars
  <2>6. CASE Waiting(t)
    <3>1. /\ slot'.sock = r /\ slot'.status = slot.status /\ lastApi' = lastApi
          /\ job' = job /\ sending' = FALSE
          /\ pc[t] \in {"sending", "sent"} /\ pc'[t] \in {"returned", "ready"}
          /\ t = r => phase' = phase
      BY <1>0, <1>4, <2>6 DEF Waiting, Slots, Return, Go
    <3>2. lastApi = r /\ pc'[r] # "registered"
      BY <1>1, <1>2, <1>3, <1>8, <3>1 DEF OwnText
    <3>q. QED
      BY <1>0, <1>1, <1>2, <1>8, <1>9, <3>1, <3>2 DEF OwnText, AnswerFirst
  <2>7. CASE FailClose(t)
    <3>1. /\ slot'.sock = None /\ ~slot'.picked /\ slot'.status = slot.status
          /\ lastApi' = lastApi /\ job' = job
          /\ sending' = sending /\ phase' = phase /\ pc'[t] = "closed"
      BY <1>0, <2>7 DEF FailClose, Slots, Go
    <3>q. QED
      BY <1>0, <1>1, <1>2, <1>8, <1>9, <3>1 DEF OwnText, AnswerFirst
  <2>8. CASE FailMark(t)
    <3>1. /\ slot'.sock = slot.sock /\ slot'.picked = slot.picked
          /\ slot'.status \in {slot.status, "FAILED_REQ"}
          /\ lastApi' = lastApi /\ job' = job
          /\ sending' = sending /\ pc'[t] \in {"returned", "ready"}
          /\ t = r => phase' = phase
      BY <1>0, <2>8 DEF FailMark, Slots, Return, Go
    <3>2. t = r => pc'[Mgr] = pc[Mgr]
      BY <1>0, <1>8
    <3>3. pc[t] = "closed"
      BY <2>8 DEF FailMark
    <3>q. QED
      BY <1>0, <1>1, <1>2, <1>8, <1>9, <1>12, <3>1, <3>2, <3>3 DEF OwnText, AnswerFirst
  <2>q. QED
    BY <2>1, <2>2, <2>3, <2>4, <2>5, <2>6, <2>7, <2>8 DEF Drive
<1>q. QED
  BY <1>8, <1>9, <1>10, <1>11 DEF Mine

(* The manager answers, watches the time and ends the job of the one       *)
(* request.                                                                *)
LEMMA MineManage ==
  ASSUME TypeOK, NEW r \in Requests, pc[r] \in Registered, Mine(r), Manage
  PROVE  /\ pc'[r] \in Registered /\ Mine(r)' /\ Settled \subseteq Settled'
         /\ r \in succeeded' => r \in succeeded \/ r \in Settled
<1>0. /\ pc \in [Threads -> Places] /\ slot \in Slots /\ Mgr \in Threads
      /\ r \in Threads /\ r # Mgr /\ r # None /\ Requests \subseteq Threads
      /\ Mgr \notin Requests
  BY NfSetupJobAssumption DEF TypeOK, Places, Threads
<1>1. Sole(r) /\ OwnText(r) /\ AnswerFirst(r)
  BY DEF Mine
<1>2. /\ pc' = pc \/ \E place : Go(Mgr, place)
      /\ lastApi' = lastApi /\ job' = job /\ Settled \subseteq Settled'
  BY DEF Manage, historyVars, NoAnswer, AnswerBad, StateIdle, StateBegin, StatePending,
     StillTime, NoSocket, AnswerOk, Finish, AnswerDigest, FinishMark, DropFlags,
     SetPending, TimeUp, StateFinal, CallFinal, Promote, Release, Return, Settled
<1>3. \A u \in Threads \ {Mgr} : pc'[u] = pc[u]
  BY <1>0, <1>2 DEF Go
<1>4. ~Promote
  BY <1>1 DEF Promote, Sole
<1>5. /\ ~slot'.reserved /\ slot'.cbNext = None
      /\ slot'.cbFunc \in {r, None} /\ slot'.sock \in {r, None}
  <2>1. CASE Watch \/ CallFinal
    BY <1>1, <2>1 DEF Watch, Sole, NoAnswer, AnswerBad, StateIdle, StateBegin, StatePending,
       StillTime, CallFinal
  <2>2. CASE NoSocket \/ AnswerOk \/ AnswerDigest \/ DropFlags
    BY <1>0, <1>1, <2>2 DEF Slots, Sole, NoSocket, AnswerOk, Finish, AnswerDigest, DropFlags
  <2>3. CASE FinishMark
    BY <1>0, <1>1, <2>3 DEF Slots, Sole, FinishMark
  <2>4. CASE SetPending \/ TimeUp
    BY <1>0, <1>1, <2>4 DEF Slots, Sole, SetPending, TimeUp
  <2>5. CASE StateFinal
    BY <1>0, <1>1, <2>5 DEF Slots, Sole, StateFinal
  <2>6. CASE Release
    BY <2>6 DEF Release, Cleared
  <2>q. QED
    BY <1>4, <2>1, <2>2, <2>3, <2>4, <2>5, <2>6 DEF Manage, Watch, Settle
<1>6. Sole(r)'
  BY <1>0, <1>1, <1>3, <1>5 DEF Sole
<1>7. /\ pc[r] = "registered" => ~slot'.picked /\ ~sending'
      /\ slot'.sock = r => slot.sock = r
      /\ pc'[Mgr] \in {"drive", "sending", "sent"} =>
           pc[r] # "registered" /\ phase' = "answers" /\ lastApi = r
      /\ pc'[Mgr] \in {"sending", "sent"} => job = r
  <2>1. CASE Watch \/ CallFinal
    BY <1>0, <1>1, <2>1 DEF OwnText, Watch, MgrAt, Awaiting, NoAnswer, AnswerBad, StateIdle,
       StateBegin, StatePending, StillTime, CallFinal, Return, Go
  <2>2. CASE NoSocket \/ AnswerOk
    <3>1. /\ slot'.sock = None /\ ~slot'.picked /\ sending' = sending
          /\ pc'[Mgr] = "finishing"
      BY <1>0, <2>2 DEF Slots, NoSocket, AnswerOk, Finish, Go
    <3>q. QED
      BY <1>0, <1>1, <3>1 DEF OwnText
  <2>3. CASE AnswerDigest
    BY <1>0, <1>1, <2>3 DEF Slots, Sole, OwnText, AnswerDigest, Awaiting, MgrAt, Go
  <2>4. CASE DropFlags
    BY <1>0, <1>1, <2>4 DEF Slots, OwnText, DropFlags, MgrAt
  <2>5. CASE FinishMark
    BY <1>0, <1>1, <2>5 DEF Slots, OwnText, FinishMark, Return, Go
  <2>6. CASE SetPending \/ TimeUp
    BY <1>0, <1>1, <2>6 DEF Slots, OwnText, SetPending, TimeUp, Return, Go
  <2>7. CASE StateFinal
    BY <1>0, <1>1, <2>7 DEF Slots, OwnText, StateFinal, Go
  <2>8. CASE Release
    BY <1>0, <1>1, <2>8 DEF Slots, OwnText, Release, Cleared, Return, Go
  <2>q. QED
    BY <1>4, <2>1, <2>2, <2>3, <2>4, <2>5, <2>6, <2>7, <2>8 DEF Manage, Watch, Settle
<1>8. OwnText(r)'
  BY <1>0, <1>1, <1>2, <1>3, <1>7 DEF OwnText
<1>9. AnswerFirst(r)'
  <2>1. CASE Watch \/ CallFinal
    BY <1>0, <1>1, <1>2, <2>1
    DEF AnswerFirst, Settled, Watch, MgrAt, Awaiting, NoAnswer, AnswerBad, StateIdle,
       StateBegin, StatePending, StillTime, CallFinal, Return, Go
  <2>2. CASE NoSocket
    BY <1>0, <1>1, <2>2 DEF Slots, AnswerFirst, Settled, NoSocket, MgrAt, Finish
  <2>3. CASE AnswerOk
    <3>1. r \in answered'
      BY <1>1, <2>3 DEF AnswerOk, Awaiting, Sole
    <3>q. QED
      BY <3>1 DEF AnswerFirst, Settled
  <2>4. CASE AnswerDigest
    BY <1>0, <1>1, <2>4
    DEF Slots, Sole, AnswerFirst, Settled, AnswerDigest, Go, historyVars, ssl
  <2>5. CASE DropFlags
    BY <1>0, <1>1, <2>5 DEF Slots, AnswerFirst, Settled, DropFlags, MgrAt, historyVars
  <2>6. CASE FinishMark
    BY <1>0, <1>1, <2>6 DEF Slots, AnswerFirst, Settled, FinishMark, Return, Go, historyVars
  <2>7. CASE SetPending \/ TimeUp
    BY <1>0, <1>1, <2>7 DEF Slots, AnswerFirst, Settled, SetPending, TimeUp, Return, Go,
       historyVars
  <2>8. CASE StateFinal
    BY <1>0, <1>1, <2>8 DEF Slots, AnswerFirst, Settled, StateFinal, MgrAt, Go, historyVars
  <2>9. CASE Release
    BY <1>0, <1>1, <2>9 DEF Slots, AnswerFirst, Settled, Release, Cleared, Return, Go,
       historyVars
  <2>q. QED
    BY <1>4, <2>1, <2>2, <2>3, <2>4, <2>5, <2>6, <2>7, <2>8, <2>9 DEF Manage, Watch, Settle
<1>10. r \in succeeded' => r \in succeeded \/ r \in Settled
  <2>1. CASE CallFinal
    BY <1>1, <2>1 DEF CallFinal, AnswerFirst, Settled
  <2>2. CASE ~CallFinal
    BY <2>2 DEF Manage, historyVars, NoAnswer, AnswerBad, StateIdle, StateBegin,
       StatePending, StillTime, NoSocket, AnswerOk, Finish, AnswerDigest, FinishMark,
       DropFlags, SetPending, TimeUp, StateFinal, Promote, Release
  <2>q. QED
    BY <2>1, <2>2
<1>q. QED
  BY <1>0, <1>2, <1>3, <1>6, <1>8, <1>9, <1>10 DEF Mine

(* A caller before it drives: registering in a free slot makes it sole.    *)
LEMMA SoloRequest ==
  ASSUME TypeOK, HeldInv, ToldInv, SoloInv, NEW q \in Requests,
         Enter(q) \/ SetCb(q) \/ Enqueue(q), NEW r \in undisturbed'
  PROVE  /\ pc'[r] \in Registered
         /\ r \in succeeded' => r \in Settled'
         /\ Over(r)' \/ Mine(r)'
<1>0. /\ pc \in [Threads -> Places] /\ slot \in Slots /\ Mgr \in Threads
      /\ Requests \subseteq Threads /\ undisturbed \subseteq Requests
      /\ Mgr \notin Requests /\ None \notin Requests /\ told \in [Requests -> Nat]
  BY NfSetupJobAssumption DEF TypeOK, Places, Threads
<1>1. r \in Requests /\ (r \in undisturbed \/ (r = q /\ SetCb(q)))
  BY <1>0 DEF Enter, SetCb, Enqueue, historyVars
<1>2. /\ UNCHANGED <<lastApi, phase, job, answered, overlooked, succeeded, sending>>
      /\ pc'[Mgr] = pc[Mgr]
  BY <1>0 DEF Enter, SetCb, Enqueue, historyVars, Go
<1>3. CASE r = q /\ SetCb(q)
  <2>1. FreeFor(r) \/ r \notin undisturbed'
    BY <1>3 DEF SetCb
  <2>2. /\ slot = Cleared /\ ~sending /\ pc[Mgr] = "ready"
        /\ \A u \in Requests \ {r} : pc[u] \in {"idle", "entered"} \cup Returned
    BY <2>1 DEF FreeFor
  <2>3. slot' = [Cleared EXCEPT !.cbFunc = r, !.status = "BEGIN"]
    BY <1>3, <2>2 DEF SetCb, Register, Busy, Cleared
  <2>4. pc' = [pc EXCEPT ![r] = "registered"] /\ pc[r] = "entered"
    BY <1>3 DEF SetCb, Go
  <2>5. r \notin succeeded
    BY <1>0, <1>1, <2>4 DEF HeldInv, ToldInv, Early
  <2>6. Sole(r)'
    BY <1>0, <1>1, <2>2, <2>3, <2>4 DEF Sole, Cleared
  <2>7. OwnText(r)' /\ AnswerFirst(r)'
    BY <1>0, <1>1, <1>2, <2>2, <2>3, <2>4 DEF OwnText, AnswerFirst, Settled, Cleared
  <2>8. pc'[r] = "registered"
    BY <1>0, <1>1, <2>4
  <2>q. QED
    BY <1>2, <2>5, <2>6, <2>7, <2>8 DEF Registered, Mine
<1>4. CASE r \in undisturbed /\ ~(r = q /\ SetCb(q))
  <2>1. pc[r] \in Registered /\ (r \in succeeded => r \in Settled) /\ (Over(r) \/ Mine(r))
    BY <1>4 DEF SoloInv
  <2>2. r = q => Enqueue(q)
    BY <1>4, <2>1 DEF Registered, DriverPlaces, Enter
  <2>3. ASSUME Mine(r)
        PROVE  pc'[r] \in Registered /\ (Over(r)' \/ Mine(r)')
    <3>1. Sole(r) /\ OwnText(r) /\ AnswerFirst(r)
      BY <2>3 DEF Mine
    <3>2. CASE r = q
      <4>1. pc[r] = "registered" /\ ~Busy
        BY <2>2, <3>1, <3>2 DEF Enqueue, OwnText, Busy
      <4>2. slot' = slot /\ pc' = [pc EXCEPT ![r] = "drive"]
        BY <2>2, <3>2, <4>1 DEF Enqueue, Go
      <4>q. QED
        BY <1>0, <1>1, <1>2, <3>1, <4>1, <4>2
        DEF Registered, DriverPlaces, Mine, Sole, OwnText, AnswerFirst, Settled
    <3>3. CASE r # q /\ Enter(q)
      BY <1>0, <1>1, <1>2, <2>1, <3>1, <3>3
      DEF Enter, Go, Returned, Mine, Sole, OwnText, AnswerFirst, Settled, ssl
    <3>4. CASE r # q /\ SetCb(q)
      <4>1. FreeFor(q)
        BY <3>4 DEF SetCb
      <4>2. pc[r] = "returned" /\ slot = Cleared
        BY <1>1, <2>1, <3>4, <4>1 DEF FreeFor, Returned, Registered, DriverPlaces
      <4>3. slot'.cbFunc \in {None, q} /\ slot'.cbNext \in {None, q} /\ pc'[r] = pc[r]
        BY <1>0, <1>1, <3>4, <4>2 DEF SetCb, Register, Busy, Cleared, Go
      <4>q. QED
        BY <1>0, <1>1, <3>4, <4>2, <4>3 DEF Over, Registered
    <3>5. CASE r # q /\ Enqueue(q)
      BY <1>1, <3>1, <3>5 DEF Enqueue, Sole, Returned
    <3>q. QED
      BY <3>2, <3>3, <3>4, <3>5, <2>2
  <2>4. ASSUME Over(r)
        PROVE  pc'[r] \in Registered /\ Over(r)'
    <3>1. [Next]_vars
      BY DEF Next, Request
    <3>2. Over(r)'
      BY <1>1, <2>4, <3>1, OverStays
    <3>q. QED
      BY <3>2 DEF Over, Registered
  <2>q. QED
    BY <1>2, <2>1, <2>3, <2>4 DEF Settled
<1>q. QED
  BY <1>1, <1>3, <1>4

LEMMA SoloNext == TypeOK /\ HeldInv /\ ToldInv /\ SoloInv /\ [Next]_vars => SoloInv'
<1> SUFFICES ASSUME TypeOK, HeldInv, ToldInv, SoloInv, [Next]_vars,
                    NEW r \in undisturbed'
             PROVE  /\ pc'[r] \in Registered
                    /\ r \in succeeded' => r \in Settled'
                    /\ Over(r)' \/ Mine(r)'
  BY DEF SoloInv
<1>0. undisturbed \subseteq Requests /\ Mgr \in Threads /\ Requests \subseteq Threads
  BY DEF TypeOK, Threads
<1>1. Settled \subseteq Settled'
  BY DEF Next, Request, Manage, Drive, vars, historyVars, Start, Stop, SetupClear, Enter,
     SetCb, Enqueue, BeginSending, NothingToAwait, LibraryFails, NotSent, SendFailed,
     SendDone, Waiting, Settled,
     FailClose, FailMark, NoAnswer, NoSocket, AnswerOk, AnswerBad, AnswerDigest, FinishMark,
     DropFlags, StateIdle, StateBegin, SetPending, StatePending, StillTime, TimeUp,
     StateFinal, CallFinal, Promote, Release, Finish
<1>2. ASSUME NEW q \in Requests, Enter(q) \/ SetCb(q) \/ Enqueue(q)
      PROVE  /\ pc'[r] \in Registered /\ (r \in succeeded' => r \in Settled')
             /\ Over(r)' \/ Mine(r)'
  BY <1>1, <1>2, SoloRequest
<1>3. CASE ~\E q \in Requests : Enter(q) \/ SetCb(q) \/ Enqueue(q)
  <2>1. r \in undisturbed
    BY <1>3 DEF Next, Request, Manage, Drive, vars, historyVars, Start, Stop, SetupClear,
       BeginSending, NothingToAwait, AwaitNothing, LibraryFails, NotSent, SendFailed,
       SendDone, Waiting, FailClose,
       FailMark, NoAnswer, NoSocket, AnswerOk, AnswerBad, AnswerDigest, FinishMark,
       DropFlags, StateIdle, StateBegin, SetPending, StatePending, StillTime, TimeUp,
       StateFinal, CallFinal, Promote, Release, Finish
  <2>2. /\ r \in Requests /\ pc[r] \in Registered
        /\ r \in succeeded => r \in Settled
        /\ Over(r) \/ Mine(r)
    BY <1>0, <1>1, <2>1 DEF SoloInv
  <2>3. CASE Over(r)
    <3>1. Over(r)' /\ (r \in succeeded' => r \in succeeded)
      BY <2>2, <2>3, OverStays
    <3>q. QED
      BY <1>1, <2>2, <3>1 DEF Over, Registered
  <2>4. CASE Mine(r)
    <3>1. ASSUME NEW t \in Threads, Drive(t)
          PROVE  pc'[r] \in Registered /\ Mine(r)' /\ succeeded' = succeeded
      BY <2>2, <2>4, <3>1, MineDrive
    <3>2. CASE Manage
      BY <1>1, <2>2, <2>4, <3>2, MineManage
    <3>3. CASE UNCHANGED vars \/ Start
      BY <2>2, <2>4, <3>3
      DEF vars, historyVars, Start, Mine, Sole, OwnText, AnswerFirst, Settled, ssl
    <3>4. CASE Stop \/ SetupClear
      BY <3>4 DEF Stop, SetupClear
    <3>q. QED
      BY <1>0, <1>1, <1>3, <2>2, <3>1, <3>2, <3>3, <3>4 DEF Next, Request
  <2>q. QED
    BY <2>2, <2>3, <2>4
<1>q. QED
  BY <1>2, <1>3

(* A request that had the slot to itself is told of a success only after   *)
(* the camera answered it, however slow its caller and however often the   *)
(* text had to be sent, or after one of the two failures the code takes for*)
(* an answer: no other failure is told as a success.                       *)
THEOREM SuccessCorrect == Spec => []SuccessWasAnswered
<1>1. Init => TypeOK /\ HeldInv /\ ToldInv /\ SoloInv
  BY TypeOKInit, HeldInit DEF Init, ToldInv, SoloInv
<1>2. TypeOK /\ HeldInv /\ ToldInv /\ SoloInv /\ [Next]_vars
        => TypeOK' /\ HeldInv' /\ ToldInv' /\ SoloInv'
  BY TypeOKNext, HeldNext, ToldStep, SoloNext
<1>3. SoloInv => SuccessWasAnswered
  BY DEF SoloInv, SuccessWasAnswered, Settled
<1>q. QED
  BY <1>1, <1>2, <1>3, PTL DEF Spec

-----------------------------------------------------------------------------
(* An undisturbed request is never forgotten.                              *)

(* The slot is that of r alone, and the manager will come to its state: it *)
(* has not called a callback in this pass, and when it is about to, the    *)
(* state is a final one.                                                   *)
Waits(r) ==
  /\ pc[r] \in Registered
  /\ \A q \in Requests \ {r} : pc[q] \in {"idle", "entered"} \cup Returned
  /\ ~slot.reserved
  /\ slot.cbFunc = r /\ slot.status # "NORMAL"
  /\ pc[Mgr] # "called"
  /\ pc[Mgr] = "ending" => slot.status \in Final
  /\ pc[r] = "registered" =>
       ~slot.picked /\ ~sending /\ pc[Mgr] \notin {"drive", "sending", "sent"}

KeptInv == \A r \in undisturbed : told[r] >= 1 \/ Waits(r)

(* What has been told stays told.                                          *)
LEMMA ToldStays ==
  ASSUME TypeOK, [Next]_vars, NEW r \in Requests, told[r] >= 1
  PROVE  told'[r] >= 1
<1>0. told \in [Requests -> Nat]
  BY DEF TypeOK
<1>1. CASE CallFinal
  BY <1>0, <1>1 DEF CallFinal, TypeOK, Slots
<1>2. CASE ~CallFinal
  <2>1. told' = told
    BY <1>2 DEF Next, Request, Manage, Drive, vars, historyVars, Start, Stop, SetupClear,
       Enter, SetCb, Enqueue, BeginSending, NothingToAwait, AwaitNothing, LibraryFails,
       NotSent, SendFailed, SendDone,
       Waiting, FailClose, FailMark, NoAnswer, NoSocket, AnswerOk, AnswerBad, AnswerDigest,
       FinishMark, DropFlags, StateIdle, StateBegin, SetPending, StatePending, StillTime,
       TimeUp, StateFinal, Promote, Release, Finish
  <2>q. QED
    BY <2>1
<1>q. QED
  BY <1>1, <1>2

(* The driver leaves the callback in the slot, and a state that is final.  *)
LEMMA WaitsDrive ==
  ASSUME TypeOK, NEW r \in Requests, Waits(r), NEW t \in Threads, Drive(t)
  PROVE  Waits(r)'
<1>0. /\ pc \in [Threads -> Places] /\ slot \in Slots /\ Mgr \in Threads
      /\ r \in Threads /\ r # Mgr /\ Requests \subseteq Threads /\ Mgr \notin Requests
  BY NfSetupJobAssumption DEF TypeOK, Places, Threads
<1>1. pc[t] \in DriverPlaces
  BY DEF DriverPlaces, Drive, BeginSending, NothingToAwait, AwaitNothing, LibraryFails,
     NotSent, SendFailed, SendDone,
     Waiting, FailClose, FailMark
<1>2. t \in {r, Mgr}
  BY <1>0, <1>1 DEF Threads, Waits, DriverPlaces, Returned
<1>3. PICK place \in DriverPlaces \cup {"returned", "ready"} :
         Go(t, place) /\ (place = "ready" => t = Mgr)
  BY DEF Drive, BeginSending, NothingToAwait, LibraryFails, NotSent, SendFailed,
     SendDone, Waiting,
         FailClose, FailMark, Return, DriverPlaces
<1>4. pc'[t] = place /\ \A u \in Threads \ {t} : pc'[u] = pc[u]
  BY <1>0, <1>3 DEF Go
<1>5. /\ pc'[r] \in Registered
      /\ \A q \in Requests \ {r} : pc'[q] = pc[q]
  BY <1>0, <1>1, <1>2, <1>3, <1>4 DEF Registered, Waits
<1>6. /\ slot'.reserved = slot.reserved /\ slot'.cbFunc = slot.cbFunc
      /\ slot'.status \in {slot.status, "FAILED_REQ"}
      /\ slot'.picked => slot.picked \/ pc[t] \in {"drive", "sending", "sent"}
      /\ sending' => sending \/ pc[t] = "drive"
  <2>1. CASE NothingToAwait(t) \/ LibraryFails(t)
    BY <1>0, <2>1 DEF Slots, NothingToAwait, LibraryFails, AwaitNothing
  <2>2. CASE Waiting(t)
    BY <1>0, <2>2 DEF Slots, Waiting
  <2>3. CASE FailClose(t)
    BY <1>0, <2>3 DEF Slots, FailClose
  <2>4. CASE FailMark(t)
    BY <1>0, <2>4 DEF Slots, FailMark
  <2>5. CASE BeginSending(t) \/ NotSent(t) \/ SendFailed(t) \/ SendDone(t)
    BY <2>5 DEF BeginSending, NotSent, SendFailed, SendDone
  <2>q. QED
    BY <2>1, <2>2, <2>3, <2>4, <2>5 DEF Drive
<1>7. pc'[Mgr] # "called" /\ (pc'[Mgr] = "ending" => pc[Mgr] = "ending")
  BY <1>0, <1>2, <1>3, <1>4 DEF Waits, DriverPlaces
<1>8. pc'[r] = "registered" =>
        ~slot'.picked /\ ~sending' /\ pc'[Mgr] \notin {"drive", "sending", "sent"}
  <2> SUFFICES ASSUME pc'[r] = "registered"
               PROVE  ~slot'.picked /\ ~sending' /\ pc'[Mgr] \notin {"drive", "sending",
               "sent"}
    OBVIOUS
  <2>1. t = Mgr /\ pc[r] = "registered"
    BY <1>0, <1>2, <1>3, <1>4 DEF DriverPlaces
  <2>2. pc[Mgr] \in {"failing", "closed"} /\ ~slot.picked /\ ~sending
    BY <1>1, <2>1 DEF Waits, DriverPlaces
  <2>3. pc'[Mgr] \in {"closed", "ready"}
    BY <1>0, <2>1, <2>2 DEF Drive, BeginSending, NothingToAwait, AwaitNothing,
       LibraryFails, NotSent, SendFailed, SendDone,
       Waiting, FailClose, FailMark, Return, Go
  <2>q. QED
    BY <1>6, <2>1, <2>2, <2>3
<1>q. QED
  BY <1>5, <1>6, <1>7, <1>8 DEF Waits, Final

(* Of the manager's steps only the call of the callback, after which r has *)
(* been told, ends the wait.                                               *)
LEMMA WaitsManage ==
  ASSUME TypeOK, NEW r \in Requests, Waits(r), Manage
  PROVE  told'[r] >= 1 \/ Waits(r)'
<1>0. /\ pc \in [Threads -> Places] /\ slot \in Slots /\ Mgr \in Threads
      /\ r \in Threads /\ r # Mgr /\ r # None /\ Requests \subseteq Threads
      /\ Mgr \notin Requests /\ told \in [Requests -> Nat]
  BY NfSetupJobAssumption DEF TypeOK, Places, Threads
<1>1. ~Promote /\ ~Release
  BY DEF Waits, Promote, Release
<1>2. CASE CallFinal
  <2>1. slot.cbFunc = r /\ slot.status \in Final
    BY <1>2 DEF Waits, CallFinal
  <2>2. told' = [told EXCEPT ![r] = @ + 1]
    BY <1>0, <1>2, <2>1 DEF CallFinal
  <2>q. QED
    BY <1>0, <2>2
<1>3. CASE Watch \/ Settle
  <2>1. \/ pc' = pc
        \/ \E place \in {"drive", "ready", "finishing", "failing", "begun",
                          "ticking", "ending"} :
             /\ Go(Mgr, place)
             /\ place = "drive" => slot.picked
             /\ place = "ending" => slot.status \in Final /\ slot'.status = slot.status
    <3>1. CASE Watch
      BY <3>1 DEF Watch, NoAnswer, AnswerBad, StateIdle, StateBegin, StatePending,
         StillTime,
         Return
    <3>2. CASE NoSocket \/ AnswerOk \/ AnswerDigest \/ DropFlags
      BY <3>2 DEF NoSocket, AnswerOk, Finish, AnswerDigest, Awaiting, DropFlags
    <3>3. CASE FinishMark \/ SetPending \/ TimeUp
      BY <3>3 DEF FinishMark, SetPending, TimeUp, Return
    <3>4. CASE StateFinal
      BY <1>0, <3>4 DEF StateFinal, Slots
    <3>q. QED
      BY <1>3, <3>1, <3>2, <3>3, <3>4 DEF Settle
  <2>2. pc'[r] = pc[r] /\ \A q \in Requests \ {r} : pc'[q] = pc[q]
    BY <1>0, <2>1 DEF Go
  <2>3. /\ slot'.reserved = slot.reserved /\ slot'.cbFunc = slot.cbFunc
        /\ slot'.status \in {slot.status, "END_SUCCESS", "PENDING", "TIMEOUT"}
        /\ slot'.picked => slot.picked
        /\ sending' => sending
        /\ (pc[Mgr] = "ending" => slot'.status = slot.status)
    <3>1. CASE Watch
      BY <3>1 DEF Watch, NoAnswer, AnswerBad, StateIdle, StateBegin, StatePending, StillTime
    <3>2. CASE NoSocket \/ AnswerOk \/ AnswerDigest \/ DropFlags
      <4>1. PICK sock \in Requests \cup {None}, picked \in BOOLEAN :
              /\ slot' = [slot EXCEPT !.sock = sock, !.picked = picked]
              /\ picked => slot.picked
        BY <1>0, <3>2 DEF Slots, NoSocket, AnswerOk, Finish, AnswerDigest, Awaiting,
           DropFlags
      <4>2. sending' => sending
        BY <3>2 DEF NoSocket, AnswerOk, Finish, AnswerDigest, DropFlags
      <4>q. QED
        BY <1>0, <4>1, <4>2 DEF Slots
    <3>3. CASE FinishMark
      BY <1>0, <3>3 DEF Slots, FinishMark
    <3>4. CASE SetPending \/ TimeUp
      BY <1>0, <3>4 DEF Slots, SetPending, TimeUp
    <3>5. CASE StateFinal
      BY <1>0, <3>5 DEF Slots, StateFinal
    <3>q. QED
      BY <1>3, <3>1, <3>2, <3>3, <3>4, <3>5 DEF Settle
  <2>4. /\ pc'[Mgr] # "called"
        /\ pc'[Mgr] = "ending" => slot'.status \in Final
        /\ pc'[Mgr] \in {"drive", "sending", "sent"} =>
             pc[Mgr] \in {"drive", "sending", "sent"} \/ slot.picked
    BY <1>0, <2>1, <2>3 DEF Waits, Go
  <2>q. QED
    BY <2>2, <2>3, <2>4 DEF Waits
<1>q. QED
  BY <1>1, <1>2, <1>3 DEF Manage, Watch, Settle

(* A caller before it drives.  A second one that registers ends the        *)
(* solitude of the first.                                                  *)
LEMMA KeptRequest ==
  ASSUME TypeOK, KeptInv, NEW q \in Requests,
         Enter(q) \/ SetCb(q) \/ Enqueue(q), NEW r \in undisturbed'
  PROVE  told'[r] >= 1 \/ Waits(r)'
<1>0. /\ pc \in [Threads -> Places] /\ slot \in Slots /\ Mgr \in Threads
      /\ Requests \subseteq Threads /\ undisturbed \subseteq Requests
      /\ Mgr \notin Requests /\ None \notin Requests
  BY NfSetupJobAssumption DEF TypeOK, Places, Threads
<1>1. r \in Requests /\ (r \in undisturbed \/ (r = q /\ SetCb(q)))
  BY <1>0 DEF Enter, SetCb, Enqueue, historyVars
<1>2. told' = told /\ sending' = sending /\ pc'[Mgr] = pc[Mgr]
  BY <1>0 DEF Enter, SetCb, Enqueue, historyVars, Go
<1>3. CASE r = q /\ SetCb(q)
  <2>1. FreeFor(r)
    BY <1>3 DEF SetCb
  <2>2. /\ slot = Cleared /\ ~sending /\ pc[Mgr] = "ready"
        /\ \A u \in Requests \ {r} : pc[u] \in {"idle", "entered"} \cup Returned
    BY <2>1 DEF FreeFor
  <2>3. slot' = [Cleared EXCEPT !.cbFunc = r, !.status = "BEGIN"]
    BY <1>3, <2>2 DEF SetCb, Register, Busy, Cleared
  <2>4. pc' = [pc EXCEPT ![r] = "registered"]
    BY <1>3 DEF SetCb, Go
  <2>q. QED
    BY <1>0, <1>1, <1>2, <2>2, <2>3, <2>4 DEF Waits, Cleared, Registered
<1>4. CASE r \in undisturbed /\ ~(r = q /\ SetCb(q)) /\ Waits(r)
  <2>1. CASE r = q
    <3>1. Enqueue(q) /\ pc[r] = "registered" /\ ~Busy
      BY <1>4, <2>1 DEF Enter, Enqueue, Waits, Registered, DriverPlaces, Busy
    <3>2. slot' = slot /\ pc' = [pc EXCEPT ![r] = "drive"]
      BY <2>1, <3>1 DEF Enqueue, Go
    <3>q. QED
      BY <1>0, <1>1, <1>2, <1>4, <3>1, <3>2 DEF Waits, Registered, DriverPlaces
  <2>2. CASE r # q /\ Enter(q)
    BY <1>0, <1>1, <1>2, <1>4, <2>2 DEF Enter, Go, Returned, Waits
  <2>3. r # q => ~SetCb(q) /\ ~Enqueue(q)
    <3>1. slot # Cleared
      BY <1>0, <1>1, <1>4 DEF Waits, Cleared
    <3>2. ~FreeFor(q)
      BY <3>1 DEF FreeFor
    <3>3. ~SetCb(q)
      BY <3>2 DEF SetCb
    <3>4. r # q => pc[q] # "registered"
      BY <1>4 DEF Waits, Returned
    <3>q. QED
      BY <3>3, <3>4 DEF Enqueue
  <2>q. QED
    BY <2>1, <2>2, <2>3
<1>5. CASE r \in undisturbed /\ told[r] >= 1
  BY <1>2, <1>5
<1>q. QED
  BY <1>1, <1>3, <1>4, <1>5 DEF KeptInv

LEMMA KeptNext == TypeOK /\ KeptInv /\ [Next]_vars => KeptInv'
<1> SUFFICES ASSUME TypeOK, KeptInv, [Next]_vars, NEW r \in undisturbed'
             PROVE  told'[r] >= 1 \/ Waits(r)'
  BY DEF KeptInv
<1>1. ASSUME NEW q \in Requests, Enter(q) \/ SetCb(q) \/ Enqueue(q)
      PROVE  told'[r] >= 1 \/ Waits(r)'
  BY <1>1, KeptRequest
<1>2. CASE ~\E q \in Requests : Enter(q) \/ SetCb(q) \/ Enqueue(q)
  <2>1. r \in undisturbed
    BY <1>2 DEF Next, Request, Manage, Drive, vars, historyVars, Start, Stop, SetupClear,
       BeginSending, NothingToAwait, AwaitNothing, LibraryFails, NotSent, SendFailed,
       SendDone, Waiting, FailClose,
       FailMark, NoAnswer, NoSocket, AnswerOk, AnswerBad, AnswerDigest, FinishMark,
       DropFlags, StateIdle, StateBegin, SetPending, StatePending, StillTime, TimeUp,
       StateFinal, CallFinal, Promote, Release, Finish
  <2>2. r \in Requests /\ (told[r] >= 1 \/ Waits(r))
    BY <2>1 DEF TypeOK, KeptInv
  <2>3. CASE told[r] >= 1
    BY <2>2, <2>3, ToldStays
  <2>4. CASE Waits(r)
    <3>1. ASSUME NEW t \in Threads, Drive(t) PROVE Waits(r)'
      BY <2>2, <2>4, <3>1, WaitsDrive
    <3>2. CASE Manage
      BY <2>2, <2>4, <3>2, WaitsManage
    <3>3. CASE UNCHANGED vars \/ Start
      BY <2>4, <3>3 DEF vars, Start, Waits
    <3>4. CASE Stop \/ SetupClear
      BY <3>4 DEF Stop, SetupClear
    <3>q. QED
      BY <1>2, <3>1, <3>2, <3>3, <3>4 DEF Next, Request, Threads
  <2>q. QED
    BY <2>2, <2>3, <2>4
<1>q. QED
  BY <1>1, <1>2

(* A request that keeps the slot to itself is never forgotten: whatever the*)
(* camera does, with SSL or without, its callback stays in the slot, in a  *)
(* state the manager looks at, until it has been told.                     *)
THEOREM KeptCorrect == Spec => []UndisturbedIsKept
<1>1. Init => TypeOK /\ KeptInv
  BY TypeOKInit DEF Init, KeptInv
<1>2. TypeOK /\ KeptInv /\ [Next]_vars => TypeOK' /\ KeptInv'
  BY TypeOKNext, KeptNext
<1>3. KeptInv => UndisturbedIsKept
  BY DEF KeptInv, Waits, UndisturbedIsKept
<1>q. QED
  BY <1>1, <1>2, <1>3, PTL DEF Spec
=============================================================================
