------------------------ MODULE NfSetupJobPromise_proofs ------------------------
(***************************************************************************)
(* The set-up jobs keep the promise of SetupPromise, for every set of      *)
(* requests: the proof that NfSetupJob implements it.                      *)
(***************************************************************************)
EXTENDS NfSetupJob_proofs

(* What is in the slot, on its way or sent last is of a request whose call *)
(* has registered it.                                                      *)
AskedInv ==
  \A r \in Requests : pc[r] \in Early =>
    slot.sock # r /\ slot.dataNext # r /\ lastApi # r /\ job # r

(* What a thread hands on it had from the slot, or is its own.             *)
LEMMA HandedOn ==
  ASSUME AskedInv, NEW t \in Threads,
         \A r \in Requests : pc'[r] \in Early => pc[r] \in Early /\ r # t,
         slot'.sock \in {slot.sock, job, t, None},
         slot'.dataNext \in {slot.dataNext, t, None},
         lastApi' \in {lastApi, slot.dataNext, t},
         job' \in {job, lastApi, slot.dataNext}
  PROVE  AskedInv'
BY NfSetupJobAssumption DEF AskedInv

LEMMA AskedInit == Init => AskedInv
BY NfSetupJobAssumption DEF Init, Cleared, AskedInv

(* The driver on thread t: nobody but t takes a step, and t has registered.*)
LEMMA DriverMoves ==
  ASSUME TypeOK, NEW t \in Threads, Drive(t)
  PROVE  /\ pc[t] \in DriverPlaces /\ pc'[t] \in DriverPlaces \cup {"returned", "ready"}
         /\ \A u \in Threads \ {t} : pc'[u] = pc[u]
<1>0. pc \in [Threads -> Places]
  BY DEF TypeOK, Places
<1>1. pc[t] \in DriverPlaces
  BY DEF Drive, DriverPlaces, BeginSending, NothingToAwait, LibraryFails, NotSent,
     SendFailed, SendDone,
     Waiting, FailClose, FailMark
<1>2. PICK place \in DriverPlaces \cup {"returned", "ready"} : Go(t, place)
  BY DEF Drive, BeginSending, NothingToAwait, LibraryFails, NotSent, SendFailed, SendDone,
     Waiting,
     FailClose, FailMark, Return, DriverPlaces
<1>q. QED
  BY <1>0, <1>1, <1>2 DEF Go

LEMMA AskedDrive ==
  ASSUME TypeOK, AskedInv, NEW t \in Threads, Drive(t)
  PROVE  AskedInv'
<1>0. slot \in Slots
  BY DEF TypeOK
<1>1. \A r \in Requests : pc'[r] \in Early => pc[r] \in Early /\ r # t
  BY DriverMoves DEF Threads, Early, DriverPlaces
<1>2. /\ slot'.sock \in {slot.sock, job, t, None} /\ slot'.dataNext = slot.dataNext
  <2>1. CASE NothingToAwait(t) \/ LibraryFails(t)
    BY <1>0, <2>1 DEF Slots, NothingToAwait, LibraryFails, AwaitNothing
  <2>2. CASE Waiting(t)
    BY <1>0, <2>2 DEF Slots, Waiting, Sender
  <2>3. CASE FailClose(t)
    BY <1>0, <2>3 DEF Slots, FailClose
  <2>4. CASE FailMark(t)
    BY <1>0, <2>4 DEF Slots, FailMark
  <2>5. CASE BeginSending(t) \/ NotSent(t) \/ SendFailed(t) \/ SendDone(t)
    BY <2>5 DEF BeginSending, NotSent, SendFailed, SendDone
  <2>q. QED
    BY <2>1, <2>2, <2>3, <2>4, <2>5 DEF Drive
<1>3. /\ lastApi' \in {lastApi, slot.dataNext, t}
      /\ job' \in {job, lastApi, slot.dataNext}
  <2>1. CASE BeginSending(t)
    BY <2>1 DEF BeginSending, DataOf
  <2>2. CASE ~BeginSending(t)
    BY <2>2 DEF Drive, NothingToAwait, LibraryFails, NotSent, SendFailed, SendDone,
       Waiting, FailClose,
       FailMark
  <2>q. QED
    BY <2>1, <2>2
<1>q. QED
  BY <1>1, <1>2, <1>3, HandedOn

LEMMA AskedManage ==
  ASSUME TypeOK, AskedInv, Manage
  PROVE  AskedInv'
<1>0. slot \in Slots /\ Mgr \in Threads /\ pc \in [Threads -> Places]
      /\ Requests \subseteq Threads /\ Mgr \notin Requests
  BY NfSetupJobAssumption DEF TypeOK, Threads, Places
<1>1. lastApi' = lastApi /\ job' = job
  BY DEF Manage, NoAnswer, NoSocket, AnswerOk, AnswerBad, AnswerDigest, FinishMark,
     DropFlags, StateIdle, StateBegin, SetPending, StatePending, StillTime, TimeUp,
     StateFinal, CallFinal, Promote, Release, Finish
<1>2. pc' = pc \/ \E place : Go(Mgr, place)
  BY DEF Manage, NoAnswer, NoSocket, AnswerOk, AnswerBad, AnswerDigest, FinishMark,
     DropFlags, StateIdle, StateBegin, SetPending, StatePending, StillTime, TimeUp,
     StateFinal, CallFinal, Promote, Release, Finish, Return
<1>3. slot'.sock \in {slot.sock, None} /\ slot'.dataNext \in {slot.dataNext, None}
  <2>1. CASE slot' = slot
    BY <2>1
  <2>2. CASE Release
    BY <2>2 DEF Release, Cleared
  <2>3. CASE NoSocket \/ AnswerOk \/ AnswerDigest \/ DropFlags
    BY <1>0, <2>3 DEF Slots, NoSocket, AnswerOk, Finish, AnswerDigest, DropFlags
  <2>4. CASE FinishMark
    BY <1>0, <2>4 DEF Slots, FinishMark
  <2>5. CASE SetPending \/ TimeUp
    BY <1>0, <2>5 DEF Slots, SetPending, TimeUp
  <2>6. CASE StateFinal
    BY <1>0, <2>6 DEF Slots, StateFinal
  <2>7. CASE Promote
    BY <1>0, <2>7 DEF Slots, Promote
  <2>q. QED
    BY <2>1, <2>2, <2>3, <2>4, <2>5, <2>6, <2>7 DEF Manage, NoAnswer, AnswerBad, StateIdle,
       StateBegin, StatePending, StillTime, CallFinal
<1>4. \A r \in Requests : pc'[r] = pc[r] /\ r # Mgr
  BY <1>0, <1>2 DEF Go
<1>q. QED
  BY <1>0, <1>1, <1>3, <1>4, HandedOn

LEMMA AskedNext == TypeOK /\ AskedInv /\ [Next]_vars => AskedInv'
<1> SUFFICES ASSUME TypeOK, AskedInv, [Next]_vars
             PROVE  AskedInv'
  OBVIOUS
<1>0. slot \in Slots /\ pc \in [Threads -> Places] /\ Requests \subseteq Threads
      /\ None \notin Requests
  BY NfSetupJobAssumption DEF TypeOK, Threads, Places
<1>1. ASSUME NEW q \in Requests, Enter(q) \/ SetCb(q) \/ Enqueue(q)
      PROVE  AskedInv'
  <2>1. /\ slot'.sock = slot.sock /\ lastApi' = lastApi /\ job' = job
        /\ \/ slot'.dataNext = slot.dataNext
           \/ slot'.dataNext = q /\ pc'[q] = "returned"
    BY <1>0, <1>1 DEF Enter, SetCb, Register, Enqueue, Slots, Go
  <2>2. \A r \in Requests : pc'[r] \in Early => pc[r] \in Early
    BY <1>0, <1>1 DEF Enter, SetCb, Enqueue, Go, Early
  <2>q. QED
    BY <2>1, <2>2 DEF AskedInv, Early
<1>2. CASE Manage
  BY <1>2, AskedManage
<1>3. ASSUME NEW t \in Threads, Drive(t)
      PROVE  AskedInv'
  BY <1>3, AskedDrive
<1>4. CASE Start \/ Stop \/ UNCHANGED vars
  BY <1>4 DEF Start, Stop, vars, AskedInv
<1>5. CASE SetupClear
  BY <1>0, <1>5 DEF SetupClear, AskedInv, Slots
<1>q. QED
  BY <1>0, <1>1, <1>2, <1>3, <1>4, <1>5 DEF Next, Request, Threads

-----------------------------------------------------------------------------
(* The steps of the threads as steps of the promise.                       *)
Kept == \A r \in Requests : Outcome(r)' = Outcome(r)

(* The outcome of a request is settled by its callback and by whether its  *)
(* call has registered it.                                                 *)
LEMMA SameOutcome ==
  ASSUME NEW r \in Requests,
         slot'.cbFunc = slot.cbFunc, slot'.cbNext = slot.cbNext,
         told' = told, succeeded' = succeeded,
         pc'[r] = pc[r] \/ (pc[r] \notin Early /\ pc'[r] \notin Early)
  PROVE  Outcome(r)' = Outcome(r)
BY DEF Outcome, Early

(* A step of the promise that changes no outcome.                          *)
LEMMA KeptIsStutter ==
  ASSUME Kept, UNCHANGED <<answered, overlooked, undisturbed>>
  PROVE  UNCHANGED Promise!vars
BY DEF Kept, Promise!vars

LEMMA KeptIsDisturb ==
  ASSUME Kept, UNCHANGED <<answered, overlooked>>, undisturbed' = {}
  PROVE  Promise!Next
BY DEF Kept, Promise!Next, Promise!Disturb

LEMMA KeptIsAnswer ==
  ASSUME TypeOK, HeldInv, Kept, undisturbed' = undisturbed,
         NEW r \in Requests, pc[r] \notin Early,
         \/ answered' = answered \cup {r} /\ overlooked' = overlooked
         \/ overlooked' = overlooked \cup {r} /\ answered' = answered
  PROVE  Promise!Next
<1>1. Outcome(r) \notin {"new", "refused"}
  BY DEF Outcome, Early
<1>2. Promise!Answer(r) \/ Promise!Overlook(r)
  BY <1>1 DEF Kept, Promise!Answer, Promise!Overlook
<1>q. QED
  BY <1>2 DEF Promise!Next

(* Requests that are taken out of the slot without having been told.       *)
LEMMA LeftOutcome ==
  ASSUME NEW r \in Requests, told' = told, succeeded' = succeeded, pc'[r] = pc[r],
         r \in {slot'.cbFunc, slot'.cbNext} => r \in {slot.cbFunc, slot.cbNext},
         r \in {slot.cbFunc, slot.cbNext} \ {slot'.cbFunc, slot'.cbNext}
           => told[r] > 0 \/ r \notin undisturbed'
  PROVE  \/ Outcome(r)' = Outcome(r)
         \/ Outcome(r) = "asked" /\ Outcome(r)' = "lost" /\ r \notin undisturbed'
BY DEF Outcome

LEMMA DriveKeeps ==
  ASSUME TypeOK, NEW t \in Threads, Drive(t)
  PROVE  Kept /\ undisturbed' = undisturbed
<1>1. UNCHANGED <<succeeded, undisturbed>>
  BY DEF Drive, historyVars, BeginSending, NothingToAwait, LibraryFails, NotSent,
     SendFailed, SendDone,
     Waiting, FailClose, FailMark
<1>2. Keeps
  BY KeepsDrive
<1>3. \A r \in Requests : pc'[r] = pc[r] \/ (pc[r] \notin Early /\ pc'[r] \notin Early)
  BY DriverMoves DEF Threads, Early, DriverPlaces
<1>q. QED
  BY <1>1, <1>2, <1>3, SameOutcome DEF Keeps, Kept

LEMMA ManageKeeps ==
  ASSUME TypeOK, Watch \/ Settle
  PROVE  Kept /\ undisturbed' = undisturbed
<1>0. Mgr \in Threads /\ pc \in [Threads -> Places] /\ Requests \subseteq Threads
      /\ Mgr \notin Requests
  BY NfSetupJobAssumption DEF TypeOK, Threads, Places
<1>1. UNCHANGED <<succeeded, undisturbed>>
  BY DEF Watch, Settle, historyVars, NoAnswer, AnswerBad, StateIdle, StateBegin,
     StatePending, StillTime, NoSocket, AnswerOk, Finish, AnswerDigest, FinishMark,
     DropFlags, SetPending, TimeUp, StateFinal
<1>2. Keeps
  BY KeepsManage
<1>3. pc' = pc \/ \E place : Go(Mgr, place)
  BY DEF Watch, Settle, NoAnswer, AnswerBad, StateIdle, StateBegin, StatePending, StillTime,
     NoSocket, AnswerOk, Finish, AnswerDigest, FinishMark, DropFlags, SetPending, TimeUp,
     StateFinal, Return
<1>4. \A r \in Requests : pc'[r] = pc[r]
  BY <1>0, <1>3 DEF Go
<1>q. QED
  BY <1>1, <1>2, <1>4, SameOutcome DEF Keeps, Kept

-----------------------------------------------------------------------------
LEMMA PromiseInit == Init => Promise!Init
<1> SUFFICES ASSUME Init
             PROVE  Promise!Init
  OBVIOUS
<1>1. ASSUME NEW r \in Requests
      PROVE  Outcome(r) = "new"
  <2>1. told[r] = 0 /\ pc[r] = "idle"
    BY NfSetupJobAssumption DEF Init, Threads
  <2>q. QED
    BY <2>1 DEF Outcome
<1>q. QED
  BY <1>1 DEF Init, Promise!Init

(* A call is refused, or it asks and may take the place of another.        *)
LEMMA PromiseRequest ==
  ASSUME TypeOK, HeldInv, NEW r \in Requests, Enter(r) \/ SetCb(r) \/ Enqueue(r)
  PROVE  Promise!Next \/ UNCHANGED Promise!vars
<1>0. /\ pc \in [Threads -> Places] /\ slot \in Slots /\ r \in Threads
      /\ Requests \subseteq Threads /\ None \notin Requests
  BY NfSetupJobAssumption DEF TypeOK, Places, Threads
<1>1. UNCHANGED <<answered, overlooked, told, succeeded>>
      /\ \A q \in Requests \ {r} : pc'[q] = pc[q]
  BY <1>0 DEF Enter, SetCb, Enqueue, historyVars, Go
<1>2. CASE Enter(r)
  <2>1. slot' = slot /\ undisturbed' = undisturbed /\ pc[r] = "idle"
        /\ pc'[r] \in {"entered", "refused"} /\ told[r] = 0
    BY <1>0, <1>2 DEF Enter, historyVars, Go, HeldInv, Early
  <2>2. \A q \in Requests \ {r} : Outcome(q)' = Outcome(q)
    BY <1>1, <2>1, SameOutcome
  <2>3. Outcome(r) = "new" /\ Outcome(r)' \in {"new", "refused"}
    BY <1>1, <2>1 DEF Outcome
  <2>4. CASE Outcome(r)' = "new"
    BY <1>1, <2>1, <2>2, <2>3, <2>4, KeptIsStutter DEF Kept
  <2>5. CASE Outcome(r)' = "refused"
    <3>1. Promise!Refuse(r)
      BY <1>1, <2>1, <2>2, <2>3, <2>5 DEF Promise!Refuse, Promise!Becomes
    <3>q. QED
      BY <3>1 DEF Promise!Next
  <2>q. QED
    BY <2>3, <2>4, <2>5
<1>3. CASE SetCb(r)
  <2>1. pc[r] = "entered" /\ pc'[r] = "registered" /\ told[r] = 0
    BY <1>0, <1>3 DEF SetCb, Go, HeldInv, Early
  <2>2. \/ slot'.cbFunc = slot.cbFunc /\ slot'.cbNext = r
        \/ slot'.cbFunc = r /\ slot'.cbNext = slot.cbNext
    BY <1>0, <1>3 DEF SetCb, Register, Slots
  <2>3. (undisturbed' = undisturbed \cup {r} /\ slot = Cleared) \/ undisturbed' = {}
    BY <1>3 DEF SetCb, FreeFor
  <2>4. Outcome(r) = "new" /\ Outcome(r)' = "asked"
    BY <1>1, <2>1, <2>2 DEF Outcome
  <2>5. ASSUME NEW q \in Requests \ {r}
        PROVE  \/ Outcome(q)' = Outcome(q)
               \/ Outcome(q) = "asked" /\ Outcome(q)' = "lost" /\ q \notin undisturbed'
    <3>1. q \in {slot.cbFunc, slot.cbNext} => undisturbed' = {}
      BY <1>0, <2>3 DEF Cleared
    <3>q. QED
      BY <1>1, <2>2, <3>1, LeftOutcome
  <2>6. Promise!Ask(r)
    BY <1>1, <2>3, <2>4, <2>5 DEF Promise!Ask, Promise!Left
  <2>q. QED
    BY <2>6 DEF Promise!Next
<1>4. CASE Enqueue(r)
  <2>1. slot'.cbFunc = slot.cbFunc /\ slot'.cbNext = slot.cbNext
        /\ undisturbed' = undisturbed /\ pc[r] = "registered"
        /\ pc'[r] \in {"returned", "drive"}
    BY <1>0, <1>4 DEF Enqueue, Slots, Go, historyVars
  <2>2. Kept
    BY <1>1, <2>1, SameOutcome DEF Kept, Early
  <2>q. QED
    BY <1>1, <2>1, <2>2, KeptIsStutter
<1>q. QED
  BY <1>2, <1>3, <1>4

(* The driver answers for the camera where there is nothing to wait for, or*)
(* leaves a failure to be taken for an answer.                             *)
LEMMA PromiseDrive ==
  ASSUME TypeOK, HeldInv, AskedInv, NEW t \in Threads, Drive(t)
  PROVE  Promise!Next \/ UNCHANGED Promise!vars
<1>1. CASE answered' = answered /\ overlooked' = overlooked
  BY <1>1, DriveKeeps, KeptIsStutter
<1>2. CASE ~(answered' = answered /\ overlooked' = overlooked)
  <2>1. NothingToAwait(t) \/ LibraryFails(t) \/ SendFailed(t)
    BY <1>2 DEF Drive, historyVars, BeginSending, NotSent, SendDone, Waiting, FailClose,
       FailMark
  <2>2. CASE NothingToAwait(t) \/ LibraryFails(t)
    <3>1. /\ DataOf(t) \in Requests
          /\ \/ answered' = answered \cup {DataOf(t)} /\ overlooked' = overlooked
             \/ overlooked' = overlooked \cup {DataOf(t)} /\ answered' = answered
      BY <1>2, <2>2, DataType DEF NothingToAwait, LibraryFails
    <3>2. pc[DataOf(t)] \notin Early
      BY <2>2, <3>1 DEF NothingToAwait, LibraryFails, DataOf, AskedInv, Early
    <3>q. QED
      BY <3>1, <3>2, DriveKeeps, KeptIsAnswer
  <2>3. CASE SendFailed(t)
    <3>1. job \in Requests /\ overlooked' = overlooked \cup {job} /\ answered' = answered
      BY <1>2, <2>3 DEF SendFailed, TypeOK
    <3>2. pc[job] \notin Early
      BY <3>1 DEF AskedInv
    <3>q. QED
      BY <3>1, <3>2, DriveKeeps, KeptIsAnswer
  <2>q. QED
    BY <2>1, <2>2, <2>3
<1>q. QED
  BY <1>1, <1>2

(* The manager up to the moment it tells a callback.                       *)
LEMMA PromiseManage ==
  ASSUME TypeOK, HeldInv, AskedInv, Watch \/ Settle
  PROVE  Promise!Next \/ UNCHANGED Promise!vars
<1>0. overlooked' = overlooked
  BY DEF Watch, Settle, historyVars, NoAnswer, AnswerBad, StateIdle, StateBegin,
     StatePending, StillTime, NoSocket, AnswerOk, Finish, AnswerDigest, FinishMark,
     DropFlags, SetPending, TimeUp, StateFinal
<1>1. CASE answered' = answered
  BY <1>0, <1>1, ManageKeeps, KeptIsStutter
<1>2. CASE answered' # answered
  <2>1. AnswerOk
    BY <1>2 DEF Watch, Settle, historyVars, NoAnswer, AnswerBad, StateIdle, StateBegin,
       StatePending, StillTime, NoSocket, Finish, AnswerDigest, FinishMark, DropFlags,
       SetPending, TimeUp, StateFinal
  <2>2. slot.sock \in Requests /\ answered' = answered \cup {slot.sock}
    BY <2>1 DEF AnswerOk, Awaiting, TypeOK, Slots
  <2>3. pc[slot.sock] \notin Early
    BY <2>2 DEF AskedInv
  <2>q. QED
    BY <1>0, <2>2, <2>3, ManageKeeps, KeptIsAnswer
<1>q. QED
  BY <1>1, <1>2

(* The callback called is of a request that is asked, and a success it is  *)
(* told of was answered if the request had the slot to itself.             *)
LEMMA PromiseTell ==
  ASSUME TypeOK, HeldInv, ToldInv, SuccessWasAnswered', CallFinal
  PROVE  Promise!Next \/ UNCHANGED Promise!vars
<1>0. /\ pc \in [Threads -> Places] /\ slot \in Slots /\ Mgr \in Threads
      /\ Requests \subseteq Threads /\ Mgr \notin Requests
      /\ told \in [Requests -> Nat]
  BY NfSetupJobAssumption DEF TypeOK, Places, Threads
<1>1. /\ slot' = slot /\ UNCHANGED <<answered, overlooked, undisturbed>>
      /\ pc[Mgr] = "ending"
      /\ \A q \in Requests : pc'[q] = pc[q]
  BY <1>0 DEF CallFinal, Go
<1>2. CASE slot.cbFunc # None /\ slot.status \in Final
  <2> DEFINE f == slot.cbFunc
  <2>1. f \in Requests
    BY <1>0, <1>2 DEF Slots
  <2>2. told[f] = 0 /\ pc[f] \notin Early /\ f \notin succeeded
    BY <1>1, <2>1 DEF HeldInv, ToldInv
  <2>3. /\ told' = [told EXCEPT ![f] = @ + 1]
        /\ succeeded' \in {succeeded, succeeded \cup {f}}
    BY <1>2 DEF CallFinal
  <2>4. \A q \in Requests \ {f} : told'[q] = told[q] /\ (q \in succeeded' <=> q \in succeeded)
    BY <1>0, <2>3
  <2>5. \A q \in Requests \ {f} : Outcome(q)' = Outcome(q)
    BY <1>1, <2>4 DEF Outcome
  <2>6. Outcome(f) = "asked"
    BY <2>2 DEF Outcome, Early
  <2>7. told'[f] = 1
    BY <1>0, <2>1, <2>2, <2>3
  <2>8. IF f \in succeeded' THEN Outcome(f)' = "succeeded" ELSE Outcome(f)' = "failed"
    BY <1>1, <2>7 DEF Outcome
  <2>9. f \in succeeded' => (f \in undisturbed => f \in answered \cup overlooked)
    BY <1>1 DEF SuccessWasAnswered
  <2>10. Promise!Tell(f)
    BY <1>1, <2>1, <2>5, <2>6, <2>8, <2>9 DEF Promise!Tell, Promise!Becomes
  <2>q. QED
    BY <2>1, <2>10 DEF Promise!Next
<1>3. CASE ~(slot.cbFunc # None /\ slot.status \in Final)
  <2>1. told' = told /\ succeeded' = succeeded
    BY <1>3 DEF CallFinal
  <2>q. QED
    BY <1>1, <2>1, SameOutcome, KeptIsStutter DEF Kept
<1>q. QED
  BY <1>2, <1>3

(* Requests fall out of the slot when the manager has called the callback: *)
(* one that had the slot to itself has been told by then.                  *)
LEMMA PromiseLose ==
  ASSUME TypeOK, KeptInv, Promote \/ Release
  PROVE  Promise!Next
<1>0. /\ pc \in [Threads -> Places] /\ slot \in Slots /\ Mgr \in Threads
      /\ Requests \subseteq Threads /\ Mgr \notin Requests /\ None \notin Requests
      /\ told \in [Requests -> Nat]
  BY NfSetupJobAssumption DEF TypeOK, Places, Threads
<1>1. UNCHANGED historyVars /\ pc[Mgr] = "called" /\ \E place : Go(Mgr, place)
  BY DEF Promote, Release, Return
<1>2. \A q \in Requests : pc'[q] = pc[q]
  BY <1>0, <1>1 DEF Go
<1>3. slot'.cbFunc \in {slot.cbNext, None} /\ slot'.cbNext = None
  <2>1. CASE Promote
    BY <1>0, <2>1 DEF Promote, Slots
  <2>2. CASE Release
    BY <2>2 DEF Release, Cleared
  <2>q. QED
    BY <2>1, <2>2
<1>4. ASSUME NEW q \in Requests
      PROVE  \/ Outcome(q)' = Outcome(q)
             \/ Outcome(q) = "asked" /\ Outcome(q)' = "lost" /\ q \notin undisturbed'
  <2>1. told[q] > 0 \/ q \notin undisturbed'
    BY <1>0, <1>1 DEF historyVars, KeptInv, Waits
  <2>q. QED
    BY <1>0, <1>1, <1>2, <1>3, <2>1, LeftOutcome DEF historyVars
<1>5. Promise!Lose
  BY <1>1, <1>4 DEF Promise!Lose, Promise!Left, historyVars
<1>q. QED
  BY <1>5 DEF Promise!Next

PromiseInv == HeldInv /\ ToldInv /\ SoloInv /\ KeptInv /\ AskedInv

LEMMA PromiseStep ==
  ASSUME TypeOK, PromiseInv, [Next]_vars
  PROVE  [Promise!Next]_(Promise!vars)
<1>0. HeldInv /\ ToldInv /\ SoloInv /\ KeptInv /\ AskedInv
  BY DEF PromiseInv
<1>1. ASSUME NEW r \in Requests, Enter(r) \/ SetCb(r) \/ Enqueue(r)
      PROVE  Promise!Next \/ UNCHANGED Promise!vars
  BY <1>0, <1>1, PromiseRequest
<1>2. ASSUME NEW t \in Threads, Drive(t)
      PROVE  Promise!Next \/ UNCHANGED Promise!vars
  BY <1>0, <1>2, PromiseDrive
<1>3. CASE Watch \/ Settle
  BY <1>0, <1>3, PromiseManage
<1>4. CASE CallFinal
  <2>1. SoloInv'
    BY <1>0, SoloNext
  <2>2. SuccessWasAnswered'
    BY <2>1 DEF SoloInv, SuccessWasAnswered, Settled
  <2>q. QED
    BY <1>0, <1>4, <2>2, PromiseTell
<1>5. CASE Promote \/ Release
  BY <1>0, <1>5, PromiseLose
<1>6. CASE Start \/ UNCHANGED vars
  <2>1. UNCHANGED <<slot, pc, historyVars>>
    BY <1>6 DEF Start, vars
  <2>q. QED
    BY <2>1, SameOutcome, KeptIsStutter DEF Kept, historyVars
<1>7. CASE Stop \/ SetupClear
  <2>1. /\ slot'.cbFunc = slot.cbFunc /\ slot'.cbNext = slot.cbNext
        /\ UNCHANGED <<pc, answered, overlooked, told, succeeded>> /\ undisturbed' = {}
    BY <1>7 DEF Stop, SetupClear, TypeOK, Slots
  <2>q. QED
    BY <2>1, SameOutcome, KeptIsDisturb DEF Kept
<1>q. QED
  BY <1>1, <1>2, <1>3, <1>4, <1>5, <1>6, <1>7
     DEF Next, Request, Manage, Watch, Settle, Threads

(* The jobs keep their promise: every call is refused, or asked and then   *)
(* told once, of a failure or, if it was answered, of a success, and a call*)
(* that keeps the slot to itself is never lost.                            *)
THEOREM ImplementsPromise == Spec => PromiseSpec
<1>1. Init => TypeOK /\ PromiseInv
  BY TypeOKInit, HeldInit, AskedInit DEF PromiseInv, Init, ToldInv, SoloInv, KeptInv
<1>2. TypeOK /\ PromiseInv /\ [Next]_vars => TypeOK' /\ PromiseInv'
  BY TypeOKNext, HeldNext, ToldStep, SoloNext, KeptNext, AskedNext DEF PromiseInv
<1>3. TypeOK /\ PromiseInv /\ [Next]_vars => [Promise!Next]_(Promise!vars)
  BY PromiseStep
<1>q. QED
  BY <1>1, <1>2, <1>3, PromiseInit, PTL DEF Spec, PromiseSpec, Promise!Spec
=============================================================================
