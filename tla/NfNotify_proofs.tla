--------------------------- MODULE NfNotify_proofs ---------------------------
(***************************************************************************)
(* Proofs about NfNotify: what the runs of MCNfNotify check on small       *)
(* instances holds for any number of properties, handlers, readers, fires. *)
(***************************************************************************)
EXTENDS NfNotify, SequenceTheorems, TLAPS

(* The queue holds exactly the fires that have not been taken, in order.   *)
QueueInv ==
  /\ Len(queue) <= Len(log)
  /\ \A i \in 1 .. Len(queue) : queue[i] = Taken + i

(* The thread dispatches the item it took last.                            *)
PcInv ==
  /\ Dispatching => cur = Taken /\ cur # 0
  /\ ~Dispatching => cur = 0
  /\ pc = "call" => target \in Handlers
  /\ pc # "call" => target = NoHandler
  /\ pc \notin {"emit", "call"} => pend = {}

(* Nothing is on the bus before nf_notify_init.                            *)
ReadyInv == ~ready => log = <<>> /\ pc = "wait"

IInv == TypeOK /\ QueueInv /\ PcInv /\ ReadyInv

LEMMA InitIInv == Init => IInv
<1> SUFFICES ASSUME Init PROVE IInv
  OBVIOUS
<1> USE NfNotifyAssumption DEF Init
<1>1. TypeOK
  BY EmptySeq DEF TypeOK, PCs, CbStates, Entry, Nil
<1>2. QueueInv /\ PcInv /\ ReadyInv
  BY EmptySeq DEF QueueInv, PcInv, ReadyInv, Taken, Dispatching
<1>3. QED
  BY <1>1, <1>2 DEF IInv

(* One more fire leaves what has been taken alone.                         *)
LEMMA PushFacts ==
  ASSUME TypeOK, QueueInv, NEW p \in Props, NEW kind \in Kinds, Push(p, kind)
  PROVE  /\ log' \in Seq(Entry) /\ queue' \in Seq(Nat)
         /\ Len(log') = Len(log) + 1 /\ Len(queue') = Len(queue) + 1
         /\ log'[Len(log) + 1] = [prop |-> p, kind |-> kind]
         /\ \A i \in 1 .. Len(log) : log'[i] = log[i]
         /\ Taken' = Taken /\ QueueInv'
<1> DEFINE e == [prop |-> p, kind |-> kind]
<1>1. e \in Entry /\ log \in Seq(Entry) /\ queue \in Seq(Nat)
  BY DEF Entry, TypeOK
<1>2. Len(log) \in Nat /\ Len(queue) \in Nat
  BY <1>1, LenProperties
<1>3. log' = Append(log, e) /\ queue' = Append(queue, Len(log) + 1)
  BY DEF Push
<1>4. /\ log' \in Seq(Entry) /\ Len(log') = Len(log) + 1
      /\ log'[Len(log) + 1] = e
      /\ \A i \in 1 .. Len(log) : log'[i] = log[i]
  BY <1>1, <1>2, <1>3, AppendProperties
<1>5. /\ queue' \in Seq(Nat) /\ Len(queue') = Len(queue) + 1
      /\ queue'[Len(queue) + 1] = Len(log) + 1
      /\ \A i \in 1 .. Len(queue) : queue'[i] = queue[i]
  BY <1>1, <1>2, <1>3, AppendProperties
<1>6. Taken' = Taken
  BY <1>2, <1>4, <1>5 DEF Taken
<1>7. QueueInv'
  <2>1. Len(queue') <= Len(log')
    BY <1>2, <1>4, <1>5 DEF QueueInv
  <2>2. ASSUME NEW i \in 1 .. Len(queue') PROVE queue'[i] = Taken' + i
    <3>1. CASE i \in 1 .. Len(queue)
      BY <3>1, <1>5, <1>6 DEF QueueInv
    <3>2. CASE i = Len(queue) + 1
      BY <3>2, <1>2, <1>5, <1>6 DEF Taken
    <3>3. QED
      BY <3>1, <3>2, <1>2, <1>5
  <2>3. QED
    BY <2>1, <2>2 DEF QueueInv
<1>8. QED
  BY <1>4, <1>5, <1>6, <1>7

(* Taking the head of the queue takes the next fire.                       *)
LEMMA PopFacts ==
  ASSUME TypeOK, QueueInv, NtPop
  PROVE  /\ queue' \in Seq(Nat) /\ log' = log
         /\ Taken' = Taken + 1 /\ cur' = Taken' /\ Taken' <= Len(log)
         /\ Taken \in Nat
         /\ QueueInv'
<1>1. log \in Seq(Entry) /\ queue \in Seq(Nat) /\ queue # <<>>
  BY DEF TypeOK, NtPop
<1>2. Len(log) \in Nat /\ Len(queue) \in Nat \ {0}
  BY <1>1, LenProperties, EmptySeq
<1>3. /\ queue' \in Seq(Nat) /\ Len(queue') = Len(queue) - 1
      /\ \A i \in 1 .. Len(queue') : queue'[i] = queue[i + 1]
  BY <1>1, HeadTailProperties DEF NtPop
<1>4. cur' = queue[1] /\ log' = log
  BY <1>1 DEF NtPop
<1>5. Taken \in Nat /\ Taken' = Taken + 1 /\ Taken' <= Len(log)
  BY <1>2, <1>3, <1>4 DEF Taken, QueueInv
<1>6. cur' = Taken'
  BY <1>2, <1>4, <1>5 DEF QueueInv
<1>7. QueueInv'
  <2>1. Len(queue') <= Len(log')
    BY <1>2, <1>3, <1>4 DEF QueueInv
  <2>2. ASSUME NEW i \in 1 .. Len(queue') PROVE queue'[i] = Taken' + i
    <3>1. i + 1 \in 1 .. Len(queue) /\ queue'[i] = queue[i + 1]
      BY <1>2, <1>3
    <3>2. queue[i + 1] = Taken + (i + 1)
      BY <3>1 DEF QueueInv
    <3>3. QED
      BY <3>1, <3>2, <1>5
  <2>3. QED
    BY <2>1, <2>2 DEF QueueInv
<1>8. QED
  BY <1>3, <1>4, <1>5, <1>6, <1>7

(* Every step preserves the types, the queue and the thread's bookkeeping. *)
LEMMA NextIInv == IInv /\ [Next]_vars => IInv'
<1> SUFFICES ASSUME IInv, [Next]_vars PROVE IInv'
  OBVIOUS
<1>0. /\ TypeOK /\ QueueInv /\ PcInv /\ ReadyInv
      /\ Len(log) \in Nat /\ Len(queue) \in Nat
      /\ Taken \in 0 .. Len(log)
  <2>1. TypeOK /\ QueueInv /\ PcInv /\ ReadyInv
    BY DEF IInv
  <2>2. Len(log) \in Nat /\ Len(queue) \in Nat
    BY <2>1, LenProperties DEF TypeOK
  <2>3. QED
    BY <2>1, <2>2 DEF Taken, QueueInv
<1> USE NfNotifyAssumption
<1>1. CASE NotifyInit
  <2>1. Push(InitProp, "chmap") /\ ready' = TRUE /\ UNCHANGED <<ntVars, cbVars, rdVars>>
    BY <1>1 DEF NotifyInit
  <2>2. log' \in Seq(Entry) /\ queue' \in Seq(Nat) /\ QueueInv' /\ Taken' = Taken
    BY <1>0, <2>1, PushFacts
  <2>3. TypeOK'
    BY <1>0, <2>1, <2>2 DEF TypeOK, ntVars, cbVars, rdVars, Entry
  <2>4. PcInv' /\ ReadyInv'
    BY <1>0, <2>1, <2>2 DEF PcInv, ReadyInv, Dispatching, ntVars
  <2>5. QED
    BY <2>2, <2>3, <2>4 DEF IInv
<1>2. ASSUME NEW p \in Props, NEW kind \in Kinds, Fire(p, kind) PROVE IInv'
  <2>1. Push(p, kind) /\ ready /\ ready' = ready /\ UNCHANGED <<ntVars, cbVars, rdVars>>
    BY <1>2 DEF Fire
  <2>2. log' \in Seq(Entry) /\ queue' \in Seq(Nat) /\ QueueInv' /\ Taken' = Taken
    BY <1>0, <2>1, PushFacts
  <2>3. TypeOK'
    BY <1>0, <2>1, <2>2 DEF TypeOK, ntVars, cbVars, rdVars, Entry
  <2>4. PcInv' /\ ReadyInv'
    BY <1>0, <2>1, <2>2 DEF PcInv, ReadyInv, Dispatching, ntVars
  <2>5. QED
    BY <2>2, <2>3, <2>4 DEF IInv
<1>3. CASE NtPop
  <2>1. /\ queue' \in Seq(Nat) /\ log' = log /\ QueueInv'
        /\ Taken' = Taken + 1 /\ cur' = Taken'
    BY <1>0, <1>3, PopFacts
  <2>2. TypeOK'
    <3>1. pc' \in PCs /\ cur' \in Nat
      BY <1>0, <1>3, <2>1 DEF NtPop, PCs
    <3>2. UNCHANGED <<ready, log, old, stored, payloadFreed, heapFault, pend, target, seen, late>>
      BY <1>3 DEF NtPop
    <3>3. UNCHANGED <<cbVars, rdVars>>
      BY <1>3 DEF NtPop
    <3>4. QED
      BY <1>0, <2>1, <3>1, <3>2, <3>3 DEF TypeOK, cbVars, rdVars, Entry
  <2>3. PcInv' /\ ReadyInv'
    BY <1>0, <1>3, <2>1 DEF PcInv, ReadyInv, Dispatching, NtPop
  <2>4. QED
    BY <2>1, <2>2, <2>3 DEF IInv
<1>4. CASE NtStart \/ NtStore \/ NtFree \/ NtRefuse \/ (\E h \in Handlers : NtSelect(h))
           \/ NtCall \/ NtDone
  <2>1. log' = log /\ queue' = queue /\ ready' = ready
    BY <1>4 DEF NtStart, NtStore, NtFree, NtRefuse, NtSelect, NtCall, NtDone
  <2>2. QueueInv' /\ Taken' = Taken
    BY <1>0, <2>1 DEF QueueInv, Taken
  <2>3. CASE NtStart
    BY <1>0, <2>1, <2>2, <2>3 DEF IInv, TypeOK, PcInv, ReadyInv, NtStart, PCs,
      Dispatching, cbVars, rdVars, Entry
  <2>4. CASE NtStore
    <3>1. cur \in Nat /\ log[cur].prop \in Props
      <4>1. pc = "store"
        BY <2>4 DEF NtStore
      <4>2. cur \in 1 .. Len(log) /\ log \in Seq(Entry)
        BY <1>0, <4>1 DEF PcInv, Dispatching, TypeOK
      <4>3. log[cur] \in Entry
        BY <4>2, ElementOfSeq
      <4>4. QED
        BY <4>2, <4>3 DEF Entry
    <3>2. TypeOK'
      BY <1>0, <2>1, <2>4, <3>1 DEF TypeOK, NtStore, PCs, cbVars, rdVars, Entry
    <3>3. PcInv' /\ ReadyInv'
      BY <1>0, <2>1, <2>2, <2>4 DEF PcInv, ReadyInv, NtStore, Dispatching
    <3>4. QED
      BY <2>2, <3>2, <3>3 DEF IInv
  <2>5. CASE NtFree \/ NtRefuse
    <3>1. TypeOK'
      <4>1. pend' \subseteq Handlers
        BY <2>5 DEF NtFree, NtRefuse, Connected
      <4>2. pc' = "emit" /\ UNCHANGED <<cur, stored, heapFault, target, seen, late>>
        BY <2>5 DEF NtFree, NtRefuse
      <4>3. UNCHANGED <<cbVars, rdVars>>
        BY <2>5 DEF NtFree, NtRefuse
      <4>4. old' \in Nat /\ payloadFreed' \in BOOLEAN
        <5>1. CASE NtFree
          BY <1>0, <5>1 DEF NtFree, TypeOK
        <5>2. CASE NtRefuse
          BY <1>0, <5>2 DEF NtRefuse, TypeOK
        <5>3. QED
          BY <2>5, <5>1, <5>2
      <4>5. QED
        BY <1>0, <2>1, <4>1, <4>2, <4>3, <4>4 DEF TypeOK, PCs, cbVars, rdVars, Entry
    <3>2. PcInv' /\ ReadyInv'
      BY <1>0, <2>1, <2>2, <2>5 DEF PcInv, ReadyInv, NtFree, NtRefuse, Dispatching
    <3>3. QED
      BY <2>2, <3>1, <3>2 DEF IInv
  <2>6. ASSUME NEW h \in Handlers, NtSelect(h) PROVE IInv'
    <3>1. TypeOK'
      BY <1>0, <2>1, <2>6 DEF TypeOK, NtSelect, PCs, cbVars, rdVars, Entry
    <3>2. PcInv' /\ ReadyInv'
      BY <1>0, <2>1, <2>2, <2>6 DEF PcInv, ReadyInv, NtSelect, Dispatching, TypeOK
    <3>3. QED
      BY <2>2, <3>1, <3>2 DEF IInv
  <2>7. CASE NtCall
    <3>1. target \in Handlers /\ cur \in Nat
      BY <1>0, <2>7 DEF NtCall, PcInv, TypeOK
    <3>2. seen' \in [Handlers -> SUBSET Nat] /\ late' \in [Handlers -> Nat]
      <4>1. seen \in [Handlers -> SUBSET Nat] /\ late \in [Handlers -> Nat]
        BY <1>0 DEF TypeOK
      <4>2. [seen EXCEPT ![target] = @ \cup {cur}] \in [Handlers -> SUBSET Nat]
        BY <3>1, <4>1
      <4>3. [late EXCEPT ![target] = @ + 1] \in [Handlers -> Nat]
        BY <3>1, <4>1
      <4>4. QED
        BY <2>7, <4>1, <4>2, <4>3 DEF NtCall
    <3>3. TypeOK'
      BY <1>0, <2>1, <2>7, <3>2 DEF TypeOK, NtCall, PCs, cbVars, rdVars, Entry
    <3>4. PcInv' /\ ReadyInv'
      BY <1>0, <2>1, <2>2, <2>7 DEF PcInv, ReadyInv, NtCall, Dispatching
    <3>5. QED
      BY <2>2, <3>3, <3>4 DEF IInv
  <2>8. CASE NtDone
    <3>1. TypeOK'
      BY <1>0, <2>1, <2>8 DEF TypeOK, NtDone, PCs, cbVars, rdVars, Entry
    <3>2. PcInv' /\ ReadyInv'
      BY <1>0, <2>1, <2>2, <2>8 DEF PcInv, ReadyInv, NtDone, Dispatching
    <3>3. QED
      BY <2>2, <3>1, <3>2 DEF IInv
  <2>9. QED
    BY <1>4, <2>3, <2>4, <2>5, <2>6, <2>7, <2>8
<1>5. ASSUME NEW h \in Handlers,
             \/ ConnectSignal(h) \/ ConnectList(h)
             \/ RemoveDisconnect(h) \/ RemoveFree(h)
      PROVE  IInv'
  <2>1. /\ UNCHANGED <<ready, log, queue, ntVars, rdVars>>
        /\ cbState' \in [Handlers -> CbStates]
    BY <1>0, <1>5 DEF ConnectSignal, ConnectList, RemoveDisconnect, RemoveFree, TypeOK, CbStates
  <2>2. base' \in [Handlers -> Nat]
    <3>1. Emitted \in Nat /\ base \in [Handlers -> Nat]
      BY <1>0 DEF Emitted, PcInv, Dispatching, TypeOK
    <3>2. QED
      BY <1>5, <3>1 DEF ConnectSignal, ConnectList, RemoveDisconnect, RemoveFree
  <2>3. TypeOK'
    BY <1>0, <2>1, <2>2 DEF TypeOK, ntVars, rdVars, Entry
  <2>4. QueueInv' /\ PcInv' /\ ReadyInv'
    BY <1>0, <2>1 DEF QueueInv, PcInv, ReadyInv, ntVars, Taken, Dispatching
  <2>5. QED
    BY <2>3, <2>4 DEF IInv
<1>6. ASSUME NEW r \in Readers, (\E p \in Props : GetPointer(r, p)) \/ GetCopy(r)
      PROVE  IInv'
  <2>1. UNCHANGED <<ready, log, queue, ntVars, cbVars>>
    BY <1>6 DEF GetPointer, GetCopy
  <2>2. TypeOK'
    <3>1. ASSUME NEW p \in Props, GetPointer(r, p) PROVE TypeOK'
      <4>1. /\ rptr \in [Readers -> [prop : Props, id : Nat, held : BOOLEAN]]
            /\ [prop |-> p, id |-> stored[p], held |-> TRUE]
                 \in [prop : Props, id : Nat, held : BOOLEAN]
        BY <1>0 DEF TypeOK
      <4>2. rptr' \in [Readers -> [prop : Props, id : Nat, held : BOOLEAN]]
        BY <3>1, <4>1 DEF GetPointer
      <4>3. QED
        BY <1>0, <2>1, <3>1, <4>2 DEF GetPointer, TypeOK, ntVars, cbVars, Entry
    <3>2. CASE GetCopy(r)
      <4>1. /\ rptr' \in [Readers -> [prop : Props, id : Nat, held : BOOLEAN]]
            /\ freedRead' \in BOOLEAN
        BY <1>0, <3>2 DEF GetCopy, TypeOK, Nil
      <4>2. rlast' \in [Readers -> [Props -> Nat]]
        <5>1. /\ rlast \in [Readers -> [Props -> Nat]]
              /\ rptr[r].prop \in Props /\ rptr[r].id \in Nat
          BY <1>0 DEF TypeOK
        <5>2. [rlast[r] EXCEPT ![rptr[r].prop] = rptr[r].id] \in [Props -> Nat]
          BY <5>1
        <5>3. CASE rlast' = [rlast EXCEPT ![r] =
                               [rlast[r] EXCEPT ![rptr[r].prop] = rptr[r].id]]
          BY <5>1, <5>2, <5>3
        <5>4. CASE rlast' = rlast
          BY <5>1, <5>4
        <5>5. QED
          BY <3>2, <5>3, <5>4, <5>1 DEF GetCopy
      <4>3. QED
        BY <1>0, <2>1, <4>1, <4>2 DEF TypeOK, ntVars, cbVars, Entry
    <3>3. QED
      BY <1>6, <3>1, <3>2
  <2>3. QueueInv' /\ PcInv' /\ ReadyInv'
    BY <1>0, <2>1 DEF QueueInv, PcInv, ReadyInv, ntVars, Taken, Dispatching
  <2>4. QED
    BY <2>2, <2>3 DEF IInv
<1>7. CASE UNCHANGED vars
  BY <1>0, <1>7 DEF vars, ntVars, cbVars, rdVars, IInv, TypeOK, QueueInv, PcInv,
    ReadyInv, Taken, Dispatching, Entry
<1>8. QED
  BY <1>1, <1>2, <1>3, <1>4, <1>5, <1>6, <1>7 DEF Next, NotifyThread, Clients

(* Every variable of the bus keeps its type, whatever the threads do.      *)
THEOREM TypeCorrect == Spec => []TypeOK
<1>1. IInv => TypeOK
  BY DEF IInv
<1>2. QED
  BY InitIInv, NextIInv, <1>1, PTL DEF Spec

(* IInv in the form the remaining proofs use it.                           *)
LEMMA Bounds ==
  ASSUME IInv
  PROVE  /\ Len(log) \in Nat /\ Taken \in 0 .. Len(log)
         /\ Applied \in 0 .. Len(log) /\ Emitted \in 0 .. Len(log)
         /\ pc = "store" => cur = Taken /\ cur = Applied + 1 /\ cur \in 1 .. Len(log)
         /\ Dispatching => log[cur].prop \in Props
         /\ \A i \in 1 .. Len(log) : log[i] \in Entry
<1>1. TypeOK /\ QueueInv /\ PcInv
  BY DEF IInv
<1>2. Len(log) \in Nat /\ Len(queue) \in Nat /\ log \in Seq(Entry)
  BY <1>1, LenProperties DEF TypeOK
<1>3. Taken \in 0 .. Len(log)
  BY <1>1, <1>2 DEF Taken, QueueInv
<1>4. Dispatching => cur = Taken /\ cur \in 1 .. Len(log)
  BY <1>1, <1>3 DEF PcInv
<1>5. \A i \in 1 .. Len(log) : log[i] \in Entry
  BY <1>2, ElementOfSeq
<1>6. Dispatching => log[cur].prop \in Props
  BY <1>4, <1>5 DEF Entry
<1>7. Applied \in 0 .. Len(log) /\ Emitted \in 0 .. Len(log)
  BY <1>3, <1>4 DEF Applied, Emitted, Dispatching
<1>8. pc = "store" => cur = Taken /\ cur = Applied + 1 /\ cur \in 1 .. Len(log)
  BY <1>3, <1>4 DEF Applied, Dispatching
<1>9. QED
  BY <1>2, <1>3, <1>5, <1>6, <1>7, <1>8

(* To its clients a step of the bus is a fire, the application of the next *)
(* fire, or nothing.                                                       *)
LEMMA StepKinds ==
  ASSUME IInv, [Next]_vars
  PROVE  \/ \E p \in Props, kind \in AcceptedKinds :
              /\ Push(p, kind) /\ Len(log) < MaxFires
              /\ stored' = stored /\ Applied' = Applied /\ pc' = pc /\ cur' = cur
         \/ NtStore \/ NtRefuse
         \/ log' = log /\ stored' = stored /\ Applied' = Applied
<1>0. TypeOK /\ QueueInv /\ PcInv /\ ReadyInv
  BY DEF IInv
<1> USE NfNotifyAssumption
<1>1. CASE NotifyInit
  <2>1. Push(InitProp, "chmap") /\ ~ready /\ UNCHANGED <<ntVars, cbVars, rdVars>>
    BY <1>1 DEF NotifyInit
  <2>2. Taken' = Taken
    BY <1>0, <2>1, PushFacts
  <2>3. Len(log) < MaxFires
    BY <1>0, <2>1, EmptySeq DEF ReadyInv
  <2>4. "chmap" \in AcceptedKinds
    BY DEF AcceptedKinds
  <2>5. QED
    BY <2>1, <2>2, <2>3, <2>4 DEF ntVars, Applied
<1>2. ASSUME NEW p \in Props, NEW kind \in Kinds, Fire(p, kind)
      PROVE  /\ kind \in AcceptedKinds /\ Push(p, kind) /\ Len(log) < MaxFires
             /\ stored' = stored /\ Applied' = Applied /\ pc' = pc /\ cur' = cur
  <2>1. Push(p, kind) /\ UNCHANGED <<ntVars, cbVars, rdVars>>
        /\ kind \in AcceptedKinds /\ Len(log) < MaxFires
    BY <1>2 DEF Fire
  <2>2. Taken' = Taken
    BY <1>0, <2>1, PushFacts
  <2>3. QED
    BY <2>1, <2>2 DEF ntVars, Applied
<1>3. CASE NtPop
  <2>1. log' = log /\ Taken' = Taken + 1 /\ Taken \in Nat
    BY <1>0, <1>3, PopFacts
  <2>2. QED
    BY <1>3, <2>1 DEF Applied, NtPop
<1>4. CASE NtStart \/ NtFree \/ (\E h \in Handlers : NtSelect(h)) \/ NtCall \/ NtDone
  <2>1. log' = log /\ queue' = queue /\ stored' = stored
    BY <1>4 DEF NtStart, NtFree, NtSelect, NtCall, NtDone
  <2>2. pc # "store" /\ pc' # "store"
    BY <1>4 DEF NtStart, NtFree, NtSelect, NtCall, NtDone
  <2>3. QED
    BY <2>1, <2>2 DEF Applied, Taken
<1>5. CASE \/ \E h \in Handlers : \/ ConnectSignal(h) \/ ConnectList(h)
                                  \/ RemoveDisconnect(h) \/ RemoveFree(h)
           \/ \E r \in Readers : (\E p \in Props : GetPointer(r, p)) \/ GetCopy(r)
           \/ UNCHANGED vars
  <2>1. log' = log /\ queue' = queue /\ stored' = stored /\ pc' = pc
    BY <1>5 DEF ConnectSignal, ConnectList, RemoveDisconnect, RemoveFree,
      GetPointer, GetCopy, vars, ntVars
  <2>2. QED
    BY <2>1 DEF Applied, Taken
<1>6. QED
  BY <1>1, <1>2, <1>3, <1>4, <1>5 DEF Next, NotifyThread, Clients

(* A property holds the value of the last fire of it that was applied and  *)
(* could be copied.                                                        *)
LEMMA LatchedStep ==
  IInv /\ LatchedIsLastApplied /\ [Next]_vars => LatchedIsLastApplied'
<1> SUFFICES ASSUME IInv, LatchedIsLastApplied, [Next]_vars,
                    NEW q \in Props
             PROVE  /\ stored'[q] <= Applied'
                    /\ stored'[q] # 0 => log'[stored'[q]].prop = q
                    /\ \A i \in (stored'[q] + 1) .. Applied' :
                         log'[i].prop = q => Refused(log'[i].kind)
  BY DEF LatchedIsLastApplied
<1>0. /\ stored[q] \in Nat /\ stored[q] <= Applied
      /\ stored[q] # 0 => log[stored[q]].prop = q
      /\ \A i \in (stored[q] + 1) .. Applied : log[i].prop = q => Refused(log[i].kind)
      /\ Applied \in 0 .. Len(log) /\ Len(log) \in Nat
      /\ stored \in [Props -> Nat]
  BY Bounds DEF LatchedIsLastApplied, IInv, TypeOK
<1>1. ASSUME NEW p \in Props, NEW kind \in AcceptedKinds, Push(p, kind),
             stored' = stored, Applied' = Applied
      PROVE  /\ stored'[q] <= Applied'
             /\ stored'[q] # 0 => log'[stored'[q]].prop = q
             /\ \A i \in (stored'[q] + 1) .. Applied' :
                  log'[i].prop = q => Refused(log'[i].kind)
  <2>1. \A i \in 1 .. Len(log) : log'[i] = log[i]
    BY <1>1, PushFacts DEF IInv, AcceptedKinds
  <2>2. QED
    BY <1>0, <1>1, <2>1
<1>2. CASE NtStore \/ NtRefuse
  <2>1. pc = "store" /\ log' = log /\ queue' = queue /\ pc' # "store"
    BY <1>2 DEF NtStore, NtRefuse
  <2>2. cur = Applied + 1 /\ Applied' = cur /\ log[cur].prop \in Props
    BY <2>1, Bounds DEF Applied, Taken, Dispatching
  <2>3. CASE NtStore
    <3>1. /\ stored' = [stored EXCEPT ![log[cur].prop] = cur]
          /\ ~Refused(log[cur].kind)
      BY <2>3 DEF NtStore
    <3>2. CASE log[cur].prop = q
      BY <1>0, <2>1, <2>2, <3>1, <3>2
    <3>3. CASE log[cur].prop # q
      <4>1. stored'[q] = stored[q]
        BY <1>0, <2>2, <3>1, <3>3
      <4>2. QED
        BY <1>0, <2>1, <2>2, <3>3, <4>1
    <3>4. QED
      BY <3>2, <3>3
  <2>4. CASE NtRefuse
    <3>1. stored' = stored /\ Refused(log[cur].kind)
      BY <2>4 DEF NtRefuse
    <3>2. QED
      BY <1>0, <2>1, <2>2, <3>1
  <2>5. QED
    BY <1>2, <2>3, <2>4
<1>3. CASE log' = log /\ stored' = stored /\ Applied' = Applied
  BY <1>0, <1>3
<1>4. QED
  BY <1>1, <1>2, <1>3, StepKinds

(* While the handlers of a property run, and whenever it is read, the      *)
(* property holds the value of the last copyable fire applied to it.       *)
THEOREM LatchedCorrect == Spec => []LatchedIsLastApplied
<1>1. Init => LatchedIsLastApplied
  <2> SUFFICES ASSUME Init PROVE LatchedIsLastApplied
    OBVIOUS
  <2>1. Applied = 0
    BY EmptySeq DEF Init, Applied, Taken
  <2>2. QED
    BY <2>1 DEF Init, LatchedIsLastApplied
<1>2. QED
  BY <1>1, InitIInv, NextIInv, LatchedStep, PTL DEF Spec

(* The bus of threads, blocks and callbacks implements the abstract bus:   *)
(* fires are applied one at a time in the order they were accepted.        *)
THEOREM ImplementsBus == Spec => BusSpec
<1>1. Init => Bus!Init
  <2> SUFFICES ASSUME Init PROVE Bus!Init
    OBVIOUS
  <2>1. Applied = 0
    BY EmptySeq DEF Init, Applied, Taken
  <2>2. QED
    BY <2>1 DEF Init, Bus!Init
<1>2. IInv /\ [Next]_vars => [Bus!Next]_(Bus!vars)
  <2> SUFFICES ASSUME IInv, [Next]_vars PROVE Bus!Next \/ UNCHANGED Bus!vars
    OBVIOUS
  <2>1. ASSUME NEW p \in Props, NEW kind \in AcceptedKinds,
               Push(p, kind), Len(log) < MaxFires, stored' = stored, Applied' = Applied
        PROVE  Bus!Next
    <3>1. Bus!Publish(p, kind)
      BY <2>1 DEF Push, Bus!Publish
    <3>2. kind \in Bus!AcceptedKinds
      BY DEF AcceptedKinds, Bus!AcceptedKinds
    <3>3. QED
      BY <3>1, <3>2 DEF Bus!Next
  <2>2. CASE NtStore \/ NtRefuse
    <3>1. pc = "store" /\ log' = log /\ queue' = queue /\ pc' # "store"
      BY <2>2 DEF NtStore, NtRefuse
    <3>2. /\ cur = Applied + 1 /\ Applied' = Applied + 1 /\ Applied < Len(log)
      BY <3>1, Bounds DEF Applied, Taken
    <3>3. stored' = IF Bus!Refused(log[Applied + 1].kind)
                      THEN stored
                      ELSE [stored EXCEPT ![log[Applied + 1].prop] = Applied + 1]
      BY <2>2, <3>2 DEF NtStore, NtRefuse, Refused, Bus!Refused
    <3>4. Bus!Apply
      BY <3>1, <3>2, <3>3 DEF Bus!Apply
    <3>5. QED
      BY <3>4 DEF Bus!Next
  <2>3. CASE log' = log /\ stored' = stored /\ Applied' = Applied
    BY <2>3 DEF Bus!vars
  <2>4. QED
    BY <2>1, <2>2, <2>3, StepKinds
<1>3. QED
  BY <1>1, <1>2, InitIInv, NextIInv, PTL DEF Spec, BusSpec, Bus!Spec

(* A handler whose record has been freed is no longer connected, so the    *)
(* thread cannot select it again.                                          *)
LateInv ==
  \A h \in Handlers : /\ late[h] \in {0, 1}
                      /\ late[h] = 1 => cbState[h] = "freed" /\ target # h

LEMMA LateStep == IInv /\ LateInv /\ [Next]_vars => LateInv'
<1> SUFFICES ASSUME IInv, LateInv, [Next]_vars, NEW g \in Handlers
             PROVE  /\ late'[g] \in {0, 1}
                    /\ late'[g] = 1 => cbState'[g] = "freed" /\ target' # g
  BY DEF LateInv
<1>0. /\ late[g] \in {0, 1}
      /\ late[g] = 1 => cbState[g] = "freed" /\ target # g
      /\ late \in [Handlers -> Nat] /\ cbState \in [Handlers -> CbStates]
      /\ NoHandler \notin Handlers
  BY NfNotifyAssumption DEF LateInv, IInv, TypeOK
<1>1. CASE UNCHANGED <<late, cbState, target>>
  BY <1>0, <1>1
<1>2. ASSUME NEW h \in Handlers, NtSelect(h)
      PROVE  /\ late'[g] \in {0, 1}
             /\ late'[g] = 1 => cbState'[g] = "freed" /\ target' # g
  <2>1. late' = late /\ cbState' = cbState
    BY <1>2 DEF NtSelect, cbVars
  <2>2. target' = target \/ (target' = h /\ cbState[h] # "freed")
    BY <1>2 DEF NtSelect, Connected
  <2>3. QED
    BY <1>0, <2>1, <2>2
<1>3. CASE NtCall
  <2>1. cbState' = cbState /\ target' = NoHandler
    BY <1>3 DEF NtCall, cbVars
  <2>2. CASE cbState[target] = "freed" /\ g = target
    <3>1. late'[g] = late[g] + 1
      BY <1>0, <1>3, <2>2 DEF NtCall
    <3>2. QED
      BY <1>0, <2>1, <2>2, <3>1
  <2>3. CASE ~(cbState[target] = "freed" /\ g = target)
    <3>1. late'[g] = late[g]
      BY <1>0, <1>3, <2>3 DEF NtCall
    <3>2. QED
      BY <1>0, <2>1, <3>1
  <2>4. QED
    BY <2>2, <2>3
<1>4. ASSUME NEW h \in Handlers,
             \/ ConnectSignal(h) \/ ConnectList(h)
             \/ RemoveDisconnect(h) \/ RemoveFree(h)
      PROVE  /\ late'[g] \in {0, 1}
             /\ late'[g] = 1 => cbState'[g] = "freed" /\ target' # g
  <2>1. late' = late /\ target' = target /\ cbState[h] # "freed"
    BY <1>4 DEF ConnectSignal, ConnectList, RemoveDisconnect, RemoveFree, ntVars
  <2>2. g # h => cbState'[g] = cbState[g]
    BY <1>0, <1>4 DEF ConnectSignal, ConnectList, RemoveDisconnect, RemoveFree
  <2>3. QED
    BY <1>0, <2>1, <2>2
<1>5. CASE \/ NotifyInit \/ \E p \in Props, kind \in Kinds : Fire(p, kind)
           \/ NtStart \/ NtPop \/ NtStore \/ NtFree \/ NtRefuse \/ NtDone
           \/ \E r \in Readers : (\E p \in Props : GetPointer(r, p)) \/ GetCopy(r)
           \/ UNCHANGED vars
  <2>1. UNCHANGED <<late, cbState, target>>
    BY <1>5 DEF NotifyInit, Fire, NtStart, NtPop, NtStore, NtFree, NtRefuse, NtDone,
      GetPointer, GetCopy, vars, ntVars, cbVars
  <2>2. QED
    BY <2>1, <1>1
<1>6. QED
  BY <1>2, <1>3, <1>4, <1>5 DEF Next, NotifyThread, Clients

(* However a removal races an emission, at most one call of the removed    *)
(* handler is entered after its record has been freed.                     *)
THEOREM RemovedAtMostOnce == Spec => []RemovedRunsAtMostOnce
<1>1. Init => LateInv
  BY DEF Init, LateInv
<1>2. LateInv => RemovedRunsAtMostOnce
  BY DEF LateInv, RemovedRunsAtMostOnce
<1>3. QED
  BY <1>1, <1>2, InitIInv, NextIInv, LateStep, PTL DEF Spec

(* What the handlers have seen, and what the emission still owes them: the *)
(* handlers it has yet to call connected before it began and have not been *)
(* called for its item.                                                    *)
DeliveryInv ==
  /\ \A h \in Handlers : /\ seen[h] \subseteq 1 .. Emitted
                         /\ base[h] <= Emitted
                         /\ cbState[h] = "absent" => seen[h] = {}
  /\ \A h \in Handlers : h \in pend \/ h = target =>
       /\ PropOf[h] = log[cur].prop
       /\ base[h] < cur
       /\ cur \notin seen[h]
       /\ cbState[h] # "absent"
  /\ target \notin pend

(* The fires h has been called for if it is connected.                     *)
Owed(h) == {i \in (base[h] + 1) .. Emitted :
              /\ log[i].prop = PropOf[h]
              /\ ~(i = cur /\ (h \in pend \/ h = target))}

LEMMA EmissionFacts ==
  ASSUME IInv, NtFree \/ NtRefuse
  PROVE  /\ Emitted = cur - 1 /\ Emitted' = cur /\ cur \in 1 .. Len(log)
         /\ pend = {} /\ target = NoHandler /\ pend' = Connected(log[cur].prop)
         /\ UNCHANGED <<log, cur, target, seen, cbState, base>>
<1>1. /\ pc \in {"store", "free"} /\ pc' = "emit"
      /\ log' = log /\ queue' = queue
      /\ pend' = Connected(log[cur].prop)
      /\ UNCHANGED <<cur, target, seen, cbState, base>>
  BY DEF NtFree, NtRefuse, cbVars
<1>2. Taken' = Taken /\ Taken \in Nat /\ Len(log) \in Nat
  BY <1>1, Bounds DEF Taken
<1>3. cur = Taken /\ cur \in 1 .. Len(log) /\ pend = {} /\ target = NoHandler
  BY <1>1, Bounds DEF IInv, PcInv, Dispatching
<1>4. QED
  BY <1>1, <1>2, <1>3 DEF Emitted

LEMMA CallFacts ==
  ASSUME IInv, DeliveryInv, NtCall
  PROVE  /\ target \in Handlers /\ pc = "call" /\ target' = NoHandler
         /\ Emitted = cur /\ Emitted' = Emitted /\ cur \in 1 .. Len(log)
         /\ UNCHANGED <<log, cur, pend, cbState, base>>
         /\ seen' = seen \/ seen' = [seen EXCEPT ![target] = @ \cup {cur}]
         /\ cbState[target] # "freed" =>
              seen' = [seen EXCEPT ![target] = @ \cup {cur}]
<1>1. /\ pc = "call" /\ pc' = "emit" /\ target' = NoHandler
      /\ log' = log /\ queue' = queue
      /\ UNCHANGED <<cur, pend, cbState, base>>
  BY DEF NtCall, cbVars
<1>2. Taken' = Taken /\ Taken \in Nat /\ Len(log) \in Nat
  BY <1>1, Bounds DEF Taken
<1>3. cur = Taken /\ cur \in 1 .. Len(log) /\ target \in Handlers
  BY <1>1, Bounds DEF IInv, PcInv, Dispatching
<1>4. Emitted = cur /\ Emitted' = Emitted
  BY <1>1, <1>2, <1>3 DEF Emitted
<1>5. /\ seen' = seen \/ seen' = [seen EXCEPT ![target] = @ \cup {cur}]
      /\ cbState[target] # "freed" => seen' = [seen EXCEPT ![target] = @ \cup {cur}]
  BY DEF NtCall
<1>6. QED
  BY <1>1, <1>3, <1>4, <1>5

(* The steps that neither begin an emission nor call a handler.            *)
LEMMA QuietSteps ==
  ASSUME IInv, [Next]_vars
  PROVE  \/ NtFree \/ NtRefuse \/ NtCall
         \/ \E h \in Handlers : NtSelect(h)
         \/ \E h \in Handlers : ConnectSignal(h) \/ ConnectList(h)
                                \/ RemoveDisconnect(h) \/ RemoveFree(h)
         \/ /\ UNCHANGED <<pend, target, seen, cbState, base>> /\ Emitted' = Emitted
            /\ \A i \in 1 .. Len(log) : log'[i] = log[i]
            /\ cur' = cur \/ (pend = {} /\ target = NoHandler)
<1>0. TypeOK /\ QueueInv /\ PcInv
  BY DEF IInv
<1>1. ASSUME NEW p \in Props, NEW kind \in Kinds, Push(p, kind),
             UNCHANGED <<ntVars, cbVars, rdVars>>
      PROVE  /\ UNCHANGED <<pend, target, seen, cbState, base>> /\ Emitted' = Emitted
             /\ \A i \in 1 .. Len(log) : log'[i] = log[i]
             /\ cur' = cur
  <2>1. Taken' = Taken /\ \A i \in 1 .. Len(log) : log'[i] = log[i]
    BY <1>0, <1>1, PushFacts
  <2>2. QED
    BY <1>1, <2>1 DEF ntVars, cbVars, Emitted
<1>2. CASE NotifyInit \/ \E p \in Props, kind \in Kinds : Fire(p, kind)
  BY <1>1, <1>2, NfNotifyAssumption DEF NotifyInit, Fire, AcceptedKinds
<1>3. CASE NtPop
  <2>1. log' = log /\ Taken' = Taken + 1 /\ Taken \in Nat
    BY <1>0, <1>3, PopFacts
  <2>2. pc = "pop" /\ pc' = "store" /\ UNCHANGED <<pend, target, seen, cbState, base>>
    BY <1>3 DEF NtPop, cbVars
  <2>3. pend = {} /\ target = NoHandler
    BY <1>0, <2>2 DEF PcInv
  <2>4. QED
    BY <2>1, <2>2, <2>3 DEF Emitted
<1>4. CASE NtStart \/ NtStore
  <2>1. /\ log' = log /\ queue' = queue /\ cur' = cur
        /\ UNCHANGED <<pend, target, seen, cbState, base>>
        /\ (pc' \in {"store", "free"}) = (pc \in {"store", "free"})
    BY <1>4 DEF NtStart, NtStore, cbVars
  <2>2. QED
    BY <2>1 DEF Emitted, Taken
<1>5. CASE NtDone
  <2>1. /\ log' = log /\ queue' = queue /\ pend = {} /\ pc = "emit"
        /\ UNCHANGED <<pend, target, seen, cbState, base>>
        /\ pc' \notin {"store", "free"}
    BY <1>5 DEF NtDone, cbVars
  <2>2. target = NoHandler
    BY <1>0, <2>1 DEF PcInv
  <2>3. QED
    BY <2>1, <2>2 DEF Emitted, Taken
<1>6. CASE \/ \E r \in Readers : (\E p \in Props : GetPointer(r, p)) \/ GetCopy(r)
           \/ UNCHANGED vars
  <2>1. UNCHANGED <<log, queue, pc, cur, pend, target, seen, cbState, base>>
    BY <1>6 DEF GetPointer, GetCopy, vars, ntVars, cbVars
  <2>2. QED
    BY <2>1 DEF Emitted, Taken
<1>7. QED
  BY <1>2, <1>3, <1>4, <1>5, <1>6 DEF Next, NotifyThread, Clients

LEMMA DeliveryInvStep == IInv /\ DeliveryInv /\ [Next]_vars => DeliveryInv'
<1> SUFFICES ASSUME IInv, DeliveryInv, [Next]_vars PROVE DeliveryInv'
  OBVIOUS
<1>0. /\ seen \in [Handlers -> SUBSET Nat] /\ cbState \in [Handlers -> CbStates]
      /\ base \in [Handlers -> Nat] /\ NoHandler \notin Handlers /\ pend \subseteq Handlers
      /\ Len(log) \in Nat /\ Emitted \in 0 .. Len(log)
  BY Bounds, NfNotifyAssumption DEF IInv, TypeOK
<1>1. CASE NtFree \/ NtRefuse
  <2>1. /\ Emitted = cur - 1 /\ Emitted' = cur /\ cur \in 1 .. Len(log)
        /\ pend = {} /\ target = NoHandler /\ pend' = Connected(log[cur].prop)
        /\ UNCHANGED <<log, cur, target, seen, cbState, base>>
    BY <1>1, EmissionFacts
  <2>2. \A h \in pend' : PropOf[h] = log[cur].prop /\ cbState[h] # "absent" /\ h \in Handlers
    BY <2>1 DEF Connected
  <2>3. \A h \in Handlers : base[h] < cur /\ cur \notin seen[h] /\ seen[h] \subseteq 1 .. cur
    BY <1>0, <2>1 DEF DeliveryInv
  <2>4. QED
    BY <1>0, <2>1, <2>2, <2>3 DEF DeliveryInv
<1>2. CASE NtCall
  <2>1. /\ target \in Handlers /\ target' = NoHandler
        /\ Emitted = cur /\ Emitted' = Emitted /\ cur \in 1 .. Len(log)
        /\ UNCHANGED <<log, cur, pend, cbState, base>>
        /\ seen' = seen \/ seen' = [seen EXCEPT ![target] = @ \cup {cur}]
    BY <1>2, CallFacts
  <2>2. \A h \in Handlers : h # target => seen'[h] = seen[h]
    BY <1>0, <2>1
  <2>3. seen'[target] \subseteq 1 .. Emitted /\ cbState[target] # "absent" /\ target \notin pend
    BY <1>0, <2>1 DEF DeliveryInv
  <2>4. \A h \in Handlers : /\ seen'[h] \subseteq 1 .. Emitted'
                            /\ base'[h] <= Emitted'
                            /\ cbState'[h] = "absent" => seen'[h] = {}
    BY <1>0, <2>1, <2>2, <2>3 DEF DeliveryInv
  <2>5. \A h \in Handlers : h \in pend' \/ h = target' =>
          /\ h # target /\ h \in pend
    BY <1>0, <2>1, <2>3
  <2>6. target' \notin pend'
    BY <1>0, <2>1
  <2>7. QED
    BY <1>0, <2>1, <2>2, <2>4, <2>5, <2>6 DEF DeliveryInv
<1>3. ASSUME NEW g \in Handlers, NtSelect(g) PROVE DeliveryInv'
  <2>1. /\ pc = "emit" /\ g \in pend /\ pend' = pend \ {g}
        /\ UNCHANGED <<log, queue, cur, seen, cbState, base>>
        /\ pc' \in {"emit", "call"}
        /\ target' = target \/ target' = g
    BY <1>3 DEF NtSelect, cbVars
  <2>2. Emitted' = Emitted
    BY <2>1 DEF Emitted, Taken
  <2>3. QED
    BY <1>0, <2>1, <2>2 DEF DeliveryInv
<1>4. ASSUME NEW g \in Handlers,
             \/ ConnectSignal(g) \/ ConnectList(g)
             \/ RemoveDisconnect(g) \/ RemoveFree(g)
      PROVE  DeliveryInv'
  <2>1. /\ UNCHANGED <<log, queue, cur, pc, pend, target, seen>>
        /\ \A h \in Handlers : cbState'[h] = "absent" => cbState[h] = "absent"
    BY <1>0, <1>4 DEF ConnectSignal, ConnectList, RemoveDisconnect, RemoveFree, ntVars
  <2>2. Emitted' = Emitted
    BY <2>1 DEF Emitted, Taken
  <2>3. \A h \in Handlers : (base'[h] = base[h]) \/
                           (base'[h] = Emitted /\ cbState[h] = "absent")
    BY <1>0, <1>4 DEF ConnectSignal, ConnectList, RemoveDisconnect, RemoveFree
  <2>4. \A h \in Handlers : /\ seen'[h] \subseteq 1 .. Emitted'
                            /\ base'[h] <= Emitted'
                            /\ cbState'[h] = "absent" => seen'[h] = {}
    <3>1. ASSUME NEW h \in Handlers PROVE base'[h] <= Emitted'
      BY <1>0, <2>2, <2>3 DEF DeliveryInv
    <3>2. QED
      BY <2>1, <2>2, <3>1 DEF DeliveryInv
  <2>5. \A h \in Handlers : h \in pend' \/ h = target' =>
          /\ base'[h] = base[h] /\ cbState'[h] # "absent"
    BY <2>1, <2>3 DEF DeliveryInv
  <2>6. \A h \in Handlers : h \in pend' \/ h = target' =>
          PropOf[h] = log'[cur'].prop /\ base'[h] < cur' /\ cur' \notin seen'[h]
    BY <2>1, <2>5 DEF DeliveryInv
  <2>7. target' \notin pend'
    BY <2>1 DEF DeliveryInv
  <2>8. QED
    BY <2>4, <2>5, <2>6, <2>7 DEF DeliveryInv
<1>5. CASE /\ UNCHANGED <<pend, target, seen, cbState, base>> /\ Emitted' = Emitted
           /\ \A i \in 1 .. Len(log) : log'[i] = log[i]
           /\ cur' = cur \/ (pend = {} /\ target = NoHandler)
  <2>1. ASSUME NEW h \in Handlers, h \in pend \/ h = target
        PROVE  cur' = cur /\ cur \in 1 .. Len(log)
    <3>1. cur' = cur
      BY <1>0, <1>5, <2>1
    <3>2. pc \in {"emit", "call"}
      BY <1>0, <2>1 DEF IInv, PcInv
    <3>3. QED
      BY <3>1, <3>2, Bounds DEF IInv, PcInv, Dispatching
  <2>2. QED
    BY <1>0, <1>5, <2>1 DEF DeliveryInv
<1>6. QED
  BY <1>1, <1>2, <1>3, <1>4, <1>5, QuietSteps

LEMMA InitDelivery == Init => DeliveryInv /\ DeliveryExact
<1> SUFFICES ASSUME Init PROVE DeliveryInv /\ DeliveryExact
  OBVIOUS
<1>1. Emitted = 0
  BY EmptySeq DEF Init, Emitted, Taken
<1>2. QED
  BY <1>1, NfNotifyAssumption DEF Init, DeliveryInv, DeliveryExact

(* DeliveryExact, one handler and one step at a time.                      *)
LEMMA DeliveryStep ==
  IInv /\ DeliveryInv /\ DeliveryExact /\ [Next]_vars => DeliveryExact'
<1> SUFFICES ASSUME IInv, DeliveryInv, DeliveryExact, [Next]_vars, NEW h \in Handlers,
                    cbState'[h] \in {"signalled", "listed"}
             PROVE  seen'[h] = Owed(h)'
  BY DEF DeliveryExact, Owed
<1>0. /\ seen \in [Handlers -> SUBSET Nat] /\ cbState \in [Handlers -> CbStates]
      /\ base \in [Handlers -> Nat] /\ NoHandler \notin Handlers /\ pend \subseteq Handlers
      /\ Len(log) \in Nat /\ Emitted \in 0 .. Len(log)
      /\ base[h] \in Nat /\ base[h] <= Emitted
      /\ cbState[h] \in {"signalled", "listed"} => seen[h] = Owed(h)
  BY Bounds, NfNotifyAssumption DEF IInv, TypeOK, DeliveryInv, DeliveryExact, Owed
<1>1. CASE NtFree \/ NtRefuse
  <2>1. /\ Emitted = cur - 1 /\ Emitted' = cur /\ cur \in 1 .. Len(log)
        /\ pend = {} /\ target = NoHandler /\ pend' = Connected(log[cur].prop)
        /\ UNCHANGED <<log, cur, target, seen, cbState, base>>
    BY <1>1, EmissionFacts
  <2>2. h \in pend' <=> PropOf[h] = log[cur].prop
    BY <2>1 DEF Connected
  <2>3. seen[h] = {i \in (base[h] + 1) .. (cur - 1) : log[i].prop = PropOf[h]}
    BY <1>0, <2>1 DEF Owed
  <2>4. Owed(h)' = {i \in (base[h] + 1) .. cur :
                      log[i].prop = PropOf[h] /\ ~(i = cur /\ h \in pend')}
    BY <1>0, <2>1 DEF Owed
  <2>5. QED
    BY <1>0, <2>1, <2>2, <2>3, <2>4
<1>2. CASE NtCall
  <2>1. /\ target \in Handlers /\ target' = NoHandler
        /\ Emitted = cur /\ Emitted' = Emitted /\ cur \in 1 .. Len(log)
        /\ UNCHANGED <<log, cur, pend, cbState, base>>
        /\ seen' = seen \/ seen' = [seen EXCEPT ![target] = @ \cup {cur}]
        /\ cbState[target] # "freed" => seen' = [seen EXCEPT ![target] = @ \cup {cur}]
    BY <1>2, CallFacts
  <2>2. CASE h = target
    <3>1. /\ seen'[h] = seen[h] \cup {cur} /\ h \notin pend
          /\ PropOf[h] = log[cur].prop /\ base[h] < cur
      BY <1>0, <2>1, <2>2 DEF DeliveryInv
    <3>2. seen[h] = {i \in (base[h] + 1) .. cur : log[i].prop = PropOf[h] /\ i # cur}
      BY <1>0, <2>1, <2>2 DEF Owed
    <3>3. Owed(h)' = {i \in (base[h] + 1) .. cur : log[i].prop = PropOf[h]}
      BY <1>0, <2>1, <3>1 DEF Owed
    <3>4. QED
      BY <1>0, <2>1, <3>1, <3>2, <3>3
  <2>3. CASE h # target
    <3>1. seen'[h] = seen[h]
      BY <1>0, <2>1, <2>3
    <3>2. Owed(h)' = Owed(h)
      BY <1>0, <2>1, <2>3 DEF Owed
    <3>3. QED
      BY <1>0, <2>1, <3>1, <3>2
  <2>4. QED
    BY <2>2, <2>3
<1>3. ASSUME NEW g \in Handlers, NtSelect(g) PROVE seen'[h] = Owed(h)'
  <2>1. /\ pc = "emit" /\ g \in pend /\ pend' = pend \ {g}
        /\ UNCHANGED <<log, queue, cur, seen, cbState, base>>
        /\ pc' \in {"emit", "call"}
        /\ IF g \in Connected(log[cur].prop) THEN target' = g ELSE target' = target
    BY <1>3 DEF NtSelect, cbVars
  <2>2. Emitted' = Emitted /\ target = NoHandler
    BY <2>1 DEF Emitted, Taken, IInv, PcInv
  <2>3. g = h => target' = h
    BY <1>0, <2>1 DEF Connected, DeliveryInv
  <2>4. (h \in pend' \/ h = target') <=> (h \in pend \/ h = target)
    BY <1>0, <2>1, <2>2, <2>3
  <2>5. Owed(h)' = Owed(h)
    BY <2>1, <2>2, <2>4 DEF Owed
  <2>6. QED
    BY <1>0, <2>1, <2>5
<1>4. ASSUME NEW g \in Handlers,
             \/ ConnectSignal(g) \/ ConnectList(g)
             \/ RemoveDisconnect(g) \/ RemoveFree(g)
      PROVE  seen'[h] = Owed(h)'
  <2>1. /\ UNCHANGED <<log, queue, cur, pc, pend, target, seen>>
    BY <1>4 DEF ConnectSignal, ConnectList, RemoveDisconnect, RemoveFree, ntVars
  <2>2. Emitted' = Emitted
    BY <2>1 DEF Emitted, Taken
  <2>3. CASE h = g /\ ConnectSignal(g)
    <3>1. base'[h] = Emitted /\ seen[h] = {}
      BY <1>0, <2>3 DEF ConnectSignal, DeliveryInv
    <3>2. Owed(h)' = {}
      BY <1>0, <2>1, <2>2, <3>1 DEF Owed
    <3>3. QED
      BY <2>1, <3>1, <3>2
  <2>4. CASE ~(h = g /\ ConnectSignal(g))
    <3>1. base'[h] = base[h]
      BY <1>0, <1>4, <2>4 DEF ConnectSignal, ConnectList, RemoveDisconnect, RemoveFree
    <3>2. cbState[h] \in {"signalled", "listed"}
      BY <1>0, <1>4, <2>4 DEF ConnectSignal, ConnectList, RemoveDisconnect, RemoveFree
    <3>3. Owed(h)' = Owed(h)
      BY <2>1, <2>2, <3>1 DEF Owed
    <3>4. QED
      BY <1>0, <2>1, <3>2, <3>3
  <2>5. QED
    BY <2>3, <2>4
<1>5. CASE /\ UNCHANGED <<pend, target, seen, cbState, base>> /\ Emitted' = Emitted
           /\ \A i \in 1 .. Len(log) : log'[i] = log[i]
           /\ cur' = cur \/ (pend = {} /\ target = NoHandler)
  <2>1. \A i \in (base[h] + 1) .. Emitted : log'[i] = log[i]
    BY <1>0, <1>5
  <2>2. cur' = cur \/ (h \notin pend /\ h # target)
    BY <1>0, <1>5
  <2>3. Owed(h)' = Owed(h)
    BY <1>5, <2>1, <2>2 DEF Owed
  <2>4. QED
    BY <1>0, <1>5, <2>3
<1>6. QED
  BY <1>1, <1>2, <1>3, <1>4, <1>5, QuietSteps

(* While a handler stays connected no fire of its property is lost to it   *)
(* or delivered to it twice, whatever the other threads do.                *)
THEOREM DeliveryCorrect == Spec => []DeliveryExact
<1>1. QED
  BY InitDelivery, InitIInv, NextIInv, DeliveryInvStep, DeliveryStep, PTL DEF Spec

(* A handler is called in the order of the fires, each newer than all it   *)
(* has been called for before.                                             *)
THEOREM OrderCorrect == Spec => DeliveredInOrder
<1> DEFINE InOrder == \A h \in Handlers : \A i \in seen'[h] \ seen[h] : \A j \in seen[h] : j < i
<1>1. IInv /\ DeliveryInv /\ [Next]_vars => [InOrder]_vars
  <2> SUFFICES ASSUME IInv, DeliveryInv, [Next]_vars, NEW h \in Handlers,
                      NEW i \in seen'[h] \ seen[h], NEW j \in seen[h]
               PROVE  j < i
    OBVIOUS
  <2>0. seen \in [Handlers -> SUBSET Nat]
    BY DEF IInv, TypeOK
  <2>1. CASE NtCall
    <3>1. /\ target \in Handlers /\ Emitted = cur /\ cur \in 1 .. Len(log) /\ Len(log) \in Nat
          /\ seen' = seen \/ seen' = [seen EXCEPT ![target] = @ \cup {cur}]
      BY <2>1, CallFacts, Bounds
    <3>2. h = target /\ i = cur
      BY <2>0, <3>1
    <3>3. j \in 1 .. cur /\ cur \notin seen[h]
      BY <3>1, <3>2 DEF DeliveryInv
    <3>4. QED
      BY <3>1, <3>2, <3>3
  <2>2. CASE seen' = seen
    BY <2>2
  <2>3. seen' = seen \/ NtCall
    BY EmissionFacts, QuietSteps DEF NtSelect, ConnectSignal, ConnectList,
      RemoveDisconnect, RemoveFree, ntVars
  <2>4. QED
    BY <2>1, <2>2, <2>3
<1>2. QED
  BY <1>1, InitDelivery, InitIInv, NextIInv, DeliveryInvStep, PTL
  DEF Spec, DeliveredInOrder

(* What a reader holds, and what it last copied, is no newer than the value*)
(* the property has now, and what it holds is no older than what it copied.*)
ReaderInv ==
  \A r \in Readers :
    /\ \A p \in Props : rlast[r][p] <= stored[p]
    /\ rptr[r].held => /\ rlast[r][rptr[r].prop] <= rptr[r].id
                       /\ rptr[r].id <= stored[rptr[r].prop]

(* A property is only ever given a newer value.                            *)
LEMMA StoredGrows ==
  ASSUME IInv, LatchedIsLastApplied, [Next]_vars, NEW p \in Props
  PROVE  stored'[p] \in Nat /\ stored[p] <= stored'[p]
<1>0. stored \in [Props -> Nat] /\ stored[p] \in Nat /\ stored[p] <= Applied
  BY DEF IInv, TypeOK, LatchedIsLastApplied
<1>1. CASE NtStore
  <2>1. pc = "store" /\ stored' = [stored EXCEPT ![log[cur].prop] = cur]
    BY <1>1 DEF NtStore
  <2>2. cur = Applied + 1 /\ Applied \in Nat
    BY <2>1, Bounds
  <2>q. QED
    BY <1>0, <2>1, <2>2
<1>2. CASE stored' = stored
  BY <1>0, <1>2
<1>q. QED
  BY <1>1, <1>2, StepKinds DEF NtRefuse

(* A value is written by the notify thread, and read by a reader: no step  *)
(* does both.                                                              *)
LEMMA ReaderSteps ==
  ASSUME [Next]_vars
  PROVE  \/ rptr' = rptr /\ rlast' = rlast
         \/ \E r \in Readers : (\E p \in Props : GetPointer(r, p)) \/ GetCopy(r)
BY DEF Next, NotifyThread, Clients, vars, rdVars, NtStart, NtPop, NtStore, NtFree, NtRefuse,
   NtSelect, NtCall, NtDone, NotifyInit, Fire, ConnectSignal, ConnectList,
   RemoveDisconnect, RemoveFree

(* What a copy does to the history of the reader.                          *)
LEMMA CopyFacts ==
  ASSUME IInv, NEW r \in Readers, GetCopy(r)
  PROVE  /\ rptr[r].held /\ rptr' = [rptr EXCEPT ![r] = Nil] /\ stored' = stored
         /\ \A q \in Readers, p \in Props :
              \/ rlast'[q][p] = rlast[q][p]
              \/ q = r /\ p = rptr[r].prop /\ rlast'[q][p] = rptr[r].id
<1>1. /\ rlast \in [Readers -> [Props -> Nat]]
      /\ rptr \in [Readers -> [prop : Props, id : Nat, held : BOOLEAN]]
  BY DEF IInv, TypeOK
<1>2. rptr[r].held /\ rptr' = [rptr EXCEPT ![r] = Nil] /\ stored' = stored
  BY DEF GetCopy, ntVars
<1>3. \/ rlast' = rlast
      \/ rlast' = [rlast EXCEPT ![r][rptr[r].prop] = rptr[r].id]
  BY DEF GetCopy
<1>q. QED
  BY <1>1, <1>2, <1>3

LEMMA ReaderStep ==
  IInv /\ LatchedIsLastApplied /\ ReaderInv /\ [Next]_vars => ReaderInv'
<1> SUFFICES ASSUME IInv, LatchedIsLastApplied, ReaderInv, [Next]_vars, NEW q \in Readers
             PROVE  /\ \A p \in Props : rlast'[q][p] <= stored'[p]
                    /\ rptr'[q].held => /\ rlast'[q][rptr'[q].prop] <= rptr'[q].id
                                        /\ rptr'[q].id <= stored'[rptr'[q].prop]
  BY DEF ReaderInv
<1>0. /\ rptr \in [Readers -> [prop : Props, id : Nat, held : BOOLEAN]]
      /\ rlast \in [Readers -> [Props -> Nat]] /\ stored \in [Props -> Nat]
  BY DEF IInv, TypeOK
<1>1. /\ \A p \in Props : rlast[q][p] <= stored[p]
      /\ rptr[q].held => /\ rlast[q][rptr[q].prop] <= rptr[q].id
                         /\ rptr[q].id <= stored[rptr[q].prop]
  BY DEF ReaderInv
<1>2. \A p \in Props : stored'[p] \in Nat /\ stored[p] <= stored'[p]
  BY StoredGrows
<1>3. CASE rptr' = rptr /\ rlast' = rlast
  BY <1>0, <1>1, <1>2, <1>3
<1>4. ASSUME NEW r \in Readers, NEW p \in Props, GetPointer(r, p)
      PROVE  rlast' = rlast /\ stored' = stored
             /\ rptr' = [rptr EXCEPT ![r] = [prop |-> p, id |-> stored[p], held |-> TRUE]]
  BY <1>4 DEF GetPointer, ntVars
<1>5. ASSUME NEW r \in Readers, NEW p \in Props, GetPointer(r, p)
      PROVE  /\ rptr'[q].held => /\ rlast'[q][rptr'[q].prop] <= rptr'[q].id
                                 /\ rptr'[q].id <= stored'[rptr'[q].prop]
  <2>1. CASE q = r
    BY <1>0, <1>1, <1>4, <1>5, <2>1
  <2>2. CASE q # r
    BY <1>0, <1>1, <1>4, <1>5, <2>2
  <2>q. QED
    BY <2>1, <2>2
<1>6. ASSUME NEW r \in Readers, GetCopy(r)
      PROVE  /\ \A p \in Props : rlast'[q][p] <= stored'[p]
             /\ rptr'[q].held => /\ rlast'[q][rptr'[q].prop] <= rptr'[q].id
                                 /\ rptr'[q].id <= stored'[rptr'[q].prop]
  <2>1. CASE q = r
    <3>1. ~rptr'[q].held
      BY <1>0, <1>6, <2>1, CopyFacts DEF Nil
    <3>2. ASSUME NEW p \in Props
          PROVE  rlast'[q][p] <= stored'[p]
      <4>1. CASE rlast'[q][p] = rlast[q][p]
        BY <1>1, <1>6, <4>1, CopyFacts
      <4>2. CASE p = rptr[q].prop /\ rlast'[q][p] = rptr[q].id
        BY <1>1, <1>6, <2>1, <4>2, CopyFacts
      <4>q. QED
        BY <1>6, <2>1, <4>1, <4>2, CopyFacts
    <3>q. QED
      BY <3>1, <3>2
  <2>2. CASE q # r
    <3>1. rptr'[q] = rptr[q] /\ \A p \in Props : rlast'[q][p] = rlast[q][p]
      BY <1>0, <1>6, <2>2, CopyFacts
    <3>q. QED
      BY <1>0, <1>1, <1>6, <3>1, CopyFacts
  <2>q. QED
    BY <2>1, <2>2
<1>q. QED
  BY <1>1, <1>3, <1>4, <1>5, <1>6, ReaderSteps

(* A reader that takes no lock never copies an older value of a property   *)
(* than one it copied before, however late it uses the pointer it fetched. *)
THEOREM ReaderCorrect == Spec => ReaderNeverGoesBack
<1> DEFINE Onward == \A r \in Readers, p \in Props : rlast'[r][p] >= rlast[r][p]
<1>1. Init => LatchedIsLastApplied /\ ReaderInv
  <2> SUFFICES ASSUME Init PROVE LatchedIsLastApplied /\ ReaderInv
    OBVIOUS
  <2>1. Applied = 0
    BY EmptySeq DEF Init, Applied, Taken
  <2>q. QED
    BY <2>1 DEF Init, LatchedIsLastApplied, ReaderInv, Nil
<1>2. IInv /\ ReaderInv /\ [Next]_vars => [Onward]_vars
  <2> SUFFICES ASSUME IInv, ReaderInv, [Next]_vars, NEW q \in Readers, NEW p \in Props
               PROVE  rlast'[q][p] >= rlast[q][p]
    OBVIOUS
  <2>0. /\ rlast[q][p] \in Nat
        /\ rptr[q].held => rlast[q][rptr[q].prop] <= rptr[q].id /\ rptr[q].id \in Nat
    BY DEF IInv, TypeOK, ReaderInv
  <2>1. ASSUME NEW r \in Readers, GetCopy(r)
        PROVE  rlast'[q][p] >= rlast[q][p]
    BY <2>0, <2>1, CopyFacts
  <2>2. CASE rlast' = rlast
    BY <2>0, <2>2
  <2>q. QED
    BY <2>1, <2>2, ReaderSteps DEF GetPointer
<1>q. QED
  BY <1>1, <1>2, InitIInv, NextIInv, LatchedStep, ReaderStep, PTL
  DEF Spec, ReaderNeverGoesBack
=============================================================================
