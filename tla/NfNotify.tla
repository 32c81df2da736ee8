------------------------------- MODULE NfNotify -------------------------------
(***************************************************************************)
(* The notification bus of the host process: src/src/sysman/nf_notify.c.   *)
(*                                                                         *)
(* Any thread may fire a property; the item goes on an unbounded queue and *)
(* one notify thread takes items off it, replaces the value kept for the   *)
(* property, frees the value it replaced, and calls the handlers connected *)
(* to the property.  Other threads connect and remove handlers and read    *)
(* the value without a lock.                                               *)
(*                                                                         *)
(* A fire is named by its position in log, the history of accepted fires;  *)
(* a block of memory that holds a value is named by the fire it copies,    *)
(* and 0 names the zeroed block every property starts with.                *)
(***************************************************************************)
EXTENDS Naturals, Sequences, FiniteSets

CONSTANTS Props,        \* notification properties
          Kinds,        \* subset of {"param","chmap","shortchmap","pointer","oversize"}
          InitProp,     \* the property nf_notify_init fires ("analog_rec")
          Handlers,     \* one name per call of nf_notify_connect_cb
          PropOf,       \* PropOf[h]: the property handler h is connected to
          NoHandler,    \* stands for no handler
          Readers,      \* threads that read values with nf_notify_get*
          MaxFires      \* bound: fires in a behaviour

Nil       == [prop |-> InitProp, id |-> 0, held |-> FALSE]

ASSUME NfNotifyAssumption ==
  /\ InitProp \in Props
  /\ "chmap" \in Kinds
  /\ PropOf \in [Handlers -> Props]
  /\ NoHandler \notin Handlers
  /\ MaxFires \in Nat \ {0}

VARIABLES
  ready,        \* _nf_notify has been assigned
  log,          \* history: the accepted fires, oldest first
  queue,        \* self->queue, as indices in log
  pc,           \* where the notify thread is
  cur,          \* the item it is dispatching, 0 if none
  old,          \* the block nf_notify_set_property has replaced and not yet freed
  stored,       \* stored[p]: the block the qdata pointer of p points to
  payloadFreed, \* the payload of the item in cur has been freed by nf_notify_dup
  heapFault,    \* history: some payload has been freed twice
  cbState,      \* cbState[h]: life of the handler and of its callback record
  pend,         \* handlers the emission in progress has still to consider
  target,       \* the handler GSignal is about to enter
  seen,         \* history: seen[h], the fires h has been called for
  base,         \* history: base[h], the last fire whose emission predates h
  late,         \* history: late[h], calls of h entered after its record was freed
  rptr,         \* rptr[r]: the pointer reader r has fetched and not yet copied from
  rlast,        \* history: rlast[r][p], the newest value of p reader r has copied
  freedRead     \* history: a reader has copied from a freed block

ntVars  == <<pc, cur, old, stored, payloadFreed, heapFault, pend, target, seen, late>>
cbVars  == <<cbState, base>>
rdVars  == <<rptr, rlast, freedRead>>
vars    == <<ready, log, queue, ntVars, cbVars, rdVars>>

PCs      == {"wait", "pop", "store", "free", "emit", "call", "abort"}
CbStates == {"absent", "signalled", "listed", "disconnected", "freed"}

Refused(kind) == kind = "oversize"
AcceptedKinds == Kinds \ {"shortchmap"}

Dispatching == pc \in {"store", "free", "emit", "call"}

(* Items taken off the queue, and items whose emission has begun.          *)
Taken   == Len(log) - Len(queue)
Emitted == IF pc \in {"store", "free"} THEN Taken - 1 ELSE Taken

(* Mutant: remove_cb frees the record and forgets to disconnect the signal.*)
ConnectedForever(p) == {h \in Handlers : /\ PropOf[h] = p
                                         /\ cbState[h] # "absent"}

(* Handlers GSignal would find connected to p.                             *)
Connected(p) == {h \in Handlers : /\ PropOf[h] = p
                                  /\ cbState[h] \in {"signalled", "listed"}}

(* cb_mutex is held between the two halves of nf_notify_remove_cb.         *)
CbMutexFree == \A h \in Handlers : cbState[h] # "disconnected"

(* A value block is live while qdata points to it, and until the           *)
(* nf_notify_free(ptmp) that ends nf_notify_set_property.                  *)
Live(p, id) ==
  \/ stored[p] = id
  \/ pc = "free" /\ log[cur].prop = p /\ old = id

Init ==
  /\ ready = FALSE
  /\ log = <<>>
  /\ queue = <<>>
  /\ pc = "wait"
  /\ cur = 0
  /\ old = 0
  /\ stored = [p \in Props |-> 0]
  /\ payloadFreed = FALSE
  /\ heapFault = FALSE
  /\ cbState = [h \in Handlers |-> "absent"]
  /\ pend = {}
  /\ target = NoHandler
  /\ seen = [h \in Handlers |-> {}]
  /\ base = [h \in Handlers |-> 0]
  /\ late = [h \in Handlers |-> 0]
  /\ rptr = [r \in Readers |-> Nil]
  /\ rlast = [r \in Readers |-> [p \in Props |-> 0]]
  /\ freedRead = FALSE

-----------------------------------------------------------------------------
(* Clients: initialisation and fires.                                      *)

(* Mutant: the item goes to the head of the queue.                         *)
PushFront(p, kind) ==
  /\ log' = Append(log, [prop |-> p, kind |-> kind])
  /\ queue' = <<Len(log) + 1>> \o queue

Push(p, kind) ==
  /\ log' = Append(log, [prop |-> p, kind |-> kind])
  /\ queue' = Append(queue, Len(log) + 1)

(* nf_notify_init: publishes the object and fires InitProp once.  The      *)
(* notify thread already runs; it waits for the object.                    *)
NotifyInit ==
  /\ ~ready
  /\ ready' = TRUE
  /\ Push(InitProp, "chmap")
  /\ UNCHANGED <<ntVars, cbVars, rdVars>>

(* nf_notify_fire_params, nf_notify_fire_chmap, nf_notify_fire_pointer:    *)
(* copy the arguments into a new item and push it.  A short channel map is *)
(* refused and changes nothing; a pointer of any size is accepted.         *)
Fire(p, kind) ==
  /\ ready
  /\ kind \in AcceptedKinds
  /\ Len(log) < MaxFires
  /\ Push(p, kind)
  /\ UNCHANGED <<ready, ntVars, cbVars, rdVars>>

-----------------------------------------------------------------------------
(* The notify thread: notify_thread_func and nf_notify_set_property.       *)

(* Ends the wait for _nf_notify.                                           *)
NtStart ==
  /\ pc = "wait"
  /\ ready
  /\ pc' = "pop"
  /\ UNCHANGED <<ready, log, queue, cur, old, stored, payloadFreed, heapFault,
                 pend, target, seen, late, cbVars, rdVars>>

(* g_async_queue_pop.                                                      *)
NtPop ==
  /\ pc = "pop"
  /\ queue # <<>>
  /\ cur' = Head(queue)
  /\ queue' = Tail(queue)
  /\ pc' = "store"
  /\ UNCHANGED <<ready, log, old, stored, payloadFreed, heapFault, pend, target,
                 seen, late, cbVars, rdVars>>

(* Mutant: the test for a copy that could not be made is dropped.          *)
NtStoreAny ==
  /\ pc = "store"
  /\ old' = stored[log[cur].prop]
  /\ stored' = [stored EXCEPT ![log[cur].prop] = cur]
  /\ pc' = "free"
  /\ UNCHANGED <<ready, log, queue, cur, payloadFreed, heapFault, pend, target,
                 seen, late, cbVars, rdVars>>

(* nf_notify_set_property up to the assignment of qdata: the copy is made  *)
(* and becomes the value of the property.                                  *)
NtStore ==
  /\ pc = "store"
  /\ ~Refused(log[cur].kind)
  /\ old' = stored[log[cur].prop]
  /\ stored' = [stored EXCEPT ![log[cur].prop] = cur]
  /\ pc' = "free"
  /\ UNCHANGED <<ready, log, queue, cur, payloadFreed, heapFault, pend, target,
                 seen, late, cbVars, rdVars>>

(* Mutant: the value replaced is put back.                                 *)
NtFreePutsBack ==
  /\ pc = "free"
  /\ old' = 0
  /\ stored' = [stored EXCEPT ![log[cur].prop] = old]
  /\ pend' = Connected(log[cur].prop)
  /\ pc' = "emit"
  /\ UNCHANGED <<ready, log, queue, cur, payloadFreed, heapFault, target,
                 seen, late, cbVars, rdVars>>

(* The end of nf_notify_set_property frees the value it replaced; GObject  *)
(* then emits notify:: to the handlers connected at that moment.           *)
NtFree ==
  /\ pc = "free"
  /\ old' = 0
  /\ pend' = Connected(log[cur].prop)
  /\ pc' = "emit"
  /\ UNCHANGED <<ready, log, queue, cur, stored, payloadFreed, heapFault, target,
                 seen, late, cbVars, rdVars>>

(* Mutant: set_property stores the NULL nf_notify_dup returned.            *)
NtRefuseToNull ==
  /\ pc = "store"
  /\ Refused(log[cur].kind)
  /\ payloadFreed' = TRUE
  /\ stored' = [stored EXCEPT ![log[cur].prop] = 0]
  /\ pend' = Connected(log[cur].prop)
  /\ pc' = "emit"
  /\ UNCHANGED <<ready, log, queue, cur, old, heapFault, target,
                 seen, late, cbVars, rdVars>>

(* nf_notify_dup gives up on a payload of more than 1 MiB.  Its copy still *)
(* shares the pointer of the item, so nf_notify_free(dest) frees the       *)
(* item's payload; set_property returns early and keeps the old value, and *)
(* GObject emits notify:: all the same.                                    *)
NtRefuse ==
  /\ pc = "store"
  /\ Refused(log[cur].kind)
  /\ payloadFreed' = TRUE
  /\ pend' = Connected(log[cur].prop)
  /\ pc' = "emit"
  /\ UNCHANGED <<ready, log, queue, cur, old, stored, heapFault, target,
                 seen, late, cbVars, rdVars>>

(* Mutant: the emission ends at the first handler that has gone.           *)
NtSelectOrStop(h) ==
  /\ pc = "emit"
  /\ h \in pend
  /\ IF h \in Connected(log[cur].prop)
       THEN pend' = pend \ {h} /\ target' = h /\ pc' = "call"
       ELSE pend' = {} /\ UNCHANGED <<target, pc>>
  /\ UNCHANGED <<ready, log, queue, cur, old, stored, payloadFreed, heapFault,
                 seen, late, cbVars, rdVars>>

(* Mutant: the emission does not advance past a handler that has gone.     *)
NtSelectAgain(h) ==
  /\ pc = "emit"
  /\ h \in pend
  /\ IF h \in Connected(log[cur].prop)
       THEN pend' = pend \ {h} /\ target' = h /\ pc' = "call"
       ELSE UNCHANGED <<pend, target, pc>>
  /\ UNCHANGED <<ready, log, queue, cur, old, stored, payloadFreed, heapFault,
                 seen, late, cbVars, rdVars>>

(* The emission loop of GSignal looks at the handlers one by one and skips *)
(* those disconnected since it began.  (It goes in order of connection;    *)
(* any order is allowed here.)                                             *)
NtSelect(h) ==
  /\ pc = "emit"
  /\ h \in pend
  /\ pend' = pend \ {h}
  /\ IF h \in Connected(log[cur].prop)
       THEN target' = h /\ pc' = "call"
       ELSE UNCHANGED <<target, pc>>
  /\ UNCHANGED <<ready, log, queue, cur, old, stored, payloadFreed, heapFault,
                 seen, late, cbVars, rdVars>>

(* wrap_notify_cb reads the callback record and calls the client function. *)
(* The record may have been freed since NtSelect; the call then may or may *)
(* not reach the function.                                                 *)
NtCall ==
  /\ pc = "call"
  /\ IF cbState[target] = "freed"
       THEN /\ late' = [late EXCEPT ![target] = @ + 1]
            /\ \/ UNCHANGED seen
               \/ seen' = [seen EXCEPT ![target] = @ \cup {cur}]
       ELSE /\ seen' = [seen EXCEPT ![target] = @ \cup {cur}]
            /\ UNCHANGED late
  /\ target' = NoHandler
  /\ pc' = "emit"
  /\ UNCHANGED <<ready, log, queue, cur, old, stored, payloadFreed, heapFault,
                 pend, cbVars, rdVars>>

(* The emission is over; the thread frees the item.  The payload of a      *)
(* refused item is freed for the second time, after which the process may  *)
(* run on or be aborted by the allocator.                                  *)
NtDone ==
  /\ pc = "emit"
  /\ pend = {}
  /\ cur' = 0
  /\ payloadFreed' = FALSE
  /\ heapFault' = (heapFault \/ payloadFreed)
  /\ IF payloadFreed THEN pc' \in {"pop", "abort"} ELSE pc' = "pop"
  /\ UNCHANGED <<ready, log, queue, old, stored, pend, target, seen, late,
                 cbVars, rdVars>>

NotifyThread ==
  \/ NtStart \/ NtPop \/ NtStore \/ NtFree \/ NtRefuse
  \/ \E h \in Handlers : NtSelect(h)
  \/ NtCall \/ NtDone

-----------------------------------------------------------------------------
(* Clients: handlers.                                                      *)

Running == ready /\ pc # "abort"

(* Mutant: off by one, the emission in progress counts as still to come.   *)
ConnectSignalEarly(h) ==
  /\ Running
  /\ cbState[h] = "absent"
  /\ cbState' = [cbState EXCEPT ![h] = "signalled"]
  /\ base' = [base EXCEPT ![h] = Emitted - 1]
  /\ UNCHANGED <<ready, log, queue, ntVars, rdVars>>

(* nf_notify_connect_cb: g_signal_connect comes first, without cb_mutex ...*)
ConnectSignal(h) ==
  /\ Running
  /\ cbState[h] = "absent"
  /\ cbState' = [cbState EXCEPT ![h] = "signalled"]
  /\ base' = [base EXCEPT ![h] = Emitted]
  /\ UNCHANGED <<ready, log, queue, ntVars, rdVars>>

(* ... and the record joins the list of the property under the mutex.      *)
ConnectList(h) ==
  /\ Running
  /\ cbState[h] = "signalled"
  /\ CbMutexFree
  /\ cbState' = [cbState EXCEPT ![h] = "listed"]
  /\ UNCHANGED <<ready, log, queue, ntVars, base, rdVars>>

(* nf_notify_remove_cb finds the record, disconnects the signal ...        *)
RemoveDisconnect(h) ==
  /\ Running
  /\ cbState[h] = "listed"
  /\ CbMutexFree
  /\ cbState' = [cbState EXCEPT ![h] = "disconnected"]
  /\ UNCHANGED <<ready, log, queue, ntVars, base, rdVars>>

(* ... frees the record, unlinks it and releases cb_mutex.  It does not    *)
(* wait for a call in progress.                                            *)
RemoveFree(h) ==
  /\ Running
  /\ cbState[h] = "disconnected"
  /\ cbState' = [cbState EXCEPT ![h] = "freed"]
  /\ UNCHANGED <<ready, log, queue, ntVars, base, rdVars>>

-----------------------------------------------------------------------------
(* Clients: reads.  nf_notify_get, nf_notify_get_param0/1/_idx and         *)
(* nf_notify_get_update_time fetch the qdata pointer ...                   *)
GetPointer(r, p) ==
  /\ Running
  /\ ~rptr[r].held
  /\ rptr' = [rptr EXCEPT ![r] = [prop |-> p, id |-> stored[p], held |-> TRUE]]
  /\ UNCHANGED <<ready, log, queue, ntVars, cbVars, rlast, freedRead>>

(* ... and read or copy what it points to.                                 *)
GetCopy(r) ==
  /\ Running
  /\ rptr[r].held
  /\ rptr' = [rptr EXCEPT ![r] = Nil]
  /\ IF Live(rptr[r].prop, rptr[r].id)
       THEN /\ rlast' = [rlast EXCEPT ![r][rptr[r].prop] = rptr[r].id]
            /\ UNCHANGED freedRead
       ELSE /\ freedRead' = TRUE
            /\ UNCHANGED rlast
  /\ UNCHANGED <<ready, log, queue, ntVars, cbVars>>

Clients ==
  \/ NotifyInit
  \/ \E p \in Props, kind \in Kinds : Fire(p, kind)
  \/ \E h \in Handlers : \/ ConnectSignal(h) \/ ConnectList(h)
                         \/ RemoveDisconnect(h) \/ RemoveFree(h)
  \/ \E r \in Readers : \/ \E p \in Props : GetPointer(r, p)
                        \/ GetCopy(r)

Next == NotifyThread \/ Clients

Spec == Init /\ [][Next]_vars

(* The notify thread has a real-time priority and every callback returns.  *)
FairSpec == Spec /\ WF_vars(NotifyThread) /\ WF_vars(NotifyInit)

-----------------------------------------------------------------------------
Entry == [prop : Props, kind : Kinds]

(* Every variable holds a value of its type.                               *)
TypeOK ==
  /\ ready \in BOOLEAN
  /\ log \in Seq(Entry)
  /\ queue \in Seq(Nat)
  /\ pc \in PCs
  /\ cur \in Nat
  /\ old \in Nat
  /\ stored \in [Props -> Nat]
  /\ payloadFreed \in BOOLEAN
  /\ heapFault \in BOOLEAN
  /\ cbState \in [Handlers -> CbStates]
  /\ pend \subseteq Handlers
  /\ target \in Handlers \cup {NoHandler}
  /\ seen \in [Handlers -> SUBSET Nat]
  /\ base \in [Handlers -> Nat]
  /\ late \in [Handlers -> Nat]
  /\ rptr \in [Readers -> [prop : Props, id : Nat, held : BOOLEAN]]
  /\ rlast \in [Readers -> [Props -> Nat]]
  /\ freedRead \in BOOLEAN

(* The fires that have been stored, or refused, so far.                    *)
Applied == IF pc = "store" THEN Taken - 1 ELSE Taken

(* The value a property holds is that of the last fire of it applied, the  *)
(* refused ones aside.  While its handlers run, that is the very item the  *)
(* notify thread is dispatching: a callback never sees an older or a newer *)
(* value, although it is handed the stored block and not a copy.           *)
LatchedIsLastApplied ==
  \A p \in Props :
    /\ stored[p] <= Applied
    /\ stored[p] # 0 => log[stored[p]].prop = p
    /\ \A i \in (stored[p] + 1) .. Applied :
         log[i].prop = p => Refused(log[i].kind)

(* A connected handler has been called for every fire of its property      *)
(* whose emission began after it connected, and for no other, save the one *)
(* being emitted now: nothing is lost or repeated, whatever other handlers *)
(* come and go in the meantime.                                            *)
DeliveryExact ==
  \A h \in Handlers :
    cbState[h] \in {"signalled", "listed"} =>
      seen[h] = {i \in (base[h] + 1) .. Emitted :
                   /\ log[i].prop = PropOf[h]
                   /\ ~(i = cur /\ (h \in pend \/ h = target))}

(* nf_notify_remove_cb does not wait for the notify thread, yet at most    *)
(* one call of the handler can be entered after its record has been freed: *)
(* the one already selected when the removal began.                        *)
RemovedRunsAtMostOnce == \A h \in Handlers : late[h] <= 1

(* Handlers are called in the order of the fires.                          *)
DeliveredInOrder ==
  [][\A h \in Handlers : \A i \in seen'[h] \ seen[h] : \A j \in seen[h] : j < i]_vars

(* A reader never copies an older value of a property than one it copied   *)
(* before, although it takes no lock.                                      *)
ReaderNeverGoesBack ==
  [][\A r \in Readers, p \in Props : rlast'[r][p] >= rlast[r][p]]_vars

(* Every accepted fire is dispatched to its handlers in the end, unless    *)
(* the allocator aborts the process: again and again none is left (and as  *)
(* MaxFires bounds the fires, then none of them ever is).                  *)
EveryFireDispatched ==
  []<>(pc = "abort" \/ \A i \in 1 .. Len(log) : Taken >= i /\ cur # i)

(* "data pointer on success" (nf_notify.c:2255): what a reader copies is   *)
(* a value of the property, not a block the notify thread has freed.       *)
NoFreedRead == ~freedRead

(* The "workaround" of nf_notify_dup and set_property for a payload over   *)
(* 1 MiB (nf_notify.c:772, 1045) keeps the process running: the payload is *)
(* not freed a second time.                                                *)
NoDoubleFree == ~heapFault

(* The bus as its clients know it.                                         *)
Bus == INSTANCE NotifyBus WITH applied <- Applied, latched <- stored
BusSpec == Bus!Spec
=============================================================================
