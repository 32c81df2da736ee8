------------------------------ MODULE NotifyBus ------------------------------
(***************************************************************************)
(* What the notification bus of nf_notify.c promises its clients, without  *)
(* threads, blocks of memory or callbacks: every accepted fire is appended *)
(* to one log, and the log is applied in order, one entry at a time, to a  *)
(* register per property.  A payload the bus refuses to copy leaves the    *)
(* register as it was.                                                     *)
(***************************************************************************)
EXTENDS Naturals, Sequences

CONSTANTS Props,        \* notification properties: "vloss", "motion", ...
          Kinds,        \* kinds of payload a client passes to a fire
          MaxFires      \* bound: fires in a behaviour, a natural number

VARIABLES log,          \* the accepted fires, oldest first
          applied,      \* how many of them have been applied
          latched       \* latched[p]: index in log of the value p holds, 0 at first

vars == <<log, applied, latched>>

(* nf_notify_dup returns NULL for a payload of more than 1 MiB.            *)
Refused(kind) == kind = "oversize"

(* nf_notify_fire_chmap returns 0 for a channel map under 32 characters.   *)
AcceptedKinds == Kinds \ {"shortchmap"}

Entry == [prop : Props, kind : Kinds]

TypeOK ==
  /\ log \in Seq(Entry)
  /\ applied \in 0 .. Len(log)
  /\ latched \in [Props -> 0 .. Len(log)]

Init ==
  /\ log = <<>>
  /\ applied = 0
  /\ latched = [p \in Props |-> 0]

Publish(p, kind) ==
  /\ Len(log) < MaxFires
  /\ log' = Append(log, [prop |-> p, kind |-> kind])
  /\ UNCHANGED <<applied, latched>>

Apply ==
  /\ applied < Len(log)
  /\ applied' = applied + 1
  /\ latched' = IF Refused(log[applied + 1].kind)
                  THEN latched
                  ELSE [latched EXCEPT ![log[applied + 1].prop] = applied + 1]
  /\ UNCHANGED log

Next ==
  \/ \E p \in Props, kind \in AcceptedKinds : Publish(p, kind)
  \/ Apply

Spec == Init /\ [][Next]_vars
=============================================================================
