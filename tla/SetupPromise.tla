----------------------------- MODULE SetupPromise -----------------------------
(***************************************************************************)
(* What nf_ipcam_setup.c promises the callers of nf_ipcam_setup_request,   *)
(* without slots, flags, sockets or threads: the life of every request,    *)
(* one call with one callback.                                             *)
(*                                                                         *)
(* A request is refused, or it is asked and ends in one of three ways.  Its*)
(* callback is told of a success, told of a failure, or never called again.*)
(* The last happens only to a request that did not have the slot to itself,*)
(* and then for good.                                                      *)
(***************************************************************************)
EXTENDS Naturals

CONSTANT Requests  \* the calls

VARIABLES outcome,   \* outcome[r]: "new", "refused", "asked", "succeeded", "failed", "lost"
          answered,  \* the requests the camera said "200 OK" to, or need no answer
          overlooked,\* the requests whose failure may be taken for a success
          alone      \* the requests that have had the slot to themselves so far

vars == <<outcome, answered, overlooked, alone>>

Init ==
  /\ outcome = [r \in Requests |-> "new"]
  /\ answered = {} /\ overlooked = {} /\ alone = {}

Becomes(r, what) == outcome' = [outcome EXCEPT ![r] = what]

Refuse(r) ==
  /\ outcome[r] = "new"
  /\ Becomes(r, "refused")
  /\ UNCHANGED <<answered, overlooked, alone>>

(* What becomes of the requests a step is not about: those that share the  *)
(* slot with others may be lost.                                           *)
Left(q) ==
  \/ outcome'[q] = outcome[q]
  \/ outcome[q] = "asked" /\ outcome'[q] = "lost" /\ q \notin alone'

(* A request that does not find the slot free is alone no more than those  *)
(* it finds there.                                                         *)
Ask(r) ==
  /\ outcome[r] = "new" /\ outcome'[r] = "asked"
  /\ alone' \in {alone \cup {r}, {}}
  /\ \A q \in Requests \ {r} : Left(q)
  /\ UNCHANGED <<answered, overlooked>>

Lose ==
  /\ \A q \in Requests : Left(q)
  /\ UNCHANGED <<answered, overlooked, alone>>

(* Also after the request has timed out, or its callback was lost.         *)
Answer(r) ==
  /\ outcome[r] \notin {"new", "refused"}
  /\ answered' = answered \cup {r}
  /\ UNCHANGED <<outcome, overlooked, alone>>

(* The setting failed, and nothing says so yet.                            *)
Overlook(r) ==
  /\ outcome[r] \notin {"new", "refused"}
  /\ overlooked' = overlooked \cup {r}
  /\ UNCHANGED <<outcome, answered, alone>>

Tell(r) ==
  /\ outcome[r] = "asked"
  /\ \/ Becomes(r, "failed")
     \/ Becomes(r, "succeeded") /\ (r \in alone => r \in answered \cup overlooked)
  /\ UNCHANGED <<answered, overlooked, alone>>

(* The service stops, or the camera goes away.                             *)
Disturb ==
  /\ alone' = {}
  /\ UNCHANGED <<outcome, answered, overlooked>>

Next ==
  \/ \E r \in Requests : Refuse(r) \/ Ask(r) \/ Answer(r) \/ Overlook(r) \/ Tell(r)
  \/ Lose \/ Disturb

Spec == Init /\ [][Next]_vars
=============================================================================
