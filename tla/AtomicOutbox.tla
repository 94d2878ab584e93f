---------------------------- MODULE AtomicOutbox ----------------------------
(***************************************************************************)
(* What the outbox promises: the attempts of a delivery are recorded one   *)
(* by one, each in a single step on its row as it is then.  The workers of *)
(* WebhookDelivery, with their batches, locks and transactions, implement  *)
(* it.                                                                     *)
(***************************************************************************)
EXTENDS Integers, Sequences

CONSTANTS Deliveries, Hooks, HookOf, retryDelays

VARIABLES row,       \* delivery -> its row
          deleted,   \* webhooks that are gone
          tried, received

vars == <<row, deleted, tried, received>>

Init ==
  /\ row = [d \in Deliveries |-> [state |-> "none", attempt |-> 0, wait |-> 0]]
  /\ deleted = {}
  /\ tried = [d \in Deliveries |-> 0]
  /\ received = [d \in Deliveries |-> 0]

Enqueue(d) ==
  /\ row[d].state = "none" /\ HookOf[d] \notin deleted
  /\ row' = [row EXCEPT ![d].state = "pending"]
  /\ UNCHANGED <<deleted, tried, received>>

\* An attempt, which its endpoint may accept. A worker that has lost its transaction
\* makes it of a delivery that is settled or gone as well.
Attempt(d) ==
  /\ row[d].state # "none"
  /\ tried' = [tried EXCEPT ![d] = @ + 1]
  /\ received' = received \/ received' = [received EXCEPT ![d] = @ + 1]
  /\ UNCHANGED <<row, deleted>>

\* new is r, pending and due, with one more attempt recorded, and no more than were made.
Recorded(d, r, new) ==
  LET attempt == r.attempt + 1 IN
  /\ r.state = "pending" /\ r.wait = 0 /\ attempt <= tried[d]
  /\ \/ new = [r EXCEPT !.state = "delivered"] /\ received[d] > 0
     \/ new = [r EXCEPT !.state = "failed"] /\ attempt = Len(retryDelays)
     \/ /\ attempt < Len(retryDelays)
        /\ \E wait \in 0..retryDelays[attempt + 1] :
             new = [r EXCEPT !.attempt = attempt, !.wait = wait]

\* The outcomes of a batch are recorded together, at most one for each delivery (and row
\* stays a function of the deliveries).
Record ==
  /\ row' = [d \in Deliveries |-> row'[d]]
  /\ \A d \in Deliveries : row'[d] = row[d] \/ Recorded(d, row[d], row'[d])
  /\ UNCHANGED <<deleted, tried, received>>

\* A webhook takes all its deliveries with it, for good.
Delete(h) ==
  /\ h \notin deleted
  /\ deleted' = deleted \cup {h}
  /\ row' = [d \in Deliveries |-> IF HookOf[d] = h /\ row[d].state # "none"
                                    THEN [row[d] EXCEPT !.state = "gone"] ELSE row[d]]
  /\ UNCHANGED <<tried, received>>

Tick ==
  /\ row' = [d \in Deliveries |->
               IF row[d].wait > 0 THEN [row[d] EXCEPT !.wait = @ - 1] ELSE row[d]]
  /\ UNCHANGED <<deleted, tried, received>>

Next ==
  \/ \E d \in Deliveries : Enqueue(d) \/ Attempt(d)
  \/ Record
  \/ \E h \in Hooks : Delete(h)
  \/ Tick

Spec == Init /\ [][Next]_vars
=============================================================================
