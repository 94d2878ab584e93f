--------------------------- MODULE WebhookDelivery ---------------------------
(***************************************************************************)
(* The delivery worker: WebhookService.ProcessPendingDeliveries, called by *)
(* one goroutine of each server process over the same webhook_deliveries,  *)
(* while webhooks are deleted.                                             *)
(***************************************************************************)
EXTENDS Integers, Sequences, FiniteSets

CONSTANTS Workers,       \* server processes, each with one delivery goroutine
          Deliveries,    \* deliveries that may be enqueued
          Hooks, HookOf, \* webhooks, and the webhook of each delivery
          retryDelays,   \* ticks to wait before each attempt
          Batch,         \* rows of one poll
          MaxFaults,     \* bound on the faults of a behaviour
          Unclaimed, NoDelivery

ASSUME DelaysAssumption == retryDelays \in Seq(Nat) /\ Len(retryDelays) > 0
ASSUME HookOfAssumption == HookOf \in [Deliveries -> Hooks]
ASSUME BatchAssumption  == Batch \in Nat \ {0} /\ MaxFaults \in Nat
ASSUME WorkersAssumption == IsFiniteSet(Workers)

Rows == [state: {"none", "pending", "delivered", "failed", "gone"},
         attempt: Nat, wait: Nat]

ASSUME NullsAssumption == Unclaimed \notin Rows /\ NoDelivery \notin Deliveries

VARIABLES
  \* The tables, as committed.
  row,       \* delivery -> its row; wait is the time until next_attempt_at, at least 0
  hookState, \* webhook -> "active", "deleting" (its row is locked by a DELETE), "deleted"
  erased,    \* deliveries that the cascade of a running DELETE has locked
  \* The goroutines.
  pc, todo,  \* place in the loop, and deliveries of the batch left
  cur,       \* the delivery in hand
  acked,     \* was it answered with a 2xx
  draft,     \* delivery -> its row in the transaction, or Unclaimed when it has no lock
  lost,      \* the transaction is aborted, and the loop does not know
  \* What the outside has seen.
  received,  \* delivery -> times the endpoint accepted it
  tried,     \* delivery -> calls of deliver
  faults

tables  == <<row, hookState, erased>>
workers == <<pc, todo, cur, acked, draft, lost>>
history == <<received, tried, faults>>
vars    == <<tables, workers, history>>

Init ==
  /\ row = [d \in Deliveries |-> [state |-> "none", attempt |-> 0, wait |-> 0]]
  /\ hookState = [h \in Hooks |-> "active"]
  /\ erased = {}
  /\ pc = [w \in Workers |-> "idle"]
  /\ todo = [w \in Workers |-> {}]
  /\ cur = [w \in Workers |-> NoDelivery]
  /\ acked = [w \in Workers |-> FALSE]
  /\ draft = [w \in Workers |-> [d \in Deliveries |-> Unclaimed]]
  /\ lost = [w \in Workers |-> FALSE]
  /\ received = [d \in Deliveries |-> 0]
  /\ tried = [d \in Deliveries |-> 0]
  /\ faults = 0

Claims(w, d) == draft[w][d] # Unclaimed
Locked(d) == d \in erased \/ \E w \in Workers : Claims(w, d)
Due(d) == row[d].state = "pending" /\ row[d].wait = 0
Released(w) == [draft EXCEPT ![w] = [d \in Deliveries |-> Unclaimed]]

Goto(w, label) == pc' = [pc EXCEPT ![w] = label]

(***************************************************************************)
(* ProcessPendingDeliveries                                                *)
(***************************************************************************)

\* LIMIT: as many rows as there are, up to Batch.
FillsPoll(batch, from) ==
  \/ Cardinality(batch) = Batch
  \/ Cardinality(batch) < Batch /\ batch = from

\* Begin a transaction and lock a batch of these rows.
Take(w, from) ==
  /\ pc[w] = "idle"
  /\ \E batch \in SUBSET from :
       /\ batch # {} /\ FillsPoll(batch, from)
       /\ todo' = [todo EXCEPT ![w] = batch]
       /\ draft' = [draft EXCEPT ![w] =
            [d \in Deliveries |-> IF d \in batch THEN row[d] ELSE Unclaimed]]
  /\ Goto(w, "next")
  /\ UNCHANGED <<tables, cur, acked, lost, history>>

\* Mutant: next_attempt_at is not looked at.
PollEarly(w) == Take(w, {d \in Deliveries : row[d].state = "pending" /\ ~Locked(d)})

\* Mutant: FOR UPDATE SKIP LOCKED is left out.
PollUnlocked(w) == Take(w, {d \in Deliveries : Due(d)})

\* Mutant: only deliveries that were never tried are polled.
PollNew(w) == Take(w, {d \in Deliveries : Due(d) /\ row[d].attempt = 0 /\ ~Locked(d)})

\* A tick of the goroutine: the SELECT ... LIMIT FOR UPDATE SKIP LOCKED. The oldest rows
\* come first; which of the overdue ones those are is left open.
Poll(w) == Take(w, {d \in Deliveries : Due(d) /\ ~Locked(d)})

\* GetWebhookSecret reads through the pool what is committed; a webhook that is gone
\* skips the delivery.
ReadSecret(w) ==
  /\ pc[w] = "next"
  /\ \E d \in todo[w] :
       /\ todo' = [todo EXCEPT ![w] = @ \ {d}]
       /\ IF hookState[HookOf[d]] = "deleted"
            THEN UNCHANGED <<pc, cur>>
            ELSE Goto(w, "url") /\ cur' = [cur EXCEPT ![w] = d]
  /\ UNCHANGED <<tables, acked, draft, lost, history>>

Try(w, accepted, answered) ==
  /\ tried' = [tried EXCEPT ![cur[w]] = @ + 1]
  /\ received' = IF accepted THEN [received EXCEPT ![cur[w]] = @ + 1] ELSE received
  /\ acked' = [acked EXCEPT ![w] = answered]
  /\ Goto(w, "mark")
  /\ UNCHANGED <<tables, todo, cur, draft, lost>>

\* deliver reads the URL through the pool as well. A failure of it, unlike one of the
\* secret, counts as an attempt.
ReadURL(w) ==
  /\ pc[w] = "url"
  /\ hookState[HookOf[cur[w]]] # "deleted"
  /\ Goto(w, "post")
  /\ UNCHANGED <<tables, todo, cur, acked, draft, lost, history>>

URLFails(w) ==
  /\ pc[w] = "url"
  /\ Try(w, FALSE, FALSE)
  /\ UNCHANGED faults

\* The POST: the endpoint accepts with a 2xx, or anything else comes of it.
Post(w) ==
  /\ pc[w] = "post"
  /\ Try(w, TRUE, TRUE) \/ Try(w, FALSE, FALSE)
  /\ UNCHANGED faults

\* Mutant: the delay of the last attempt is never used.
MarkedEarly(r, ok) ==
  LET attempt == r.attempt + 1 IN
  IF ok THEN [r EXCEPT !.state = "delivered"]
  ELSE IF attempt >= Len(retryDelays) - 1 THEN [r EXCEPT !.state = "failed"]
  ELSE [r EXCEPT !.attempt = attempt, !.wait = retryDelays[attempt + 1]]

\* Mutant: the answer's status code is not looked at.
MarkedUnchecked(r, ok) == [r EXCEPT !.state = "delivered"]

\* Mutant: a delivery is never given up; its last delay is used again and again.
MarkedForEver(r, ok) ==
  LET attempt == r.attempt + 1 IN
  IF ok THEN [r EXCEPT !.state = "delivered"]
  ELSE [r EXCEPT !.attempt = attempt,
                 !.wait = retryDelays[IF attempt < Len(retryDelays) THEN attempt + 1
                                                                    ELSE Len(retryDelays)]]

\* What the loop makes of a delivery whose row had r.
Marked(r, ok) ==
  LET attempt == r.attempt + 1 IN
  IF ok THEN [r EXCEPT !.state = "delivered"]
  ELSE IF attempt >= Len(retryDelays) THEN [r EXCEPT !.state = "failed"]
  ELSE [r EXCEPT !.attempt = attempt, !.wait = retryDelays[attempt + 1]]

\* MarkDelivered, MarkFailed or ScheduleRetry, whose errors are logged only: in an
\* aborted transaction each of them fails and the loop goes on.
Mark(w) ==
  /\ pc[w] = "mark"
  /\ draft' = IF lost[w] THEN draft
              ELSE [draft EXCEPT ![w][cur[w]] = Marked(@, acked[w])]
  /\ cur' = [cur EXCEPT ![w] = NoDelivery]
  /\ acked' = [acked EXCEPT ![w] = FALSE]
  /\ Goto(w, "next")
  /\ UNCHANGED <<tables, todo, lost, history>>

\* Mutant: the transaction is left open at the end of the batch.
LeftOpen(w) == pc[w] = "next" /\ todo[w] = {} /\ UNCHANGED vars

\* The batch is through. Commit of an aborted transaction is an error, which main logs.
Commit(w) ==
  /\ pc[w] = "next" /\ todo[w] = {}
  /\ row' = [d \in Deliveries |-> IF Claims(w, d) THEN draft[w][d] ELSE row[d]]
  /\ draft' = Released(w)
  /\ lost' = [lost EXCEPT ![w] = FALSE]
  /\ Goto(w, "idle")
  /\ UNCHANGED <<hookState, erased, todo, cur, acked, history>>

WorkerStep(w) ==
  \/ Poll(w) \/ ReadSecret(w) \/ ReadURL(w) \/ URLFails(w) \/ Post(w)
  \/ Mark(w) \/ Commit(w)

(***************************************************************************)
(* Faults                                                                  *)
(***************************************************************************)

Fault == faults < MaxFaults /\ faults' = faults + 1

\* The read of the secret fails: the delivery is skipped, unmarked.
SecretFails(w) ==
  /\ Fault
  /\ pc[w] = "next"
  /\ \E d \in todo[w] : todo' = [todo EXCEPT ![w] = @ \ {d}]
  /\ UNCHANGED <<tables, pc, cur, acked, draft, lost, received, tried>>

\* The endpoint accepts, and the answer does not arrive within the client's timeout.
AnswerLost(w) == Fault /\ pc[w] = "post" /\ Try(w, TRUE, FALSE)

\* A statement of the transaction fails, or its connection is gone: Postgres rolls it
\* back and lets go of its locks at once, and the loop goes on with the batch.
LoseTransaction(w) ==
  /\ Fault
  /\ pc[w] # "idle" /\ ~lost[w]
  /\ draft' = Released(w)
  /\ lost' = [lost EXCEPT ![w] = TRUE]
  /\ UNCHANGED <<tables, pc, todo, cur, acked, received, tried>>

\* The process dies (main ends only in log.Fatalf or by a signal, so workerCancel is
\* never heard of) and is started again.
Crash(w) ==
  /\ Fault
  /\ pc[w] # "idle"
  /\ draft' = Released(w)
  /\ lost' = [lost EXCEPT ![w] = FALSE]
  /\ todo' = [todo EXCEPT ![w] = {}]
  /\ cur' = [cur EXCEPT ![w] = NoDelivery]
  /\ acked' = [acked EXCEPT ![w] = FALSE]
  /\ Goto(w, "idle")
  /\ UNCHANGED <<tables, received, tried>>

(***************************************************************************)
(* The other users of the tables                                           *)
(***************************************************************************)

\* EnqueueDeliveries commits a row; its foreign key waits for a DELETE of the webhook.
Enqueue(d) ==
  /\ row[d].state = "none" /\ hookState[HookOf[d]] = "active"
  /\ row' = [row EXCEPT ![d].state = "pending"]
  /\ UNCHANGED <<hookState, erased, workers, history>>

\* DELETE FROM webhooks locks the webhook's row.
BeginDelete(h) ==
  /\ hookState[h] = "active"
  /\ hookState' = [hookState EXCEPT ![h] = "deleting"]
  /\ UNCHANGED <<row, erased, workers, history>>

\* Mutant: the cascade does not wait for the workers' locks.
CascadeUnlocked(d) ==
  /\ hookState[HookOf[d]] = "deleting" /\ row[d].state # "none" /\ d \notin erased
  /\ erased' = erased \cup {d}
  /\ UNCHANGED <<row, hookState, workers, history>>

\* ON DELETE CASCADE takes the deliveries one by one, and waits for each one's lock.
Cascade(d) ==
  /\ hookState[HookOf[d]] = "deleting" /\ row[d].state # "none" /\ ~Locked(d)
  /\ erased' = erased \cup {d}
  /\ UNCHANGED <<row, hookState, workers, history>>

OfHook(h) == {d \in Deliveries : HookOf[d] = h}

FinishDelete(h) ==
  /\ hookState[h] = "deleting"
  /\ \A d \in OfHook(h) : row[d].state # "none" => d \in erased
  /\ hookState' = [hookState EXCEPT ![h] = "deleted"]
  /\ row' = [d \in Deliveries |->
               IF d \in OfHook(h) \cap erased THEN [row[d] EXCEPT !.state = "gone"] ELSE row[d]]
  /\ erased' = erased \ OfHook(h)
  /\ UNCHANGED <<workers, history>>

\* The client of DELETE /webhooks goes away while the statement waits.
CancelDelete(h) ==
  /\ Fault
  /\ hookState[h] = "deleting"
  /\ hookState' = [hookState EXCEPT ![h] = "active"]
  /\ erased' = erased \ OfHook(h)
  /\ UNCHANGED <<row, workers, received, tried>>

CountDown(r) == IF r.wait > 0 THEN [r EXCEPT !.wait = @ - 1] ELSE r

\* Time passes, for the rows of the tables and for those being written.
Tick ==
  /\ row' = [d \in Deliveries |-> CountDown(row[d])]
  /\ draft' = [w \in Workers |-> [d \in Deliveries |->
                 IF Claims(w, d) THEN CountDown(draft[w][d]) ELSE Unclaimed]]
  /\ <<row', draft'>> # <<row, draft>>
  /\ UNCHANGED <<hookState, erased, pc, todo, cur, acked, lost, history>>

Deleting == \/ \E h \in Hooks : FinishDelete(h)
            \/ \E d \in Deliveries : Cascade(d)

\* Nothing is due and nobody wants anything.
Quiet ==
  /\ \A d \in Deliveries : row[d].state # "pending"
  /\ \A w \in Workers : pc[w] = "idle"
  /\ UNCHANGED vars

Next ==
  \/ \E w \in Workers : WorkerStep(w) \/ SecretFails(w) \/ AnswerLost(w)
                        \/ LoseTransaction(w) \/ Crash(w)
  \/ \E d \in Deliveries : Enqueue(d)
  \/ \E h \in Hooks : BeginDelete(h) \/ CancelDelete(h)
  \/ Deleting
  \/ Tick
  \/ Quiet

Spec == Init /\ [][Next]_vars

\* The ticker fires and a goroutine that can run runs; the client of the POST times out
\* after ten seconds; a DELETE statement that waits for nothing proceeds; time passes.
FairSpec == Spec /\ (\A w \in Workers : WF_vars(WorkerStep(w)))
                 /\ (\A d \in Deliveries : WF_vars(Cascade(d)))
                 /\ (\A h \in Hooks : WF_vars(FinishDelete(h)))
                 /\ WF_vars(Tick)

(***************************************************************************)
(* Properties                                                              *)
(***************************************************************************)

\* Every row and loop variable holds what its column and Go type allow; attempt stays
\* an index of retryDelays.
TypeOK ==
  /\ row \in [Deliveries -> Rows]
  /\ \A d \in Deliveries : row[d].attempt < Len(retryDelays)
  /\ hookState \in [Hooks -> {"active", "deleting", "deleted"}]
  /\ erased \subseteq Deliveries
  /\ pc \in [Workers -> {"idle", "next", "url", "post", "mark"}]
  /\ todo \in [Workers -> SUBSET Deliveries]
  /\ cur \in [Workers -> Deliveries \cup {NoDelivery}]
  /\ acked \in [Workers -> BOOLEAN]
  /\ draft \in [Workers -> [Deliveries -> Rows \cup {Unclaimed}]]
  /\ lost \in [Workers -> BOOLEAN]
  /\ received \in [Deliveries -> Nat]
  /\ tried \in [Deliveries -> Nat]
  /\ faults \in Nat

\* What a worker whose transaction is intact has in its batch is its own: still pending
\* and due in the table, claimed by nobody else, and its webhook not deleted.
BatchIsCurrent ==
  \A w \in Workers : ~lost[w] =>
    \A d \in (todo[w] \cup {cur[w]}) \ {NoDelivery} :
      /\ Due(d) /\ d \notin erased /\ hookState[HookOf[d]] # "deleted"
      /\ \A v \in Workers : Claims(v, d) <=> v = w

\* A delivery marked delivered was accepted by its endpoint, whatever failed since.
DeliveredWasReceived ==
  \A d \in Deliveries : row[d].state = "delivered" => received[d] > 0

\* An endpoint sees a delivery again only on account of a fault: each costs at most one
\* more copy, although several workers poll and a batch is marked only at its end.
DuplicatesNeedFaults == \A d \in Deliveries : received[d] <= 1 + faults

\* Without a fault a delivery is tried at most as often as there are delays; each fault
\* costs at most one attempt more.
AttemptsBounded == \A d \in Deliveries : tried[d] <= Len(retryDelays) + faults

\* A delivery is given up only after an attempt for each delay.
GivenUpLast ==
  \A d \in Deliveries : row[d].state = "failed" => tried[d] >= Len(retryDelays)

\* A delivery that is delivered or given up stays so until its webhook goes: no late
\* commit of another worker makes it pending again.
SettledStays ==
  [][\A d \in Deliveries :
       row[d].state \in {"delivered", "failed"} => row'[d].state \in {row[d].state, "gone"}]_vars

\* The workers implement the outbox: whatever they do at once, what they commit records
\* attempts one by one, each of them made, on the row as it is and when it is due; no
\* update is lost, and no row comes back.
Outbox == INSTANCE AtomicOutbox WITH deleted <- {h \in Hooks : hookState[h] = "deleted"}
ImplementsOutbox == Outbox!Spec

\* Once faults have ended, every delivery is delivered, given up or deleted.
EverySettled == \A d \in Deliveries : row[d].state = "pending" ~> row[d].state # "pending"

\* A DELETE does not wait for ever for the workers' locks.
DeletesEnd == \A h \in Hooks : hookState[h] = "deleting" ~> hookState[h] # "deleting"
=============================================================================
