---------------------------- MODULE WebhookOutbox ----------------------------
(***************************************************************************)
(* WebhookService.EnqueueDeliveries, which both services call inside their *)
(* transaction: the hooks are read through the pool, outside the           *)
(* transaction, and the deliveries are inserted inside it.                 *)
(***************************************************************************)
EXTENDS GovernorDB

Subscribers(a, event) ==
  {h \in Hooks : hookState[h] = "active" /\ HookAgent[h] = a /\ event \in HookEvents[h]}

FindHooks(p) ==
  /\ pc[p] = "findHooks"
  /\ tx' = [tx EXCEPT ![p].out = Subscribers(tx[p].row.agent, EventOf(tx[p].status))]
  /\ Goto(p, "enqueue")
  /\ UNCHANGED <<dbVars, call, resp, held>>

\* Each insert checks its foreign keys: it needs the webhook to exist still, and
\* waits for whoever has the transaction row locked FOR UPDATE.
InsertDeliveries(p) ==
  /\ pc[p] = "enqueue"
  /\ \A h \in tx[p].out : hookState[h] = "active"
  /\ tx[p].out # {} => Unlocked(p, TxnRow(call[p].rid))
  /\ Goto(p, "commit")
  /\ UNCHANGED <<dbVars, call, resp, held, tx>>

\* Mutant: the event, too, is taken from the status the row was read with.
OutgoingByRow(p) ==
  {[by |-> p, hook |-> h, rid |-> call[p].rid, event |-> EventOf(tx[p].row.status),
    status |-> ApiStatus(tx[p].row.status)] : h \in tx[p].out}

\* The rows inserted; their payload carries the Go variable's status.
Outgoing(p) ==
  {[by |-> p, hook |-> h, rid |-> call[p].rid, event |-> EventOf(tx[p].status),
    status |-> ApiStatus(tx[p].row.status)] : h \in tx[p].out}

\* Mutant: errors are dropped on every path.
SwallowsAllErrors(p) == p \in Spenders

\* ProcessSpend drops the errors of EnqueueDeliveries and Commit when it denies
\* (`_ = ...`), and answers from the row it meant to write.
SwallowsErrors(p) == p \in Spenders /\ tx[p].status = "DENIED"

\* The webhook was deleted after it was found: the foreign key fails and with it
\* the transaction.
HookVanished(p) ==
  /\ pc[p] = "enqueue"
  /\ \E h \in tx[p].out : hookState[h] # "active"
  /\ Return(p, IF SwallowsErrors(p) THEN Answer(tx[p].row) ELSE InternalError)
  /\ UNCHANGED <<dbVars, call>>
=============================================================================
