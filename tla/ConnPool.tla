------------------------------ MODULE ConnPool ------------------------------
(***************************************************************************)
(* The pool of database connections of one server process, and the         *)
(* handlers that take more than one of them: a transaction keeps its       *)
(* connection while reads made inside it go through the pool. A handler    *)
(* is the sequence of its statements that need a connection or wait for a  *)
(* row; what they read and write is in Governor and WebhookDelivery.       *)
(***************************************************************************)
EXTENDS Integers, Sequences, FiniteSets

CONSTANTS
  Spenders, Deciders,      \* POST /spend; POST /transactions/{id}/approve and deny
  Owners, Deleters,        \* POST /policies; DELETE /webhooks/{id}
  Worker,                  \* the delivery goroutine: one per process
  MaxOpen,                 \* SetMaxOpenConns
  MaxBatch,                \* rows of a poll (50 in the code)
  Nobody

Handlers == Spenders \cup Deciders \cup Owners \cup Deleters \cup {Worker}
Kinds    == <<Spenders, Deciders, Owners, Deleters, {Worker}>>

ASSUME PoolAssumption == MaxOpen \in Nat \ {0} /\ MaxBatch \in Nat
ASSUME KindsAssumption ==
  /\ \A i, j \in 1..5 : i # j => Kinds[i] \cap Kinds[j] = {}
  /\ \A i \in 1..5 : IsFiniteSet(Kinds[i])
  /\ Nobody \notin Handlers

\* Rows that are waited for: the agent's (with its policy), its owner's, one
\* transaction pending approval, and the deliveries of one webhook.
Rows == {"agent", "user", "txn", "deliveries"}

\* Authentication and the idempotency check, BEGIN, its re-check through the pool,
\* the locks, the hooks through the pool, COMMIT. A frozen agent's owner is not
\* locked; a pending spend looks for no hooks. Two reads in a row are as one here.
SpendScripts ==
  {<<"read", "begin", "read", "agent", "user", "read", "commit">>,
   <<"read", "begin", "read", "agent", "read", "commit">>,
   <<"read", "begin", "read", "agent", "user", "commit">>}

\* The approver and the transaction, BEGIN, the row's lock, the agent through the
\* pool and its owner's lock, the hooks through the pool; a denial charges nobody.
DecideScripts ==
  {<<"read", "begin", "txn", "read", "user", "read", "commit">>,
   <<"read", "begin", "txn", "read", "commit">>}

\* The INSERT ... ON CONFLICT; the reads before and after it hold nothing else.
OwnerScripts == {<<"agent">>}

\* A DELETE whose cascade waits for the rows of a poll; so with the read before it.
DeleteScripts == {<<"deliveries">>}

\* A poll, then for each row its secret and its URL through the pool and the POST.
WorkerScripts == {<<"begin", "poll", "read", "post", "commit">>}

Scripts(p) == CASE p \in Spenders -> SpendScripts
                [] p \in Deciders -> DecideScripts
                [] p \in Owners   -> OwnerScripts
                [] p \in Deleters -> DeleteScripts
                [] OTHER          -> WorkerScripts

VARIABLES
  script,   \* the statements p goes through: Idle before its call, Over after it
  at,       \* the index of its next one
  inUse,    \* the connections in use: <<p, "tx">> or <<p, "stmt">>
  waiting,  \* handlers queued for a connection
  rowOf,    \* who has a row locked in a transaction
  left      \* rows of the worker's batch still to be sent

vars == <<script, at, inUse, waiting, rowOf, left>>

Idle == <<>>
Over == <<"over">>
Running(p) == script[p] \notin {Idle, Over}
Doing(p, statement) == Running(p) /\ script[p][at[p]] = statement
InTx(p) == <<p, "tx">> \in inUse

\* The connection p's next statement needs and it does not have.
Wants(p) == IF Doing(p, "begin") THEN <<p, "tx">> ELSE <<p, "stmt">>
NeedsConn(p) ==
  /\ Running(p)
  /\ \/ Doing(p, "begin") \/ Doing(p, "read")
     \/ ~InTx(p) /\ script[p][at[p]] \in Rows
  /\ Wants(p) \notin inUse

Init ==
  /\ script = [p \in Handlers |-> Idle]
  /\ at = [p \in Handlers |-> 1]
  /\ inUse = {}
  /\ waiting = {}
  /\ rowOf = [r \in Rows |-> Nobody]
  /\ left = 0

\* A request arrives, or the worker's ticker fires, as it does again and again.
Start(p) ==
  /\ script[p] = Idle
  /\ \E s \in Scripts(p) : script' = [script EXCEPT ![p] = s]
  /\ UNCHANGED <<at, inUse, waiting, rowOf, left>>

\* sql.DB.conn: a free connection, or a place in the queue.
Ask(p) ==
  /\ NeedsConn(p) /\ p \notin waiting
  /\ IF Cardinality(inUse) < MaxOpen
       THEN inUse' = inUse \cup {Wants(p)} /\ UNCHANGED waiting
       ELSE waiting' = waiting \cup {p} /\ UNCHANGED inUse
  /\ UNCHANGED <<script, at, rowOf, left>>

\* sql.DB.putConn: connections that are returned go to queued handlers, in no
\* particular order. queue is who is still waiting for one.
GiveBack(conns, queue) ==
  \E served \in SUBSET queue :
    /\ \/ served = queue /\ Cardinality(served) <= Cardinality(conns)
       \/ Cardinality(served) = Cardinality(conns)
    /\ inUse' = (inUse \ conns) \cup {Wants(q) : q \in served}
    /\ waiting' = queue \ served

\* After its last statement a handler returns; the worker waits for its next tick.
Ended(p) == [script EXCEPT ![p] = IF p = Worker THEN Idle ELSE Over]

Advance(p) ==
  IF at[p] = Len(script[p])
    THEN script' = Ended(p) /\ at' = [at EXCEPT ![p] = 1]
    ELSE UNCHANGED script /\ at' = [at EXCEPT ![p] = @ + 1]

Begin(p) ==
  /\ Doing(p, "begin") /\ InTx(p)
  /\ Advance(p)
  /\ UNCHANGED <<inUse, waiting, rowOf, left>>

\* A read through the pool gives its connection back when its rows are closed.
PoolRead(p) ==
  /\ Doing(p, "read") /\ <<p, "stmt">> \in inUse
  /\ Advance(p)
  /\ GiveBack({<<p, "stmt">>}, waiting)
  /\ UNCHANGED <<rowOf, left>>

Free(r) == rowOf[r] = Nobody

\* SELECT ... FOR UPDATE in a transaction.
LockRow(p, r) ==
  /\ Doing(p, r) /\ InTx(p)
  /\ Free(r)
  /\ rowOf' = [rowOf EXCEPT ![r] = p]
  /\ Advance(p)
  /\ UNCHANGED <<inUse, waiting, left>>

\* A statement of its own waits for the row with its connection in hand.
ChangeRow(p, r) ==
  /\ Doing(p, r) /\ <<p, "stmt">> \in inUse
  /\ Free(r)
  /\ Advance(p)
  /\ GiveBack({<<p, "stmt">>}, waiting)
  /\ UNCHANGED <<rowOf, left>>

\* Rows locked by other statements are passed over: there may be none to send.
Poll(p) ==
  /\ Doing(p, "poll")
  /\ \/ /\ Free("deliveries")
        /\ left' \in 1..MaxBatch
        /\ rowOf' = [rowOf EXCEPT !["deliveries"] = p]
        /\ Advance(p)
     \/ /\ at' = [at EXCEPT ![p] = Len(script[p])]
        /\ UNCHANGED <<script, left, rowOf>>
  /\ UNCHANGED <<inUse, waiting>>

\* Mutant: the loop goes on after the last row.
NextRowAgain(p) ==
  /\ left' = left - 1
  /\ at' = [at EXCEPT ![p] = IF left >= 1 THEN 3 ELSE Len(script[p])]

\* On to the next row of the batch, or to COMMIT after the last.
NextRow(p) ==
  /\ left' = left - 1
  /\ at' = [at EXCEPT ![p] = IF left > 1 THEN 3 ELSE Len(script[p])]

\* GetWebhookSecret fails: the row is skipped.
SkipRow(p) ==
  /\ p = Worker /\ Doing(p, "read")
  /\ <<p, "stmt">> \in inUse
  /\ NextRow(p)
  /\ GiveBack({<<p, "stmt">>}, waiting)
  /\ UNCHANGED <<script, rowOf>>

\* The POST ends by its client's ten seconds; the mark is a statement of the transaction.
Post(p) ==
  /\ Doing(p, "post")
  /\ NextRow(p)
  /\ UNCHANGED <<script, inUse, waiting, rowOf>>

\* Mutant: nothing rolls the transaction back on the way out.
ReturnOpen(p) ==
  /\ script' = Ended(p)
  /\ at' = [at EXCEPT ![p] = 1]
  /\ left' = IF p = Worker THEN 0 ELSE left
  /\ GiveBack(inUse \cap {<<p, "stmt">>}, waiting \ {p})
  /\ rowOf' = [r \in Rows |-> IF rowOf[r] = p THEN Nobody ELSE rowOf[r]]

\* The handler returns, on any path: the deferred Rollback (after a commit, nothing)
\* ends its transaction, and a queued one leaves the queue.
Return(p) ==
  /\ script' = Ended(p)
  /\ at' = [at EXCEPT ![p] = 1]
  /\ left' = IF p = Worker THEN 0 ELSE left
  /\ GiveBack(inUse \cap {<<p, "tx">>, <<p, "stmt">>}, waiting \ {p})
  /\ rowOf' = [r \in Rows |-> IF rowOf[r] = p THEN Nobody ELSE rowOf[r]]

Commit(p) == Doing(p, "commit") /\ Return(p)

\* The handler returns early: a request answered before, a rule, an error, or a
\* client that hangs up, which cancels the context of every statement. The worker's
\* context is never cancelled: it returns early only when its BEGIN or its poll fails.
Leave(p) ==
  /\ Running(p)
  /\ p = Worker => at[p] \in 1..2 /\ InTx(p)
  /\ Return(p)

\* Mutant: a decision's transaction has no timeout.
SpendsOnly(p) ==
  /\ p \in Spenders
  /\ Running(p) /\ \E i \in 1..at[p] : script[p][i] = "begin"

\* The context of BeginTx, which covers the wait for its connection as well, lasts
\* five seconds; those of the other handlers and of the worker have no deadline.
Timed(p) ==
  /\ p \in Spenders \cup Deciders
  /\ Running(p) /\ \E i \in 1..at[p] : script[p][i] = "begin"

TimeOut(p) == Timed(p) /\ Return(p)

Lock(p) == \E r \in Rows : LockRow(p, r)
Change(p) == \E r \in Rows : ChangeRow(p, r)

Step(p) ==
  \/ Ask(p) \/ Begin(p) \/ PoolRead(p) \/ Lock(p) \/ Change(p)
  \/ Poll(p) \/ SkipRow(p) \/ Post(p) \/ Commit(p)

Next == \E p \in Handlers : Start(p) \/ Step(p) \/ TimeOut(p) \/ Leave(p)

Spec == Init /\ [][Next]_vars

\* Goroutines run, reads and POSTs end, timers fire, and Postgres grants a row to
\* those who queue for it. No client need ever hang up, and none need ever call.
FairSpec ==
  /\ Spec
  /\ \A p \in Handlers : WF_vars(Step(p))
  /\ \A p \in Spenders \cup Deciders : WF_vars(TimeOut(p))
  /\ \A p \in Deleters : SF_vars(Change(p))

(***************************************************************************)
(* Properties                                                              *)
(***************************************************************************)

Connections == Handlers \X {"tx", "stmt"}
Statements  == Rows \cup {"read", "begin", "poll", "post", "commit"}

TypeOK ==
  /\ \A p \in Handlers : script[p] \in Scripts(p) \cup {Idle, Over}
  /\ \A p \in Handlers : at[p] \in 1..7
  /\ inUse \subseteq Connections
  /\ waiting \subseteq Handlers
  /\ rowOf \in [Rows -> Handlers \cup {Nobody}]
  /\ left \in 0..MaxBatch

Holders == {p \in Handlers : InTx(p) \/ <<p, "stmt">> \in inUse}

\* No connection is lost or opened beyond the limit: whoever has one, or a row, is
\* running a call, and nobody queues while one is free.
PoolSound ==
  /\ Cardinality(inUse) <= MaxOpen
  /\ waiting # {} => Cardinality(inUse) = MaxOpen
  /\ \A p \in waiting : NeedsConn(p)
  /\ \A p \in Holders : Running(p)
  /\ \A r \in Rows : ~Free(r) => InTx(rowOf[r])

\* p can do nothing until somebody else gives up a connection or a row.
Blocked(p) ==
  \/ p \in waiting
  \/ \E r \in Rows : Doing(p, r) /\ ~Free(r)

\* Every connection is held by a handler that is blocked.
Deadlocked == Cardinality(inUse) = MaxOpen /\ \A p \in Holders : Blocked(p)

\* The one deadlock that no timer ends: the worker, in the middle of a batch, queues
\* for a connection, and the others are held by DELETEs that wait for its rows.
Stuck == /\ Worker \in waiting /\ InTx(Worker)
         /\ \A p \in Holders \ {Worker} : Doing(p, "deliveries")

\* When transactions hold the whole pool and each needs one connection more, or a
\* row of another that does, one of them has a deadline; unless the pool is Stuck.
DeadlocksHaveADeadline == Deadlocked => Stuck \/ \E p \in Holders : Timed(p)

\* Every call ends, although nested connections may take the pool to a standstill,
\* unless DELETEs have taken the worker's last connection.
Quiet    == \A p \in Handlers : ~Running(p)
CallsEnd == ~Quiet ~> (Quiet \/ Stuck)
=============================================================================
