# Verification of the Governor backend

Governor lets software agents spend from their owner's balance under a policy.
The backend is a Go HTTP service over Postgres: a request handler runs in its own
goroutine, and handlers meet only in the tables. This directory holds TLA+
modules that model its transactional core statement by statement, TLC
configurations that check them on small instances, and proofs for every
instance.

## 1. Inventory of the system

| component | state | operations | what makes it correct |
|---|---|---|---|
| spend engine: `spend_service.go`, `spend_handler.go`, the repositories | `transactions`, `users.balance_cents`; the Go variables of one call | `POST /spend` (`ProcessSpend`) | a row has the outcome the rules give at its commit; a request id has one row and one result; what is approved is paid once |
| approval service: `approval_service.go` | the same tables, the approval actions | approve, deny (`processDecision`) | one decision per row, agreeing with the ledger, paid for exactly then |
| webhook outbox: `webhook_service.go:56-123`, `webhook_repo.go` | `webhooks`, `webhook_deliveries` | register, delete, `EnqueueDeliveries` inside the caller's transaction | each final outcome is announced to each subscriber, with its own event and status |
| webhook delivery worker: `webhook_service.go:127-222`, `main.go:60-76` | `webhook_deliveries.status, attempt, next_attempt_at` | poll 50 rows `FOR UPDATE SKIP LOCKED`, POST, mark | every delivery is accepted by its endpoint or given up after all six attempts; extra copies only through faults |
| policies: `policy_repo.go` | `policies` | upsert, read | read `FOR UPDATE` by a spend; what is answered is what was written, or later |
| authentication: `auth.go`, `apikey.go` | none | look an agent up by its key | a frozen agent gets no further |
| rate limiter: `ratelimit.go` | a `sync.Map` of token buckets | allow, cleanup | a bucket lets through at most burst + rate * time; a refusal is earned; eviction forgets nothing |
| connection pool: `db.go` | ten connections and the queue for them | every statement | connections are given back; nobody waits for ever for one |
| listing: `transaction_service.go`, `agent_service.go`, `httputil/query.go` | none; a client keeps its offset | page and count | a walk through the pages misses no row; a page agrees with its total |
| provisioning: users and agents | `users`, `agents` | create, read | a call makes one agent; the key it answers opens that agent and no other |
| frontend | React state over mock data | | none of it reaches the tables |

How they interact: `main.go` builds the services over one `*sql.DB`. `ProcessSpend`
and `processDecision` call `EnqueueDeliveries` with their own transaction, but
`EnqueueDeliveries` reads the hooks through the pool, as the idempotency checks
do: such a read sees what is committed and takes no lock. Everything else meets in
row locks: `ProcessSpend` locks its agent, the agent's user and the agent's policy in
that order, `processDecision` the transaction's row and then the user, and a
delivery's foreign keys lock its transaction and its webhook.

What is hard here: the interleaving of those statements; reads through the pool in
the middle of a transaction; a duplicate request that passes both idempotency
checks; statements that fail half way, with errors that a denial drops (`_ =`);
a commit whose acknowledgement is lost; lock waits in opposite orders, ended only by
the deadlock detector and the five-second contexts; a pool of ten connections of which
a transaction keeps one while its reads take another; statements the driver sends
twice; offset pages over tables that grow; midnight during a transaction;
int64 arithmetic. The list with lines is under `hazards` in `PROJECT.json`.

## 2. Modules

| module | models | extends |
|---|---|---|
| `GovernorDB` | tables, row locks, the state of a handler and its transaction, `Return`, `Fail` | |
| `WebhookOutbox` | `EnqueueDeliveries` | `GovernorDB` |
| `SpendService` | `Authenticate`, `Spend`, `ProcessSpend` | `WebhookOutbox` |
| `ApprovalService` | `processDecision` | `WebhookOutbox` |
| `Governor` | both together, with policy upserts, hook registration and deletion, freezing, midnight; `Spec`, `FairSpec`, all properties | both services |
| `AtomicLedger` | what the spend engine promises: spends and decisions that take effect at once; `Governor` implements it | |
| `MCGovernor` | the small instances | `Governor` |
| `ConnPool` | the connections of one process, and each handler as the statements that take one or wait for a row | |
| `MCConnPool` | its small instance | `ConnPool` |
| `Provisioning` | `POST /users`, `POST /agents`, `POST /policies`, statement by statement | |
| `Listing` | the pages and totals of `GET /agents` and `GET /transactions`, and a client that walks through them | `Provisioning` |
| `MCListing` | the small instance of both | `Listing` |
| `WebhookDelivery` | the delivery worker: polls, POSTs, marks, with DELETE's cascade and faults | |
| `MCWebhookDelivery` | its small instances | `WebhookDelivery` |
| `AtomicOutbox` | what the delivery worker promises: attempts recorded one by one; `WebhookDelivery` implements it | |
| `DeliveryProofs` | the worker's theorems, what faults can cost, the refinement of `AtomicOutbox` | `WebhookDelivery`, `TLAPS` |
| `RateLimiter` | `allow` and `cleanup` over shared token buckets | |
| `MCRateLimiter` | its small instances | `RateLimiter` |
| `RateLimiterProofs` | its theorems | `RateLimiter`, `TLAPS` |
| `GovernorProofs` | the inductive invariant, types, one decision per row | `Governor`, `TLAPS` |
| `SumProofs` | facts about the sums the model takes | `TLAPS` |
| `LedgerProofs` | what a step may do to the ledger, what answers and announcements rest on, sums over the ledger, requests that do not overlap | `GovernorProofs`, `SumProofs` |
| `RefinementProofs` | outcomes current at the commit, the daily limit, the refinement of `AtomicLedger` | `LedgerProofs` |
| `ConnPoolProofs` | the pool's theorems | `ConnPool`, `TLAPS` |
| `DirectoryProofs` | the theorems of provisioning and listing | `Listing`, `TLAPS` |

### State

- `balance`, `agentStatus`, `policy`, `ledger`, `audit`, `hookState`, `deliveries`
  are the committed tables. `ledger` is keyed by request id, which is UNIQUE; a
  decision names a row by the same key. A delivery keeps its event, the status in its
  payload, and which handler made it.
- `today` is the day of the database's clock.
- `pc`, `call`, `resp` are a handler's place in the code, its request and its
  answer. A handler serves one call; a client's retry is another handler with an
  equal request.
- `held[p]` is the set of rows p's transaction has locked FOR UPDATE.
- `tx[p]` holds the transaction's Go variables and its pending writes: the Go
  variable `txn` (`row`), the outcome decided by this handler (`status`), whether
  Create inserted the row (`fresh`), the deduction (`charge`), the deliveries (`out`).

A transaction runs at READ COMMITTED, so its writes are kept in `tx[p]` and
become visible at once in `CommitSpend` or `CommitDecision`, and each read sees the
tables of its own moment. Handlers never read back what they wrote themselves.
`LockUser` reads the balance before `DeductBalance` writes it under the same lock, so
the deduction is the only pending write to that row.

### Actions and code

Each statement that reads or writes the database is one action, named for the
method or the step: `FastCheck`, `Begin`, `Recheck`, `LockAgent`, `LockUser`,
`LockPolicy`, `EvaluateRules` (the sum and the rules), `CreateTxn`, `DeductBalance`,
`FindHooks`, `InsertDeliveries`, `CommitSpend`; and `CheckApprover`, `CheckPending`,
`LockTxn`, `DebitOwner`, `RecordDecision`, `CommitDecision`. What follows a statement
in Go before the next one is part of its action. The six places where `ProcessSpend`
denies share `Deny` and then walk through `CreateTxn`, `FindHooks`, `InsertDeliveries`
and `CommitSpend` like the others, with `SwallowsErrors` for the errors they drop.

Consecutive statements are joined in one action only where no other
handler can tell: `DebitOwner` locks the user, compares and deducts under that lock;
`RecordDecision` is the update and the audit insert, both invisible until the commit;
`InsertDeliveries` is the loop of inserts.

Locks: `Unlocked(p, r)` guards each FOR UPDATE. A foreign key check takes KEY
SHARE, which conflicts with FOR UPDATE only: an uncommitted delivery keeps its
transaction row from `LockTxn` and its webhook from `DeleteWebhook`, and waits for
whoever has them. `CreateTxn` waits for another uncommitted insert of its key.

Failures: `Fail` may strike at any step (a lost connection, an expired context, the
victim of a deadlock, a process that dies): the transaction is rolled back and the
client gets an error. `CommitSpendUnacked` and `CommitDecisionUnacked` commit and
report an error. `SkipHooks` and `LoseDenial` are failures of a denial, which is
answered as if nothing had happened.

### The delivery worker

`WebhookDelivery` takes up where the outbox ends: `Enqueue` is the commit of a delivery.
`Poll`, `ReadSecret`, `ReadURL` or `URLFails`, `Post`, `Mark` and `Commit` are the
statements of `ProcessPendingDeliveries`; each server process runs one goroutine
(`Workers`), and several may share the database, which SKIP LOCKED is for.
`draft[w][d]` is a row as w's transaction has it, `Unclaimed` when w has no lock on it.
`wait` is the time left until `next_attempt_at`, which `Tick` counts down. The oldest
rows are polled first in the code; which of the overdue ones a poll takes is left open.

Faults: `Crash` (the process; `workerCancel` is deferred in a `main` that only ends in
`log.Fatalf`, so nothing else stops the loop), `AnswerLost` (accepted, and no answer in
ten seconds), `SecretFails`, `CancelDelete`, and `LoseTransaction`: a statement
fails or the connection goes. Postgres then lets go of the row locks at once, but the
loop does not know: it logs the failed mark and posts the rest of the batch, whose
rows another process may poll and post at the same time. `BatchIsCurrent` holds only
while the transaction lives; `DuplicatesNeedFaults` bounds what this costs.

### The rate limiter

`RateLimiter` stands alone: `Call` is the middleware's call of `allow` with the clock read
first, `Load` the `LoadOrStore`, `Decide` the critical section under the bucket's mutex;
`StartSweep`, `Look` and `Evict` are `cleanup`. `heap` keeps every bucket ever stored, for
a request may hold one that has left the map. Tokens are counted in the ticks it takes to
earn them: one token is `Cost` ticks, so that the refill is exact. `key`, `spent` and `born` of a
bucket are history. A stamp is older than the decision it is used in by at most `MaxLag` ticks, which
guards `Tick`; negative `elapsed`, negative tokens and a last refill that goes back all occur.

### The atomic ledger

`AtomicLedger` has four kinds of steps: `Spend` judges a request by the rules on the tables of
that moment, enters the row and pays for it; `Decide` settles a pending row and pays for
it; `ChangePolicy` and `ChangeStatus` are the owner's and the operator's; `NextDay` the
clock's. `Governor` is mapped to it by its committed tables alone (`Ledger`: the audit
without the names of the handlers), and `ImplementsLedger` says that each of its
behaviours is one of `AtomicLedger`: a commit is one such step and everything else leaves
the tables alone. A fifth step, `ChargeAgain`, is there because the code needs it: a
duplicate that meets its row in `Create` takes its amount once more, and enters nothing. That is
the only way in which the engine is not the ledger one would wish for; run `double_charge`
shows it, and a fix of the code would drop the step.

### The atomic outbox

`AtomicOutbox` keeps the rows, the webhooks that are gone, and how often a delivery was tried and
received. `Enqueue` inserts a row, `Attempt` is one POST, `Delete` takes a webhook with its rows, `Tick`
is the clock, and `Record` enters outcomes: at most one more attempt for each row, on the row as it
is in that step, pending and due, and never more than were made. It has no workers, batches,
locks, drafts or transactions: `ImplementsOutbox` says that `WebhookDelivery`, mapped by its committed rows,
needs none to be explained. A commit is a `Record`, a POST an `Attempt`, the end of a DELETE a `Delete`;
polls, marks, crashes and rollbacks are stutters.

### The connection pool

`ConnPool` is the pool of one process. `database/sql` gives a statement outside a transaction
a connection for as long as it runs (`<<p, "stmt">>`), and a transaction one for as long as
it lives (`<<p, "tx">>`); whoever finds none free queues (`Ask`), and a connection given back
goes to any of the queue (`GiveBack`). A handler is a `script`: the sequence of those of its
statements that need a connection or wait for a row. `PoolRead` stands for the reads that go
through the pool in the middle of a transaction (`spend_service.go:79`, `webhook_service.go:92`,
`approval_service.go:95`, `webhook_service.go:140` and `:201`), `LockRow` for a FOR UPDATE,
`ChangeRow` for a statement that waits for a row with its own connection, `Poll`, `SkipRow`
and `Post` for the worker's loop. `Return` is the way out of every handler: the deferred
`Rollback` and `cancel`. `Timed` says who has a deadline: spends and decisions, from `BeginTx` on
and including its wait for a connection. The others run under `r.Context()`, which ends only
when the client hangs up (`Leave`), or `workerCtx`, which never ends. Two waits are not in the
scripts: `Create`'s for a duplicate that is not committed, and that of a delivery's INSERT for the rows
it refers to. Whoever waits there is in the transaction of a spend or a decision and has its deadline.

### Provisioning and listing

`Provisioning` has each statement of `POST /agents` and `POST /policies` as a step, and `POST /users`
as one. When a connection ends under a statement, `lib/pq` reports `driver.ErrBadConn` and
`database/sql` sends the statement again, on another connection, although it may have taken
effect: `InsertUnacked` and `UpsertUnacked` take effect and leave the call where it was. The loop of
`AgentRepository.Create` then meets its own row as a duplicate and tries other keys for an id
that is taken. `POST /users` may make two users in that way, for the database draws their ids:
no property says it does not. `by` and `wrote` are history.

`Listing` adds a table of transactions, which are inserted with the time their transaction began
and decided later, and a client: `StartWalk` is its first request, with a raw limit and offset
that `Limit` and `Offset` clamp, `ReadPage` and `ReadTotal` are the two statements of a listing,
`NextPage` asks for the rows after a full page. Rows with one `created_at` may come in another
order each time (`NewestFirst` is a set of orders). `lost` and `shrunk` record whether a row has
left the filter since the walk began, or since its page was read.

### Modelled from their use

`repository.ApprovalRepository`, `TransactionRepository.GetByID`, `GetByIDForUpdate`
and `UpdateApproval`, the approval handler and migration 004 are
used by the tree and not in it. They are taken to do what their names and arguments
say; `RecordDecision` changes the row's status and keeps its reason. So is the permission to approve:
`approval_service.go:55` reads `approver.CanApprove`, but `models.User` has no such field and
`UserRepository.GetByID` selects none; it is the constant `CanApprove`, the users who may.
Freezing an agent has no endpoint: `SetAgentStatus` is an operator's statement.
`POST /policies` fails on the schema of the tree, for its INSERT leaves out
`raw_policy` (`policy_repo.go:27`, `001_initial_schema.sql:25`, NOT NULL);
`UpsertPolicy` is the statement once that column has a default.

## 3. What the runs check

All constants of a run are in its `.cfg` and in the MC module it names.

| run | scenario | properties |
|---|---|---|
| `spend` | two handlers, two agents of one user, two request ids, two policies to upsert (limits 3 and 2), one hook that may be registered and deleted, a midnight | `ApprovedIsPaid`, `ImplementsLedger`, `DecisionCurrentAtCommit`, `ApprovalsAnnounced`, `DailyLimitHolds` |
| `approval` | two spends above the threshold or below it, two decisions, one approver without permission | `TypeOK`, `ApprovedIsPaid`, `SumNeverWraps`, `AuditMatchesLedger`, `ApprovedNotified`, `AnswersAreDurable`, `RowFinal` |
| `delivery` | two workers, two deliveries of one webhook that may be deleted, three attempts, two faults | `TypeOK`, `BatchIsCurrent`, `DeliveredWasReceived`, `DuplicatesNeedFaults`, `AttemptsBounded`, `GivenUpLast`, `SettledStays`, `ImplementsOutbox` |
| `delivery_live` | the same with polls of one row, two attempts and one fault | `EverySettled`, `DeletesEnd` |
| `rate_limit` | two requests of one key, stamps that reach the bucket late, sweeps every six ticks, a bucket idle after eleven | `TypeOK`, `NeverOverRate`, `NeverInDebt`, `EvictedHasEarned`, `RefusedWhenSpent`, `RefusalsAreFree` |
| `answered` | a duplicate spend against a decision, which deadlock | `EveryCallAnswered`, `ImplementsLedger` |
| `conn_pool` | two connections for a spend, a decision, a policy upsert, a DELETE of a webhook and the worker | `TypeOK`, `PoolSound`, `DeadlocksHaveADeadline`, `CallsEnd` |
| `directory` | two calls that provision agents or policies, or three transactions that come and are decided, and a client that lists them in pages of two | `TypeOK`, `OneAgentPerCall`, `AnsweredKeyIsOwn`, `AnswerNotStale`, `NothingMissed`, `TotalCoversPage` |

- `DecisionCurrentAtCommit`: a row enters the ledger with exactly the outcome the
  rules give on the committed tables at that step. The reads were made one at a
  time; the locks on the agent, the user and the policy make it as if they were made
  together. For the missing policy the lock is the agent's: an insert of a policy
  row needs KEY SHARE on it.
- `ApprovedIsPaid`: the approved rows of a user's agents add up to at most what has
  left his balance. It needs the deduction and the row in one transaction, on both paths.
- `SumNeverWraps`: the int64 sum before the daily limit does not overflow, because
  `LockUser` compared the amount with a balance that earlier approvals have
  already reduced.
- `DailyLimitHolds`: with spends alone the limit is never passed. (With approvals it
  is: see below.)
- `ApprovalsAnnounced`: an approved spend commits with a delivery for each hook
  subscribed at the commit. The hooks are read outside the transaction, and a
  registration in between is stopped only by the agent's row lock, through its
  foreign key. The approval path takes no such lock, so
  `ApprovedNotified` says it for hooks subscribed from the start. Neither covers denials, which
  commit without their deliveries when these fail (`SkipHooks`).
- `AuditMatchesLedger`, `RowFinal`: of concurrent decisions one wins, and a row is
  decided once. `RowFinal` also says that a duplicate never rewrites a row.
- `AnswersAreDurable`: an answer of approved or pending, and every answer to a decision,
  is in the ledger. A denial is left out: see `SameResult`.
- `EveryCallAnswered`: a duplicate that the rules approve holds the user's row
  and waits, in its delivery's foreign key, for the transaction row of a decision,
  which waits for the user's row. The timeouts end it.
- `BatchIsCurrent`: the row locks of the poll and the lock waits of the cascade keep what
  was read true through up to 50 POSTs.
- `DuplicatesNeedFaults`, `AttemptsBounded`: one fault costs at most one extra copy and one
  extra attempt of a delivery, although it aborts a whole batch and the loop goes on.
- `DeliveredWasReceived`, `GivenUpLast`, `SettledStays`: a settled row says what happened and is
  not reopened by another worker's late commit.
- `ImplementsOutbox`: a worker commits what it computed from rows it read up to 50 POSTs before. That this
  is an outcome for the row as it is at the commit, of an attempt that was made, is what no
  property of single rows above says: a lost update, or a row marked before it is due, is no
  step of the outbox.
- `NeverOverRate`, `NeverInDebt`: whatever order stamps reach a bucket in, what it has let through
  and still holds is what it earned: never more, and by the wall clock never less except
  for the cap. `RefusedWhenSpent` and `RefusalsAreFree` say what this means for a refused
  request and for the others.
- `EvictedHasEarned`: `cleanup` looks at a bucket, lets go of its lock and then deletes its key. A request may
  refill and spend the bucket in between, and one that holds it may spend from it afterwards, beside the full
  bucket that is stored next for the key. The property relates the two: what the old one ever lets through
  was earned before the new one was stored. The two bursts of such a moment are paid for by the ten
  minutes in which the bucket was idle and earned nothing beyond its cap. With `NeverOverRate`, by adding up
  a key's buckets, a key gets at most one burst and its rate over all its time, though for the length of
  the race it may get two bursts in a row. With `Idle` two ticks less (and without
  `IdleAssumption`, which forbids it) TLC finds the property violated.
- `EverySettled`, `DeletesEnd`: retries end, and so do the lock waits of a DELETE.
- `ImplementsLedger`: see the atomic ledger above. It is checked over two spends with every
  change around them (`spend`), and over spends and a decision that deadlock (`answered`).
- `DeadlocksHaveADeadline`, `CallsEnd`: transactions that hold the whole pool while each needs one
  connection more do come to a standstill, with two connections as with ten; five seconds later
  one of them times out and its connection and rows go to the others. One standstill has no
  deadline (`Stuck`): the worker, in the middle of a batch, queues for a connection to read a
  secret or a URL with, and the others are held by DELETEs that wait for its rows. Both
  properties except it, and TLC reaches it; ten DELETEs under one batch would be needed in
  production. It ends when a client hangs up.
- `PoolSound`: connections are neither lost nor opened beyond the limit, on any way out of a
  handler.
- `OneAgentPerCall`, `AnsweredKeyIsOwn`: what a resent INSERT and the loop over keys may not do: make
  a second agent, or answer a key that opens nothing, or another's agent. A call may
  make an agent and answer an error.
- `AnswerNotStale`: the policy answered is the one written, or one written since.
- `NothingMissed`: offset pages shift when rows are inserted, but towards later pages: what was
  there when a walk began is shown, some of it twice. The exceptions are in the property: a
  row that left the filter in mid-walk (a pending transaction decided, an agent frozen)
  moves the others forward, and rows of one `created_at` may change places.
- `TotalCoversPage`: a total is never less than what was shown by the end of its page, since it is counted
  afterwards and rows leave a filter only by a change of status.

Where the code does something else than its documentation or tests say, a run
checks the documented property and TLC finds it violated; `findings` in
`PROJECT.json` has the quotations.

| run | property | what happens |
|---|---|---|
| `double_charge` | `NoDoubleCharge` | one request of 2 sent twice at once takes 4 from its owner |
| `over_limit` | `DailyLimitHolds` | an approval does not look at the daily limit |
| `same_result` | `SameResult` | a denial whose commit failed is answered; its retry is approved |
| `event_status` | `EventMatchesStatus` | a duplicate judged after its agent was frozen announces a denial for the row it found, which is pending |

Two more things a reader of the code will see, without a run: the payload of a decision's event is
built before the row changes and says `pending_approval` (`approval_service.go:129`; the `status` of
a delivery in the model), and `cleanup` may evict a bucket that was used since it was looked
at (`ratelimit.go:118`; `Evict`): the key then has two bursts in a row, which `EvictedHasEarned` shows to be earned.

### Bounds

Two spends are what every spend hazard needs: one that waits and one it
waits for; conflicts are pairwise, over one agent, user, policy or key. The approval
run adds two decisions, so that a decision races a spend, a duplicate and another
decision. Two request ids allow a duplicate and an independent spend. Amounts of 1
to 3 against a balance of 4 and limits of 3 and 2 (spends) or 4 (approvals) reach every
rule from both sides: requests fit alone and not together. `MaxCents` is 4, the
initial balance, so that the sum of the limit check may wrap. `MaxDay` is 1 where the
day matters and 0 elsewhere. Handlers are symmetric in the safety runs; the runs of
temporal properties use no symmetry. No queue or counter is cut off: a handler
serves one call, so every run ends (`Terminating`).

For the delivery worker two workers and two rows are a batch in which one row is
done and the other is not, and a competitor for both. `retryDelays` has three entries
in place of six, which is every branch of the loop's decision: a first, a middle and
the last attempt. `MaxFaults` bounds `faults`; it also bounds every counter, since without
faults the attempts are bounded by the code. Polls take two rows in the safety run and
one, fewer than are due, in the liveness run.

For the rate limiter two requests are an early stamp and a late one, and one key
suffices since buckets share nothing. A burst of two tokens of two ticks each leaves half
tokens. `Idle` is twice the full bucket's four ticks plus three times `MaxLag`, the least `IdleAssumption`
allows (in `main.go:46` a bucket fills in one second, and ten minutes make it idle, which leaves
a `MaxLag` of three minutes), and `Interval` about half of it, as in the code. `MaxTime` is
thirteen ticks: a bucket is spent, falls idle, is looked at from twelve on, used again,
evicted and replaced, and both are used.

For the pool, two connections are the least with which a transaction's read can be served, and the
standstills need no more: a pool of n stands still when n transactions hold it. One handler
of each kind is every pair of kinds; handlers of a kind contend for what two kinds already do
(the agent's and the user's rows, connections). Batches of one and two rows are a loop that
ends and one that goes on.

For the directory, agents are listed while they are provisioned, or one agent's transactions while they come
(`toCome`), since neither affects the other's table. Three transactions against pages of two are
a full page and another; limits of 0 and 5 and an offset of -1 are clamped to 2, 2 and 0. Two
agents, two keys and two tries are a call that meets a duplicate and gives up and one
that goes on; `MaxAgents` bounds the table and `MaxTime` the clock. Ids, keys, calls and
transactions are symmetric.

### Fairness

`FairSpec` asks weak fairness of each called handler's steps, because the Go
scheduler runs every goroutine that can run, and of `TimeOut`: a statement that waits
fails when the transaction's five-second context expires (`spend_service.go:69`,
`approval_service.go:72`) or Postgres's deadlock detector picks it. Nothing is
asked of clients, owners, the operator, the clock or faults.

`WebhookDelivery`'s `FairSpec` asks weak fairness of each worker (the ticker fires, a
POST ends by the client's ten-second timeout, the pool reads end), of the
statements of a DELETE that wait for no lock, and of time. Nothing is asked of the
endpoints. That faults end is `MaxFaults`: with a crash in every batch no delivery would
ever be settled.

`ConnPool`'s `FairSpec` asks weak fairness of each handler's steps, of the five-second timers, and
strong fairness of a DELETE that waits for a row: Postgres grants a row to those who queue for
it, and the worker, whose polls skip locked rows, could otherwise take it again each time. Nothing
is asked of clients, neither to call nor to hang up.

## 4. What is proved

Every theorem is proved from the assumptions its module's constants are declared with, and nothing
else; the hypotheses of `LimitHolds`, `ChargedExactly` and `EventsMatch` are part of what they say.

### The spend engine

`GovernorProofs` proves, for all constants that satisfy the named assumptions of
`GovernorDB` (the two kinds of handlers are disjoint, requests are in the type of
calls with positive amounts, initial balances are within int64, nulls are not rows):

- `Invariance`: `Spec => []Inv`.
- `TypeCorrect`: `Spec => []TypeOK`; no balance is ever negative.
- `OneDecision`: `Spec => []AuditMatchesLedger`.

`LedgerProofs` and `RefinementProofs` go on from there (see below): `RowsFinal`, `AnswersDurable`,
`Notified`, `Announced`, `ApprovedPaid`, `SumsFit`, `ChargedExactly` and `EventsMatch` in the one,
`DecisionsCurrent`, `SpendsWithinLimit`, `LimitHolds` and `Refinement` in the other. Every property
the passing runs check of `Governor` is a theorem, but for liveness.

In `GovernorProofs`, `TypeOK` is not inductive: `balance' \in [Users -> Nat]` needs the charge to be
covered at the commit. `Inv` adds what makes it so. `SpenderInv(p)` and
`DeciderInv(p)` say, per place in the code, which rows the handler holds and that
what it read under those locks is still true: the balance covers the amount, the
agent is not frozen, the policy is the one read, the row is pending still.
`Exclusion` says no row is held twice, so no other handler's commit disturbs
that; `FreshKeys` that no key is inserted twice. The argument: a step outside the
tables keeps the others' invariants (`FrameInv`, `QuietInv`, `ReturnInv`,
`WalkInv`), with one lemma per action for its own; a commit changes only rows the
handler holds or inserted (`ChargeEffect`, `CommitFrameInv`, `DecidedRow`), and then lets
go of everything; an owner's or operator's change waits for the locks
(`EnvironmentFrame`). TLC has checked `Inv` on the instances of `spend` and `approval`.

`RowsFinal` needs from `Inv` that a commit inserts under a key that is free
(`SpendCommitRow`) and changes a row its handler found pending and has locked
(`DecisionCommitRow`). `DecisionsCurrent` adds one invariant, `JudgedInv`: from the step
that settles a spend's outcome until its commit, the rules still give that outcome,
since everything it rests on is locked by the handler: the agent always, the user
unless the agent was frozen, the policy when one was read, and today's approved
rows through the user, whom a decision locks before it approves (`SpentStable`,
`OutcomeStable`). One lemma per action shows it kept (`LockAgentJudged` to
`EnvironmentJudged`).

`ApprovedPaid`, `SumsFit` and the limit compare sums over the ledger with a balance or a limit, and the
ledger may have any number of rows. `SumProofs` proves what that takes of `SumFunction`, which folds over a
set in an order that `CHOOSE` leaves open: that it is defined at all (`TotalsExist`, `SumUnfolds`), a natural
number, the same whatever element is taken first (`SumWithout`, `SumWith`), monotonic
(`SumSubset`) and determined by the function's values (`SumSame`). The library's induction
theorems take an operator and cannot be used, so each is proved by a smallest set that
would break it (`Smallest`), which comes from the well-founded order on naturals.

With them, a commit is a step that touches one row and, if it approves it, takes the
row's amount from the owner of its agent (`CommitSettles`, which rests on what `BookInv` says of the charge);
such a step adds to the sum what it takes from the balance, or less (`SettlesSum`). So
`PaidInv`, which adds to `ApprovedIsPaid` that only finitely many requests have a row at any time,
is inductive (`PaidNext`), and `ApprovedPaid` is `Spec => []ApprovedIsPaid`.
`SumsFit` (`Spec => []SumNeverWraps`) follows: at the sum the user's row is held and his balance covers the amount
(`SpenderInv`), and the day's sum is part of what was taken from his initial balance, which
is an int64 (`SpentBound`, `SumFits`).

`SpendsWithinLimit` says that any step which decides no pending row keeps each agent's sum of each day within the
limit in force, or does not raise it: from `JudgedInv` and `SumsFit`, for a row approved by the rules was within the
limit by the sum of that moment. `LimitHolds` is `DailyLimitHolds` itself, under the hypothesis that
nobody decides (`Deciders = {}`, as in run `spend`); without it the property is false, which
is run `over_limit`.

Two of the disagreements below come from requests that overlap: two handlers at work on one request id
at once. `NoOverlap` says there are none: a request is repeated only after the handler of the
one before has returned, with whatever answer or none. `ChargedExactly` and `EventsMatch` are
`Spec /\ []NoOverlap => [](ChargedAsApproved /\ NoDoubleCharge)` and `Spec /\ []NoOverlap => []EventMatchesStatus`: under that
hypothesis what runs `double_charge` and `event_status` refute is true, of any number of repetitions, failures
and lost acknowledgements; and more than that of the charges, which come to exactly the approved
rows (`ChargedAsApproved`). Their invariant, `UnseenInv`, is that what `FastCheck` found stays true
up to the commit, so that `Create` always inserts. It would therefore be enough for a fix
to let the handlers of one request id run one after the other.

The refinement uses the same invariant as `DecisionsCurrent`. `Judged` is about the outcome a spend has settled on (`Claim`),
which is in force (`InForce`) in the row it inserts, and also in an approval that is charged
although another row has the request id (`Approving`), for which the ledger has `ChargeAgain`.

- `Refinement`: `Spec => ImplementsLedger`. A commit of a spend that inserted
  its row is `Spend`, one that approved a duplicate is `ChargeAgain`, other commits of spends
  change nothing; a commit of a decision is `Decide`; policy upserts, freezes and midnight are
  `ChangePolicy`, `ChangeStatus` and `NextDay`; every other step is a stutter. That `Spend` judges the
  row on the tables of its own moment is `JudgedInv`; that it pays for it, and that a decision
  does, is `BookInv`.
- `AnswersDurable`: `Spec => []AnswersAreDurable`. `BookInv` says what a transaction will charge,
  by the outcome it carries; that a duplicate's row is in the ledger; and that an answer once given
  is borne out by the ledger, whose rows `RowsFinal` keeps.
- `Notified`, `Announced`: `Spec => []ApprovedNotified` and `Spec => ApprovalsAnnounced`. From
  `FindHooks` to its commit an approval carries every hook it owes a delivery (`NoticeInv`): those
  subscribed from the start, and, if it inserted the row itself, all that are subscribed by
  now, since `RegisterWebhook` waits for the agent's row (`NoticeKept`). A delivery once committed goes only with
  its hook.

### The delivery worker

`DeliveryProofs` proves, for finitely many workers and any deliveries, webhooks, delays and batch size,
`TypeCorrect`, `BatchesAreCurrent`, `DeliveredReceived`, `GivenUpAfterAll` and `SettledForGood`
(`TypeOK`, `BatchIsCurrent`, `DeliveredWasReceived`, `GivenUpLast`, `SettledStays`). Its `Inv` says what
a claim protects (`ClaimOK`: the committed row is still pending and due, nobody else claims
it, its webhook exists), where a worker is (`WorkerOK`: what is left of the batch of a
living transaction is claimed) and that each row, committed or draft, is borne out by
what was tried and received (`Earned`). A worker's walk disturbs only its own part
(`WalkInv`), the other users of the tables nothing that is claimed (`TablesInv`), a commit
only rows the worker claimed (`CommitInv`).

It also proves `DuplicatesNeedFaults` and `AttemptsBounded` (`CopiesNeedFaults`,
`AttemptsAreBounded`). The invariant, `CountInv`, counts for one delivery: `CountOK`
says that what was tried, and the workers that lost their transaction and will try it yet
(`Strays`), are no more than the attempts the row stands for, or its claimant's draft,
and the faults; `DraftOK` that a draft is at most one attempt ahead of its row. A fault adds
one on the right and at most one stray on the left, for only the claimant of a row can become its stray.

`OutboxRefinement` is `Spec => ImplementsOutbox`, from the two invariants and `HandInv`: what a worker has left to do
of its batch is a row that was enqueued, whose draft, while it is claimed, is still the committed row, and
the draft of a claimed row it is done with is an outcome the outbox could record for that row now (`Entry`).
A poll sets the draft to the row (`PollHand`); a mark makes it an entry (`MarkHand`); what the endpoint receives
and the clock only make more entries possible (`EntryKept`, `EntryTicked`); and nobody else touches a claimed
row. So a commit is a `Record` (`CommitRecords`), a POST an `Attempt` (`TryAttempts`), the end of a DELETE,
which has erased the rows one by one behind its locks, a `Delete` (`FinishDeletes`).

### The rate limiter

`RateLimiterProofs` proves, for any keys, requests, rate, burst and intervals that satisfy
`IdleAssumption`, every property of the `rate_limit` run: `TypeCorrect`, `RateKept`, `NoDebt`,
`Refusals`, `RefusalsFree`, `EvictionSafe`. The idea is that `tokens - lastRefill` moves only by what is
spent and by the cap, whatever the order of the stamps (`RefilledOK`). `Inv` is `BucketOK` for
each bucket, with `LagOK` (no stamp is older than `MaxLag`, which bounds how negative tokens
can be) and `SweepOK` (the cutoff is `Idle` ticks ago or more).

`EvictionSafe` (`Spec => []EvictedHasEarned`) adds `EarnedInv`. A bucket that is `Going`, evicted or found idle by
the sweep, is `Old` (its last refill lies `Idle` ticks before the present and, but for `MaxLag`, before every stamp
in flight) or has `Slack`: all it let through was earned `MaxLag` before its last refill. The first use of
an old bucket makes it one with slack (`DecidedSlack`): it fills up to the cap, and what the cap cuts off is worth
more than a burst; later uses leave the slack as it is. Either way what it has spent is earned by the
stamp of the call that stores the next bucket (`EarnedByNow`), and who holds it then has a stamp at most
`MaxLag` later, so it stays true. This is where `Idle >= 2 * Full + 3 * MaxLag` is used.

### The pool

`ConnPoolProofs` proves, for any pool size, batch size and finite sets of handlers of each kind,
`TypeCorrect`, `Sound` and `StandstillsEnd` (`TypeOK`, `PoolSound`, `DeadlocksHaveADeadline`). `HandlerOK`
says what a handler holds by its place in its script, `PoolOK` that connections in use are counted right and
only whoever needs one queues, `RowsOK` that a locked row belongs to a live transaction: the agent's to
a spend's, the deliveries to the worker's. What is given back goes to the queue as far
as it reaches (`GivenBack`), so nobody queues at a free connection. For `StandstillsEnd`, suppose
that no holder has a deadline. Then no spend or decision is in a transaction, so nobody has the agent's row,
and whoever holds a connection and is blocked is a DELETE that waits for the worker's rows; the
worker's transaction is then a holder too, and it can only be blocked in the queue (`NobodyTimed`).

### The directory

`DirectoryProofs` proves every property of the `directory` run for tables and numbers of calls of any
size: `TypeCorrect`, `AgentPerCall`, `OwnKey`, `FreshPolicy`, `WalkComplete`, `CountCoversPage`. `ProvInv` ties an
agent to the call that made it and the key it was stored with, and what a call has read to what
it wrote. For the pages, an order of a table is a bijection from places to rows, so a page is a slice
of it, and a row's place is at least the number of newer rows; newer rows are only
added while the walk goes on, unless it is `lost`, so what the walk has passed stays behind it (`WalkInv`).

### What is only model-checked

Of the passing runs' properties only liveness (`EveryCallAnswered`, `EverySettled`, `DeletesEnd`, `CallsEnd`)
has no theorem: it rests on fairness, which the prover cannot reach. The counterexamples of the
violation runs are TLC's as well.

## 5. Not modelled

Left out for good: the frontend, logging, JSON and header
handling, key hashing, UUID parsing, indexes and seed rows, the handlers' field
validation but for the positive amount. `meta`, `currency` and timestamps other than
the day are not in a row, since nothing here depends on them.

## 6. Plan

Models, in this order:

1. `WebhookDelivery`'s `Enqueue` tied to the commits of `Governor`, through `AtomicOutbox`.
2. `ConnPool` with two processes on one database.

Proofs: liveness stays with TLC. Left to prove are relations between components, once item 1 joins them: that a
delivery `Governor` commits is one `AtomicOutbox` enqueues; and, of the engine as it would be after a fix of
`Create`'s conflict, that it refines `AtomicLedger` without `ChargeAgain` (`ChargedExactly` is its core).
