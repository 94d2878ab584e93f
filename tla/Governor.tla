------------------------------ MODULE Governor ------------------------------
(***************************************************************************)
(* The spend engine: concurrent /spend requests and approval decisions     *)
(* over the shared tables, with the owner's and the operator's own changes *)
(* to them.                                                                *)
(***************************************************************************)
EXTENDS SpendService, ApprovalService

(***************************************************************************)
(* Changes made while handlers run                                         *)
(***************************************************************************)

\* POST /policies. The UPDATE of an existing row waits for its row lock; an
\* INSERT waits, through its foreign key, for the lock of the agent's row. (Under
\* migration 001 alone the statement fails, for it leaves out raw_policy, which is
\* NOT NULL: the action is what it does once that column has a default, and what
\* an operator's own statement does.)
UpsertPolicy(a, pol) ==
  /\ pol # policy[a]
  /\ IF policy[a] = NoPolicy
       THEN \A p \in Handlers : AgentRow(a) \notin held[p]
       ELSE \A p \in Handlers : PolicyRow(a) \notin held[p]
  /\ policy' = [policy EXCEPT ![a] = pol]
  /\ UNCHANGED <<balance, agentStatus, ledger, audit, hookState, deliveries, today, procVars>>

\* The operator freezes or unfreezes an agent: no code of the backend does it.
SetAgentStatus(a, s) ==
  /\ agentStatus[a] # s
  /\ \A p \in Handlers : AgentRow(a) \notin held[p]
  /\ agentStatus' = [agentStatus EXCEPT ![a] = s]
  /\ UNCHANGED <<balance, policy, ledger, audit, hookState, deliveries, today, procVars>>

\* POST /webhooks: the foreign key to agents waits for the agent's row lock.
RegisterWebhook(h) ==
  /\ hookState[h] = "new"
  /\ \A p \in Handlers : AgentRow(HookAgent[h]) \notin held[p]
  /\ hookState' = [hookState EXCEPT ![h] = "active"]
  /\ UNCHANGED <<balance, agentStatus, policy, ledger, audit, deliveries, today, procVars>>

\* DELETE /webhooks/{id} waits for deliveries being inserted; ON DELETE CASCADE
\* takes the committed ones.
DeleteWebhook(h) ==
  /\ hookState[h] = "active"
  /\ \A p \in Handlers : ~SharesHook(p, h)
  /\ hookState' = [hookState EXCEPT ![h] = "deleted"]
  /\ deliveries' = {d \in deliveries : d.hook # h}
  /\ UNCHANGED <<balance, agentStatus, policy, ledger, audit, today, procVars>>

Midnight ==
  /\ today < MaxDay
  /\ today' = today + 1
  /\ UNCHANGED <<balance, agentStatus, policy, ledger, audit, hookState, deliveries, procVars>>

Environment ==
  \/ \E a \in Agents, pol \in PolicyChoices : UpsertPolicy(a, pol)
  \/ \E a \in Agents, s \in {"active", "frozen"} : SetAgentStatus(a, s)
  \/ \E h \in Hooks : RegisterWebhook(h) \/ DeleteWebhook(h)
  \/ Midnight

(***************************************************************************)
(* Specification                                                           *)
(***************************************************************************)

Init ==
  /\ balance = InitBalance
  /\ agentStatus = [a \in Agents |-> "active"]
  /\ policy = InitPolicy
  /\ ledger = [rid \in RequestIDs |-> NoRow]
  /\ audit = {}
  /\ hookState = [h \in Hooks |-> IF h \in InitHooks THEN "active" ELSE "new"]
  /\ deliveries = {}
  /\ today = 0
  /\ pc = [p \in Handlers |-> "idle"]
  /\ call = [p \in Handlers |-> NoCall]
  /\ resp = [p \in Handlers |-> NoResp]
  /\ held = [p \in Handlers |-> {}]
  /\ tx = [p \in Handlers |-> NoTx]

HandlerStep(p) == (p \in Spenders /\ SpendStep(p)) \/ (p \in Deciders /\ DecisionStep(p))
Fault(p) == (p \in Spenders /\ SpendFault(p)) \/ (p \in Deciders /\ DecisionFault(p))

Blocked(p) == (p \in Spenders /\ SpendBlocked(p)) \/ (p \in Deciders /\ DecisionBlocked(p))

\* Mutant: a transaction with no timeout.
NeverTimesOut(p) == FALSE

\* The context of the transaction expires after 5 seconds; a waiting statement is
\* cancelled then, if Postgres has not aborted it before.
TimeOut(p) == Blocked(p) /\ Fail(p)

Terminating == (\A p \in Handlers : pc[p] = "done") /\ UNCHANGED vars

Next ==
  \/ \E p \in Handlers : HandlerStep(p) \/ Fault(p) \/ Fail(p)
  \/ Environment
  \/ Terminating

Spec == Init /\ [][Next]_vars

\* A handler that was called keeps running, and its timeout fires: goroutines are
\* scheduled fairly. Clients, owners and operators need never act, and nothing
\* forces a fault.
FairSpec ==
  /\ Spec
  /\ \A p \in Handlers : /\ WF_vars(pc[p] # "idle" /\ HandlerStep(p))
                         /\ WF_vars(TimeOut(p))

(***************************************************************************)
(* Properties                                                              *)
(***************************************************************************)

Labels == {"idle", "check", "begin", "recheck", "lockAgent", "lockUser", "lockPolicy",
           "rules", "create", "deduct", "checkPending", "lockTxn", "debit", "record",
           "findHooks", "enqueue", "commit", "done"}

Answers == [outcome: {"ok", "refused", "error"},
            status: {"approved", "denied", "pending_approval"},
            reason: Reasons \cup {"internal_error", "no_permission", "not_pending"}]

TxRecords == [began: Nat, pol: PolicyRows \cup {NoPolicy}, row: Rows \cup {NoRow},
              status: Statuses \cup {"none"}, fresh: BOOLEAN, charge: Int,
              out: SUBSET Hooks]

\* Every table and handler holds what its columns and Go types allow; a balance is
\* never negative (CHECK (balance_cents >= 0) of migration 002 never fires).
TypeOK ==
  /\ balance \in [Users -> Nat]
  /\ agentStatus \in [Agents -> {"active", "frozen"}]
  /\ policy \in [Agents -> PolicyRows \cup {NoPolicy}]
  /\ ledger \in [RequestIDs -> Rows \cup {NoRow}]
  /\ audit \subseteq [by: Deciders, rid: RequestIDs, approver: Approvers, status: FinalStatuses]
  /\ hookState \in [Hooks -> {"new", "active", "deleted"}]
  /\ deliveries \subseteq [by: Handlers, hook: Hooks, rid: RequestIDs, event: Events,
                           status: {"approved", "denied", "pending_approval"}]
  /\ today \in Nat
  /\ pc \in [Handlers -> Labels]
  /\ call \in [Handlers -> SpendCalls \cup DecisionCalls \cup {NoCall}]
  /\ resp \in [Handlers -> Answers \cup {NoResp}]
  /\ held \in [Handlers -> SUBSET LockableRows]
  /\ tx \in [Handlers -> TxRecords]

ApprovedOf(u) ==
  {rid \in RequestIDs : /\ ledger[rid] # NoRow
                        /\ OwnerOf[ledger[rid].agent] = u
                        /\ ledger[rid].status = "APPROVED"}

\* What the ledger says was approved for a user's agents has been taken from his
\* balance: no interleaving of spends and decisions loses a deduction.
ApprovedIsPaid ==
  \A u \in Users : SumFunction([rid \in ApprovedOf(u) |-> ledger[rid].amount])
                     <= InitBalance[u] - balance[u]

\* The rules of ProcessSpend, evaluated at one instant on the committed tables.
RuleOutcome(row) ==
  LET a == row.agent IN
  IF agentStatus[a] = "frozen" THEN <<"DENIED", "agent_frozen">>
  ELSE IF balance[OwnerOf[a]] < row.amount THEN <<"DENIED", "insufficient_balance">>
  ELSE IF policy[a] = NoPolicy THEN <<"DENIED", "no_policy">>
  ELSE IF row.amount + SpentOn(a, row.day) > policy[a].limit
    THEN <<"DENIED", "daily_limit_exceeded">>
  ELSE IF ~IsVendorAllowed(row.vendor, policy[a].allowed)
    THEN <<"DENIED", "vendor_not_allowed">>
  ELSE IF policy[a].threshold > 0 /\ row.amount > policy[a].threshold
    THEN <<"PENDING_APPROVAL", "requires_approval">>
  ELSE <<"APPROVED", "approved">>

\* The locks make ProcessSpend serializable: a row enters the ledger with exactly
\* the outcome the rules give on the tables as they are at its commit, although it
\* was decided from reads made one at a time before.
DecisionCurrent ==
  \A rid \in RequestIDs :
    ledger[rid] = NoRow /\ ledger'[rid] # NoRow
      => <<ledger'[rid].status, ledger'[rid].reason>> = RuleOutcome(ledger'[rid])
DecisionCurrentAtCommit == [][DecisionCurrent]_vars

\* The ledger is append-only but for a pending row's status, decided once and for
\* all: neither a duplicate request nor a second decision rewrites a row.
RowStable(rid) ==
  ledger[rid] # NoRow =>
    \/ ledger'[rid] = ledger[rid]
    \/ /\ ledger[rid].status = "PENDING_APPROVAL"
       /\ \E s \in FinalStatuses : ledger'[rid] = [ledger[rid] EXCEPT !.status = s]
RowFinal == [][\A rid \in RequestIDs : RowStable(rid)]_vars

\* Of concurrent decisions on a row one wins: a row has at most one audit action,
\* and it says what the ledger says.
AuditMatchesLedger ==
  /\ \A x, y \in audit : x.rid = y.rid => x = y
  /\ \A x \in audit : ledger[x.rid] # NoRow /\ ledger[x.rid].status = x.status

Subscribed(h, row) ==
  HookAgent[h] = row.agent /\ EventOf(row.status) \in HookEvents[h]

\* A spend commits as approved only with a delivery for each hook subscribed then,
\* although the hooks are read outside its transaction.
ApprovalsAnnounced ==
  [][\A rid \in RequestIDs, h \in Hooks :
       /\ ledger[rid] = NoRow /\ ledger'[rid] # NoRow
       /\ ledger'[rid].status = "APPROVED"
       /\ hookState[h] = "active" /\ Subscribed(h, ledger'[rid])
       => \E d \in deliveries' : d.hook = h /\ d.rid = rid /\ d.event = "transaction.approved"]_vars

\* Every approved row, by the rules or by a person, has a delivery for each hook
\* that was subscribed all along: a decision may miss one registered meanwhile.
ApprovedNotified ==
  \A rid \in RequestIDs, h \in InitHooks :
    /\ ledger[rid] # NoRow /\ ledger[rid].status = "APPROVED"
    /\ hookState[h] = "active" /\ Subscribed(h, ledger[rid])
    => \E d \in deliveries : d.hook = h /\ d.rid = rid /\ d.event = "transaction.approved"

\* What a client was told survives: a spend answered approved or pending, and a
\* decision answered as taken, are in the ledger whatever failed around them.
AnswersAreDurable ==
  \A p \in Handlers :
    LET row == ledger[call[p].rid] IN
    resp[p] # NoResp /\ resp[p].outcome = "ok" =>
      /\ p \in Spenders /\ resp[p].status = "approved" =>
           row # NoRow /\ row.status = "APPROVED"
      /\ p \in Spenders /\ resp[p].status = "pending_approval" => row # NoRow
      /\ p \in Deciders => row # NoRow /\ ApiStatus(row.status) = resp[p].status

\* The int64 sum of the daily limit check never overflows: what was approved was
\* deducted, so the sum is within the owner's initial balance.
SumNeverWraps ==
  \A p \in Spenders :
    LET sum == call[p].amount + SpentOn(call[p].agent, tx[p].began) IN
    pc[p] = "rules" => Wrap(sum) = sum

\* No step takes an agent's approved spend of a day above the limit in force.
DailyLimitHolds ==
  [][\A a \in Agents, d \in 0..MaxDay :
       SpentOn(a, d)' > SpentOn(a, d) => policy[a] # NoPolicy /\ SpentOn(a, d)' <= policy[a].limit]_vars

\* Every call is answered: row locks taken in different orders by a duplicate
\* spend and a decision may deadlock, and then the timeouts break the wait.
EveryCallAnswered ==
  \A p \in Handlers : pc[p] # "idle" ~> pc[p] = "done"

\* Every behaviour of the handlers, their transactions and locks is one of the
\* atomic ledger: a commit is a spend or a decision that takes effect at once, and
\* every other step of a handler leaves the tables as they are.
Ledger == INSTANCE AtomicLedger WITH
            decisions <- {[rid |-> x.rid, approver |-> x.approver, status |-> x.status] : x \in audit}
ImplementsLedger == Ledger!Spec

(***************************************************************************)
(* What the documentation promises and the code does not keep              *)
(***************************************************************************)

RowsOf(u) == {rid \in RequestIDs : ledger[rid] # NoRow /\ OwnerOf[ledger[rid].agent] = u}

\* "Same request_id returns cached result, prevents double-deduction": what left a
\* user's balance is no more than his agents' rows come to, whatever their status,
\* each deducted once.
NoDoubleCharge ==
  \A u \in Users : InitBalance[u] - balance[u]
                     <= SumFunction([rid \in RowsOf(u) |-> ledger[rid].amount])

\* "Must return same result": two answers to the same request, neither an error nor
\* pending, are the same.
SameResult ==
  \A p, q \in Spenders :
    /\ resp[p] # NoResp /\ resp[p].outcome = "ok" /\ resp[p].status # "pending_approval"
    /\ resp[q] # NoResp /\ resp[q].outcome = "ok" /\ resp[q].status # "pending_approval"
    /\ call[p].rid = call[q].rid
    => resp[p] = resp[q]

\* transaction.approved is "Triggered when transaction is approved", and
\* transaction.denied "Triggered when transaction is denied": neither is sent for a
\* row that is pending or was decided otherwise.
EventMatchesStatus ==
  \A d \in deliveries :
    ledger[d.rid].status = (IF d.event = "transaction.approved" THEN "APPROVED" ELSE "DENIED")
=============================================================================
