---------------------------- MODULE SpendService ----------------------------
(***************************************************************************)
(* POST /spend: authentication, SpendHandler.Spend and                     *)
(* SpendService.ProcessSpend, one action per statement that reads or       *)
(* writes the database.                                                    *)
(***************************************************************************)
EXTENDS WebhookOutbox

IsVendorAllowed(vendor, allowed) ==
  vendor # Blank /\ \E v \in allowed : Normal[v] = vendor

\* The Go value txn as built before Create; created_at is the transaction's now().
NewRow(req, status, reason, day) ==
  [agent |-> req.agent, amount |-> req.amount, vendor |-> Normal[req.vendor],
   status |-> status, reason |-> reason, day |-> day]

\* AuthMiddleware reads the agent with no lock, and turns frozen ones away.
Authenticate(p, req) ==
  /\ pc[p] = "idle"
  /\ call' = [call EXCEPT ![p] = req]
  /\ \/ /\ agentStatus[req.agent] = "frozen"
        /\ Return(p, Refusal("agent_frozen"))
     \/ /\ agentStatus[req.agent] # "frozen"
        /\ Goto(p, "check")
        /\ UNCHANGED <<resp, held, tx>>
  /\ UNCHANGED dbVars

\* Both idempotency checks go through the pool: they see committed rows only, and
\* the second one, made after BEGIN, is still made before any lock is taken.
AnswerExisting(p) ==
  /\ pc[p] \in {"check", "recheck"}
  /\ ledger[call[p].rid] # NoRow
  /\ Return(p, Answer(ledger[call[p].rid]))
  /\ UNCHANGED <<dbVars, call>>

FastCheck(p) ==
  /\ pc[p] = "check"
  /\ ledger[call[p].rid] = NoRow
  /\ Goto(p, "begin")
  /\ UNCHANGED <<dbVars, call, resp, held, tx>>

Begin(p) ==
  /\ pc[p] = "begin"
  /\ tx' = [tx EXCEPT ![p].began = today]
  /\ Goto(p, "recheck")
  /\ UNCHANGED <<dbVars, call, resp, held>>

Recheck(p) ==
  /\ pc[p] = "recheck"
  /\ ledger[call[p].rid] = NoRow
  /\ Goto(p, "lockAgent")
  /\ UNCHANGED <<dbVars, call, resp, held, tx>>

\* Build txn with the outcome of the rules; Create is the next statement.
Settle(p, status, reason) ==
  /\ tx' = [tx EXCEPT ![p].row = NewRow(call[p], status, reason, tx[p].began),
                      ![p].status = status]
  /\ Goto(p, "create")

Deny(p, reason) == Settle(p, "DENIED", reason)

\* Mutant: the agent's status is read without FOR UPDATE.
LockAgentReadOnly(p) ==
  LET a == call[p].agent IN
  /\ pc[p] = "lockAgent"
  /\ Unlocked(p, AgentRow(a))
  /\ \/ agentStatus[a] = "frozen" /\ Deny(p, "agent_frozen")
     \/ agentStatus[a] # "frozen" /\ Goto(p, "lockUser") /\ UNCHANGED tx
  /\ UNCHANGED <<dbVars, call, resp, held>>

LockAgent(p) ==
  LET a == call[p].agent IN
  /\ pc[p] = "lockAgent"
  /\ Unlocked(p, AgentRow(a))
  /\ Hold(p, AgentRow(a))
  /\ \/ agentStatus[a] = "frozen" /\ Deny(p, "agent_frozen")
     \/ agentStatus[a] # "frozen" /\ Goto(p, "lockUser") /\ UNCHANGED tx
  /\ UNCHANGED <<dbVars, call, resp>>

\* Mutant: the balance is not compared with the amount here.
LockUserNoCheck(p) ==
  LET u == OwnerOf[call[p].agent] IN
  /\ pc[p] = "lockUser"
  /\ Unlocked(p, UserRow(u))
  /\ Hold(p, UserRow(u))
  /\ Goto(p, "lockPolicy")
  /\ UNCHANGED <<dbVars, call, resp, tx>>

LockUser(p) ==
  LET u == OwnerOf[call[p].agent] IN
  /\ pc[p] = "lockUser"
  /\ Unlocked(p, UserRow(u))
  /\ Hold(p, UserRow(u))
  /\ \/ balance[u] < call[p].amount /\ Deny(p, "insufficient_balance")
     \/ balance[u] >= call[p].amount /\ Goto(p, "lockPolicy") /\ UNCHANGED tx
  /\ UNCHANGED <<dbVars, call, resp>>

\* Mutant: the policy is read without FOR UPDATE.
LockPolicyReadOnly(p) ==
  LET a == call[p].agent IN
  /\ pc[p] = "lockPolicy"
  /\ \/ policy[a] = NoPolicy /\ Deny(p, "no_policy")
     \/ /\ policy[a] # NoPolicy
        /\ tx' = [tx EXCEPT ![p].pol = policy[a]]
        /\ Goto(p, "rules")
  /\ UNCHANGED <<dbVars, call, resp, held>>

LockPolicy(p) ==
  LET a == call[p].agent IN
  /\ pc[p] = "lockPolicy"
  /\ \/ /\ policy[a] = NoPolicy
        /\ Deny(p, "no_policy")
        /\ UNCHANGED held
     \/ /\ policy[a] # NoPolicy
        /\ Unlocked(p, PolicyRow(a))
        /\ Hold(p, PolicyRow(a))
        /\ tx' = [tx EXCEPT ![p].pol = policy[a]]
        /\ Goto(p, "rules")
  /\ UNCHANGED <<dbVars, call, resp>>

\* Mutant: each spend is held against the limit on its own.
OverLimitAlone(p) == call[p].amount > tx[p].pol.limit

\* Today's approved spend and this amount, in int64, against the daily limit.
OverLimit(p) ==
  Wrap(call[p].amount + SpentOn(call[p].agent, tx[p].began)) > tx[p].pol.limit

\* Sum today's spend, then the daily limit, the vendor list and the threshold.
EvaluateRules(p) ==
  LET req   == call[p]
      pol   == tx[p].pol
      over  == OverLimit(p)
      known == IsVendorAllowed(Normal[req.vendor], pol.allowed)
      large == pol.threshold > 0 /\ req.amount > pol.threshold IN
  /\ pc[p] = "rules"
  /\ \/ over /\ Deny(p, "daily_limit_exceeded")
     \/ ~over /\ ~known /\ Deny(p, "vendor_not_allowed")
     \/ ~over /\ known /\ large /\ Settle(p, "PENDING_APPROVAL", "requires_approval")
     \/ ~over /\ known /\ ~large /\ Settle(p, "APPROVED", "approved")
  /\ UNCHANGED <<dbVars, call, resp, held>>

\* What follows Create depends on the local status, not on the row in txn.
AfterCreate(p) == CASE tx[p].status = "APPROVED" -> "deduct"
                    [] tx[p].status = "DENIED" -> "findHooks"
                    [] OTHER -> "commit"

InsertUncommitted(q, rid) == tx[q].fresh /\ call[q].rid = rid

\* Mutant: ON CONFLICT DO UPDATE.
CreateTxnUpsert(p) ==
  /\ pc[p] = "create"
  /\ \A q \in Spenders \ {p} : ~InsertUncommitted(q, call[p].rid)
  /\ tx' = [tx EXCEPT ![p].fresh = TRUE]
  /\ Goto(p, AfterCreate(p))
  /\ UNCHANGED <<dbVars, call, resp, held>>

\* INSERT ... ON CONFLICT (request_id) DO NOTHING waits for another uncommitted
\* insert of the key; on a conflict the existing row is read INTO txn.
CreateTxn(p) ==
  LET rid == call[p].rid IN
  /\ pc[p] = "create"
  /\ \A q \in Spenders \ {p} : ~InsertUncommitted(q, rid)
  /\ \/ /\ ledger[rid] = NoRow
        /\ tx' = [tx EXCEPT ![p].fresh = TRUE]
     \/ /\ ledger[rid] # NoRow
        /\ tx' = [tx EXCEPT ![p].row = ledger[rid]]
  /\ Goto(p, AfterCreate(p))
  /\ UNCHANGED <<dbVars, call, resp, held>>

\* Mutant: a guard against charging a duplicate, the wrong way round.
DeductBalanceInverted(p) ==
  /\ pc[p] = "deduct"
  /\ balance[OwnerOf[call[p].agent]] >= call[p].amount
  /\ tx' = [tx EXCEPT ![p].charge = IF tx[p].fresh THEN 0 ELSE call[p].amount]
  /\ Goto(p, "findHooks")
  /\ UNCHANGED <<dbVars, call, resp, held>>

\* UPDATE users ... WHERE balance_cents >= amount; no row updated is an error.
DeductBalance(p) ==
  /\ pc[p] = "deduct"
  /\ balance[OwnerOf[call[p].agent]] >= call[p].amount
  /\ tx' = [tx EXCEPT ![p].charge = call[p].amount]
  /\ Goto(p, "findHooks")
  /\ UNCHANGED <<dbVars, call, resp, held>>

\* On a denial, the failure of a read through the pool is dropped and the
\* transaction goes on with no deliveries ...
SkipHooks(p) ==
  /\ pc[p] = "findHooks"
  /\ SwallowsErrors(p)
  /\ Goto(p, "commit")
  /\ UNCHANGED <<dbVars, call, resp, held, tx>>

\* ... and a failure of the transaction itself rolls the row back unnoticed.
LoseDenial(p) ==
  /\ pc[p] \in {"findHooks", "enqueue", "commit"}
  /\ SwallowsErrors(p)
  /\ Return(p, Answer(tx[p].row))
  /\ UNCHANGED <<dbVars, call>>

ApplySpend(p) ==
  /\ ledger' = IF tx[p].fresh THEN [ledger EXCEPT ![call[p].rid] = tx[p].row] ELSE ledger
  /\ balance' = [balance EXCEPT ![OwnerOf[call[p].agent]] = @ - tx[p].charge]
  /\ deliveries' = deliveries \cup Outgoing(p)
  /\ UNCHANGED <<agentStatus, policy, audit, hookState, today, call>>

CommitSpend(p) ==
  /\ pc[p] = "commit"
  /\ ApplySpend(p)
  /\ Return(p, Answer(tx[p].row))

\* The commit happened but its acknowledgement is lost: Commit returns an error.
CommitSpendUnacked(p) ==
  /\ pc[p] = "commit"
  /\ ~SwallowsErrors(p)
  /\ ApplySpend(p)
  /\ Return(p, InternalError)

SpendStep(p) ==
  \/ \E req \in Requests : Authenticate(p, req)
  \/ AnswerExisting(p) \/ FastCheck(p) \/ Begin(p) \/ Recheck(p)
  \/ LockAgent(p) \/ LockUser(p) \/ LockPolicy(p) \/ EvaluateRules(p)
  \/ CreateTxn(p) \/ DeductBalance(p)
  \/ FindHooks(p) \/ InsertDeliveries(p) \/ HookVanished(p)
  \/ CommitSpend(p)

SpendFault(p) == SkipHooks(p) \/ LoseDenial(p) \/ CommitSpendUnacked(p)

\* Waiting for a row lock, or for another transaction's insert of the same key.
SpendBlocked(p) ==
  \/ pc[p] = "lockAgent" /\ ~Unlocked(p, AgentRow(call[p].agent))
  \/ pc[p] = "lockUser" /\ ~Unlocked(p, UserRow(OwnerOf[call[p].agent]))
  \/ pc[p] = "lockPolicy" /\ ~Unlocked(p, PolicyRow(call[p].agent))
  \/ pc[p] = "create" /\ \E q \in Spenders \ {p} : InsertUncommitted(q, call[p].rid)
  \/ pc[p] = "enqueue" /\ ~Unlocked(p, TxnRow(call[p].rid))
=============================================================================
