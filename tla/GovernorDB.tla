----------------------------- MODULE GovernorDB -----------------------------
(***************************************************************************)
(* The Postgres tables of the backend, the row locks its transactions take *)
(* and the state of one request handler (goroutine) with its transaction.  *)
(* SpendService and ApprovalService are built on it.                       *)
(*                                                                         *)
(* A transaction runs at READ COMMITTED: what it writes stays in tx[p]     *)
(* until its commit, and a read sees the tables as committed at the read.  *)
(* A handler serves one call: a client's retry is another handler with the *)
(* same request.                                                           *)
(***************************************************************************)
EXTENDS Integers, FiniteSets, Functions

CONSTANTS
  Users, Agents, OwnerOf,      \* agents.user_id, which nothing updates
  RequestIDs,                  \* one transactions row each (UNIQUE request_id)
  Vendors, Blank, Normal,      \* Normal[v] is ToLower(TrimSpace(v)); Blank is ""
  Requests,                    \* the /spend calls clients may send
  PolicyChoices,               \* the policies an owner may upsert
  Approvers, CanApprove,       \* users asked to decide; those with can_approve
  Hooks, HookAgent, HookEvents,
  InitBalance, InitPolicy, InitHooks,
  MaxCents,                    \* largest BIGINT / int64
  MaxDay,                      \* bound on the number of midnights
  Spenders, Deciders,          \* handlers of POST /spend and of a decision
  NoRow, NoPolicy, NoCall, NoResp

Handlers == Spenders \cup Deciders

FinalStatuses == {"APPROVED", "DENIED"}
Statuses      == FinalStatuses \cup {"PENDING_APPROVAL"}
Events        == {"transaction.approved", "transaction.denied"}
Reasons       == {"agent_frozen", "insufficient_balance", "no_policy",
                  "daily_limit_exceeded", "vendor_not_allowed",
                  "requires_approval", "approved"}

SpendCalls    == [agent: Agents, rid: RequestIDs, amount: Int, vendor: Vendors]
DecisionCalls == [approver: Approvers, rid: RequestIDs, verdict: FinalStatuses]
PolicyRows    == [limit: Int, allowed: SUBSET Vendors, threshold: Int]

ASSUME HandlersAssumption == Spenders \cap Deciders = {}
ASSUME OwnersAssumption   == OwnerOf \in [Agents -> Users]
\* SpendHandler.Spend answers a request with amount <= 0 before any query.
ASSUME RequestsAssumption == /\ Requests \subseteq SpendCalls
                             /\ \A req \in Requests : req.amount \in 1..MaxCents
ASSUME VendorsAssumption  == Normal \in [Vendors -> Vendors]
ASSUME PoliciesAssumption ==
  /\ PolicyChoices \subseteq PolicyRows
  /\ InitPolicy \in [Agents -> PolicyChoices \cup {NoPolicy}]
  /\ NoPolicy \notin PolicyRows
ASSUME BalanceAssumption  == /\ MaxCents \in Nat
                             /\ InitBalance \in [Users -> 0..MaxCents]
ASSUME HooksAssumption    == /\ HookAgent \in [Hooks -> Agents]
                             /\ HookEvents \in [Hooks -> SUBSET Events]
                             /\ InitHooks \subseteq Hooks
ASSUME DayAssumption      == MaxDay \in Nat

VARIABLES
  balance,      \* users.balance_cents
  agentStatus,  \* agents.status
  policy,       \* policies, at most one row per agent
  ledger,       \* transactions, keyed by request_id
  audit,        \* the approval actions
  hookState,    \* webhooks
  deliveries,   \* webhook_deliveries, with the payload's status
  today,        \* the day of the database's clock
  pc, call, resp,
  held,         \* the rows each handler's transaction has locked FOR UPDATE
  tx            \* what each handler's transaction has read and will write

dbVars   == <<balance, agentStatus, policy, ledger, audit, hookState, deliveries, today>>
procVars == <<pc, call, resp, held, tx>>
vars     == <<dbVars, procVars>>

Rows == [agent: Agents, amount: Nat, vendor: Vendors, status: Statuses,
         reason: Reasons, day: Nat]
ASSUME NoRowAssumption == NoRow \notin Rows

AgentRow(a)  == <<"agents", a>>
UserRow(u)   == <<"users", u>>
PolicyRow(a) == <<"policies", a>>
TxnRow(rid)  == <<"transactions", rid>>
LockableRows == {AgentRow(a) : a \in Agents} \cup {UserRow(u) : u \in Users}
                  \cup {PolicyRow(a) : a \in Agents} \cup {TxnRow(r) : r \in RequestIDs}

NoTx == [began  |-> 0,        \* now() of the transaction
         pol    |-> NoPolicy, \* the policy read
         row    |-> NoRow,    \* the Go variable txn
         status |-> "none",   \* the outcome decided by this handler
         fresh  |-> FALSE,    \* this transaction inserted row
         charge |-> 0,        \* what it deducts from the payer
         out    |-> {}]       \* the hooks it enqueues a delivery for

\* FOR UPDATE waits while another transaction has the row locked.
Unlocked(p, r) == \A q \in Handlers \ {p} : r \notin held[q]

\* A delivery's foreign keys hold its transaction and webhook rows FOR KEY SHARE.
SharesTxn(q, rid) == pc[q] = "commit" /\ tx[q].out # {} /\ call[q].rid = rid
SharesHook(q, h)  == pc[q] = "commit" /\ h \in tx[q].out

Goto(p, label) == pc' = [pc EXCEPT ![p] = label]
Hold(p, r)     == held' = [held EXCEPT ![p] = @ \cup {r}]

\* Return from the handler: the deferred tx.Rollback ends the transaction, if it
\* is still open, and its locks.
Return(p, answer) ==
  /\ Goto(p, "done")
  /\ resp' = [resp EXCEPT ![p] = answer]
  /\ held' = [held EXCEPT ![p] = {}]
  /\ tx'   = [tx EXCEPT ![p] = NoTx]

\* Convert the status of a row to the API's (lower case).
ApiStatus(s) == CASE s = "APPROVED" -> "approved"
                  [] s = "DENIED" -> "denied"
                  [] OTHER -> "pending_approval"

Answer(row) == [outcome |-> "ok", status |-> ApiStatus(row.status), reason |-> row.reason]
Refusal(why) == [outcome |-> "refused", status |-> "denied", reason |-> why]
InternalError == [outcome |-> "error", status |-> "denied", reason |-> "internal_error"]

EventOf(status) == IF status = "APPROVED" THEN "transaction.approved"
                                          ELSE "transaction.denied"

\* GetTodaySpendForAgent, for a transaction whose now() falls on day d.
ApprovedOn(a, d) ==
  {rid \in RequestIDs : /\ ledger[rid] # NoRow
                        /\ ledger[rid].agent = a
                        /\ ledger[rid].status = "APPROVED"
                        /\ ledger[rid].day = d}
SpentOn(a, d) == SumFunction([rid \in ApprovedOn(a, d) |-> ledger[rid].amount])

\* int64 arithmetic
Wrap(n) == ((n + MaxCents + 1) % (2 * (MaxCents + 1))) - (MaxCents + 1)

\* Any statement may fail: the connection is lost, the context's 5 seconds are
\* over, Postgres aborts a deadlock's victim, the process dies. Nothing is
\* committed and the client gets no answer but an error.
Fail(p) ==
  /\ pc[p] \notin {"idle", "done"}
  /\ Return(p, InternalError)
  /\ UNCHANGED <<dbVars, call>>
=============================================================================
