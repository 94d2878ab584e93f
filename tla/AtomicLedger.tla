---------------------------- MODULE AtomicLedger ----------------------------
(***************************************************************************)
(* What the spend engine promises: each spend and each decision takes      *)
(* effect at once, on the tables as they are then. Governor, with its      *)
(* statements, locks and transactions, implements it.                      *)
(***************************************************************************)
EXTENDS Integers, Functions

CONSTANTS Users, Agents, OwnerOf, RequestIDs, Blank, Normal,
          Requests, PolicyChoices, CanApprove, InitBalance, InitPolicy,
          MaxDay,            \* bound on the number of midnights
          NoRow, NoPolicy

VARIABLES balance, agentStatus, policy, ledger, decisions, today

vars == <<balance, agentStatus, policy, ledger, decisions, today>>

SpentOn(a, d) ==
  LET approved == {rid \in RequestIDs : /\ ledger[rid] # NoRow
                                        /\ ledger[rid].agent = a
                                        /\ ledger[rid].status = "APPROVED"
                                        /\ ledger[rid].day = d}
  IN SumFunction([rid \in approved |-> ledger[rid].amount])

Allowed(vendor, vendors) == vendor # Blank /\ \E v \in vendors : Normal[v] = vendor

\* The rules, in the order in which they refuse.
Outcome(req, day) ==
  LET a == req.agent IN
  IF agentStatus[a] = "frozen" THEN <<"DENIED", "agent_frozen">>
  ELSE IF balance[OwnerOf[a]] < req.amount THEN <<"DENIED", "insufficient_balance">>
  ELSE IF policy[a] = NoPolicy THEN <<"DENIED", "no_policy">>
  ELSE IF req.amount + SpentOn(a, day) > policy[a].limit
    THEN <<"DENIED", "daily_limit_exceeded">>
  ELSE IF ~Allowed(Normal[req.vendor], policy[a].allowed)
    THEN <<"DENIED", "vendor_not_allowed">>
  ELSE IF policy[a].threshold > 0 /\ req.amount > policy[a].threshold
    THEN <<"PENDING_APPROVAL", "requires_approval">>
  ELSE <<"APPROVED", "approved">>

RowOf(req, outcome, day) ==
  [agent |-> req.agent, amount |-> req.amount, vendor |-> Normal[req.vendor],
   status |-> outcome[1], reason |-> outcome[2], day |-> day]

Charge(u, amount) == balance' = [balance EXCEPT ![u] = @ - amount]

Init ==
  /\ balance = InitBalance
  /\ agentStatus = [a \in Agents |-> "active"]
  /\ policy = InitPolicy
  /\ ledger = [rid \in RequestIDs |-> NoRow]
  /\ decisions = {}
  /\ today = 0

\* A spend is judged, entered and paid in one step. It may have begun on an
\* earlier day, which is then its row's.
Spend(req, day) ==
  LET outcome == Outcome(req, day) IN
  /\ ledger[req.rid] = NoRow
  /\ ledger' = [ledger EXCEPT ![req.rid] = RowOf(req, outcome, day)]
  /\ Charge(OwnerOf[req.agent], IF outcome[1] = "APPROVED" THEN req.amount ELSE 0)
  /\ UNCHANGED <<agentStatus, policy, decisions, today>>

\* The one step a careful reader would not expect: a copy of a request that has
\* a row already is charged once more (run double_charge).
ChargeAgain(req, day) ==
  /\ ledger[req.rid] # NoRow
  /\ Charge(OwnerOf[req.agent], req.amount)
  /\ Outcome(req, day)[1] = "APPROVED"
  /\ UNCHANGED <<agentStatus, policy, ledger, decisions, today>>

\* A person who may approve settles a pending row, once; approving pays for it.
Decide(approver, rid, verdict) ==
  LET row == ledger[rid] IN
  /\ approver \in CanApprove
  /\ row # NoRow /\ row.status = "PENDING_APPROVAL"
  /\ verdict = "APPROVED" => balance[OwnerOf[row.agent]] >= row.amount
  /\ ledger' = [ledger EXCEPT ![rid].status = verdict]
  /\ Charge(OwnerOf[row.agent], IF verdict = "APPROVED" THEN row.amount ELSE 0)
  /\ decisions' = decisions \cup {[rid |-> rid, approver |-> approver, status |-> verdict]}
  /\ UNCHANGED <<agentStatus, policy, today>>

ChangePolicy(a, pol) ==
  /\ policy' = [policy EXCEPT ![a] = pol]
  /\ UNCHANGED <<balance, agentStatus, ledger, decisions, today>>

ChangeStatus(a, s) ==
  /\ agentStatus' = [agentStatus EXCEPT ![a] = s]
  /\ UNCHANGED <<balance, policy, ledger, decisions, today>>

NextDay ==
  /\ today < MaxDay
  /\ today' = today + 1
  /\ UNCHANGED <<balance, agentStatus, policy, ledger, decisions>>

Next ==
  \/ \E req \in Requests, day \in 0..today : Spend(req, day) \/ ChargeAgain(req, day)
  \/ \E approver \in CanApprove, rid \in RequestIDs, verdict \in {"APPROVED", "DENIED"} :
       Decide(approver, rid, verdict)
  \/ \E a \in Agents : \/ \E pol \in PolicyChoices : ChangePolicy(a, pol)
                       \/ \E s \in {"active", "frozen"} : ChangeStatus(a, s)
  \/ NextDay

Spec == Init /\ [][Next]_vars
=============================================================================
