--------------------------- MODULE ApprovalService ---------------------------
(***************************************************************************)
(* ApprovalService.processDecision: a user approves or denies a            *)
(* transaction that is pending approval. The approvals repository, the     *)
(* transaction repository's GetByID, GetByIDForUpdate and UpdateApproval,  *)
(* and the CanApprove field of models.User are not in the source tree and  *)
(* are taken to do what their names and their uses here say.               *)
(***************************************************************************)
EXTENDS WebhookOutbox

IsPending(rid) == ledger[rid] # NoRow /\ ledger[rid].status = "PENDING_APPROVAL"

CheckApprover(p, approver, rid, verdict) ==
  /\ pc[p] = "idle"
  /\ call' = [call EXCEPT ![p] = [approver |-> approver, rid |-> rid, verdict |-> verdict]]
  /\ \/ /\ approver \notin CanApprove
        /\ Return(p, Refusal("no_permission"))
     \/ /\ approver \in CanApprove
        /\ Goto(p, "checkPending")
        /\ UNCHANGED <<resp, held, tx>>
  /\ UNCHANGED dbVars

CheckPending(p) ==
  /\ pc[p] = "checkPending"
  /\ \/ /\ ~IsPending(call[p].rid)
        /\ Return(p, Refusal("not_pending"))
     \/ /\ IsPending(call[p].rid)
        /\ Goto(p, "lockTxn")
        /\ UNCHANGED <<resp, held, tx>>
  /\ UNCHANGED <<dbVars, call>>

TxnUnlocked(p, rid) ==
  /\ Unlocked(p, TxnRow(rid))
  /\ \A q \in Handlers \ {p} : ~SharesTxn(q, rid)

\* Mutant: the status is not checked again under the lock.
LockTxnNoRecheck(p) ==
  /\ pc[p] = "lockTxn"
  /\ TxnUnlocked(p, call[p].rid)
  /\ Hold(p, TxnRow(call[p].rid))
  /\ tx' = [tx EXCEPT ![p].row = ledger[call[p].rid]]
  /\ Goto(p, IF call[p].verdict = "APPROVED" THEN "debit" ELSE "record")
  /\ UNCHANGED <<dbVars, call, resp>>

\* Lock the row and check its status again.
LockTxn(p) ==
  LET rid == call[p].rid IN
  /\ pc[p] = "lockTxn"
  /\ TxnUnlocked(p, rid)
  /\ \/ /\ ~IsPending(rid)
        /\ Return(p, Refusal("not_pending"))
     \/ /\ IsPending(rid)
        /\ Hold(p, TxnRow(rid))
        /\ tx' = [tx EXCEPT ![p].row = ledger[rid]]
        /\ Goto(p, IF call[p].verdict = "APPROVED" THEN "debit" ELSE "record")
        /\ UNCHANGED resp
  /\ UNCHANGED <<dbVars, call>>

Payer(p) == OwnerOf[tx[p].row.agent]

\* Mutant: the owner's balance is read without FOR UPDATE.
DebitOwnerUnlocked(p) ==
  /\ pc[p] = "debit"
  /\ \/ /\ balance[Payer(p)] < tx[p].row.amount
        /\ Return(p, Refusal("insufficient_balance"))
     \/ /\ balance[Payer(p)] >= tx[p].row.amount
        /\ tx' = [tx EXCEPT ![p].charge = tx[p].row.amount]
        /\ Goto(p, "record")
        /\ UNCHANGED <<held, resp>>
  /\ UNCHANGED <<dbVars, call>>

\* Mutant: the owner's row is locked but never charged.
DebitOwnerNoCharge(p) ==
  /\ pc[p] = "debit"
  /\ Unlocked(p, UserRow(Payer(p)))
  /\ Hold(p, UserRow(Payer(p)))
  /\ Goto(p, "record")
  /\ UNCHANGED <<dbVars, call, resp, tx>>

\* Lock the owner of the row's agent and charge him. Neither the daily limit nor
\* the agent's status is checked again.
DebitOwner(p) ==
  /\ pc[p] = "debit"
  /\ Unlocked(p, UserRow(Payer(p)))
  /\ \/ /\ balance[Payer(p)] < tx[p].row.amount
        /\ Return(p, Refusal("insufficient_balance"))
     \/ /\ balance[Payer(p)] >= tx[p].row.amount
        /\ Hold(p, UserRow(Payer(p)))
        /\ tx' = [tx EXCEPT ![p].charge = tx[p].row.amount]
        /\ Goto(p, "record")
        /\ UNCHANGED resp
  /\ UNCHANGED <<dbVars, call>>

\* UpdateApproval and the audit insert; txn keeps the status it was read with.
RecordDecision(p) ==
  /\ pc[p] = "record"
  /\ tx' = [tx EXCEPT ![p].status = call[p].verdict]
  /\ Goto(p, "findHooks")
  /\ UNCHANGED <<dbVars, call, resp, held>>

ApplyDecision(p) ==
  /\ ledger' = [ledger EXCEPT ![call[p].rid].status = tx[p].status]
  /\ balance' = [balance EXCEPT ![Payer(p)] = @ - tx[p].charge]
  /\ audit' = audit \cup {[by |-> p, rid |-> call[p].rid, approver |-> call[p].approver,
                           status |-> tx[p].status]}
  /\ deliveries' = deliveries \cup Outgoing(p)
  /\ UNCHANGED <<agentStatus, policy, hookState, today, call>>

CommitDecision(p) ==
  /\ pc[p] = "commit"
  /\ ApplyDecision(p)
  /\ Return(p, Answer([status |-> tx[p].status, reason |-> tx[p].row.reason]))

CommitDecisionUnacked(p) ==
  /\ pc[p] = "commit"
  /\ ApplyDecision(p)
  /\ Return(p, InternalError)

DecisionStep(p) ==
  \/ \E approver \in Approvers, rid \in RequestIDs, verdict \in FinalStatuses :
       CheckApprover(p, approver, rid, verdict)
  \/ CheckPending(p) \/ LockTxn(p) \/ DebitOwner(p) \/ RecordDecision(p)
  \/ FindHooks(p) \/ InsertDeliveries(p) \/ HookVanished(p)
  \/ CommitDecision(p)

DecisionFault(p) == CommitDecisionUnacked(p)

DecisionBlocked(p) ==
  \/ pc[p] = "lockTxn" /\ ~TxnUnlocked(p, call[p].rid)
  \/ pc[p] = "debit" /\ ~Unlocked(p, UserRow(Payer(p)))
  \/ pc[p] = "enqueue" /\ ~Unlocked(p, TxnRow(call[p].rid))
=============================================================================
