---------------------------- MODULE LedgerProofs ----------------------------
(***************************************************************************)
(* Proofs about what a step may do to the ledger: a row is decided once,   *)
(* answers are borne out by it, approvals are announced, what it says was  *)
(* approved has been paid, and no sum over it overflows; and what would    *)
(* hold besides if no request overlapped with its own repetition.          *)
(***************************************************************************)
EXTENDS GovernorProofs, SumProofs

\* Of the steps of a handler only its commit changes the tables.
LEMMA HandlerStepKinds ==
  ASSUME NEW p \in Handlers, HandlerStep(p) \/ Fault(p) \/ Fail(p)
  PROVE  \/ UNCHANGED dbVars
         \/ p \in Spenders /\ (CommitSpend(p) \/ CommitSpendUnacked(p))
         \/ p \in Deciders /\ (CommitDecision(p) \/ CommitDecisionUnacked(p))
<1>1. CASE Fail(p)
  BY <1>1 DEF Fail
<1>2. CASE FindHooks(p) \/ InsertDeliveries(p) \/ HookVanished(p)
  BY <1>2 DEF FindHooks, InsertDeliveries, HookVanished
<1>3. CASE p \in Spenders /\ (SpendStep(p) \/ SpendFault(p))
  <2>1. CASE (\E req \in Requests : Authenticate(p, req)) \/ AnswerExisting(p)
             \/ FastCheck(p) \/ Begin(p) \/ Recheck(p)
    BY <2>1 DEF Authenticate, AnswerExisting, FastCheck, Begin, Recheck
  <2>2. CASE LockAgent(p) \/ LockUser(p) \/ LockPolicy(p) \/ EvaluateRules(p)
    BY <2>2 DEF LockAgent, LockUser, LockPolicy, EvaluateRules
  <2>3. CASE CreateTxn(p) \/ DeductBalance(p) \/ SkipHooks(p) \/ LoseDenial(p)
    BY <2>3 DEF CreateTxn, DeductBalance, SkipHooks, LoseDenial
  <2>. QED
    BY <1>2, <1>3, <2>1, <2>2, <2>3 DEF SpendStep, SpendFault
<1>4. CASE p \in Deciders /\ (DecisionStep(p) \/ DecisionFault(p))
  <2>1. CASE \E approver \in Approvers, rid \in RequestIDs, verdict \in FinalStatuses :
               CheckApprover(p, approver, rid, verdict)
    BY <2>1 DEF CheckApprover
  <2>2. CASE CheckPending(p) \/ LockTxn(p) \/ DebitOwner(p) \/ RecordDecision(p)
    BY <2>2 DEF CheckPending, LockTxn, DebitOwner, RecordDecision
  <2>. QED
    BY <1>2, <1>4, <2>1, <2>2 DEF DecisionStep, DecisionFault
<1>. QED
  BY <1>1, <1>3, <1>4 DEF HandlerStep, Fault

\* A spend's commit adds at most the row it inserted.
LEMMA SpendCommitRow ==
  ASSUME Inv, NEW p \in Spenders, CommitSpend(p) \/ CommitSpendUnacked(p),
         NEW rid \in RequestIDs, ledger'[rid] # ledger[rid]
  PROVE  /\ tx[p].fresh /\ rid = call[p].rid
         /\ ledger[rid] = NoRow /\ ledger'[rid] = tx[p].row /\ tx[p].row \in Rows
<1>1. /\ ledger' = IF tx[p].fresh THEN [ledger EXCEPT ![call[p].rid] = tx[p].row] ELSE ledger
      /\ pc[p] = "commit"
  BY DEF CommitSpend, CommitSpendUnacked, ApplySpend
<1>2. SpenderInv(p) /\ ledger \in [RequestIDs -> Rows \cup {NoRow}]
  BY DEF Inv, HandlerInv, TypeOK
<1>. QED
  BY <1>1, <1>2 DEF SpenderInv

\* A decision's commit changes the status of one pending row to a final one.
LEMMA DecisionCommitRow ==
  ASSUME Inv, NEW p \in Deciders, CommitDecision(p) \/ CommitDecisionUnacked(p),
         NEW rid \in RequestIDs, ledger'[rid] # ledger[rid]
  PROVE  /\ rid = call[p].rid /\ IsPending(rid) /\ ledger[rid] \in Rows
         /\ tx[p].status \in FinalStatuses /\ tx[p].status = call[p].verdict
         /\ tx[p].row = ledger[rid]
         /\ call[p].verdict = "APPROVED" => UserRow(Payer(p)) \in held[p]
         /\ ledger'[rid] = [ledger[rid] EXCEPT !.status = tx[p].status]
         /\ ledger'[rid].status = tx[p].status
         /\ ledger'[rid].agent = ledger[rid].agent
         /\ ledger'[rid].amount = ledger[rid].amount
         /\ ledger'[rid].day = ledger[rid].day
         /\ ledger'[rid] \in Rows
<1>1. /\ ledger' = [ledger EXCEPT ![call[p].rid].status = tx[p].status]
      /\ pc[p] = "commit"
  BY DEF CommitDecision, CommitDecisionUnacked, ApplyDecision
<1>2. /\ DeciderInv(p) /\ TypeOK /\ call[p].rid \in RequestIDs
      /\ call[p].verdict \in FinalStatuses
  BY <1>1, CallType DEF Inv, HandlerInv, Handlers
<1>3. /\ IsPending(call[p].rid) /\ tx[p].row = ledger[call[p].rid]
      /\ tx[p].status = call[p].verdict /\ tx[p].status \in Statuses
      /\ call[p].verdict = "APPROVED" => UserRow(Payer(p)) \in held[p]
  BY <1>1, <1>2 DEF DeciderInv, Statuses
<1>4. ledger[call[p].rid] \in Rows
  BY <1>2, <1>3 DEF IsPending, TypeOK
<1>5. /\ \A r \in RequestIDs \ {call[p].rid} : ledger'[r] = ledger[r]
      /\ ledger'[call[p].rid] = [ledger[call[p].rid] EXCEPT !.status = tx[p].status]
      /\ ledger'[call[p].rid].status = tx[p].status
      /\ ledger'[call[p].rid].agent = ledger[call[p].rid].agent
      /\ ledger'[call[p].rid].amount = ledger[call[p].rid].amount
      /\ ledger'[call[p].rid].day = ledger[call[p].rid].day
      /\ ledger'[call[p].rid] \in Rows
  BY <1>1, <1>2, <1>3, <1>4, DecidedRow, Zenon
<1>6. rid = call[p].rid
  BY <1>5
<1>. QED
  BY <1>2, <1>3, <1>4, <1>5, <1>6, Zenon

LEMMA EnvironmentLedger == Environment => UNCHANGED <<ledger, balance, procVars>>
BY DEF Environment, UpsertPolicy, SetAgentStatus, RegisterWebhook, DeleteWebhook, Midnight

LEMMA RowStep ==
  ASSUME Inv, [Next]_vars, NEW rid \in RequestIDs
  PROVE  RowStable(rid)
<1>1. ASSUME NEW p \in Handlers, HandlerStep(p) \/ Fault(p) \/ Fail(p)
      PROVE  RowStable(rid)
  <2>1. CASE UNCHANGED dbVars
    BY <2>1 DEF RowStable, dbVars
  <2>2. CASE p \in Spenders /\ (CommitSpend(p) \/ CommitSpendUnacked(p))
    BY <2>2, SpendCommitRow DEF RowStable
  <2>3. CASE p \in Deciders /\ (CommitDecision(p) \/ CommitDecisionUnacked(p))
    BY <2>3, DecisionCommitRow, Zenon DEF RowStable, IsPending
  <2>. QED
    BY <1>1, <2>1, <2>2, <2>3, HandlerStepKinds
<1>2. CASE Environment \/ UNCHANGED vars
  BY <1>2, EnvironmentLedger DEF RowStable, vars, dbVars
<1>. QED
  BY <1>1, <1>2 DEF Next, Terminating

\* A row, once in the ledger, changes at most once more, from pending to a final
\* status, and in nothing but its status: no duplicate request, no second decision and
\* no failure rewrites it.
THEOREM RowsFinal == Spec => RowFinal
<1>1. Inv /\ [Next]_vars => [\A rid \in RequestIDs : RowStable(rid)]_vars
  BY RowStep
<1>. QED
  BY <1>1, Invariance, PTL DEF Spec, RowFinal

LEMMA NewRowFields ==
  ASSUME NEW req, NEW s, NEW reason, NEW day
  PROVE  LET row == NewRow(req, s, reason, day) IN
         /\ row.agent = req.agent /\ row.amount = req.amount
         /\ row.vendor = Normal[req.vendor] /\ row.status = s
         /\ row.reason = reason /\ row.day = day
BY DEF NewRow

(***************************************************************************)
(* What a handler will do to the tables, and what it has told its client   *)
(***************************************************************************)

\* What an answer says of the row of its request.
Told(p, row, answer) ==
  answer.outcome = "ok" =>
    /\ p \in Spenders /\ answer.status = "approved" => row # NoRow /\ row.status = "APPROVED"
    /\ p \in Spenders /\ answer.status = "pending_approval" => row # NoRow
    /\ p \in Deciders => row # NoRow /\ ApiStatus(row.status) = answer.status

\* A decision's row is final besides, so that it stays what the client was told.
Durable(p) ==
  LET row == ledger[call[p].rid] IN
  resp[p] # NoResp => /\ pc[p] = "done"
                      /\ Told(p, row, resp[p])
                      /\ p \in Deciders /\ resp[p].outcome = "ok" => row.status \in FinalStatuses

\* A spend charges its amount if it approved, and nothing otherwise; and if another
\* row had its request id, that row is still there.
SpenderBook(p) ==
  LET row == ledger[call[p].rid] IN
  /\ tx[p].began \in 0..today
  /\ pc[p] = "create" \/ tx[p].fresh => /\ tx[p].row.status = tx[p].status
                                        /\ tx[p].row.agent = call[p].agent
                                        /\ tx[p].row.amount = call[p].amount
  /\ pc[p] = "deduct" => tx[p].status = "APPROVED"
  /\ pc[p] \in {"findHooks", "enqueue", "commit"} =>
       tx[p].charge = IF tx[p].status = "APPROVED" THEN call[p].amount ELSE 0
  /\ pc[p] \in {"deduct", "findHooks", "enqueue", "commit"} /\ ~tx[p].fresh =>
       /\ row # NoRow
       /\ tx[p].row.status = "APPROVED" => row.status = "APPROVED"

DeciderBook(p) ==
  /\ pc[p] \notin {"idle", "done"} => call[p].approver \in CanApprove
  /\ pc[p] \in {"record", "findHooks", "enqueue", "commit"} =>
       tx[p].charge = IF call[p].verdict = "APPROVED" THEN tx[p].row.amount ELSE 0

Book(p) == /\ p \in Spenders => SpenderBook(p)
           /\ p \in Deciders => DeciderBook(p)
           /\ Durable(p)

BookInv == \A p \in Handlers : Book(p)

LEMMA BookInit == Init => BookInv
<1> SUFFICES ASSUME Init, NEW p \in Handlers PROVE Book(p)
  BY DEF BookInv
<1>1. pc[p] = "idle" /\ tx[p] = NoTx /\ resp[p] = NoResp /\ today = 0
  BY DEF Init
<1>. QED
  BY <1>1 DEF Book, SpenderBook, DeciderBook, Durable, NoTx

\* A row stays, and a decided one stays as decided.
LEMMA RowKept ==
  ASSUME Inv, [Next]_vars, NEW rid \in RequestIDs, ledger[rid] # NoRow
  PROVE  /\ ledger'[rid] # NoRow
         /\ ledger[rid].status \in FinalStatuses => ledger'[rid].status = ledger[rid].status
<1>1. ledger[rid] \in Rows /\ ledger[rid].status \in Statuses
  BY DEF Inv, TypeOK, Rows
<1>2. CASE ledger'[rid] = ledger[rid]
  BY <1>2
<1>3. ASSUME ledger[rid].status = "PENDING_APPROVAL", NEW s \in FinalStatuses,
             ledger'[rid] = [ledger[rid] EXCEPT !.status = s]
      PROVE  ledger'[rid] # NoRow
  <2>1. ledger'[rid] \in Rows
    BY <1>1, <1>3 DEF Rows, Statuses
  <2>. QED
    BY <2>1, NoRowAssumption
<1>. QED
  BY <1>2, <1>3, RowStep DEF RowStable, FinalStatuses

\* What other handlers, owners and operators do takes nothing back from a handler.
LEMMA BookKept ==
  ASSUME Inv, [Next]_vars, NEW p \in Handlers, Book(p), today' >= today,
         UNCHANGED <<pc[p], call[p], resp[p], tx[p]>>
  PROVE  Book(p)'
<1> USE HandlersAssumption DEF Handlers
<1>1. TypeOK /\ today \in Nat /\ today' \in Nat
  BY NextInv DEF Inv, TypeOK
<1>2. pc[p] # "idle" => call[p].rid \in RequestIDs
  BY CallType
<1> DEFINE row == ledger[call[p].rid]
<1>3. pc[p] # "idle" /\ row # NoRow =>
        row' # NoRow /\ (row.status \in FinalStatuses => row'.status = row.status)
  BY <1>2, RowKept
<1>4. p \in Spenders => SpenderBook(p)'
  BY <1>1, <1>3 DEF Book, SpenderBook, FinalStatuses
<1>5. p \in Deciders => DeciderBook(p)'
  BY DEF Book, DeciderBook
<1>6. Durable(p)'
  BY <1>3 DEF Book, Durable, Told, FinalStatuses
<1>. QED
  BY <1>4, <1>5, <1>6 DEF Book

\* A call ends with an answer that the tables bear out.
LEMMA ReturnBook ==
  ASSUME Inv, NEW p \in Handlers, NEW answer, Return(p, answer), UNCHANGED today,
         Told(p, ledger'[call'[p].rid], answer),
         p \in Deciders /\ answer.outcome = "ok" =>
           ledger'[call'[p].rid].status \in FinalStatuses
  PROVE  Book(p)'
<1> USE HandlersAssumption DEF Handlers
<1>1. TypeOK /\ today \in Nat
  BY DEF Inv, TypeOK
<1>2. pc'[p] = "done" /\ tx'[p] = NoTx /\ resp'[p] = answer
  BY <1>1 DEF Return, Goto, TypeOK
<1>3. SpenderBook(p)' /\ DeciderBook(p)'
  BY <1>1, <1>2 DEF SpenderBook, DeciderBook, NoTx
<1>4. Durable(p)'
  BY <1>2 DEF Durable
<1>. QED
  BY <1>3, <1>4 DEF Book

LEMMA ErrorBook ==
  ASSUME Inv, NEW p \in Handlers, UNCHANGED today,
         Return(p, InternalError) \/ \E why : Return(p, Refusal(why))
  PROVE  Book(p)'
BY ReturnBook DEF Told, InternalError, Refusal

LEMMA ApiStatusNames ==
  \A s \in Statuses : /\ ApiStatus(s) = "approved" <=> s = "APPROVED"
                      /\ ApiStatus(s) = "pending_approval" <=> s = "PENDING_APPROVAL"
BY DEF ApiStatus, Statuses, FinalStatuses

\* A call that goes on has answered nothing.
LEMMA GoingOn ==
  ASSUME Inv, NEW p \in Handlers, Book(p), pc[p] # "done", UNCHANGED resp PROVE Durable(p)'
BY DEF Book, Durable

(***************************************************************************)
(* The steps of a spend                                                    *)
(***************************************************************************)

LEMMA StartBook ==
  ASSUME Inv, NEW p \in Spenders, Book(p),
         \/ \E req \in Requests : Authenticate(p, req)
         \/ AnswerExisting(p) \/ FastCheck(p) \/ Begin(p) \/ Recheck(p)
  PROVE  Book(p)'
<1> USE HandlersAssumption DEF Handlers
<1>1. TypeOK /\ SpenderInv(p) /\ SpenderBook(p) /\ UNCHANGED today /\ today \in Nat
  BY DEF Inv, TypeOK, HandlerInv, Book, dbVars, Authenticate, AnswerExisting, FastCheck, Begin,
         Recheck
<1>2. ASSUME NEW label \in {"check", "begin", "recheck", "lockAgent"}, Goto(p, label),
             UNCHANGED resp, pc[p] \in {"idle", "check", "begin", "recheck"},
             tx'[p].began \in 0..today, tx'[p].fresh = tx[p].fresh
      PROVE  Book(p)'
  <2>1. pc'[p] = label
    BY <1>1, <1>2 DEF Goto, TypeOK
  <2>2. SpenderBook(p)'
    BY <1>1, <1>2, <2>1 DEF SpenderBook, SpenderInv
  <2>. QED
    BY <1>2, <2>2, GoingOn DEF Book
<1>3. ASSUME NEW req \in Requests, Authenticate(p, req) PROVE Book(p)'
  BY <1>1, <1>2, <1>3, ErrorBook DEF Authenticate, SpenderBook
<1>4. CASE AnswerExisting(p)
  <2> DEFINE row == ledger[call[p].rid]
  <2>1. /\ Return(p, Answer(row)) /\ row # NoRow /\ UNCHANGED <<ledger, call>>
        /\ pc[p] # "idle"
    BY <1>4 DEF AnswerExisting, dbVars
  <2>2. row.status \in Statuses
    BY <1>1, <2>1, CallType DEF TypeOK, Rows
  <2>3. Told(p, row, Answer(row))
    BY <2>1, <2>2, ApiStatusNames DEF Told, Answer
  <2>. QED
    BY <1>1, <2>1, <2>3, ReturnBook
<1>5. CASE FastCheck(p) \/ Recheck(p)
  BY <1>1, <1>2, <1>5 DEF FastCheck, Recheck, SpenderBook
<1>6. CASE Begin(p)
  <2>1. tx'[p].began = today /\ tx'[p].fresh = tx[p].fresh
    BY <1>1, <1>6, SetBegan DEF Begin
  <2>. QED
    BY <1>1, <1>2, <1>6, <2>1 DEF Begin
<1>. QED
  BY <1>3, <1>4, <1>5, <1>6

LEMMA RulesBook ==
  ASSUME Inv, NEW p \in Spenders, Book(p),
         LockAgent(p) \/ LockUser(p) \/ LockPolicy(p) \/ EvaluateRules(p)
  PROVE  Book(p)'
<1> USE HandlersAssumption DEF Handlers
<1>1. /\ TypeOK /\ SpenderInv(p) /\ SpenderBook(p) /\ UNCHANGED <<today, call, resp>>
      /\ pc[p] \in {"lockAgent", "lockUser", "lockPolicy", "rules"}
  BY DEF Inv, HandlerInv, Book, dbVars, LockAgent, LockUser, LockPolicy, EvaluateRules
<1>2. CASE \E s \in Statuses, reason \in Reasons : Settle(p, s, reason)
  <2>1. PICK s \in Statuses, reason \in Reasons : Settle(p, s, reason)
    BY <1>2
  <2>2. NewRow(call[p], s, reason, tx[p].began) \in Rows
    BY <1>1, NewRowType DEF SpenderInv
  <2>3. /\ tx'[p].row.status = s /\ tx'[p].status = s /\ tx'[p].began = tx[p].began
        /\ tx'[p].row.agent = call[p].agent /\ tx'[p].row.amount = call[p].amount
        /\ tx'[p].fresh = tx[p].fresh
    BY <1>1, <2>1, <2>2, SettleTx, NewRowFields
  <2>4. pc'[p] = "create"
    BY <1>1, <2>1 DEF Settle, Goto, TypeOK
  <2>5. SpenderBook(p)'
    BY <1>1, <2>3, <2>4 DEF SpenderBook, SpenderInv
  <2>. QED
    BY <1>1, <2>5, GoingOn DEF Book
<1>3. CASE /\ Goto(p, "lockUser") \/ Goto(p, "lockPolicy") \/ Goto(p, "rules")
           /\ tx'[p].began = tx[p].began /\ tx'[p].fresh = tx[p].fresh
  <2>1. pc'[p] \in {"lockUser", "lockPolicy", "rules"}
    BY <1>1, <1>3 DEF Goto, TypeOK
  <2>2. SpenderBook(p)'
    BY <1>1, <1>3, <2>1 DEF SpenderBook, SpenderInv
  <2>. QED
    BY <1>1, <2>2, GoingOn DEF Book
<1>4. /\ "DENIED" \in Statuses /\ "PENDING_APPROVAL" \in Statuses /\ "APPROVED" \in Statuses
      /\ {"agent_frozen", "insufficient_balance", "no_policy", "daily_limit_exceeded",
          "vendor_not_allowed", "requires_approval", "approved"} \subseteq Reasons
  BY DEF Statuses, FinalStatuses, Reasons
<1>5. CASE LockAgent(p) \/ LockUser(p) \/ EvaluateRules(p)
  BY <1>2, <1>3, <1>4, <1>5 DEF LockAgent, LockUser, EvaluateRules, Deny
<1>6. CASE LockPolicy(p)
  <2>1. CASE Deny(p, "no_policy")
    BY <1>2, <1>4, <2>1 DEF Deny
  <2>2. CASE policy[call[p].agent] # NoPolicy /\ Goto(p, "rules")
             /\ tx' = [tx EXCEPT ![p].pol = policy[call[p].agent]]
    <3>1. policy[call[p].agent] \in PolicyRows
      BY <1>1, <2>2, CallType DEF TypeOK
    <3>. QED
      BY <1>1, <1>3, <2>2, <3>1, SetPolicy
  <2>. QED
    BY <1>6, <2>1, <2>2 DEF LockPolicy
<1>. QED
  BY <1>5, <1>6 DEF LockAgent, LockUser, LockPolicy, EvaluateRules

LEMMA WriteBook ==
  ASSUME Inv, NEW p \in Spenders, Book(p), CreateTxn(p) \/ DeductBalance(p)
  PROVE  Book(p)'
<1> USE HandlersAssumption DEF Handlers
<1>1. /\ TypeOK /\ SpenderInv(p) /\ SpenderBook(p) /\ UNCHANGED <<today, ledger, call, resp>>
      /\ pc[p] \in {"create", "deduct"} /\ call[p].rid \in RequestIDs
  BY CallType DEF Inv, HandlerInv, Book, dbVars, CreateTxn, DeductBalance
<1>2. CASE CreateTxn(p)
  <2> DEFINE row == ledger[call[p].rid]
  <2>1. /\ pc[p] = "create" /\ pc'[p] = AfterCreate(p)
        /\ tx[p].charge = 0 /\ ~tx[p].fresh /\ tx[p].status \in Statuses
    BY <1>1, <1>2 DEF CreateTxn, SpenderInv, Goto, TypeOK
  <2>2. /\ tx'[p].began = tx[p].began /\ tx'[p].status = tx[p].status
        /\ tx'[p].charge = tx[p].charge
        /\ \/ tx'[p].fresh /\ tx'[p].row = tx[p].row
           \/ ~tx'[p].fresh /\ row # NoRow /\ tx'[p].row = row
    <3>1. CASE tx' = [tx EXCEPT ![p].fresh = TRUE]
      BY <1>1, <3>1, SetFresh
    <3>2. CASE row # NoRow /\ tx' = [tx EXCEPT ![p].row = row]
      <4>1. row \in Rows
        BY <1>1, <3>2 DEF TypeOK
      <4>. QED
        BY <1>1, <2>1, <3>2, <4>1, SetRow
    <3>. QED
      BY <1>2, <3>1, <3>2 DEF CreateTxn
  <2>3. /\ tx[p].status = "APPROVED" => AfterCreate(p) = "deduct"
        /\ tx[p].status = "DENIED" => AfterCreate(p) = "findHooks"
        /\ tx[p].status = "PENDING_APPROVAL" => AfterCreate(p) = "commit"
    BY DEF AfterCreate
  <2>4. SpenderBook(p)'
    BY <1>1, <2>1, <2>2, <2>3 DEF SpenderBook, Statuses, FinalStatuses
  <2>. QED
    BY <1>1, <2>4, GoingOn DEF Book
<1>3. CASE DeductBalance(p)
  <2>1. pc[p] = "deduct" /\ pc'[p] = "findHooks"
    BY <1>1, <1>3 DEF DeductBalance, Goto, TypeOK
  <2>2. call[p].amount \in Int
    BY <2>1, CallType
  <2>3. /\ tx'[p].began = tx[p].began /\ tx'[p].row = tx[p].row
        /\ tx'[p].status = tx[p].status /\ tx'[p].fresh = tx[p].fresh
        /\ tx'[p].charge = call[p].amount
    BY <1>1, <1>3, <2>2, SetCharge, Zenon DEF DeductBalance
  <2>4. SpenderBook(p)'
    BY <1>1, <2>1, <2>3 DEF SpenderBook
  <2>. QED
    BY <1>1, <2>4, GoingOn DEF Book
<1>. QED
  BY <1>2, <1>3

\* What a spend answers from is in the ledger already, or will be by its commit; a
\* denial that is lost has told the client nothing that matters.
LEMMA SpendTold ==
  ASSUME Inv, NEW p \in Spenders, SpenderBook(p), pc[p] \in {"findHooks", "enqueue", "commit"}
  PROVE  /\ SwallowsErrors(p) \/ ~tx[p].fresh =>
              Told(p, ledger[call[p].rid], Answer(tx[p].row))
         /\ Told(p, tx[p].row, Answer(tx[p].row))
<1> USE HandlersAssumption
<1>1. tx[p].row \in Rows /\ tx[p].row.status \in Statuses
  BY CarriedRow DEF Handlers, Rows
<1>2. tx[p].row # NoRow
  BY <1>1, NoRowAssumption
<1>3. tx[p].fresh => tx[p].row.status = tx[p].status
  BY DEF SpenderBook
<1>4. ~tx[p].fresh => /\ ledger[call[p].rid] # NoRow
                      /\ tx[p].row.status = "APPROVED" => ledger[call[p].rid].status = "APPROVED"
  BY DEF SpenderBook
<1>5. /\ Answer(tx[p].row).status = "approved" => tx[p].row.status = "APPROVED"
      /\ Answer(tx[p].row).status = "pending_approval" => tx[p].row.status = "PENDING_APPROVAL"
  BY <1>1, ApiStatusNames DEF Answer
<1>. QED
  BY <1>2, <1>3, <1>4, <1>5 DEF Told, SwallowsErrors

LEMMA OutboxBook ==
  ASSUME Inv, NEW p \in Handlers, Book(p),
         FindHooks(p) \/ InsertDeliveries(p) \/ SkipHooks(p) \/ HookVanished(p) \/ LoseDenial(p)
  PROVE  Book(p)'
<1> USE HandlersAssumption DEF Handlers
<1>1. /\ TypeOK /\ HInv(p) /\ UNCHANGED <<today, ledger, call>>
      /\ pc[p] \in {"findHooks", "enqueue", "commit"}
  BY DEF Inv, HandlerInv, HInv, dbVars, FindHooks, InsertDeliveries, SkipHooks, HookVanished,
         LoseDenial
<1>2. ASSUME NEW label \in {"enqueue", "commit"}, Goto(p, label), UNCHANGED resp,
             tx'[p].began = tx[p].began, tx'[p].row = tx[p].row,
             tx'[p].status = tx[p].status, tx'[p].fresh = tx[p].fresh,
             tx'[p].charge = tx[p].charge
      PROVE  Book(p)'
  <2>1. pc'[p] = label
    BY <1>1, <1>2 DEF Goto, TypeOK
  <2>2. p \in Spenders => SpenderBook(p)'
    BY <1>1, <1>2, <2>1 DEF Book, SpenderBook
  <2>3. p \in Deciders => DeciderBook(p)'
    BY <1>1, <1>2, <2>1 DEF Book, DeciderBook
  <2>. QED
    BY <1>1, <1>2, <2>2, <2>3, GoingOn DEF Book
<1>3. CASE FindHooks(p)
  <2>1. Subscribers(tx[p].row.agent, EventOf(tx[p].status)) \in SUBSET Hooks
    BY DEF Subscribers
  <2>2. /\ tx'[p].began = tx[p].began /\ tx'[p].row = tx[p].row
        /\ tx'[p].status = tx[p].status /\ tx'[p].fresh = tx[p].fresh
        /\ tx'[p].charge = tx[p].charge
    BY <1>1, <1>3, <2>1, SetOut DEF FindHooks
  <2>. QED
    BY <1>2, <1>3, <2>2 DEF FindHooks
<1>4. CASE InsertDeliveries(p) \/ SkipHooks(p)
  BY <1>2, <1>4 DEF InsertDeliveries, SkipHooks
<1>5. CASE SwallowsErrors(p) /\ Return(p, Answer(tx[p].row))
  <2>1. p \in Spenders /\ Told(p, ledger[call[p].rid], Answer(tx[p].row))
    BY <1>1, <1>5, SpendTold DEF SwallowsErrors, Book
  <2>. QED
    BY <1>1, <1>5, <2>1, ReturnBook
<1>6. CASE Return(p, InternalError)
  BY <1>1, <1>6, ErrorBook
<1>. QED
  BY <1>3, <1>4, <1>5, <1>6 DEF HookVanished, LoseDenial

LEMMA CommitSpendBook ==
  ASSUME Inv, NEW p \in Spenders, Book(p), CommitSpend(p) \/ CommitSpendUnacked(p)
  PROVE  Book(p)'
<1> USE HandlersAssumption DEF Handlers
<1>1. /\ pc[p] = "commit" /\ TypeOK /\ SpenderBook(p) /\ UNCHANGED <<today, call>>
      /\ ledger' = IF tx[p].fresh THEN [ledger EXCEPT ![call[p].rid] = tx[p].row] ELSE ledger
      /\ Return(p, Answer(tx[p].row)) \/ Return(p, InternalError)
  BY DEF CommitSpend, CommitSpendUnacked, ApplySpend, Book, Inv
<1>2. ledger'[call[p].rid] = IF tx[p].fresh THEN tx[p].row ELSE ledger[call[p].rid]
  BY <1>1, CallType DEF TypeOK
<1>3. Told(p, ledger'[call[p].rid], Answer(tx[p].row))
  BY <1>1, <1>2, SpendTold
<1>. QED
  BY <1>1, <1>3, ReturnBook, ErrorBook

(***************************************************************************)
(* The steps of a decision                                                 *)
(***************************************************************************)

LEMMA DecisionBook ==
  ASSUME Inv, NEW p \in Deciders, Book(p),
         \/ \E approver \in Approvers, rid \in RequestIDs, verdict \in FinalStatuses :
              CheckApprover(p, approver, rid, verdict)
         \/ CheckPending(p) \/ LockTxn(p) \/ DebitOwner(p) \/ RecordDecision(p)
  PROVE  Book(p)'
<1> USE HandlersAssumption DEF Handlers
<1>1. TypeOK /\ DeciderInv(p) /\ DeciderBook(p) /\ UNCHANGED today /\ p \notin Spenders
  BY DEF Inv, HandlerInv, Book, dbVars, CheckApprover, CheckPending, LockTxn, DebitOwner,
         RecordDecision
<1>2. ASSUME NEW label \in DecisionLabels, Goto(p, label), UNCHANGED resp, pc[p] # "done",
             call'[p].approver \in CanApprove,
             label \in {"record", "findHooks", "enqueue", "commit"} =>
               tx'[p].charge = IF call'[p].verdict = "APPROVED" THEN tx'[p].row.amount ELSE 0
      PROVE  Book(p)'
  <2>1. pc'[p] = label
    BY <1>1, <1>2 DEF Goto, TypeOK
  <2>. QED
    BY <1>1, <1>2, <2>1, GoingOn DEF Book, DeciderBook
<1>3. ASSUME NEW approver \in Approvers, NEW rid \in RequestIDs,
             NEW verdict \in FinalStatuses, CheckApprover(p, approver, rid, verdict)
      PROVE  Book(p)'
  <2>1. call'[p].approver = approver /\ pc[p] = "idle"
    BY <1>1, <1>3 DEF CheckApprover, TypeOK
  <2>. QED
    BY <1>1, <1>2, <1>3, <2>1, ErrorBook DEF CheckApprover, DecisionLabels
<1>4. ASSUME pc[p] \in {"checkPending", "lockTxn", "debit", "record"}, UNCHANGED call
      PROVE  call'[p].approver \in CanApprove /\ call[p].verdict \in FinalStatuses
  BY <1>1, <1>4, CallType DEF DeciderBook
<1>5. CASE CheckPending(p)
  BY <1>1, <1>2, <1>4, <1>5, ErrorBook DEF CheckPending, DecisionLabels
<1>6. CASE LockTxn(p)
  <2>1. CASE Return(p, Refusal("not_pending"))
    BY <1>1, <2>1, ErrorBook
  <2>2. CASE /\ IsPending(call[p].rid) /\ UNCHANGED resp
             /\ tx' = [tx EXCEPT ![p].row = ledger[call[p].rid]]
             /\ Goto(p, IF call[p].verdict = "APPROVED" THEN "debit" ELSE "record")
    <3>1. ledger[call[p].rid] \in Rows
      BY <1>1, <1>6, <2>2, CallType DEF LockTxn, IsPending, TypeOK
    <3>2. tx'[p].charge = tx[p].charge
      BY <1>1, <2>2, <3>1, SetRow
    <3>3. tx[p].charge = 0 /\ pc[p] = "lockTxn" /\ UNCHANGED call
      BY <1>1, <1>6 DEF LockTxn, DeciderInv
    <3>. QED
      BY <1>2, <1>4, <2>2, <3>2, <3>3 DEF DecisionLabels
  <2>. QED
    BY <1>6, <2>1, <2>2 DEF LockTxn
<1>7. CASE DebitOwner(p)
  <2>1. CASE Return(p, Refusal("insufficient_balance"))
    BY <1>1, <2>1, ErrorBook
  <2>2. CASE /\ tx' = [tx EXCEPT ![p].charge = tx[p].row.amount]
             /\ Goto(p, "record") /\ UNCHANGED resp
    <3>1. tx[p].row.amount \in Int
      BY <1>7, PayerType DEF DebitOwner
    <3>2. tx'[p].charge = tx[p].row.amount /\ tx'[p].row = tx[p].row
      BY <1>1, <2>2, <3>1, SetCharge, Zenon
    <3>3. call[p].verdict = "APPROVED" /\ pc[p] = "debit" /\ UNCHANGED call
      BY <1>1, <1>7 DEF DebitOwner, DeciderInv
    <3>. QED
      BY <1>2, <1>4, <2>2, <3>2, <3>3 DEF DecisionLabels
  <2>. QED
    BY <1>7, <2>1, <2>2 DEF DebitOwner
<1>8. CASE RecordDecision(p)
  <2>1. call[p].verdict \in Statuses
    BY <1>8, CallType DEF RecordDecision, Statuses
  <2>2. tx'[p].charge = tx[p].charge /\ tx'[p].row = tx[p].row
    BY <1>1, <1>8, <2>1, SetStatus, Zenon DEF RecordDecision
  <2>3. tx[p].charge = IF call[p].verdict = "APPROVED" THEN tx[p].row.amount ELSE 0
    BY <1>1, <1>8 DEF DeciderBook, RecordDecision
  <2>4. /\ pc[p] = "record" /\ Goto(p, "findHooks") /\ UNCHANGED <<call, resp>>
    BY <1>8 DEF RecordDecision
  <2>. QED
    BY <1>2, <1>4, <2>2, <2>3, <2>4 DEF DecisionLabels
<1>. QED
  BY <1>3, <1>5, <1>6, <1>7, <1>8

LEMMA CommitDecisionBook ==
  ASSUME Inv, NEW p \in Deciders, Book(p), CommitDecision(p) \/ CommitDecisionUnacked(p)
  PROVE  Book(p)'
<1> USE HandlersAssumption DEF Handlers
<1> DEFINE answer == Answer([status |-> tx[p].status, reason |-> tx[p].row.reason])
<1>1. /\ pc[p] = "commit" /\ TypeOK /\ UNCHANGED <<today, call>> /\ p \notin Spenders
      /\ Return(p, answer) \/ Return(p, InternalError)
  BY DEF CommitDecision, CommitDecisionUnacked, ApplyDecision, Inv
<1>2. /\ call[p].rid \in RequestIDs /\ IsPending(call[p].rid) /\ ledger[call[p].rid] \in Rows
      /\ tx[p].status \in FinalStatuses
  BY <1>1, CallType DEF Inv, HandlerInv, DeciderInv, IsPending, TypeOK
<1>3. /\ ledger'[call[p].rid] \in Rows /\ ledger'[call[p].rid].status = tx[p].status
  <2>1. ledger' = [ledger EXCEPT ![call[p].rid].status = tx[p].status] /\ tx[p].status \in Statuses
    BY <1>2 DEF CommitDecision, CommitDecisionUnacked, ApplyDecision, Statuses
  <2>. QED
    BY <1>1, <1>2, <2>1, DecidedRow, Zenon
<1>4. Told(p, ledger'[call[p].rid], answer)
  BY <1>1, <1>3, NoRowAssumption DEF Told, Answer
<1> HIDE DEF answer
<1>. QED
  BY <1>1, <1>2, <1>3, <1>4, ReturnBook, ErrorBook

\* A handler's step changes no other handler, and not the clock.
LEMMA OthersFrame ==
  ASSUME TypeOK, NEW p \in Handlers, HandlerStep(p) \/ Fault(p) \/ Fail(p),
         NEW q \in Handlers \ {p}
  PROVE  UNCHANGED <<pc[q], call[q], resp[q], tx[q]>> /\ today' = today
<1>1. /\ \A label : Goto(p, label) => pc'[q] = pc[q]
      /\ \A answer : Return(p, answer) => UNCHANGED <<pc[q], resp[q], tx[q]>>
  BY DEF Goto, Return, TypeOK
<1>2. CASE Fail(p)
  BY <1>1, <1>2 DEF Fail, dbVars
<1>3. CASE FindHooks(p) \/ InsertDeliveries(p) \/ HookVanished(p)
  BY <1>1, <1>3 DEF FindHooks, InsertDeliveries, HookVanished, dbVars, TypeOK
<1>4. CASE p \in Spenders /\ (SpendStep(p) \/ SpendFault(p))
  <2>1. CASE (\E req \in Requests : Authenticate(p, req)) \/ AnswerExisting(p)
             \/ FastCheck(p) \/ Begin(p) \/ Recheck(p)
    BY <1>1, <2>1 DEF Authenticate, AnswerExisting, FastCheck, Begin, Recheck, dbVars, TypeOK
  <2>2. CASE LockAgent(p) \/ LockUser(p) \/ LockPolicy(p) \/ EvaluateRules(p)
    <3>1. \A s, reason : Settle(p, s, reason) => UNCHANGED <<pc[q], tx[q]>>
      BY <1>1 DEF Settle, TypeOK
    <3>. QED
      BY <1>1, <2>2, <3>1
         DEF LockAgent, LockUser, LockPolicy, EvaluateRules, Deny, dbVars, TypeOK
  <2>3. CASE CreateTxn(p) \/ DeductBalance(p) \/ SkipHooks(p) \/ LoseDenial(p)
    BY <1>1, <2>3 DEF CreateTxn, DeductBalance, SkipHooks, LoseDenial, dbVars, TypeOK
  <2>4. CASE CommitSpend(p) \/ CommitSpendUnacked(p)
    BY <1>1, <2>4 DEF CommitSpend, CommitSpendUnacked, ApplySpend
  <2>. QED
    BY <1>3, <1>4, <2>1, <2>2, <2>3, <2>4 DEF SpendStep, SpendFault
<1>5. CASE p \in Deciders /\ (DecisionStep(p) \/ DecisionFault(p))
  <2>1. CASE \E approver \in Approvers, rid \in RequestIDs, verdict \in FinalStatuses :
               CheckApprover(p, approver, rid, verdict)
    BY <1>1, <2>1 DEF CheckApprover, dbVars, TypeOK
  <2>2. CASE CheckPending(p) \/ LockTxn(p) \/ DebitOwner(p) \/ RecordDecision(p)
    BY <1>1, <2>2 DEF CheckPending, LockTxn, DebitOwner, RecordDecision, dbVars, TypeOK
  <2>3. CASE CommitDecision(p) \/ CommitDecisionUnacked(p)
    BY <1>1, <2>3 DEF CommitDecision, CommitDecisionUnacked, ApplyDecision
  <2>. QED
    BY <1>3, <1>5, <2>1, <2>2, <2>3 DEF DecisionStep, DecisionFault
<1>. QED
  BY <1>2, <1>4, <1>5 DEF HandlerStep, Fault

LEMMA BookNext == Inv /\ BookInv /\ [Next]_vars => BookInv'
<1> SUFFICES ASSUME Inv, BookInv, [Next]_vars, NEW q \in Handlers PROVE Book(q)'
  BY DEF BookInv
<1> USE HandlersAssumption DEF Handlers
<1>1. TypeOK /\ today \in Nat /\ Book(q)
  BY DEF Inv, TypeOK, BookInv
<1>2. ASSUME NEW p \in Handlers, HandlerStep(p) \/ Fault(p) \/ Fail(p) PROVE Book(q)'
  <2>1. CASE q = p
    <3>1. CASE p \in Spenders /\ (SpendStep(p) \/ SpendFault(p))
      BY <1>1, <2>1, <3>1, StartBook, RulesBook, WriteBook, OutboxBook, CommitSpendBook
         DEF SpendStep, SpendFault
    <3>2. CASE p \in Deciders /\ (DecisionStep(p) \/ DecisionFault(p))
      BY <1>1, <2>1, <3>2, DecisionBook, OutboxBook, CommitDecisionBook
         DEF DecisionStep, DecisionFault
    <3>3. CASE Fail(p)
      BY <2>1, <3>3, ErrorBook DEF Fail, dbVars
    <3>. QED
      BY <1>2, <3>1, <3>2, <3>3 DEF HandlerStep, Fault
  <2>2. CASE q # p
    <3>1. UNCHANGED <<pc[q], call[q], resp[q], tx[q]>> /\ today' = today
      BY <1>1, <1>2, <2>2, OthersFrame
    <3>. QED
      BY <1>1, <3>1, BookKept
  <2>. QED
    BY <2>1, <2>2
<1>3. CASE Environment \/ UNCHANGED vars
  <2>1. UNCHANGED procVars /\ today' >= today
    BY <1>1, <1>3, EnvironmentLedger
       DEF Environment, UpsertPolicy, SetAgentStatus, RegisterWebhook, DeleteWebhook, Midnight,
           vars, dbVars
  <2>. QED
    BY <1>1, <2>1, BookKept DEF procVars
<1>. QED
  BY <1>2, <1>3 DEF Next, Terminating

\* A client that was told of an approval, of a pending spend or of a decision finds it
\* in the ledger, whatever ran, failed or was lost meanwhile.
THEOREM AnswersDurable == Spec => []AnswersAreDurable
<1>1. Inv /\ BookInv => AnswersAreDurable
  BY DEF BookInv, Book, Durable, Told, AnswersAreDurable
<1>. QED
  BY <1>1, BookInit, BookNext, Invariance, PTL DEF Spec

(***************************************************************************)
(* Who is told of an approval                                              *)
(***************************************************************************)

\* The hooks an approval must find: none that is subscribed in the end was registered
\* after FindHooks, unless by then the row's agent was not locked.
Owed(p) ==
  {h \in Subscribers(tx[p].row.agent, "transaction.approved") : h \in InitHooks \/ tx[p].fresh}

Notice(p) ==
  /\ p \in Spenders /\ (pc[p] = "create" \/ tx[p].fresh) => tx[p].row.agent = call[p].agent
  /\ pc[p] \in {"enqueue", "commit"} /\ tx[p].status = "APPROVED" => Owed(p) \subseteq tx[p].out

NoticeInv == /\ \A p \in Handlers : Notice(p)
             /\ \A h \in InitHooks : hookState[h] # "new"

LEMMA NoticeInit == Init => NoticeInv /\ ApprovedNotified
BY HooksAssumption DEF Init, NoticeInv, Notice, NoTx, ApprovedNotified

\* A handler that returns owes nothing, nor does one that is not in the outbox.
LEMMA NothingOwed ==
  ASSUME Inv, NEW p \in Handlers,
         \/ \E answer : Return(p, answer)
         \/ tx'[p].fresh = FALSE /\ pc'[p] \notin {"create", "enqueue", "commit"}
  PROVE  Notice(p)'
<1>1. CASE \E answer : Return(p, answer)
  <2>1. pc'[p] = "done" /\ tx'[p] = NoTx
    BY <1>1 DEF Return, Goto, Inv, TypeOK
  <2>. QED
    BY <2>1 DEF Notice, NoTx
<1>2. CASE tx'[p].fresh = FALSE /\ pc'[p] \notin {"create", "enqueue", "commit"}
  BY <1>2 DEF Notice
<1>. QED
  BY <1>1, <1>2

LEMMA StartNotice ==
  ASSUME Inv, NEW p \in Spenders,
         \/ \E req \in Requests : Authenticate(p, req)
         \/ AnswerExisting(p) \/ FastCheck(p) \/ Begin(p) \/ Recheck(p)
  PROVE  Notice(p)'
<1> USE HandlersAssumption DEF Handlers
<1>1. TypeOK /\ SpenderInv(p)
  BY DEF Inv, HandlerInv
<1>2. ASSUME NEW label \in {"check", "begin", "recheck", "lockAgent"}, Goto(p, label),
             pc[p] \in {"idle", "check", "begin", "recheck"}, tx'[p].fresh = tx[p].fresh
      PROVE  Notice(p)'
  <2>1. pc'[p] = label /\ tx[p].fresh = FALSE
    BY <1>1, <1>2 DEF Goto, TypeOK, TxRecords, SpenderInv
  <2>. QED
    BY <1>2, <2>1, NothingOwed
<1>3. ASSUME NEW req \in Requests, Authenticate(p, req) PROVE Notice(p)'
  BY <1>2, <1>3, NothingOwed DEF Authenticate
<1>4. CASE AnswerExisting(p)
  BY <1>4, NothingOwed DEF AnswerExisting
<1>5. CASE FastCheck(p) \/ Recheck(p)
  BY <1>2, <1>5 DEF FastCheck, Recheck
<1>6. CASE Begin(p)
  <2>1. tx'[p].fresh = tx[p].fresh
    BY <1>1, <1>6, SetBegan DEF Begin, TypeOK
  <2>. QED
    BY <1>2, <1>6, <2>1 DEF Begin
<1>. QED
  BY <1>3, <1>4, <1>5, <1>6

LEMMA RulesNotice ==
  ASSUME Inv, NEW p \in Spenders,
         LockAgent(p) \/ LockUser(p) \/ LockPolicy(p) \/ EvaluateRules(p)
  PROVE  Notice(p)'
<1> USE HandlersAssumption DEF Handlers
<1>1. /\ TypeOK /\ SpenderInv(p) /\ UNCHANGED call
      /\ pc[p] \in {"lockAgent", "lockUser", "lockPolicy", "rules"}
  BY DEF Inv, HandlerInv, LockAgent, LockUser, LockPolicy, EvaluateRules
<1>2. tx[p].fresh = FALSE
  BY <1>1 DEF TypeOK, TxRecords, SpenderInv
<1>3. CASE \E s \in Statuses, reason \in Reasons : Settle(p, s, reason)
  <2>1. PICK s \in Statuses, reason \in Reasons : Settle(p, s, reason)
    BY <1>3
  <2>2. NewRow(call[p], s, reason, tx[p].began) \in Rows
    BY <1>1, NewRowType DEF SpenderInv
  <2>3. tx'[p].row.agent = call[p].agent
    BY <1>1, <2>1, <2>2, SettleTx, NewRowFields
  <2>4. pc'[p] = "create"
    BY <1>1, <2>1 DEF Settle, Goto, TypeOK
  <2>. QED
    BY <1>1, <2>3, <2>4 DEF Notice
<1>4. CASE /\ Goto(p, "lockUser") \/ Goto(p, "lockPolicy") \/ Goto(p, "rules")
           /\ tx'[p].fresh = tx[p].fresh
  <2>1. pc'[p] \in {"lockUser", "lockPolicy", "rules"}
    BY <1>1, <1>4 DEF Goto, TypeOK
  <2>. QED
    BY <1>2, <1>4, <2>1, NothingOwed
<1>5. /\ "DENIED" \in Statuses /\ "PENDING_APPROVAL" \in Statuses /\ "APPROVED" \in Statuses
      /\ {"agent_frozen", "insufficient_balance", "no_policy", "daily_limit_exceeded",
          "vendor_not_allowed", "requires_approval", "approved"} \subseteq Reasons
  BY DEF Statuses, FinalStatuses, Reasons
<1>6. CASE LockAgent(p) \/ LockUser(p) \/ EvaluateRules(p)
  BY <1>3, <1>4, <1>5, <1>6 DEF LockAgent, LockUser, EvaluateRules, Deny
<1>7. CASE LockPolicy(p)
  <2>1. CASE Deny(p, "no_policy")
    BY <1>3, <1>5, <2>1 DEF Deny
  <2>2. CASE policy[call[p].agent] # NoPolicy /\ Goto(p, "rules")
             /\ tx' = [tx EXCEPT ![p].pol = policy[call[p].agent]]
    <3>1. policy[call[p].agent] \in PolicyRows
      BY <1>1, <2>2, CallType DEF TypeOK
    <3>. QED
      BY <1>1, <1>4, <2>2, <3>1, SetPolicy
  <2>. QED
    BY <1>7, <2>1, <2>2 DEF LockPolicy
<1>. QED
  BY <1>6, <1>7

LEMMA WriteNotice ==
  ASSUME Inv, NEW p \in Spenders, Notice(p), CreateTxn(p) \/ DeductBalance(p)
  PROVE  Notice(p)'
<1> USE HandlersAssumption DEF Handlers
<1>1. /\ TypeOK /\ SpenderInv(p) /\ UNCHANGED call /\ call[p].rid \in RequestIDs
      /\ pc[p] \in {"create", "deduct"}
  BY CallType DEF Inv, HandlerInv, CreateTxn, DeductBalance
<1>2. CASE CreateTxn(p)
  <2> DEFINE row == ledger[call[p].rid]
  <2>1. pc[p] = "create" /\ pc'[p] = AfterCreate(p) /\ tx[p].fresh = FALSE
    BY <1>1, <1>2 DEF CreateTxn, SpenderInv, Goto, TypeOK, TxRecords
  <2>2. /\ tx'[p].status = tx[p].status
        /\ \/ tx'[p].row = tx[p].row
           \/ tx'[p].fresh = FALSE
    <3>1. CASE tx' = [tx EXCEPT ![p].fresh = TRUE]
      BY <1>1, <3>1, SetFresh
    <3>2. CASE row # NoRow /\ tx' = [tx EXCEPT ![p].row = row]
      <4>1. row \in Rows
        BY <1>1, <3>2 DEF TypeOK
      <4>. QED
        BY <1>1, <2>1, <3>2, <4>1, SetRow
    <3>. QED
      BY <1>2, <3>1, <3>2 DEF CreateTxn
  <2>3. /\ tx[p].status = "APPROVED" => AfterCreate(p) = "deduct"
        /\ AfterCreate(p) # "create"
    BY DEF AfterCreate
  <2>4. tx[p].row.agent = call[p].agent
    BY <2>1 DEF Notice
  <2>. QED
    BY <1>1, <2>1, <2>2, <2>3, <2>4 DEF Notice
<1>3. CASE DeductBalance(p)
  <2>1. pc[p] = "deduct" /\ pc'[p] = "findHooks"
    BY <1>1, <1>3 DEF DeductBalance, Goto, TypeOK
  <2>2. call[p].amount \in Int
    BY <2>1, CallType
  <2>3. tx'[p].row = tx[p].row /\ tx'[p].fresh = tx[p].fresh
    BY <1>1, <1>3, <2>2, SetCharge, Zenon DEF DeductBalance
  <2>. QED
    BY <1>1, <2>1, <2>3 DEF Notice
<1>. QED
  BY <1>2, <1>3

\* The hooks are read as they are committed, which is what is owed; until the
\* commit they are carried.
LEMMA OutboxNotice ==
  ASSUME Inv, NEW p \in Handlers, Notice(p),
         FindHooks(p) \/ InsertDeliveries(p) \/ SkipHooks(p) \/ HookVanished(p) \/ LoseDenial(p)
  PROVE  Notice(p)'
<1> USE HandlersAssumption DEF Handlers
<1>1. TypeOK /\ UNCHANGED <<hookState, call>>
  BY DEF Inv, dbVars, FindHooks, InsertDeliveries, SkipHooks, HookVanished, LoseDenial
<1>2. CASE FindHooks(p)
  <2> DEFINE found == Subscribers(tx[p].row.agent, EventOf(tx[p].status))
  <2>1. found \in SUBSET Hooks
    BY DEF Subscribers
  <2>2. /\ tx'[p].row = tx[p].row /\ tx'[p].status = tx[p].status
        /\ tx'[p].fresh = tx[p].fresh /\ tx'[p].out = found
    BY <1>1, <1>2, <2>1, SetOut DEF FindHooks
  <2>3. pc[p] = "findHooks" /\ pc'[p] = "enqueue"
    BY <1>1, <1>2 DEF FindHooks, Goto, TypeOK
  <2>4. tx[p].status = "APPROVED" => Owed(p)' \subseteq found
    BY <1>1, <2>2 DEF Owed, Subscribers, EventOf
  <2>. QED
    BY <1>1, <2>2, <2>3, <2>4 DEF Notice
<1>3. CASE InsertDeliveries(p)
  <2>1. pc[p] = "enqueue" /\ pc'[p] = "commit" /\ UNCHANGED tx
    BY <1>1, <1>3 DEF InsertDeliveries, Goto, TypeOK
  <2>. QED
    BY <1>1, <2>1 DEF Notice, Owed, Subscribers
<1>4. CASE SkipHooks(p)
  <2>1. pc[p] = "findHooks" /\ pc'[p] = "commit" /\ UNCHANGED tx /\ tx[p].status = "DENIED"
    BY <1>1, <1>4 DEF SkipHooks, SwallowsErrors, Goto, TypeOK
  <2>. QED
    BY <1>1, <2>1 DEF Notice
<1>5. CASE HookVanished(p) \/ LoseDenial(p)
  BY <1>5, NothingOwed DEF HookVanished, LoseDenial
<1>. QED
  BY <1>2, <1>3, <1>4, <1>5

LEMMA DecisionNotice ==
  ASSUME Inv, NEW p \in Deciders,
         \/ \E approver \in Approvers, rid \in RequestIDs, verdict \in FinalStatuses :
              CheckApprover(p, approver, rid, verdict)
         \/ CheckPending(p) \/ LockTxn(p) \/ DebitOwner(p) \/ RecordDecision(p)
  PROVE  Notice(p)'
<1> USE HandlersAssumption DEF Handlers
<1>1. TypeOK /\ p \notin Spenders
  BY DEF Inv
<1>2. ASSUME NEW label \in {"checkPending", "lockTxn", "debit", "record", "findHooks"},
             Goto(p, label)
      PROVE  Notice(p)'
  <2>1. pc'[p] = label
    BY <1>1, <1>2 DEF Goto, TypeOK
  <2>. QED
    BY <1>1, <2>1 DEF Notice
<1>3. CASE \E answer : Return(p, answer)
  BY <1>3, NothingOwed
<1>. QED
  BY <1>2, <1>3 DEF CheckApprover, CheckPending, LockTxn, DebitOwner, RecordDecision

\* A hook of the row's agent is registered only when the agent is not locked.
LEMMA NoticeKept ==
  ASSUME Inv, NEW p \in Handlers, Notice(p), UNCHANGED <<pc[p], call[p], tx[p]>>,
         \A h \in Hooks : hookState'[h] = "active" =>
           \/ hookState[h] = "active"
           \/ h \notin InitHooks /\ AgentRow(HookAgent[h]) \notin held[p]
  PROVE  Notice(p)'
<1>1. CASE pc[p] \in {"enqueue", "commit"} /\ tx[p].status = "APPROVED"
  <2>1. SUFFICES ASSUME NEW h \in Owed(p)' PROVE h \in Owed(p)
    BY <1>1, <2>1 DEF Notice
  <2>2. /\ h \in Hooks /\ hookState'[h] = "active" /\ HookAgent[h] = tx[p].row.agent
        /\ "transaction.approved" \in HookEvents[h] /\ (h \in InitHooks \/ tx[p].fresh)
    BY DEF Owed, Subscribers
  <2>3. ASSUME tx[p].fresh PROVE AgentRow(tx[p].row.agent) \in held[p]
    <3>1. p \in Spenders
      BY <2>3 DEF Inv, HandlerInv, DeciderInv, Handlers
    <3>. QED
      BY <1>1, <2>3, <3>1 DEF Inv, HandlerInv, SpenderInv, Notice
  <2>4. hookState[h] = "active"
    BY <2>2, <2>3
  <2>. QED
    BY <2>2, <2>4 DEF Owed, Subscribers
<1>. QED
  BY <1>1 DEF Notice

\* What Environment does to the hooks.
LEMMA HookChanges ==
  ASSUME TypeOK, Environment, NEW h \in Hooks
  PROVE  /\ hookState'[h] = "new" => hookState[h] = "new"
         /\ hookState'[h] = "active" =>
              /\ \A d \in deliveries : d.hook = h => d \in deliveries'
              /\ \/ hookState[h] = "active"
                 \/ /\ hookState[h] = "new"
                    /\ \A p \in Handlers : AgentRow(HookAgent[h]) \notin held[p]
<1>1. CASE \E k \in Hooks : RegisterWebhook(k)
  BY <1>1 DEF RegisterWebhook, TypeOK
<1>2. CASE \E k \in Hooks : DeleteWebhook(k)
  BY <1>2 DEF DeleteWebhook, TypeOK
<1>3. CASE UNCHANGED <<hookState, deliveries>>
  <2>1. hookState'[h] \in {"new", "active", "deleted"}
    BY <1>3 DEF TypeOK
  <2>. QED
    BY <1>3, <2>1
<1>. QED
  BY <1>1, <1>2, <1>3 DEF Environment, UpsertPolicy, SetAgentStatus, Midnight

LEMMA NoticeNext == Inv /\ BookInv /\ NoticeInv /\ [Next]_vars => NoticeInv'
<1> SUFFICES ASSUME Inv, NoticeInv, [Next]_vars PROVE NoticeInv'
  OBVIOUS
<1> USE HandlersAssumption, HooksAssumption DEF Handlers
<1>1. TypeOK /\ \A q \in Handlers : Notice(q)
  BY DEF Inv, NoticeInv
<1>2. ASSUME NEW p \in Handlers, HandlerStep(p) \/ Fault(p) \/ Fail(p) PROVE NoticeInv'
  <2>1. UNCHANGED hookState
    BY <1>2, HandlerStepKinds
       DEF dbVars, CommitSpend, CommitSpendUnacked, ApplySpend, CommitDecision,
           CommitDecisionUnacked, ApplyDecision
  <2>2. Notice(p)'
    <3>1. CASE p \in Spenders /\ (SpendStep(p) \/ SpendFault(p))
      <4>1. CASE CommitSpend(p) \/ CommitSpendUnacked(p)
        BY <4>1, NothingOwed DEF CommitSpend, CommitSpendUnacked
      <4>. QED
        BY <1>1, <3>1, <4>1, StartNotice, RulesNotice, WriteNotice, OutboxNotice
           DEF SpendStep, SpendFault
    <3>2. CASE p \in Deciders /\ (DecisionStep(p) \/ DecisionFault(p))
      <4>1. CASE CommitDecision(p) \/ CommitDecisionUnacked(p)
        BY <4>1, NothingOwed DEF CommitDecision, CommitDecisionUnacked
      <4>. QED
        BY <1>1, <3>2, <4>1, DecisionNotice, OutboxNotice DEF DecisionStep, DecisionFault
    <3>3. CASE Fail(p)
      BY <3>3, NothingOwed DEF Fail
    <3>. QED
      BY <1>2, <3>1, <3>2, <3>3 DEF HandlerStep, Fault
  <2>3. ASSUME NEW q \in Handlers \ {p} PROVE Notice(q)'
    <3>1. UNCHANGED <<pc[q], call[q], tx[q]>>
      BY <1>1, <1>2, OthersFrame
    <3>. QED
      BY <1>1, <2>1, <3>1, NoticeKept
  <2>. QED
    BY <2>1, <2>2, <2>3 DEF NoticeInv
<1>3. CASE Environment
  <2>1. UNCHANGED procVars
    BY <1>3, EnvironmentLedger
  <2>2. \A h \in Hooks : hookState'[h] = "active" =>
           \/ hookState[h] = "active"
           \/ h \notin InitHooks /\ \A p \in Handlers : AgentRow(HookAgent[h]) \notin held[p]
    BY <1>1, <1>3, HookChanges DEF NoticeInv
  <2>3. ASSUME NEW q \in Handlers PROVE Notice(q)'
    BY <1>1, <2>1, <2>2, NoticeKept DEF procVars
  <2>4. \A h \in InitHooks : hookState'[h] # "new"
    BY <1>1, <1>3, HookChanges DEF NoticeInv
  <2>. QED
    BY <2>3, <2>4 DEF NoticeInv
<1>4. CASE UNCHANGED vars
  BY <1>4 DEF vars, dbVars, procVars, NoticeInv, Notice, Owed, Subscribers
<1>. QED
  BY <1>2, <1>3, <1>4 DEF Next, Terminating

\* A row that a commit makes approved is announced by it.
LEMMA CommitAnnounces ==
  ASSUME Inv, BookInv, NoticeInv, NEW p \in Handlers, HandlerStep(p) \/ Fault(p) \/ Fail(p),
         NEW rid \in RequestIDs, ledger'[rid] # ledger[rid], ledger'[rid].status = "APPROVED",
         NEW h \in Hooks, hookState[h] = "active", Subscribed(h, ledger'[rid]),
         h \in InitHooks \/ ledger[rid] = NoRow
  PROVE  \E d \in deliveries' : d.hook = h /\ d.rid = rid /\ d.event = "transaction.approved"
<1> USE HandlersAssumption DEF Handlers
<1>1. Notice(p) /\ Book(p)
  BY DEF NoticeInv, BookInv
<1>2. /\ pc[p] = "commit" /\ rid = call[p].rid /\ deliveries' = deliveries \cup Outgoing(p)
      /\ tx[p].status = "APPROVED" /\ HookAgent[h] = tx[p].row.agent
      /\ h \in InitHooks \/ tx[p].fresh
  <2>1. CASE UNCHANGED dbVars
    BY <2>1 DEF dbVars
  <2>2. CASE p \in Spenders /\ (CommitSpend(p) \/ CommitSpendUnacked(p))
    <3>1. tx[p].fresh /\ rid = call[p].rid /\ ledger'[rid] = tx[p].row
      BY <2>2, SpendCommitRow
    <3>2. tx[p].status = "APPROVED"
      BY <1>1, <2>2, <3>1 DEF Book, SpenderBook
    <3>. QED
      BY <2>2, <3>1, <3>2 DEF CommitSpend, CommitSpendUnacked, ApplySpend, Subscribed
  <2>3. CASE p \in Deciders /\ (CommitDecision(p) \/ CommitDecisionUnacked(p))
    <3>1. /\ rid = call[p].rid /\ IsPending(rid) /\ tx[p].row = ledger[rid]
          /\ ledger'[rid].status = tx[p].status /\ ledger'[rid].agent = ledger[rid].agent
      BY <2>3, DecisionCommitRow
    <3>. QED
      BY <2>3, <3>1
         DEF CommitDecision, CommitDecisionUnacked, ApplyDecision, Subscribed, IsPending
  <2>. QED
    BY <2>1, <2>2, <2>3, HandlerStepKinds
<1>3. h \in tx[p].out
  <2>1. "transaction.approved" \in HookEvents[h]
    BY DEF Subscribed, EventOf
  <2>. QED
    BY <1>1, <1>2, <2>1 DEF Notice, Owed, Subscribers
<1> DEFINE d == [by |-> p, hook |-> h, rid |-> call[p].rid, event |-> EventOf(tx[p].status),
                 status |-> ApiStatus(tx[p].row.status)]
<1>4. d \in deliveries'
  BY <1>2, <1>3 DEF Outgoing
<1>5. d.hook = h /\ d.rid = rid /\ d.event = "transaction.approved"
  BY <1>2 DEF EventOf
<1>. QED
  BY <1>4, <1>5

LEMMA NotifiedNext ==
  Inv /\ BookInv /\ NoticeInv /\ ApprovedNotified /\ [Next]_vars => ApprovedNotified'
<1> SUFFICES ASSUME Inv, BookInv, NoticeInv, ApprovedNotified, [Next]_vars,
                    NEW rid \in RequestIDs, NEW h \in InitHooks,
                    ledger'[rid] # NoRow, ledger'[rid].status = "APPROVED",
                    hookState'[h] = "active", Subscribed(h, ledger'[rid])
             PROVE  \E d \in deliveries' :
                      d.hook = h /\ d.rid = rid /\ d.event = "transaction.approved"
  BY DEF ApprovedNotified, Subscribed
<1> USE HooksAssumption
<1>1. TypeOK /\ h \in Hooks
  BY DEF Inv
<1>2. ASSUME ledger'[rid] = ledger[rid], hookState[h] = "active"
      PROVE  \E d \in deliveries : d.hook = h /\ d.rid = rid /\ d.event = "transaction.approved"
  BY <1>2 DEF ApprovedNotified
<1>3. ASSUME NEW p \in Handlers, HandlerStep(p) \/ Fault(p) \/ Fail(p)
      PROVE  \E d \in deliveries' :
               d.hook = h /\ d.rid = rid /\ d.event = "transaction.approved"
  <2>1. hookState' = hookState /\ deliveries \subseteq deliveries'
    BY <1>3, HandlerStepKinds
       DEF dbVars, CommitSpend, CommitSpendUnacked, ApplySpend, CommitDecision,
           CommitDecisionUnacked, ApplyDecision
  <2>2. CASE ledger'[rid] = ledger[rid]
    BY <1>2, <2>1, <2>2
  <2>3. CASE ledger'[rid] # ledger[rid]
    BY <1>1, <1>3, <2>1, <2>3, CommitAnnounces
  <2>. QED
    BY <2>2, <2>3
<1>4. CASE Environment
  <2>1. hookState[h] = "active" /\ \A d \in deliveries : d.hook = h => d \in deliveries'
    BY <1>1, <1>4, HookChanges DEF NoticeInv
  <2>2. ledger' = ledger
    BY <1>4, EnvironmentLedger
  <2>. QED
    BY <1>2, <2>1, <2>2
<1>5. CASE UNCHANGED vars
  BY <1>2, <1>5 DEF vars, dbVars
<1>. QED
  BY <1>3, <1>4, <1>5 DEF Next, Terminating

\* Whoever approves a row, the rules or a person, leaves a delivery for each hook that
\* was subscribed from the start and still is, whatever is registered or deleted meanwhile.
THEOREM Notified == Spec => []ApprovedNotified
<1>. QED
  BY NoticeInit, NoticeNext, NotifiedNext, BookInit, BookNext, Invariance, PTL DEF Spec

\* A spend that is approved is announced to every hook subscribed at its commit, for a
\* hook that is registered after FindHooks must wait for the agent's row.
THEOREM Announced == Spec => ApprovalsAnnounced
<1>1. ASSUME Inv, BookInv, NoticeInv, [Next]_vars, NEW rid \in RequestIDs, NEW h \in Hooks,
             ledger[rid] = NoRow, ledger'[rid] # NoRow, ledger'[rid].status = "APPROVED",
             hookState[h] = "active", Subscribed(h, ledger'[rid])
      PROVE  \E d \in deliveries' :
               d.hook = h /\ d.rid = rid /\ d.event = "transaction.approved"
  <2>1. CASE Environment \/ UNCHANGED vars
    BY <1>1, <2>1, EnvironmentLedger DEF vars, dbVars
  <2>. QED
    BY <1>1, <2>1, CommitAnnounces DEF Next, Terminating
<1> DEFINE A == \A rid \in RequestIDs, h \in Hooks :
                  /\ ledger[rid] = NoRow /\ ledger'[rid] # NoRow
                  /\ ledger'[rid].status = "APPROVED"
                  /\ hookState[h] = "active" /\ Subscribed(h, ledger'[rid])
                  => \E d \in deliveries' :
                       d.hook = h /\ d.rid = rid /\ d.event = "transaction.approved"
<1>2. Inv /\ BookInv /\ NoticeInv /\ [Next]_vars => A
  BY <1>1
<1>3. ApprovalsAnnounced <=> [][A]_vars
  BY DEF ApprovalsAnnounced
<1> HIDE DEF A
<1>. QED
  BY <1>2, <1>3, NoticeInit, NoticeNext, BookInit, BookNext, Invariance, PTL DEF Spec

(***************************************************************************)
(* Sums over the ledger                                                    *)
(***************************************************************************)

\* At any time finitely many requests have a row, however many there may be; what is
\* approved of them is paid.
Entered == {rid \in RequestIDs : ledger[rid] # NoRow}
PaidInv == IsFiniteSet(Entered) /\ ApprovedIsPaid

AmountsOf(u) == [rid \in ApprovedOf(u) |-> ledger[rid].amount]

LEMMA SumOfFunction ==
  ASSUME NEW S, NEW f, DOMAIN f = S
  PROVE  SumFunction(f) = SumFunctionOnSet(f, S)
BY DEF SumFunction

\* What the sum over a user's approved rows is a sum of.
LEMMA ApprovedRows ==
  ASSUME TypeOK, IsFiniteSet(Entered), NEW u
  PROVE  /\ IsFiniteSet(ApprovedOf(u)) /\ DOMAIN AmountsOf(u) = ApprovedOf(u)
         /\ \A rid \in ApprovedOf(u) : /\ ledger[rid] \in Rows /\ ledger[rid].amount \in Nat
                                       /\ AmountsOf(u)[rid] = ledger[rid].amount
         /\ SumFunction(AmountsOf(u)) = SumFunctionOnSet(AmountsOf(u), ApprovedOf(u))
         /\ SumFunction(AmountsOf(u)) \in Nat
<1>1. ApprovedOf(u) \in SUBSET Entered
  BY DEF ApprovedOf, Entered
<1>2. IsFiniteSet(ApprovedOf(u))
  BY <1>1, FS_Subset
<1>3. \A rid \in ApprovedOf(u) : ledger[rid] \in Rows /\ ledger[rid].amount \in Nat
  BY DEF ApprovedOf, TypeOK, Rows
<1>4. /\ DOMAIN AmountsOf(u) = ApprovedOf(u)
      /\ \A rid \in ApprovedOf(u) : AmountsOf(u)[rid] = ledger[rid].amount
  BY DEF AmountsOf
<1>5. SumFunction(AmountsOf(u)) = SumFunctionOnSet(AmountsOf(u), ApprovedOf(u))
  BY <1>4, SumOfFunction
<1>6. SumFunctionOnSet(AmountsOf(u), ApprovedOf(u)) \in Nat
  BY <1>2, <1>3, <1>4, SumIsNat
<1>. QED
  BY <1>2, <1>3, <1>4, <1>5, <1>6

LEMMA PaidInit == Init => PaidInv
<1> SUFFICES ASSUME Init PROVE PaidInv
  OBVIOUS
<1>1. Entered = {} /\ TypeOK /\ balance = InitBalance
  BY InitInv DEF Init, Entered, Inv
<1>2. IsFiniteSet(Entered)
  BY <1>1, FS_EmptySet
<1>3. ASSUME NEW u \in Users PROVE SumFunction(AmountsOf(u)) <= InitBalance[u] - balance[u]
  <2>1. ApprovedOf(u) = {}
    BY <1>1 DEF ApprovedOf, Entered
  <2>2. SumFunction(AmountsOf(u)) = SumFunctionOnSet(AmountsOf(u), {})
    BY <1>1, <1>2, <2>1, ApprovedRows
  <2>3. SumFunctionOnSet(AmountsOf(u), {}) = 0
    BY FS_EmptySet, SumUnfolds
  <2>. QED
    BY <1>1, <2>2, <2>3 DEF TypeOK
<1>. QED
  BY <1>2, <1>3 DEF PaidInv, ApprovedIsPaid, AmountsOf

\* A step that touches one row, and if it approves it deducts the row's amount from the owner of
\* the row's agent.
Settles(rid, payer, paid) ==
  /\ balance' = [balance EXCEPT ![payer] = @ - paid]
  /\ \A r \in RequestIDs \ {rid} : ledger'[r] = ledger[r]
  /\ ledger'[rid] # ledger[rid] =>
       /\ ledger'[rid] \in Rows
       /\ ledger[rid] # NoRow => ledger[rid].status # "APPROVED"
       /\ ledger'[rid].status = "APPROVED" =>
            paid = ledger'[rid].amount /\ payer = OwnerOf[ledger'[rid].agent]

Approves(rid) == ledger'[rid] # ledger[rid] /\ ledger'[rid].status = "APPROVED"

\* What such a step adds to the sum of each user's approved rows and takes from his balance.
LEMMA SettlesSum ==
  ASSUME TypeOK, TypeOK', IsFiniteSet(Entered), NEW rid \in RequestIDs, NEW payer \in Users,
         NEW paid \in Nat, Settles(rid, payer, paid), NEW u \in Users
  PROVE  /\ InitBalance[u] \in Nat /\ balance[u] \in Nat /\ SumFunction(AmountsOf(u)) \in Nat
         /\ balance'[u] = balance[u] - (IF u = payer THEN paid ELSE 0)
         /\ SumFunction(AmountsOf(u)') =
              SumFunction(AmountsOf(u)) + (IF Approves(rid) /\ u = payer THEN paid ELSE 0)
<1> USE DEF Settles
<1>1. /\ InitBalance[u] \in Nat /\ balance[u] \in Nat
      /\ balance'[u] = balance[u] - (IF u = payer THEN paid ELSE 0)
  <2>1. balance \in [Users -> Nat] /\ InitBalance[u] \in 0..MaxCents /\ MaxCents \in Nat
    BY BalanceAssumption DEF TypeOK
  <2>. QED
    BY <2>1
<1>2. SumFunction(AmountsOf(u)) \in Nat
  BY ApprovedRows
<1>3. CASE ~ (Approves(rid) /\ u = payer)
  <2>1. /\ ApprovedOf(u)' = ApprovedOf(u)
        /\ \A r \in ApprovedOf(u) : ledger'[r].amount = ledger[r].amount
    BY <1>3, NoRowAssumption DEF Approves, ApprovedOf
  <2>2. AmountsOf(u)' = AmountsOf(u)
    BY <2>1 DEF AmountsOf
  <2>. QED
    BY <1>1, <1>2, <1>3, <2>2
<1>4. CASE Approves(rid) /\ u = payer
  <2>1. /\ ledger'[rid] # ledger[rid] /\ ledger'[rid].status = "APPROVED"
        /\ OwnerOf[ledger'[rid].agent] = u /\ paid = ledger'[rid].amount
    BY <1>4 DEF Approves
  <2>2. ApprovedOf(u)' = ApprovedOf(u) \cup {rid} /\ rid \notin ApprovedOf(u)
    BY <2>1, NoRowAssumption DEF ApprovedOf
  <2>3. /\ IsFiniteSet(ApprovedOf(u))
        /\ SumFunction(AmountsOf(u)) = SumFunctionOnSet(AmountsOf(u), ApprovedOf(u))
    BY ApprovedRows
  <2>4. /\ DOMAIN AmountsOf(u)' = ApprovedOf(u)'
        /\ \A r \in ApprovedOf(u)' : /\ AmountsOf(u)'[r] = ledger'[r].amount
                                     /\ AmountsOf(u)'[r] \in Nat
    <3>1. \A r \in ApprovedOf(u)' : ledger'[r] \in Rows
      BY DEF ApprovedOf, TypeOK
    <3>. QED
      BY <3>1 DEF AmountsOf, Rows
  <2>5. SumFunctionOnSet(AmountsOf(u)', ApprovedOf(u) \cup {rid})
          = AmountsOf(u)'[rid] + SumFunctionOnSet(AmountsOf(u)', ApprovedOf(u))
    BY <2>2, <2>3, <2>4, SumWith
  <2>6. SumFunctionOnSet(AmountsOf(u)', ApprovedOf(u))
          = SumFunctionOnSet(AmountsOf(u), ApprovedOf(u))
    <3>1. \A r \in ApprovedOf(u) : ledger'[r] = ledger[r]
      BY <2>2 DEF ApprovedOf
    <3>2. \A r \in ApprovedOf(u) : AmountsOf(u)'[r] = AmountsOf(u)[r]
      BY <2>2, <2>4, <3>1, ApprovedRows
    <3>. QED
      BY <2>3, <3>2, SumSame
  <2>7. SumFunction(AmountsOf(u)') = SumFunctionOnSet(AmountsOf(u)', ApprovedOf(u)')
    BY <2>4, SumOfFunction
  <2>8. AmountsOf(u)'[rid] = paid
    BY <2>1, <2>2, <2>4
  <2>9. SumFunction(AmountsOf(u)') = paid + SumFunction(AmountsOf(u))
    BY <2>2, <2>3, <2>5, <2>6, <2>7, <2>8
  <2>. QED
    BY <1>1, <1>2, <1>4, <2>9
<1>. QED
  BY <1>3, <1>4

LEMMA SettlesFinite ==
  ASSUME IsFiniteSet(Entered), NEW rid \in RequestIDs, NEW payer, NEW paid,
         Settles(rid, payer, paid)
  PROVE  IsFiniteSet(Entered')
<1>1. Entered' \in SUBSET (Entered \cup {rid})
  BY DEF Entered, Settles
<1>. QED
  BY <1>1, FS_AddElement, FS_Subset

\* Every commit is such a step, for BookInv says what it charges. It charges for nothing but what
\* it approves, unless another row had its request id.
LEMMA CommitSettles ==
  ASSUME Inv, BookInv, NEW p \in Handlers,
         \/ p \in Spenders /\ (CommitSpend(p) \/ CommitSpendUnacked(p))
         \/ p \in Deciders /\ (CommitDecision(p) \/ CommitDecisionUnacked(p))
  PROVE  \E rid \in RequestIDs, payer \in Users, paid \in Nat :
           /\ Settles(rid, payer, paid)
           /\ p \in Deciders \/ tx[p].fresh => paid = 0 \/ Approves(rid)
<1> USE HandlersAssumption
<1>1. TypeOK
  BY DEF Inv
<1>2. CASE p \in Spenders /\ (CommitSpend(p) \/ CommitSpendUnacked(p))
  <2> DEFINE rid   == call[p].rid
             payer == OwnerOf[call[p].agent]
             paid  == tx[p].charge
  <2>1. /\ pc[p] = "commit" /\ SpenderInv(p) /\ SpenderBook(p)
        /\ balance' = [balance EXCEPT ![payer] = @ - paid]
        /\ ledger' = IF tx[p].fresh THEN [ledger EXCEPT ![rid] = tx[p].row] ELSE ledger
    BY <1>2 DEF CommitSpend, CommitSpendUnacked, ApplySpend, Inv, HandlerInv, BookInv, Book,
                Handlers
  <2>2. /\ rid \in RequestIDs /\ payer \in Users /\ call[p].amount \in Nat /\ paid \in Nat
        /\ paid = IF tx[p].status = "APPROVED" THEN call[p].amount ELSE 0
    BY <1>2, <2>1, CallType, OwnersAssumption DEF SpenderBook, Handlers
  <2>3. \A r \in RequestIDs \ {rid} : ledger'[r] = ledger[r]
    BY <1>1, <2>1 DEF TypeOK
  <2>4. ledger'[rid] # ledger[rid] =>
          /\ ledger'[rid] \in Rows /\ ledger[rid] = NoRow
          /\ ledger'[rid].status = "APPROVED" =>
               paid = ledger'[rid].amount /\ payer = OwnerOf[ledger'[rid].agent]
    BY <1>2, <2>1, <2>2, SpendCommitRow DEF SpenderBook
  <2>5. tx[p].fresh => ledger[rid] = NoRow /\ ledger'[rid] = tx[p].row /\ tx[p].row \in Rows
                       /\ tx[p].row.status = tx[p].status
    BY <1>1, <2>1, <2>2 DEF SpenderInv, SpenderBook, TypeOK
  <2>6. p \in Deciders \/ tx[p].fresh => paid = 0 \/ Approves(rid)
    BY <1>2, <2>2, <2>5, NoRowAssumption DEF Approves
  <2> HIDE DEF rid, payer, paid
  <2>7. Settles(rid, payer, paid)
    BY <2>1, <2>3, <2>4 DEF Settles
  <2>. QED
    BY <2>2, <2>6, <2>7
<1>3. CASE p \in Deciders /\ (CommitDecision(p) \/ CommitDecisionUnacked(p))
  <2> DEFINE rid   == call[p].rid
             payer == Payer(p)
             paid  == tx[p].charge
  <2>1. /\ pc[p] = "commit" /\ DeciderInv(p) /\ DeciderBook(p)
        /\ balance' = [balance EXCEPT ![payer] = @ - paid]
        /\ ledger' = [ledger EXCEPT ![rid].status = tx[p].status]
    BY <1>3 DEF CommitDecision, CommitDecisionUnacked, ApplyDecision, Inv, HandlerInv, BookInv,
                Book, Handlers
  <2>2. /\ rid \in RequestIDs /\ payer \in Users /\ tx[p].row.amount \in Nat /\ paid \in Nat
        /\ paid = IF tx[p].status = "APPROVED" THEN ledger[rid].amount ELSE 0
        /\ payer = OwnerOf[ledger[rid].agent] /\ IsPending(rid)
        /\ tx[p].status = call[p].verdict
    BY <1>1, <1>3, <2>1, CallType, PayerType DEF DeciderInv, DeciderBook, Payer, Handlers
  <2>3. tx[p].status \in FinalStatuses /\ ledger[rid] \in Rows
    BY <1>1, <1>3, <2>1, <2>2, CallType DEF IsPending, TypeOK, Handlers
  <2>4. /\ \A r \in RequestIDs \ {rid} : ledger'[r] = ledger[r]
        /\ ledger'[rid] \in Rows /\ ledger'[rid].status = tx[p].status
        /\ ledger'[rid].agent = ledger[rid].agent /\ ledger'[rid].amount = ledger[rid].amount
    <3>1. tx[p].status \in Statuses
      BY <2>3 DEF Statuses
    <3>. QED
      BY <1>1, <2>1, <2>2, <2>3, <3>1, DecidedRow, Zenon
  <2>5. ledger'[rid] # ledger[rid] /\ ledger[rid].status # "APPROVED"
    BY <2>2, <2>4, <2>3 DEF IsPending, FinalStatuses
  <2>6. paid = 0 \/ Approves(rid)
    BY <2>2, <2>4, <2>5 DEF Approves
  <2>7. ledger'[rid].status = "APPROVED" =>
          paid = ledger'[rid].amount /\ payer = OwnerOf[ledger'[rid].agent]
    BY <2>2, <2>4
  <2> HIDE DEF rid, payer, paid
  <2>8. Settles(rid, payer, paid)
    BY <2>1, <2>4, <2>5, <2>7 DEF Settles
  <2>. QED
    BY <2>2, <2>6, <2>8
<1>. QED
  BY <1>2, <1>3

\* Only the commits of spends and decisions touch rows or balances.
LEMMA PaidNext == Inv /\ BookInv /\ PaidInv /\ [Next]_vars => PaidInv'
<1> SUFFICES ASSUME Inv, BookInv, PaidInv, [Next]_vars PROVE PaidInv'
  OBVIOUS
<1>1. TypeOK /\ TypeOK' /\ IsFiniteSet(Entered)
  BY NextInv DEF Inv, PaidInv
<1>2. UNCHANGED <<ledger, balance>> => PaidInv'
  BY DEF PaidInv, Entered, ApprovedIsPaid, ApprovedOf
<1>3. ASSUME NEW rid \in RequestIDs, NEW payer \in Users, NEW paid \in Nat,
             Settles(rid, payer, paid)
      PROVE  PaidInv'
  <2>1. ASSUME NEW u \in Users
        PROVE  SumFunction(AmountsOf(u)') <= InitBalance[u] - balance'[u]
    <3>1. SumFunction(AmountsOf(u)) <= InitBalance[u] - balance[u]
      BY DEF PaidInv, ApprovedIsPaid, AmountsOf
    <3>. QED
      BY <1>1, <1>3, <3>1, SettlesSum
  <2>. QED
    BY <1>1, <1>3, <2>1, SettlesFinite DEF PaidInv, ApprovedIsPaid, AmountsOf
<1>4. ASSUME NEW p \in Handlers, HandlerStep(p) \/ Fault(p) \/ Fail(p) PROVE PaidInv'
  BY <1>2, <1>3, <1>4, HandlerStepKinds, CommitSettles DEF dbVars
<1>. QED
  BY <1>2, <1>4, EnvironmentLedger DEF Next, Terminating, vars, dbVars

\* For any number of spends and decisions, in any interleaving and whatever fails, a user has paid
\* at least for what the ledger says was approved for his agents: no deduction is lost.
THEOREM ApprovedPaid == Spec => []ApprovedIsPaid
<1>1. PaidInv => ApprovedIsPaid
  BY DEF PaidInv
<1>. QED
  BY <1>1, PaidInit, PaidNext, BookInit, BookNext, Invariance, PTL DEF Spec

LEMMA WrapSame ==
  ASSUME NEW n \in 0..MaxCents
  PROVE  Wrap(n) = n
<1>1. MaxCents \in Nat
  BY BalanceAssumption
<1>. DEFINE m == 2 * (MaxCents + 1)
            k == n + MaxCents + 1
<1>2. m \in Nat \ {0} /\ k \in 0..(m - 1)
  BY <1>1
<1>3. k % m = k
  <2>. HIDE DEF m, k
  <2>. QED
    BY <1>2
<1>. QED
  BY <1>1, <1>3 DEF Wrap

\* What an agent spent on a day is part of what was approved for its owner.
LEMMA SpentBound ==
  ASSUME TypeOK, IsFiniteSet(Entered), NEW a \in Agents, NEW d
  PROVE  /\ SpentOn(a, d) \in Nat
         /\ SpentOn(a, d) <= SumFunction(AmountsOf(OwnerOf[a]))
<1>. DEFINE u == OwnerOf[a]
            S == ApprovedOn(a, d)
            f == [rid \in S |-> ledger[rid].amount]
<1>1. S \subseteq ApprovedOf(u)
  BY DEF ApprovedOn, ApprovedOf
<1>2. /\ IsFiniteSet(ApprovedOf(u))
      /\ \A rid \in ApprovedOf(u) : /\ AmountsOf(u)[rid] \in Nat
                                    /\ AmountsOf(u)[rid] = ledger[rid].amount
      /\ SumFunction(AmountsOf(u)) = SumFunctionOnSet(AmountsOf(u), ApprovedOf(u))
  BY ApprovedRows
<1>3. IsFiniteSet(S)
  BY <1>1, <1>2, FS_Subset
<1>4. SpentOn(a, d) = SumFunctionOnSet(f, S)
  BY SumOfFunction DEF SpentOn
<1>5. \A rid \in S : f[rid] = AmountsOf(u)[rid] /\ f[rid] \in Nat
  BY <1>1, <1>2
<1>. HIDE DEF S, f, u
<1>6. SumFunctionOnSet(f, S) = SumFunctionOnSet(AmountsOf(u), S)
  BY <1>3, <1>5, SumSame
<1>7. SumFunctionOnSet(AmountsOf(u), S) <= SumFunctionOnSet(AmountsOf(u), ApprovedOf(u))
  BY <1>1, <1>2, SumSubset
<1>8. SumFunctionOnSet(f, S) \in Nat
  BY <1>3, <1>5, SumIsNat
<1>. QED
  BY <1>2, <1>4, <1>6, <1>7, <1>8 DEF u

\* Where the limit is checked the owner is locked and his balance covers the amount; and what the
\* day's sum counts was deducted from what he had.
LEMMA SumFits == Inv /\ PaidInv => SumNeverWraps
<1> SUFFICES ASSUME Inv, PaidInv, NEW p \in Spenders, pc[p] = "rules"
             PROVE  Wrap(call[p].amount + SpentOn(call[p].agent, tx[p].began))
                      = call[p].amount + SpentOn(call[p].agent, tx[p].began)
  BY DEF SumNeverWraps
<1>. DEFINE a == call[p].agent
            u == OwnerOf[call[p].agent]
            spent == SpentOn(call[p].agent, tx[p].began)
<1>1. TypeOK /\ SpenderInv(p) /\ IsFiniteSet(Entered)
  BY DEF Inv, HandlerInv, PaidInv
<1>2. a \in Agents /\ u \in Users /\ call[p].amount \in Nat /\ balance[u] >= call[p].amount
  BY <1>1, CallType, OwnersAssumption DEF SpenderInv, Handlers
<1>3. spent \in Nat /\ spent <= SumFunction(AmountsOf(u))
  BY <1>1, <1>2, SpentBound
<1>4. SumFunction(AmountsOf(u)) \in Nat
  BY <1>1, ApprovedRows
<1>5. SumFunction(AmountsOf(u)) <= InitBalance[u] - balance[u]
  BY <1>2 DEF PaidInv, ApprovedIsPaid, AmountsOf
<1>6. balance[u] \in Nat /\ InitBalance[u] \in 0..MaxCents /\ MaxCents \in Nat
  BY <1>1, <1>2, BalanceAssumption DEF TypeOK
<1>. HIDE DEF spent, u, a
<1>7. call[p].amount + spent \in 0..MaxCents
  BY <1>2, <1>3, <1>4, <1>5, <1>6
<1>. QED
  BY <1>7, WrapSame DEF spent

\* The int64 sum of the daily limit check never overflows, for any number of rows: it is within
\* the initial balance of the agent's owner, which is an int64.
THEOREM SumsFit == Spec => []SumNeverWraps
BY SumFits, PaidInit, PaidNext, BookInit, BookNext, Invariance, PTL DEF Spec
(***************************************************************************)
(* Requests that do not overlap                                            *)
(***************************************************************************)

\* No two spends under way have the same request id: whoever repeats a request waits until the
\* handler of the one before has returned, with whatever answer.
Running(p) == pc[p] \notin {"idle", "done"}
NoOverlap ==
  \A p, q \in Spenders : p # q /\ Running(p) /\ Running(q) => call[p].rid # call[q].rid

\* Then what FastCheck found is true up to the commit, and Create always inserts. What is
\* announced is final.
Unseen(p) ==
  /\ Running(p) /\ pc[p] # "check" => ledger[call[p].rid] = NoRow
  /\ pc[p] \in {"deduct", "findHooks", "enqueue", "commit"} => tx[p].fresh
  /\ pc[p] \in {"deduct", "findHooks", "enqueue"} => tx[p].status \in FinalStatuses
  /\ tx[p].out # {} => pc[p] \in {"enqueue", "commit"} /\ tx[p].status \in FinalStatuses

UnseenInv == \A p \in Spenders : Unseen(p)

LEMMA UnseenInit == Init => UnseenInv
BY DEF Init, UnseenInv, Unseen, Running, NoTx, Handlers

LEMMA ReturnUnseen ==
  ASSUME Inv, NEW p \in Spenders, NEW answer, Return(p, answer)
  PROVE  Unseen(p)'
<1>1. pc'[p] = "done" /\ tx'[p] = NoTx
  BY DEF Return, Goto, Inv, TypeOK, Handlers
<1>. QED
  BY <1>1 DEF Unseen, Running, NoTx

\* A spend's own steps but its commit.
LEMMA OwnUnseen ==
  ASSUME Inv, NEW p \in Spenders, Unseen(p), SpendStep(p) \/ SpendFault(p), UNCHANGED ledger
  PROVE  Unseen(p)'
<1> USE HandlersAssumption DEF Handlers
<1>1. TypeOK /\ SpenderInv(p)
  BY DEF Inv, HandlerInv
<1>2. \A answer : Return(p, answer) => Unseen(p)'
  BY ReturnUnseen
<1>3. \A label : Goto(p, label) => pc'[p] = label
  BY <1>1 DEF Goto, TypeOK
<1>4. CASE (\E req \in Requests : Authenticate(p, req)) \/ AnswerExisting(p)
           \/ FastCheck(p) \/ Begin(p) \/ Recheck(p)
  <2>1. tx'[p].out = tx[p].out \/ \E answer : Return(p, answer)
    BY <1>1, <1>4, SetBegan
       DEF Authenticate, AnswerExisting, FastCheck, Begin, Recheck, TypeOK
  <2>. QED
    BY <1>1, <1>2, <1>3, <1>4, <2>1
       DEF Authenticate, AnswerExisting, FastCheck, Begin, Recheck, Unseen, Running
<1>5. CASE LockAgent(p) \/ LockUser(p) \/ LockPolicy(p) \/ EvaluateRules(p)
  <2>1. /\ pc[p] \in {"lockAgent", "lockUser", "lockPolicy", "rules"} /\ UNCHANGED call
        /\ tx[p].out = {}
    BY <1>5 DEF LockAgent, LockUser, LockPolicy, EvaluateRules, Unseen
  <2>2. ASSUME NEW s \in Statuses, NEW reason \in Reasons, Settle(p, s, reason)
        PROVE  tx'[p].out = tx[p].out /\ pc'[p] = "create"
    <3>1. NewRow(call[p], s, reason, tx[p].began) \in Rows
      BY <1>1, <2>1, NewRowType DEF SpenderInv
    <3>. QED
      BY <1>1, <1>3, <2>2, <3>1, SettleTx DEF Settle
  <2>3. /\ "DENIED" \in Statuses /\ "PENDING_APPROVAL" \in Statuses /\ "APPROVED" \in Statuses
        /\ {"agent_frozen", "insufficient_balance", "no_policy", "daily_limit_exceeded",
            "vendor_not_allowed", "requires_approval", "approved"} \subseteq Reasons
    BY DEF Statuses, FinalStatuses, Reasons
  <2>4. CASE LockPolicy(p)
    <3>1. policy[call[p].agent] \in PolicyRows \cup {NoPolicy}
      BY <1>1, <2>1, CallType DEF TypeOK
    <3>. QED
      BY <1>1, <1>3, <2>1, <2>2, <2>3, <2>4, <3>1, SetPolicy DEF LockPolicy, Deny, Unseen, Running
  <2>5. CASE LockAgent(p) \/ LockUser(p) \/ EvaluateRules(p)
    BY <1>3, <2>1, <2>2, <2>3, <2>5 DEF LockAgent, LockUser, EvaluateRules, Deny, Unseen, Running
  <2>. QED
    BY <1>5, <2>4, <2>5
<1>6. CASE CreateTxn(p)
  <2>1. /\ pc[p] = "create" /\ pc'[p] = AfterCreate(p) /\ UNCHANGED call
        /\ ledger[call[p].rid] = NoRow /\ tx[p].out = {} /\ tx[p].status \in Statuses
        /\ tx' = [tx EXCEPT ![p].fresh = TRUE]
    BY <1>1, <1>3, <1>6 DEF CreateTxn, Unseen, Running, SpenderInv
  <2>2. tx'[p].fresh /\ tx'[p].out = tx[p].out /\ tx'[p].status = tx[p].status
    BY <1>1, <2>1, SetFresh
  <2>. QED
    BY <2>1, <2>2 DEF Unseen, Running, AfterCreate, Statuses, FinalStatuses
<1>7. CASE DeductBalance(p)
  <2>1. pc[p] = "deduct" /\ pc'[p] = "findHooks" /\ UNCHANGED call
    BY <1>3, <1>7 DEF DeductBalance
  <2>2. /\ tx'[p].fresh = tx[p].fresh /\ tx'[p].out = tx[p].out /\ tx'[p].status = tx[p].status
    <3>1. call[p].amount \in Int
      BY <2>1, CallType
    <3>. QED
      BY <1>1, <1>7, <3>1, SetCharge DEF DeductBalance
  <2>. QED
    BY <2>1, <2>2 DEF Unseen, Running
<1>8. CASE FindHooks(p)
  <2>1. pc[p] = "findHooks" /\ pc'[p] = "enqueue" /\ UNCHANGED call
    BY <1>3, <1>8 DEF FindHooks
  <2>2. tx'[p].fresh = tx[p].fresh /\ tx'[p].status = tx[p].status
    <3>1. Subscribers(tx[p].row.agent, EventOf(tx[p].status)) \in SUBSET Hooks
      BY DEF Subscribers
    <3>. QED
      BY <1>1, <1>8, <3>1, SetOut DEF FindHooks
  <2>. QED
    BY <2>1, <2>2 DEF Unseen, Running
<1>9. CASE InsertDeliveries(p) \/ SkipHooks(p)
  BY <1>3, <1>9 DEF InsertDeliveries, SkipHooks, Unseen, Running
<1>10. CASE HookVanished(p) \/ LoseDenial(p) \/ CommitSpend(p) \/ CommitSpendUnacked(p)
  BY <1>2, <1>10 DEF HookVanished, LoseDenial, CommitSpend, CommitSpendUnacked
<1>. QED
  BY <1>4, <1>5, <1>6, <1>7, <1>8, <1>9, <1>10 DEF SpendStep, SpendFault

\* Only a spend's commit enters a row, under its own request id.
LEMMA RowEntered ==
  ASSUME Inv, [Next]_vars, NEW rid \in RequestIDs, ledger[rid] = NoRow, ledger'[rid] # NoRow
  PROVE  \E p \in Spenders : /\ CommitSpend(p) \/ CommitSpendUnacked(p)
                             /\ pc[p] = "commit" /\ call[p].rid = rid
<1>1. PICK p \in Handlers : HandlerStep(p) \/ Fault(p) \/ Fail(p)
  BY EnvironmentLedger DEF Next, Terminating, vars, dbVars
<1>2. ~ (p \in Deciders /\ (CommitDecision(p) \/ CommitDecisionUnacked(p)))
  BY DecisionCommitRow DEF IsPending
<1>3. p \in Spenders /\ (CommitSpend(p) \/ CommitSpendUnacked(p))
  BY <1>1, <1>2, HandlerStepKinds DEF dbVars
<1>. QED
  BY <1>3, SpendCommitRow DEF CommitSpend, CommitSpendUnacked

LEMMA UnseenNext == Inv /\ UnseenInv /\ NoOverlap /\ [Next]_vars => UnseenInv'
<1> SUFFICES ASSUME Inv, UnseenInv, NoOverlap, [Next]_vars, NEW p \in Spenders
             PROVE  Unseen(p)'
  BY DEF UnseenInv
<1> USE HandlersAssumption DEF Handlers
<1>1. TypeOK /\ Unseen(p) /\ pc[p] \in SpendLabels
  BY DEF Inv, HandlerInv, SpenderInv, UnseenInv
<1>2. CASE UNCHANGED <<pc[p], call[p], tx[p]>>
  <2>1. Running(p) /\ pc[p] # "check" => ledger'[call[p].rid] = NoRow
    <3>1. SUFFICES ASSUME Running(p), pc[p] # "check", ledger'[call[p].rid] # NoRow
                   PROVE  FALSE
      OBVIOUS
    <3>2. call[p].rid \in RequestIDs /\ ledger[call[p].rid] = NoRow
      BY <1>1, <3>1, CallType DEF Unseen, Running
    <3>3. PICK q \in Spenders : /\ CommitSpend(q) \/ CommitSpendUnacked(q)
                                /\ pc[q] = "commit" /\ call[q].rid = call[p].rid
      BY <3>1, <3>2, RowEntered
    <3>4. q = p
      BY <3>1, <3>3 DEF NoOverlap, Running
    <3>5. pc'[p] = "done"
      BY <1>1, <3>3, <3>4 DEF CommitSpend, CommitSpendUnacked, Return, Goto, TypeOK
    <3>. QED
      BY <1>2, <3>1, <3>5 DEF Running
  <2>. QED
    BY <1>1, <1>2, <2>1 DEF Unseen, Running
<1>3. ASSUME NEW q \in Handlers, HandlerStep(q) \/ Fault(q) \/ Fail(q) PROVE Unseen(p)'
  <2>1. CASE q # p
    BY <1>1, <1>2, <1>3, <2>1, OthersFrame
  <2>2. CASE q = p
    <3>1. CASE \E answer : Return(p, answer)
      BY <3>1, ReturnUnseen
    <3>2. CASE ~ \E answer : Return(p, answer)
      <4>1. SpendStep(p) \/ SpendFault(p)
        BY <1>3, <2>2, <3>2 DEF HandlerStep, Fault, Fail
      <4>2. UNCHANGED dbVars
        BY <1>3, <2>2, <3>2, HandlerStepKinds DEF CommitSpend, CommitSpendUnacked
      <4>. QED
        BY <1>1, <4>1, <4>2, OwnUnseen DEF dbVars
    <3>. QED
      BY <3>1, <3>2
  <2>. QED
    BY <2>1, <2>2
<1>4. CASE Environment \/ UNCHANGED vars
  BY <1>2, <1>4, EnvironmentLedger DEF vars, procVars
<1>. QED
  BY <1>3, <1>4 DEF Next, Terminating

\* What left a user's balance is exactly what the ledger says was approved.
ChargedAsApproved ==
  \A u \in Users : SumFunction(AmountsOf(u)) = InitBalance[u] - balance[u]

\* Every commit then charges for what it approves, and for nothing else.
LEMMA ExactNext ==
  Inv /\ BookInv /\ PaidInv /\ UnseenInv /\ ChargedAsApproved /\ [Next]_vars
    => ChargedAsApproved'
<1> SUFFICES ASSUME Inv, BookInv, PaidInv, UnseenInv, ChargedAsApproved, [Next]_vars
             PROVE  ChargedAsApproved'
  OBVIOUS
<1>1. TypeOK /\ TypeOK' /\ IsFiniteSet(Entered)
  BY NextInv DEF Inv, PaidInv
<1>2. UNCHANGED <<ledger, balance>> => ChargedAsApproved'
  BY DEF ChargedAsApproved, AmountsOf, ApprovedOf
<1>3. ASSUME NEW rid \in RequestIDs, NEW payer \in Users, NEW paid \in Nat,
             Settles(rid, payer, paid), paid = 0 \/ Approves(rid), NEW u \in Users
      PROVE  SumFunction(AmountsOf(u)') = InitBalance[u] - balance'[u]
  <2>1. SumFunction(AmountsOf(u)) = InitBalance[u] - balance[u]
    BY DEF ChargedAsApproved
  <2>. QED
    BY <1>1, <1>3, <2>1, SettlesSum
<1>4. ASSUME NEW p \in Handlers,
             \/ p \in Spenders /\ (CommitSpend(p) \/ CommitSpendUnacked(p))
             \/ p \in Deciders /\ (CommitDecision(p) \/ CommitDecisionUnacked(p))
      PROVE  ChargedAsApproved'
  <2>1. p \in Deciders \/ tx[p].fresh
    BY <1>4 DEF CommitSpend, CommitSpendUnacked, UnseenInv, Unseen
  <2>2. PICK rid \in RequestIDs, payer \in Users, paid \in Nat :
               Settles(rid, payer, paid) /\ (paid = 0 \/ Approves(rid))
    BY <1>4, <2>1, CommitSettles
  <2>. QED
    BY <1>3, <2>2 DEF ChargedAsApproved, AmountsOf
<1>5. ASSUME NEW p \in Handlers, HandlerStep(p) \/ Fault(p) \/ Fail(p) PROVE ChargedAsApproved'
  BY <1>2, <1>4, <1>5, HandlerStepKinds DEF dbVars
<1>. QED
  BY <1>2, <1>5, EnvironmentLedger DEF Next, Terminating, vars, dbVars

LEMMA ExactInit == Init => ChargedAsApproved
<1> SUFFICES ASSUME Init, NEW u \in Users
             PROVE  SumFunction(AmountsOf(u)) = InitBalance[u] - balance[u]
  BY DEF ChargedAsApproved
<1>1. Entered = {} /\ TypeOK /\ balance = InitBalance /\ balance[u] \in Nat
  BY InitInv DEF Init, Entered, Inv, TypeOK
<1>2. IsFiniteSet(Entered) /\ ApprovedOf(u) = {}
  BY <1>1, FS_EmptySet DEF ApprovedOf, Entered
<1>3. SumFunction(AmountsOf(u)) = SumFunctionOnSet(AmountsOf(u), {})
  BY <1>1, <1>2, ApprovedRows
<1>4. SumFunctionOnSet(AmountsOf(u), {}) = 0
  BY FS_EmptySet, SumUnfolds
<1>. QED
  BY <1>1, <1>3, <1>4

\* Then no row is deducted twice, for the approved rows are among all of them.
LEMMA ExactIsOnce == TypeOK /\ PaidInv /\ ChargedAsApproved => NoDoubleCharge
<1> SUFFICES ASSUME TypeOK, IsFiniteSet(Entered), ChargedAsApproved, NEW u \in Users
             PROVE  InitBalance[u] - balance[u]
                      <= SumFunction([rid \in RowsOf(u) |-> ledger[rid].amount])
  BY DEF PaidInv, NoDoubleCharge
<1> DEFINE f == [rid \in RowsOf(u) |-> ledger[rid].amount]
           A == ApprovedOf(u)
<1>1. IsFiniteSet(RowsOf(u)) /\ A \subseteq RowsOf(u)
  <2>1. RowsOf(u) \subseteq Entered /\ A \subseteq RowsOf(u)
    BY DEF RowsOf, Entered, ApprovedOf
  <2>. QED
    BY <2>1, FS_Subset
<1>2. \A rid \in RowsOf(u) : f[rid] \in Nat
  BY DEF RowsOf, TypeOK, Rows
<1>3. /\ IsFiniteSet(A) /\ SumFunction(AmountsOf(u)) = SumFunctionOnSet(AmountsOf(u), A)
      /\ \A rid \in A : AmountsOf(u)[rid] = ledger[rid].amount
  BY ApprovedRows
<1>4. \A rid \in A : AmountsOf(u)[rid] = f[rid] /\ f[rid] \in Nat
  BY <1>1, <1>2, <1>3
<1>5. SumFunction(f) = SumFunctionOnSet(f, RowsOf(u))
  BY SumOfFunction
<1>6. SumFunctionOnSet(f, A) <= SumFunctionOnSet(f, RowsOf(u))
  <2> HIDE DEF f, A
  <2>. QED
    BY <1>1, <1>2, SumSubset
<1>7. SumFunctionOnSet(AmountsOf(u), A) = SumFunctionOnSet(f, A)
  <2> HIDE DEF f, A
  <2>. QED
    BY <1>3, <1>4, SumSame
<1>8. SumFunction(AmountsOf(u)) = InitBalance[u] - balance[u]
  BY DEF ChargedAsApproved
<1>. QED
  BY <1>3, <1>5, <1>6, <1>7, <1>8

\* The double charge of a repeated request needs two handlers at work on it at once: when none
\* overlap, a user is charged exactly for the approved rows of his agents, and so never twice for
\* a row, whatever fails or goes unacknowledged and however often it is then repeated.
THEOREM ChargedExactly == Spec /\ []NoOverlap => [](ChargedAsApproved /\ NoDoubleCharge)
<1>1. Inv /\ PaidInv /\ ChargedAsApproved => ChargedAsApproved /\ NoDoubleCharge
  BY ExactIsOnce DEF Inv
<1>. QED
  BY <1>1, UnseenInit, UnseenNext, ExactInit, ExactNext, PaidInit, PaidNext, BookInit, BookNext,
     Invariance, PTL DEF Spec

\* What is announced of a row is its outcome, and final.
Announcement(d) ==
  /\ ledger[d.rid] # NoRow /\ ledger[d.rid].status \in FinalStatuses
  /\ d.event = EventOf(ledger[d.rid].status)
AnnouncedInv == \A d \in deliveries : d.rid \in RequestIDs /\ Announcement(d)

LEMMA AnnouncedNext ==
  Inv /\ BookInv /\ UnseenInv /\ AnnouncedInv /\ [Next]_vars => AnnouncedInv'
<1> SUFFICES ASSUME Inv, BookInv, UnseenInv, AnnouncedInv, [Next]_vars, NEW d \in deliveries'
             PROVE  d.rid \in RequestIDs /\ Announcement(d)'
  BY DEF AnnouncedInv
<1> USE HandlersAssumption DEF Handlers
<1>1. TypeOK
  BY DEF Inv
<1>2. CASE d \in deliveries
  BY <1>2, RowKept DEF AnnouncedInv, Announcement
<1>3. ASSUME NEW p \in Handlers, d \in Outgoing(p), pc[p] = "commit",
             call[p].rid \in RequestIDs, ledger'[call[p].rid] \in Rows,
             ledger'[call[p].rid].status = tx[p].status, tx[p].status \in FinalStatuses
      PROVE  d.rid \in RequestIDs /\ Announcement(d)'
  <2>1. d.rid = call[p].rid /\ d.event = EventOf(tx[p].status)
    BY <1>3 DEF Outgoing
  <2>2. Announcement(d)' <=> /\ ledger'[d.rid] # NoRow /\ ledger'[d.rid].status \in FinalStatuses
                             /\ d.event = EventOf(ledger'[d.rid].status)
    BY DEF Announcement, EventOf
  <2>. QED
    BY <1>3, <2>1, <2>2, NoRowAssumption
<1>4. ASSUME NEW p \in Spenders, CommitSpend(p) \/ CommitSpendUnacked(p), d \notin deliveries
      PROVE  d.rid \in RequestIDs /\ Announcement(d)'
  <2>1. /\ pc[p] = "commit" /\ d \in Outgoing(p) /\ SpenderInv(p) /\ SpenderBook(p)
        /\ ledger' = IF tx[p].fresh THEN [ledger EXCEPT ![call[p].rid] = tx[p].row] ELSE ledger
    BY <1>4 DEF CommitSpend, CommitSpendUnacked, ApplySpend, Inv, HandlerInv, BookInv, Book
  <2>2. tx[p].fresh /\ tx[p].status \in FinalStatuses
    BY <2>1 DEF Outgoing, UnseenInv, Unseen
  <2>3. call[p].rid \in RequestIDs
    BY <2>1, CallType
  <2>4. ledger'[call[p].rid] = tx[p].row
    BY <1>1, <2>1, <2>2, <2>3 DEF TypeOK
  <2>5. tx[p].row \in Rows /\ tx[p].row.status = tx[p].status
    BY <2>1, <2>2 DEF SpenderInv, SpenderBook
  <2>. QED
    BY <1>3, <2>1, <2>2, <2>3, <2>4, <2>5
<1>5. ASSUME NEW p \in Deciders, CommitDecision(p) \/ CommitDecisionUnacked(p), d \notin deliveries
      PROVE  d.rid \in RequestIDs /\ Announcement(d)'
  <2>1. /\ pc[p] = "commit" /\ d \in Outgoing(p) /\ DeciderInv(p)
        /\ ledger' = [ledger EXCEPT ![call[p].rid].status = tx[p].status]
    BY <1>5 DEF CommitDecision, CommitDecisionUnacked, ApplyDecision, Inv, HandlerInv
  <2>2. /\ call[p].rid \in RequestIDs /\ tx[p].status \in FinalStatuses
        /\ tx[p].status \in Statuses /\ ledger[call[p].rid] \in Rows
    BY <1>1, <2>1, CallType DEF DeciderInv, IsPending, TypeOK, Statuses
  <2>3. ledger'[call[p].rid] \in Rows /\ ledger'[call[p].rid].status = tx[p].status
    BY <1>1, <2>1, <2>2, DecidedRow, Zenon
  <2>. QED
    BY <1>3, <2>1, <2>2, <2>3
<1>6. ASSUME NEW p \in Handlers, HandlerStep(p) \/ Fault(p) \/ Fail(p)
      PROVE  d.rid \in RequestIDs /\ Announcement(d)'
  BY <1>2, <1>4, <1>5, <1>6, HandlerStepKinds DEF dbVars
<1>7. CASE Environment \/ UNCHANGED vars
  <2>1. deliveries' \subseteq deliveries
    BY <1>7 DEF Environment, UpsertPolicy, SetAgentStatus, RegisterWebhook, DeleteWebhook,
                Midnight, vars, dbVars
  <2>. QED
    BY <1>2, <2>1
<1>. QED
  BY <1>6, <1>7 DEF Next, Terminating

\* So does an event that contradicts its row: when no two handlers work on one request id, every
\* delivery announces the outcome that is in the ledger, now and for good.
THEOREM EventsMatch == Spec /\ []NoOverlap => []EventMatchesStatus
<1>1. Init => AnnouncedInv
  BY DEF Init, AnnouncedInv
<1>2. AnnouncedInv => EventMatchesStatus
  BY DEF AnnouncedInv, Announcement, EventMatchesStatus, EventOf, FinalStatuses
<1>. QED
  BY <1>1, <1>2, UnseenInit, UnseenNext, AnnouncedNext, BookInit, BookNext, Invariance,
     PTL DEF Spec
=============================================================================
