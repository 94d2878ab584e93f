--------------------------- MODULE GovernorProofs ---------------------------
(***************************************************************************)
(* Proofs about Governor for every value of its constants.                 *)
(***************************************************************************)
EXTENDS Governor, TLAPS

SpendLabels    == {"idle", "check", "begin", "recheck", "lockAgent", "lockUser",
                   "lockPolicy", "rules", "create", "deduct", "findHooks", "enqueue",
                   "commit", "done"}
DecisionLabels == {"idle", "checkPending", "lockTxn", "debit", "record", "findHooks",
                   "enqueue", "commit", "done"}

\* What a spend has read and locked at each of its steps, and that it still holds:
\* its agent's row from LockAgent on, the user's row from LockUser on, and so on.
SpenderInv(p) ==
  LET req == call[p]
      a   == call[p].agent
      u   == OwnerOf[call[p].agent] IN
  /\ pc[p] \in SpendLabels
  /\ pc[p] # "idle" => req \in Requests
  /\ pc[p] \in {"create", "deduct", "findHooks", "enqueue", "commit"} =>
       tx[p].row \in Rows /\ tx[p].status \in Statuses
  /\ pc[p] \in {"lockUser", "lockPolicy", "rules", "create", "deduct", "findHooks",
                "enqueue", "commit"} => AgentRow(a) \in held[p]
  /\ pc[p] \in {"lockUser", "lockPolicy", "rules"} => agentStatus[a] # "frozen"
  /\ \/ pc[p] \in {"lockPolicy", "rules", "deduct"}
     \/ pc[p] = "create" /\ tx[p].status = "APPROVED"
     => UserRow(u) \in held[p]
  /\ pc[p] \in {"lockPolicy", "rules"} => balance[u] >= req.amount
  /\ pc[p] = "rules" =>
       PolicyRow(a) \in held[p] /\ policy[a] = tx[p].pol /\ policy[a] # NoPolicy
  /\ tx[p].charge # 0 => /\ pc[p] \in {"findHooks", "enqueue", "commit"}
                         /\ UserRow(u) \in held[p]
                         /\ tx[p].charge \in 1..balance[u]
  /\ tx[p].fresh => /\ pc[p] \in {"deduct", "findHooks", "enqueue", "commit"}
                    /\ ledger[req.rid] = NoRow

\* A decision holds the transaction's row, still pending, from LockTxn on.
DeciderInv(p) ==
  LET rid == call[p].rid IN
  /\ pc[p] \in DecisionLabels
  /\ pc[p] # "idle" => call[p] \in DecisionCalls
  /\ ~tx[p].fresh
  /\ pc[p] \in {"debit", "record", "findHooks", "enqueue", "commit"} =>
       IsPending(rid) /\ tx[p].row = ledger[rid] /\ TxnRow(rid) \in held[p]
  /\ pc[p] = "debit" => call[p].verdict = "APPROVED"
  /\ pc[p] \in {"record", "findHooks", "enqueue", "commit"} /\ call[p].verdict = "APPROVED" =>
       UserRow(Payer(p)) \in held[p]
  /\ pc[p] \in {"findHooks", "enqueue", "commit"} => tx[p].status = call[p].verdict
  /\ tx[p].charge # 0 => /\ pc[p] \in {"record", "findHooks", "enqueue", "commit"}
                         /\ UserRow(Payer(p)) \in held[p]
                         /\ tx[p].charge \in 1..balance[Payer(p)]

HandlerInv == /\ \A p \in Spenders : SpenderInv(p)
              /\ \A p \in Deciders : DeciderInv(p)

\* No row is locked by two transactions, no request id inserted by two.
Exclusion == \A p, q \in Handlers : p # q => held[p] \cap held[q] = {}
FreshKeys == \A p, q \in Spenders :
               p # q /\ tx[p].fresh /\ tx[q].fresh => call[p].rid # call[q].rid

Inv == TypeOK /\ HandlerInv /\ Exclusion /\ FreshKeys /\ AuditMatchesLedger

LEMMA InitInv == Init => Inv
<1> SUFFICES ASSUME Init PROVE Inv
  OBVIOUS
<1> USE HandlersAssumption, OwnersAssumption, RequestsAssumption, VendorsAssumption,
        PoliciesAssumption, BalanceAssumption, HooksAssumption DEF Init
<1>1. NoTx \in TxRecords
  BY DEF NoTx, TxRecords
<1>2. TypeOK
  BY <1>1 DEF TypeOK, Labels
<1>3. HandlerInv
  BY DEF HandlerInv, SpenderInv, DeciderInv, SpendLabels, DecisionLabels, Handlers, NoTx
<1>4. Exclusion /\ FreshKeys /\ AuditMatchesLedger
  BY DEF Exclusion, FreshKeys, AuditMatchesLedger, NoTx, Handlers
<1>. QED
  BY <1>2, <1>3, <1>4 DEF Inv

(***************************************************************************)
(* Types                                                                   *)
(***************************************************************************)

ProcTypes ==
  /\ pc \in [Handlers -> Labels]
  /\ call \in [Handlers -> SpendCalls \cup DecisionCalls \cup {NoCall}]
  /\ resp \in [Handlers -> Answers \cup {NoResp}]
  /\ held \in [Handlers -> SUBSET LockableRows]
  /\ tx \in [Handlers -> TxRecords]

LEMMA ReturnTypes ==
  ASSUME TypeOK, NEW p \in Handlers, NEW answer \in Answers, Return(p, answer)
  PROVE  /\ pc' \in [Handlers -> Labels]
         /\ resp' \in [Handlers -> Answers \cup {NoResp}]
         /\ held' \in [Handlers -> SUBSET LockableRows]
         /\ tx' \in [Handlers -> TxRecords]
<1>1. NoTx \in TxRecords
  BY DEF NoTx, TxRecords
<1>. QED
  BY <1>1 DEF TypeOK, Return, Goto, Labels

LEMMA AnswerTypes ==
  /\ \A row \in Rows : Answer(row) \in Answers
  /\ \A s \in Statuses : ApiStatus(s) \in {"approved", "denied", "pending_approval"}
  /\ InternalError \in Answers
  /\ \A why \in {"agent_frozen", "no_permission", "not_pending", "insufficient_balance"} :
       Refusal(why) \in Answers
BY DEF Answer, ApiStatus, InternalError, Refusal, Answers, Rows, Reasons, Statuses, FinalStatuses

\* The rows a spend may lock exist.
LEMMA LockTypes ==
  /\ \A a \in Agents : {AgentRow(a), PolicyRow(a), UserRow(OwnerOf[a])} \subseteq LockableRows
  /\ \A rid \in RequestIDs : TxnRow(rid) \in LockableRows
BY OwnersAssumption DEF LockableRows

LEMMA NewRowType ==
  ASSUME TypeOK, NEW p \in Spenders, call[p] \in Requests,
         NEW s \in Statuses, NEW reason \in Reasons
  PROVE  NewRow(call[p], s, reason, tx[p].began) \in Rows
<1>1. call[p] \in SpendCalls /\ call[p].amount \in Nat
  BY RequestsAssumption, BalanceAssumption
<1>2. tx[p].began \in Nat
  BY DEF TypeOK, TxRecords, Handlers
<1>. QED
  BY <1>1, <1>2, VendorsAssumption DEF NewRow, Rows, SpendCalls

LEMMA OutgoingTypes ==
  ASSUME TypeOK, NEW p \in Handlers, call[p].rid \in RequestIDs, tx[p].row \in Rows
  PROVE  Outgoing(p) \subseteq [by: Handlers, hook: Hooks, rid: RequestIDs, event: Events,
                                status: {"approved", "denied", "pending_approval"}]
<1>1. tx[p].out \subseteq Hooks
  BY DEF TypeOK, TxRecords
<1>2. EventOf(tx[p].status) \in Events
  BY DEF EventOf, Events
<1>3. ApiStatus(tx[p].row.status) \in {"approved", "denied", "pending_approval"}
  BY AnswerTypes DEF Rows
<1>. QED
  BY <1>1, <1>2, <1>3 DEF Outgoing

(***************************************************************************)
(* What an assignment to tx changes and what it keeps                      *)
(***************************************************************************)

LEMMA SetBegan ==
  ASSUME TypeOK, NEW p \in Handlers, NEW x \in Nat, tx' = [tx EXCEPT ![p].began = x]
  PROVE  /\ tx' \in [Handlers -> TxRecords]
         /\ \A q \in Handlers \ {p} : tx'[q] = tx[q]
         /\ tx'[p].began = x /\ tx'[p].pol = tx[p].pol
         /\ tx'[p].row = tx[p].row /\ tx'[p].status = tx[p].status
         /\ tx'[p].fresh = tx[p].fresh /\ tx'[p].charge = tx[p].charge
         /\ tx'[p].out = tx[p].out
BY DEF TypeOK, TxRecords

LEMMA SetPolicy ==
  ASSUME TypeOK, NEW p \in Handlers, NEW x \in PolicyRows, tx' = [tx EXCEPT ![p].pol = x]
  PROVE  /\ tx' \in [Handlers -> TxRecords]
         /\ \A q \in Handlers \ {p} : tx'[q] = tx[q]
         /\ tx'[p].began = tx[p].began /\ tx'[p].pol = x
         /\ tx'[p].row = tx[p].row /\ tx'[p].status = tx[p].status
         /\ tx'[p].fresh = tx[p].fresh /\ tx'[p].charge = tx[p].charge
         /\ tx'[p].out = tx[p].out
BY DEF TypeOK, TxRecords

LEMMA SetRow ==
  ASSUME TypeOK, NEW p \in Handlers, NEW x \in Rows, tx' = [tx EXCEPT ![p].row = x]
  PROVE  /\ tx' \in [Handlers -> TxRecords]
         /\ \A q \in Handlers \ {p} : tx'[q] = tx[q]
         /\ tx'[p].began = tx[p].began /\ tx'[p].pol = tx[p].pol
         /\ tx'[p].row = x /\ tx'[p].status = tx[p].status
         /\ tx'[p].fresh = tx[p].fresh /\ tx'[p].charge = tx[p].charge
         /\ tx'[p].out = tx[p].out
BY DEF TypeOK, TxRecords

LEMMA SetStatus ==
  ASSUME TypeOK, NEW p \in Handlers, NEW x \in Statuses, tx' = [tx EXCEPT ![p].status = x]
  PROVE  /\ tx' \in [Handlers -> TxRecords]
         /\ \A q \in Handlers \ {p} : tx'[q] = tx[q]
         /\ tx'[p].began = tx[p].began /\ tx'[p].pol = tx[p].pol
         /\ tx'[p].row = tx[p].row /\ tx'[p].status = x
         /\ tx'[p].fresh = tx[p].fresh /\ tx'[p].charge = tx[p].charge
         /\ tx'[p].out = tx[p].out
BY DEF TypeOK, TxRecords

LEMMA SettleTx ==
  ASSUME TypeOK, NEW p \in Handlers, NEW s \in Statuses, NEW reason \in Reasons,
         NewRow(call[p], s, reason, tx[p].began) \in Rows, Settle(p, s, reason)
  PROVE  /\ tx' \in [Handlers -> TxRecords]
         /\ \A q \in Handlers \ {p} : tx'[q] = tx[q]
         /\ tx'[p].began = tx[p].began /\ tx'[p].pol = tx[p].pol
         /\ tx'[p].row = NewRow(call[p], s, reason, tx[p].began) /\ tx'[p].status = s
         /\ tx'[p].fresh = tx[p].fresh /\ tx'[p].charge = tx[p].charge
         /\ tx'[p].out = tx[p].out
BY ZenonT(60) DEF Settle, TypeOK, TxRecords

LEMMA SetFresh ==
  ASSUME TypeOK, NEW p \in Handlers, tx' = [tx EXCEPT ![p].fresh = TRUE]
  PROVE  /\ tx' \in [Handlers -> TxRecords]
         /\ \A q \in Handlers \ {p} : tx'[q] = tx[q]
         /\ tx'[p].began = tx[p].began /\ tx'[p].pol = tx[p].pol
         /\ tx'[p].row = tx[p].row /\ tx'[p].status = tx[p].status
         /\ tx'[p].fresh /\ tx'[p].charge = tx[p].charge
         /\ tx'[p].out = tx[p].out
BY DEF TypeOK, TxRecords

LEMMA SetCharge ==
  ASSUME TypeOK, NEW p \in Handlers, NEW x \in Int, tx' = [tx EXCEPT ![p].charge = x]
  PROVE  /\ tx' \in [Handlers -> TxRecords]
         /\ \A q \in Handlers \ {p} : tx'[q] = tx[q]
         /\ tx'[p].began = tx[p].began /\ tx'[p].pol = tx[p].pol
         /\ tx'[p].row = tx[p].row /\ tx'[p].status = tx[p].status
         /\ tx'[p].fresh = tx[p].fresh /\ tx'[p].charge = x
         /\ tx'[p].out = tx[p].out
BY DEF TypeOK, TxRecords

LEMMA SetOut ==
  ASSUME TypeOK, NEW p \in Handlers, NEW x \in SUBSET Hooks, tx' = [tx EXCEPT ![p].out = x]
  PROVE  /\ tx' \in [Handlers -> TxRecords]
         /\ \A q \in Handlers \ {p} : tx'[q] = tx[q]
         /\ tx'[p].began = tx[p].began /\ tx'[p].pol = tx[p].pol
         /\ tx'[p].row = tx[p].row /\ tx'[p].status = tx[p].status
         /\ tx'[p].fresh = tx[p].fresh /\ tx'[p].charge = tx[p].charge
         /\ tx'[p].out = x
BY DEF TypeOK, TxRecords

(***************************************************************************)
(* Steps that leave the tables alone                                       *)
(***************************************************************************)

HInv(p) == /\ p \in Spenders => SpenderInv(p)
           /\ p \in Deciders => DeciderInv(p)

\* Only handler p changes.
Frame(p) ==
  \A q \in Handlers \ {p} :
    pc'[q] = pc[q] /\ call'[q] = call[q] /\ held'[q] = held[q] /\ tx'[q] = tx[q]

\* Handler p neither takes a row locked by another nor inserts a key another has
\* inserted.
Exclusive(p) ==
  /\ \A q \in Handlers \ {p} : held'[p] \cap held[q] = {}
  /\ \A q \in Spenders \ {p} :
       p \in Spenders /\ tx'[p].fresh /\ tx[q].fresh => call[q].rid # call'[p].rid

LEMMA FrameInv ==
  ASSUME HandlerInv, NEW p \in Handlers, Frame(p), UNCHANGED dbVars, HInv(p)'
  PROVE  HandlerInv'
<1> USE HandlersAssumption
<1>1. ASSUME NEW q \in Spenders PROVE SpenderInv(q)'
  <2>1. CASE q = p
    BY <2>1 DEF HInv
  <2>2. CASE q # p
    BY <2>2 DEF HandlerInv, SpenderInv, Frame, Handlers, dbVars
  <2>. QED
    BY <2>1, <2>2
<1>2. ASSUME NEW q \in Deciders PROVE DeciderInv(q)'
  <2>1. CASE q = p
    BY <2>1 DEF HInv
  <2>2. CASE q # p
    BY <2>2 DEF HandlerInv, DeciderInv, Frame, Handlers, dbVars, Payer, IsPending
  <2>. QED
    BY <2>1, <2>2
<1>. QED
  BY <1>1, <1>2 DEF HandlerInv

LEMMA ExclusiveInv ==
  ASSUME Exclusion, FreshKeys, NEW p \in Handlers, Frame(p), Exclusive(p)
  PROVE  Exclusion' /\ FreshKeys'
<1>1. Exclusion'
  BY DEF Exclusion, Frame, Exclusive
<1>2. FreshKeys'
  BY DEF FreshKeys, Frame, Exclusive, Handlers
<1>. QED
  BY <1>1, <1>2

LEMMA QuietInv ==
  ASSUME Inv, NEW p \in Handlers, UNCHANGED dbVars,
         ProcTypes', Frame(p), HInv(p)', Exclusive(p)
  PROVE  Inv'
<1>1. TypeOK'
  BY DEF Inv, TypeOK, ProcTypes, dbVars
<1>2. AuditMatchesLedger'
  BY DEF Inv, AuditMatchesLedger, dbVars
<1>. QED
  BY <1>1, <1>2, FrameInv, ExclusiveInv DEF Inv

\* Every answer that ends a call without a commit.
LEMMA ReturnInv ==
  ASSUME Inv, NEW p \in Handlers, NEW answer \in Answers, Return(p, answer),
         UNCHANGED dbVars,
         call' \in [Handlers -> SpendCalls \cup DecisionCalls \cup {NoCall}],
         \A q \in Handlers \ {p} : call'[q] = call[q],
         p \in Spenders => call'[p] \in Requests,
         p \in Deciders => call'[p] \in DecisionCalls
  PROVE  Inv'
<1> USE HandlersAssumption
<1>1. TypeOK
  BY DEF Inv
<1>2. /\ pc'[p] = "done" /\ held'[p] = {} /\ tx'[p] = NoTx
      /\ Frame(p)
  BY <1>1 DEF TypeOK, Return, Goto, Frame
<1>3. ProcTypes'
  BY <1>1, ReturnTypes DEF ProcTypes
<1>4. HInv(p)'
  <2>1. NoTx.charge = 0 /\ ~NoTx.fresh
    BY DEF NoTx
  <2>. QED
    BY <1>2, <2>1 DEF HInv, SpenderInv, DeciderInv, SpendLabels, DecisionLabels
<1>5. Exclusive(p)
  BY <1>2 DEF Exclusive, NoTx
<1>. QED
  BY <1>2, <1>3, <1>4, <1>5, QuietInv

\* A called handler has a call of its own kind.
LEMMA CallType ==
  ASSUME Inv, NEW p \in Handlers, pc[p] # "idle"
  PROVE  /\ p \in Spenders => /\ call[p] \in Requests /\ call[p] \in SpendCalls
                              /\ call[p].amount \in Nat \ {0}
                              /\ call[p].rid \in RequestIDs /\ call[p].agent \in Agents
         /\ p \in Deciders => /\ call[p] \in DecisionCalls /\ call[p].rid \in RequestIDs
                              /\ call[p].verdict \in FinalStatuses
BY RequestsAssumption, BalanceAssumption
   DEF Inv, HandlerInv, SpenderInv, DeciderInv, SpendCalls, DecisionCalls

LEMMA FailInv == ASSUME Inv, NEW p \in Handlers, Fail(p) PROVE Inv'
<1>1. pc[p] # "idle"
  BY DEF Fail
<1>. QED
  BY <1>1, ReturnInv, CallType, AnswerTypes DEF Fail, Inv, TypeOK

\* A step to another label with nothing else changed, which establishes what the
\* invariant says of the new label.
LEMMA WalkInv ==
  ASSUME Inv, NEW p \in Handlers, NEW label \in Labels, Goto(p, label),
         UNCHANGED <<dbVars, call, resp, held, tx>>, HInv(p)'
  PROVE  Inv'
<1>1. ProcTypes' /\ Frame(p) /\ pc'[p] = label
  BY DEF Goto, ProcTypes, Inv, TypeOK, Frame
<1>2. Exclusive(p)
  BY DEF Exclusive, Inv, Exclusion, FreshKeys
<1>. QED
  BY <1>1, <1>2, QuietInv

(***************************************************************************)
(* The steps of a spend                                                    *)
(***************************************************************************)

LEMMA AuthenticateInv ==
  ASSUME Inv, NEW p \in Spenders, NEW req \in Requests, Authenticate(p, req)
  PROVE  Inv'
<1> USE HandlersAssumption, RequestsAssumption DEF Handlers
<1>1. /\ call' \in [Handlers -> SpendCalls \cup DecisionCalls \cup {NoCall}]
      /\ \A q \in Handlers \ {p} : call'[q] = call[q]
      /\ call'[p] = req
      /\ UNCHANGED dbVars
  BY DEF Authenticate, Inv, TypeOK
<1>2. CASE Return(p, Refusal("agent_frozen"))
  BY <1>1, <1>2, ReturnInv, AnswerTypes
<1>3. CASE Goto(p, "check") /\ UNCHANGED <<resp, held, tx>>
  <2>1. ProcTypes' /\ Frame(p) /\ pc'[p] = "check"
    BY <1>1, <1>3 DEF Goto, ProcTypes, Inv, TypeOK, Frame, Labels
  <2>2. tx[p].charge = 0 /\ ~tx[p].fresh
    BY DEF Authenticate, Inv, HandlerInv, SpenderInv, TypeOK, TxRecords
  <2>3. HInv(p)'
    BY <1>1, <1>3, <2>1, <2>2 DEF HInv, SpenderInv, SpendLabels
  <2>4. Exclusive(p)
    BY <1>3, <2>2 DEF Exclusive, Inv, Exclusion
  <2>. QED
    BY <1>1, <2>1, <2>3, <2>4, QuietInv
<1>. QED
  BY <1>2, <1>3 DEF Authenticate

LEMMA AnswerExistingInv ==
  ASSUME Inv, NEW p \in Spenders, AnswerExisting(p) PROVE Inv'
<1>1. pc[p] # "idle" /\ p \in Handlers
  BY DEF AnswerExisting, Handlers
<1>2. Answer(ledger[call[p].rid]) \in Answers
  BY <1>1, CallType, AnswerTypes DEF AnswerExisting, Inv, TypeOK
<1>. QED
  BY <1>1, <1>2, ReturnInv, CallType, HandlersAssumption DEF AnswerExisting, Inv, TypeOK

LEMMA WalkingSpendInv ==
  ASSUME Inv, NEW p \in Spenders, FastCheck(p) \/ Recheck(p) \/ SkipHooks(p)
  PROVE  Inv'
<1> USE HandlersAssumption DEF Handlers
<1>1. SpenderInv(p)
  BY DEF Inv, HandlerInv
<1>2. CASE FastCheck(p)
  BY <1>1, <1>2, WalkInv DEF FastCheck, Goto, HInv, SpenderInv, SpendLabels, Labels, dbVars, Inv, TypeOK
<1>3. CASE Recheck(p)
  BY <1>1, <1>3, WalkInv DEF Recheck, Goto, HInv, SpenderInv, SpendLabels, Labels, dbVars, Inv, TypeOK
<1>4. CASE SkipHooks(p)
  BY <1>1, <1>4, WalkInv DEF SkipHooks, Goto, HInv, SpenderInv, SpendLabels, Labels, dbVars, Inv, TypeOK
<1>. QED
  BY <1>2, <1>3, <1>4

LEMMA BeginInv == ASSUME Inv, NEW p \in Spenders, Begin(p) PROVE Inv'
<1> USE HandlersAssumption DEF Handlers
<1>1. SpenderInv(p) /\ today \in Nat /\ TypeOK
  BY DEF Inv, HandlerInv, TypeOK
<1>2. /\ tx' \in [Handlers -> TxRecords]
      /\ \A q \in Handlers \ {p} : tx'[q] = tx[q]
      /\ tx'[p].fresh = tx[p].fresh /\ tx'[p].charge = tx[p].charge
  BY <1>1, SetBegan DEF Begin
<1>3. /\ pc[p] = "begin" /\ Goto(p, "recheck") /\ UNCHANGED <<dbVars, call, resp, held>>
  BY DEF Begin
<1>4. ProcTypes' /\ Frame(p) /\ pc'[p] = "recheck"
  BY <1>1, <1>2, <1>3 DEF Goto, ProcTypes, TypeOK, Frame, Labels
<1>5. HInv(p)'
  BY <1>1, <1>2, <1>3, <1>4 DEF HInv, SpenderInv, SpendLabels
<1>6. Exclusive(p)
  BY <1>1, <1>2, <1>3 DEF Exclusive, Inv, Exclusion, SpenderInv
<1>. QED
  BY <1>3, <1>4, <1>5, <1>6, QuietInv

\* Locking a row that no other transaction has.
LEMMA HoldEffect ==
  ASSUME Inv, NEW p \in Handlers, NEW r \in LockableRows, Unlocked(p, r), Hold(p, r)
  PROVE  /\ held' \in [Handlers -> SUBSET LockableRows]
         /\ \A q \in Handlers \ {p} : held'[q] = held[q] /\ held'[p] \cap held[q] = {}
         /\ r \in held'[p] /\ held[p] \subseteq held'[p]
BY DEF Inv, TypeOK, Hold, Unlocked, Exclusion

\* The rules are settled by a handler that has what the outcome needs.
LEMMA SettleInv ==
  ASSUME Inv, NEW p \in Spenders, NEW s \in Statuses, NEW reason \in Reasons,
         Settle(p, s, reason), pc[p] \in {"lockAgent", "lockUser", "lockPolicy", "rules"},
         UNCHANGED <<dbVars, call, resp>>,
         held' \in [Handlers -> SUBSET LockableRows],
         \A q \in Handlers \ {p} : held'[q] = held[q] /\ held'[p] \cap held[q] = {},
         AgentRow(call[p].agent) \in held'[p],
         s = "APPROVED" => UserRow(OwnerOf[call[p].agent]) \in held'[p]
  PROVE  Inv'
<1> USE HandlersAssumption DEF Handlers
<1>1. SpenderInv(p) /\ TypeOK /\ call[p] \in Requests
  BY DEF Inv, HandlerInv, SpenderInv
<1>2. NewRow(call[p], s, reason, tx[p].began) \in Rows
  BY <1>1, NewRowType
<1>3. /\ tx' \in [Handlers -> TxRecords]
      /\ \A q \in Handlers \ {p} : tx'[q] = tx[q]
      /\ tx'[p].fresh = tx[p].fresh /\ tx'[p].charge = tx[p].charge
      /\ tx'[p].row \in Rows /\ tx'[p].status = s
  BY <1>1, <1>2, SettleTx
<1>4. Goto(p, "create")
  BY DEF Settle
<1>5. ProcTypes' /\ Frame(p) /\ pc'[p] = "create"
  BY <1>1, <1>3, <1>4 DEF Goto, ProcTypes, TypeOK, Frame, Labels
<1>6. HInv(p)'
  BY <1>1, <1>3, <1>5 DEF HInv, SpenderInv, SpendLabels
<1>7. Exclusive(p)
  BY <1>1, <1>3 DEF Exclusive, SpenderInv
<1>. QED
  BY <1>5, <1>6, <1>7, QuietInv

LEMMA LockAgentInv == ASSUME Inv, NEW p \in Spenders, LockAgent(p) PROVE Inv'
<1> DEFINE a == call[p].agent
<1> USE HandlersAssumption DEF Handlers
<1>1. /\ pc[p] = "lockAgent" /\ Unlocked(p, AgentRow(a)) /\ Hold(p, AgentRow(a))
      /\ UNCHANGED <<dbVars, call, resp>>
  BY DEF LockAgent
<1>2. SpenderInv(p) /\ TypeOK /\ a \in Agents
  BY <1>1, CallType DEF Inv, HandlerInv
<1>3. /\ held' \in [Handlers -> SUBSET LockableRows]
      /\ \A q \in Handlers \ {p} : held'[q] = held[q] /\ held'[p] \cap held[q] = {}
      /\ AgentRow(a) \in held'[p] /\ held[p] \subseteq held'[p]
  BY <1>1, <1>2, HoldEffect, LockTypes
<1>4. CASE Deny(p, "agent_frozen")
  BY <1>1, <1>3, <1>4, SettleInv DEF Deny, Statuses, FinalStatuses, Reasons
<1>5. CASE agentStatus[a] # "frozen" /\ Goto(p, "lockUser") /\ UNCHANGED tx
  <2>1. ProcTypes' /\ Frame(p) /\ pc'[p] = "lockUser"
    BY <1>1, <1>2, <1>3, <1>5 DEF Goto, ProcTypes, TypeOK, Frame, Labels
  <2>2. HInv(p)'
    BY <1>1, <1>2, <1>3, <1>5, <2>1 DEF HInv, SpenderInv, SpendLabels, dbVars
  <2>3. Exclusive(p)
    BY <1>1, <1>2, <1>3, <1>5 DEF Exclusive, SpenderInv
  <2>. QED
    BY <1>1, <2>1, <2>2, <2>3, QuietInv
<1>. QED
  BY <1>4, <1>5 DEF LockAgent

LEMMA LockUserInv == ASSUME Inv, NEW p \in Spenders, LockUser(p) PROVE Inv'
<1> DEFINE u == OwnerOf[call[p].agent]
<1> USE HandlersAssumption DEF Handlers
<1>1. /\ pc[p] = "lockUser" /\ Unlocked(p, UserRow(u)) /\ Hold(p, UserRow(u))
      /\ UNCHANGED <<dbVars, call, resp>>
  BY DEF LockUser
<1>2. SpenderInv(p) /\ TypeOK /\ call[p].agent \in Agents
  BY <1>1, CallType DEF Inv, HandlerInv
<1>3. /\ held' \in [Handlers -> SUBSET LockableRows]
      /\ \A q \in Handlers \ {p} : held'[q] = held[q] /\ held'[p] \cap held[q] = {}
      /\ UserRow(u) \in held'[p] /\ held[p] \subseteq held'[p]
  BY <1>1, <1>2, HoldEffect, LockTypes
<1>4. AgentRow(call[p].agent) \in held'[p]
  BY <1>1, <1>2, <1>3 DEF SpenderInv
<1>5. CASE Deny(p, "insufficient_balance")
  BY <1>1, <1>3, <1>4, <1>5, SettleInv DEF Deny, Statuses, FinalStatuses, Reasons
<1>6. CASE balance[u] >= call[p].amount /\ Goto(p, "lockPolicy") /\ UNCHANGED tx
  <2>1. ProcTypes' /\ Frame(p) /\ pc'[p] = "lockPolicy"
    BY <1>1, <1>2, <1>3, <1>6 DEF Goto, ProcTypes, TypeOK, Frame, Labels
  <2>2. HInv(p)'
    BY <1>1, <1>2, <1>3, <1>4, <1>6, <2>1 DEF HInv, SpenderInv, SpendLabels, dbVars
  <2>3. Exclusive(p)
    BY <1>1, <1>2, <1>3, <1>6 DEF Exclusive, SpenderInv
  <2>. QED
    BY <1>1, <2>1, <2>2, <2>3, QuietInv
<1>. QED
  BY <1>5, <1>6 DEF LockUser

LEMMA LockPolicyInv == ASSUME Inv, NEW p \in Spenders, LockPolicy(p) PROVE Inv'
<1> DEFINE a == call[p].agent
<1> USE HandlersAssumption DEF Handlers
<1>1. pc[p] = "lockPolicy" /\ UNCHANGED <<dbVars, call, resp>>
  BY DEF LockPolicy
<1>2. SpenderInv(p) /\ TypeOK /\ a \in Agents
  BY <1>1, CallType DEF Inv, HandlerInv
<1>3. AgentRow(a) \in held[p] /\ UserRow(OwnerOf[a]) \in held[p]
  BY <1>1, <1>2 DEF SpenderInv
<1>4. CASE policy[a] = NoPolicy /\ Deny(p, "no_policy") /\ UNCHANGED held
  <2>1. /\ held' \in [Handlers -> SUBSET LockableRows]
        /\ \A q \in Handlers \ {p} : held'[q] = held[q] /\ held'[p] \cap held[q] = {}
    BY <1>4 DEF Inv, TypeOK, Exclusion
  <2>. QED
    BY <1>1, <1>3, <1>4, <2>1, SettleInv DEF Deny, Statuses, FinalStatuses, Reasons
<1>5. CASE /\ policy[a] # NoPolicy
           /\ Unlocked(p, PolicyRow(a)) /\ Hold(p, PolicyRow(a))
           /\ tx' = [tx EXCEPT ![p].pol = policy[a]] /\ Goto(p, "rules")
  <2>1. /\ held' \in [Handlers -> SUBSET LockableRows]
        /\ \A q \in Handlers \ {p} : held'[q] = held[q] /\ held'[p] \cap held[q] = {}
        /\ PolicyRow(a) \in held'[p] /\ held[p] \subseteq held'[p]
    BY <1>2, <1>5, HoldEffect, LockTypes
  <2>2. policy[a] \in PolicyRows
    BY <1>2, <1>5 DEF TypeOK
  <2>3. /\ tx' \in [Handlers -> TxRecords]
        /\ \A q \in Handlers \ {p} : tx'[q] = tx[q]
        /\ tx'[p].fresh = tx[p].fresh /\ tx'[p].charge = tx[p].charge
        /\ tx'[p].pol = policy[a]
    BY <1>2, <1>5, <2>2, SetPolicy
  <2>4. Goto(p, "rules") /\ policy[a] # NoPolicy
    BY <1>5
  <2>5. ProcTypes' /\ Frame(p) /\ pc'[p] = "rules"
    BY <1>1, <1>2, <2>1, <2>3, <2>4 DEF Goto, ProcTypes, TypeOK, Frame, Labels
  <2>6. HInv(p)'
    BY <1>1, <1>2, <1>3, <2>1, <2>3, <2>4, <2>5 DEF HInv, SpenderInv, SpendLabels, dbVars
  <2>7. Exclusive(p)
    BY <1>1, <1>2, <2>1, <2>3 DEF Exclusive, SpenderInv
  <2>. QED
    BY <1>1, <2>5, <2>6, <2>7, QuietInv
<1>. QED
  BY <1>4, <1>5 DEF LockPolicy

LEMMA EvaluateRulesInv == ASSUME Inv, NEW p \in Spenders, EvaluateRules(p) PROVE Inv'
<1> USE HandlersAssumption DEF Handlers
<1>1. /\ pc[p] = "rules" /\ UNCHANGED <<dbVars, call, resp, held>>
      /\ \E s \in Statuses, reason \in Reasons : Settle(p, s, reason)
  BY DEF EvaluateRules, Deny, Statuses, FinalStatuses, Reasons
<1>2. SpenderInv(p)
  BY DEF Inv, HandlerInv
<1>3. /\ held' \in [Handlers -> SUBSET LockableRows]
      /\ \A q \in Handlers \ {p} : held'[q] = held[q] /\ held'[p] \cap held[q] = {}
  BY <1>1 DEF Inv, TypeOK, Exclusion
<1>4. /\ AgentRow(call[p].agent) \in held'[p]
      /\ UserRow(OwnerOf[call[p].agent]) \in held'[p]
  BY <1>1, <1>2 DEF SpenderInv
<1>. QED
  BY <1>1, <1>3, <1>4, SettleInv

LEMMA CreateTxnInv == ASSUME Inv, NEW p \in Spenders, CreateTxn(p) PROVE Inv'
<1> DEFINE rid == call[p].rid
<1> USE HandlersAssumption DEF Handlers
<1>1. /\ pc[p] = "create" /\ Goto(p, AfterCreate(p))
      /\ \A q \in Spenders \ {p} : ~(tx[q].fresh /\ call[q].rid = rid)
      /\ UNCHANGED <<dbVars, call, resp, held>>
  BY DEF CreateTxn, InsertUncommitted
<1>2. SpenderInv(p) /\ TypeOK /\ rid \in RequestIDs
  BY <1>1, CallType DEF Inv, HandlerInv
<1>3. /\ tx' \in [Handlers -> TxRecords]
      /\ \A q \in Handlers \ {p} : tx'[q] = tx[q]
      /\ tx'[p].row \in Rows /\ tx'[p].status = tx[p].status
      /\ tx'[p].charge = tx[p].charge
      /\ tx'[p].fresh => tx[p].fresh \/ ledger[rid] = NoRow
  <2>1. CASE ledger[rid] = NoRow /\ tx' = [tx EXCEPT ![p].fresh = TRUE]
    BY <1>1, <1>2, <2>1, SetFresh DEF SpenderInv
  <2>2. CASE ledger[rid] # NoRow /\ tx' = [tx EXCEPT ![p].row = ledger[rid]]
    <3>1. ledger[rid] \in Rows
      BY <1>2, <2>2 DEF TypeOK
    <3>. QED
      BY <1>2, <2>2, <3>1, SetRow
  <2>. QED
    BY <2>1, <2>2 DEF CreateTxn
<1>4. /\ AfterCreate(p) \in {"deduct", "findHooks", "commit"}
      /\ AfterCreate(p) = "deduct" => tx[p].status = "APPROVED"
  BY Zenon DEF AfterCreate
<1>5. ProcTypes' /\ Frame(p) /\ pc'[p] = AfterCreate(p)
  BY <1>1, <1>2, <1>3, <1>4 DEF Goto, ProcTypes, TypeOK, Frame, Labels
<1>6. tx[p].charge = 0 /\ ~tx[p].fresh /\ tx[p].status \in Statuses
  BY <1>1, <1>2 DEF SpenderInv
<1>7. HInv(p)'
  BY <1>1, <1>2, <1>3, <1>4, <1>5, <1>6 DEF HInv, SpenderInv, SpendLabels, dbVars
<1>8. Exclusive(p)
  BY <1>1, <1>3 DEF Exclusive, Inv, Exclusion
<1>. QED
  BY <1>1, <1>5, <1>7, <1>8, QuietInv

LEMMA DeductBalanceInv == ASSUME Inv, NEW p \in Spenders, DeductBalance(p) PROVE Inv'
<1> USE HandlersAssumption DEF Handlers
<1>1. /\ pc[p] = "deduct" /\ Goto(p, "findHooks")
      /\ balance[OwnerOf[call[p].agent]] >= call[p].amount
      /\ UNCHANGED <<dbVars, call, resp, held>>
  BY DEF DeductBalance
<1>2. /\ SpenderInv(p) /\ TypeOK /\ call[p].amount \in Nat \ {0}
      /\ balance[OwnerOf[call[p].agent]] \in Nat
  BY <1>1, CallType, OwnersAssumption DEF Inv, HandlerInv, TypeOK
<1>3. /\ tx' \in [Handlers -> TxRecords]
      /\ \A q \in Handlers \ {p} : tx'[q] = tx[q]
      /\ tx'[p].row = tx[p].row /\ tx'[p].status = tx[p].status
      /\ tx'[p].fresh = tx[p].fresh /\ tx'[p].charge = call[p].amount
  <2>1. call[p].amount \in Int
    BY <1>2
  <2>. QED
    BY <1>2, <2>1, SetCharge, Zenon DEF DeductBalance
<1>4. ProcTypes' /\ Frame(p) /\ pc'[p] = "findHooks"
  BY <1>1, <1>2, <1>3 DEF Goto, ProcTypes, TypeOK, Frame, Labels
<1>5. HInv(p)'
  BY <1>1, <1>2, <1>3, <1>4 DEF HInv, SpenderInv, SpendLabels, dbVars
<1>6. Exclusive(p)
  BY <1>1, <1>3 DEF Exclusive, Inv, Exclusion, FreshKeys
<1>. QED
  BY <1>1, <1>4, <1>5, <1>6, QuietInv

(***************************************************************************)
(* The steps both services share                                           *)
(***************************************************************************)

LEMMA FindHooksInv == ASSUME Inv, NEW p \in Handlers, FindHooks(p) PROVE Inv'
<1> USE HandlersAssumption
<1>1. pc[p] = "findHooks" /\ Goto(p, "enqueue") /\ UNCHANGED <<dbVars, call, resp, held>>
  BY DEF FindHooks
<1>2. TypeOK
  BY DEF Inv
<1>3. /\ tx' \in [Handlers -> TxRecords]
      /\ \A q \in Handlers \ {p} : tx'[q] = tx[q]
      /\ tx'[p].row = tx[p].row /\ tx'[p].status = tx[p].status
      /\ tx'[p].fresh = tx[p].fresh /\ tx'[p].charge = tx[p].charge
  <2>1. Subscribers(tx[p].row.agent, EventOf(tx[p].status)) \in SUBSET Hooks
    BY DEF Subscribers
  <2>. QED
    BY <1>2, <2>1, SetOut DEF FindHooks
<1>4. ProcTypes' /\ Frame(p) /\ pc'[p] = "enqueue"
  BY <1>1, <1>2, <1>3 DEF Goto, ProcTypes, TypeOK, Frame, Labels
<1>5. ASSUME p \in Spenders PROVE SpenderInv(p)'
  BY <1>1, <1>3, <1>4, <1>5 DEF SpenderInv, SpendLabels, dbVars, Inv, HandlerInv
<1>6. ASSUME p \in Deciders PROVE DeciderInv(p)'
  BY <1>1, <1>3, <1>4, <1>6
     DEF DeciderInv, DecisionLabels, dbVars, Inv, HandlerInv, Payer, IsPending
<1>7. Exclusive(p)
  BY <1>1, <1>3 DEF Exclusive, Inv, Exclusion, FreshKeys
<1>. QED
  BY <1>1, <1>4, <1>5, <1>6, <1>7, QuietInv DEF HInv

LEMMA InsertDeliveriesInv ==
  ASSUME Inv, NEW p \in Handlers, InsertDeliveries(p) PROVE Inv'
<1> USE HandlersAssumption
<1>1. /\ pc[p] = "enqueue" /\ Goto(p, "commit")
      /\ UNCHANGED <<dbVars, call, resp, held, tx>>
  BY DEF InsertDeliveries
<1>2. pc'[p] = "commit"
  BY <1>1 DEF Goto, Inv, TypeOK
<1>3. ASSUME p \in Spenders PROVE SpenderInv(p)'
  BY <1>1, <1>2, <1>3 DEF SpenderInv, SpendLabels, dbVars, Inv, HandlerInv
<1>4. ASSUME p \in Deciders PROVE DeciderInv(p)'
  BY <1>1, <1>2, <1>4
     DEF DeciderInv, DecisionLabels, dbVars, Inv, HandlerInv, Payer, IsPending
<1>. QED
  BY <1>1, <1>3, <1>4, WalkInv DEF HInv, Labels

\* The row a handler answers from is a row of the ledger's type.
LEMMA CarriedRow ==
  ASSUME Inv, NEW p \in Handlers, pc[p] \in {"findHooks", "enqueue", "commit"}
  PROVE  tx[p].row \in Rows /\ tx[p].status \in Statuses
<1>1. CASE p \in Spenders
  BY <1>1 DEF Inv, HandlerInv, SpenderInv
<1>2. CASE p \in Deciders
  BY <1>2, CallType DEF Inv, HandlerInv, DeciderInv, IsPending, TypeOK, Statuses
<1>. QED
  BY <1>1, <1>2 DEF Handlers

LEMMA LostInv ==
  ASSUME Inv, NEW p \in Handlers, HookVanished(p) \/ LoseDenial(p) PROVE Inv'
<1>1. /\ pc[p] \in {"findHooks", "enqueue", "commit"} /\ UNCHANGED <<dbVars, call>>
      /\ Return(p, Answer(tx[p].row)) \/ Return(p, InternalError)
  BY DEF HookVanished, LoseDenial
<1>2. Answer(tx[p].row) \in Answers /\ InternalError \in Answers
  BY <1>1, CarriedRow, AnswerTypes
<1>. QED
  BY <1>1, <1>2, ReturnInv, CallType DEF Inv, TypeOK

(***************************************************************************)
(* The steps of a decision                                                 *)
(***************************************************************************)

LEMMA CheckApproverInv ==
  ASSUME Inv, NEW p \in Deciders, NEW approver \in Approvers, NEW rid \in RequestIDs,
         NEW verdict \in FinalStatuses, CheckApprover(p, approver, rid, verdict)
  PROVE  Inv'
<1> USE HandlersAssumption DEF Handlers
<1> DEFINE c == [approver |-> approver, rid |-> rid, verdict |-> verdict]
<1>1. c \in DecisionCalls
  BY DEF DecisionCalls
<1>2. call' = [call EXCEPT ![p] = c] /\ UNCHANGED dbVars /\ pc[p] = "idle"
  BY DEF CheckApprover
<1> HIDE DEF c
<1>3. /\ call' \in [Handlers -> SpendCalls \cup DecisionCalls \cup {NoCall}]
      /\ \A q \in Handlers \ {p} : call'[q] = call[q]
      /\ call'[p] = c
  BY <1>1, <1>2 DEF Inv, TypeOK
<1>4. CASE Return(p, Refusal("no_permission"))
  BY <1>1, <1>2, <1>3, <1>4, ReturnInv, AnswerTypes
<1>5. CASE Goto(p, "checkPending") /\ UNCHANGED <<resp, held, tx>>
  <2>1. ProcTypes' /\ Frame(p) /\ pc'[p] = "checkPending"
    BY <1>3, <1>5 DEF Goto, ProcTypes, Inv, TypeOK, Frame, Labels
  <2>2. tx[p].charge = 0 /\ ~tx[p].fresh
    BY <1>2 DEF Inv, HandlerInv, DeciderInv, TypeOK, TxRecords
  <2>3. HInv(p)'
    BY <1>1, <1>2, <1>3, <1>5, <2>1, <2>2 DEF HInv, DeciderInv, DecisionLabels
  <2>4. Exclusive(p)
    BY <1>5, <2>2 DEF Exclusive, Inv, Exclusion
  <2>. QED
    BY <1>2, <2>1, <2>3, <2>4, QuietInv
<1>. QED
  BY <1>4, <1>5 DEF CheckApprover

LEMMA CheckPendingInv == ASSUME Inv, NEW p \in Deciders, CheckPending(p) PROVE Inv'
<1> USE HandlersAssumption DEF Handlers
<1>1. pc[p] = "checkPending" /\ UNCHANGED <<dbVars, call>> /\ DeciderInv(p)
  BY DEF CheckPending, Inv, HandlerInv
<1>2. CASE Return(p, Refusal("not_pending"))
  BY <1>1, <1>2, ReturnInv, CallType, AnswerTypes DEF Inv, TypeOK
<1>3. CASE Goto(p, "lockTxn") /\ UNCHANGED <<resp, held, tx>>
  <2>1. pc'[p] = "lockTxn"
    BY <1>3 DEF Goto, Inv, TypeOK
  <2>2. HInv(p)'
    BY <1>1, <1>3, <2>1 DEF HInv, DeciderInv, DecisionLabels
  <2>. QED
    BY <1>1, <1>3, <2>2, WalkInv DEF Labels
<1>. QED
  BY <1>2, <1>3 DEF CheckPending

LEMMA LockTxnInv == ASSUME Inv, NEW p \in Deciders, LockTxn(p) PROVE Inv'
<1> DEFINE rid == call[p].rid
<1> USE HandlersAssumption DEF Handlers
<1>1. pc[p] = "lockTxn" /\ UNCHANGED <<dbVars, call>> /\ Unlocked(p, TxnRow(rid))
  BY DEF LockTxn, TxnUnlocked
<1>2. DeciderInv(p) /\ TypeOK /\ rid \in RequestIDs /\ call[p].verdict \in FinalStatuses
  BY <1>1, CallType DEF Inv, HandlerInv
<1>3. CASE Return(p, Refusal("not_pending"))
  BY <1>1, <1>3, ReturnInv, CallType, AnswerTypes DEF Inv, TypeOK
<1>4. CASE /\ IsPending(rid) /\ Hold(p, TxnRow(rid)) /\ UNCHANGED resp
           /\ tx' = [tx EXCEPT ![p].row = ledger[rid]]
           /\ Goto(p, IF call[p].verdict = "APPROVED" THEN "debit" ELSE "record")
  <2>1. /\ held' \in [Handlers -> SUBSET LockableRows]
        /\ \A q \in Handlers \ {p} : held'[q] = held[q] /\ held'[p] \cap held[q] = {}
        /\ TxnRow(rid) \in held'[p] /\ held[p] \subseteq held'[p]
    BY <1>1, <1>2, <1>4, HoldEffect, LockTypes
  <2>2. ledger[rid] \in Rows
    BY <1>2, <1>4 DEF TypeOK, IsPending
  <2>3. /\ tx' \in [Handlers -> TxRecords]
        /\ \A q \in Handlers \ {p} : tx'[q] = tx[q]
        /\ tx'[p].fresh = tx[p].fresh /\ tx'[p].charge = tx[p].charge
        /\ tx'[p].row = ledger[rid]
    BY <1>2, <1>4, <2>2, SetRow
  <2>4. /\ Goto(p, IF call[p].verdict = "APPROVED" THEN "debit" ELSE "record")
        /\ IsPending(rid) /\ UNCHANGED resp
    BY <1>4
  <2>5. /\ ProcTypes' /\ Frame(p)
        /\ pc'[p] = IF call[p].verdict = "APPROVED" THEN "debit" ELSE "record"
    BY <1>1, <1>2, <2>1, <2>3, <2>4 DEF Goto, ProcTypes, TypeOK, Frame, Labels
  <2>6. HInv(p)'
    BY <1>1, <1>2, <2>1, <2>3, <2>4, <2>5
       DEF HInv, DeciderInv, DecisionLabels, dbVars, IsPending
  <2>7. Exclusive(p)
    BY <2>1 DEF Exclusive
  <2>. QED
    BY <1>1, <2>5, <2>6, <2>7, QuietInv
<1>. QED
  BY <1>3, <1>4 DEF LockTxn

\* Whom a decision charges exists.
LEMMA PayerType ==
  ASSUME Inv, NEW p \in Deciders, pc[p] \in {"debit", "record", "findHooks", "enqueue", "commit"}
  PROVE  /\ Payer(p) \in Users /\ balance[Payer(p)] \in Nat /\ tx[p].row.amount \in Nat
         /\ UserRow(Payer(p)) \in LockableRows
<1>1. tx[p].row \in Rows
  BY CallType DEF Inv, HandlerInv, DeciderInv, IsPending, TypeOK, Handlers
<1>. QED
  BY <1>1, OwnersAssumption DEF Payer, Rows, Inv, TypeOK, LockableRows

LEMMA DebitOwnerInv == ASSUME Inv, NEW p \in Deciders, DebitOwner(p) PROVE Inv'
<1> DEFINE u == Payer(p)
<1> USE HandlersAssumption DEF Handlers
<1>1. pc[p] = "debit" /\ UNCHANGED <<dbVars, call>> /\ Unlocked(p, UserRow(u))
  BY DEF DebitOwner
<1>2. DeciderInv(p) /\ TypeOK
  BY DEF Inv, HandlerInv
<1>3. u \in Users /\ balance[u] \in Nat /\ tx[p].row.amount \in Nat /\ UserRow(u) \in LockableRows
  BY <1>1, PayerType
<1>4. CASE Return(p, Refusal("insufficient_balance"))
  BY <1>1, <1>4, ReturnInv, CallType, AnswerTypes DEF Inv, TypeOK
<1>5. CASE /\ balance[u] >= tx[p].row.amount /\ Hold(p, UserRow(u)) /\ UNCHANGED resp
           /\ tx' = [tx EXCEPT ![p].charge = tx[p].row.amount] /\ Goto(p, "record")
  <2>1. /\ held' \in [Handlers -> SUBSET LockableRows]
        /\ \A q \in Handlers \ {p} : held'[q] = held[q] /\ held'[p] \cap held[q] = {}
        /\ UserRow(u) \in held'[p] /\ held[p] \subseteq held'[p]
    BY <1>1, <1>3, <1>5, HoldEffect
  <2>2. tx[p].row.amount \in Int
    BY <1>3
  <2>3. /\ tx' \in [Handlers -> TxRecords]
        /\ \A q \in Handlers \ {p} : tx'[q] = tx[q]
        /\ tx'[p].row = tx[p].row
        /\ tx'[p].fresh = tx[p].fresh /\ tx'[p].charge = tx[p].row.amount
    BY <1>2, <1>5, <2>2, SetCharge, Zenon
  <2>4. balance[u] >= tx[p].row.amount /\ UNCHANGED resp /\ Goto(p, "record")
    BY <1>5
  <2>5. ProcTypes' /\ Frame(p) /\ pc'[p] = "record"
    BY <1>1, <1>2, <2>1, <2>3, <2>4 DEF Goto, ProcTypes, TypeOK, Frame, Labels
  <2>6. HInv(p)'
    BY <1>1, <1>2, <1>3, <2>1, <2>3, <2>4, <2>5
       DEF HInv, DeciderInv, DecisionLabels, dbVars, IsPending, Payer
  <2>7. Exclusive(p)
    BY <2>1 DEF Exclusive
  <2>. QED
    BY <1>1, <2>5, <2>6, <2>7, QuietInv
<1>. QED
  BY <1>4, <1>5 DEF DebitOwner

LEMMA RecordDecisionInv ==
  ASSUME Inv, NEW p \in Deciders, RecordDecision(p) PROVE Inv'
<1> USE HandlersAssumption DEF Handlers
<1>1. pc[p] = "record" /\ Goto(p, "findHooks") /\ UNCHANGED <<dbVars, call, resp, held>>
  BY DEF RecordDecision
<1>2. DeciderInv(p) /\ TypeOK /\ call[p].verdict \in Statuses
  BY <1>1, CallType DEF Inv, HandlerInv, Statuses
<1>3. /\ tx' \in [Handlers -> TxRecords]
      /\ \A q \in Handlers \ {p} : tx'[q] = tx[q]
      /\ tx'[p].row = tx[p].row /\ tx'[p].status = call[p].verdict
      /\ tx'[p].fresh = tx[p].fresh /\ tx'[p].charge = tx[p].charge
  BY <1>2, SetStatus, Zenon DEF RecordDecision
<1>4. ProcTypes' /\ Frame(p) /\ pc'[p] = "findHooks"
  BY <1>1, <1>2, <1>3 DEF Goto, ProcTypes, TypeOK, Frame, Labels
<1>5. HInv(p)'
  BY <1>1, <1>2, <1>3, <1>4 DEF HInv, DeciderInv, DecisionLabels, dbVars, IsPending, Payer
<1>6. Exclusive(p)
  BY <1>1, <1>3 DEF Exclusive, Inv, Exclusion
<1>. QED
  BY <1>1, <1>4, <1>5, <1>6, QuietInv

(***************************************************************************)
(* The commits                                                             *)
(***************************************************************************)

\* A commit's deduction is covered, and touches no balance another handler holds.
LEMMA ChargeEffect ==
  ASSUME Inv, NEW p \in Handlers, NEW u \in Users,
         balance' = [balance EXCEPT ![u] = @ - tx[p].charge],
         tx[p].charge # 0 => UserRow(u) \in held[p] /\ tx[p].charge \in 1..balance[u]
  PROVE  /\ balance' \in [Users -> Nat]
         /\ \A q \in Handlers \ {p}, v \in Users :
              UserRow(v) \in held[q] => balance'[v] = balance[v]
<1>1. balance \in [Users -> Nat] /\ tx[p].charge \in Int
  BY DEF Inv, TypeOK, TxRecords
<1>2. balance' \in [Users -> Nat]
  BY <1>1
<1>3. ASSUME NEW q \in Handlers \ {p}, NEW v \in Users, UserRow(v) \in held[q]
      PROVE  balance'[v] = balance[v]
  <2>1. CASE tx[p].charge = 0
    BY <1>1, <2>1
  <2>2. CASE tx[p].charge # 0
    <3>1. u # v
      BY <1>3, <2>2 DEF Inv, Exclusion, UserRow
    <3>. QED
      BY <1>1, <3>1
  <2>. QED
    BY <2>1, <2>2
<1>. QED
  BY <1>2, <1>3

\* What the other handlers rely on survives a commit of p.
LEMMA CommitFrameInv ==
  ASSUME Inv, NEW p \in Handlers, Frame(p), HInv(p)',
         UNCHANGED <<agentStatus, policy>>,
         \A q \in Handlers \ {p}, v \in Users :
           UserRow(v) \in held[q] => balance'[v] = balance[v],
         \A q \in Spenders \ {p} :
           tx[q].fresh => ledger'[call[q].rid] = ledger[call[q].rid],
         \A q \in Deciders \ {p} :
           TxnRow(call[q].rid) \in held[q] /\ IsPending(call[q].rid) =>
             ledger'[call[q].rid] = ledger[call[q].rid]
  PROVE  HandlerInv'
<1> USE HandlersAssumption DEF Handlers
<1>1. ASSUME NEW q \in Spenders PROVE SpenderInv(q)'
  <2>1. CASE q = p
    BY <2>1 DEF HInv
  <2>2. CASE q # p
    <3>1. SpenderInv(q) /\ UNCHANGED <<pc[q], call[q], held[q], tx[q]>>
      BY <2>2 DEF Inv, HandlerInv, Frame
    <3>2. pc[q] # "idle" => OwnerOf[call[q].agent] \in Users
      BY CallType, OwnersAssumption
    <3>3. tx[q].fresh => ledger'[call[q].rid] = ledger[call[q].rid]
      BY <2>2
    <3>4. pc[q] # "idle" /\ UserRow(OwnerOf[call[q].agent]) \in held[q] =>
            balance'[OwnerOf[call[q].agent]] = balance[OwnerOf[call[q].agent]]
      BY <2>2, <3>2
    <3>. QED
      BY <3>1, <3>3, <3>4 DEF SpenderInv, SpendLabels
  <2>. QED
    BY <2>1, <2>2
<1>2. ASSUME NEW q \in Deciders PROVE DeciderInv(q)'
  <2>1. CASE q = p
    BY <2>1 DEF HInv
  <2>2. CASE q # p
    <3>1. DeciderInv(q) /\ UNCHANGED <<pc[q], call[q], held[q], tx[q]>>
      BY <2>2 DEF Inv, HandlerInv, Frame
    <3>2. pc[q] \in {"debit", "record", "findHooks", "enqueue", "commit"} =>
            Payer(q) \in Users
      BY PayerType
    <3>3. TxnRow(call[q].rid) \in held[q] /\ IsPending(call[q].rid) =>
            ledger'[call[q].rid] = ledger[call[q].rid]
      BY <2>2
    <3>4. pc[q] \in {"debit", "record", "findHooks", "enqueue", "commit"}
            /\ UserRow(Payer(q)) \in held[q] => balance'[Payer(q)] = balance[Payer(q)]
      BY <2>2, <3>2
    <3>5. Payer(q)' = Payer(q)
      BY <3>1 DEF Payer
    <3>. QED
      BY <3>1, <3>3, <3>4, <3>5 DEF DeciderInv, DecisionLabels, IsPending
  <2>. QED
    BY <2>1, <2>2
<1>. QED
  BY <1>1, <1>2 DEF HandlerInv

\* The handler's side of a commit: it has answered and lets go of everything.
LEMMA CommitReturn ==
  ASSUME Inv, NEW p \in Handlers, NEW answer \in Answers, Return(p, answer),
         pc[p] = "commit", UNCHANGED call
  PROVE  ProcTypes' /\ Frame(p) /\ HInv(p)' /\ Exclusive(p)
<1> USE HandlersAssumption
<1>1. pc'[p] = "done" /\ held'[p] = {} /\ tx'[p] = NoTx /\ Frame(p)
  BY DEF Inv, TypeOK, Return, Goto, Frame
<1>2. ProcTypes'
  BY ReturnTypes DEF ProcTypes, Inv, TypeOK
<1>3. NoTx.charge = 0 /\ ~NoTx.fresh
  BY DEF NoTx
<1>4. HInv(p)'
  BY <1>1, <1>3, CallType DEF HInv, SpenderInv, DeciderInv, SpendLabels, DecisionLabels
<1>5. Exclusive(p)
  BY <1>1, <1>3 DEF Exclusive
<1>. QED
  BY <1>1, <1>2, <1>4, <1>5

LEMMA CommitSpendInv ==
  ASSUME Inv, NEW p \in Spenders, CommitSpend(p) \/ CommitSpendUnacked(p)
  PROVE  Inv'
<1> DEFINE rid == call[p].rid
           u   == OwnerOf[call[p].agent]
<1> USE HandlersAssumption DEF Handlers
<1>1. /\ pc[p] = "commit" /\ ApplySpend(p)
      /\ Return(p, Answer(tx[p].row)) \/ Return(p, InternalError)
  BY DEF CommitSpend, CommitSpendUnacked
<1>2. /\ ledger' = IF tx[p].fresh THEN [ledger EXCEPT ![rid] = tx[p].row] ELSE ledger
      /\ balance' = [balance EXCEPT ![u] = @ - tx[p].charge]
      /\ deliveries' = deliveries \cup Outgoing(p)
      /\ UNCHANGED <<agentStatus, policy, audit, hookState, today, call>>
  BY <1>1 DEF ApplySpend
<1>3. /\ SpenderInv(p) /\ TypeOK /\ rid \in RequestIDs /\ u \in Users
      /\ tx[p].row \in Rows
  BY <1>1, CallType, CarriedRow, OwnersAssumption DEF Inv, HandlerInv
<1>4. ProcTypes' /\ Frame(p) /\ HInv(p)' /\ Exclusive(p)
  BY <1>1, <1>2, <1>3, CommitReturn, AnswerTypes
<1>5. /\ balance' \in [Users -> Nat]
      /\ \A q \in Handlers \ {p}, v \in Users :
           UserRow(v) \in held[q] => balance'[v] = balance[v]
  BY <1>2, <1>3, ChargeEffect DEF SpenderInv
<1>6. \A r \in RequestIDs : ledger[r] # NoRow => ledger'[r] = ledger[r]
  BY <1>2, <1>3 DEF SpenderInv, TypeOK
<1>7. \A q \in Spenders \ {p} :
        tx[q].fresh => ledger'[call[q].rid] = ledger[call[q].rid]
  BY <1>2, <1>3 DEF Inv, FreshKeys, TypeOK
<1>8. \A q \in Deciders \ {p} :
        TxnRow(call[q].rid) \in held[q] /\ IsPending(call[q].rid) =>
          ledger'[call[q].rid] = ledger[call[q].rid]
  <2> SUFFICES ASSUME NEW q \in Deciders \ {p}, IsPending(call[q].rid)
               PROVE  ledger'[call[q].rid] = ledger[call[q].rid]
    OBVIOUS
  <2>1. CASE tx[p].fresh
    BY <1>2, <1>3, <2>1 DEF SpenderInv, IsPending, TypeOK
  <2>2. CASE ~tx[p].fresh
    BY <1>2, <2>2
  <2>. QED
    BY <2>1, <2>2
<1>9. HandlerInv'
  BY <1>2, <1>4, <1>5, <1>7, <1>8, CommitFrameInv
<1>10. TypeOK'
  <2>1. deliveries' \subseteq [by: Handlers, hook: Hooks, rid: RequestIDs, event: Events,
                               status: {"approved", "denied", "pending_approval"}]
    BY <1>2, <1>3, OutgoingTypes DEF TypeOK
  <2>2. ledger' \in [RequestIDs -> Rows \cup {NoRow}]
    BY <1>2, <1>3 DEF TypeOK
  <2>. QED
    BY <1>2, <1>3, <1>4, <1>5, <2>1, <2>2 DEF TypeOK, ProcTypes
<1>11. AuditMatchesLedger'
  BY <1>2, <1>3, <1>6 DEF Inv, AuditMatchesLedger, TypeOK
<1>. QED
  BY <1>4, <1>9, <1>10, <1>11, ExclusiveInv DEF Inv

\* A decision writes one row, of which only the status changes.
LEMMA DecidedRow ==
  ASSUME TypeOK, NEW rid \in RequestIDs, ledger[rid] \in Rows, NEW s \in Statuses,
         ledger' = [ledger EXCEPT ![rid].status = s]
  PROVE  /\ ledger' \in [RequestIDs -> Rows \cup {NoRow}]
         /\ ledger'[rid] \in Rows
         /\ ledger'[rid] = [ledger[rid] EXCEPT !.status = s]
         /\ ledger'[rid].status = s
         /\ ledger'[rid].agent = ledger[rid].agent
         /\ ledger'[rid].amount = ledger[rid].amount
         /\ ledger'[rid].day = ledger[rid].day
         /\ \A r \in RequestIDs \ {rid} : ledger'[r] = ledger[r]
BY ZenonT(60) DEF TypeOK, Rows

LEMMA CommitDecisionInv ==
  ASSUME Inv, NEW p \in Deciders, CommitDecision(p) \/ CommitDecisionUnacked(p)
  PROVE  Inv'
<1> DEFINE rid == call[p].rid
           answer == Answer([status |-> tx[p].status, reason |-> tx[p].row.reason])
           act == [by |-> p, rid |-> rid, approver |-> call[p].approver,
                   status |-> tx[p].status]
<1> USE HandlersAssumption DEF Handlers
<1>1. /\ pc[p] = "commit" /\ ApplyDecision(p)
      /\ Return(p, answer) \/ Return(p, InternalError)
  BY DEF CommitDecision, CommitDecisionUnacked
<1>2. /\ ledger' = [ledger EXCEPT ![rid].status = tx[p].status]
      /\ balance' = [balance EXCEPT ![Payer(p)] = @ - tx[p].charge]
      /\ audit' = audit \cup {act}
      /\ deliveries' = deliveries \cup Outgoing(p)
      /\ UNCHANGED <<agentStatus, policy, hookState, today, call>>
  BY <1>1 DEF ApplyDecision
<1>3. /\ DeciderInv(p) /\ TypeOK /\ rid \in RequestIDs
      /\ call[p] \in DecisionCalls
      /\ tx[p].row \in Rows /\ tx[p].status \in FinalStatuses
      /\ Payer(p) \in Users
  BY <1>1, CallType, CarriedRow, PayerType DEF Inv, HandlerInv, DeciderInv
<1>4. answer \in Answers /\ InternalError \in Answers
  BY <1>3, AnswerTypes DEF Answer, Answers, Rows, Statuses
<1> HIDE DEF answer
<1>5. ProcTypes' /\ Frame(p) /\ HInv(p)' /\ Exclusive(p)
  BY <1>1, <1>2, <1>3, <1>4, CommitReturn
<1>6. /\ balance' \in [Users -> Nat]
      /\ \A q \in Handlers \ {p}, v \in Users :
           UserRow(v) \in held[q] => balance'[v] = balance[v]
  BY <1>2, <1>3, ChargeEffect DEF DeciderInv
<1>7. /\ IsPending(rid) /\ TxnRow(rid) \in held[p] /\ ledger[rid] \in Rows
      /\ tx[p].status \in Statuses
  BY <1>1, <1>3 DEF DeciderInv, Statuses
<1>8. /\ ledger' \in [RequestIDs -> Rows \cup {NoRow}]
      /\ ledger'[rid] \in Rows /\ ledger'[rid].status = tx[p].status
      /\ \A r \in RequestIDs \ {rid} : ledger'[r] = ledger[r]
  BY <1>2, <1>3, <1>7, DecidedRow, Zenon
<1>9. \A q \in Spenders \ {p} :
        tx[q].fresh => ledger'[call[q].rid] = ledger[call[q].rid]
  <2> SUFFICES ASSUME NEW q \in Spenders, tx[q].fresh
               PROVE  ledger'[call[q].rid] = ledger[call[q].rid]
    OBVIOUS
  <2>1. /\ pc[q] # "idle" /\ ledger[call[q].rid] = NoRow
    BY DEF Inv, HandlerInv, SpenderInv
  <2>2. call[q].rid \in RequestIDs /\ call[q].rid # rid
    BY <1>7, <2>1, CallType DEF IsPending
  <2>. QED
    BY <1>8, <2>2
<1>10. \A q \in Deciders \ {p} :
         TxnRow(call[q].rid) \in held[q] /\ IsPending(call[q].rid) =>
           ledger'[call[q].rid] = ledger[call[q].rid]
  <2> SUFFICES ASSUME NEW q \in Deciders \ {p}, TxnRow(call[q].rid) \in held[q]
               PROVE  ledger'[call[q].rid] = ledger[call[q].rid]
    OBVIOUS
  <2>1. call[q].rid # rid
    BY <1>7 DEF Inv, Exclusion
  <2>2. CASE call[q].rid \in RequestIDs
    BY <1>8, <2>1, <2>2
  <2>3. CASE call[q].rid \notin RequestIDs
    BY <1>3, <1>8, <2>3 DEF TypeOK, Inv, HandlerInv, DeciderInv, DecisionCalls, LockableRows, TxnRow, AgentRow, UserRow, PolicyRow
  <2>. QED
    BY <2>2, <2>3
<1>11. HandlerInv'
  BY <1>2, <1>5, <1>6, <1>9, <1>10, CommitFrameInv
<1>12. TypeOK'
  <2>1. deliveries' \subseteq [by: Handlers, hook: Hooks, rid: RequestIDs, event: Events,
                               status: {"approved", "denied", "pending_approval"}]
    BY <1>2, <1>3, OutgoingTypes DEF TypeOK
  <2>2. act \in [by: Deciders, rid: RequestIDs, approver: Approvers, status: FinalStatuses]
    BY <1>3 DEF DecisionCalls
  <2>. QED
    BY <1>2, <1>3, <1>5, <1>6, <1>8, <2>1, <2>2 DEF TypeOK, ProcTypes
<1>13. AuditMatchesLedger'
  <2>1. \A x \in audit : x.rid # rid /\ x.rid \in RequestIDs
    BY <1>3, <1>7 DEF Inv, AuditMatchesLedger, TypeOK, IsPending, FinalStatuses
  <2>2. act.rid = rid /\ act.status = tx[p].status
    OBVIOUS
  <2> HIDE DEF act
  <2>3. \A x \in audit' : x = act \/ x \in audit
    BY <1>2
  <2>4. ledger'[rid] # NoRow
    BY <1>8, NoRowAssumption
  <2>. QED
    BY <1>8, <2>1, <2>2, <2>3, <2>4 DEF Inv, AuditMatchesLedger
<1>. QED
  BY <1>5, <1>11, <1>12, <1>13, ExclusiveInv DEF Inv

(***************************************************************************)
(* Changes by owners and operators                                         *)
(***************************************************************************)

\* What happens outside the handlers leaves them alone, and the rows they hold.
LEMMA EnvironmentFrame ==
  ASSUME Inv, UNCHANGED <<balance, ledger, procVars>>,
         \A p \in Spenders :
           /\ AgentRow(call[p].agent) \in held[p] /\ pc[p] # "idle" =>
                agentStatus'[call[p].agent] = agentStatus[call[p].agent]
           /\ PolicyRow(call[p].agent) \in held[p] /\ pc[p] = "rules" =>
                policy'[call[p].agent] = policy[call[p].agent]
  PROVE  HandlerInv' /\ Exclusion' /\ FreshKeys'
<1>1. ASSUME NEW p \in Spenders PROVE SpenderInv(p)'
  BY DEF Inv, HandlerInv, SpenderInv, SpendLabels, procVars
<1>2. ASSUME NEW p \in Deciders PROVE DeciderInv(p)'
  BY DEF Inv, HandlerInv, DeciderInv, DecisionLabels, procVars, Payer, IsPending
<1>3. Exclusion' /\ FreshKeys'
  BY DEF Inv, Exclusion, FreshKeys, procVars
<1>. QED
  BY <1>1, <1>2, <1>3 DEF HandlerInv

LEMMA UpsertPolicyInv ==
  ASSUME Inv, NEW a \in Agents, NEW pol \in PolicyChoices, UpsertPolicy(a, pol)
  PROVE  Inv'
<1> USE HandlersAssumption DEF Handlers
<1>1. /\ policy' = [policy EXCEPT ![a] = pol]
      /\ UNCHANGED <<balance, agentStatus, ledger, audit, hookState, deliveries, today, procVars>>
      /\ policy[a] # NoPolicy => \A p \in Handlers : PolicyRow(a) \notin held[p]
  BY DEF UpsertPolicy
<1>2. ASSUME NEW p \in Spenders, PolicyRow(call[p].agent) \in held[p], pc[p] = "rules"
      PROVE  policy'[call[p].agent] = policy[call[p].agent]
  <2>1. policy[call[p].agent] # NoPolicy /\ call[p].agent \in Agents
    BY <1>2, CallType DEF Inv, HandlerInv, SpenderInv
  <2>2. call[p].agent # a
    BY <1>1, <1>2, <2>1
  <2>. QED
    BY <1>1, <2>1, <2>2 DEF Inv, TypeOK
<1>3. HandlerInv' /\ Exclusion' /\ FreshKeys'
  BY <1>1, <1>2, EnvironmentFrame
<1>4. TypeOK' /\ AuditMatchesLedger'
  BY <1>1, PoliciesAssumption DEF Inv, TypeOK, AuditMatchesLedger, procVars
<1>. QED
  BY <1>3, <1>4 DEF Inv

LEMMA SetAgentStatusInv ==
  ASSUME Inv, NEW a \in Agents, NEW s \in {"active", "frozen"}, SetAgentStatus(a, s)
  PROVE  Inv'
<1> USE HandlersAssumption DEF Handlers
<1>1. /\ agentStatus' = [agentStatus EXCEPT ![a] = s]
      /\ UNCHANGED <<balance, policy, ledger, audit, hookState, deliveries, today, procVars>>
      /\ \A p \in Handlers : AgentRow(a) \notin held[p]
  BY DEF SetAgentStatus
<1>2. ASSUME NEW p \in Spenders, AgentRow(call[p].agent) \in held[p], pc[p] # "idle"
      PROVE  agentStatus'[call[p].agent] = agentStatus[call[p].agent]
  BY <1>1, <1>2, CallType DEF Inv, TypeOK
<1>3. HandlerInv' /\ Exclusion' /\ FreshKeys'
  BY <1>1, <1>2, EnvironmentFrame
<1>4. TypeOK' /\ AuditMatchesLedger'
  BY <1>1 DEF Inv, TypeOK, AuditMatchesLedger, procVars
<1>. QED
  BY <1>3, <1>4 DEF Inv

LEMMA WebhookAndClockInv ==
  ASSUME Inv, Midnight \/ \E h \in Hooks : RegisterWebhook(h) \/ DeleteWebhook(h)
  PROVE  Inv'
<1>1. UNCHANGED <<balance, agentStatus, policy, ledger, audit, procVars>>
  BY DEF Midnight, RegisterWebhook, DeleteWebhook
<1>2. HandlerInv' /\ Exclusion' /\ FreshKeys'
  BY <1>1, EnvironmentFrame
<1>3. TypeOK'
  BY DEF Midnight, RegisterWebhook, DeleteWebhook, Inv, TypeOK, procVars
<1>4. AuditMatchesLedger'
  BY <1>1 DEF Inv, AuditMatchesLedger
<1>. QED
  BY <1>2, <1>3, <1>4 DEF Inv

(***************************************************************************)
(* The invariant                                                           *)
(***************************************************************************)

LEMMA SpendInv ==
  ASSUME Inv, NEW p \in Spenders, SpendStep(p) \/ SpendFault(p) PROVE Inv'
<1>1. CASE SpendStep(p)
  BY <1>1, AuthenticateInv, AnswerExistingInv, WalkingSpendInv, BeginInv, LockAgentInv,
     LockUserInv, LockPolicyInv, EvaluateRulesInv, CreateTxnInv, DeductBalanceInv,
     FindHooksInv, InsertDeliveriesInv, LostInv, CommitSpendInv DEF SpendStep, Handlers
<1>2. CASE SpendFault(p)
  BY <1>2, WalkingSpendInv, LostInv, CommitSpendInv DEF SpendFault, Handlers
<1>. QED
  BY <1>1, <1>2

LEMMA DecisionInv ==
  ASSUME Inv, NEW p \in Deciders, DecisionStep(p) \/ DecisionFault(p) PROVE Inv'
<1>1. CASE DecisionStep(p)
  BY <1>1, CheckApproverInv, CheckPendingInv, LockTxnInv, DebitOwnerInv,
     RecordDecisionInv, FindHooksInv, InsertDeliveriesInv, LostInv, CommitDecisionInv
     DEF DecisionStep, Handlers
<1>2. CASE DecisionFault(p)
  BY <1>2, CommitDecisionInv DEF DecisionFault
<1>. QED
  BY <1>1, <1>2

LEMMA NextInv == Inv /\ [Next]_vars => Inv'
<1> SUFFICES ASSUME Inv, [Next]_vars PROVE Inv'
  OBVIOUS
<1>1. ASSUME NEW p \in Handlers, HandlerStep(p) \/ Fault(p) PROVE Inv'
  BY <1>1, SpendInv, DecisionInv DEF HandlerStep, Fault
<1>2. ASSUME NEW p \in Handlers, Fail(p) PROVE Inv'
  BY <1>2, FailInv
<1>3. ASSUME Environment PROVE Inv'
  BY <1>3, UpsertPolicyInv, SetAgentStatusInv, WebhookAndClockInv DEF Environment
<1>4. ASSUME UNCHANGED vars PROVE Inv'
  BY <1>4 DEF vars, dbVars, procVars, Inv, TypeOK, HandlerInv, SpenderInv, DeciderInv,
     Exclusion, FreshKeys, AuditMatchesLedger, Payer, IsPending
<1>. QED
  BY <1>1, <1>2, <1>3, <1>4 DEF Next, Terminating

\* Inv holds in every state: the locks exclude each other, and every handler still
\* holds the rows its earlier reads were made under.
THEOREM Invariance == Spec => []Inv
BY InitInv, NextInv, PTL DEF Spec

\* The types hold, and no balance is ever negative: whatever interleaving, failure or
\* duplicate, a deduction is covered by the balance at its commit.
THEOREM TypeCorrect == Spec => []TypeOK
<1>1. Inv => TypeOK
  BY DEF Inv
<1>. QED
  BY <1>1, Invariance, PTL

\* Of concurrent decisions on a transaction at most one is recorded, and it agrees
\* with the status in the ledger.
THEOREM OneDecision == Spec => []AuditMatchesLedger
<1>1. Inv => AuditMatchesLedger
  BY DEF Inv
<1>. QED
  BY <1>1, Invariance, PTL
=============================================================================
