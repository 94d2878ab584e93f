--------------------------- MODULE RefinementProofs ---------------------------
(***************************************************************************)
(* Governor implements AtomicLedger: its statements, locks and             *)
(* transactions do what a ledger does that takes each spend and each       *)
(* decision at once. Each row a spend adds has the outcome the rules give  *)
(* at its commit, so no spend passes the daily limit.                      *)
(***************************************************************************)
EXTENDS LedgerProofs

(***************************************************************************)
(* A spend's outcome is that of the rules at its commit                    *)
(***************************************************************************)

Early == {"agent_frozen", "insufficient_balance", "no_policy"}

\* From the moment a spend's outcome is settled until its commit, that outcome is in
\* force: it is in the row it inserts; or, when another row has its request id, it is
\* an approval that is charged all the same.
Approving(p) ==
  tx[p].status = "APPROVED" /\ pc[p] \in {"deduct", "findHooks", "enqueue", "commit"}
InForce(p) == pc[p] = "create" \/ tx[p].fresh \/ Approving(p)
Claim(p) == IF pc[p] = "create" \/ tx[p].fresh
              THEN tx[p].row ELSE NewRow(call[p], "APPROVED", "approved", tx[p].began)

\* An outcome in force is the one the rules give now, and its handler holds the rows
\* it rests on. (The agent's row is held by SpenderInv.)
Judged(p, row) ==
  row = Claim(p) /\ InForce(p) =>
    /\ row = NewRow(call[p], tx[p].status, row.reason, tx[p].began)
    /\ row.agent = call[p].agent
    /\ <<row.status, row.reason>> = RuleOutcome(row)
    /\ row.reason # "agent_frozen" => UserRow(OwnerOf[row.agent]) \in held[p]
    /\ row.reason \notin Early => PolicyRow(row.agent) \in held[p]

JudgedInv == \A p \in Spenders, row \in Rows : Judged(p, row)

LEMMA JudgedInit == Init => JudgedInv
BY DEF Init, JudgedInv, Judged, InForce, Approving, NoTx, Handlers

\* What a rule did not look at cannot change the outcome.
LEMMA OutcomeStable ==
  ASSUME NEW row \in Rows, <<row.status, row.reason>> = RuleOutcome(row),
         agentStatus'[row.agent] = agentStatus[row.agent],
         row.reason # "agent_frozen" =>
           balance'[OwnerOf[row.agent]] = balance[OwnerOf[row.agent]],
         row.reason \notin {"agent_frozen", "insufficient_balance"} =>
           policy'[row.agent] = policy[row.agent],
         row.reason \notin Early => SpentOn(row.agent, row.day)' = SpentOn(row.agent, row.day)
  PROVE  <<row.status, row.reason>> = RuleOutcome(row)'
<1> DEFINE a == row.agent
<1>1. CASE row.reason = "agent_frozen"
  BY <1>1 DEF RuleOutcome
<1>2. CASE row.reason = "insufficient_balance"
  BY <1>2 DEF RuleOutcome
<1>3. CASE row.reason = "no_policy"
  BY <1>3 DEF RuleOutcome
<1>4. CASE row.reason \notin Early
  BY <1>4 DEF RuleOutcome, Early
<1>. QED
  BY <1>1, <1>2, <1>3, <1>4 DEF Early

\* The approved spend of an agent's day depends on his approved rows only.
LEMMA SpentStable ==
  ASSUME NEW a, NEW d,
         \A rid \in RequestIDs :
           \/ ledger'[rid] = ledger[rid]
           \/ /\ ~(ledger[rid] # NoRow /\ ledger[rid].agent = a /\ ledger[rid].status = "APPROVED")
              /\ ~(ledger'[rid] # NoRow /\ ledger'[rid].agent = a /\ ledger'[rid].status = "APPROVED")
  PROVE  SpentOn(a, d)' = SpentOn(a, d)
<1>1. ApprovedOn(a, d)' = ApprovedOn(a, d)
  BY DEF ApprovedOn
<1>2. \A rid \in ApprovedOn(a, d) : ledger'[rid].amount = ledger[rid].amount
  BY DEF ApprovedOn
<1>3. [rid \in ApprovedOn(a, d) |-> ledger[rid].amount]'
        = [rid \in ApprovedOn(a, d) |-> ledger[rid].amount]
  BY <1>1, <1>2
<1>. QED
  BY <1>3 DEF SpentOn

\* A step that leaves the tables alone, and of the handlers changes p only, keeps the
\* settled outcomes if p settles nothing and lets go of no row it needs.
LEMMA JudgedKept ==
  ASSUME JudgedInv, NEW p \in Handlers, UNCHANGED dbVars, Frame(p),
         p \in Spenders /\ InForce(p)' =>
           /\ InForce(p) /\ Claim(p)' = Claim(p) /\ call'[p] = call[p]
           /\ tx'[p].status = tx[p].status /\ tx'[p].began = tx[p].began
           /\ held[p] \subseteq held'[p]
  PROVE  JudgedInv'
<1> SUFFICES ASSUME NEW q \in Spenders, NEW row \in Rows PROVE Judged(q, row)'
  BY DEF JudgedInv
<1>1. Judged(q, row)
  BY DEF JudgedInv
<1>2. RuleOutcome(row)' = RuleOutcome(row)
  BY DEF dbVars, RuleOutcome, SpentOn, ApprovedOn
<1>3. CASE q = p
  BY <1>1, <1>2, <1>3 DEF Judged, NewRow
<1>4. CASE q # p
  <2>1. UNCHANGED <<pc[q], call[q], held[q], tx[q]>>
    BY <1>4 DEF Frame, Handlers
  <2>2. InForce(q)' = InForce(q) /\ Claim(q)' = Claim(q)
    BY <2>1 DEF InForce, Approving, Claim, NewRow
  <2>. QED
    BY <1>1, <1>2, <2>1, <2>2 DEF Judged, NewRow
<1>. QED
  BY <1>3, <1>4

\* Settling on the outcome the rules give now, with the locks it rests on.
LEMMA JudgedSettled ==
  ASSUME Inv, JudgedInv, NEW p \in Spenders, NEW s \in Statuses, NEW reason \in Reasons,
         Settle(p, s, reason), pc[p] \in {"lockAgent", "lockUser", "lockPolicy", "rules"},
         UNCHANGED <<dbVars, call>>, \A q \in Handlers \ {p} : held'[q] = held[q],
         RuleOutcome(NewRow(call[p], s, reason, tx[p].began)) = <<s, reason>>,
         reason # "agent_frozen" => UserRow(OwnerOf[call[p].agent]) \in held'[p],
         reason \notin Early => PolicyRow(call[p].agent) \in held'[p]
  PROVE  JudgedInv'
<1> DEFINE new == NewRow(call[p], s, reason, tx[p].began)
<1> USE DEF Handlers
<1>1. SpenderInv(p) /\ TypeOK /\ call[p] \in Requests
  BY DEF Inv, HandlerInv, SpenderInv
<1>2. new \in Rows
  BY <1>1, NewRowType
<1>3. /\ \A q \in Handlers \ {p} : tx'[q] = tx[q]
      /\ tx'[p].row = new /\ tx'[p].status = s /\ tx'[p].began = tx[p].began
  BY <1>1, <1>2, SettleTx
<1>4. (\A q \in Handlers \ {p} : pc'[q] = pc[q]) /\ pc'[p] = "create"
  BY <1>1 DEF Settle, Goto, TypeOK
<1> SUFFICES ASSUME NEW q \in Spenders, NEW row \in Rows PROVE Judged(q, row)'
  BY DEF JudgedInv
<1>5. RuleOutcome(row)' = RuleOutcome(row)
  BY DEF dbVars, RuleOutcome, SpentOn, ApprovedOn
<1>6. CASE q = p
  <2> SUFFICES ASSUME row = tx'[p].row PROVE Judged(p, row)'
    BY <1>4, <1>6 DEF Judged, Claim
  <2>1. /\ row.agent = call'[p].agent /\ row.status = s /\ row.reason = reason
        /\ RuleOutcome(row) = <<s, reason>>
    BY <1>3, NewRowFields
  <2>2. row = NewRow(call[p], tx[p].status, row.reason, tx[p].began)'
    BY <1>3, <2>1 DEF NewRow
  <2>. QED
    BY <1>5, <2>1, <2>2 DEF Judged
<1>7. CASE q # p
  <2>1. UNCHANGED <<pc[q], call[q], held[q], tx[q]>> /\ Judged(q, row)
    BY <1>3, <1>4, <1>7 DEF JudgedInv
  <2>2. InForce(q)' = InForce(q) /\ Claim(q)' = Claim(q)
    BY <2>1 DEF InForce, Approving, Claim, NewRow
  <2>. QED
    BY <1>5, <2>1, <2>2 DEF Judged, NewRow
<1>. QED
  BY <1>6, <1>7

LEMMA LockAgentJudged ==
  ASSUME Inv, JudgedInv, NEW p \in Spenders, LockAgent(p) PROVE JudgedInv'
<1> DEFINE a == call[p].agent
<1> USE HandlersAssumption DEF Handlers
<1>1. /\ pc[p] = "lockAgent" /\ Hold(p, AgentRow(a))
      /\ UNCHANGED <<dbVars, call, resp>> /\ TypeOK /\ SpenderInv(p)
  BY DEF LockAgent, Inv, HandlerInv
<1>2. \A q \in Handlers \ {p} : held'[q] = held[q]
  BY <1>1 DEF Hold, TypeOK
<1>3. CASE agentStatus[a] = "frozen" /\ Deny(p, "agent_frozen")
  <2>1. RuleOutcome(NewRow(call[p], "DENIED", "agent_frozen", tx[p].began))
          = <<"DENIED", "agent_frozen">>
    BY <1>3, NewRowFields DEF RuleOutcome
  <2>. QED
    BY <1>1, <1>2, <1>3, <2>1, JudgedSettled DEF Deny, Statuses, FinalStatuses, Reasons, Early
<1>4. CASE Goto(p, "lockUser") /\ UNCHANGED tx
  <2>1. Frame(p) /\ ~InForce(p)'
    BY <1>1, <1>2, <1>4 DEF Goto, TypeOK, Frame, SpenderInv, InForce, Approving
  <2>. QED
    BY <1>1, <2>1, JudgedKept
<1>. QED
  BY <1>3, <1>4 DEF LockAgent

LEMMA LockUserJudged ==
  ASSUME Inv, JudgedInv, NEW p \in Spenders, LockUser(p) PROVE JudgedInv'
<1> DEFINE a == call[p].agent
           u == OwnerOf[call[p].agent]
<1> USE HandlersAssumption DEF Handlers
<1>1. /\ pc[p] = "lockUser" /\ Hold(p, UserRow(u))
      /\ UNCHANGED <<dbVars, call, resp>> /\ TypeOK /\ SpenderInv(p)
  BY DEF LockUser, Inv, HandlerInv
<1>2. /\ \A q \in Handlers \ {p} : held'[q] = held[q]
      /\ UserRow(u) \in held'[p]
  BY <1>1 DEF Hold, TypeOK
<1>3. CASE balance[u] < call[p].amount /\ Deny(p, "insufficient_balance")
  <2>1. agentStatus[a] # "frozen"
    BY <1>1 DEF SpenderInv
  <2>2. RuleOutcome(NewRow(call[p], "DENIED", "insufficient_balance", tx[p].began))
          = <<"DENIED", "insufficient_balance">>
    BY <1>3, <2>1, NewRowFields DEF RuleOutcome
  <2>. QED
    BY <1>1, <1>2, <1>3, <2>2, JudgedSettled DEF Deny, Statuses, FinalStatuses, Reasons, Early
<1>4. CASE Goto(p, "lockPolicy") /\ UNCHANGED tx
  <2>1. Frame(p) /\ ~InForce(p)'
    BY <1>1, <1>2, <1>4 DEF Goto, TypeOK, Frame, SpenderInv, InForce, Approving
  <2>. QED
    BY <1>1, <2>1, JudgedKept
<1>. QED
  BY <1>3, <1>4 DEF LockUser

LEMMA LockPolicyJudged ==
  ASSUME Inv, JudgedInv, NEW p \in Spenders, LockPolicy(p) PROVE JudgedInv'
<1> DEFINE a == call[p].agent
           u == OwnerOf[call[p].agent]
<1> USE HandlersAssumption DEF Handlers
<1>1. /\ pc[p] = "lockPolicy" /\ UNCHANGED <<dbVars, call, resp>>
      /\ TypeOK /\ SpenderInv(p)
  BY DEF LockPolicy, Inv, HandlerInv
<1>2. CASE policy[a] = NoPolicy /\ Deny(p, "no_policy") /\ UNCHANGED held
  <2>1. /\ agentStatus[a] # "frozen" /\ balance[u] >= call[p].amount
        /\ UserRow(u) \in held[p]
    BY <1>1 DEF SpenderInv
  <2>2. a \in Agents /\ u \in Users /\ balance[u] \in Nat /\ call[p].amount \in Nat
    BY <1>1, CallType, OwnersAssumption DEF TypeOK
  <2>3. RuleOutcome(NewRow(call[p], "DENIED", "no_policy", tx[p].began))
          = <<"DENIED", "no_policy">>
    BY <1>2, <2>1, <2>2, NewRowFields DEF RuleOutcome
  <2>. QED
    BY <1>1, <1>2, <2>1, <2>3, JudgedSettled DEF Deny, Statuses, FinalStatuses, Reasons, Early
<1>3. CASE /\ policy[a] # NoPolicy /\ Hold(p, PolicyRow(a))
           /\ tx' = [tx EXCEPT ![p].pol = policy[a]] /\ Goto(p, "rules")
  <2>1. policy[a] \in PolicyRows
    BY <1>1, <1>3, CallType DEF TypeOK
  <2>2. (\A q \in Handlers \ {p} : tx'[q] = tx[q]) /\ tx'[p].fresh = tx[p].fresh
    BY <1>1, <1>3, <2>1, SetPolicy
  <2>3. Hold(p, PolicyRow(a)) /\ Goto(p, "rules")
    BY <1>3
  <2>4. Frame(p) /\ ~InForce(p)'
    BY <1>1, <2>2, <2>3 DEF Goto, Hold, TypeOK, Frame, SpenderInv, InForce, Approving
  <2>. QED
    BY <1>1, <2>4, JudgedKept
<1>. QED
  BY <1>2, <1>3 DEF LockPolicy

\* The rules are evaluated on the policy read under its lock and on the day's sum as
\* it is, in which int64 does not wrap (SumsFit).
LEMMA EvaluateRulesJudged ==
  ASSUME Inv, JudgedInv, SumNeverWraps, NEW p \in Spenders, EvaluateRules(p)
  PROVE  JudgedInv'
<1> DEFINE a   == call[p].agent
           u   == OwnerOf[call[p].agent]
           d   == tx[p].began
           pol == tx[p].pol
<1> USE HandlersAssumption DEF Handlers
<1>1. /\ pc[p] = "rules" /\ UNCHANGED <<dbVars, call, resp, held>>
      /\ TypeOK /\ SpenderInv(p)
  BY DEF EvaluateRules, Inv, HandlerInv
<1>2. /\ agentStatus[a] # "frozen" /\ balance[u] >= call[p].amount
      /\ policy[a] = pol /\ policy[a] # NoPolicy
      /\ UserRow(u) \in held[p] /\ PolicyRow(a) \in held[p]
  BY <1>1 DEF SpenderInv
<1>3. a \in Agents /\ u \in Users /\ balance[u] \in Nat /\ call[p].amount \in Nat
  BY <1>1, CallType, OwnersAssumption DEF TypeOK
<1>4. OverLimit(p) <=> call[p].amount + SpentOn(a, d) > policy[a].limit
  BY <1>1, <1>2 DEF OverLimit, SumNeverWraps
<1>5. ASSUME NEW s \in Statuses, NEW reason \in Reasons \ Early, Settle(p, s, reason),
             RuleOutcome(NewRow(call[p], s, reason, d)) = <<s, reason>>
      PROVE  JudgedInv'
  BY <1>1, <1>2, <1>5, JudgedSettled DEF Early
<1>6. /\ "DENIED" \in Statuses /\ "PENDING_APPROVAL" \in Statuses /\ "APPROVED" \in Statuses
      /\ {"daily_limit_exceeded", "vendor_not_allowed", "requires_approval", "approved"}
           \subseteq Reasons \ Early
  BY DEF Statuses, FinalStatuses, Reasons, Early
<1> DEFINE known == IsVendorAllowed(Normal[call[p].vendor], pol.allowed)
           large == pol.threshold > 0 /\ call[p].amount > pol.threshold
<1>7. CASE OverLimit(p) /\ Deny(p, "daily_limit_exceeded")
  <2>1. RuleOutcome(NewRow(call[p], "DENIED", "daily_limit_exceeded", d))
          = <<"DENIED", "daily_limit_exceeded">>
    BY <1>2, <1>3, <1>4, <1>7, NewRowFields DEF RuleOutcome
  <2>. QED
    BY <1>5, <1>6, <1>7, <2>1 DEF Deny
<1>8. CASE ~OverLimit(p) /\ ~known /\ Deny(p, "vendor_not_allowed")
  <2>1. RuleOutcome(NewRow(call[p], "DENIED", "vendor_not_allowed", d))
          = <<"DENIED", "vendor_not_allowed">>
    BY <1>2, <1>3, <1>4, <1>8, NewRowFields DEF RuleOutcome
  <2>. QED
    BY <1>5, <1>6, <1>8, <2>1 DEF Deny
<1>9. CASE ~OverLimit(p) /\ known /\ large /\ Settle(p, "PENDING_APPROVAL", "requires_approval")
  <2>1. RuleOutcome(NewRow(call[p], "PENDING_APPROVAL", "requires_approval", d))
          = <<"PENDING_APPROVAL", "requires_approval">>
    BY <1>2, <1>3, <1>4, <1>9, NewRowFields DEF RuleOutcome
  <2>. QED
    BY <1>5, <1>6, <1>9, <2>1
<1>10. CASE ~OverLimit(p) /\ known /\ ~large /\ Settle(p, "APPROVED", "approved")
  <2>1. RuleOutcome(NewRow(call[p], "APPROVED", "approved", d)) = <<"APPROVED", "approved">>
    BY <1>2, <1>3, <1>4, <1>10, NewRowFields DEF RuleOutcome
  <2>. QED
    BY <1>5, <1>6, <1>10, <2>1
<1>. QED
  BY <1>7, <1>8, <1>9, <1>10 DEF EvaluateRules

LEMMA ReturnJudged ==
  ASSUME Inv, JudgedInv, NEW p \in Handlers, NEW answer, Return(p, answer),
         UNCHANGED dbVars, \A q \in Handlers \ {p} : call'[q] = call[q]
  PROVE  JudgedInv'
<1>1. Frame(p) /\ pc'[p] = "done" /\ tx'[p] = NoTx
  BY DEF Return, Goto, Frame, Inv, TypeOK
<1>2. ~InForce(p)'
  BY <1>1 DEF InForce, Approving, NoTx
<1>. QED
  BY <1>1, <1>2, JudgedKept

LEMMA WalkJudged ==
  ASSUME Inv, JudgedInv, NEW p \in Handlers, NEW label, Goto(p, label),
         UNCHANGED <<dbVars, held, tx>>, \A q \in Handlers \ {p} : call'[q] = call[q],
         p \in Spenders => \/ label \in {"check", "begin", "lockAgent"} /\ ~tx[p].fresh
                          \/ /\ pc[p] \in {"findHooks", "enqueue"} /\ call'[p] = call[p]
                             /\ label \in {"enqueue", "commit"}
  PROVE  JudgedInv'
<1>1. Frame(p) /\ pc'[p] = label
  BY DEF Goto, Frame, Inv, TypeOK
<1>2. p \in Spenders /\ InForce(p)' => InForce(p) /\ Claim(p)' = Claim(p) /\ call'[p] = call[p]
  BY <1>1 DEF InForce, Approving, Claim, NewRow
<1>. QED
  BY <1>1, <1>2, JudgedKept

LEMMA StartJudged ==
  ASSUME Inv, JudgedInv, NEW p \in Spenders,
         \/ \E req \in Requests : Authenticate(p, req)
         \/ AnswerExisting(p) \/ FastCheck(p) \/ Begin(p) \/ Recheck(p)
  PROVE  JudgedInv'
<1> USE HandlersAssumption DEF Handlers
<1>1. TypeOK /\ SpenderInv(p)
  BY DEF Inv, HandlerInv
<1>2. ASSUME NEW req \in Requests, Authenticate(p, req) PROVE JudgedInv'
  <2>1. UNCHANGED dbVars /\ ~tx[p].fresh /\ \A q \in Handlers \ {p} : call'[q] = call[q]
    BY <1>1, <1>2 DEF Authenticate, SpenderInv, TypeOK
  <2>. QED
    BY <1>2, <2>1, ReturnJudged, WalkJudged DEF Authenticate
<1>3. CASE AnswerExisting(p)
  BY <1>3, ReturnJudged DEF AnswerExisting
<1>4. CASE FastCheck(p) \/ Recheck(p)
  BY <1>1, <1>4, WalkJudged DEF FastCheck, Recheck, SpenderInv
<1>5. CASE Begin(p)
  <2>1. (\A q \in Handlers \ {p} : tx'[q] = tx[q]) /\ tx'[p].fresh = tx[p].fresh
    BY <1>1, <1>5, SetBegan DEF Begin, TypeOK
  <2>2. /\ pc[p] = "begin" /\ Goto(p, "recheck") /\ UNCHANGED <<dbVars, call, resp, held>>
    BY <1>5 DEF Begin
  <2>3. Frame(p) /\ ~InForce(p)'
    BY <1>1, <2>1, <2>2 DEF Goto, TypeOK, Frame, SpenderInv, InForce, Approving
  <2>. QED
    BY <2>2, <2>3, JudgedKept
<1>. QED
  BY <1>2, <1>3, <1>4, <1>5

LEMMA WriteJudged ==
  ASSUME Inv, JudgedInv, NEW p \in Spenders,
         CreateTxn(p) \/ DeductBalance(p) \/ SkipHooks(p) \/ LoseDenial(p)
  PROVE  JudgedInv'
<1> USE HandlersAssumption DEF Handlers
<1>1. TypeOK /\ SpenderInv(p)
  BY DEF Inv, HandlerInv
<1>2. CASE CreateTxn(p)
  <2>1. pc[p] = "create" /\ Goto(p, AfterCreate(p)) /\ UNCHANGED <<dbVars, call, resp, held>>
    BY <1>2 DEF CreateTxn
  <2>2. ~tx[p].fresh
    BY <1>1, <2>1 DEF SpenderInv
  <2>3. /\ \A q \in Handlers \ {p} : tx'[q] = tx[q]
        /\ tx'[p].fresh => tx'[p].row = tx[p].row
        /\ tx'[p].status = tx[p].status /\ tx'[p].began = tx[p].began
    <3>1. CASE tx' = [tx EXCEPT ![p].fresh = TRUE]
      BY <1>1, <3>1, SetFresh
    <3>2. CASE ledger[call[p].rid] # NoRow /\ tx' = [tx EXCEPT ![p].row = ledger[call[p].rid]]
      <4>1. ledger[call[p].rid] \in Rows
        BY <1>1, <2>1, <3>2, CallType DEF TypeOK
      <4>. QED
        BY <1>1, <2>2, <3>2, <4>1, SetRow
    <3>. QED
      BY <1>2, <3>1, <3>2 DEF CreateTxn
  <2>4. AfterCreate(p) # "create"
    BY Zenon DEF AfterCreate
  <2>5. Frame(p) /\ pc'[p] # "create"
    BY <1>1, <2>1, <2>3, <2>4 DEF Goto, TypeOK, Frame
  <2>6. PICK row \in Rows : row = tx[p].row
    BY <1>1, <2>1 DEF SpenderInv
  <2>7. /\ row = NewRow(call[p], tx[p].status, row.reason, tx[p].began)
        /\ <<row.status, row.reason>> = RuleOutcome(row)
    BY <2>1, <2>6 DEF JudgedInv, Judged, InForce, Claim
  <2>8. row.status = tx[p].status
    BY <2>7, NewRowFields
  <2>9. row.status = "APPROVED" => row.reason = "approved"
    BY <2>7 DEF RuleOutcome
  <2>10. InForce(p)' => Claim(p)' = Claim(p)
    <3>1. CASE tx'[p].fresh
      BY <2>1, <2>3, <3>1 DEF Claim
    <3>2. CASE ~tx'[p].fresh
      <4>1. InForce(p)' => tx[p].status = "APPROVED"
        BY <2>3, <2>5, <3>2 DEF InForce, Approving
      <4>. QED
        BY <2>1, <2>3, <2>5, <2>6, <2>7, <2>8, <2>9, <3>2, <4>1 DEF Claim, NewRow
    <3>. QED
      BY <3>1, <3>2
  <2>. QED
    BY <2>1, <2>3, <2>5, <2>10, JudgedKept DEF InForce
<1>3. CASE DeductBalance(p)
  <2>1. pc[p] = "deduct" /\ Goto(p, "findHooks") /\ UNCHANGED <<dbVars, call, resp, held>>
    BY <1>3 DEF DeductBalance
  <2>2. call[p].amount \in Int
    BY <2>1, CallType
  <2>3. /\ \A q \in Handlers \ {p} : tx'[q] = tx[q]
        /\ tx'[p].row = tx[p].row /\ tx'[p].fresh = tx[p].fresh
        /\ tx'[p].status = tx[p].status /\ tx'[p].began = tx[p].began
    BY <1>1, <1>3, <2>2, SetCharge, Zenon DEF DeductBalance
  <2>4. Frame(p) /\ pc'[p] = "findHooks"
    BY <1>1, <2>1, <2>3 DEF Goto, TypeOK, Frame
  <2>5. InForce(p)' => InForce(p) /\ Claim(p)' = Claim(p)
    BY <2>1, <2>3, <2>4 DEF InForce, Approving, Claim, NewRow
  <2>. QED
    BY <2>1, <2>3, <2>4, <2>5, JudgedKept
<1>4. CASE SkipHooks(p)
  BY <1>4, WalkJudged DEF SkipHooks
<1>5. CASE LoseDenial(p)
  BY <1>5, ReturnJudged DEF LoseDenial
<1>. QED
  BY <1>2, <1>3, <1>4, <1>5

LEMMA OutboxJudged ==
  ASSUME Inv, JudgedInv, NEW p \in Handlers,
         FindHooks(p) \/ InsertDeliveries(p) \/ HookVanished(p) \/ Fail(p)
  PROVE  JudgedInv'
<1>1. TypeOK
  BY DEF Inv
<1>2. CASE FindHooks(p)
  <2>1. Goto(p, "enqueue") /\ UNCHANGED <<dbVars, call, resp, held>>
    BY <1>2 DEF FindHooks
  <2>2. Subscribers(tx[p].row.agent, EventOf(tx[p].status)) \in SUBSET Hooks
    BY DEF Subscribers
  <2>3. /\ \A q \in Handlers \ {p} : tx'[q] = tx[q]
        /\ tx'[p].row = tx[p].row /\ tx'[p].fresh = tx[p].fresh
        /\ tx'[p].status = tx[p].status /\ tx'[p].began = tx[p].began
    BY <1>1, <1>2, <2>2, SetOut DEF FindHooks
  <2>4. Frame(p) /\ pc[p] = "findHooks" /\ pc'[p] = "enqueue"
    BY <1>1, <1>2, <2>1, <2>3 DEF Goto, TypeOK, Frame, FindHooks
  <2>5. InForce(p)' => InForce(p) /\ Claim(p)' = Claim(p)
    BY <2>1, <2>3, <2>4 DEF InForce, Approving, Claim, NewRow
  <2>. QED
    BY <2>1, <2>3, <2>4, <2>5, JudgedKept
<1>3. CASE InsertDeliveries(p)
  BY <1>3, WalkJudged DEF InsertDeliveries
<1>4. CASE HookVanished(p)
  BY <1>4, ReturnJudged DEF HookVanished
<1>5. CASE Fail(p)
  BY <1>5, ReturnJudged DEF Fail
<1>. QED
  BY <1>2, <1>3, <1>4, <1>5

LEMMA DecisionJudged ==
  ASSUME Inv, JudgedInv, NEW p \in Deciders,
         \/ \E approver \in Approvers, rid \in RequestIDs, verdict \in FinalStatuses :
              CheckApprover(p, approver, rid, verdict)
         \/ CheckPending(p) \/ LockTxn(p) \/ DebitOwner(p) \/ RecordDecision(p)
  PROVE  JudgedInv'
<1> USE HandlersAssumption DEF Handlers
<1>1. TypeOK /\ DeciderInv(p) /\ p \notin Spenders
  BY DEF Inv, HandlerInv
<1>2. ASSUME NEW approver \in Approvers, NEW rid \in RequestIDs,
             NEW verdict \in FinalStatuses, CheckApprover(p, approver, rid, verdict)
      PROVE  JudgedInv'
  <2>1. UNCHANGED dbVars /\ \A q \in Handlers \ {p} : call'[q] = call[q]
    BY <1>1, <1>2 DEF CheckApprover, TypeOK
  <2>. QED
    BY <1>1, <1>2, <2>1, ReturnJudged, WalkJudged DEF CheckApprover
<1>3. CASE CheckPending(p)
  BY <1>3, ReturnJudged, WalkJudged DEF CheckPending
<1>4. ASSUME NEW label, label # "create", Goto(p, label), UNCHANGED <<dbVars, call>>,
             \A q \in Handlers \ {p} : held'[q] = held[q] /\ tx'[q] = tx[q]
      PROVE  JudgedInv'
  <2>1. Frame(p)
    BY <1>1, <1>4 DEF Goto, TypeOK, Frame
  <2>. QED
    BY <1>1, <1>4, <2>1, JudgedKept
<1>5. CASE LockTxn(p)
  <2>1. CASE Return(p, Refusal("not_pending"))
    BY <1>5, <2>1, ReturnJudged DEF LockTxn
  <2>2. CASE /\ IsPending(call[p].rid) /\ Hold(p, TxnRow(call[p].rid))
             /\ tx' = [tx EXCEPT ![p].row = ledger[call[p].rid]]
             /\ Goto(p, IF call[p].verdict = "APPROVED" THEN "debit" ELSE "record")
    <3>1. ledger[call[p].rid] \in Rows /\ UNCHANGED <<dbVars, call>>
      BY <1>1, <1>5, <2>2, CallType DEF LockTxn, IsPending, TypeOK
    <3>2. \A q \in Handlers \ {p} : held'[q] = held[q]
      BY <1>1, <2>2, Zenon DEF Hold, TypeOK
    <3>3. \A q \in Handlers \ {p} : tx'[q] = tx[q]
      BY <1>1, <2>2, <3>1, SetRow
    <3>4. Goto(p, IF call[p].verdict = "APPROVED" THEN "debit" ELSE "record")
      BY <2>2
    <3>. QED
      BY <1>4, <3>1, <3>2, <3>3, <3>4
  <2>. QED
    BY <1>5, <2>1, <2>2 DEF LockTxn
<1>6. CASE DebitOwner(p)
  <2>1. CASE Return(p, Refusal("insufficient_balance"))
    BY <1>6, <2>1, ReturnJudged DEF DebitOwner
  <2>2. CASE /\ Hold(p, UserRow(Payer(p)))
             /\ tx' = [tx EXCEPT ![p].charge = tx[p].row.amount] /\ Goto(p, "record")
    <3>1. tx[p].row.amount \in Int /\ UNCHANGED <<dbVars, call>>
      BY <1>6, PayerType DEF DebitOwner
    <3>2. \A q \in Handlers \ {p} : held'[q] = held[q]
      BY <1>1, <2>2, Zenon DEF Hold, TypeOK
    <3>3. \A q \in Handlers \ {p} : tx'[q] = tx[q]
      BY <1>1, <2>2, <3>1, SetCharge, Zenon
    <3>4. Goto(p, "record")
      BY <2>2
    <3>. QED
      BY <1>4, <3>1, <3>2, <3>3, <3>4
  <2>. QED
    BY <1>6, <2>1, <2>2 DEF DebitOwner
<1>7. CASE RecordDecision(p)
  <2>1. call[p].verdict \in Statuses
    BY <1>7, CallType DEF RecordDecision, Statuses
  <2>2. \A q \in Handlers \ {p} : tx'[q] = tx[q]
    BY <1>1, <1>7, <2>1, SetStatus, Zenon DEF RecordDecision
  <2>3. Goto(p, "findHooks") /\ UNCHANGED <<dbVars, call, held>>
    BY <1>7 DEF RecordDecision
  <2>. QED
    BY <1>4, <2>2, <2>3
<1>. QED
  BY <1>2, <1>3, <1>5, <1>6, <1>7

\* A settled spend holds its agent's row until its commit.
LEMMA JudgedHolds ==
  ASSUME Inv, NEW q \in Spenders, NEW row \in Rows, Judged(q, row), row = Claim(q), InForce(q)
  PROVE  /\ AgentRow(row.agent) \in held[q] /\ pc[q] # "idle"
         /\ row.agent = call[q].agent /\ row.agent \in Agents
         /\ row = NewRow(call[q], tx[q].status, row.reason, tx[q].began)
         /\ <<row.status, row.reason>> = RuleOutcome(row)
         /\ row.reason # "agent_frozen" => UserRow(OwnerOf[row.agent]) \in held[q]
         /\ row.reason \notin Early => PolicyRow(row.agent) \in held[q]
BY DEF Inv, HandlerInv, SpenderInv, Judged, InForce, Approving, Rows

\* A commit disturbs no outcome another handler has settled: whatever that outcome
\* rests on, its handler has locked.
LEMMA CommitJudged ==
  ASSUME Inv, JudgedInv, NEW p \in Handlers,
         \/ p \in Spenders /\ (CommitSpend(p) \/ CommitSpendUnacked(p))
         \/ p \in Deciders /\ (CommitDecision(p) \/ CommitDecisionUnacked(p))
  PROVE  JudgedInv'
<1> USE HandlersAssumption DEF Handlers
<1>1. TypeOK /\ pc[p] = "commit" /\ UNCHANGED <<agentStatus, policy, call>>
  BY DEF Inv, CommitSpend, CommitSpendUnacked, ApplySpend,
         CommitDecision, CommitDecisionUnacked, ApplyDecision
<1>2. Frame(p) /\ pc'[p] = "done" /\ tx'[p] = NoTx
  BY <1>1 DEF TypeOK, Return, Goto, Frame, CommitSpend, CommitSpendUnacked,
              CommitDecision, CommitDecisionUnacked
<1>3. \E u \in Users : /\ balance' = [balance EXCEPT ![u] = @ - tx[p].charge]
                       /\ tx[p].charge # 0 => UserRow(u) \in held[p] /\ tx[p].charge \in 1..balance[u]
  <2>1. CASE p \in Spenders
    <3>1. OwnerOf[call[p].agent] \in Users /\ SpenderInv(p)
      BY <1>1, <2>1, CallType, OwnersAssumption DEF Inv, HandlerInv
    <3>2. balance' = [balance EXCEPT ![OwnerOf[call[p].agent]] = @ - tx[p].charge]
      BY <2>1 DEF CommitSpend, CommitSpendUnacked, ApplySpend
    <3>. QED
      BY <3>1, <3>2 DEF SpenderInv
  <2>2. CASE p \in Deciders
    <3>1. Payer(p) \in Users /\ DeciderInv(p)
      BY <1>1, <2>2, PayerType DEF Inv, HandlerInv
    <3>2. balance' = [balance EXCEPT ![Payer(p)] = @ - tx[p].charge]
      BY <2>2 DEF CommitDecision, CommitDecisionUnacked, ApplyDecision
    <3>. QED
      BY <3>1, <3>2 DEF DeciderInv
  <2>. QED
    BY <2>1, <2>2
<1>4. \A q \in Handlers \ {p}, v \in Users : UserRow(v) \in held[q] => balance'[v] = balance[v]
  BY <1>3, ChargeEffect
<1> SUFFICES ASSUME NEW q \in Spenders, NEW row \in Rows, row = Claim(q)', InForce(q)'
             PROVE  Judged(q, row)'
  BY DEF JudgedInv, Judged
<1>5. q # p
  BY <1>2 DEF InForce, Approving, NoTx
<1>6. UNCHANGED <<pc[q], call[q], held[q], tx[q]>> /\ row = Claim(q) /\ InForce(q)
  <2>1. UNCHANGED <<pc[q], call[q], held[q], tx[q]>>
    BY <1>2, <1>5 DEF Frame
  <2>. QED
    BY <2>1 DEF Claim, InForce, Approving, NewRow
<1>7. /\ AgentRow(row.agent) \in held[q]
      /\ row.agent = call[q].agent /\ row.agent \in Agents
      /\ row = NewRow(call[q], tx[q].status, row.reason, tx[q].began)
      /\ <<row.status, row.reason>> = RuleOutcome(row)
      /\ row.reason # "agent_frozen" => UserRow(OwnerOf[row.agent]) \in held[q]
      /\ row.reason \notin Early => PolicyRow(row.agent) \in held[q]
  BY <1>6, JudgedHolds DEF JudgedInv
<1>8. held[p] \cap held[q] = {}
  BY <1>5 DEF Inv, Exclusion
<1>9. ASSUME row.reason \notin Early
      PROVE  SpentOn(row.agent, row.day)' = SpentOn(row.agent, row.day)
  <2>1. UserRow(OwnerOf[row.agent]) \notin held[p] /\ AgentRow(row.agent) \notin held[p]
    BY <1>7, <1>8, <1>9 DEF Early
  <2>2. ASSUME NEW rid \in RequestIDs, ledger'[rid] # ledger[rid]
        PROVE  /\ ~(ledger[rid] # NoRow /\ ledger[rid].agent = row.agent
                      /\ ledger[rid].status = "APPROVED")
               /\ ~(ledger'[rid] # NoRow /\ ledger'[rid].agent = row.agent
                      /\ ledger'[rid].status = "APPROVED")
    <3>1. CASE p \in Spenders
      <4>1. tx[p].fresh /\ ledger[rid] = NoRow /\ ledger'[rid] = tx[p].row /\ tx[p].row \in Rows
        BY <2>2, <3>1, SpendCommitRow
      <4>2. AgentRow(tx[p].row.agent) \in held[p]
        BY <3>1, <4>1, JudgedHolds DEF JudgedInv, Claim, InForce
      <4>. QED
        BY <2>1, <4>1, <4>2
    <3>2. CASE p \in Deciders
      <4>1. /\ ledger[rid].status = "PENDING_APPROVAL"
            /\ ledger'[rid].status = tx[p].status /\ tx[p].status = call[p].verdict
            /\ ledger'[rid].agent = tx[p].row.agent
            /\ call[p].verdict = "APPROVED" => UserRow(OwnerOf[tx[p].row.agent]) \in held[p]
        BY <2>2, <3>2, DecisionCommitRow DEF IsPending, Payer
      <4>. QED
        BY <2>1, <4>1
    <3>. QED
      BY <3>1, <3>2
  <2>. QED
    BY <2>2, SpentStable
<1>10. row.reason # "agent_frozen" =>
         balance'[OwnerOf[row.agent]] = balance[OwnerOf[row.agent]]
  BY <1>4, <1>5, <1>7, OwnersAssumption
<1>11. <<row.status, row.reason>> = RuleOutcome(row)'
  BY <1>1, <1>7, <1>9, <1>10, OutcomeStable
<1>. QED
  BY <1>6, <1>7, <1>11 DEF Judged, NewRow

\* Owners and operators wait for the locks a settled outcome rests on.
LEMMA EnvironmentJudged == ASSUME Inv, JudgedInv, Environment PROVE JudgedInv'
<1> USE DEF Handlers
<1>1. UNCHANGED <<ledger, balance, procVars>> /\ TypeOK
  BY EnvironmentLedger DEF Inv
<1> SUFFICES ASSUME NEW q \in Spenders, NEW row \in Rows, row = Claim(q)', InForce(q)'
             PROVE  Judged(q, row)'
  BY DEF JudgedInv, Judged
<1>2. UNCHANGED <<pc, call, held, tx>> /\ row = Claim(q) /\ InForce(q)
  <2>1. UNCHANGED <<pc, call, held, tx>>
    BY <1>1 DEF procVars
  <2>. QED
    BY <2>1 DEF Claim, InForce, Approving, NewRow
<1>3. /\ AgentRow(row.agent) \in held[q]
      /\ row.agent = call[q].agent /\ row.agent \in Agents
      /\ row = NewRow(call[q], tx[q].status, row.reason, tx[q].began)
      /\ <<row.status, row.reason>> = RuleOutcome(row)
      /\ row.reason # "agent_frozen" => UserRow(OwnerOf[row.agent]) \in held[q]
      /\ row.reason \notin Early => PolicyRow(row.agent) \in held[q]
  BY <1>2, JudgedHolds DEF JudgedInv
<1>4. agentStatus'[row.agent] = agentStatus[row.agent]
  BY <1>1, <1>3 DEF Environment, UpsertPolicy, SetAgentStatus, RegisterWebhook,
                    DeleteWebhook, Midnight, TypeOK
<1>5. ASSUME row.reason \notin {"agent_frozen", "insufficient_balance"}
      PROVE  policy'[row.agent] = policy[row.agent]
  <2>1. CASE \E a \in Agents, pol \in PolicyChoices : UpsertPolicy(a, pol)
    <3>1. PICK a \in Agents, pol \in PolicyChoices : UpsertPolicy(a, pol)
      BY <2>1
    <3>2. a # row.agent
      <4>1. CASE row.reason = "no_policy"
        <5>1. policy[row.agent] = NoPolicy
          BY <1>3, <4>1 DEF RuleOutcome
        <5>. QED
          BY <1>3, <3>1, <5>1 DEF UpsertPolicy
      <4>2. CASE row.reason \notin Early
        BY <1>3, <3>1, <4>2 DEF UpsertPolicy
      <4>. QED
        BY <1>5, <4>1, <4>2 DEF Early
    <3>. QED
      BY <1>1, <1>3, <3>1, <3>2 DEF UpsertPolicy, TypeOK
  <2>2. CASE UNCHANGED policy
    BY <2>2
  <2>. QED
    BY <2>1, <2>2 DEF Environment, SetAgentStatus, RegisterWebhook, DeleteWebhook, Midnight
<1>6. SpentOn(row.agent, row.day)' = SpentOn(row.agent, row.day)
  BY <1>1, SpentStable
<1>7. <<row.status, row.reason>> = RuleOutcome(row)'
  BY <1>1, <1>3, <1>4, <1>5, <1>6, OutcomeStable
<1>. QED
  BY <1>2, <1>3, <1>7 DEF Judged, NewRow

LEMMA JudgedNext == Inv /\ SumNeverWraps /\ JudgedInv /\ [Next]_vars => JudgedInv'
<1> SUFFICES ASSUME Inv, SumNeverWraps, JudgedInv, [Next]_vars PROVE JudgedInv'
  OBVIOUS
<1>1. ASSUME NEW p \in Spenders, SpendStep(p) \/ SpendFault(p) PROVE JudgedInv'
  <2>1. CASE SpendStep(p)
    BY <2>1, StartJudged, LockAgentJudged, LockUserJudged, LockPolicyJudged,
       EvaluateRulesJudged, WriteJudged, OutboxJudged, CommitJudged DEF SpendStep, Handlers
  <2>2. CASE SpendFault(p)
    BY <2>2, WriteJudged, CommitJudged DEF SpendFault, Handlers
  <2>. QED
    BY <1>1, <2>1, <2>2
<1>2. ASSUME NEW p \in Deciders, DecisionStep(p) \/ DecisionFault(p) PROVE JudgedInv'
  BY <1>2, DecisionJudged, OutboxJudged, CommitJudged
     DEF DecisionStep, DecisionFault, Handlers
<1>3. ASSUME NEW p \in Handlers, Fail(p) PROVE JudgedInv'
  BY <1>3, OutboxJudged
<1>4. CASE Environment
  BY <1>4, EnvironmentJudged
<1>5. CASE UNCHANGED vars
  <2> SUFFICES ASSUME NEW q \in Spenders, NEW row \in Rows PROVE Judged(q, row)'
    BY DEF JudgedInv
  <2>1. Judged(q, row)
    BY DEF JudgedInv
  <2>2. RuleOutcome(row)' = RuleOutcome(row)
    BY <1>5 DEF vars, dbVars, RuleOutcome, SpentOn, ApprovedOn
  <2>3. UNCHANGED <<pc, call, held, tx>>
    BY <1>5 DEF vars, procVars
  <2>. QED
    BY <2>1, <2>2, <2>3 DEF Judged, Claim, InForce, Approving, NewRow
<1>. QED
  BY <1>1, <1>2, <1>3, <1>4, <1>5 DEF Next, Terminating, HandlerStep, Fault

LEMMA CurrentStep == Inv /\ JudgedInv /\ [Next]_vars => DecisionCurrent
<1> SUFFICES ASSUME Inv, JudgedInv, [Next]_vars, NEW rid \in RequestIDs,
                    ledger[rid] = NoRow, ledger'[rid] # NoRow
             PROVE  <<ledger'[rid].status, ledger'[rid].reason>> = RuleOutcome(ledger'[rid])
  BY DEF DecisionCurrent
<1>1. PICK p \in Handlers : HandlerStep(p) \/ Fault(p) \/ Fail(p)
  BY EnvironmentLedger DEF Next, Terminating, vars, dbVars
<1>2. p \notin Deciders \/ ~(CommitDecision(p) \/ CommitDecisionUnacked(p))
  BY DecisionCommitRow DEF IsPending
<1>3. p \in Spenders /\ (CommitSpend(p) \/ CommitSpendUnacked(p))
  BY <1>1, <1>2, HandlerStepKinds DEF dbVars
<1>4. tx[p].fresh /\ ledger'[rid] = tx[p].row /\ tx[p].row \in Rows
  BY <1>3, SpendCommitRow
<1>5. PICK row \in Rows : row = tx[p].row
  BY <1>4
<1>6. <<row.status, row.reason>> = RuleOutcome(row)
  BY <1>3, <1>4, <1>5 DEF JudgedInv, Judged, Claim, InForce
<1>. QED
  BY <1>4, <1>5, <1>6

\* From the moment it is settled on, an outcome is the one the rules give.
LEMMA JudgedAlways == Spec => []JudgedInv
BY JudgedInit, JudgedNext, Invariance, SumsFit, PTL DEF Spec

\* The locks make a spend serializable: every row a spend adds has, at its commit, the
\* outcome the rules give on the tables as they are then, whoever else spends,
\* decides, freezes or changes policies meanwhile.
THEOREM DecisionsCurrent == Spec => DecisionCurrentAtCommit
<1>1. Inv /\ JudgedInv /\ [Next]_vars => [DecisionCurrent]_vars
  BY CurrentStep
<1>. QED
  BY <1>1, JudgedAlways, Invariance, PTL DEF Spec, DecisionCurrentAtCommit

(***************************************************************************)
(* The daily limit                                                         *)
(***************************************************************************)

\* No row that was there changes: what the step does is not a decision.
RowsStay == \A rid \in RequestIDs : ledger[rid] # NoRow => ledger'[rid] = ledger[rid]

WithinLimit(a, d) ==
  SpentOn(a, d)' > SpentOn(a, d) => policy[a] # NoPolicy /\ SpentOn(a, d)' <= policy[a].limit

\* A row entered as approved adds its amount to its agent's day, and no other row does.
LEMMA SpentAfter ==
  ASSUME TypeOK, TypeOK', IsFiniteSet(Entered), NEW rid \in RequestIDs,
         ledger[rid] = NoRow, ledger'[rid] \in Rows,
         \A r \in RequestIDs \ {rid} : ledger'[r] = ledger[r],
         NEW a \in Agents, NEW d
  PROVE  SpentOn(a, d)' =
           IF /\ ledger'[rid].status = "APPROVED"
              /\ ledger'[rid].agent = a /\ ledger'[rid].day = d
             THEN ledger'[rid].amount + SpentOn(a, d) ELSE SpentOn(a, d)
<1>. DEFINE new == /\ ledger'[rid].status = "APPROVED"
                   /\ ledger'[rid].agent = a /\ ledger'[rid].day = d
<1>1. ~ new => ApprovedOn(a, d)' = ApprovedOn(a, d)
  BY NoRowAssumption DEF ApprovedOn
<1>2. new => ApprovedOn(a, d)' = ApprovedOn(a, d) \cup {rid}
  BY NoRowAssumption DEF ApprovedOn
<1>3. rid \notin ApprovedOn(a, d) /\ \A r \in ApprovedOn(a, d) : ledger'[r] = ledger[r]
  BY DEF ApprovedOn
<1>. DEFINE S == ApprovedOn(a, d)
            f == [r \in ApprovedOn(a, d) |-> ledger[r].amount]
            g == [r \in ApprovedOn(a, d)' |-> ledger'[r].amount]
<1>4. IsFiniteSet(S)
  <2>1. S \in SUBSET Entered
    BY DEF ApprovedOn, Entered
  <2>. QED
    BY <2>1, FS_Subset
<1>5. SpentOn(a, d) = SumFunctionOnSet(f, S)
  BY SumOfFunction DEF SpentOn
<1>6. SpentOn(a, d)' = SumFunction(g)
  BY DEF SpentOn
<1>7. CASE ~ new
  <2>1. g = f
    BY <1>1, <1>3, <1>7
  <2>2. SumFunction(f) = SumFunctionOnSet(f, S)
    BY SumOfFunction
  <2>. HIDE DEF f, g, S, new
  <2>. QED
    BY <1>5, <1>6, <1>7, <2>1, <2>2 DEF new
<1>8. CASE new
  <2>1. \A r \in S \cup {rid} : g[r] = ledger'[r].amount /\ g[r] \in Nat
    <3>1. \A r \in ApprovedOn(a, d)' : ledger'[r] \in Rows
      BY DEF ApprovedOn, TypeOK
    <3>. QED
      BY <1>2, <1>8, <3>1 DEF Rows
  <2>2. \A r \in S : f[r] = g[r]
    BY <1>3, <2>1
  <2>3. SumFunction(g) = SumFunctionOnSet(g, S \cup {rid})
    <3>1. DOMAIN g = S \cup {rid}
      BY <1>2, <1>8
    <3>. HIDE DEF g, S
    <3>. QED
      BY <3>1, SumOfFunction
  <2>. HIDE DEF f, g
  <2>4. SumFunctionOnSet(g, S \cup {rid}) = g[rid] + SumFunctionOnSet(g, S)
    BY <1>3, <1>4, <2>1, SumWith
  <2>5. SumFunctionOnSet(g, S) = SumFunctionOnSet(f, S)
    BY <1>4, <2>2, SumSame
  <2>6. SpentOn(a, d)' = ledger'[rid].amount + SpentOn(a, d)
    BY <1>5, <1>6, <2>1, <2>3, <2>4, <2>5
  <2>. QED
    BY <1>8, <2>6
<1>. QED
  BY <1>7, <1>8

LEMMA LimitStep ==
  ASSUME Inv, PaidInv, JudgedInv, [Next]_vars, RowsStay, NEW a \in Agents, NEW d
  PROVE  WithinLimit(a, d)
<1>1. TypeOK /\ TypeOK' /\ IsFiniteSet(Entered)
  BY NextInv DEF Inv, PaidInv
<1>2. CASE \A rid \in RequestIDs : ledger'[rid] = ledger[rid]
  <2>1. ledger' = ledger
    BY <1>1, <1>2 DEF TypeOK
  <2>2. SpentOn(a, d)' = SpentOn(a, d)
    BY <2>1 DEF SpentOn, ApprovedOn
  <2>3. SpentOn(a, d) \in Nat
    BY <1>1, SpentBound
  <2>. QED
    BY <2>2, <2>3 DEF WithinLimit
<1>3. ASSUME NEW rid \in RequestIDs, ledger'[rid] # ledger[rid] PROVE WithinLimit(a, d)
  <2>1. ledger[rid] = NoRow
    BY <1>3 DEF RowsStay
  <2>2. PICK p \in Handlers : HandlerStep(p) \/ Fault(p) \/ Fail(p)
    BY <1>3, EnvironmentLedger DEF Next, Terminating, vars, dbVars
  <2>3. p \in Spenders /\ (CommitSpend(p) \/ CommitSpendUnacked(p))
    BY <1>3, <2>1, <2>2, HandlerStepKinds, DecisionCommitRow DEF dbVars, IsPending
  <2>4. /\ \A r \in RequestIDs \ {rid} : ledger'[r] = ledger[r]
        /\ ledger'[rid] = tx[p].row /\ tx[p].row \in Rows /\ tx[p].fresh
    BY <1>3, <2>3, SpendCommitRow
  <2>5. PICK row \in Rows : row = tx[p].row
    BY <2>4
  <2>6. <<row.status, row.reason>> = RuleOutcome(row)
    BY <2>3, <2>4, <2>5 DEF JudgedInv, Judged, Claim, InForce
  <2>7. SpentOn(a, d)' = IF row.status = "APPROVED" /\ row.agent = a /\ row.day = d
                           THEN row.amount + SpentOn(a, d) ELSE SpentOn(a, d)
    BY <1>1, <2>1, <2>4, <2>5, SpentAfter
  <2>8. SpentOn(a, d) \in Nat
    BY <1>1, SpentBound
  <2>9. CASE row.status = "APPROVED" /\ row.agent = a /\ row.day = d
    <3>1. policy[a] # NoPolicy /\ ~ (row.amount + SpentOn(a, d) > policy[a].limit)
      BY <2>6, <2>9 DEF RuleOutcome
    <3>2. policy[a].limit \in Int /\ row.amount \in Nat
      BY <1>1, <3>1 DEF TypeOK, PolicyRows, Rows
    <3>. QED
      BY <2>7, <2>8, <2>9, <3>1, <3>2 DEF WithinLimit
  <2>. QED
    BY <2>7, <2>8, <2>9 DEF WithinLimit
<1>. QED
  BY <1>2, <1>3

\* However many spends of an agent run at once, across midnight or while its owner lowers the limit:
\* a step that decides no row takes no day's sum above the limit in force.
THEOREM SpendsWithinLimit ==
  Spec => [][RowsStay => \A a \in Agents, d \in 0..MaxDay : WithinLimit(a, d)]_vars
<1>1. Inv /\ PaidInv /\ JudgedInv /\ [Next]_vars
        => [RowsStay => \A a \in Agents, d \in 0..MaxDay : WithinLimit(a, d)]_vars
  BY LimitStep
<1>. QED
  BY <1>1, PaidInit, PaidNext, BookInit, BookNext, JudgedAlways, Invariance, PTL DEF Spec

\* Where nobody decides on pending rows, no step at all does. (An approval does not look at the
\* limit: run over_limit.)
THEOREM LimitHolds == ASSUME Deciders = {} PROVE Spec => DailyLimitHolds
<1>1. Inv /\ [Next]_vars => RowsStay
  <2> SUFFICES ASSUME Inv, [Next]_vars, NEW rid \in RequestIDs, ledger'[rid] # ledger[rid]
               PROVE  ledger[rid] = NoRow
    BY DEF RowsStay
  <2>1. PICK p \in Handlers : HandlerStep(p) \/ Fault(p) \/ Fail(p)
    BY EnvironmentLedger DEF Next, Terminating, vars, dbVars
  <2>2. p \in Spenders /\ (CommitSpend(p) \/ CommitSpendUnacked(p))
    BY <2>1, HandlerStepKinds DEF dbVars
  <2>. QED
    BY <2>2, SpendCommitRow
<1>2. (RowsStay => \A a \in Agents, d \in 0..MaxDay : WithinLimit(a, d)) /\ RowsStay
        => \A a \in Agents, d \in 0..MaxDay :
             SpentOn(a, d)' > SpentOn(a, d)
               => policy[a] # NoPolicy /\ SpentOn(a, d)' <= policy[a].limit
  BY DEF WithinLimit
<1>. QED
  BY <1>1, <1>2, SpendsWithinLimit, Invariance, PTL DEF Spec, DailyLimitHolds

(***************************************************************************)
(* The ledger behind the handlers                                          *)
(***************************************************************************)

Decisions == {[rid |-> x.rid, approver |-> x.approver, status |-> x.status] : x \in audit}

LEMMA SpentSame == \A a, d : Ledger!SpentOn(a, d) = SpentOn(a, d)
<1>1. \A f : Ledger!SumFunction(f) = SumFunction(f)
  BY Zenon DEF Ledger!SumFunction, SumFunction, Ledger!SumFunctionOnSet, SumFunctionOnSet,
               Ledger!FoldFunctionOnSet, FoldFunctionOnSet, Ledger!MapThenFoldSet, MapThenFoldSet
<1>. QED
  BY <1>1 DEF Ledger!SpentOn, SpentOn, ApprovedOn

\* The rules of the abstract ledger are those of RuleOutcome.
LEMMA OutcomeSame ==
  ASSUME NEW req, NEW s, NEW reason, NEW day
  PROVE  Ledger!Outcome(req, day) = RuleOutcome(NewRow(req, s, reason, day))
<1> DEFINE row == NewRow(req, s, reason, day)
<1>1. row.agent = req.agent /\ row.amount = req.amount /\ row.vendor = Normal[req.vendor]
      /\ row.day = day
  BY NewRowFields
<1>2. \A v, allowed : Ledger!Allowed(v, allowed) = IsVendorAllowed(v, allowed)
  BY DEF Ledger!Allowed, IsVendorAllowed
<1> HIDE DEF row
<1>3. Ledger!Outcome(req, day) = RuleOutcome(row)
  BY <1>1, <1>2, SpentSame DEF Ledger!Outcome, RuleOutcome
<1>. QED
  BY <1>3 DEF row

LEMMA InitRefines == Init => Ledger!Init
BY DEF Init, Ledger!Init

\* A spend's commit is the abstract spend of its request; or, when the request had a
\* row already, the charge made again for an approval, or nothing.
LEMMA CommitSpendRefines ==
  ASSUME Inv, JudgedInv, BookInv, NEW p \in Spenders, CommitSpend(p) \/ CommitSpendUnacked(p)
  PROVE  [Ledger!Next]_(Ledger!vars)
<1> USE HandlersAssumption DEF Handlers
<1> DEFINE req == call[p]
           u   == OwnerOf[call[p].agent]
           d   == tx[p].began
<1>1. /\ pc[p] = "commit" /\ TypeOK /\ SpenderInv(p) /\ SpenderBook(p)
      /\ ledger' = IF tx[p].fresh THEN [ledger EXCEPT ![req.rid] = tx[p].row] ELSE ledger
      /\ balance' = [balance EXCEPT ![u] = @ - tx[p].charge]
      /\ UNCHANGED <<agentStatus, policy, audit, today>>
  BY DEF CommitSpend, CommitSpendUnacked, ApplySpend, BookInv, Book, Inv, HandlerInv
<1>2. /\ req \in Requests /\ d \in 0..today /\ u \in Users /\ tx[p].status \in Statuses
      /\ tx[p].charge = IF tx[p].status = "APPROVED" THEN req.amount ELSE 0
  BY <1>1, CallType, OwnersAssumption DEF SpenderInv, SpenderBook
<1>3. CASE tx[p].fresh
  <2>1. PICK row \in Rows : row = tx[p].row
    BY <1>1 DEF SpenderInv
  <2>2. /\ row = NewRow(req, tx[p].status, row.reason, d)
        /\ <<row.status, row.reason>> = RuleOutcome(row)
    BY <1>3, <2>1 DEF JudgedInv, Judged, InForce, Claim
  <2>3. Ledger!Outcome(req, d) = <<tx[p].status, row.reason>>
    <3>1. Ledger!Outcome(req, d) = RuleOutcome(row)
      BY <2>2, OutcomeSame
    <3>2. row.status = tx[p].status
      BY <2>2, NewRowFields
    <3>. QED
      BY <2>2, <3>1, <3>2
  <2>4. Ledger!RowOf(req, <<tx[p].status, row.reason>>, d) = row
    BY <2>2 DEF Ledger!RowOf, NewRow
  <2>5. ledger[req.rid] = NoRow
    BY <1>1, <1>3 DEF SpenderInv
  <2>6. ledger' = [ledger EXCEPT ![req.rid] = Ledger!RowOf(req, Ledger!Outcome(req, d), d)]
    BY <1>1, <1>3, <2>1, <2>3, <2>4
  <2>7. balance' = [balance EXCEPT ![u] = balance[u]
                      - IF Ledger!Outcome(req, d)[1] = "APPROVED" THEN req.amount ELSE 0]
    <3>1. Ledger!Outcome(req, d)[1] = tx[p].status
      BY <2>3
    <3>. QED
      BY <1>1, <1>2, <3>1
  <2>8. Ledger!Spend(req, d)
    BY <1>1, <2>5, <2>6, <2>7 DEF Ledger!Spend, Ledger!Charge
  <2>. QED
    BY <1>2, <2>8 DEF Ledger!Next
<1>4. CASE ~tx[p].fresh /\ tx[p].status = "APPROVED"
  <2>1. ledger[req.rid] # NoRow
    BY <1>1, <1>4 DEF SpenderBook
  <2> DEFINE row == NewRow(req, "APPROVED", "approved", d)
  <2>2. row \in Rows
    BY <1>1, <1>2, NewRowType DEF Statuses, FinalStatuses, Reasons
  <2>3. row = Claim(p) /\ InForce(p)
    BY <1>1, <1>4 DEF Claim, InForce, Approving
  <2>4. <<row.status, row.reason>> = RuleOutcome(row)
    BY <2>2, <2>3, Zenon DEF JudgedInv, Judged
  <2>5. row.status = "APPROVED"
    BY NewRowFields
  <2>6. Ledger!Outcome(req, d) = RuleOutcome(row)
    BY OutcomeSame
  <2> HIDE DEF row
  <2>7. Ledger!Outcome(req, d)[1] = "APPROVED"
    BY <2>4, <2>5, <2>6
  <2>8. Ledger!ChargeAgain(req, d)
    BY <1>1, <1>2, <1>4, <2>1, <2>7 DEF Ledger!ChargeAgain, Ledger!Charge
  <2>. QED
    BY <1>2, <2>8 DEF Ledger!Next
<1>5. CASE ~tx[p].fresh /\ tx[p].status # "APPROVED"
  <2>1. balance' = balance
    BY <1>1, <1>2, <1>5 DEF TypeOK
  <2>. QED
    BY <1>1, <1>5, <2>1 DEF Ledger!vars
<1>. QED
  BY <1>3, <1>4, <1>5

\* A decision's commit is the abstract decision.
LEMMA CommitDecisionRefines ==
  ASSUME Inv, BookInv, NEW p \in Deciders, CommitDecision(p) \/ CommitDecisionUnacked(p)
  PROVE  [Ledger!Next]_(Ledger!vars)
<1> USE HandlersAssumption DEF Handlers
<1> DEFINE rid == call[p].rid
           act == [by |-> p, rid |-> rid, approver |-> call[p].approver, status |-> tx[p].status]
<1>1. /\ pc[p] = "commit" /\ TypeOK /\ DeciderInv(p) /\ DeciderBook(p)
      /\ ledger' = [ledger EXCEPT ![rid].status = tx[p].status]
      /\ balance' = [balance EXCEPT ![Payer(p)] = @ - tx[p].charge]
      /\ audit' = audit \cup {act}
      /\ UNCHANGED <<agentStatus, policy, today>>
  BY DEF CommitDecision, CommitDecisionUnacked, ApplyDecision, BookInv, Book, Inv, HandlerInv
<1>2. /\ rid \in RequestIDs /\ call[p].verdict \in FinalStatuses /\ Payer(p) \in Users
      /\ balance[Payer(p)] \in Nat /\ tx[p].row.amount \in Nat
  BY <1>1, CallType, PayerType
<1>3. /\ IsPending(rid) /\ tx[p].row = ledger[rid] /\ tx[p].status = call[p].verdict
      /\ call[p].approver \in CanApprove
      /\ tx[p].charge = IF tx[p].status = "APPROVED" THEN ledger[rid].amount ELSE 0
      /\ tx[p].charge # 0 => tx[p].charge \in 1..balance[Payer(p)]
  BY <1>1 DEF DeciderInv, DeciderBook
<1>4. Payer(p) = OwnerOf[ledger[rid].agent]
  BY <1>3 DEF Payer
<1>5. tx[p].status = "APPROVED" => balance[Payer(p)] >= ledger[rid].amount
  BY <1>2, <1>3
<1>6. Decisions' = Decisions
                    \cup {[rid |-> rid, approver |-> call[p].approver, status |-> tx[p].status]}
  <2> DEFINE decision(x) == [rid |-> x.rid, approver |-> x.approver, status |-> x.status]
  <2>1. decision(act)
          = [rid |-> rid, approver |-> call[p].approver, status |-> tx[p].status]
    OBVIOUS
  <2>2. Decisions' = {decision(x) : x \in audit'} /\ Decisions = {decision(x) : x \in audit}
    BY DEF Decisions
  <2> HIDE DEF decision
  <2>3. Decisions' = Decisions \cup {decision(act)}
    BY <1>1, <2>2
  <2>. QED
    BY <2>1, <2>3
<1>7. PICK approver \in CanApprove, r \in RequestIDs, verdict \in {"APPROVED", "DENIED"} :
        approver = call[p].approver /\ r = rid /\ verdict = tx[p].status
  BY <1>2, <1>3 DEF FinalStatuses
<1>8. Ledger!Decide(approver, r, verdict)
  BY <1>1, <1>3, <1>4, <1>5, <1>6, <1>7
     DEF Ledger!Decide, Ledger!Charge, IsPending, Decisions
<1>. QED
  BY <1>8 DEF Ledger!Next

LEMMA EnvironmentRefines == Environment => [Ledger!Next]_(Ledger!vars)
<1>1. ASSUME NEW a \in Agents, NEW pol \in PolicyChoices, UpsertPolicy(a, pol)
      PROVE  Ledger!Next
  BY <1>1 DEF UpsertPolicy, Ledger!Next, Ledger!ChangePolicy
<1>2. ASSUME NEW a \in Agents, NEW s \in {"active", "frozen"}, SetAgentStatus(a, s)
      PROVE  Ledger!Next
  BY <1>2 DEF SetAgentStatus, Ledger!Next, Ledger!ChangeStatus
<1>3. ASSUME NEW h \in Hooks, RegisterWebhook(h) \/ DeleteWebhook(h)
      PROVE  UNCHANGED Ledger!vars
  BY <1>3 DEF RegisterWebhook, DeleteWebhook, Ledger!vars
<1>4. Midnight => Ledger!Next
  BY DEF Midnight, Ledger!Next, Ledger!NextDay
<1>. QED
  BY <1>1, <1>2, <1>3, <1>4 DEF Environment

LEMMA StepRefines == Inv /\ JudgedInv /\ BookInv /\ [Next]_vars => [Ledger!Next]_(Ledger!vars)
<1> SUFFICES ASSUME Inv, JudgedInv, BookInv, [Next]_vars PROVE [Ledger!Next]_(Ledger!vars)
  OBVIOUS
<1>1. ASSUME NEW p \in Handlers, HandlerStep(p) \/ Fault(p) \/ Fail(p)
      PROVE  [Ledger!Next]_(Ledger!vars)
  BY <1>1, HandlerStepKinds, CommitSpendRefines, CommitDecisionRefines DEF dbVars, Ledger!vars
<1>2. UNCHANGED vars => UNCHANGED Ledger!vars
  BY DEF vars, dbVars, Ledger!vars
<1>. QED
  BY <1>1, <1>2, EnvironmentRefines DEF Next, Terminating

\* Every behaviour of the spend engine is one of the atomic ledger's: whatever the
\* interleaving, the locks, the failures and the lost acknowledgements, spends and
\* decisions act on the tables one after the other, each on the tables as they are
\* then.
THEOREM Refinement == Spec => ImplementsLedger
BY InitRefines, StepRefines, JudgedAlways, BookInit, BookNext, Invariance, PTL
   DEF Spec, ImplementsLedger, Ledger!Spec
=============================================================================
