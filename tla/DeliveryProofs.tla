--------------------------- MODULE DeliveryProofs ---------------------------
(***************************************************************************)
(* Proofs about the delivery worker: what a worker has claimed stays its   *)
(* own until it commits, so settled rows stay settled; how many copies and *)
(* attempts faults can cost; and that the workers implement AtomicOutbox.  *)
(***************************************************************************)
EXTENDS WebhookDelivery, FiniteSetTheorems, TLAPS

\* A worker's place in the loop, and what it has in hand.
WorkerOK(w) ==
  /\ pc[w] = "idle" => todo[w] = {} /\ ~lost[w]
  /\ pc[w] \in {"url", "post", "mark"} <=> cur[w] # NoDelivery
  /\ ~lost[w] => \A d \in Deliveries : d \in todo[w] \/ d = cur[w] => Claims(w, d)
  /\ acked[w] => pc[w] = "mark" /\ received[cur[w]] > 0
  /\ pc[w] = "mark" /\ Claims(w, cur[w]) => draft[w][cur[w]].attempt < tried[cur[w]]

\* What was tried and received bears a row out, be it committed or still a draft.
Earned(r, d) ==
  /\ r.attempt < Len(retryDelays) /\ r.attempt <= tried[d]
  /\ r.state = "delivered" => received[d] > 0
  /\ r.state = "failed" => tried[d] >= Len(retryDelays)

\* What a claim, that is a row lock, protects.
ClaimOK(w, d) ==
  Claims(w, d) =>
    /\ ~lost[w] /\ pc[w] # "idle" /\ Earned(draft[w][d], d)
    /\ Due(d) /\ d \notin erased /\ hookState[HookOf[d]] # "deleted"
    /\ \A v \in Workers : Claims(v, d) => v = w

RowOK(d) ==
  /\ Earned(row[d], d)
  /\ row[d].state = "pending" => hookState[HookOf[d]] # "deleted"

Inv ==
  /\ TypeOK
  /\ \A w \in Workers : WorkerOK(w)
  /\ \A w \in Workers, d \in Deliveries : ClaimOK(w, d)
  /\ \A d \in Deliveries : RowOK(d)

LEMMA DelaysFacts ==
  /\ Len(retryDelays) \in Nat /\ Len(retryDelays) > 0
  /\ \A n \in 1..Len(retryDelays) : retryDelays[n] \in Nat
BY DelaysAssumption

\* Marking keeps the type of a row, and earns what it says.
LEMMA MarkedRow ==
  ASSUME NEW r \in Rows, NEW ok \in BOOLEAN, NEW d \in Deliveries,
         received[d] \in Nat, tried[d] \in Nat,
         Earned(r, d), r.attempt < tried[d], ok => received[d] > 0
  PROVE  Marked(r, ok) \in Rows /\ Earned(Marked(r, ok), d)
<1> DEFINE a == r.attempt + 1
<1>1. CASE ok
  <2>1. Marked(r, ok) = [r EXCEPT !.state = "delivered"]
    BY <1>1 DEF Marked
  <2>2. Marked(r, ok) = [state |-> "delivered", attempt |-> r.attempt, wait |-> r.wait]
    BY <2>1 DEF Rows
  <2>3. received[d] > 0
    BY <1>1
  <2>. QED
    BY <2>2, <2>3 DEF Rows, Earned
<1>2. CASE ~ok /\ a >= Len(retryDelays)
  <2>1. Marked(r, ok) = [r EXCEPT !.state = "failed"]
    BY <1>2 DEF Marked
  <2>2. Marked(r, ok) = [state |-> "failed", attempt |-> r.attempt, wait |-> r.wait]
    BY <2>1 DEF Rows
  <2>. QED
    BY <1>2, <2>2, DelaysFacts DEF Rows, Earned
<1>3. CASE ~ok /\ ~(a >= Len(retryDelays))
  <2>1. Marked(r, ok) = [r EXCEPT !.attempt = a, !.wait = retryDelays[a + 1]]
    BY <1>3 DEF Marked
  <2>2. Marked(r, ok) = [state |-> r.state, attempt |-> a, wait |-> retryDelays[a + 1]]
    BY <2>1 DEF Rows
  <2>3. retryDelays[a + 1] \in Nat
    BY <1>3, DelaysFacts DEF Rows
  <2>. QED
    BY <1>3, <2>2, <2>3, DelaysFacts DEF Rows, Earned
<1>. QED
  BY <1>1, <1>2, <1>3

LEMMA CountDownRow ==
  ASSUME NEW r \in Rows
  PROVE  /\ CountDown(r) \in Rows
         /\ CountDown(r).state = r.state /\ CountDown(r).attempt = r.attempt
         /\ r.wait = 0 => CountDown(r).wait = 0
<1>1. CASE r.wait > 0
  <2>1. CountDown(r) = [r EXCEPT !.wait = r.wait - 1]
    BY <1>1 DEF CountDown
  <2>2. CountDown(r) = [state |-> r.state, attempt |-> r.attempt, wait |-> r.wait - 1]
    BY <2>1 DEF Rows
  <2>. QED
    BY <1>1, <2>2 DEF Rows
<1>2. CASE ~(r.wait > 0)
  BY <1>2 DEF CountDown
<1>. QED
  BY <1>1, <1>2

LEMMA InitInv == Init => Inv
BY DelaysFacts, HookOfAssumption, NullsAssumption
   DEF Init, Inv, TypeOK, WorkerOK, ClaimOK, RowOK, Claims, Earned, Rows

LEMMA PollInv == ASSUME Inv, NEW w \in Workers, Poll(w) PROVE Inv'
<1>1. PICK batch \in SUBSET Deliveries :
        /\ \A d \in batch : Due(d) /\ ~Locked(d)
        /\ todo' = [todo EXCEPT ![w] = batch]
        /\ draft' = [draft EXCEPT ![w] =
             [d \in Deliveries |-> IF d \in batch THEN row[d] ELSE Unclaimed]]
  BY DEF Poll, Take
<1>2. /\ pc[w] = "idle" /\ pc' = [pc EXCEPT ![w] = "next"]
      /\ UNCHANGED <<row, hookState, erased, cur, acked, lost, received, tried, faults>>
  BY DEF Poll, Take, Goto, tables, history
<1>3. TypeOK'
  BY <1>1, <1>2 DEF Inv, TypeOK
<1>4. ASSUME NEW v \in Workers PROVE WorkerOK(v)'
  BY <1>1, <1>2, <1>4, NullsAssumption DEF Inv, TypeOK, WorkerOK, Claims
<1>5. ASSUME NEW v \in Workers, NEW d \in Deliveries PROVE ClaimOK(v, d)'
  <2>1. draft' \in [Workers -> [Deliveries -> Rows \cup {Unclaimed}]]
    BY <1>3 DEF TypeOK
  <2>2. CASE d \in batch
    <3>1. ~\E u \in Workers : Claims(u, d)
      BY <1>1, <2>2 DEF Locked
    <3>2. \A u \in Workers : Claims(u, d)' <=> u = w
      BY <1>1, <2>2, <3>1, NullsAssumption DEF Claims, Inv, TypeOK
    <3>3. draft'[w][d] = row[d] /\ Due(d) /\ d \notin erased /\ ~lost[w]
      BY <1>1, <1>2, <2>2 DEF Locked, Inv, TypeOK, WorkerOK
    <3>4. hookState[HookOf[d]] # "deleted" /\ Earned(row[d], d)
      BY <3>3 DEF Inv, RowOK, Due
    <3>. QED
      BY <1>2, <3>2, <3>3, <3>4 DEF ClaimOK, Due, Earned, Inv, TypeOK
  <2>3. CASE d \notin batch
    <3>1. \A u \in Workers : u # w => draft'[u] = draft[u]
      BY <1>1 DEF Inv, TypeOK
    <3>2. draft'[w][d] = Unclaimed
      BY <1>1, <2>3 DEF Inv, TypeOK
    <3>3. ClaimOK(v, d) /\ (v # w => pc'[v] = pc[v])
      BY <1>2 DEF Inv, TypeOK
    <3>4. \A u \in Workers : Claims(u, d)' => u # w /\ Claims(u, d)
      BY <3>1, <3>2 DEF Claims
    <3>5. v # w => draft'[v][d] = draft[v][d]
      BY <3>1
    <3>. QED
      BY <1>2, <3>3, <3>4, <3>5 DEF ClaimOK, Due, Earned
  <2>. QED
    BY <2>2, <2>3
<1>6. ASSUME NEW d \in Deliveries PROVE RowOK(d)'
  BY <1>2 DEF Inv, RowOK, Earned
<1>. QED
  BY <1>3, <1>4, <1>5, <1>6 DEF Inv

\* A step of one worker that leaves the tables and the drafts alone.
LEMMA WalkInv ==
  ASSUME Inv, TypeOK', NEW w \in Workers, WorkerOK(w)', UNCHANGED <<tables, draft, lost>>,
         \A d \in Deliveries : received'[d] >= received[d] /\ tried'[d] >= tried[d],
         \A v \in Workers \ {w} : /\ pc'[v] = pc[v] /\ todo'[v] = todo[v]
                                  /\ cur'[v] = cur[v] /\ acked'[v] = acked[v],
         pc'[w] # "idle"
  PROVE  Inv'
<1>1. UNCHANGED <<row, hookState, erased>>
  BY DEF tables
<1>2. ASSUME NEW r \in Rows, NEW d \in Deliveries, Earned(r, d)
      PROVE  Earned(r, d)'
  BY <1>2, DelaysFacts DEF Earned, Inv, TypeOK, Rows
<1>3. ASSUME NEW v \in Workers PROVE WorkerOK(v)'
  <2>1. CASE v = w
    BY <2>1
  <2>2. CASE v # w
    <3>1. WorkerOK(v)
      BY DEF Inv
    <3>2. pc[v] = "mark" => cur[v] \in Deliveries
      BY <3>1 DEF WorkerOK, Inv, TypeOK
    <3>3. acked'[v] => pc'[v] = "mark" /\ received'[cur[v]] > 0
      <4>1. acked[v] => pc[v] = "mark" /\ received[cur[v]] > 0
        BY <3>1 DEF WorkerOK
      <4>. QED
        BY <2>2, <3>2, <4>1 DEF Inv, TypeOK
    <3>4. pc[v] = "mark" /\ Claims(v, cur[v]) => draft[v][cur[v]].attempt < tried'[cur[v]]
      <4>1. SUFFICES ASSUME pc[v] = "mark", Claims(v, cur[v])
                     PROVE  draft[v][cur[v]].attempt < tried'[cur[v]]
        OBVIOUS
      <4>2. draft[v][cur[v]] \in Rows /\ cur[v] \in Deliveries
        BY <3>2, <4>1 DEF Claims, Inv, TypeOK
      <4>3. draft[v][cur[v]].attempt < tried[cur[v]]
        BY <3>1, <4>1 DEF WorkerOK
      <4>. QED
        BY <4>2, <4>3 DEF Inv, TypeOK, Rows
    <3>. QED
      BY <2>2, <3>1, <3>3, <3>4 DEF WorkerOK, Claims
  <2>. QED
    BY <2>1, <2>2
<1>4. ASSUME NEW v \in Workers, NEW d \in Deliveries PROVE ClaimOK(v, d)'
  <2>1. ClaimOK(v, d) /\ (Claims(v, d) => draft[v][d] \in Rows)
    BY DEF Inv, TypeOK, Claims
  <2>2. Claims(v, d) => Earned(draft[v][d], d)'
    BY <1>2, <2>1 DEF ClaimOK
  <2>3. pc'[v] = pc[v] \/ pc'[v] # "idle"
    OBVIOUS
  <2>. QED
    BY <1>1, <2>1, <2>2, <2>3 DEF ClaimOK, Claims, Due
<1>5. ASSUME NEW d \in Deliveries PROVE RowOK(d)'
  <2>1. row[d] \in Rows /\ RowOK(d)
    BY DEF Inv, TypeOK
  <2>. QED
    BY <1>1, <1>2, <2>1 DEF RowOK
<1>. QED
  BY <1>3, <1>4, <1>5 DEF Inv

LEMMA ReadSecretInv ==
  ASSUME Inv, NEW w \in Workers, ReadSecret(w) \/ SecretFails(w) PROVE Inv'
<1>1. PICK d \in todo[w] : todo' = [todo EXCEPT ![w] = @ \ {d}]
  BY DEF ReadSecret, SecretFails
<1>2. /\ pc[w] = "next" /\ UNCHANGED <<tables, acked, draft, lost, received, tried>>
      /\ faults' \in Nat /\ d \in Deliveries
  BY <1>1 DEF ReadSecret, SecretFails, Fault, history, Inv, TypeOK
<1>3. WorkerOK(w) /\ TypeOK
  BY DEF Inv
<1>4. CASE pc' = pc /\ cur' = cur
  <2>1. TypeOK'
    BY <1>1, <1>2, <1>3, <1>4 DEF TypeOK, tables
  <2>2. WorkerOK(w)'
    BY <1>1, <1>2, <1>3, <1>4 DEF WorkerOK, TypeOK, Claims
  <2>3. pc'[w] # "idle" /\ \A v \in Workers \ {w} : todo'[v] = todo[v]
    BY <1>1, <1>2, <1>3, <1>4 DEF TypeOK
  <2>4. \A d2 \in Deliveries : received'[d2] >= received[d2] /\ tried'[d2] >= tried[d2]
    BY <1>2, <1>3 DEF TypeOK
  <2>5. UNCHANGED <<tables, draft, lost>>
    BY <1>2
  <2>6. \A v \in Workers \ {w} : /\ pc'[v] = pc[v] /\ todo'[v] = todo[v]
                                  /\ cur'[v] = cur[v] /\ acked'[v] = acked[v]
    BY <1>2, <1>4, <2>3
  <2>. QED
    BY <2>1, <2>2, <2>3, <2>4, <2>5, <2>6, WalkInv
<1>5. CASE ReadSecret(w) /\ ~(pc' = pc /\ cur' = cur)
  <2>1. PICK e \in todo[w] : /\ todo' = [todo EXCEPT ![w] = @ \ {e}]
                             /\ pc' = [pc EXCEPT ![w] = "url"] /\ cur' = [cur EXCEPT ![w] = e]
    BY <1>5 DEF ReadSecret, Goto
  <2>2. e \in Deliveries /\ pc'[w] = "url" /\ cur'[w] = e
    BY <1>3, <2>1 DEF TypeOK
  <2>3. TypeOK'
    BY <1>2, <1>3, <2>1, <2>2 DEF TypeOK, tables
  <2>4. WorkerOK(w)'
    BY <1>2, <1>3, <2>1, <2>2, NullsAssumption DEF WorkerOK, TypeOK, Claims
  <2>. QED
    BY <1>2, <1>3, <2>1, <2>2, <2>3, <2>4, WalkInv DEF TypeOK
<1>6. ~ReadSecret(w) => pc' = pc /\ cur' = cur
  BY DEF SecretFails
<1>. QED
  BY <1>4, <1>5, <1>6

LEMMA ReadURLInv == ASSUME Inv, NEW w \in Workers, ReadURL(w) PROVE Inv'
<1>1. /\ pc[w] = "url" /\ pc' = [pc EXCEPT ![w] = "post"]
      /\ UNCHANGED <<tables, todo, cur, acked, draft, lost, received, tried, faults>>
  BY DEF ReadURL, Goto, history
<1>2. WorkerOK(w) /\ TypeOK
  BY DEF Inv
<1>3. TypeOK'
  BY <1>1, <1>2 DEF TypeOK, tables
<1>4. WorkerOK(w)'
  BY <1>1, <1>2 DEF WorkerOK, TypeOK, Claims
<1>. QED
  BY <1>1, <1>2, <1>3, <1>4, WalkInv, NullsAssumption DEF TypeOK

\* An attempt that was answered was accepted.
LEMMA TryInv ==
  ASSUME Inv, NEW w \in Workers, pc[w] \in {"url", "post"}, faults' \in Nat,
         NEW accepted \in BOOLEAN, NEW answered \in BOOLEAN, answered => accepted,
         Try(w, accepted, answered)
  PROVE  Inv'
<1> DEFINE c == cur[w]
<1>1. /\ WorkerOK(w) /\ TypeOK /\ c \in Deliveries
  BY DEF Inv, WorkerOK, TypeOK
<1>2. /\ UNCHANGED <<tables, todo, cur, draft, lost>>
      /\ tried' = [tried EXCEPT ![c] = @ + 1]
      /\ pc' = [pc EXCEPT ![w] = "mark"] /\ acked' = [acked EXCEPT ![w] = answered]
  BY DEF Try, Goto
<1>3. /\ received' \in [Deliveries -> Nat] /\ tried' \in [Deliveries -> Nat]
      /\ \A d \in Deliveries : received'[d] >= received[d] /\ tried'[d] >= tried[d]
      /\ accepted => received'[c] > 0
      /\ tried'[c] = tried[c] + 1
  BY <1>1, <1>2 DEF Try, TypeOK
<1>4. TypeOK'
  BY <1>1, <1>2, <1>3 DEF TypeOK, tables
<1>5. WorkerOK(w)'
  <2>1. Claims(w, c) => draft[w][c].attempt < tried'[c]
    <3>1. Claims(w, c) => draft[w][c] \in Rows /\ draft[w][c].attempt <= tried[c]
      BY <1>1 DEF Inv, ClaimOK, Earned, TypeOK, Claims
    <3>. QED
      BY <1>1, <1>3, <3>1 DEF Rows, TypeOK
  <2>2. acked'[w] => received'[c] > 0
    BY <1>1, <1>2, <1>3 DEF TypeOK
  <2>3. pc'[w] = "mark" /\ c # NoDelivery
    BY <1>1, <1>2, NullsAssumption DEF TypeOK
  <2>. QED
    BY <1>1, <1>2, <2>1, <2>2, <2>3 DEF WorkerOK, Claims
<1>. QED
  BY <1>1, <1>2, <1>3, <1>4, <1>5, WalkInv DEF TypeOK

LEMMA MarkInv == ASSUME Inv, NEW w \in Workers, Mark(w) PROVE Inv'
<1> DEFINE c == cur[w]
           new == Marked(draft[w][c], acked[w])
<1>1. WorkerOK(w) /\ TypeOK /\ pc[w] = "mark" /\ c \in Deliveries
  BY DEF Inv, Mark, WorkerOK, TypeOK
<1>2. /\ UNCHANGED <<tables, todo, lost, received, tried, faults>>
      /\ pc' = [pc EXCEPT ![w] = "next"] /\ cur' = [cur EXCEPT ![w] = NoDelivery]
      /\ acked' = [acked EXCEPT ![w] = FALSE]
  BY DEF Mark, Goto, history
<1>3. CASE lost[w]
  <2>1. draft' = draft
    BY <1>3 DEF Mark
  <2>2. TypeOK'
    BY <1>1, <1>2, <2>1 DEF TypeOK, tables
  <2>3. WorkerOK(w)'
    BY <1>1, <1>2, <1>3, <2>1 DEF WorkerOK, TypeOK
  <2>4. \A d \in Deliveries : received'[d] >= received[d] /\ tried'[d] >= tried[d]
    BY <1>1, <1>2 DEF TypeOK
  <2>5. pc'[w] # "idle" /\ UNCHANGED <<tables, draft, lost>>
    BY <1>1, <1>2, <2>1 DEF TypeOK
  <2>6. \A v \in Workers \ {w} : /\ pc'[v] = pc[v] /\ todo'[v] = todo[v]
                                  /\ cur'[v] = cur[v] /\ acked'[v] = acked[v]
    BY <1>1, <1>2 DEF TypeOK
  <2>. QED
    BY <2>2, <2>3, <2>4, <2>5, <2>6, WalkInv
<1>4. CASE ~lost[w]
  <2>1. draft' = [draft EXCEPT ![w][c] = new]
    BY <1>4 DEF Mark
  <2>2. Claims(w, c) /\ draft[w][c] \in Rows /\ Earned(draft[w][c], c)
    BY <1>1, <1>4 DEF WorkerOK, Claims, Inv, TypeOK, ClaimOK
  <2>3. new \in Rows /\ Earned(new, c)
    <3>1. draft[w][c].attempt < tried[c] /\ (acked[w] => received[c] > 0) /\ acked[w] \in BOOLEAN
      BY <1>1, <2>2 DEF WorkerOK, TypeOK
    <3>2. received[c] \in Nat /\ tried[c] \in Nat
      BY <1>1 DEF TypeOK
    <3>. QED
      BY <1>1, <2>2, <3>1, <3>2, MarkedRow
  <2> HIDE DEF new
  <2>4. /\ draft' \in [Workers -> [Deliveries -> Rows \cup {Unclaimed}]]
        /\ draft'[w][c] = new
        /\ \A v \in Workers, d \in Deliveries :
             v # w \/ d # c => draft'[v][d] = draft[v][d]
    BY <1>1, <2>1, <2>3 DEF TypeOK
  <2>5. \A v \in Workers, d \in Deliveries : Claims(v, d)' <=> Claims(v, d)
    BY <2>2, <2>3, <2>4, NullsAssumption DEF Claims
  <2>6. TypeOK'
    BY <1>1, <1>2, <2>4 DEF TypeOK, tables
  <2>7. ASSUME NEW v \in Workers PROVE WorkerOK(v)'
    <3>1. CASE v = w
      BY <1>1, <1>2, <1>4, <2>5, <3>1, NullsAssumption DEF WorkerOK, TypeOK
    <3>2. CASE v # w
      <4>1. pc[v] = "mark" => cur[v] \in Deliveries
        BY DEF Inv, WorkerOK, TypeOK
      <4>2. WorkerOK(v) /\ pc'[v] = pc[v] /\ cur'[v] = cur[v] /\ acked'[v] = acked[v]
        BY <1>1, <1>2, <3>2 DEF Inv, TypeOK
      <4>. QED
        BY <1>2, <2>4, <2>5, <3>2, <4>1, <4>2 DEF WorkerOK
    <3>. QED
      BY <3>1, <3>2
  <2>8. ASSUME NEW v \in Workers, NEW d \in Deliveries PROVE ClaimOK(v, d)'
    <3>1. ClaimOK(v, d) /\ (pc'[v] = pc[v] \/ pc'[v] # "idle")
      BY <1>1, <1>2 DEF Inv, TypeOK
    <3>2. Claims(v, d) => Earned(draft'[v][d], d)
      BY <2>3, <2>4, <3>1 DEF ClaimOK
    <3>. QED
      BY <1>2, <2>5, <3>1, <3>2 DEF ClaimOK, Due, Earned, tables
  <2>9. ASSUME NEW d \in Deliveries PROVE RowOK(d)'
    BY <1>2 DEF Inv, RowOK, Earned, tables
  <2>. QED
    BY <2>6, <2>7, <2>8, <2>9 DEF Inv
<1>. QED
  BY <1>3, <1>4

LEMMA CommitInv == ASSUME Inv, NEW w \in Workers, Commit(w) PROVE Inv'
<1>1. WorkerOK(w) /\ TypeOK /\ pc[w] = "next" /\ todo[w] = {}
  BY DEF Inv, Commit
<1>2. /\ UNCHANGED <<hookState, erased, todo, cur, acked, received, tried, faults>>
      /\ pc' = [pc EXCEPT ![w] = "idle"] /\ lost' = [lost EXCEPT ![w] = FALSE]
      /\ row' = [d \in Deliveries |-> IF Claims(w, d) THEN draft[w][d] ELSE row[d]]
      /\ draft' = [draft EXCEPT ![w] = [d \in Deliveries |-> Unclaimed]]
  BY DEF Commit, Goto, Released, history
<1>3. \A d \in Deliveries : /\ Claims(w, d) => row'[d] = draft[w][d] /\ draft[w][d] \in Rows
                            /\ ~Claims(w, d) => row'[d] = row[d]
  BY <1>1, <1>2 DEF Claims, TypeOK
<1>4. \A v \in Workers, d \in Deliveries : /\ Claims(v, d)' <=> v # w /\ Claims(v, d)
                                           /\ v # w => draft'[v] = draft[v]
  BY <1>1, <1>2 DEF Claims, TypeOK
<1>5. TypeOK'
  <2>1. \A d \in Deliveries : row'[d] \in Rows /\ row'[d].attempt < Len(retryDelays)
    BY <1>1, <1>3 DEF Inv, ClaimOK, Earned, TypeOK
  <2>2. row' \in [Deliveries -> Rows]
    BY <1>2, <2>1
  <2>. QED
    BY <1>1, <1>2, <2>1, <2>2 DEF TypeOK
<1>6. ASSUME NEW v \in Workers PROVE WorkerOK(v)'
  <2>1. CASE v = w
    BY <1>1, <1>2, <2>1, NullsAssumption DEF WorkerOK, TypeOK
  <2>2. CASE v # w
    <3>1. WorkerOK(v) /\ pc'[v] = pc[v] /\ lost'[v] = lost[v] /\ draft'[v] = draft[v]
      BY <1>1, <1>2, <2>2 DEF Inv, TypeOK
    <3>. QED
      BY <1>2, <3>1 DEF WorkerOK, Claims
  <2>. QED
    BY <2>1, <2>2
<1>7. ASSUME NEW v \in Workers, NEW d \in Deliveries PROVE ClaimOK(v, d)'
  <2>1. SUFFICES ASSUME Claims(v, d)' PROVE ClaimOK(v, d)'
    BY DEF ClaimOK
  <2>2. /\ v # w /\ Claims(v, d) /\ ClaimOK(v, d)
        /\ pc'[v] = pc[v] /\ lost'[v] = lost[v] /\ draft'[v] = draft[v]
    BY <1>1, <1>2, <1>4, <2>1 DEF Inv, TypeOK
  <2>3. row'[d] = row[d]
    BY <1>3, <2>2 DEF ClaimOK
  <2>. QED
    BY <1>2, <1>4, <2>2, <2>3 DEF ClaimOK, Due, Earned
<1>8. ASSUME NEW d \in Deliveries PROVE RowOK(d)'
  BY <1>2, <1>3 DEF Inv, ClaimOK, RowOK, Earned
<1>. QED
  BY <1>5, <1>6, <1>7, <1>8 DEF Inv

\* Letting go of the locks, with the goroutine going on or starting over.
LEMMA ReleaseInv ==
  ASSUME Inv, NEW w \in Workers, LoseTransaction(w) \/ Crash(w) PROVE Inv'
<1>1. /\ UNCHANGED <<row, hookState, erased, received, tried>> /\ faults' \in Nat /\ TypeOK
      /\ draft' = [draft EXCEPT ![w] = [d \in Deliveries |-> Unclaimed]]
      /\ pc[w] # "idle"
  BY DEF LoseTransaction, Crash, Fault, Released, tables, Inv, TypeOK
<1>2. \/ UNCHANGED <<pc, todo, cur, acked>> /\ lost' = [lost EXCEPT ![w] = TRUE]
      \/ /\ pc' = [pc EXCEPT ![w] = "idle"] /\ todo' = [todo EXCEPT ![w] = {}]
         /\ cur' = [cur EXCEPT ![w] = NoDelivery] /\ acked' = [acked EXCEPT ![w] = FALSE]
         /\ lost' = [lost EXCEPT ![w] = FALSE]
  BY DEF LoseTransaction, Crash, Goto
<1>3. \A v \in Workers, d \in Deliveries : /\ Claims(v, d)' <=> v # w /\ Claims(v, d)
                                           /\ v # w => draft'[v] = draft[v]
  BY <1>1 DEF Claims, TypeOK
<1>4. \A v \in Workers \ {w} : /\ pc'[v] = pc[v] /\ todo'[v] = todo[v] /\ cur'[v] = cur[v]
                               /\ acked'[v] = acked[v] /\ lost'[v] = lost[v]
  BY <1>1, <1>2 DEF TypeOK
<1>5. TypeOK'
  <2>1. draft' \in [Workers -> [Deliveries -> Rows \cup {Unclaimed}]]
    BY <1>1 DEF TypeOK
  <2>2. /\ pc' \in [Workers -> {"idle", "next", "url", "post", "mark"}]
        /\ todo' \in [Workers -> SUBSET Deliveries] /\ lost' \in [Workers -> BOOLEAN]
        /\ cur' \in [Workers -> Deliveries \cup {NoDelivery}]
        /\ acked' \in [Workers -> BOOLEAN]
    BY <1>1, <1>2 DEF TypeOK
  <2>. QED
    BY <1>1, <2>1, <2>2 DEF TypeOK
<1>6. ASSUME NEW v \in Workers PROVE WorkerOK(v)'
  <2>1. CASE v = w
    <3>1. ~Claims(w, cur[w])' \/ cur'[w] \notin Deliveries
      BY <1>1, <1>3, <1>5 DEF TypeOK, Claims
    <3>2. WorkerOK(w)
      BY DEF Inv
    <3>3. CASE UNCHANGED <<pc, todo, cur, acked>> /\ lost' = [lost EXCEPT ![w] = TRUE]
      BY <1>1, <2>1, <3>1, <3>2, <3>3 DEF WorkerOK, TypeOK
    <3>4. CASE /\ pc' = [pc EXCEPT ![w] = "idle"] /\ todo' = [todo EXCEPT ![w] = {}]
               /\ cur' = [cur EXCEPT ![w] = NoDelivery] /\ acked' = [acked EXCEPT ![w] = FALSE]
               /\ lost' = [lost EXCEPT ![w] = FALSE]
      BY <1>1, <2>1, <3>4, NullsAssumption DEF WorkerOK, TypeOK
    <3>. QED
      BY <1>2, <3>3, <3>4
  <2>2. CASE v # w
    BY <1>1, <1>3, <1>4, <2>2 DEF Inv, WorkerOK, Claims
  <2>. QED
    BY <2>1, <2>2
<1>7. ASSUME NEW v \in Workers, NEW d \in Deliveries PROVE ClaimOK(v, d)'
  <2>1. SUFFICES ASSUME Claims(v, d)' PROVE ClaimOK(v, d)'
    BY DEF ClaimOK
  <2>2. v # w /\ Claims(v, d) /\ ClaimOK(v, d) /\ draft'[v] = draft[v]
    BY <1>3, <2>1 DEF Inv
  <2>. QED
    BY <1>1, <1>3, <1>4, <2>2 DEF ClaimOK, Due, Earned
<1>8. ASSUME NEW d \in Deliveries PROVE RowOK(d)'
  BY <1>1 DEF Inv, RowOK, Earned
<1>. QED
  BY <1>5, <1>6, <1>7, <1>8 DEF Inv

\* A step of the other users of the tables, which leaves what is claimed alone.
LEMMA TablesInv ==
  ASSUME Inv, TypeOK', UNCHANGED <<workers, received, tried>>,
         \A d \in Deliveries : RowOK(d)',
         \A w \in Workers, d \in Deliveries : Claims(w, d) =>
           /\ row'[d] = row[d] /\ d \notin erased' /\ hookState'[HookOf[d]] # "deleted"
  PROVE  Inv'
<1>1. UNCHANGED <<pc, todo, cur, acked, draft, lost>>
  BY DEF workers
<1>2. \A w \in Workers : WorkerOK(w)'
  BY <1>1 DEF Inv, WorkerOK, Claims
<1>3. ASSUME NEW w \in Workers, NEW d \in Deliveries PROVE ClaimOK(w, d)'
  <2>1. ClaimOK(w, d)
    BY DEF Inv
  <2>. QED
    BY <1>1, <2>1 DEF ClaimOK, Claims, Due, Earned
<1>. QED
  BY <1>2, <1>3 DEF Inv

LEMMA EnqueueInv == ASSUME Inv, NEW d \in Deliveries, Enqueue(d) PROVE Inv'
<1>1. /\ row[d].state = "none" /\ hookState[HookOf[d]] = "active" /\ TypeOK /\ RowOK(d)
      /\ row' = [row EXCEPT ![d] = [row[d] EXCEPT !.state = "pending"]]
      /\ UNCHANGED <<hookState, erased, workers, received, tried, faults>>
  BY DEF Enqueue, Inv, history
<1> DEFINE new == [row[d] EXCEPT !.state = "pending"]
<1>2. new = [state |-> "pending", attempt |-> row[d].attempt, wait |-> row[d].wait]
  <2>1. row[d] \in Rows
    BY <1>1 DEF TypeOK
  <2>. QED
    BY <2>1 DEF Rows
<1>3. new \in Rows /\ new.attempt = row[d].attempt /\ new.state = "pending"
  <2>1. row[d] \in Rows
    BY <1>1 DEF TypeOK
  <2>. QED
    BY <1>2, <2>1 DEF Rows
<1>4. \A e \in Deliveries : row'[e] = IF e = d THEN new ELSE row[e]
  BY <1>1 DEF TypeOK
<1> HIDE DEF new
<1>5. TypeOK'
  <2>1. row' \in [Deliveries -> Rows]
    BY <1>1, <1>3 DEF TypeOK, new
  <2>2. \A e \in Deliveries : row'[e].attempt < Len(retryDelays)
    BY <1>1, <1>3, <1>4 DEF TypeOK
  <2>. QED
    BY <1>1, <2>1, <2>2 DEF TypeOK, workers
<1>6. ASSUME NEW e \in Deliveries PROVE RowOK(e)'
  BY <1>1, <1>3, <1>4 DEF Inv, RowOK, Earned
<1>7. \A w \in Workers, e \in Deliveries : Claims(w, e) =>
        /\ row'[e] = row[e] /\ e \notin erased' /\ hookState'[HookOf[e]] # "deleted"
  BY <1>1, <1>4 DEF Inv, ClaimOK, Due
<1>. QED
  BY <1>1, <1>5, <1>6, <1>7, TablesInv

LEMMA BeginDeleteInv ==
  ASSUME Inv, NEW h \in Hooks, BeginDelete(h) \/ CancelDelete(h) PROVE Inv'
<1>1. /\ hookState' \in [Hooks -> {"active", "deleting", "deleted"}]
      /\ \A g \in Hooks : hookState'[g] = "deleted" <=> hookState[g] = "deleted"
      /\ UNCHANGED <<row, workers, received, tried>> /\ faults' \in Nat
      /\ erased' \subseteq erased /\ TypeOK
  <2>1. CASE BeginDelete(h)
    BY <2>1 DEF BeginDelete, Inv, TypeOK, history
  <2>2. CASE CancelDelete(h)
    BY <2>2 DEF CancelDelete, Fault, Inv, TypeOK
  <2>. QED
    BY <2>1, <2>2
<1>2. TypeOK'
  BY <1>1 DEF TypeOK, workers
<1>3. \A d \in Deliveries : RowOK(d)'
  BY <1>1, HookOfAssumption DEF Inv, RowOK, Earned
<1>4. \A w \in Workers, d \in Deliveries : Claims(w, d) =>
        /\ row'[d] = row[d] /\ d \notin erased' /\ hookState'[HookOf[d]] # "deleted"
  BY <1>1, HookOfAssumption DEF Inv, ClaimOK
<1>. QED
  BY <1>1, <1>2, <1>3, <1>4, TablesInv

LEMMA CascadeInv == ASSUME Inv, NEW d \in Deliveries, Cascade(d) PROVE Inv'
<1>1. /\ UNCHANGED <<row, hookState, workers, received, tried, faults>>
      /\ erased' = erased \cup {d} /\ ~Locked(d) /\ TypeOK
  BY DEF Cascade, Inv, history
<1>2. TypeOK'
  BY <1>1 DEF TypeOK, workers
<1>3. \A e \in Deliveries : RowOK(e)'
  BY <1>1 DEF Inv, RowOK, Earned
<1>4. \A w \in Workers, e \in Deliveries : Claims(w, e) =>
        /\ row'[e] = row[e] /\ e \notin erased' /\ hookState'[HookOf[e]] # "deleted"
  BY <1>1 DEF Inv, ClaimOK, Locked
<1>. QED
  BY <1>1, <1>2, <1>3, <1>4, TablesInv

\* A DELETE that has every row of its webhook has none that a worker claims.
LEMMA FinishDeleteInv == ASSUME Inv, NEW h \in Hooks, FinishDelete(h) PROVE Inv'
<1> DEFINE gone == OfHook(h) \cap erased
<1>1. /\ \A d \in OfHook(h) : row[d].state # "none" => d \in erased
      /\ hookState' = [hookState EXCEPT ![h] = "deleted"]
      /\ row' = [d \in Deliveries |->
                   IF d \in gone THEN [row[d] EXCEPT !.state = "gone"] ELSE row[d]]
      /\ erased' = erased \ OfHook(h) /\ TypeOK
      /\ UNCHANGED <<workers, received, tried, faults>>
  BY DEF FinishDelete, Inv, history
<1>2. ASSUME NEW d \in Deliveries
      PROVE  /\ row'[d] \in Rows /\ row'[d].attempt = row[d].attempt
             /\ d \in gone => row'[d].state = "gone"
             /\ d \notin gone => row'[d] = row[d]
  <2>1. CASE d \in gone
    <3>1. row'[d] = [row[d] EXCEPT !.state = "gone"] /\ row[d] \in Rows
      BY <1>1, <2>1 DEF TypeOK
    <3>2. row'[d] = [state |-> "gone", attempt |-> row[d].attempt, wait |-> row[d].wait]
      BY <3>1 DEF Rows
    <3>. QED
      BY <2>1, <3>1, <3>2 DEF Rows
  <2>2. CASE d \notin gone
    BY <1>1, <2>2 DEF TypeOK
  <2>. QED
    BY <2>1, <2>2
<1>3. \A d \in Deliveries : HookOf[d] = h /\ row[d].state = "pending" => d \in gone
  BY <1>1 DEF OfHook
<1>4. \A d \in Deliveries : HookOf[d] \in Hooks /\
        (hookState'[HookOf[d]] = "deleted" => hookState[HookOf[d]] = "deleted" \/ HookOf[d] = h)
  BY <1>1, HookOfAssumption DEF TypeOK
<1> HIDE DEF gone
<1>5. TypeOK'
  <2>1. row' \in [Deliveries -> Rows]
    BY <1>1, <1>2
  <2>2. \A d \in Deliveries : row'[d].attempt < Len(retryDelays)
    BY <1>1, <1>2 DEF TypeOK
  <2>. QED
    BY <1>1, <2>1, <2>2 DEF TypeOK, workers
<1>6. ASSUME NEW d \in Deliveries PROVE RowOK(d)'
  BY <1>1, <1>2, <1>3, <1>4 DEF Inv, RowOK, Earned
<1>7. \A w \in Workers, d \in Deliveries : Claims(w, d) =>
        /\ row'[d] = row[d] /\ d \notin erased' /\ hookState'[HookOf[d]] # "deleted"
  <2> SUFFICES ASSUME NEW w \in Workers, NEW d \in Deliveries, Claims(w, d)
               PROVE  /\ row'[d] = row[d] /\ d \notin erased'
                      /\ hookState'[HookOf[d]] # "deleted"
    OBVIOUS
  <2>1. Due(d) /\ d \notin erased /\ hookState[HookOf[d]] # "deleted"
    BY DEF Inv, ClaimOK
  <2>. QED
    BY <1>1, <1>2, <1>3, <1>4, <2>1 DEF gone, Due
<1>. QED
  BY <1>1, <1>5, <1>6, <1>7, TablesInv

LEMMA TickInv == ASSUME Inv, Tick PROVE Inv'
<1>1. /\ row' = [d \in Deliveries |-> CountDown(row[d])]
      /\ draft' = [w \in Workers |-> [d \in Deliveries |->
                     IF Claims(w, d) THEN CountDown(draft[w][d]) ELSE Unclaimed]]
      /\ UNCHANGED <<hookState, erased, pc, todo, cur, acked, lost, received, tried, faults>>
      /\ TypeOK
  BY DEF Tick, history, Inv
<1>2. ASSUME NEW d \in Deliveries
      PROVE  /\ row'[d] \in Rows /\ row'[d].attempt = row[d].attempt
             /\ row'[d].state = row[d].state /\ (row[d].wait = 0 => row'[d].wait = 0)
  <2>1. row[d] \in Rows /\ row'[d] = CountDown(row[d])
    BY <1>1 DEF TypeOK
  <2>. QED
    BY <2>1, CountDownRow
<1>3. ASSUME NEW w \in Workers, NEW d \in Deliveries, Claims(w, d)
      PROVE  /\ draft'[w][d] \in Rows /\ draft'[w][d].attempt = draft[w][d].attempt
             /\ draft'[w][d].state = draft[w][d].state
  <2>1. draft[w][d] \in Rows /\ draft'[w][d] = CountDown(draft[w][d])
    BY <1>1, <1>3 DEF TypeOK, Claims
  <2>. QED
    BY <2>1, CountDownRow
<1>4. ASSUME NEW w \in Workers, NEW d \in Deliveries
      PROVE  /\ Claims(w, d)' <=> Claims(w, d)
             /\ draft'[w][d] \in Rows \cup {Unclaimed}
  <2>1. ~Claims(w, d) => draft'[w][d] = Unclaimed
    BY <1>1
  <2>. QED
    BY <1>3, <2>1, NullsAssumption DEF Claims
<1>5. TypeOK'
  <2>1. row' \in [Deliveries -> Rows]
    BY <1>1, <1>2
  <2>2. draft' \in [Workers -> [Deliveries -> Rows \cup {Unclaimed}]]
    BY <1>1, <1>4
  <2>. QED
    BY <1>1, <1>2, <2>1, <2>2 DEF TypeOK
<1>6. ASSUME NEW w \in Workers PROVE WorkerOK(w)'
  <2>1. WorkerOK(w) /\ (pc[w] = "mark" => cur[w] \in Deliveries)
    BY DEF Inv, WorkerOK, TypeOK
  <2>. QED
    BY <1>1, <1>3, <1>4, <2>1 DEF WorkerOK
<1>7. ASSUME NEW w \in Workers, NEW d \in Deliveries PROVE ClaimOK(w, d)'
  <2>1. SUFFICES ASSUME Claims(w, d) PROVE ClaimOK(w, d)'
    BY <1>4 DEF ClaimOK
  <2>2. ClaimOK(w, d)
    BY DEF Inv
  <2>3. Earned(draft[w][d], d)' /\ Due(d)'
    BY <1>1, <1>2, <1>3, <2>1, <2>2 DEF ClaimOK, Earned, Due
  <2>. QED
    BY <1>1, <1>4, <2>1, <2>2, <2>3 DEF ClaimOK
<1>8. ASSUME NEW d \in Deliveries PROVE RowOK(d)'
  BY <1>1, <1>2 DEF Inv, RowOK, Earned
<1>. QED
  BY <1>5, <1>6, <1>7, <1>8 DEF Inv

LEMMA NextInv == Inv /\ [Next]_vars => Inv'
<1> SUFFICES ASSUME Inv, [Next]_vars PROVE Inv'
  OBVIOUS
<1>1. ASSUME NEW w \in Workers, WorkerStep(w) PROVE Inv'
  <2>1. CASE URLFails(w)
    <3>1. pc[w] = "url" /\ Try(w, FALSE, FALSE) /\ faults' \in Nat
      BY <2>1 DEF URLFails, Inv, TypeOK
    <3>. QED
      BY <3>1, TryInv
  <2>2. CASE Post(w)
    <3>1. pc[w] = "post" /\ faults' \in Nat /\ (Try(w, TRUE, TRUE) \/ Try(w, FALSE, FALSE))
      BY <2>2 DEF Post, Inv, TypeOK
    <3>. QED
      BY <3>1, TryInv
  <2>. QED
    BY <1>1, <2>1, <2>2, PollInv, ReadSecretInv, ReadURLInv, MarkInv, CommitInv
       DEF WorkerStep
<1>2. ASSUME NEW w \in Workers, AnswerLost(w) PROVE Inv'
  <2>1. pc[w] = "post" /\ Try(w, TRUE, FALSE) /\ faults' = faults + 1
    BY <1>2 DEF AnswerLost, Fault
  <2>2. faults' \in Nat
    BY <2>1 DEF Inv, TypeOK
  <2>. QED
    BY <2>1, <2>2, TryInv
<1>3. CASE Deleting
  BY <1>3, FinishDeleteInv, CascadeInv DEF Deleting
<1>4. CASE Quiet \/ UNCHANGED vars
  <2>1. UNCHANGED <<row, hookState, erased, pc, todo, cur, acked, draft, lost,
                    received, tried, faults>>
    BY <1>4 DEF Quiet, vars, tables, workers, history
  <2>2. TypeOK' /\ \A w \in Workers : WorkerOK(w)'
    BY <2>1 DEF Inv, TypeOK, WorkerOK, Claims
  <2>3. \A d \in Deliveries : RowOK(d)'
    BY <2>1 DEF Inv, RowOK, Earned
  <2>4. \A w \in Workers, d \in Deliveries : ClaimOK(w, d)'
    BY <2>1 DEF Inv, ClaimOK, Claims, Due, Earned
  <2>. QED
    BY <2>2, <2>3, <2>4 DEF Inv
<1>. QED
  BY <1>1, <1>2, <1>3, <1>4, ReadSecretInv, ReleaseInv, EnqueueInv, BeginDeleteInv, TickInv
     DEF Next

\* The inductive invariant holds in every reachable state: a row lock protects what the
\* batch was read with, and no row says more than what was tried and received.
THEOREM Invariance == Spec => []Inv
BY InitInv, NextInv, PTL DEF Spec

\* Types, for any number of workers, deliveries, webhooks and delays: attempt stays an
\* index of retryDelays, so the lookup of the next delay never panics.
THEOREM TypeCorrect == Spec => []TypeOK
<1>1. Inv => TypeOK
  BY DEF Inv
<1>. QED
  BY <1>1, Invariance, PTL

\* FOR UPDATE SKIP LOCKED and the cascade's lock waits: as long as its transaction
\* lives, a worker's batch is its own, due, and of a webhook that exists.
THEOREM BatchesAreCurrent == Spec => []BatchIsCurrent
<1>1. Inv => BatchIsCurrent
  <2> SUFFICES ASSUME Inv, NEW w \in Workers, ~lost[w],
                      NEW d \in (todo[w] \cup {cur[w]}) \ {NoDelivery}
               PROVE  /\ Due(d) /\ d \notin erased /\ hookState[HookOf[d]] # "deleted"
                      /\ \A v \in Workers : Claims(v, d) <=> v = w
    BY DEF BatchIsCurrent
  <2>1. d \in Deliveries /\ Claims(w, d)
    BY DEF Inv, TypeOK, WorkerOK
  <2>. QED
    BY <2>1 DEF Inv, ClaimOK
<1>. QED
  BY <1>1, Invariance, PTL

\* No delivery is marked delivered unless its endpoint accepted it, whatever crashes,
\* lost answers and lost transactions came between.
THEOREM DeliveredReceived == Spec => []DeliveredWasReceived
<1>1. Inv => DeliveredWasReceived
  BY DEF Inv, RowOK, Earned, DeliveredWasReceived
<1>. QED
  BY <1>1, Invariance, PTL

\* No delivery is given up before it was tried once for every delay of retryDelays.
THEOREM GivenUpAfterAll == Spec => []GivenUpLast
<1>1. Inv => GivenUpLast
  BY DEF Inv, RowOK, Earned, GivenUpLast
<1>. QED
  BY <1>1, Invariance, PTL

Settled(d) == row[d].state \in {"delivered", "failed"}
StaysSettled(d) == Settled(d) => row'[d].state \in {row[d].state, "gone"}

LEMMA SettledStep == Inv /\ [Next]_vars => \A d \in Deliveries : StaysSettled(d)
<1> SUFFICES ASSUME Inv, [Next]_vars, NEW d \in Deliveries, Settled(d)
             PROVE  row'[d].state \in {row[d].state, "gone"}
  BY DEF StaysSettled
<1>1. CASE UNCHANGED row
  BY <1>1
<1>2. ASSUME NEW w \in Workers, Commit(w) PROVE row'[d] = row[d]
  <2>1. ~Claims(w, d)
    BY DEF Inv, ClaimOK, Due, Settled
  <2>. QED
    BY <1>2, <2>1 DEF Commit, Inv, TypeOK
<1>3. ASSUME NEW e \in Deliveries, Enqueue(e) PROVE row'[d] = row[d]
  <2>1. d # e
    BY <1>3 DEF Enqueue, Settled
  <2>. QED
    BY <1>3, <2>1 DEF Enqueue, Inv, TypeOK
<1>4. ASSUME NEW h \in Hooks, FinishDelete(h) PROVE row'[d].state \in {row[d].state, "gone"}
  <2>1. row[d] \in Rows
    BY DEF Inv, TypeOK
  <2>2. row'[d] = row[d] \/ row'[d] = [row[d] EXCEPT !.state = "gone"]
    BY <1>4 DEF FinishDelete
  <2>3. [row[d] EXCEPT !.state = "gone"].state = "gone"
    BY <2>1 DEF Rows
  <2>. QED
    BY <2>2, <2>3
<1>5. CASE Tick
  <2>1. row[d] \in Rows /\ row'[d] = CountDown(row[d])
    BY <1>5 DEF Tick, Inv, TypeOK
  <2>. QED
    BY <2>1, CountDownRow
<1>6. ASSUME NEW w \in Workers,
             \/ WorkerStep(w) \/ SecretFails(w) \/ AnswerLost(w)
             \/ LoseTransaction(w) \/ Crash(w)
      PROVE  UNCHANGED row \/ Commit(w)
  BY <1>6 DEF WorkerStep, Poll, Take, ReadSecret, ReadURL, URLFails, Post, Mark, SecretFails,
              AnswerLost, LoseTransaction, Crash, Try, tables
<1>7. ASSUME NEW h \in Hooks, BeginDelete(h) \/ CancelDelete(h) PROVE UNCHANGED row
  BY <1>7 DEF BeginDelete, CancelDelete
<1>8. CASE Deleting
  BY <1>1, <1>4, <1>8 DEF Deleting, Cascade
<1>9. CASE Quiet \/ UNCHANGED vars
  BY <1>9 DEF Quiet, vars, tables
<1>. QED
  BY <1>1, <1>2, <1>3, <1>4, <1>5, <1>6, <1>7, <1>8, <1>9 DEF Next

\* A delivery that is delivered or given up stays so: no worker's late commit reopens
\* it, since whoever marks it has it locked since it was read as pending.
THEOREM SettledForGood == Spec => SettledStays
<1>1. Inv /\ [Next]_vars
        => [\A d \in Deliveries :
              row[d].state \in {"delivered", "failed"}
                => row'[d].state \in {row[d].state, "gone"}]_vars
  BY SettledStep DEF StaysSettled, Settled
<1>. QED
  BY <1>1, Invariance, PTL DEF Spec, SettledStays

(***************************************************************************)
(* Counting: how often a delivery is tried and received, whatever the      *)
(* workers do at once, is bounded by what its row stands for and by the    *)
(* faults so far.                                                          *)
(***************************************************************************)

\* The attempts and the copies that a row stands for.
Tries(r)  == r.attempt + (IF r.state \in {"none", "pending"} THEN 0 ELSE 1)
Copies(r) == IF r.state \in {"delivered", "gone"} THEN 1 ELSE 0

\* Worker w has tried d and is about to mark it.
Tried(w, d) == cur[w] = d /\ pc[w] = "mark"

\* The same for a delivery that w has claimed.
ClaimTries(w, d)  == Tries(draft[w][d]) + (IF Tried(w, d) THEN 1 ELSE 0)
ClaimCopies(w, d) == Copies(draft[w][d]) + (IF Tried(w, d) /\ acked[w] THEN 1 ELSE 0)

\* d is in hand and has not been tried.
Untried(w, d) == d \in todo[w] \/ (cur[w] = d /\ pc[w] \in {"url", "post"})

\* The workers that have lost their transaction and will try d all the same.
Strays(d) == {w \in Workers : lost[w] /\ Untried(w, d)}

\* What has been tried and received so far, and what strays may add, is within what
\* the row stands for and a fault each.
Counted(d, tries, copies) ==
  /\ tried[d] + Cardinality(Strays(d)) <= tries + faults
  /\ received[d] + Cardinality(Strays(d)) <= copies + faults

CountOK(d) ==
  /\ \A w \in Workers : Claims(w, d) => Counted(d, ClaimTries(w, d), ClaimCopies(w, d))
  /\ (\A w \in Workers : ~Claims(w, d)) => Counted(d, Tries(row[d]), Copies(row[d]))

\* A draft is at most one attempt ahead of its row, and not before it is tried.
DraftOK(w, d) ==
  /\ cur[w] = d => d \notin todo[w]
  /\ Claims(w, d) =>
       /\ Tries(draft[w][d]) <= Tries(row[d]) + 1
       /\ d \in todo[w] \/ cur[w] = d =>
            draft[w][d].state = "pending" /\ draft[w][d].attempt = row[d].attempt

CountInv ==
  /\ \A w \in Workers, d \in Deliveries : DraftOK(w, d)
  /\ \A d \in Deliveries : CountOK(d)

LEMMA RowCounts ==
  ASSUME NEW r \in Rows
  PROVE  Tries(r) \in Nat /\ Copies(r) \in {0, 1}
BY DEF Tries, Copies, Rows

LEMMA ClaimCounts ==
  ASSUME TypeOK, NEW w \in Workers, NEW d \in Deliveries, Claims(w, d)
  PROVE  ClaimTries(w, d) \in Nat /\ ClaimCopies(w, d) \in Nat
<1>1. draft[w][d] \in Rows
  BY DEF TypeOK, Claims
<1>. QED
  BY <1>1, RowCounts DEF ClaimTries, ClaimCopies

LEMMA StraysFinite ==
  ASSUME NEW d
  PROVE  IsFiniteSet(Strays(d)) /\ Cardinality(Strays(d)) \in Nat
<1>1. Strays(d) \in SUBSET Workers
  BY DEF Strays
<1>2. IsFiniteSet(Strays(d))
  BY <1>1, FS_Subset, WorkersAssumption
<1>. QED
  BY <1>2, FS_CardinalityType

\* What a set loses or gains an element, so does its count.
LEMMA OneApart ==
  ASSUME NEW S, NEW T, IsFiniteSet(S)
  PROVE  /\ T \subseteq S => Cardinality(T) <= Cardinality(S)
         /\ \A w \in S : T \subseteq S \ {w} => Cardinality(T) <= Cardinality(S) - 1
         /\ \A w : T \subseteq S \cup {w} => Cardinality(T) <= Cardinality(S) + 1
<1>1. Cardinality(S) \in Nat
  BY FS_CardinalityType
<1>2. ASSUME T \subseteq S PROVE Cardinality(T) <= Cardinality(S)
  BY <1>2, FS_Subset
<1>3. ASSUME NEW w \in S, T \subseteq S \ {w} PROVE Cardinality(T) <= Cardinality(S) - 1
  <2>1. IsFiniteSet(S \ {w}) /\ Cardinality(S \ {w}) = Cardinality(S) - 1
    BY FS_RemoveElement
  <2>2. Cardinality(T) <= Cardinality(S \ {w})
    BY <1>3, <2>1, FS_Subset
  <2>. QED
    BY <2>1, <2>2
<1>4. ASSUME NEW w, T \subseteq S \cup {w} PROVE Cardinality(T) <= Cardinality(S) + 1
  <2>1. /\ IsFiniteSet(S \cup {w})
        /\ Cardinality(S \cup {w}) = IF w \in S THEN Cardinality(S) ELSE Cardinality(S) + 1
    BY FS_AddElement
  <2>2. Cardinality(T) <= Cardinality(S \cup {w}) /\ Cardinality(T) \in Nat
    BY <1>4, <2>1, FS_Subset, FS_CardinalityType
  <2>3. CASE w \in S
    BY <1>1, <2>1, <2>2, <2>3
  <2>4. CASE w \notin S
    BY <1>1, <2>1, <2>2, <2>4
  <2>. QED
    BY <2>3, <2>4
<1>. QED
  BY <1>2, <1>3, <1>4

LEMMA StraysAfter ==
  ASSUME NEW d
  PROVE  IsFiniteSet(Strays(d)') /\ Cardinality(Strays(d)') \in Nat
<1>1. Strays(d)' \in SUBSET Workers
  BY DEF Strays
<1>2. IsFiniteSet(Strays(d)')
  BY <1>1, FS_Subset, WorkersAssumption
<1>. QED
  BY <1>2, FS_CardinalityType

LEMMA DraftKept ==
  ASSUME NEW w \in Workers, NEW d \in Deliveries, DraftOK(w, d),
         cur'[w] = cur[w], todo'[w] \subseteq todo[w],
         Claims(w, d)' =>
           /\ Claims(w, d)
           /\ draft'[w][d].state = draft[w][d].state
           /\ draft'[w][d].attempt = draft[w][d].attempt
           /\ row'[d].state = row[d].state /\ row'[d].attempt = row[d].attempt
  PROVE  DraftOK(w, d)'
BY DEF DraftOK, Tries

\* A step in which d is neither tried nor received, nobody strays with it, and whoever
\* speaks for it after the step stands for no less than who did before.
LEMMA CountKept ==
  ASSUME Inv, Inv', NEW d \in Deliveries, CountOK(d),
         tried'[d] = tried[d], received'[d] = received[d], faults' >= faults,
         Strays(d)' \subseteq Strays(d),
         \A w \in Workers : Claims(w, d)' =>
           \/ /\ Claims(w, d)
              /\ ClaimTries(w, d)' >= ClaimTries(w, d)
              /\ ClaimCopies(w, d)' >= ClaimCopies(w, d)
           \/ /\ \A v \in Workers : ~Claims(v, d)
              /\ ClaimTries(w, d)' >= Tries(row[d])
              /\ ClaimCopies(w, d)' >= Copies(row[d]),
         (\A w \in Workers : ~Claims(w, d)') =>
           \/ \E w \in Workers : /\ Claims(w, d)
                                 /\ Tries(row'[d]) >= ClaimTries(w, d)
                                 /\ Copies(row'[d]) >= ClaimCopies(w, d)
           \/ /\ \A w \in Workers : ~Claims(w, d)
              /\ Tries(row'[d]) >= Tries(row[d])
              /\ Copies(row'[d]) >= Copies(row[d])
  PROVE  CountOK(d)'
<1> DEFINE k  == Cardinality(Strays(d))
           k2 == Cardinality(Strays(d)')
<1>1. k \in Nat /\ k2 \in Nat /\ k2 <= k
  BY StraysFinite, StraysAfter, OneApart
<1>2. /\ tried[d] \in Nat /\ received[d] \in Nat /\ faults \in Nat /\ faults' \in Nat
      /\ row[d] \in Rows /\ row'[d] \in Rows
  BY DEF Inv, TypeOK
<1>3. Tries(row[d]) \in Nat /\ Copies(row[d]) \in Nat
  BY <1>2, RowCounts
<1>4. Tries(row'[d]) \in Nat /\ Copies(row'[d]) \in Nat
  BY <1>2, RowCounts
<1>5. ASSUME NEW w \in Workers, Claims(w, d)
      PROVE  ClaimTries(w, d) \in Nat /\ ClaimCopies(w, d) \in Nat
  BY <1>5, ClaimCounts DEF Inv
<1>6. ASSUME NEW w \in Workers, Claims(w, d)'
      PROVE  ClaimTries(w, d)' \in Nat /\ ClaimCopies(w, d)' \in Nat
  <2>1. draft'[w][d] \in Rows
    BY <1>6 DEF Inv, TypeOK, Claims
  <2>. QED
    BY <2>1, RowCounts DEF ClaimTries, ClaimCopies
<1>7. ASSUME NEW t \in Nat, NEW c \in Nat, NEW t2 \in Nat, NEW c2 \in Nat,
             Counted(d, t, c), t2 >= t, c2 >= c
      PROVE  tried'[d] + k2 <= t2 + faults' /\ received'[d] + k2 <= c2 + faults'
  <2>1. tried[d] + k <= t + faults /\ received[d] + k <= c + faults
    BY <1>7 DEF Counted
  <2> HIDE DEF k, k2
  <2>. QED
    BY <1>1, <1>2, <1>7, <2>1
<1>8. ASSUME NEW w \in Workers, Claims(w, d)'
      PROVE  /\ tried'[d] + k2 <= ClaimTries(w, d)' + faults'
             /\ received'[d] + k2 <= ClaimCopies(w, d)' + faults'
  <2> HIDE DEF k, k2
  <2>1. CASE /\ Claims(w, d)
             /\ ClaimTries(w, d)' >= ClaimTries(w, d)
             /\ ClaimCopies(w, d)' >= ClaimCopies(w, d)
    <3>1. Counted(d, ClaimTries(w, d), ClaimCopies(w, d))
      BY <2>1 DEF CountOK
    <3>. QED
      BY <1>5, <1>6, <1>7, <1>8, <2>1, <3>1
  <2>2. CASE /\ \A v \in Workers : ~Claims(v, d)
             /\ ClaimTries(w, d)' >= Tries(row[d])
             /\ ClaimCopies(w, d)' >= Copies(row[d])
    <3>1. Counted(d, Tries(row[d]), Copies(row[d]))
      BY <2>2 DEF CountOK
    <3>. QED
      BY <1>3, <1>6, <1>7, <1>8, <2>2, <3>1
  <2>. QED
    BY <1>8, <2>1, <2>2
<1>9. ASSUME \A w \in Workers : ~Claims(w, d)'
      PROVE  /\ tried'[d] + k2 <= Tries(row'[d]) + faults'
             /\ received'[d] + k2 <= Copies(row'[d]) + faults'
  <2> HIDE DEF k, k2
  <2>1. ASSUME NEW w \in Workers, Claims(w, d), Tries(row'[d]) >= ClaimTries(w, d),
               Copies(row'[d]) >= ClaimCopies(w, d)
        PROVE  /\ tried'[d] + k2 <= Tries(row'[d]) + faults'
               /\ received'[d] + k2 <= Copies(row'[d]) + faults'
    <3>1. Counted(d, ClaimTries(w, d), ClaimCopies(w, d))
      BY <2>1 DEF CountOK
    <3>. QED
      BY <1>4, <1>5, <1>7, <2>1, <3>1
  <2>2. CASE /\ \A w \in Workers : ~Claims(w, d)
             /\ Tries(row'[d]) >= Tries(row[d]) /\ Copies(row'[d]) >= Copies(row[d])
    <3>1. Counted(d, Tries(row[d]), Copies(row[d]))
      BY <2>2 DEF CountOK
    <3>. QED
      BY <1>3, <1>4, <1>7, <2>2, <3>1
  <2>. QED
    BY <1>9, <2>1, <2>2
<1>. QED
  BY <1>8, <1>9 DEF CountOK, Counted

LEMMA InitCount == Init => CountInv
<1> SUFFICES ASSUME Init PROVE CountInv
  OBVIOUS
<1>1. \A d \in Deliveries : Strays(d) = {}
  BY DEF Init, Strays
<1>2. \A w \in Workers, d \in Deliveries : DraftOK(w, d)
  BY DEF Init, DraftOK, Claims
<1>3. ASSUME NEW d \in Deliveries PROVE CountOK(d)
  <2>1. Cardinality(Strays(d)) = 0
    BY <1>1, FS_EmptySet
  <2>2. /\ \A w \in Workers : ~Claims(w, d)
        /\ tried[d] = 0 /\ received[d] = 0 /\ faults = 0
        /\ Tries(row[d]) = 0 /\ Copies(row[d]) = 0
    BY DEF Init, Claims, Tries, Copies
  <2>. QED
    BY <2>1, <2>2 DEF CountOK, Counted
<1>. QED
  BY <1>2, <1>3 DEF CountInv

\* A step of one worker through its batch, without an attempt or a mark.
LEMMA WalkCount ==
  ASSUME Inv, Inv', CountInv, NEW w \in Workers,
         UNCHANGED <<row, draft, lost, received, tried>>, faults' >= faults,
         \A v \in Workers \ {w} : /\ pc'[v] = pc[v] /\ todo'[v] = todo[v]
                                  /\ cur'[v] = cur[v] /\ acked'[v] = acked[v],
         \A d \in Deliveries :
           /\ cur'[w] = d => d \notin todo'[w]
           /\ d \in todo'[w] \/ cur'[w] = d => d \in todo[w] \/ cur[w] = d
           /\ Untried(w, d)' => Untried(w, d)
           /\ Claims(w, d) => ~Tried(w, d) /\ ~Tried(w, d)'
  PROVE  CountInv'
<1>1. ASSUME NEW v \in Workers, NEW d \in Deliveries PROVE DraftOK(v, d)'
  <2>1. DraftOK(v, d)
    BY DEF CountInv
  <2>2. CASE v = w
    BY <2>1, <2>2 DEF DraftOK, Claims, Tries
  <2>3. CASE v # w
    BY <2>1, <2>3, DraftKept DEF Claims
  <2>. QED
    BY <2>2, <2>3
<1>2. ASSUME NEW d \in Deliveries PROVE CountOK(d)'
  <2>1. CountOK(d) /\ tried'[d] = tried[d] /\ received'[d] = received[d]
    BY DEF CountInv
  <2>2. Strays(d)' \subseteq Strays(d)
    <3>1. \A v \in Workers : Untried(v, d)' => Untried(v, d)
      BY DEF Untried
    <3>. QED
      BY <3>1 DEF Strays
  <2>3. ASSUME NEW v \in Workers, Claims(v, d)'
        PROVE  /\ Claims(v, d)
               /\ ClaimTries(v, d)' >= ClaimTries(v, d)
               /\ ClaimCopies(v, d)' >= ClaimCopies(v, d)
    <3>1. Claims(v, d)
      BY <2>3 DEF Claims
    <3>2. ClaimTries(v, d) \in Nat /\ ClaimCopies(v, d) \in Nat
      BY <3>1, ClaimCounts DEF Inv
    <3>3. ClaimTries(v, d)' = ClaimTries(v, d) /\ ClaimCopies(v, d)' = ClaimCopies(v, d)
      BY <3>1 DEF ClaimTries, ClaimCopies, Tried, Tries, Copies
    <3>. QED
      BY <3>1, <3>2, <3>3
  <2>4. ASSUME \A v \in Workers : ~Claims(v, d)'
        PROVE  /\ \A v \in Workers : ~Claims(v, d)
               /\ Tries(row'[d]) >= Tries(row[d]) /\ Copies(row'[d]) >= Copies(row[d])
    <3>1. row[d] \in Rows /\ row' = row
      BY DEF Inv, TypeOK
    <3>2. Tries(row[d]) \in Nat /\ Copies(row[d]) \in Nat
      BY <3>1, RowCounts
    <3>. QED
      BY <2>4, <3>1, <3>2 DEF Claims
  <2>. QED
    BY <2>1, <2>2, <2>3, <2>4, CountKept
<1>. QED
  BY <1>1, <1>2 DEF CountInv

LEMMA ReadSecretCount ==
  ASSUME Inv, Inv', CountInv, NEW w \in Workers, ReadSecret(w) \/ SecretFails(w)
  PROVE  CountInv'
<1>1. /\ pc[w] = "next" /\ TypeOK /\ WorkerOK(w)
      /\ UNCHANGED <<row, draft, lost, received, tried, acked>>
      /\ faults \in Nat /\ (faults' = faults \/ faults' = faults + 1)
  BY DEF ReadSecret, SecretFails, Fault, tables, history, Inv, TypeOK
<1>2. PICK e \in todo[w] :
        /\ todo' = [todo EXCEPT ![w] = @ \ {e}]
        /\ \/ pc' = pc /\ cur' = cur
           \/ pc' = [pc EXCEPT ![w] = "url"] /\ cur' = [cur EXCEPT ![w] = e]
  BY DEF ReadSecret, SecretFails, Goto
<1>3. \A v \in Workers \ {w} : /\ pc'[v] = pc[v] /\ todo'[v] = todo[v]
                               /\ cur'[v] = cur[v] /\ acked'[v] = acked[v]
  BY <1>1, <1>2 DEF TypeOK
<1>4. cur[w] = NoDelivery /\ todo'[w] = todo[w] \ {e}
  BY <1>1, <1>2 DEF WorkerOK, TypeOK
<1>5. \/ pc'[w] = "next" /\ cur'[w] = NoDelivery
      \/ pc'[w] = "url" /\ cur'[w] = e
  BY <1>1, <1>2, <1>4 DEF TypeOK
<1>6. \A d \in Deliveries :
           /\ cur'[w] = d => d \notin todo'[w]
           /\ d \in todo'[w] \/ cur'[w] = d => d \in todo[w] \/ cur[w] = d
           /\ Untried(w, d)' => Untried(w, d)
           /\ Claims(w, d) => ~Tried(w, d) /\ ~Tried(w, d)'
  BY <1>1, <1>2, <1>4, <1>5, NullsAssumption DEF Untried, Tried
<1>7. faults' >= faults
  BY <1>1
<1>. QED
  BY <1>1, <1>3, <1>6, <1>7, WalkCount

LEMMA ReadURLCount ==
  ASSUME Inv, Inv', CountInv, NEW w \in Workers, ReadURL(w) PROVE CountInv'
<1>1. /\ pc[w] = "url" /\ pc' = [pc EXCEPT ![w] = "post"] /\ TypeOK
      /\ UNCHANGED <<row, draft, lost, received, tried, acked, todo, cur, faults>>
  BY DEF ReadURL, Goto, tables, history, Inv
<1>2. pc'[w] = "post" /\ \A v \in Workers \ {w} : pc'[v] = pc[v]
  BY <1>1 DEF TypeOK
<1>3. \A d \in Deliveries : cur[w] = d => d \notin todo[w]
  BY DEF CountInv, DraftOK
<1>4. \A d \in Deliveries :
           /\ Untried(w, d)' => Untried(w, d)
           /\ Claims(w, d) => ~Tried(w, d) /\ ~Tried(w, d)'
  BY <1>1, <1>2 DEF Untried, Tried
<1>5. faults' >= faults
  BY <1>1 DEF TypeOK
<1>. QED
  BY <1>1, <1>2, <1>3, <1>4, <1>5, WalkCount

\* A poll drafts the rows it locks as they are.
LEMMA PollCount == ASSUME Inv, Inv', CountInv, NEW w \in Workers, Poll(w) PROVE CountInv'
<1>1. PICK batch \in SUBSET Deliveries :
        /\ \A d \in batch : row[d].state = "pending" /\ \A v \in Workers : ~Claims(v, d)
        /\ todo' = [todo EXCEPT ![w] = batch]
        /\ draft' = [draft EXCEPT ![w] =
             [d \in Deliveries |-> IF d \in batch THEN row[d] ELSE Unclaimed]]
  BY DEF Poll, Take, Locked, Due
<1>2. /\ pc[w] = "idle" /\ pc' = [pc EXCEPT ![w] = "next"] /\ TypeOK /\ WorkerOK(w)
      /\ UNCHANGED <<row, cur, acked, lost, received, tried, faults>>
  BY DEF Poll, Take, Goto, tables, history, Inv
<1>3. /\ pc'[w] = "next" /\ cur[w] = NoDelivery /\ ~lost[w] /\ todo[w] = {}
      /\ \A v \in Workers \ {w} : /\ pc'[v] = pc[v] /\ todo'[v] = todo[v]
                                  /\ draft'[v] = draft[v]
      /\ \A d \in Deliveries : draft'[w][d] = IF d \in batch THEN row[d] ELSE Unclaimed
  BY <1>1, <1>2 DEF TypeOK, WorkerOK
<1>4. ASSUME NEW d \in Deliveries
      PROVE  row[d] \in Rows /\ Tries(row[d]) \in Nat /\ Copies(row[d]) \in Nat
  <2>1. row[d] \in Rows
    BY <1>2 DEF TypeOK
  <2>. QED
    BY <2>1, RowCounts
<1>5. ASSUME NEW v \in Workers, NEW d \in Deliveries PROVE DraftOK(v, d)'
  <2>1. CASE v # w
    BY <1>2, <1>3, <2>1, DraftKept DEF CountInv, Claims
  <2>2. CASE v = w /\ d \in batch
    <3>1. row[d].state = "pending"
      BY <1>1, <2>2
    <3>. QED
      BY <1>2, <1>3, <1>4, <2>2, <3>1, NullsAssumption DEF DraftOK, Claims
  <2>3. CASE v = w /\ d \notin batch
    BY <1>2, <1>3, <2>3, NullsAssumption DEF DraftOK, Claims
  <2>. QED
    BY <2>1, <2>2, <2>3
<1>6. ASSUME NEW d \in Deliveries PROVE CountOK(d)'
  <2>1. CountOK(d) /\ tried'[d] = tried[d] /\ received'[d] = received[d] /\ faults' >= faults
    BY <1>2 DEF CountInv, TypeOK
  <2>2. Strays(d)' \subseteq Strays(d)
    BY <1>2, <1>3 DEF Strays, Untried
  <2>3. ASSUME NEW v \in Workers, Claims(v, d)'
        PROVE  \/ /\ Claims(v, d)
                  /\ ClaimTries(v, d)' >= ClaimTries(v, d)
                  /\ ClaimCopies(v, d)' >= ClaimCopies(v, d)
               \/ /\ \A u \in Workers : ~Claims(u, d)
                  /\ ClaimTries(v, d)' >= Tries(row[d])
                  /\ ClaimCopies(v, d)' >= Copies(row[d])
    <3>1. CASE v = w
      <4>1. d \in batch /\ draft'[w][d] = row[d]
        BY <1>3, <2>3, <3>1 DEF Claims
      <4>2. ClaimTries(w, d)' = Tries(row[d]) /\ ClaimCopies(w, d)' = Copies(row[d])
        BY <1>2, <1>3, <1>4, <4>1 DEF ClaimTries, ClaimCopies, Tried, Tries, Copies
      <4>. QED
        BY <1>1, <1>4, <3>1, <4>1, <4>2
    <3>2. CASE v # w
      <4>1. Claims(v, d)
        BY <1>3, <2>3, <3>2 DEF Claims
      <4>2. ClaimTries(v, d) \in Nat /\ ClaimCopies(v, d) \in Nat
        BY <1>2, <4>1, ClaimCounts
      <4>3. ClaimTries(v, d)' = ClaimTries(v, d) /\ ClaimCopies(v, d)' = ClaimCopies(v, d)
        BY <1>2, <1>3, <3>2 DEF ClaimTries, ClaimCopies, Tried, Tries, Copies
      <4>. QED
        BY <4>1, <4>2, <4>3
    <3>. QED
      BY <3>1, <3>2
  <2>4. ASSUME \A v \in Workers : ~Claims(v, d)'
        PROVE  /\ \A v \in Workers : ~Claims(v, d)
               /\ Tries(row'[d]) >= Tries(row[d]) /\ Copies(row'[d]) >= Copies(row[d])
    <3>1. ~Claims(w, d)
      BY <1>2 DEF Inv, ClaimOK
    <3>. QED
      BY <1>2, <1>3, <1>4, <2>4, <3>1 DEF Claims
  <2>. QED
    BY <2>1, <2>2, <2>3, <2>4, CountKept
<1>. QED
  BY <1>5, <1>6 DEF CountInv

LEMMA MarkedCounts ==
  ASSUME NEW r \in Rows, NEW ok \in BOOLEAN, r.state = "pending"
  PROVE  /\ Tries(Marked(r, ok)) = Tries(r) + 1 /\ Tries(r) = r.attempt
         /\ Copies(Marked(r, ok)) = Copies(r) + (IF ok THEN 1 ELSE 0)
<1> DEFINE a == r.attempt + 1
<1>1. Tries(r) = r.attempt /\ Copies(r) = 0 /\ r.attempt \in Nat
  BY DEF Tries, Copies, Rows
<1>2. CASE ok
  <2>1. Marked(r, ok) = [r EXCEPT !.state = "delivered"]
    BY <1>2 DEF Marked
  <2>2. Marked(r, ok).state = "delivered" /\ Marked(r, ok).attempt = r.attempt
    BY <2>1 DEF Rows
  <2>3. Tries(Marked(r, ok)) = r.attempt + 1 /\ Copies(Marked(r, ok)) = 1
    BY <2>2 DEF Tries, Copies
  <2>4. (IF ok THEN 1 ELSE 0) = 1
    BY <1>2
  <2>. QED
    BY <1>1, <2>3, <2>4
<1>3. CASE ~ok /\ a >= Len(retryDelays)
  <2>1. Marked(r, ok) = [r EXCEPT !.state = "failed"]
    BY <1>3 DEF Marked
  <2>2. Marked(r, ok).state = "failed" /\ Marked(r, ok).attempt = r.attempt
    BY <2>1 DEF Rows
  <2>. QED
    BY <1>1, <1>3, <2>2 DEF Tries, Copies
<1>4. CASE ~ok /\ ~(a >= Len(retryDelays))
  <2>1. Marked(r, ok) = [r EXCEPT !.attempt = a, !.wait = retryDelays[a + 1]]
    BY <1>4 DEF Marked
  <2>2. Marked(r, ok).state = "pending" /\ Marked(r, ok).attempt = a
    BY <2>1 DEF Rows
  <2>. QED
    BY <1>1, <1>4, <2>2 DEF Tries, Copies
<1>. QED
  BY <1>2, <1>3, <1>4

\* A mark records what the attempt added.
LEMMA MarkCount == ASSUME Inv, Inv', CountInv, NEW w \in Workers, Mark(w) PROVE CountInv'
<1>. PICK c \in Deliveries : c = cur[w]
  BY DEF Inv, Mark, WorkerOK, TypeOK
<1> DEFINE new == Marked(draft[w][c], acked[w])
<1>1. WorkerOK(w) /\ TypeOK /\ pc[w] = "mark"
  BY DEF Inv, Mark
<1>2. /\ UNCHANGED <<row, todo, lost, received, tried, faults>>
      /\ pc' = [pc EXCEPT ![w] = "next"] /\ cur' = [cur EXCEPT ![w] = NoDelivery]
      /\ acked' = [acked EXCEPT ![w] = FALSE] /\ faults' >= faults
  BY <1>1 DEF Mark, Goto, tables, history, TypeOK
<1>3. /\ pc'[w] = "next" /\ cur'[w] = NoDelivery /\ ~acked'[w]
      /\ \A v \in Workers \ {w} : /\ pc'[v] = pc[v] /\ todo'[v] = todo[v]
                                  /\ cur'[v] = cur[v] /\ acked'[v] = acked[v]
  BY <1>1, <1>2 DEF TypeOK
<1>4. \A d \in Deliveries : Untried(w, d)' => Untried(w, d)
  BY <1>2, <1>3, NullsAssumption DEF Untried
<1>5. CASE lost[w]
  <2>1. draft' = draft
    BY <1>5 DEF Mark
  <2>2. \A d \in Deliveries : ~Claims(w, d)
    BY <1>5 DEF Inv, ClaimOK
  <2>3. \A d \in Deliveries :
           /\ cur'[w] = d => d \notin todo'[w]
           /\ d \in todo'[w] \/ cur'[w] = d => d \in todo[w] \/ cur[w] = d
    BY <1>2, <1>3, NullsAssumption
  <2>. QED
    BY <1>2, <1>3, <1>4, <2>1, <2>2, <2>3, WalkCount
<1>6. CASE ~lost[w]
  <2>1. draft' = [draft EXCEPT ![w][c] = new]
    BY <1>6 DEF Mark
  <2>2. Claims(w, c) /\ draft[w][c] \in Rows /\ acked[w] \in BOOLEAN
    BY <1>1, <1>6 DEF WorkerOK, Claims, TypeOK
  <2>3. /\ draft[w][c].state = "pending" /\ draft[w][c].attempt = row[c].attempt
        /\ c \notin todo[w]
    BY <1>1, <2>2 DEF CountInv, DraftOK
  <2>4. /\ Tries(new) = Tries(draft[w][c]) + 1 /\ Tries(draft[w][c]) = row[c].attempt
        /\ Copies(new) = Copies(draft[w][c]) + (IF acked[w] THEN 1 ELSE 0)
    BY <2>2, <2>3, MarkedCounts
  <2> HIDE DEF new
  <2>5. /\ draft'[w][c] = new
        /\ \A v \in Workers, d \in Deliveries :
             v # w \/ d # c => draft'[v][d] = draft[v][d]
    BY <1>1, <2>1 DEF TypeOK
  <2>6. ASSUME NEW v \in Workers, NEW d \in Deliveries, Claims(v, d)'
        PROVE  /\ Claims(v, d)
               /\ ClaimTries(v, d)' >= ClaimTries(v, d)
               /\ ClaimCopies(v, d)' >= ClaimCopies(v, d)
    <3>1. Claims(v, d)
      BY <2>2, <2>5, <2>6 DEF Claims
    <3>2. ClaimTries(v, d) \in Nat /\ ClaimCopies(v, d) \in Nat
      BY <1>1, <3>1, ClaimCounts
    <3>3. CASE v = w /\ d = c
      <4>1. Tried(w, c) /\ ~Tried(w, c)'
        BY <1>1, <1>3 DEF Tried
      <4>2. /\ ClaimTries(w, c)' = Tries(draft'[w][c]) + 0
            /\ ClaimCopies(w, c)' = Copies(draft'[w][c]) + 0
        BY <4>1 DEF ClaimTries, ClaimCopies, Tries, Copies
      <4>3. /\ ClaimTries(w, c) = Tries(new)
            /\ ClaimCopies(w, c) = Copies(new)
        BY <2>4, <4>1 DEF ClaimTries, ClaimCopies
      <4>. QED
        BY <2>5, <3>1, <3>2, <3>3, <4>2, <4>3
    <3>4. CASE v # w \/ d # c
      <4>1. draft'[v][d] = draft[v][d]
        BY <2>5, <3>4
      <4>2. Tried(v, d)' = Tried(v, d) /\ (Tried(v, d) => acked'[v] = acked[v])
        BY <1>1, <1>3, <3>4, NullsAssumption DEF Tried
      <4>3. ClaimTries(v, d)' = ClaimTries(v, d) /\ ClaimCopies(v, d)' = ClaimCopies(v, d)
        BY <4>1, <4>2 DEF ClaimTries, ClaimCopies, Tries, Copies
      <4>. QED
        BY <3>1, <3>2, <4>3
    <3>. QED
      BY <3>3, <3>4
  <2>7. ASSUME NEW v \in Workers, NEW d \in Deliveries PROVE DraftOK(v, d)'
    <3>1. DraftOK(v, d)
      BY DEF CountInv
    <3>2. CASE v = w /\ d = c
      <4>1. row[c].state = "pending" /\ row[c] \in Rows
        BY <1>1, <2>2 DEF Inv, ClaimOK, Due, TypeOK
      <4>2. Tries(row[c]) = row[c].attempt
        BY <4>1 DEF Tries, Rows
      <4>3. Tries(new) <= Tries(row[c]) + 1
        BY <2>4, <4>1, <4>2 DEF Rows
      <4>4. Tries(draft'[w][c]) <= Tries(row'[c]) + 1
        BY <1>2, <2>5, <4>3
      <4>. QED
        BY <1>1, <1>2, <1>3, <2>3, <3>2, <4>4, NullsAssumption DEF DraftOK, Tries
    <3>3. CASE v = w /\ d # c
      BY <1>2, <1>3, <2>5, <3>1, <3>3, NullsAssumption DEF DraftOK, Tries, Claims
    <3>4. CASE v # w
      BY <1>2, <1>3, <2>5, <3>1, <3>4, DraftKept DEF Claims
    <3>. QED
      BY <3>2, <3>3, <3>4
  <2>8. ASSUME NEW d \in Deliveries PROVE CountOK(d)'
    <3>1. CountOK(d) /\ tried'[d] = tried[d] /\ received'[d] = received[d]
      BY <1>2 DEF CountInv
    <3>2. Strays(d)' \subseteq Strays(d)
      BY <1>2, <1>3, <1>4 DEF Strays, Untried
    <3>3. ASSUME \A v \in Workers : ~Claims(v, d)'
          PROVE  /\ \A v \in Workers : ~Claims(v, d)
                 /\ Tries(row'[d]) >= Tries(row[d]) /\ Copies(row'[d]) >= Copies(row[d])
      <4>1. row[d] \in Rows
        BY <1>1 DEF TypeOK
      <4>2. Tries(row[d]) \in Nat /\ Copies(row[d]) \in Nat
        BY <4>1, RowCounts
      <4>3. Claims(w, c)'
        <5>1. draft'[w][c] # Unclaimed
          <6>1. new \in Rows
            BY <1>1, <2>2, MarkedRow DEF new, Inv, ClaimOK, WorkerOK, TypeOK
          <6>. QED
            BY <2>5, <6>1, NullsAssumption
        <5>. QED
          BY <5>1 DEF Claims
      <4>4. d # c
        BY <3>3, <4>3
      <4>5. \A v \in Workers : draft'[v][d] = draft[v][d]
        BY <2>5, <4>4
      <4>. QED
        BY <1>2, <3>3, <4>2, <4>5 DEF Claims
    <3>. QED
      BY <1>2, <2>6, <3>1, <3>2, <3>3, CountKept
  <2>. QED
    BY <2>7, <2>8 DEF CountInv
<1>. QED
  BY <1>5, <1>6

\* An attempt: what it adds is taken from what the claim or the stray may still add, or
\* is on account of the answer that was lost.
LEMMA TryCount ==
  ASSUME Inv, Inv', CountInv, NEW w \in Workers, pc[w] \in {"url", "post"},
         NEW accepted \in BOOLEAN, NEW answered \in BOOLEAN,
         Try(w, accepted, answered),
         faults' >= faults, accepted /\ ~answered => faults' >= faults + 1
  PROVE  CountInv'
<1>. PICK c \in Deliveries : c = cur[w]
  BY DEF Inv, WorkerOK, TypeOK
<1>1. /\ UNCHANGED <<row, todo, cur, draft, lost>> /\ TypeOK /\ WorkerOK(w)
      /\ tried' = [tried EXCEPT ![c] = @ + 1]
      /\ received' = IF accepted THEN [received EXCEPT ![c] = @ + 1] ELSE received
      /\ pc' = [pc EXCEPT ![w] = "mark"] /\ acked' = [acked EXCEPT ![w] = answered]
  BY DEF Try, Goto, tables, Inv
<1>2. /\ pc'[w] = "mark" /\ acked'[w] = answered
      /\ \A v \in Workers \ {w} : pc'[v] = pc[v] /\ acked'[v] = acked[v]
      /\ tried'[c] = tried[c] + 1
      /\ received'[c] = received[c] + (IF accepted THEN 1 ELSE 0)
      /\ \A d \in Deliveries \ {c} : tried'[d] = tried[d] /\ received'[d] = received[d]
  BY <1>1 DEF TypeOK
<1>3. ASSUME NEW v \in Workers, NEW d \in Deliveries PROVE DraftOK(v, d)'
  BY <1>1, DraftKept DEF CountInv, Claims
<1>4. \A v \in Workers, d \in Deliveries : Untried(v, d)' => Untried(v, d)
  BY <1>1, <1>2 DEF Untried
<1>5. c \notin todo[w] /\ Untried(w, c) /\ ~Untried(w, c)'
  BY <1>1, <1>2, <1>3 DEF Untried, DraftOK
<1>6. \A d \in Deliveries : Strays(d)' \subseteq Strays(d)
  BY <1>1, <1>4 DEF Strays
<1>7. ASSUME NEW v \in Workers, NEW d \in Deliveries, Claims(v, d)', v # w \/ d # c
      PROVE  /\ Claims(v, d)
             /\ ClaimTries(v, d) \in Nat /\ ClaimCopies(v, d) \in Nat
             /\ ClaimTries(v, d)' = ClaimTries(v, d)
             /\ ClaimCopies(v, d)' = ClaimCopies(v, d)
  <2>1. Claims(v, d) /\ draft'[v][d] = draft[v][d]
    BY <1>1, <1>7 DEF Claims
  <2>2. Tried(v, d)' = Tried(v, d) /\ (Tried(v, d) => acked'[v] = acked[v])
    BY <1>1, <1>2, <1>7 DEF Tried
  <2>. QED
    BY <1>1, <2>1, <2>2, ClaimCounts DEF ClaimTries, ClaimCopies, Tries, Copies
<1>8. ASSUME NEW d \in Deliveries
      PROVE  row[d] \in Rows /\ Tries(row[d]) \in Nat /\ Copies(row[d]) \in Nat
  <2>1. row[d] \in Rows
    BY <1>1 DEF TypeOK
  <2>. QED
    BY <2>1, RowCounts
<1>9. ASSUME NEW d \in Deliveries, d # c PROVE CountOK(d)'
  <2>1. CountOK(d) /\ tried'[d] = tried[d] /\ received'[d] = received[d]
    BY <1>2, <1>9 DEF CountInv
  <2>2. ASSUME \A v \in Workers : ~Claims(v, d)'
        PROVE  /\ \A v \in Workers : ~Claims(v, d)
               /\ Tries(row'[d]) >= Tries(row[d]) /\ Copies(row'[d]) >= Copies(row[d])
    BY <1>1, <1>8, <2>2 DEF Claims
  <2>. QED
    BY <1>6, <1>7, <1>9, <2>1, <2>2, CountKept
<1>10. CountOK(c)'
  <2> DEFINE k  == Cardinality(Strays(c))
             k2 == Cardinality(Strays(c)')
  <2>1. k \in Nat /\ k2 \in Nat /\ k2 <= k
    BY <1>6, StraysFinite, StraysAfter, OneApart
  <2>2. lost[w] => k2 <= k - 1
    <3>1. lost[w] => w \in Strays(c) /\ w \notin Strays(c)'
      BY <1>1, <1>5 DEF Strays
    <3>. QED
      BY <1>6, <3>1, StraysFinite, OneApart
  <2> HIDE DEF k, k2
  <2>3. /\ tried[c] \in Nat /\ received[c] \in Nat /\ faults \in Nat /\ faults' \in Nat
    BY DEF Inv, TypeOK
  <2>4. CASE lost[w]
    <3>1. ~Claims(w, c) /\ ~Claims(w, c)'
      BY <1>1, <2>4 DEF Inv, ClaimOK, Claims
    <3>2. ASSUME NEW t \in Nat, NEW n \in Nat, Counted(c, t, n)
          PROVE  tried'[c] + k2 <= t + faults' /\ received'[c] + k2 <= n + faults'
      <4>1. tried[c] + k <= t + faults /\ received[c] + k <= n + faults
        BY <3>2 DEF Counted, k
      <4>. QED
        BY <1>2, <2>1, <2>2, <2>3, <2>4, <4>1
    <3>3. ASSUME NEW v \in Workers, Claims(v, c)'
          PROVE  /\ tried'[c] + k2 <= ClaimTries(v, c)' + faults'
                 /\ received'[c] + k2 <= ClaimCopies(v, c)' + faults'
      <4>1. v # w
        BY <3>1, <3>3
      <4>2. Counted(c, ClaimTries(v, c), ClaimCopies(v, c))
        BY <1>7, <3>3, <4>1 DEF CountInv, CountOK
      <4>. QED
        BY <1>7, <3>2, <3>3, <4>1, <4>2
    <3>4. ASSUME \A v \in Workers : ~Claims(v, c)'
          PROVE  /\ tried'[c] + k2 <= Tries(row'[c]) + faults'
                 /\ received'[c] + k2 <= Copies(row'[c]) + faults'
      <4>1. Counted(c, Tries(row[c]), Copies(row[c]))
        BY <1>1, <3>4 DEF CountInv, CountOK, Claims
      <4>. QED
        BY <1>1, <1>8, <3>2, <4>1
    <3>. QED
      BY <3>3, <3>4 DEF CountOK, Counted, k2
  <2>5. CASE ~lost[w]
    <3>1. Claims(w, c) /\ Claims(w, c)' /\ \A v \in Workers : Claims(v, c)' => v = w
      BY <1>1, <2>5 DEF Inv, WorkerOK, ClaimOK, Claims
    <3>2. /\ Counted(c, ClaimTries(w, c), ClaimCopies(w, c))
          /\ ClaimTries(w, c) \in Nat /\ ClaimCopies(w, c) \in Nat
      BY <1>1, <3>1, ClaimCounts DEF CountInv, CountOK
    <3>3. ~Tried(w, c) /\ Tried(w, c)'
      BY <1>1, <1>2 DEF Tried
    <3>4. /\ ClaimTries(w, c) = Tries(draft[w][c]) + 0
          /\ ClaimCopies(w, c) = Copies(draft[w][c]) + 0
      BY <3>3 DEF ClaimTries, ClaimCopies
    <3>5. /\ ClaimTries(w, c)' = Tries(draft'[w][c]) + 1
          /\ ClaimCopies(w, c)' = Copies(draft'[w][c]) + (IF answered THEN 1 ELSE 0)
      BY <1>2, <3>3 DEF ClaimTries, ClaimCopies, Tries, Copies
    <3>6. draft[w][c] \in Rows /\ draft' = draft
      BY <1>1, <3>1 DEF TypeOK, Claims
    <3>7. Tries(draft[w][c]) \in Nat /\ Copies(draft[w][c]) \in Nat
      BY <3>6, RowCounts
    <3>8. /\ tried[c] + k <= Tries(draft[w][c]) + faults
          /\ received[c] + k <= Copies(draft[w][c]) + faults
      BY <3>2, <3>4, <3>7 DEF Counted, k
    <3>9. tried'[c] + k2 <= ClaimTries(w, c)' + faults'
      BY <1>2, <2>1, <2>3, <3>5, <3>6, <3>7, <3>8
    <3>10. received'[c] + k2 <= ClaimCopies(w, c)' + faults'
      BY <1>2, <2>1, <2>3, <3>5, <3>6, <3>7, <3>8
    <3>. QED
      BY <3>1, <3>9, <3>10 DEF CountOK, Counted, k2
  <2>. QED
    BY <2>4, <2>5
<1>. QED
  BY <1>3, <1>9, <1>10 DEF CountInv

\* What a commit makes of a row is what the draft stood for.
LEMMA CommitCount == ASSUME Inv, Inv', CountInv, NEW w \in Workers, Commit(w) PROVE CountInv'
<1>1. /\ WorkerOK(w) /\ TypeOK /\ pc[w] = "next" /\ todo[w] = {}
      /\ UNCHANGED <<todo, cur, acked, received, tried, faults>>
      /\ pc' = [pc EXCEPT ![w] = "idle"] /\ lost' = [lost EXCEPT ![w] = FALSE]
      /\ row' = [d \in Deliveries |-> IF Claims(w, d) THEN draft[w][d] ELSE row[d]]
      /\ draft' = [draft EXCEPT ![w] = [d \in Deliveries |-> Unclaimed]]
  BY DEF Inv, Commit, Goto, Released, history
<1>2. /\ pc'[w] = "idle" /\ cur[w] = NoDelivery
      /\ \A v \in Workers \ {w} : /\ pc'[v] = pc[v] /\ lost'[v] = lost[v]
                                  /\ draft'[v] = draft[v]
      /\ \A d \in Deliveries : ~Claims(w, d)'
  BY <1>1 DEF TypeOK, WorkerOK, Claims
<1>3. ASSUME NEW d \in Deliveries
      PROVE  /\ Claims(w, d) => row'[d] = draft[w][d] /\ draft[w][d] \in Rows
             /\ ~Claims(w, d) => row'[d] = row[d]
  BY <1>1 DEF TypeOK, Claims
<1>4. ASSUME NEW v \in Workers, NEW d \in Deliveries, Claims(v, d)'
      PROVE  v # w /\ Claims(v, d) /\ ~Claims(w, d) /\ draft'[v][d] = draft[v][d]
  BY <1>2, <1>4 DEF Inv, ClaimOK, Claims
<1>5. ASSUME NEW v \in Workers, NEW d \in Deliveries PROVE DraftOK(v, d)'
  <2>1. DraftOK(v, d)
    BY DEF CountInv
  <2>. QED
    BY <1>1, <1>3, <1>4, <2>1, DraftKept
<1>6. ASSUME NEW d \in Deliveries PROVE CountOK(d)'
  <2>1. CountOK(d) /\ tried'[d] = tried[d] /\ received'[d] = received[d] /\ faults' >= faults
    BY <1>1 DEF CountInv, TypeOK
  <2>2. Strays(d)' \subseteq Strays(d)
    <3>1. \A v \in Workers : Untried(v, d)' => v # w
      BY <1>1, <1>2, NullsAssumption DEF Untried
    <3>. QED
      BY <1>1, <1>2, <3>1 DEF Strays, Untried
  <2>3. ASSUME NEW v \in Workers, Claims(v, d)'
        PROVE  /\ Claims(v, d)
               /\ ClaimTries(v, d)' >= ClaimTries(v, d)
               /\ ClaimCopies(v, d)' >= ClaimCopies(v, d)
    <3>1. v # w /\ Claims(v, d) /\ draft'[v][d] = draft[v][d]
      BY <1>4, <2>3
    <3>2. ClaimTries(v, d) \in Nat /\ ClaimCopies(v, d) \in Nat
      BY <1>1, <3>1, ClaimCounts
    <3>3. ClaimTries(v, d)' = ClaimTries(v, d) /\ ClaimCopies(v, d)' = ClaimCopies(v, d)
      BY <1>1, <1>2, <3>1 DEF ClaimTries, ClaimCopies, Tried, Tries, Copies
    <3>. QED
      BY <3>1, <3>2, <3>3
  <2>4. CASE Claims(w, d)
    <3>1. Tries(draft[w][d]) \in Nat /\ Copies(draft[w][d]) \in Nat
      BY <1>3, <2>4, RowCounts
    <3>2. ~Tried(w, d)
      BY <1>1 DEF Tried
    <3>3. ClaimTries(w, d) = Tries(row'[d]) /\ ClaimCopies(w, d) = Copies(row'[d])
      BY <1>3, <2>4, <3>1, <3>2 DEF ClaimTries, ClaimCopies
    <3>4. Tries(row'[d]) >= ClaimTries(w, d) /\ Copies(row'[d]) >= ClaimCopies(w, d)
      BY <1>3, <2>4, <3>1, <3>3
    <3>. QED
      BY <2>1, <2>2, <2>3, <2>4, <3>4, CountKept
  <2>5. CASE ~Claims(w, d)
    <3>1. row[d] \in Rows /\ row'[d] = row[d]
      BY <1>1, <1>3, <2>5 DEF TypeOK
    <3>2. Tries(row[d]) \in Nat /\ Copies(row[d]) \in Nat
      BY <3>1, RowCounts
    <3>3. ASSUME \A v \in Workers : ~Claims(v, d)'
          PROVE  /\ \A v \in Workers : ~Claims(v, d)
                 /\ Tries(row'[d]) >= Tries(row[d]) /\ Copies(row'[d]) >= Copies(row[d])
      BY <1>2, <2>5, <3>1, <3>2, <3>3 DEF Claims
    <3>. QED
      BY <2>1, <2>2, <2>3, <3>3, CountKept
  <2>. QED
    BY <2>4, <2>5
<1>. QED
  BY <1>5, <1>6 DEF CountInv

\* A transaction that ends without a commit: each row in its batch falls back by one
\* attempt, or the worker strays with it, and the fault pays for either.
LEMMA ReleaseCount ==
  ASSUME Inv, Inv', CountInv, NEW w \in Workers, LoseTransaction(w) \/ Crash(w)
  PROVE  CountInv'
<1>1. /\ WorkerOK(w) /\ TypeOK /\ UNCHANGED <<row, received, tried>> /\ faults' = faults + 1
      /\ draft' = [draft EXCEPT ![w] = [d \in Deliveries |-> Unclaimed]]
  BY DEF LoseTransaction, Crash, Fault, Released, tables, Inv
<1>2. \/ UNCHANGED <<pc, todo, cur, acked>> /\ ~lost[w] /\ lost' = [lost EXCEPT ![w] = TRUE]
      \/ /\ pc' = [pc EXCEPT ![w] = "idle"] /\ todo' = [todo EXCEPT ![w] = {}]
         /\ cur' = [cur EXCEPT ![w] = NoDelivery] /\ acked' = [acked EXCEPT ![w] = FALSE]
         /\ lost' = [lost EXCEPT ![w] = FALSE]
  BY DEF LoseTransaction, Crash, Goto
<1>3. /\ \A v \in Workers \ {w} : /\ pc'[v] = pc[v] /\ todo'[v] = todo[v] /\ cur'[v] = cur[v]
                                  /\ acked'[v] = acked[v] /\ lost'[v] = lost[v]
                                  /\ draft'[v] = draft[v]
      /\ \A d \in Deliveries : ~Claims(w, d)'
  BY <1>1, <1>2 DEF TypeOK, Claims
<1>4. \/ ~lost[w] /\ pc'[w] = pc[w] /\ todo'[w] = todo[w] /\ cur'[w] = cur[w]
      \/ ~lost'[w] /\ todo'[w] = {} /\ cur'[w] = NoDelivery
  BY <1>1, <1>2 DEF TypeOK
<1>5. \A d \in Deliveries : Strays(d)' \subseteq Strays(d) \cup {w}
  BY <1>3 DEF Strays, Untried
<1>6. ASSUME NEW d \in Deliveries, ~(Claims(w, d) /\ Untried(w, d))
      PROVE  Strays(d)' \subseteq Strays(d)
  <2>1. w \in Strays(d)' => ~lost[w] /\ Untried(w, d)
    BY <1>4 DEF Strays, Untried
  <2>2. ~lost[w] /\ Untried(w, d) => Claims(w, d)
    BY <1>1 DEF WorkerOK, Untried
  <2>. QED
    BY <1>5, <1>6, <2>1, <2>2
<1>7. ASSUME NEW v \in Workers, NEW d \in Deliveries PROVE DraftOK(v, d)'
  <2>1. DraftOK(v, d)
    BY DEF CountInv
  <2>2. CASE v = w
    BY <1>3, <1>4, <2>1, <2>2, NullsAssumption DEF DraftOK
  <2>3. CASE v # w
    BY <1>1, <1>3, <2>1, <2>3, DraftKept DEF Claims
  <2>. QED
    BY <2>2, <2>3
<1>8. ASSUME NEW d \in Deliveries
      PROVE  row[d] \in Rows /\ Tries(row[d]) \in Nat /\ Copies(row[d]) \in Nat
  <2>1. row[d] \in Rows
    BY <1>1 DEF TypeOK
  <2>. QED
    BY <2>1, RowCounts
<1>9. ASSUME NEW d \in Deliveries, Claims(w, d) PROVE CountOK(d)'
  <2> DEFINE k  == Cardinality(Strays(d))
             k2 == Cardinality(Strays(d)')
             u  == IF Untried(w, d) THEN 1 ELSE 0
  <2>1. k \in Nat /\ k2 \in Nat /\ k2 <= k + u
    BY <1>5, <1>6, StraysFinite, StraysAfter, OneApart
  <2>2. draft[w][d] \in Rows /\ row[d].state = "pending"
    BY <1>1, <1>9 DEF TypeOK, Claims, Inv, ClaimOK, Due
  <2>3. Tries(draft[w][d]) \in Nat /\ Copies(draft[w][d]) \in {0, 1} /\ Copies(row[d]) = 0
    BY <2>2, RowCounts DEF Copies
  <2>4. /\ tried[d] + k <= ClaimTries(w, d) + faults
        /\ received[d] + k <= ClaimCopies(w, d) + faults
    BY <1>9 DEF CountInv, CountOK, Counted
  <2>5. Tries(draft[w][d]) <= Tries(row[d]) + 1
    BY <1>9 DEF CountInv, DraftOK
  <2>6. d \in todo[w] \/ cur[w] = d =>
          /\ Tries(draft[w][d]) = Tries(row[d]) /\ Copies(draft[w][d]) = 0
          /\ cur[w] = d => d \notin todo[w]
    BY <1>9, <2>2 DEF CountInv, DraftOK, Tries, Copies
  <2>7. /\ ClaimTries(w, d) + u <= Tries(row[d]) + 1
        /\ ClaimCopies(w, d) + u <= 1
        /\ ClaimTries(w, d) \in Nat /\ ClaimCopies(w, d) \in Nat
    <3>1. CASE Untried(w, d)
      <4>1. ~Tried(w, d) /\ (d \in todo[w] \/ cur[w] = d)
        BY <2>6, <3>1 DEF Untried, Tried
      <4>2. ClaimTries(w, d) = Tries(draft[w][d]) + 0 /\ ClaimCopies(w, d) = Copies(draft[w][d]) + 0
        BY <4>1 DEF ClaimTries, ClaimCopies
      <4>. QED
        BY <1>8, <2>3, <2>6, <3>1, <4>1, <4>2
    <3>2. CASE ~Untried(w, d) /\ Tried(w, d)
      <4>1. Tries(draft[w][d]) = Tries(row[d]) /\ Copies(draft[w][d]) = 0
        BY <2>6, <3>2 DEF Tried
      <4>2. /\ ClaimTries(w, d) = Tries(draft[w][d]) + 1
            /\ ClaimCopies(w, d) = Copies(draft[w][d]) + (IF acked[w] THEN 1 ELSE 0)
        BY <3>2 DEF ClaimTries, ClaimCopies
      <4>. QED
        BY <1>8, <3>2, <4>1, <4>2
    <3>3. CASE ~Untried(w, d) /\ ~Tried(w, d)
      <4>1. ClaimTries(w, d) = Tries(draft[w][d]) + 0 /\ ClaimCopies(w, d) = Copies(draft[w][d]) + 0
        BY <3>3 DEF ClaimTries, ClaimCopies
      <4>. QED
        BY <1>8, <2>3, <2>5, <3>3, <4>1
    <3>. QED
      BY <3>1, <3>2, <3>3
  <2>8. /\ tried[d] \in Nat /\ received[d] \in Nat /\ faults \in Nat /\ u \in {0, 1}
    BY DEF Inv, TypeOK
  <2> HIDE DEF k, k2, u
  <2>9. /\ tried[d] + k2 <= Tries(row[d]) + faults'
        /\ received[d] + k2 <= Copies(row[d]) + faults'
    BY <1>1, <1>8, <2>1, <2>3, <2>4, <2>7, <2>8
  <2>10. \A v \in Workers : ~Claims(v, d)'
    BY <1>3, <1>9 DEF Claims, Inv, ClaimOK
  <2>. QED
    BY <1>1, <2>9, <2>10 DEF CountOK, Counted, k2
<1>10. ASSUME NEW d \in Deliveries, ~Claims(w, d) PROVE CountOK(d)'
  <2>1. CountOK(d) /\ tried'[d] = tried[d] /\ received'[d] = received[d] /\ faults' >= faults
    BY <1>1 DEF CountInv, TypeOK
  <2>2. Strays(d)' \subseteq Strays(d)
    BY <1>6, <1>10
  <2>3. ASSUME NEW v \in Workers, Claims(v, d)'
        PROVE  /\ Claims(v, d)
               /\ ClaimTries(v, d)' >= ClaimTries(v, d)
               /\ ClaimCopies(v, d)' >= ClaimCopies(v, d)
    <3>1. v # w /\ Claims(v, d) /\ draft'[v][d] = draft[v][d]
      BY <1>3, <2>3 DEF Claims
    <3>2. ClaimTries(v, d) \in Nat /\ ClaimCopies(v, d) \in Nat
      BY <1>1, <3>1, ClaimCounts
    <3>3. ClaimTries(v, d)' = ClaimTries(v, d) /\ ClaimCopies(v, d)' = ClaimCopies(v, d)
      BY <1>3, <3>1 DEF ClaimTries, ClaimCopies, Tried, Tries, Copies
    <3>. QED
      BY <3>1, <3>2, <3>3
  <2>4. ASSUME \A v \in Workers : ~Claims(v, d)'
        PROVE  /\ \A v \in Workers : ~Claims(v, d)
               /\ Tries(row'[d]) >= Tries(row[d]) /\ Copies(row'[d]) >= Copies(row[d])
    BY <1>1, <1>3, <1>8, <1>10, <2>4 DEF Claims
  <2>. QED
    BY <2>1, <2>2, <2>3, <2>4, CountKept
<1>. QED
  BY <1>7, <1>9, <1>10 DEF CountInv

\* A step of the other users of the tables, or of the clock.
LEMMA TablesCount ==
  ASSUME Inv, Inv', CountInv, UNCHANGED <<pc, todo, cur, acked, lost, received, tried>>,
         faults' >= faults,
         \A w \in Workers, d \in Deliveries :
           /\ Claims(w, d)' <=> Claims(w, d)
           /\ Claims(w, d) => /\ draft'[w][d].state = draft[w][d].state
                              /\ draft'[w][d].attempt = draft[w][d].attempt
                              /\ row'[d].state = row[d].state
                              /\ row'[d].attempt = row[d].attempt,
         \A d \in Deliveries : /\ Tries(row'[d]) >= Tries(row[d])
                               /\ Copies(row'[d]) >= Copies(row[d])
  PROVE  CountInv'
<1>1. ASSUME NEW w \in Workers, NEW d \in Deliveries PROVE DraftOK(w, d)'
  BY DraftKept DEF CountInv
<1>2. ASSUME NEW d \in Deliveries PROVE CountOK(d)'
  <2>1. CountOK(d) /\ Strays(d)' \subseteq Strays(d)
    BY DEF CountInv, Strays, Untried
  <2>2. ASSUME NEW w \in Workers, Claims(w, d)'
        PROVE  /\ Claims(w, d)
               /\ ClaimTries(w, d)' >= ClaimTries(w, d)
               /\ ClaimCopies(w, d)' >= ClaimCopies(w, d)
    <3>1. ClaimTries(w, d) \in Nat /\ ClaimCopies(w, d) \in Nat
      BY <2>2, ClaimCounts DEF Inv
    <3>2. ClaimTries(w, d)' = ClaimTries(w, d) /\ ClaimCopies(w, d)' = ClaimCopies(w, d)
      BY <2>2 DEF ClaimTries, ClaimCopies, Tried, Tries, Copies
    <3>. QED
      BY <2>2, <3>1, <3>2
  <2>. QED
    BY <2>1, <2>2, CountKept
<1>. QED
  BY <1>1, <1>2 DEF CountInv

LEMMA EnqueueCount ==
  ASSUME Inv, Inv', CountInv, NEW d \in Deliveries, Enqueue(d) PROVE CountInv'
<1>1. /\ row[d].state = "none" /\ TypeOK
      /\ row' = [row EXCEPT ![d] = [row[d] EXCEPT !.state = "pending"]]
      /\ UNCHANGED <<pc, todo, cur, acked, draft, lost, received, tried, faults>>
  BY DEF Enqueue, Inv, history, workers
<1>2. ASSUME NEW e \in Deliveries
      PROVE  /\ Tries(row'[e]) = Tries(row[e]) /\ Copies(row'[e]) = Copies(row[e])
             /\ Tries(row[e]) \in Nat /\ Copies(row[e]) \in Nat
             /\ e # d => row'[e] = row[e]
  <2>1. row[e] \in Rows
    BY <1>1 DEF TypeOK
  <2>2. e = d => row'[e].state = "pending" /\ row'[e].attempt = row[e].attempt
    BY <1>1, <2>1 DEF TypeOK, Rows
  <2>3. e # d => row'[e] = row[e]
    BY <1>1 DEF TypeOK
  <2>4. CASE e = d
    BY <1>1, <2>1, <2>2, <2>4, RowCounts DEF Tries, Copies
  <2>5. CASE e # d
    BY <2>1, <2>3, <2>5, RowCounts
  <2>. QED
    BY <2>4, <2>5
<1>3. \A w \in Workers : ~Claims(w, d)
  BY <1>1 DEF Inv, ClaimOK, Due
<1>4. faults' >= faults
  BY <1>1 DEF TypeOK
<1>5. \A w \in Workers, e \in Deliveries :
        /\ Claims(w, e)' <=> Claims(w, e)
        /\ Claims(w, e) => row'[e] = row[e] /\ draft'[w][e] = draft[w][e]
  BY <1>1, <1>2, <1>3 DEF Claims
<1>6. \A e \in Deliveries : Tries(row'[e]) >= Tries(row[e]) /\ Copies(row'[e]) >= Copies(row[e])
  BY <1>2
<1>. QED
  BY <1>1, <1>4, <1>5, <1>6, TablesCount

\* A deletion takes only rows that nobody has locked, and what was gone counts as done.
LEMMA DeleteCount ==
  ASSUME Inv, Inv', CountInv,
         \/ Deleting
         \/ \E h \in Hooks : BeginDelete(h) \/ CancelDelete(h)
  PROVE  CountInv'
<1>1. /\ TypeOK /\ UNCHANGED <<pc, todo, cur, acked, draft, lost, received, tried>>
      /\ faults' >= faults
  <2>1. faults \in Nat
    BY DEF Inv, TypeOK
  <2>. QED
    BY <2>1 DEF Deleting, FinishDelete, Cascade, BeginDelete, CancelDelete, Fault, workers,
                history, Inv
<1>2. ASSUME NEW d \in Deliveries
      PROVE  \/ row'[d] = row[d]
             \/ d \in erased /\ row'[d] = [row[d] EXCEPT !.state = "gone"]
  <2>1. ASSUME NEW h \in Hooks, FinishDelete(h)
        PROVE  \/ row'[d] = row[d]
               \/ d \in erased /\ row'[d] = [row[d] EXCEPT !.state = "gone"]
    BY <2>1 DEF FinishDelete
  <2>2. ~(\E h \in Hooks : FinishDelete(h)) => row' = row
    BY DEF Deleting, Cascade, BeginDelete, CancelDelete
  <2>. QED
    BY <2>1, <2>2
<1>3. ASSUME NEW d \in Deliveries
      PROVE  Tries(row'[d]) >= Tries(row[d]) /\ Copies(row'[d]) >= Copies(row[d])
  <2>1. row[d] \in Rows /\ Tries(row[d]) \in Nat /\ Copies(row[d]) \in {0, 1}
    <3>1. row[d] \in Rows
      BY <1>1 DEF TypeOK
    <3>. QED
      BY <3>1, RowCounts
  <2>2. CASE row'[d] = row[d]
    BY <2>1, <2>2
  <2>3. CASE row'[d] = [row[d] EXCEPT !.state = "gone"]
    <3>1. row'[d].state = "gone" /\ row'[d].attempt = row[d].attempt
      BY <2>1, <2>3 DEF Rows
    <3>2. Tries(row'[d]) = row[d].attempt + 1 /\ Copies(row'[d]) = 1
      BY <3>1 DEF Tries, Copies
    <3>3. Tries(row[d]) <= row[d].attempt + 1 /\ row[d].attempt \in Nat
      BY <2>1 DEF Tries, Rows
    <3>. QED
      BY <2>1, <3>2, <3>3
  <2>. QED
    BY <1>2, <2>2, <2>3
<1>4. \A w \in Workers, d \in Deliveries :
        /\ Claims(w, d)' <=> Claims(w, d)
        /\ Claims(w, d) => row'[d] = row[d] /\ draft'[w][d] = draft[w][d]
  BY <1>1, <1>2 DEF Claims, Inv, ClaimOK
<1>. QED
  BY <1>1, <1>3, <1>4, TablesCount

LEMMA TickCount == ASSUME Inv, Inv', CountInv, Tick PROVE CountInv'
<1>1. /\ row' = [d \in Deliveries |-> CountDown(row[d])]
      /\ draft' = [w \in Workers |-> [d \in Deliveries |->
                     IF Claims(w, d) THEN CountDown(draft[w][d]) ELSE Unclaimed]]
      /\ UNCHANGED <<pc, todo, cur, acked, lost, received, tried, faults>> /\ TypeOK
  BY DEF Tick, history, Inv
<1>2. ASSUME NEW d \in Deliveries
      PROVE  /\ row'[d].state = row[d].state /\ row'[d].attempt = row[d].attempt
             /\ row[d] \in Rows
  <2>1. row[d] \in Rows /\ row'[d] = CountDown(row[d])
    BY <1>1 DEF TypeOK
  <2>. QED
    BY <2>1, CountDownRow
<1>3. ASSUME NEW w \in Workers, NEW d \in Deliveries
      PROVE  /\ Claims(w, d)' <=> Claims(w, d)
             /\ Claims(w, d) => /\ draft'[w][d].state = draft[w][d].state
                                /\ draft'[w][d].attempt = draft[w][d].attempt
  <2>1. CASE Claims(w, d)
    <3>1. draft[w][d] \in Rows /\ draft'[w][d] = CountDown(draft[w][d])
      BY <1>1, <2>1 DEF TypeOK, Claims
    <3>2. CountDown(draft[w][d]) # Unclaimed
      BY <3>1, CountDownRow, NullsAssumption
    <3>. QED
      BY <2>1, <3>1, <3>2, CountDownRow DEF Claims
  <2>2. CASE ~Claims(w, d)
    BY <1>1, <2>2 DEF Claims
  <2>. QED
    BY <2>1, <2>2
<1>4. ASSUME NEW d \in Deliveries
      PROVE  Tries(row'[d]) >= Tries(row[d]) /\ Copies(row'[d]) >= Copies(row[d])
  <2>1. Tries(row[d]) \in Nat /\ Copies(row[d]) \in Nat
    BY <1>2, RowCounts
  <2>2. Tries(row'[d]) = Tries(row[d]) /\ Copies(row'[d]) = Copies(row[d])
    BY <1>2 DEF Tries, Copies
  <2>. QED
    BY <2>1, <2>2
<1>5. faults' >= faults
  BY <1>1 DEF TypeOK
<1>. QED
  BY <1>1, <1>2, <1>3, <1>4, <1>5, TablesCount

LEMMA NextCount == Inv /\ Inv' /\ CountInv /\ [Next]_vars => CountInv'
<1> SUFFICES ASSUME Inv, Inv', CountInv, [Next]_vars PROVE CountInv'
  OBVIOUS
<1>1. faults \in Nat
  BY DEF Inv, TypeOK
<1>2. ASSUME NEW w \in Workers, URLFails(w) \/ Post(w) \/ AnswerLost(w) PROVE CountInv'
  <2>1. pc[w] \in {"url", "post"}
    BY <1>2 DEF URLFails, Post, AnswerLost
  <2>2. /\ faults' >= faults
        /\ AnswerLost(w) => faults' >= faults + 1
    <3>1. /\ faults' = faults \/ faults' = faults + 1
          /\ AnswerLost(w) => faults' = faults + 1
      BY <1>2 DEF URLFails, Post, AnswerLost, Fault
    <3>. QED
      BY <1>1, <3>1
  <2>3. ASSUME Try(w, FALSE, FALSE) PROVE CountInv'
    BY <2>1, <2>2, <2>3, TryCount
  <2>4. ASSUME Try(w, TRUE, TRUE) PROVE CountInv'
    BY <2>1, <2>2, <2>4, TryCount
  <2>5. ASSUME AnswerLost(w) PROVE CountInv'
    <3>1. Try(w, TRUE, FALSE) /\ faults' >= faults + 1
      BY <2>2, <2>5 DEF AnswerLost
    <3>. QED
      BY <2>1, <2>2, <3>1, TryCount
  <2>. QED
    BY <1>2, <2>3, <2>4, <2>5 DEF URLFails, Post
<1>3. ASSUME NEW w \in Workers, WorkerStep(w) PROVE CountInv'
  BY <1>2, <1>3, PollCount, ReadSecretCount, ReadURLCount, MarkCount, CommitCount
     DEF WorkerStep
<1>4. CASE Quiet \/ UNCHANGED vars
  <2>1. UNCHANGED <<row, hookState, erased, pc, todo, cur, acked, draft, lost,
                    received, tried, faults>>
    BY <1>4 DEF Quiet, vars, tables, workers, history
  <2>. QED
    BY <2>1 DEF CountInv, DraftOK, CountOK, Counted, Strays, Untried, Claims, ClaimTries,
                ClaimCopies, Tried, Tries, Copies
<1>. QED
  BY <1>2, <1>3, <1>4, ReadSecretCount, ReleaseCount, EnqueueCount, DeleteCount, TickCount
     DEF Next

\* The counting invariant holds in every reachable state, on top of the row locks of
\* Invariance: what was tried, what was received and what strays may still add is
\* within what the row or its draft stands for and a fault each.
THEOREM Counting == Spec => []CountInv
BY Invariance, InitCount, NextCount, PTL DEF Spec

LEMMA Bounds ==
  ASSUME Inv, CountInv, NEW d \in Deliveries
  PROVE  tried[d] <= Len(retryDelays) + faults /\ received[d] <= 1 + faults
<1> DEFINE k == Cardinality(Strays(d))
<1>1. /\ k \in Nat /\ tried[d] \in Nat /\ received[d] \in Nat /\ faults \in Nat
      /\ row[d] \in Rows /\ row[d].attempt < Len(retryDelays)
  BY StraysFinite DEF Inv, TypeOK
<1>2. ASSUME NEW r \in Rows, r.attempt < Len(retryDelays)
      PROVE  /\ Tries(r) \in Nat /\ Tries(r) <= Len(retryDelays)
             /\ Copies(r) \in Nat /\ Copies(r) <= 1
             /\ r.state = "pending" => Tries(r) + 1 <= Len(retryDelays) /\ Copies(r) = 0
  BY <1>2, DelaysFacts DEF Rows, Tries, Copies
<1>3. ASSUME NEW t \in Nat, NEW n \in Nat, Counted(d, t, n), t <= Len(retryDelays), n <= 1
      PROVE  tried[d] <= Len(retryDelays) + faults /\ received[d] <= 1 + faults
  <2>1. tried[d] + k <= t + faults /\ received[d] + k <= n + faults
    BY <1>3 DEF Counted
  <2> HIDE DEF k
  <2>. QED
    BY <1>1, <1>3, <2>1, DelaysFacts
<1>4. ASSUME NEW w \in Workers, Claims(w, d)
      PROVE  tried[d] <= Len(retryDelays) + faults /\ received[d] <= 1 + faults
  <2>1. draft[w][d] \in Rows /\ draft[w][d].attempt < Len(retryDelays)
    BY <1>4 DEF Inv, TypeOK, Claims, ClaimOK, Earned
  <2>2. Tried(w, d) => draft[w][d].state = "pending"
    BY <1>4 DEF CountInv, DraftOK, Tried
  <2>3. /\ ClaimTries(w, d) \in Nat /\ ClaimCopies(w, d) \in Nat
        /\ Counted(d, ClaimTries(w, d), ClaimCopies(w, d))
    BY <1>4, ClaimCounts DEF Inv, CountInv, CountOK
  <2>4. ClaimTries(w, d) <= Len(retryDelays) /\ ClaimCopies(w, d) <= 1
    <3>1. CASE Tried(w, d)
      <4>1. /\ ClaimTries(w, d) = Tries(draft[w][d]) + 1
            /\ ClaimCopies(w, d) = Copies(draft[w][d]) + (IF acked[w] THEN 1 ELSE 0)
        BY <3>1 DEF ClaimTries, ClaimCopies
      <4>. QED
        BY <1>2, <2>1, <2>2, <3>1, <4>1
    <3>2. CASE ~Tried(w, d)
      <4>1. /\ ClaimTries(w, d) = Tries(draft[w][d]) + 0
            /\ ClaimCopies(w, d) = Copies(draft[w][d]) + 0
        BY <3>2 DEF ClaimTries, ClaimCopies
      <4>. QED
        BY <1>2, <2>1, <4>1
    <3>. QED
      BY <3>1, <3>2
  <2>. QED
    BY <1>3, <2>3, <2>4
<1>5. ASSUME \A w \in Workers : ~Claims(w, d)
      PROVE  tried[d] <= Len(retryDelays) + faults /\ received[d] <= 1 + faults
  <2>1. Counted(d, Tries(row[d]), Copies(row[d]))
    BY <1>5 DEF CountInv, CountOK
  <2>. QED
    BY <1>1, <1>2, <1>3, <2>1
<1>. QED
  BY <1>4, <1>5

\* An endpoint sees no delivery more often than once and once more for each fault: for
\* any number of workers that poll the same table, SKIP LOCKED and the mark at the end
\* of the batch make copies only where a transaction, an answer or a process was lost.
THEOREM CopiesNeedFaults == Spec => []DuplicatesNeedFaults
<1>1. Inv /\ CountInv => DuplicatesNeedFaults
  BY Bounds DEF DuplicatesNeedFaults
<1>. QED
  BY <1>1, Invariance, Counting, PTL

\* For any schedule of delays a delivery is tried at most once per delay, and once more
\* for each fault.
THEOREM AttemptsAreBounded == Spec => []AttemptsBounded
<1>1. Inv /\ CountInv => AttemptsBounded
  BY Bounds DEF AttemptsBounded
<1>. QED
  BY <1>1, Invariance, Counting, PTL

(***************************************************************************)
(* The workers implement the outbox                                        *)
(***************************************************************************)

\* new is r put off for another attempt.
PutOff(r, new) ==
  /\ r.attempt + 1 < Len(retryDelays)
  /\ \E wait \in 0..retryDelays[(r.attempt + 1) + 1] :
       new = [state |-> "pending", attempt |-> r.attempt + 1, wait |-> wait]

\* new is r with one more attempt recorded, of t tries and c copies so far.
Entry(r, new, t, c) ==
  /\ r.state = "pending" /\ r.wait = 0 /\ r.attempt + 1 <= t
  /\ \/ new = [state |-> "delivered", attempt |-> r.attempt, wait |-> 0] /\ c > 0
     \/ /\ new = [state |-> "failed", attempt |-> r.attempt, wait |-> 0]
        /\ r.attempt + 1 = Len(retryDelays)
     \/ PutOff(r, new)

\* What a worker has claimed is the row as committed, with one attempt recorded once it
\* is out of the worker's hands. What is in a worker's hands was enqueued.
HandOK(w, d) ==
  /\ d \in todo[w] \/ cur[w] = d => row[d].state # "none"
  /\ Claims(w, d) =>
       /\ draft[w][d] = row[d] \/ Entry(row[d], draft[w][d], tried[d], received[d])
       /\ d \in todo[w] \/ cur[w] = d => draft[w][d] = row[d]

HandInv ==
  /\ \A w \in Workers, d \in Deliveries : HandOK(w, d)
  /\ \A d \in erased : row[d].state # "none"

\* Recording keeps what bears it out, and the clock does not undo it.
LEMMA EntryKept ==
  ASSUME NEW r \in Rows, NEW new, NEW t \in Nat, NEW c \in Nat, Entry(r, new, t, c),
         NEW t2 \in Nat, NEW c2 \in Nat, t2 >= t, c2 >= c
  PROVE  Entry(r, new, t2, c2)
<1>1. r.attempt \in Nat
  BY DEF Rows
<1>. QED
  BY <1>1 DEF Entry

LEMMA EntryRow ==
  ASSUME NEW r \in Rows, NEW new, NEW t, NEW c, Entry(r, new, t, c)
  PROVE  /\ new.state \in {"delivered", "failed", "pending"}
         /\ r.wait = 0 /\ r.state = "pending"
BY DEF Entry, PutOff

LEMMA EntryTicked ==
  ASSUME NEW r \in Rows, NEW new, NEW t, NEW c, Entry(r, new, t, c)
  PROVE  CountDown(r) = r /\ Entry(r, CountDown(new), t, c)
<1>1. CountDown(r) = r
  BY DEF Entry, CountDown
<1>2. CASE ~(new.wait > 0)
  BY <1>1, <1>2 DEF CountDown
<1>3. CASE new.wait > 0
  <2>1. PutOff(r, new)
    BY <1>3 DEF Entry
  <2>2. PICK wait \in 0..retryDelays[(r.attempt + 1) + 1] :
          new = [state |-> "pending", attempt |-> r.attempt + 1, wait |-> wait]
    BY <2>1 DEF PutOff
  <2>3. retryDelays[(r.attempt + 1) + 1] \in Nat
    BY <2>1, DelaysFacts DEF PutOff, Rows
  <2>4. CountDown(new) = [state |-> "pending", attempt |-> r.attempt + 1, wait |-> wait - 1]
    BY <1>3, <2>2 DEF CountDown
  <2>5. wait - 1 \in 0..retryDelays[(r.attempt + 1) + 1]
    BY <1>3, <2>2, <2>3
  <2>6. PutOff(r, CountDown(new))
    BY <2>1, <2>4, <2>5 DEF PutOff
  <2>. QED
    BY <1>1, <2>6 DEF Entry
<1>. QED
  BY <1>1, <1>2, <1>3

LEMMA MarkedEntry ==
  ASSUME NEW r \in Rows, NEW ok \in BOOLEAN, NEW t \in Nat, NEW c \in Nat,
         r.state = "pending", r.wait = 0, r.attempt < Len(retryDelays), r.attempt < t,
         ok => c > 0
  PROVE  Entry(r, Marked(r, ok), t, c)
<1>1. r.attempt \in Nat /\ r.attempt + 1 <= t
  BY DEF Rows
<1>2. CASE ok
  <2>1. Marked(r, ok) = [state |-> "delivered", attempt |-> r.attempt, wait |-> 0]
    BY <1>2 DEF Marked, Rows
  <2>. QED
    BY <1>1, <1>2, <2>1 DEF Entry
<1>3. CASE ~ok /\ r.attempt + 1 >= Len(retryDelays)
  <2>1. Marked(r, ok) = [state |-> "failed", attempt |-> r.attempt, wait |-> 0]
    BY <1>3 DEF Marked, Rows
  <2>2. r.attempt + 1 = Len(retryDelays)
    BY <1>1, <1>3, DelaysFacts
  <2>. QED
    BY <1>1, <2>1, <2>2 DEF Entry
<1>4. CASE ~ok /\ ~(r.attempt + 1 >= Len(retryDelays))
  <2> DEFINE wait == retryDelays[(r.attempt + 1) + 1]
  <2>1. Marked(r, ok) = [r EXCEPT !.attempt = r.attempt + 1, !.wait = wait]
    BY <1>4 DEF Marked
  <2>2. Marked(r, ok) = [state |-> "pending", attempt |-> r.attempt + 1, wait |-> wait]
    BY <2>1 DEF Rows
  <2>3. r.attempt + 1 < Len(retryDelays) /\ wait \in 0..wait
    BY <1>1, <1>4, DelaysFacts
  <2>4. PutOff(r, Marked(r, ok))
    BY <2>2, <2>3 DEF PutOff
  <2>. QED
    BY <1>1, <2>4 DEF Entry
<1>. QED
  BY <1>2, <1>3, <1>4

\* An entry is what the outbox records.
LEMMA EntryRecorded ==
  ASSUME NEW d, NEW r \in Rows, NEW new, Entry(r, new, tried[d], received[d])
  PROVE  Outbox!Recorded(d, r, new)
<1>1. r.state = "pending" /\ r.wait = 0 /\ r.attempt + 1 <= tried[d]
  BY DEF Entry
<1>2. r = [state |-> "pending", attempt |-> r.attempt, wait |-> 0]
  BY <1>1 DEF Rows
<1>3. ASSUME NEW attempt \in Int, NEW wait \in Int
      PROVE  [r EXCEPT !.attempt = attempt, !.wait = wait]
               = [state |-> "pending", attempt |-> attempt, wait |-> wait]
  <2>1. ASSUME NEW e, e = [r EXCEPT !.attempt = attempt, !.wait = wait]
        PROVE  e = [state |-> "pending", attempt |-> attempt, wait |-> wait]
    BY <1>1, <2>1 DEF Rows
  <2>. QED
    BY <2>1
<1>4. /\ [r EXCEPT !.state = "delivered"]
           = [state |-> "delivered", attempt |-> r.attempt, wait |-> 0]
      /\ [r EXCEPT !.state = "failed"]
           = [state |-> "failed", attempt |-> r.attempt, wait |-> 0]
  BY <1>2
<1>5. CASE PutOff(r, new)
  <2>1. PICK wait \in 0..retryDelays[(r.attempt + 1) + 1] :
          new = [state |-> "pending", attempt |-> r.attempt + 1, wait |-> wait]
    BY <1>5 DEF PutOff
  <2>2. r.attempt + 1 \in Int /\ wait \in Int
    BY <2>1 DEF Rows
  <2>3. new = [r EXCEPT !.attempt = r.attempt + 1, !.wait = wait]
    BY <1>3, <2>1, <2>2
  <2>. QED
    BY <1>1, <1>5, <2>3 DEF Outbox!Recorded, PutOff
<1>6. CASE ~PutOff(r, new)
  BY <1>1, <1>4, <1>6 DEF Outbox!Recorded, Entry
<1>. QED
  BY <1>5, <1>6

LEMMA HandInit == Init => HandInv
BY NullsAssumption DEF Init, HandInv, HandOK, Claims

\* A step that changes neither the rows nor the drafts, and gives no worker more in hand
\* than it had.
LEMMA HandKept ==
  ASSUME Inv, Inv', HandInv, UNCHANGED <<row, erased>>,
         \A d \in Deliveries : tried'[d] >= tried[d] /\ received'[d] >= received[d],
         \A w \in Workers, d \in Deliveries :
           /\ (d \in todo[w] \/ cur[w] = d)' => d \in todo[w] \/ cur[w] = d
           /\ Claims(w, d)' => draft'[w][d] = draft[w][d]
  PROVE  HandInv'
<1>1. ASSUME NEW w \in Workers, NEW d \in Deliveries PROVE HandOK(w, d)'
  <2>1. HandOK(w, d)
    BY DEF HandInv
  <2>2. /\ row[d] \in Rows /\ tried[d] \in Nat /\ received[d] \in Nat
        /\ tried'[d] \in Nat /\ received'[d] \in Nat
    BY DEF Inv, TypeOK
  <2>3. ASSUME Claims(w, d)'
        PROVE  draft'[w][d] = row[d] \/ Entry(row[d], draft'[w][d], tried'[d], received'[d])
    <3>1. Claims(w, d) /\ draft'[w][d] = draft[w][d]
      BY <2>3 DEF Claims
    <3>2. CASE Entry(row[d], draft[w][d], tried[d], received[d])
      BY <2>2, <3>1, <3>2, EntryKept
    <3>. QED
      BY <2>1, <3>1, <3>2 DEF HandOK
  <2>. QED
    BY <2>1, <2>3 DEF HandOK, Claims
<1>. QED
  BY <1>1 DEF HandInv

LEMMA PollHand == ASSUME Inv, Inv', HandInv, NEW w \in Workers, Poll(w) PROVE HandInv'
<1>1. PICK batch \in SUBSET Deliveries :
        /\ \A d \in batch : Due(d)
        /\ todo' = [todo EXCEPT ![w] = batch]
        /\ draft' = [draft EXCEPT ![w] =
             [d \in Deliveries |-> IF d \in batch THEN row[d] ELSE Unclaimed]]
  BY DEF Poll, Take
<1>2. /\ pc[w] = "idle" /\ TypeOK /\ WorkerOK(w)
      /\ UNCHANGED <<row, hookState, erased, cur, received, tried>>
  BY DEF Poll, Take, tables, history, Inv
<1>3. ASSUME NEW v \in Workers, NEW d \in Deliveries PROVE HandOK(v, d)'
  <2>1. CASE v = w
    <3>1. /\ d \in todo'[w] => d \in batch
          /\ draft'[w][d] = IF d \in batch THEN row[d] ELSE Unclaimed
      BY <1>1, <1>2 DEF TypeOK
    <3>2. cur'[w] # d
      BY <1>2, NullsAssumption DEF WorkerOK
    <3>. QED
      BY <1>1, <1>2, <2>1, <3>1, <3>2 DEF HandOK, Claims, Due
  <2>2. CASE v # w
    <3>1. HandOK(v, d) /\ draft'[v] = draft[v] /\ todo'[v] = todo[v]
      BY <1>1, <1>2, <2>2 DEF HandInv, TypeOK
    <3>. QED
      BY <1>2, <3>1 DEF HandOK, Claims
  <2>. QED
    BY <2>1, <2>2
<1>. QED
  BY <1>2, <1>3 DEF HandInv

LEMMA WalkHand ==
  ASSUME Inv, Inv', HandInv, NEW w \in Workers,
         \/ ReadSecret(w) \/ SecretFails(w) \/ ReadURL(w)
         \/ \E accepted, answered \in BOOLEAN : Try(w, accepted, answered)
  PROVE  HandInv'
<1>1. TypeOK /\ TypeOK'
  BY DEF Inv
<1>2. UNCHANGED <<row, erased, draft>>
  BY DEF ReadSecret, SecretFails, ReadURL, Try, tables
<1>3. ASSUME NEW d \in Deliveries PROVE tried'[d] >= tried[d] /\ received'[d] >= received[d]
  <2>1. CASE \E accepted, answered \in BOOLEAN : Try(w, accepted, answered)
    <3>1. /\ tried' = [tried EXCEPT ![cur[w]] = tried[cur[w]] + 1]
          /\ \/ received' = received
             \/ received' = [received EXCEPT ![cur[w]] = received[cur[w]] + 1]
      BY <2>1 DEF Try
    <3>. QED
      BY <1>1, <3>1 DEF TypeOK
  <2>2. CASE ReadSecret(w) \/ SecretFails(w) \/ ReadURL(w)
    <3>1. UNCHANGED <<tried, received>>
      BY <2>2 DEF ReadSecret, SecretFails, ReadURL, history
    <3>. QED
      BY <1>1, <3>1 DEF TypeOK
  <2>. QED
    BY <2>1, <2>2
<1>4. ASSUME NEW v \in Workers, NEW d \in Deliveries, d \in todo'[v] \/ cur'[v] = d
      PROVE  d \in todo[v] \/ cur[v] = d
  <2>1. CASE ReadSecret(w) \/ SecretFails(w)
    <3>1. PICK e \in todo[w] : /\ todo' = [todo EXCEPT ![w] = @ \ {e}]
                               /\ cur' = cur \/ cur' = [cur EXCEPT ![w] = e]
      BY <2>1 DEF ReadSecret, SecretFails
    <3>. QED
      BY <1>1, <1>4, <3>1 DEF TypeOK
  <2>2. CASE ~(ReadSecret(w) \/ SecretFails(w))
    BY <1>4, <2>2 DEF ReadURL, Try
  <2>. QED
    BY <2>1, <2>2
<1>. QED
  BY <1>2, <1>3, <1>4, HandKept

\* Marking records the attempt that was just made.
LEMMA MarkHand ==
  ASSUME Inv, Inv', CountInv, HandInv, NEW w \in Workers, Mark(w) PROVE HandInv'
<1>1. /\ TypeOK /\ WorkerOK(w) /\ pc[w] = "mark" /\ cur[w] \in Deliveries
      /\ UNCHANGED <<row, erased, todo, tried, received>>
      /\ cur' = [cur EXCEPT ![w] = NoDelivery]
  BY DEF Inv, Mark, WorkerOK, TypeOK, tables, history
<1>2. \A v \in Workers, d \in Deliveries : cur'[v] = d => cur[v] = d
  BY <1>1, NullsAssumption DEF TypeOK
<1>3. CASE lost[w]
  <2>1. draft' = draft
    BY <1>3 DEF Mark
  <2>. QED
    BY <1>1, <1>2, <2>1, HandKept DEF TypeOK
<1>4. CASE ~lost[w]
  <2>1. PICK c \in Deliveries : c = cur[w]
    BY <1>1
  <2>2. draft' = [draft EXCEPT ![w][c] = Marked(draft[w][c], acked[w])]
    BY <1>4, <2>1 DEF Mark
  <2>3. Claims(w, c) /\ c \notin todo[w]
    BY <1>1, <1>4, <2>1 DEF WorkerOK, CountInv, DraftOK
  <2>4. draft[w][c] = row[c] /\ row[c] \in Rows
    BY <1>1, <2>1, <2>3 DEF HandInv, HandOK, TypeOK
  <2>5. Entry(row[c], Marked(row[c], acked[w]), tried[c], received[c])
    <3>1. /\ row[c].attempt < tried[c] /\ (acked[w] => received[c] > 0)
          /\ row[c].attempt < Len(retryDelays) /\ acked[w] \in BOOLEAN
          /\ tried[c] \in Nat /\ received[c] \in Nat
      BY <1>1, <2>1, <2>3, <2>4 DEF WorkerOK, TypeOK
    <3>2. row[c].state = "pending" /\ row[c].wait = 0
      BY <2>3 DEF Inv, ClaimOK, Due
    <3>. QED
      BY <2>4, <3>1, <3>2, MarkedEntry
  <2>6. /\ draft'[w][c] = Marked(row[c], acked[w])
        /\ \A v \in Workers, d \in Deliveries : v # w \/ d # c => draft'[v][d] = draft[v][d]
    BY <1>1, <2>2, <2>4 DEF TypeOK
  <2>7. ASSUME NEW v \in Workers, NEW d \in Deliveries PROVE HandOK(v, d)'
    <3>1. HandOK(v, d)
      BY DEF HandInv
    <3>2. CASE v = w /\ d = c
      <4>1. d \notin todo'[v] /\ cur'[v] # d
        BY <1>1, <2>1, <2>3, <3>2, NullsAssumption DEF TypeOK
      <4>. QED
        BY <1>1, <2>5, <2>6, <3>2, <4>1 DEF HandOK
    <3>3. CASE v # w \/ d # c
      BY <1>1, <1>2, <2>6, <3>1, <3>3 DEF HandOK, Claims
    <3>. QED
      BY <3>2, <3>3
  <2>. QED
    BY <1>1, <2>7 DEF HandInv
<1>. QED
  BY <1>3, <1>4

LEMMA CommitHand ==
  ASSUME Inv, Inv', HandInv, NEW w \in Workers, Commit(w) PROVE HandInv'
<1>1. /\ TypeOK /\ WorkerOK(w) /\ pc[w] = "next" /\ todo[w] = {}
      /\ UNCHANGED <<erased, todo, cur, tried, received>>
      /\ row' = [d \in Deliveries |-> IF Claims(w, d) THEN draft[w][d] ELSE row[d]]
      /\ draft' = [draft EXCEPT ![w] = [d \in Deliveries |-> Unclaimed]]
  BY DEF Inv, Commit, Released, history
<1>2. ASSUME NEW d \in Deliveries PROVE row[d].state # "none" => row'[d].state # "none"
  <2>1. CASE Claims(w, d)
    <3>1. row'[d] = draft[w][d] /\ HandOK(w, d) /\ row[d] \in Rows
      BY <1>1, <2>1 DEF HandInv, TypeOK
    <3>. QED
      BY <2>1, <3>1, EntryRow DEF HandOK
  <2>2. CASE ~Claims(w, d)
    BY <1>1, <2>2
  <2>. QED
    BY <2>1, <2>2
<1>3. ASSUME NEW v \in Workers, NEW d \in Deliveries PROVE HandOK(v, d)'
  <2>1. HandOK(v, d) /\ ClaimOK(v, d)
    BY DEF HandInv, Inv
  <2>2. Claims(v, d)' => v # w /\ Claims(v, d) /\ draft'[v] = draft[v]
    BY <1>1 DEF Claims, TypeOK
  <2>3. Claims(v, d)' => row'[d] = row[d]
    BY <1>1, <2>1, <2>2 DEF ClaimOK
  <2>. QED
    BY <1>1, <1>2, <2>1, <2>2, <2>3 DEF HandOK
<1>4. ASSUME NEW d \in erased' PROVE row'[d].state # "none"
  BY <1>1, <1>2, <1>4 DEF HandInv, TypeOK
<1>. QED
  BY <1>3, <1>4 DEF HandInv

LEMMA ReleaseHand ==
  ASSUME Inv, Inv', HandInv, NEW w \in Workers, LoseTransaction(w) \/ Crash(w)
  PROVE  HandInv'
<1>1. /\ TypeOK /\ UNCHANGED <<row, erased, tried, received>>
      /\ draft' = [draft EXCEPT ![w] = [d \in Deliveries |-> Unclaimed]]
      /\ \/ UNCHANGED <<todo, cur>>
         \/ todo' = [todo EXCEPT ![w] = {}] /\ cur' = [cur EXCEPT ![w] = NoDelivery]
  BY DEF Inv, LoseTransaction, Crash, Released, tables
<1>2. ASSUME NEW v \in Workers, NEW d \in Deliveries
      PROVE  /\ d \in todo'[v] \/ cur'[v] = d => d \in todo[v] \/ cur[v] = d
             /\ Claims(v, d)' => draft'[v][d] = draft[v][d]
  BY <1>1, NullsAssumption DEF Claims, TypeOK
<1>. QED
  BY <1>1, <1>2, HandKept DEF TypeOK

\* A step of the other users of the tables: claimed rows stay, and no row is forgotten.
LEMMA TablesHand ==
  ASSUME Inv, Inv', HandInv, UNCHANGED <<todo, cur, draft, tried, received>>,
         \A w \in Workers, d \in Deliveries : Claims(w, d) => row'[d] = row[d],
         \A d \in Deliveries : row[d].state # "none" => row'[d].state # "none",
         \A d \in erased' : row'[d].state # "none"
  PROVE  HandInv'
<1>1. ASSUME NEW w \in Workers, NEW d \in Deliveries PROVE HandOK(w, d)'
  <2>1. HandOK(w, d)
    BY DEF HandInv
  <2>. QED
    BY <2>1 DEF HandOK, Claims
<1>. QED
  BY <1>1 DEF HandInv

LEMMA EnqueueHand ==
  ASSUME Inv, Inv', HandInv, NEW d \in Deliveries, Enqueue(d) PROVE HandInv'
<1>1. /\ TypeOK /\ row[d].state = "none" /\ row' = [row EXCEPT ![d].state = "pending"]
      /\ UNCHANGED <<erased, todo, cur, draft, tried, received>>
  BY DEF Inv, Enqueue, workers, history
<1>2. \A e \in Deliveries : e # d => row'[e] = row[e]
  BY <1>1 DEF TypeOK
<1>3. row'[d].state = "pending"
  BY <1>1 DEF TypeOK, Rows
<1>4. \A w \in Workers : ~Claims(w, d)
  BY <1>1 DEF Inv, ClaimOK, Due
<1>5. \A e \in erased' : row'[e].state # "none"
  BY <1>1, <1>2, <1>3 DEF HandInv, TypeOK
<1>. QED
  BY <1>1, <1>2, <1>3, <1>4, <1>5, TablesHand

LEMMA DeleteHand ==
  ASSUME Inv, Inv', HandInv,
         \/ Deleting
         \/ \E h \in Hooks : BeginDelete(h) \/ CancelDelete(h)
  PROVE  HandInv'
<1>1. TypeOK /\ UNCHANGED <<todo, cur, draft, tried, received>>
  BY DEF Deleting, FinishDelete, Cascade, BeginDelete, CancelDelete, Fault, workers,
         history, Inv
<1>2. ASSUME NEW d \in Deliveries
      PROVE  \/ row'[d] = row[d]
             \/ d \in erased /\ row'[d] = [row[d] EXCEPT !.state = "gone"]
  BY DEF Deleting, FinishDelete, Cascade, BeginDelete, CancelDelete
<1>3. ASSUME NEW d \in Deliveries, row[d].state # "none" PROVE row'[d].state # "none"
  <2>1. row[d] \in Rows
    BY <1>1 DEF TypeOK
  <2>. QED
    BY <1>2, <1>3, <2>1 DEF Rows
<1>4. ASSUME NEW d \in erased' PROVE d \in Deliveries /\ row[d].state # "none"
  <2>1. d \in erased \/ (d \in Deliveries /\ row[d].state # "none")
    BY <1>4 DEF Deleting, FinishDelete, Cascade, BeginDelete, CancelDelete
  <2>. QED
    BY <1>1, <2>1 DEF HandInv, TypeOK
<1>5. \A w \in Workers, d \in Deliveries : Claims(w, d) => row'[d] = row[d]
  BY <1>2 DEF Inv, ClaimOK
<1>. QED
  BY <1>1, <1>3, <1>4, <1>5, TablesHand

LEMMA TickHand == ASSUME Inv, Inv', HandInv, Tick PROVE HandInv'
<1>1. /\ row' = [d \in Deliveries |-> CountDown(row[d])]
      /\ draft' = [w \in Workers |-> [d \in Deliveries |->
                     IF Claims(w, d) THEN CountDown(draft[w][d]) ELSE Unclaimed]]
      /\ UNCHANGED <<erased, todo, cur, tried, received>> /\ TypeOK
  BY DEF Tick, history, Inv
<1>2. ASSUME NEW d \in Deliveries
      PROVE  row[d] \in Rows /\ row'[d] = CountDown(row[d]) /\ row'[d].state = row[d].state
  <2>1. row[d] \in Rows /\ row'[d] = CountDown(row[d])
    BY <1>1 DEF TypeOK
  <2>. QED
    BY <2>1, CountDownRow
<1>3. ASSUME NEW w \in Workers, NEW d \in Deliveries PROVE HandOK(w, d)'
  <2>1. HandOK(w, d)
    BY DEF HandInv
  <2>2. ASSUME Claims(w, d)'
        PROVE  /\ \/ draft'[w][d] = row'[d]
                  \/ Entry(row'[d], draft'[w][d], tried[d], received[d])
               /\ d \in todo[w] \/ cur[w] = d => draft'[w][d] = row'[d]
    <3>1. Claims(w, d) /\ draft'[w][d] = CountDown(draft[w][d])
      BY <1>1, <2>2 DEF Claims
    <3>2. CASE Entry(row[d], draft[w][d], tried[d], received[d])
      <4>1. row'[d] = row[d] /\ Entry(row[d], draft'[w][d], tried[d], received[d])
        BY <1>2, <3>1, <3>2, EntryTicked
      <4>. QED
        BY <1>2, <2>1, <3>1, <4>1 DEF HandOK
    <3>. QED
      BY <1>2, <2>1, <3>1, <3>2 DEF HandOK
  <2>. QED
    BY <1>1, <1>2, <2>1, <2>2 DEF HandOK
<1>4. ASSUME NEW d \in erased' PROVE row'[d].state # "none"
  BY <1>1, <1>2, <1>4 DEF HandInv, TypeOK
<1>. QED
  BY <1>3, <1>4 DEF HandInv

LEMMA NextHand == Inv /\ Inv' /\ CountInv /\ HandInv /\ [Next]_vars => HandInv'
<1> SUFFICES ASSUME Inv, Inv', CountInv, HandInv, [Next]_vars PROVE HandInv'
  OBVIOUS
<1>1. ASSUME NEW w \in Workers, URLFails(w) \/ Post(w) \/ AnswerLost(w) PROVE HandInv'
  <2>1. \E accepted, answered \in BOOLEAN : Try(w, accepted, answered)
    BY <1>1 DEF URLFails, Post, AnswerLost
  <2>. QED
    BY <2>1, WalkHand
<1>2. ASSUME NEW w \in Workers, WorkerStep(w) PROVE HandInv'
  BY <1>1, <1>2, PollHand, WalkHand, MarkHand, CommitHand DEF WorkerStep
<1>3. CASE Quiet \/ UNCHANGED vars
  <2>1. UNCHANGED <<row, erased, todo, cur, draft, tried, received>>
    BY <1>3 DEF Quiet, vars, tables, workers, history
  <2>. QED
    BY <2>1 DEF HandInv, HandOK, Claims
<1>. QED
  BY <1>1, <1>2, <1>3, WalkHand, ReleaseHand, EnqueueHand, DeleteHand, TickHand DEF Next

\* The webhooks that are gone.
Deleted == {h \in Hooks : hookState[h] = "deleted"}

LEMMA InitOutbox == Init => Outbox!Init
BY DEF Init, Outbox!Init

\* What a batch commits is recorded in one step.
LEMMA CommitRecords ==
  ASSUME Inv, HandInv, NEW w \in Workers, Commit(w)
  PROVE  Outbox!Record
<1>1. /\ row' = [d \in Deliveries |-> IF Claims(w, d) THEN draft[w][d] ELSE row[d]]
      /\ UNCHANGED <<hookState, tried, received>>
  BY DEF Commit, history
<1>2. ASSUME NEW d \in Deliveries
      PROVE  row'[d] = row[d] \/ Outbox!Recorded(d, row[d], row'[d])
  <2>1. CASE Claims(w, d) /\ draft[w][d] # row[d]
    <3>1. row[d] \in Rows /\ Entry(row[d], draft[w][d], tried[d], received[d])
      BY <2>1 DEF Inv, TypeOK, HandInv, HandOK
    <3>2. Outbox!Recorded(d, row[d], draft[w][d])
      BY <3>1, EntryRecorded
    <3>. QED
      BY <1>1, <2>1, <3>2
  <2>2. CASE ~(Claims(w, d) /\ draft[w][d] # row[d])
    BY <1>1, <2>2
  <2>. QED
    BY <2>1, <2>2
<1>3. row' = [d \in Deliveries |-> row'[d]]
  BY <1>1
<1>. QED
  BY <1>1, <1>2, <1>3 DEF Outbox!Record

\* A call of deliver is an attempt on a delivery that was enqueued.
LEMMA TryAttempts ==
  ASSUME Inv, HandInv, NEW w \in Workers, pc[w] \in {"url", "post"},
         NEW accepted \in BOOLEAN, NEW answered \in BOOLEAN, Try(w, accepted, answered)
  PROVE  \E d \in Deliveries : Outbox!Attempt(d)
<1>1. cur[w] \in Deliveries
  BY DEF Inv, TypeOK, WorkerOK
<1>2. row[cur[w]].state # "none"
  BY <1>1 DEF HandInv, HandOK
<1>3. /\ UNCHANGED <<row, hookState>>
      /\ tried' = [tried EXCEPT ![cur[w]] = @ + 1]
      /\ received' = received \/ received' = [received EXCEPT ![cur[w]] = @ + 1]
  BY DEF Try, tables
<1>4. Outbox!Attempt(cur[w])
  BY <1>2, <1>3 DEF Outbox!Attempt
<1>. QED
  BY <1>1, <1>4

\* The end of a DELETE takes every row of its webhook, for its cascade has them all.
LEMMA FinishDeletes ==
  ASSUME Inv, HandInv, NEW h \in Hooks, FinishDelete(h)
  PROVE  Outbox!Delete(h)
<1>1. /\ hookState[h] = "deleting" /\ hookState' = [hookState EXCEPT ![h] = "deleted"]
      /\ \A d \in OfHook(h) : row[d].state # "none" => d \in erased
      /\ row' = [d \in Deliveries |->
                   IF d \in OfHook(h) \cap erased
                     THEN [row[d] EXCEPT !.state = "gone"] ELSE row[d]]
      /\ UNCHANGED <<tried, received>> /\ TypeOK
  BY DEF FinishDelete, history, Inv
<1>2. ASSUME NEW d \in Deliveries
      PROVE  d \in OfHook(h) \cap erased <=> HookOf[d] = h /\ row[d].state # "none"
  BY <1>1 DEF OfHook, HandInv
<1>3. row' = [d \in Deliveries |-> IF HookOf[d] = h /\ row[d].state # "none"
                                     THEN [row[d] EXCEPT !.state = "gone"] ELSE row[d]]
  BY <1>1, <1>2
<1>4. h \notin Deleted /\ Deleted' = Deleted \cup {h}
  BY <1>1 DEF Deleted, TypeOK
<1>. QED
  BY <1>1, <1>3, <1>4 DEF Outbox!Delete, Deleted

LEMMA StepOutbox == Inv /\ HandInv /\ [Next]_vars => [Outbox!Next]_(Outbox!vars)
<1> SUFFICES ASSUME Inv, HandInv, [Next]_vars PROVE [Outbox!Next]_(Outbox!vars)
  OBVIOUS
<1>1. ASSUME UNCHANGED <<row, hookState, tried, received>> PROVE UNCHANGED Outbox!vars
  BY <1>1 DEF Outbox!vars
<1>2. ASSUME NEW w \in Workers, WorkerStep(w) \/ AnswerLost(w)
      PROVE  [Outbox!Next]_(Outbox!vars)
  <2>1. CASE URLFails(w) \/ Post(w) \/ AnswerLost(w)
    <3>1. PICK accepted, answered \in BOOLEAN : Try(w, accepted, answered)
      BY <2>1 DEF URLFails, Post, AnswerLost
    <3>2. pc[w] \in {"url", "post"}
      BY <2>1 DEF URLFails, Post, AnswerLost
    <3>. QED
      BY <3>1, <3>2, TryAttempts DEF Outbox!Next
  <2>2. CASE Commit(w)
    BY <2>2, CommitRecords DEF Outbox!Next
  <2>3. CASE Poll(w) \/ ReadSecret(w) \/ ReadURL(w) \/ Mark(w)
    BY <1>1, <2>3 DEF Poll, Take, ReadSecret, ReadURL, Mark, tables, history
  <2>. QED
    BY <1>2, <2>1, <2>2, <2>3 DEF WorkerStep
<1>3. ASSUME NEW w \in Workers, SecretFails(w) \/ LoseTransaction(w) \/ Crash(w)
      PROVE  UNCHANGED Outbox!vars
  BY <1>1, <1>3 DEF SecretFails, LoseTransaction, Crash, tables
<1>4. ASSUME NEW d \in Deliveries, Enqueue(d) PROVE Outbox!Next
  <2>1. HookOf[d] \notin Deleted
    BY <1>4 DEF Enqueue, Deleted
  <2>2. Outbox!Enqueue(d)
    BY <1>4, <2>1 DEF Enqueue, Outbox!Enqueue, Deleted, history
  <2>. QED
    BY <2>2 DEF Outbox!Next
<1>5. ASSUME NEW h \in Hooks, BeginDelete(h) \/ CancelDelete(h)
      PROVE  UNCHANGED Outbox!vars
  <2>1. /\ hookState[h] \in {"active", "deleting"}
        /\ \/ hookState' = [hookState EXCEPT ![h] = "deleting"]
           \/ hookState' = [hookState EXCEPT ![h] = "active"]
        /\ UNCHANGED <<row, tried, received>> /\ TypeOK
    BY <1>5 DEF BeginDelete, CancelDelete, history, Inv
  <2>2. Deleted' = Deleted
    BY <2>1 DEF Deleted, TypeOK
  <2>. QED
    BY <2>1, <2>2 DEF Outbox!vars, Deleted
<1>6. CASE Deleting
  <2>1. ASSUME NEW d \in Deliveries, Cascade(d) PROVE UNCHANGED Outbox!vars
    BY <1>1, <2>1 DEF Cascade, history
  <2>. QED
    BY <1>6, <2>1, FinishDeletes DEF Deleting, Outbox!Next
<1>7. CASE Tick
  <2>1. Outbox!Tick
    BY <1>7 DEF Tick, CountDown, Outbox!Tick, history
  <2>. QED
    BY <2>1 DEF Outbox!Next
<1>8. CASE Quiet \/ UNCHANGED vars
  BY <1>1, <1>8 DEF Quiet, vars, tables, history
<1>. QED
  BY <1>2, <1>3, <1>4, <1>5, <1>6, <1>7, <1>8 DEF Next

\* Every behaviour of the workers is one of the atomic outbox: with any number of them,
\* and whatever crashes, aborted transactions and deletions come between, attempts are
\* recorded one by one, each of them made, on the row as it is and when it is due.
THEOREM OutboxRefinement == Spec => ImplementsOutbox
BY InitOutbox, StepOutbox, Invariance, Counting, HandInit, NextHand, PTL
   DEF Spec, ImplementsOutbox, Outbox!Spec
=============================================================================
