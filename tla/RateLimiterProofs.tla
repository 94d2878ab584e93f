-------------------------- MODULE RateLimiterProofs --------------------------
(***************************************************************************)
(* Proofs about the token buckets.  What the argument rests on is that a   *)
(* bucket's tokens less its last refill, the tokens it holds "by the       *)
(* clock", change only by what is spent and by the cap, whatever the       *)
(* order of the stamps.                                                    *)
(***************************************************************************)
EXTENDS RateLimiter, TLAPS

\* What is true of a bucket at time n.
BucketOK(b, n) ==
  /\ b.tokens <= Full
  /\ b.spent + b.tokens <= Full + b.lastRefill - b.born
  /\ b.tokens + (n - b.lastRefill) >= 0
  /\ b.spent + b.tokens + (n - b.lastRefill) >= Full
  /\ b.tokens + MaxLag >= 0

LagOK == \A r \in Requests : req[r].pc # "idle" => now - req[r].now <= MaxLag

SweepOK ==
  /\ sweep.todo # {} \/ sweep.idle # NoKey => sweep.cutoff <= now - Idle
  /\ sweep.idle \notin sweep.todo

Inv ==
  /\ TypeOK
  /\ \A i \in 1..Len(heap) : BucketOK(heap[i], now)
  /\ LagOK
  /\ SweepOK

USE CostAssumption, TimesAssumption, IdleAssumption, NoKeyAssumption

\* A refill to any time up to the present leaves a bucket right, and so does
\* the token then spent if there is one.
LEMMA RefilledOK ==
  ASSUME NEW b \in Bucket, NEW n \in Nat, NEW t \in 0..n,
         n - t <= MaxLag, BucketOK(b, n)
  PROVE  /\ Refilled(b, t) \in Bucket /\ BucketOK(Refilled(b, t), n)
         /\ Refilled(b, t).spent = b.spent
         /\ Refilled(b, t).tokens + (n - t) >= Full - b.spent
         /\ Refilled(b, t).tokens < Cost
              => Refilled(b, t).tokens - Refilled(b, t).lastRefill = b.tokens - b.lastRefill
<1> DEFINE earned == b.tokens + (t - b.lastRefill)
           left   == IF earned > Full THEN Full ELSE earned
<1>1. Refilled(b, t) = [key |-> b.key, tokens |-> left, lastRefill |-> t, spent |-> b.spent, born |-> b.born]
  BY DEF Refilled, Bucket
<1>2. /\ b.key \in Keys /\ b.tokens \in Int /\ b.lastRefill \in Nat /\ b.spent \in Nat /\ b.born \in Nat
      /\ earned \in Int /\ left \in Int /\ t \in Nat
  BY DEF Bucket
<1>3. left <= Full /\ left <= earned /\ (left = Full \/ left = earned)
  BY <1>2
<1>. QED
  BY <1>1, <1>2, <1>3 DEF BucketOK, Bucket

LEMMA OlderOK ==
  ASSUME NEW b \in Bucket, NEW n \in Nat, BucketOK(b, n)
  PROVE  BucketOK(b, n + 1)
<1>1. b.tokens \in Int /\ b.lastRefill \in Nat /\ b.spent \in Nat /\ b.born \in Nat
  BY DEF Bucket
<1>. QED
  BY <1>1 DEF BucketOK

LEMMA SpentOK ==
  ASSUME NEW b \in Bucket, NEW n \in Nat, b.lastRefill <= n, b.tokens >= Cost, BucketOK(b, n)
  PROVE  Spent(b) \in Bucket /\ BucketOK(Spent(b), n)
<1>1. Spent(b) = [key |-> b.key, tokens |-> b.tokens - Cost, lastRefill |-> b.lastRefill,
                  spent |-> b.spent + Cost, born |-> b.born]
  BY DEF Spent, Bucket
<1>2. b.key \in Keys /\ b.tokens \in Int /\ b.lastRefill \in Nat /\ b.spent \in Nat /\ b.born \in Nat
  BY DEF Bucket
<1>. QED
  BY <1>1, <1>2 DEF BucketOK, Bucket

\* What a request that decides finds: its bucket, and a stamp of the past.
LEMMA CallFacts ==
  ASSUME Inv, NEW r \in Requests, req[r].pc = "loaded"
  PROVE  /\ req[r].b \in 1..Len(heap) /\ heap[req[r].b] \in Bucket
         /\ BucketOK(heap[req[r].b], now)
         /\ now \in Nat /\ req[r].now \in 0..now /\ now - req[r].now <= MaxLag
BY DEF Inv, TypeOK, LagOK

\* What the decision leaves of it.
LEMMA DecideOK ==
  ASSUME Inv, NEW r \in Requests, Decide(r)
  PROVE  LET i == req[r].b IN
         /\ heap' \in Seq(Bucket) /\ Len(heap') = Len(heap)
         /\ \A j \in 1..Len(heap) : j # i => heap'[j] = heap[j]
         /\ heap'[i] \in Bucket /\ BucketOK(heap'[i], now)
         /\ heap'[i].spent = heap[i].spent
              => /\ heap[i].spent > Full - Cost - (now - req[r].now)
                 /\ heap'[i].tokens - heap'[i].lastRefill = heap[i].tokens - heap[i].lastRefill
<1> DEFINE i == req[r].b
           c == Refilled(heap[i], req[r].now)
           new == IF c.tokens >= Cost THEN Spent(c) ELSE c
<1>1. /\ i \in 1..Len(heap) /\ heap[i] \in Bucket /\ BucketOK(heap[i], now)
      /\ now \in Nat /\ req[r].now \in 0..now /\ now - req[r].now <= MaxLag
  BY CallFacts DEF Decide
<1>2. /\ c \in Bucket /\ BucketOK(c, now) /\ c.spent = heap[i].spent
      /\ c.tokens + (now - req[r].now) >= Full - heap[i].spent
      /\ c.tokens < Cost => c.tokens - c.lastRefill = heap[i].tokens - heap[i].lastRefill
  BY <1>1, RefilledOK
<1>3. c.lastRefill = req[r].now
  BY <1>1 DEF Refilled, Bucket
<1>4. /\ new \in Bucket /\ BucketOK(new, now)
  BY <1>1, <1>2, <1>3, SpentOK
<1>9. /\ c.tokens \in Int /\ c.spent \in Nat /\ heap[i].spent \in Nat /\ req[r].now \in Nat
      /\ Spent(c).spent = c.spent + Cost
  BY <1>1, <1>2 DEF Spent, Bucket
<1>5. new.spent = heap[i].spent => c.tokens < Cost /\ new = c
  <2>1. CASE c.tokens >= Cost
    BY <2>1, <1>2, <1>9
  <2>2. CASE ~(c.tokens >= Cost)
    BY <2>2, <1>9
  <2>. QED
    BY <2>1, <2>2
<1>6. heap \in Seq(Bucket) /\ heap' = [heap EXCEPT ![i] = new]
  BY DEF Decide, Inv, TypeOK
<1>7. /\ heap' \in Seq(Bucket) /\ Len(heap') = Len(heap) /\ heap'[i] = new
      /\ \A j \in 1..Len(heap) : j # i => heap'[j] = heap[j]
  BY <1>1, <1>4, <1>6
<1>8. new.spent = heap[i].spent => heap[i].spent > Full - Cost - (now - req[r].now)
  <2>. SUFFICES ASSUME c.tokens < Cost PROVE heap[i].spent > Full - Cost - (now - req[r].now)
    BY <1>5
  <2>1. /\ c.tokens + (now - req[r].now) >= Full - heap[i].spent
        /\ c.tokens \in Int /\ heap[i].spent \in Nat /\ now \in Nat /\ req[r].now \in Nat
    BY <1>1, <1>2, <1>9
  <2>. HIDE DEF c, i
  <2>. QED
    BY <2>1
<1>. QED
  BY <1>2, <1>4, <1>5, <1>7, <1>8

LEMMA InitInv == Init => Inv
BY DEF Init, Inv, TypeOK, LagOK, SweepOK, NoCall

LEMMA CallInv ==
  ASSUME Inv, NEW r \in Requests, NEW k \in Keys, Call(r, k)
  PROVE  Inv'
BY DEF Inv, TypeOK, LagOK, SweepOK, Call

LEMMA LoadInv ==
  ASSUME Inv, NEW r \in Requests, Load(r)
  PROVE  Inv'
<1> DEFINE k == req[r].key
           fresh == [key |-> k, tokens |-> Full, lastRefill |-> req[r].now, spent |-> 0, born |-> req[r].now]
<1>1. k \in Keys /\ now \in Nat /\ req[r].now \in 0..now
  BY DEF Inv, TypeOK, Load
<1>2. CASE buckets[k] # 0
  <2>1. /\ UNCHANGED <<now, heap, buckets, sweep>>
        /\ req' = [req EXCEPT ![r] = [pc |-> "loaded", key |-> k, now |-> req[r].now,
                                     b |-> buckets[k]]]
    BY <1>2 DEF Load
  <2>2. buckets[k] \in 1..Len(heap)
    BY <1>1, <1>2 DEF Inv, TypeOK
  <2>3. TypeOK'
    BY <1>1, <2>1, <2>2 DEF Inv, TypeOK
  <2>4. LagOK' /\ SweepOK'
    BY <2>1 DEF Inv, TypeOK, LagOK, SweepOK, Load
  <2>. QED
    BY <2>1, <2>3, <2>4 DEF Inv
<1>3. CASE buckets[k] = 0
  <2>1. fresh \in Bucket /\ BucketOK(fresh, now)
    BY <1>1 DEF BucketOK, Bucket
  <2>2. heap \in Seq(Bucket) /\ heap' = Append(heap, fresh)
    BY <1>3 DEF Inv, TypeOK, Load
  <2>3. /\ heap' \in Seq(Bucket) /\ Len(heap') = Len(heap) + 1 /\ Len(heap) \in Nat
        /\ heap'[Len(heap')] = fresh /\ \A j \in 1..Len(heap) : heap'[j] = heap[j]
    BY <2>1, <2>2
  <2>4. \A j \in 1..Len(heap') : BucketOK(heap'[j], now)
    <3>. SUFFICES ASSUME NEW j \in 1..Len(heap') PROVE BucketOK(heap'[j], now)
      OBVIOUS
    <3>1. CASE j \in 1..Len(heap)
      BY <3>1, <2>3 DEF Inv
    <3>2. CASE j = Len(heap')
      BY <3>2, <2>1, <2>3
    <3>. QED
      BY <3>1, <3>2, <2>3
  <2>5. now' = now /\ sweep' = sweep
    BY DEF Load
  <2>6. /\ buckets' = [buckets EXCEPT ![k] = Len(heap')]
        /\ req' = [req EXCEPT ![r] = [pc |-> "loaded", key |-> k, now |-> req[r].now, b |-> Len(heap')]]
    BY <1>3 DEF Load
  <2>7. TypeOK'
    BY <1>1, <2>3, <2>4, <2>5, <2>6 DEF Inv, TypeOK, BucketOK
  <2>8. LagOK' /\ SweepOK'
    BY <2>5, <2>6 DEF Inv, TypeOK, LagOK, SweepOK, Load
  <2>. QED
    BY <2>4, <2>5, <2>7, <2>8 DEF Inv
<1>. QED
  BY <1>2, <1>3

LEMMA DecideInv ==
  ASSUME Inv, NEW r \in Requests, Decide(r)
  PROVE  Inv'
<1> DEFINE i == req[r].b
<1>1. /\ heap' \in Seq(Bucket) /\ Len(heap') = Len(heap)
      /\ \A j \in 1..Len(heap) : j # i => heap'[j] = heap[j]
      /\ BucketOK(heap'[i], now)
  BY DecideOK
<1>2. \A j \in 1..Len(heap') : BucketOK(heap'[j], now)
  BY <1>1 DEF Inv
<1>3. now' = now /\ buckets' = buckets /\ sweep' = sweep /\ req' = [req EXCEPT ![r] = NoCall]
  BY DEF Decide
<1>4. TypeOK'
  BY <1>1, <1>2, <1>3 DEF Inv, TypeOK, BucketOK, NoCall
<1>5. LagOK' /\ SweepOK'
  BY <1>3 DEF Inv, TypeOK, LagOK, SweepOK, NoCall
<1>. QED
  BY <1>2, <1>3, <1>4, <1>5 DEF Inv

LEMMA SweepInv ==
  ASSUME Inv, StartSweep \/ (\E k \in Keys : Look(k)) \/ Evict
  PROVE  Inv'
<1>1. CASE StartSweep
  BY <1>1 DEF Inv, TypeOK, LagOK, SweepOK, StartSweep
<1>2. ASSUME NEW k \in Keys, Look(k) PROVE Inv'
  BY <1>2 DEF Inv, TypeOK, LagOK, SweepOK, Look
<1>3. CASE Evict
  <2>1. /\ UNCHANGED <<now, heap, req>> /\ sweep.idle \in Keys
        /\ buckets' = [buckets EXCEPT ![sweep.idle] = 0]
        /\ sweep' = [cutoff |-> sweep.cutoff, todo |-> sweep.todo, idle |-> NoKey, due |-> sweep.due]
    BY <1>3 DEF Inv, TypeOK, Evict
  <2>2. \A k \in Keys : k \in sweep.todo \/ k = NoKey => buckets'[k] # 0
    BY <2>1 DEF Inv, TypeOK, SweepOK
  <2>3. TypeOK'
    BY <2>1, <2>2 DEF Inv, TypeOK
  <2>4. LagOK' /\ SweepOK'
    BY <2>1 DEF Inv, TypeOK, LagOK, SweepOK
  <2>. QED
    BY <2>1, <2>3, <2>4 DEF Inv
<1>. QED
  BY <1>1, <1>2, <1>3

LEMMA TickInv ==
  ASSUME Inv, Tick
  PROVE  Inv'
<1>1. now \in Nat /\ now' = now + 1 /\ UNCHANGED <<heap, buckets, req, sweep>>
  BY DEF Inv, TypeOK, Tick
<1>2. \A j \in 1..Len(heap) : heap[j] \in Bucket /\ BucketOK(heap[j], now)
  BY DEF Inv, TypeOK
<1>3. \A j \in 1..Len(heap) : BucketOK(heap[j], now + 1)
  <2>. SUFFICES ASSUME NEW j \in 1..Len(heap) PROVE BucketOK(heap[j], now + 1)
    OBVIOUS
  <2>. QED
    BY <1>1, <1>2, OlderOK
<1>4. TypeOK'
  BY <1>1 DEF Inv, TypeOK
<1>5. LagOK'
  BY <1>1 DEF Inv, TypeOK, LagOK, Tick
<1>6. SweepOK'
  BY <1>1 DEF Inv, TypeOK, SweepOK
<1>. QED
  BY <1>1, <1>3, <1>4, <1>5, <1>6 DEF Inv

\* The inductive invariant: no bucket is over its rate, in debt, or further
\* behind than a request may lag, and a sweep's cutoff is Idle ticks ago.
THEOREM Invariance == Spec => []Inv
<1>1. Inv /\ [Next]_vars => Inv'
  <2>. SUFFICES ASSUME Inv, [Next]_vars PROVE Inv'
    OBVIOUS
  <2>1. ASSUME NEW r \in Requests, NEW k \in Keys, Call(r, k) PROVE Inv'
    BY <2>1, CallInv
  <2>2. ASSUME NEW r \in Requests, Load(r) PROVE Inv'
    BY <2>2, LoadInv
  <2>3. ASSUME NEW r \in Requests, Decide(r) PROVE Inv'
    BY <2>3, DecideInv
  <2>4. CASE StartSweep \/ (\E k \in Keys : Look(k)) \/ Evict
    BY <2>4, SweepInv
  <2>5. CASE Tick
    BY <2>5, TickInv
  <2>6. CASE UNCHANGED vars
    BY <2>6 DEF vars, Inv, TypeOK, LagOK, SweepOK
  <2>. QED
    BY <2>1, <2>2, <2>3, <2>4, <2>5, <2>6 DEF Next
<1>. QED
  BY InitInv, <1>1, PTL DEF Spec

\* Type correctness (the buckets, the map, the calls in flight).
THEOREM TypeCorrect == Spec => []TypeOK
<1>1. Inv => TypeOK
  BY DEF Inv
<1>. QED
  BY Invariance, <1>1, PTL

\* No bucket lets more through than a burst and what was earned since, for
\* any number of requests and any order of their stamps.
THEOREM RateKept == Spec => []NeverOverRate
<1>1. Inv => NeverOverRate
  BY DEF Inv, BucketOK, NeverOverRate
<1>. QED
  BY Invariance, <1>1, PTL

\* No bucket is in debt by the wall clock, or has lost what was not spent.
THEOREM NoDebt == Spec => []NeverInDebt
<1>1. Inv => NeverInDebt
  BY DEF Inv, BucketOK, NeverInDebt
<1>. QED
  BY Invariance, <1>1, PTL

\* A refusal means that the burst was spent.
THEOREM Refusals == Spec => RefusedWhenSpent
<1>1. Inv /\ [Next]_vars =>
        [\A r \in Requests :
           LET i == req[r].b IN
           Decide(r) /\ heap'[i].spent = heap[i].spent
             => heap[i].spent > Full - Cost - (now - req[r].now)]_vars
  BY DecideOK
<1>. QED
  BY Invariance, <1>1, PTL DEF Spec, RefusedWhenSpent

\* A refusal takes nothing from the requests that come after it.
THEOREM RefusalsFree == Spec => RefusalsAreFree
<1>1. Inv /\ [Next]_vars =>
        [\A r \in Requests :
           LET i == req[r].b IN
           Decide(r) /\ heap'[i].spent = heap[i].spent
             => heap'[i].tokens - heap'[i].lastRefill = heap[i].tokens - heap[i].lastRefill]_vars
  BY DecideOK
<1>. QED
  BY Invariance, <1>1, PTL DEF Spec, RefusalsAreFree


\* A bucket that will not be used again by the calls to come: its key has been
\* given up, or the sweep has found it idle and is about to delete it.
Going(i) == buckets[heap[i].key] # i \/ sweep.idle = heap[i].key

\* All it has let through was earned MaxLag before its last refill ...
Slack(b) == b.spent + b.tokens + b.born + MaxLag <= b.lastRefill
\* ... or its last refill lies so far back that the next one will find it so.
Old(b) ==
  /\ b.lastRefill + Idle <= now
  /\ \A r \in Requests : req[r].pc # "idle" => b.lastRefill + Idle <= req[r].now + MaxLag

SameKey(i, j) == i < j /\ heap[i].key = heap[j].key

\* Every bucket but the last of its key is evicted, has earned what it spent, and
\* is held only by calls that read the clock before the next one was stored.
EarnedInv ==
  /\ \A k \in Keys : buckets[k] # 0 => heap[buckets[k]].key = k
  /\ \A i, j \in 1..Len(heap) : SameKey(i, j) => buckets[heap[i].key] # i
  /\ \A i \in 1..Len(heap) : Going(i) => Slack(heap[i]) \/ Old(heap[i])
  /\ \A i, j \in 1..Len(heap) : SameKey(i, j) =>
       /\ heap[i].spent <= heap[j].born - heap[i].born
       /\ \A r \in Requests : req[r].pc = "loaded" /\ req[r].b = i
                                => req[r].now <= heap[j].born + MaxLag

\* A decision leaves a bucket that is going with the slack it had or, when it was
\* idle, with what its idle time was worth beyond the burst it then gives again.
LEMMA DecidedSlack ==
  ASSUME NEW b \in Bucket, NEW n \in Nat, NEW t \in 0..n, n - t <= MaxLag, BucketOK(b, n),
         Slack(b) \/ b.lastRefill + Idle <= t + MaxLag
  PROVE  /\ Slack(Refilled(b, t)) /\ Slack(Spent(Refilled(b, t)))
         /\ Refilled(b, t).key = b.key /\ Spent(Refilled(b, t)).key = b.key
         /\ Refilled(b, t).born = b.born /\ Spent(Refilled(b, t)).born = b.born
         /\ Refilled(b, t).tokens >= Cost => Spent(Refilled(b, t)).spent <= t - MaxLag - b.born
<1> DEFINE earned == b.tokens + (t - b.lastRefill)
           left   == IF earned > Full THEN Full ELSE earned
<1>1. /\ Refilled(b, t) = [key |-> b.key, tokens |-> left, lastRefill |-> t,
                           spent |-> b.spent, born |-> b.born]
      /\ Spent(Refilled(b, t)) = [key |-> b.key, tokens |-> left - Cost, lastRefill |-> t,
                                  spent |-> b.spent + Cost, born |-> b.born]
  BY DEF Refilled, Spent, Bucket
<1>2. /\ b.tokens \in Int /\ b.lastRefill \in Nat /\ b.spent \in Nat /\ b.born \in Nat
      /\ earned \in Int /\ left \in Int /\ t \in Nat /\ left <= Full /\ left <= earned
  BY DEF Bucket
<1>3. b.spent + left + b.born + MaxLag <= t
  <2>1. CASE Slack(b)
    BY <2>1, <1>2 DEF Slack
  <2>2. CASE b.lastRefill + Idle <= t + MaxLag
    <3>1. b.spent <= Full + b.lastRefill - b.born + MaxLag
      BY <1>2 DEF BucketOK
    <3>. QED
      BY <2>2, <3>1, <1>2
  <2>. QED
    BY <2>1, <2>2
<1>. QED
  BY <1>1, <1>2, <1>3 DEF Slack

\* What a bucket that is going has spent by the time the next one is stored.
LEMMA EarnedByNow ==
  ASSUME NEW b \in Bucket, NEW n \in Nat, NEW t \in 0..n, n - t <= MaxLag, BucketOK(b, n),
         Slack(b) \/ b.lastRefill + Idle <= t + MaxLag
  PROVE  b.spent <= t - b.born
<1>1. b.tokens \in Int /\ b.lastRefill \in Nat /\ b.spent \in Nat /\ b.born \in Nat /\ t \in Nat
  BY DEF Bucket
<1>2. CASE Slack(b)
  BY <1>1, <1>2 DEF Slack, BucketOK
<1>3. CASE b.lastRefill + Idle <= t + MaxLag
  BY <1>1, <1>3 DEF BucketOK
<1>. QED
  BY <1>2, <1>3

LEMMA CallEarned ==
  ASSUME Inv, EarnedInv, NEW r \in Requests, NEW k \in Keys, Call(r, k)
  PROVE  EarnedInv'
<1>1. /\ UNCHANGED <<now, heap, buckets, sweep>>
      /\ req' = [req EXCEPT ![r] = [pc |-> "stamped", key |-> k, now |-> now, b |-> 0]]
      /\ now \in Nat
  BY DEF Call, Inv, TypeOK
<1>2. \A q \in Requests : /\ q # r => req'[q] = req[q]
                          /\ req'[r].pc = "stamped" /\ req'[r].now = now
  BY <1>1 DEF Inv, TypeOK
<1>3. \A i \in 1..Len(heap) : heap[i] \in Bucket /\ (Old(heap[i]) => Old(heap[i])')
  <2>. SUFFICES ASSUME NEW i \in 1..Len(heap) PROVE heap[i] \in Bucket /\ (Old(heap[i]) => Old(heap[i])')
    OBVIOUS
  <2>1. heap[i] \in Bucket
    BY DEF Inv, TypeOK
  <2>2. heap[i].lastRefill \in Nat
    BY <2>1 DEF Bucket
  <2>. QED
    BY <1>1, <1>2, <2>1, <2>2 DEF Old
<1>. QED
  BY <1>1, <1>2, <1>3 DEF EarnedInv, SameKey, Going, Slack

LEMMA LoadEarned ==
  ASSUME Inv, EarnedInv, NEW r \in Requests, Load(r)
  PROVE  EarnedInv'
<1> DEFINE k == req[r].key
           fresh == [key |-> k, tokens |-> Full, lastRefill |-> req[r].now, spent |-> 0,
                     born |-> req[r].now]
<1>1. /\ k \in Keys /\ k # NoKey /\ now \in Nat /\ req[r].now \in 0..now
      /\ req[r].pc = "stamped" /\ now - req[r].now <= MaxLag
      /\ now' = now /\ sweep' = sweep
  BY DEF Inv, TypeOK, LagOK, Load
<1>2. CASE buckets[k] # 0
  <2>1. /\ UNCHANGED <<now, heap, buckets, sweep>>
        /\ req' = [req EXCEPT ![r] = [pc |-> "loaded", key |-> k, now |-> req[r].now,
                                     b |-> buckets[k]]]
    BY <1>2 DEF Load
  <2>2. buckets[k] \in 1..Len(heap) /\ heap[buckets[k]].key = k
    BY <1>1, <1>2 DEF Inv, TypeOK, EarnedInv
  <2>5. \A j \in 1..Len(heap) : ~SameKey(buckets[k], j)
    BY <2>2 DEF EarnedInv
  <2>3. \A q \in Requests : /\ q # r => req'[q] = req[q]
                            /\ req'[r].now = req[r].now /\ req'[r].b = buckets[k]
    BY <2>1 DEF Inv, TypeOK
  <2>4. \A i \in 1..Len(heap) : Old(heap[i]) => Old(heap[i])'
    BY <1>1, <2>1, <2>3 DEF Old
  <2>. QED
    <3>1. \A i, j \in 1..Len(heap) : SameKey(i, j) =>
            \A q \in Requests : req'[q].pc = "loaded" /\ req'[q].b = i
                                  => req'[q].now <= heap[j].born + MaxLag
      <4>. SUFFICES ASSUME NEW i \in 1..Len(heap), NEW j \in 1..Len(heap), SameKey(i, j),
                           NEW q \in Requests, req'[q].pc = "loaded", req'[q].b = i
                    PROVE  req'[q].now <= heap[j].born + MaxLag
        OBVIOUS
      <4>1. q # r
        BY <2>3, <2>5
      <4>2. req'[q] = req[q]
        BY <4>1, <2>3
      <4>. QED
        BY <4>2 DEF EarnedInv
    <3>. QED
      BY <2>1, <2>4, <3>1 DEF EarnedInv, SameKey, Going, Slack
<1>3. CASE buckets[k] = 0
  <2> PICK n \in Nat : n = Len(heap) + 1
    BY DEF Inv, TypeOK
  <2>1. heap \in Seq(Bucket) /\ heap' = Append(heap, fresh) /\ fresh \in Bucket
    BY <1>1, <1>3 DEF Inv, TypeOK, Load, Bucket
  <2>2. /\ Len(heap') = n /\ Len(heap) \in Nat /\ heap'[n] = fresh
        /\ \A j \in 1..Len(heap) : heap'[j] = heap[j] /\ heap[j] \in Bucket /\ j < n
        /\ 1..Len(heap') = (1..Len(heap)) \cup {n}
    BY <2>1
  <2>3. /\ buckets' = [buckets EXCEPT ![k] = n]
        /\ req' = [req EXCEPT ![r] = [pc |-> "loaded", key |-> k, now |-> req[r].now, b |-> n]]
    BY <1>3, <2>2 DEF Load
  <2>4. /\ \A x \in Keys : buckets'[x] = IF x = k THEN n ELSE buckets[x]
        /\ \A q \in Requests : q # r => req'[q] = req[q]
        /\ req'[r].pc = "loaded" /\ req'[r].now = req[r].now /\ req'[r].b = n
    BY <1>1, <2>3 DEF Inv, TypeOK
  <2>5. sweep.idle # k
    BY <1>1, <1>3 DEF Inv, TypeOK
  <2>6. \A i \in 1..Len(heap) : (heap[i].key = k => Going(i)) /\ (Going(i)' => Going(i))
    <3>. SUFFICES ASSUME NEW i \in 1..Len(heap)
                  PROVE  (heap[i].key = k => Going(i)) /\ (Going(i)' => Going(i))
      OBVIOUS
    <3>1. heap[i].key \in Keys /\ heap'[i] = heap[i] /\ i # 0
      BY <2>2 DEF Bucket
    <3>. QED
      BY <1>1, <1>3, <2>4, <3>1 DEF Going
  <2>7. ~Going(n)'
    BY <1>1, <2>2, <2>4, <2>5 DEF Going
  <2>8. \A i \in 1..Len(heap) : Old(heap[i]) => Old(heap[i])'
    BY <1>1, <2>2, <2>4 DEF Old
  <2>9. \A i \in 1..Len(heap) : heap[i].key = k => heap[i].spent <= req[r].now - heap[i].born
    <3>. SUFFICES ASSUME NEW i \in 1..Len(heap), heap[i].key = k
                  PROVE  heap[i].spent <= req[r].now - heap[i].born
      OBVIOUS
    <3>1. Slack(heap[i]) \/ Old(heap[i])
      BY <2>6 DEF EarnedInv
    <3>2. heap[i] \in Bucket /\ BucketOK(heap[i], now)
      BY <2>2 DEF Inv
    <3>3. Slack(heap[i]) \/ heap[i].lastRefill + Idle <= req[r].now + MaxLag
      BY <1>1, <3>1 DEF Old
    <3>. QED
      BY <1>1, <3>2, <3>3, EarnedByNow
  <2>10. \A q \in Requests : req[q].now <= req[r].now + MaxLag /\ req[q].b \in 0..Len(heap)
    <3>. SUFFICES ASSUME NEW q \in Requests
                  PROVE  req[q].now <= req[r].now + MaxLag /\ req[q].b \in 0..Len(heap)
      OBVIOUS
    <3>1. req[q].now \in 0..now /\ req[q].b \in 0..Len(heap)
      BY DEF Inv, TypeOK
    <3>. QED
      BY <1>1, <3>1
  <2>11. (\A x \in Keys : buckets[x] # 0 => heap[buckets[x]].key = x)'
    <3>. SUFFICES ASSUME NEW x \in Keys, buckets'[x] # 0 PROVE heap'[buckets'[x]].key = x
      OBVIOUS
    <3>1. CASE x = k
      BY <3>1, <2>2, <2>4
    <3>2. CASE x # k
      <4>1. buckets'[x] = buckets[x] /\ buckets[x] \in 1..Len(heap)
        BY <3>2, <2>4 DEF Inv, TypeOK
      <4>. QED
        BY <4>1, <2>2 DEF EarnedInv
    <3>. QED
      BY <3>1, <3>2
  <2>12. ASSUME NEW i \in 1..Len(heap'), NEW j \in 1..Len(heap'), SameKey(i, j)'
         PROVE  /\ buckets'[heap'[i].key] # i
                /\ heap'[i].spent <= heap'[j].born - heap'[i].born
                /\ \A q \in Requests : req'[q].pc = "loaded" /\ req'[q].b = i
                                         => req'[q].now <= heap'[j].born + MaxLag
    <3>1. i < j /\ heap'[i].key = heap'[j].key
      BY <2>12 DEF SameKey
    <3>2. i \in 1..Len(heap) /\ heap'[i] = heap[i] /\ heap[i].key \in Keys /\ i # n
      BY <3>1, <2>2 DEF Bucket
    <3>3. CASE j = n
      <4>1. heap[i].key = k /\ heap'[j].born = req[r].now
        BY <3>1, <3>2, <3>3, <2>2
      <4>2. buckets'[heap'[i].key] # i
        BY <4>1, <3>2, <2>4, <1>1
      <4>3. \A q \in Requests : req'[q].b = i => q # r
        BY <2>4, <3>2
      <4>. QED
        BY <4>1, <4>2, <4>3, <3>2, <2>4, <2>9, <2>10
    <3>4. CASE j # n
      <4>1. j \in 1..Len(heap) /\ heap'[j] = heap[j] /\ SameKey(i, j)
        BY <3>1, <3>2, <3>4, <2>2 DEF SameKey
      <4>2. buckets[heap[i].key] # i
        BY <4>1, <3>2 DEF EarnedInv
      <4>3. buckets'[heap'[i].key] # i
        BY <4>2, <3>2, <2>4
      <4>4. \A q \in Requests : req'[q].b = i => req'[q] = req[q]
        BY <2>4, <3>2
      <4>. QED
        BY <4>1, <4>3, <4>4, <3>2 DEF EarnedInv
    <3>. QED
      BY <3>3, <3>4
  <2>13. ASSUME NEW i \in 1..Len(heap'), Going(i)' PROVE (Slack(heap[i]) \/ Old(heap[i]))'
    <3>1. i \in 1..Len(heap) /\ Going(i) /\ heap'[i] = heap[i]
      BY <2>13, <2>2, <2>6, <2>7
    <3>2. Slack(heap[i]) \/ Old(heap[i])
      BY <3>1 DEF EarnedInv
    <3>. QED
      BY <3>1, <3>2, <2>8 DEF Slack, Old
  <2>. QED
    BY <2>11, <2>12, <2>13 DEF EarnedInv
<1>. QED
  BY <1>2, <1>3

LEMMA DecideEarned ==
  ASSUME Inv, EarnedInv, NEW r \in Requests, Decide(r)
  PROVE  EarnedInv'
<1> PICK m \in 1..Len(heap) : m = req[r].b
  BY CallFacts DEF Decide
<1> DEFINE c == Refilled(heap[m], req[r].now)
<1>1. /\ m \in 1..Len(heap) /\ heap[m] \in Bucket /\ BucketOK(heap[m], now)
      /\ now \in Nat /\ req[r].now \in 0..now /\ now - req[r].now <= MaxLag
      /\ req[r].pc = "loaded"
  BY CallFacts DEF Decide
<1>2. /\ UNCHANGED <<now, buckets, sweep>>
      /\ \A q \in Requests : /\ q # r => req'[q] = req[q]
                             /\ req'[r].pc = "idle"
  BY DEF Decide, NoCall, Inv, TypeOK
<1>3. /\ Len(heap') = Len(heap) /\ heap'[m] = IF c.tokens >= Cost THEN Spent(c) ELSE c
      /\ \A j \in 1..Len(heap) : j # m => heap'[j] = heap[j]
  BY <1>1 DEF Decide, Inv, TypeOK
<1>4. \A i \in 1..Len(heap) : heap'[i].key = heap[i].key /\ heap'[i].born = heap[i].born
  <2>1. /\ c.key = heap[m].key /\ c.born = heap[m].born
        /\ Spent(c).key = heap[m].key /\ Spent(c).born = heap[m].born
    BY <1>1 DEF Refilled, Spent, Bucket
  <2>. QED
    BY <1>3, <2>1
<1>5. \A i \in 1..Len(heap) : Going(i)' => Going(i)
  BY <1>2, <1>4 DEF Going
<1>6. ASSUME Going(m) PROVE /\ Slack(heap[m])'
                            /\ \/ heap'[m].spent = heap[m].spent
                               \/ heap'[m].spent <= req[r].now - MaxLag - heap[m].born
  <2>1. Slack(heap[m]) \/ heap[m].lastRefill + Idle <= req[r].now + MaxLag
    BY <1>1, <1>6 DEF EarnedInv, Old
  <2>2. /\ Slack(c) /\ Slack(Spent(c))
        /\ c.tokens >= Cost => Spent(c).spent <= req[r].now - MaxLag - heap[m].born
    BY <1>1, <2>1, DecidedSlack
  <2>3. c.spent = heap[m].spent
    BY <1>1 DEF Refilled, Bucket
  <2>4. Slack(heap'[m])
    BY <1>3, <2>2
  <2>5. Slack(heap[m])'
    BY <1>2, <2>4 DEF Slack
  <2>. QED
    BY <1>3, <2>2, <2>3, <2>5
<1>7. \A i \in 1..Len(heap) : i # m /\ Old(heap[i]) => Old(heap[i])'
  BY <1>2, <1>3 DEF Old
<1>8. ASSUME NEW i \in 1..Len(heap'), Going(i)' PROVE (Slack(heap[i]) \/ Old(heap[i]))'
  <2>1. CASE i = m
    BY <2>1, <1>1, <1>5, <1>6, <1>8
  <2>2. CASE i # m
    <3>1. i \in 1..Len(heap) /\ heap'[i] = heap[i] /\ Going(i)
      BY <2>2, <1>3, <1>5, <1>8
    <3>2. Slack(heap[i]) \/ Old(heap[i])
      BY <3>1 DEF EarnedInv
    <3>3. Slack(heap[i]) => Slack(heap[i])'
      BY <3>1 DEF Slack
    <3>. QED
      BY <2>2, <3>1, <3>2, <3>3, <1>7
  <2>. QED
    BY <2>1, <2>2
<1>9. ASSUME NEW i \in 1..Len(heap'), NEW j \in 1..Len(heap'), SameKey(i, j)'
      PROVE  /\ buckets'[heap'[i].key] # i
             /\ heap'[i].spent <= heap'[j].born - heap'[i].born
             /\ \A q \in Requests : req'[q].pc = "loaded" /\ req'[q].b = i
                                      => req'[q].now <= heap'[j].born + MaxLag
  <2>1. i \in 1..Len(heap) /\ j \in 1..Len(heap) /\ SameKey(i, j)
    BY <1>3, <1>4, <1>9 DEF SameKey
  <2>2. /\ buckets[heap[i].key] # i /\ heap[i].spent <= heap[j].born - heap[i].born
        /\ \A q \in Requests : req[q].pc = "loaded" /\ req[q].b = i
                                 => req[q].now <= heap[j].born + MaxLag
    BY <2>1 DEF EarnedInv
  <2>3. heap'[i].spent <= heap[j].born - heap[i].born
    <3>1. CASE i # m
      BY <3>1, <2>1, <2>2, <1>3
    <3>2. CASE i = m
      <4>1. Going(m)
        BY <3>2, <2>2 DEF Going
      <4>2. heap'[m].spent = heap[m].spent \/ heap'[m].spent <= req[r].now - MaxLag - heap[m].born
        BY <4>1, <1>6
      <4>3. req[r].now <= heap[j].born + MaxLag
        BY <3>2, <2>2, <1>1
      <4>4. heap[j] \in Bucket
        BY <2>1 DEF Inv, TypeOK
      <4>5. /\ heap[m].born \in Nat /\ heap[m].spent \in Nat /\ heap[j].born \in Nat
            /\ req[r].now \in Nat /\ MaxLag \in Nat
        <5>1. heap[m].born \in Nat /\ heap[m].spent \in Nat
          BY <1>1 DEF Bucket
        <5>2. heap[j].born \in Nat
          BY <4>4 DEF Bucket
        <5>. QED
          BY <1>1, <5>1, <5>2
      <4>6. heap'[m] \in Bucket
        BY <1>1, DecideOK
      <4>7. heap'[m].spent \in Nat
        BY <4>6 DEF Bucket
      <4>8. heap[m].spent <= heap[j].born - heap[m].born
        BY <3>2, <2>2
      <4>9. heap'[m].spent <= heap[j].born - heap[m].born
        <5>1. CASE heap'[m].spent = heap[m].spent
          BY <5>1, <4>8
        <5>2. CASE heap'[m].spent <= req[r].now - MaxLag - heap[m].born
          <6> DEFINE x == heap'[m].spent
                     t == req[r].now
                     b == heap[m].born
                     e == heap[j].born
          <6>1. x \in Nat /\ t \in Nat /\ b \in Nat /\ e \in Nat /\ MaxLag \in Nat
            BY <4>5, <4>7
          <6>2. x <= t - MaxLag - b /\ t <= e + MaxLag
            BY <5>2, <4>3
          <6> HIDE DEF x, t, b, e
          <6>3. x <= e - b
            BY <6>1, <6>2
          <6>. QED
            BY <6>3 DEF x, e, b
        <5>. QED
          BY <5>1, <5>2, <4>2
      <4>. QED
        BY <3>2, <4>9
    <3>. QED
      BY <3>1, <3>2
  <2>4. \A q \in Requests : req'[q].pc = "loaded" => req'[q] = req[q]
    BY <1>2
  <2>. QED
    BY <2>1, <2>2, <2>3, <2>4, <1>2, <1>4
<1>10. (\A k \in Keys : buckets[k] # 0 => heap[buckets[k]].key = k)'
  <2>1. \A k \in Keys : buckets[k] # 0 => buckets[k] \in 1..Len(heap)
    BY DEF Inv, TypeOK
  <2>. QED
    BY <2>1, <1>2, <1>4 DEF EarnedInv
<1>. QED
  BY <1>8, <1>9, <1>10 DEF EarnedInv

\* What the sweep finds idle is as old as it takes.
LEMMA SweepEarned ==
  ASSUME Inv, EarnedInv, StartSweep \/ (\E k \in Keys : Look(k)) \/ Evict
  PROVE  EarnedInv'
<1>1. CASE StartSweep
  <2>1. UNCHANGED <<now, heap, buckets, req>> /\ sweep.idle = sweep'.idle
    BY <1>1 DEF StartSweep
  <2>. QED
    BY <2>1 DEF EarnedInv, SameKey, Going, Slack, Old
<1>2. ASSUME NEW k \in Keys, Look(k) PROVE EarnedInv'
  <2>1. /\ UNCHANGED <<now, heap, buckets, req>> /\ sweep.idle = NoKey
        /\ sweep'.idle = IF heap[buckets[k]].lastRefill < sweep.cutoff THEN k ELSE NoKey
        /\ sweep.cutoff <= now - Idle /\ sweep.cutoff \in Int /\ now \in Nat
    <3>1. sweep \in [cutoff: Int, todo: SUBSET Keys, idle: Keys \cup {NoKey}, due: Int]
      BY DEF Inv, TypeOK
    <3>2. k \in sweep.todo
      BY <1>2 DEF Look
    <3>3. sweep.cutoff <= now - Idle /\ now \in Nat
      BY <3>2 DEF Inv, TypeOK, SweepOK
    <3>. QED
      BY <1>2, <3>1, <3>3 DEF Look
  <2>2. ASSUME NEW i \in 1..Len(heap), Going(i)' PROVE Slack(heap[i]) \/ Old(heap[i])
    <3>1. CASE Going(i)
      BY <3>1 DEF EarnedInv
    <3>2. CASE ~Going(i)
      <4>1. heap[i] \in Bucket
        BY DEF Inv, TypeOK
      <4>2. heap[i].key \in Keys /\ heap[i].lastRefill \in Nat
        BY <4>1 DEF Bucket
      <4>3. buckets[heap[i].key] = i /\ sweep'.idle = heap[i].key
        BY <2>1, <2>2, <3>2 DEF Going
      <4>4. heap[i].lastRefill < sweep.cutoff
        BY <2>1, <4>2, <4>3, NoKeyAssumption
      <4>5. \A r \in Requests : req[r].pc # "idle" => now <= req[r].now + MaxLag /\ req[r].now \in Nat
        BY <2>1 DEF Inv, TypeOK, LagOK
      <4>6. heap[i].lastRefill + Idle <= now
        BY <2>1, <4>2, <4>4
      <4>7. \A r \in Requests : req[r].pc # "idle" => heap[i].lastRefill + Idle <= req[r].now + MaxLag
        BY <2>1, <4>2, <4>5, <4>6
      <4>. QED
        BY <4>6, <4>7 DEF Old
    <3>. QED
      BY <3>1, <3>2
  <2>3. ASSUME NEW i \in 1..Len(heap), Slack(heap[i]) \/ Old(heap[i])
        PROVE  (Slack(heap[i]) \/ Old(heap[i]))'
    BY <2>1, <2>3 DEF Slack, Old
  <2>. QED
    BY <2>1, <2>2, <2>3 DEF EarnedInv, SameKey
<1>3. CASE Evict
  <2>1. /\ UNCHANGED <<now, heap, req>> /\ sweep.idle \in Keys /\ sweep'.idle = NoKey
        /\ \A k \in Keys : buckets'[k] = IF k = sweep.idle THEN 0 ELSE buckets[k]
    BY <1>3 DEF Evict, Inv, TypeOK
  <2>2. \A i \in 1..Len(heap) : heap[i].key \in Keys /\ i # 0
    <3>1. \A i \in 1..Len(heap) : heap[i] \in Bucket /\ i # 0
      BY DEF Inv, TypeOK
    <3>. QED
      BY <3>1 DEF Bucket
  <2>3. \A i \in 1..Len(heap) : Going(i)' => Going(i)
    BY <2>1, <2>2 DEF Going
  <2>4. \A i \in 1..Len(heap) : Slack(heap[i]) \/ Old(heap[i]) => (Slack(heap[i]) \/ Old(heap[i]))'
    BY <2>1 DEF Slack, Old
  <2>. QED
    BY <2>1, <2>2, <2>3, <2>4 DEF EarnedInv, SameKey
<1>. QED
  BY <1>1, <1>2, <1>3

LEMMA TickEarned ==
  ASSUME Inv, EarnedInv, Tick
  PROVE  EarnedInv'
<1>1. now \in Nat /\ now' = now + 1 /\ UNCHANGED <<heap, buckets, req, sweep>>
  BY DEF Inv, TypeOK, Tick
<1>2. \A i \in 1..Len(heap) : Old(heap[i]) => Old(heap[i])'
  <2>1. \A i \in 1..Len(heap) : heap[i] \in Bucket
    BY DEF Inv, TypeOK
  <2>2. \A i \in 1..Len(heap) : heap[i].lastRefill \in Nat
    BY <2>1 DEF Bucket
  <2>. QED
    BY <1>1, <2>2 DEF Old
<1>. QED
  BY <1>1, <1>2 DEF EarnedInv, SameKey, Going, Slack

\* Whatever is evicted, and however late: the next bucket of the key is full for
\* nothing but the time that has passed.
THEOREM EvictionSafe == Spec => []EvictedHasEarned
<1>1. Init => EarnedInv
  BY DEF Init, EarnedInv
<1>2. Inv /\ EarnedInv /\ [Next]_vars => EarnedInv'
  <2>. SUFFICES ASSUME Inv, EarnedInv, [Next]_vars PROVE EarnedInv'
    OBVIOUS
  <2>1. ASSUME NEW r \in Requests, NEW k \in Keys, Call(r, k) PROVE EarnedInv'
    BY <2>1, CallEarned
  <2>2. ASSUME NEW r \in Requests, Load(r) PROVE EarnedInv'
    BY <2>2, LoadEarned
  <2>3. ASSUME NEW r \in Requests, Decide(r) PROVE EarnedInv'
    BY <2>3, DecideEarned
  <2>4. CASE StartSweep \/ (\E k \in Keys : Look(k)) \/ Evict
    BY <2>4, SweepEarned
  <2>5. CASE Tick
    BY <2>5, TickEarned
  <2>6. CASE UNCHANGED vars
    BY <2>6 DEF vars, EarnedInv, SameKey, Going, Slack, Old
  <2>. QED
    BY <2>1, <2>2, <2>3, <2>4, <2>5, <2>6 DEF Next
<1>3. EarnedInv => EvictedHasEarned
  BY DEF EarnedInv, SameKey, EvictedHasEarned
<1>. QED
  BY Invariance, <1>1, <1>2, <1>3, PTL DEF Spec
=============================================================================
