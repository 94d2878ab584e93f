----------------------------- MODULE RateLimiter -----------------------------
(***************************************************************************)
(* The token buckets of middleware/ratelimit.go: concurrent calls of allow *)
(* over a sync.Map of buckets, and the cleanup goroutine that evicts idle  *)
(* ones.  Tokens are counted in the ticks it takes to earn them: the       *)
(* refill is one unit per tick and a request takes Cost units, so that     *)
(* 1/Cost is the code's rate.                                              *)
(***************************************************************************)
EXTENDS Integers, Sequences

CONSTANTS Keys,      \* the API keys or addresses that requests are counted under
          Requests,  \* request goroutines
          Cost,      \* ticks to earn one token
          Burst,     \* tokens of a full bucket
          Idle,      \* ticks after which an unused bucket may be evicted
          Interval,  \* ticks between two sweeps
          MaxLag,    \* bound: ticks between a request's time.Now and its decision
          MaxTime,   \* bound on the clock
          NoKey

Full == Burst * Cost

ASSUME CostAssumption == Cost \in Nat \ {0} /\ Burst \in Nat \ {0} /\ Full \in Nat /\ Full >= Cost
ASSUME TimesAssumption == Idle \in Nat /\ Interval \in Nat \ {0} /\ MaxLag \in Nat /\ MaxTime \in Nat
\* The limiters of main refill in one second and a bucket is idle after ten minutes,
\* which leaves a request three minutes between its clock and its lock.
ASSUME IdleAssumption == Idle >= 2 * Full + 3 * MaxLag
ASSUME NoKeyAssumption == NoKey \notin Keys

VARIABLES
  now,      \* the clock
  heap,     \* every bucket ever stored; key, spent and born are history
  buckets,  \* the sync.Map: key -> index in heap, or 0
  req,      \* the calls of allow
  sweep     \* the cleanup goroutine

vars == <<now, heap, buckets, req, sweep>>

Bucket == [key: Keys, tokens: Int, lastRefill: Nat, spent: Nat, born: Nat]
NoCall == [pc |-> "idle", key |-> NoKey, now |-> 0, b |-> 0]

Init ==
  /\ now = 0
  /\ heap = <<>>
  /\ buckets = [k \in Keys |-> 0]
  /\ req = [r \in Requests |-> NoCall]
  /\ sweep = [cutoff |-> 0, todo |-> {}, idle |-> NoKey, due |-> Interval]

\* ----------------------------------------------------------------- allow
\* The middleware calls allow, which reads the clock first.
Call(r, k) ==
  /\ req[r].pc = "idle"
  /\ req' = [req EXCEPT ![r] = [pc |-> "stamped", key |-> k, now |-> now, b |-> 0]]
  /\ UNCHANGED <<now, heap, buckets, sweep>>

\* Mutant: a new bucket starts empty.
LoadEmpty(r) ==
  LET k == req[r].key
      Loaded(i) == [pc |-> "loaded", key |-> k, now |-> req[r].now, b |-> i]
  IN
  /\ req[r].pc = "stamped"
  /\ IF buckets[k] # 0
     THEN /\ req' = [req EXCEPT ![r] = Loaded(buckets[k])]
          /\ UNCHANGED <<heap, buckets>>
     ELSE /\ heap' = Append(heap, [key |-> k, tokens |-> 0, lastRefill |-> req[r].now,
                                   spent |-> 0, born |-> req[r].now])
          /\ buckets' = [buckets EXCEPT ![k] = Len(heap')]
          /\ req' = [req EXCEPT ![r] = Loaded(Len(heap'))]
  /\ UNCHANGED <<now, sweep>>

\* LoadOrStore: the key's bucket, or a full one.
Load(r) ==
  LET k == req[r].key
      Loaded(i) == [pc |-> "loaded", key |-> k, now |-> req[r].now, b |-> i]
  IN
  /\ req[r].pc = "stamped"
  /\ IF buckets[k] # 0
     THEN /\ req' = [req EXCEPT ![r] = Loaded(buckets[k])]
          /\ UNCHANGED <<heap, buckets>>
     ELSE /\ heap' = Append(heap, [key |-> k, tokens |-> Full, lastRefill |-> req[r].now,
                                   spent |-> 0, born |-> req[r].now])
          /\ buckets' = [buckets EXCEPT ![k] = Len(heap')]
          /\ req' = [req EXCEPT ![r] = Loaded(Len(heap'))]
  /\ UNCHANGED <<now, sweep>>

\* Mutants of Refilled: no cap; a negative elapsed counted as none; a last
\* refill that never goes back while a negative elapsed still takes tokens.
RefilledUncapped(b, t) ==
  [b EXCEPT !.tokens = @ + (t - b.lastRefill), !.lastRefill = t]
RefilledAtLeast(b, t) ==
  LET earned == IF t < b.lastRefill THEN b.tokens ELSE b.tokens + (t - b.lastRefill) IN
  [b EXCEPT !.tokens = IF earned > Full THEN Full ELSE earned, !.lastRefill = t]
RefilledForward(b, t) ==
  LET earned == b.tokens + (t - b.lastRefill) IN
  [b EXCEPT !.tokens = IF earned > Full THEN Full ELSE earned,
            !.lastRefill = IF t > @ THEN t ELSE @]

\* The bucket refilled up to a time, which may lie before its last refill.
Refilled(b, t) ==
  LET earned == b.tokens + (t - b.lastRefill) IN
  [key |-> b.key, tokens |-> IF earned > Full THEN Full ELSE earned, lastRefill |-> t,
   spent |-> b.spent, born |-> b.born]

Spent(b) ==
  [key |-> b.key, tokens |-> b.tokens - Cost, lastRefill |-> b.lastRefill,
   spent |-> b.spent + Cost, born |-> b.born]

\* Mutant: the token is taken before it is looked at.
DecideTaken(r) ==
  LET call == req[r]
      b    == Spent(Refilled(heap[call.b], call.now))
  IN
  /\ call.pc = "loaded"
  /\ heap' = [heap EXCEPT ![call.b] = IF b.tokens >= 0 THEN b ELSE [b EXCEPT !.spent = @ - Cost]]
  /\ req' = [req EXCEPT ![r] = NoCall]
  /\ UNCHANGED <<now, buckets, sweep>>

\* The critical section of allow, under the bucket's mutex.
Decide(r) ==
  LET call == req[r]
      b    == Refilled(heap[call.b], call.now)
  IN
  /\ call.pc = "loaded"
  /\ heap' = [heap EXCEPT ![call.b] = IF b.tokens >= Cost THEN Spent(b) ELSE b]
  /\ req' = [req EXCEPT ![r] = NoCall]
  /\ UNCHANGED <<now, buckets, sweep>>

\* --------------------------------------------------------------- cleanup
\* Mutant: idle since the last sweep is idle enough.
StartSweepEarly ==
  /\ sweep.todo = {} /\ sweep.idle = NoKey /\ now >= sweep.due
  /\ sweep' = [cutoff |-> now - Interval, todo |-> {k \in Keys : buckets[k] # 0}, idle |-> NoKey,
               due |-> (now \div Interval + 1) * Interval]
  /\ UNCHANGED <<now, heap, buckets, req>>

\* The ticker fires.  A tick that comes while the sweep still runs is kept
\* (its channel holds one), so the next one is due at the next multiple.
\* Range visits the keys that are there when it starts; one stored later it
\* may visit or not, but that one is not idle.
StartSweep ==
  /\ sweep.todo = {} /\ sweep.idle = NoKey /\ now >= sweep.due
  /\ sweep' = [cutoff |-> now - Idle, todo |-> {k \in Keys : buckets[k] # 0}, idle |-> NoKey,
               due |-> (now \div Interval + 1) * Interval]
  /\ UNCHANGED <<now, heap, buckets, req>>

\* One bucket is looked at under its mutex, which is then released.
Look(k) ==
  /\ k \in sweep.todo /\ sweep.idle = NoKey
  /\ sweep' = [sweep EXCEPT !.todo = @ \ {k},
                            !.idle = IF heap[buckets[k]].lastRefill < sweep.cutoff THEN k ELSE NoKey]
  /\ UNCHANGED <<now, heap, buckets, req>>

\* The key found idle is deleted, whatever has become of its bucket.
Evict ==
  /\ sweep.idle # NoKey
  /\ buckets' = [buckets EXCEPT ![sweep.idle] = 0]
  /\ sweep' = [sweep EXCEPT !.idle = NoKey]
  /\ UNCHANGED <<now, heap, req>>

Tick ==
  /\ now < MaxTime
  /\ \A r \in Requests : req[r].pc # "idle" => now - req[r].now < MaxLag
  /\ now' = now + 1
  /\ UNCHANGED <<heap, buckets, req, sweep>>

Next ==
  \/ \E r \in Requests :
       \/ \E k \in Keys : Call(r, k)
       \/ Load(r)
       \/ Decide(r)
  \/ StartSweep
  \/ \E k \in Keys : Look(k)
  \/ Evict
  \/ Tick

Spec == Init /\ [][Next]_vars

\* ------------------------------------------------------------ properties
\* Every variable keeps its type: no index is out of the heap, no bucket
\* holds more than Burst tokens, and no request is stamped with a time to come.
TypeOK ==
  /\ now \in Nat
  /\ heap \in Seq(Bucket)
  /\ \A i \in 1..Len(heap) : heap[i].tokens <= Full
  /\ buckets \in [Keys -> 0..Len(heap)]
  /\ req \in [Requests -> [pc: {"idle", "stamped", "loaded"}, key: Keys \cup {NoKey},
                           now: 0..now, b: 0..Len(heap)]]
  /\ \A r \in Requests : /\ req[r].pc # "idle" => req[r].key # NoKey
                         /\ req[r].pc = "loaded" => req[r].b # 0
  /\ sweep \in [cutoff: Int, todo: SUBSET Keys, idle: Keys \cup {NoKey}, due: Int]
  /\ \A k \in Keys : k \in sweep.todo \/ k = sweep.idle => buckets[k] # 0

\* "rate tokens per second, max burst" (ratelimit.go:22): whatever the order
\* in which stamps reach it, a bucket has never let more through than a full
\* bucket and what was earned since it was stored, and it has no more left.
NeverOverRate ==
  \A i \in 1..Len(heap) :
    heap[i].spent + heap[i].tokens <= Full + heap[i].lastRefill - heap[i].born

\* A stamp that reaches the lock late takes tokens away only for the moment:
\* by the wall clock no bucket is ever in debt, nor has lost a token that was
\* not spent (ratelimit.go:50, elapsed may be negative).
NeverInDebt ==
  \A i \in 1..Len(heap) :
    LET b == heap[i] IN
    /\ b.tokens + (now - b.lastRefill) >= 0
    /\ b.spent + b.tokens + (now - b.lastRefill) >= Full

\* A request is refused only by a bucket that has let a burst through, less
\* what the wait for the lock made the request's stamp too old for.
RefusedWhenSpent ==
  [][\A r \in Requests :
       LET i == req[r].b IN
       Decide(r) /\ heap'[i].spent = heap[i].spent
         => heap[i].spent > Full - Cost - (now - req[r].now)]_vars

\* A refusal costs the others nothing: what the bucket will hold at any later
\* time is what it would have held without the refused request.
RefusalsAreFree ==
  [][\A r \in Requests :
       LET i == req[r].b IN
       Decide(r) /\ heap'[i].spent = heap[i].spent
         => heap'[i].tokens - heap'[i].lastRefill = heap[i].tokens - heap[i].lastRefill]_vars

\* What an evicted bucket has let through, and what a request that still holds
\* it takes later, was earned before the bucket stored next for its key was: the
\* full one that replaces it gives nothing away, even if the old one was refilled
\* and spent between the look at it and its deletion (ratelimit.go:115-119). With
\* NeverOverRate, a key never gets more than one burst and its rate over time.
EvictedHasEarned ==
  \A i, j \in 1..Len(heap) :
    i < j /\ heap[i].key = heap[j].key => heap[i].spent <= heap[j].born - heap[i].born
=============================================================================
