---------------------------- MODULE ConnPoolProofs ----------------------------
(***************************************************************************)
(* Proofs about the connection pool: connections are neither lost nor      *)
(* opened beyond the limit, and a standstill of the whole pool has a       *)
(* deadline.                                                               *)
(***************************************************************************)
EXTENDS ConnPool, FiniteSetTheorems, TLAPS

USE PoolAssumption

Callers == Spenders \cup Deciders

LEMMA KindsApart ==
  /\ Spenders \cap Deciders = {} /\ Spenders \cap Owners = {} /\ Spenders \cap Deleters = {}
  /\ Deciders \cap Owners = {} /\ Deciders \cap Deleters = {} /\ Owners \cap Deleters = {}
  /\ Worker \notin Spenders \cup Deciders \cup Owners \cup Deleters
  /\ Nobody \notin Handlers
<1>1. /\ Kinds[1] = Spenders /\ Kinds[2] = Deciders /\ Kinds[3] = Owners
      /\ Kinds[4] = Deleters /\ Kinds[5] = {Worker}
  BY DEF Kinds
<1>2. \A i, j \in 1..5 : i # j => Kinds[i] \cap Kinds[j] = {}
  BY KindsAssumption
<1>3. /\ Kinds[1] \cap Kinds[2] = {} /\ Kinds[1] \cap Kinds[3] = {} /\ Kinds[1] \cap Kinds[4] = {}
      /\ Kinds[2] \cap Kinds[3] = {} /\ Kinds[2] \cap Kinds[4] = {} /\ Kinds[3] \cap Kinds[4] = {}
  BY <1>2
<1>4. /\ Kinds[1] \cap Kinds[5] = {} /\ Kinds[2] \cap Kinds[5] = {}
      /\ Kinds[3] \cap Kinds[5] = {} /\ Kinds[4] \cap Kinds[5] = {}
  BY <1>2
<1>. QED
  BY <1>1, <1>3, <1>4, KindsAssumption

LEMMA HandlersFinite == IsFiniteSet(Handlers)
<1>1. /\ Kinds[1] = Spenders /\ Kinds[2] = Deciders /\ Kinds[3] = Owners
      /\ Kinds[4] = Deleters /\ Kinds[5] = {Worker}
  BY DEF Kinds
<1>2. /\ IsFiniteSet(Spenders) /\ IsFiniteSet(Deciders) /\ IsFiniteSet(Owners)
      /\ IsFiniteSet(Deleters) /\ IsFiniteSet({Worker})
  BY <1>1, KindsAssumption
<1>3. IsFiniteSet(Spenders \cup Deciders)
  BY <1>2, FS_Union
<1>4. IsFiniteSet(Spenders \cup Deciders \cup Owners)
  BY <1>2, <1>3, FS_Union
<1>5. IsFiniteSet(Spenders \cup Deciders \cup Owners \cup Deleters)
  BY <1>2, <1>4, FS_Union
<1>. QED
  BY <1>2, <1>5, FS_Union DEF Handlers

\* What the proofs use of the scripts, by kind of handler.
CallerScript(s) ==
  /\ Len(s) \in 5..7
  /\ s[1] = "read" /\ s[2] = "begin" /\ s[Len(s)] = "commit"
  /\ \A i \in 3..(Len(s) - 1) : s[i] \in {"read", "agent", "user", "txn"}

LEMMA CallerScripts ==
  ASSUME NEW s \in SpendScripts \cup DecideScripts
  PROVE  CallerScript(s) /\ s # Idle /\ s # Over
<1>1. CASE s = <<"read", "begin", "read", "agent", "user", "read", "commit">>
  BY <1>1 DEF CallerScript, Idle, Over
<1>2. CASE s = <<"read", "begin", "read", "agent", "read", "commit">>
  BY <1>2 DEF CallerScript, Idle, Over
<1>3. CASE s = <<"read", "begin", "read", "agent", "user", "commit">>
  BY <1>3 DEF CallerScript, Idle, Over
<1>4. CASE s = <<"read", "begin", "txn", "read", "user", "read", "commit">>
  BY <1>4 DEF CallerScript, Idle, Over
<1>5. CASE s = <<"read", "begin", "txn", "read", "commit">>
  BY <1>5 DEF CallerScript, Idle, Over
<1>. QED
  BY <1>1, <1>2, <1>3, <1>4, <1>5 DEF SpendScripts, DecideScripts

LEMMA DecidersSkipAgent ==
  ASSUME NEW s \in DecideScripts, NEW i \in 1..Len(s)
  PROVE  s[i] # "agent"
<1>1. CASE s = <<"read", "begin", "txn", "read", "user", "read", "commit">>
  BY <1>1
<1>2. CASE s = <<"read", "begin", "txn", "read", "commit">>
  BY <1>2
<1>. QED
  BY <1>1, <1>2 DEF DecideScripts

LEMMA OtherScripts ==
  /\ \A p \in Owners : Scripts(p) = {<<"agent">>}
  /\ \A p \in Deleters : Scripts(p) = {<<"deliveries">>}
  /\ Scripts(Worker) = {<<"begin", "poll", "read", "post", "commit">>}
  /\ \A p \in Spenders : Scripts(p) = SpendScripts
  /\ \A p \in Deciders : Scripts(p) = DecideScripts
BY KindsApart DEF Scripts, OwnerScripts, DeleteScripts, WorkerScripts

\* What a handler has, by its place in its script.
HandlerOK(p) ==
  /\ script[p] \in Scripts(p) \cup {Idle, Over}
  /\ IF Running(p) THEN at[p] \in 1..Len(script[p]) ELSE at[p] = 1
  /\ InTx(p) => Running(p) /\ (p = Worker \/ (p \in Callers /\ at[p] >= 2))
  /\ <<p, "stmt">> \in inUse =>
       \/ Doing(p, "read")
       \/ ~InTx(p) /\ \E r \in Rows : Doing(p, r)
  /\ p = Worker /\ at[p] > 1 => InTx(p)
  /\ p = Worker /\ at[p] \in 3..4 => left > 0

\* The connections and the queue for them.
PoolOK ==
  /\ inUse \subseteq Connections /\ IsFiniteSet(inUse) /\ Cardinality(inUse) <= MaxOpen
  /\ waiting \subseteq Handlers
  /\ waiting # {} => Cardinality(inUse) = MaxOpen
  /\ \A p \in waiting : NeedsConn(p)

\* Rows are locked in transactions: the agent's by spends, deliveries by the worker.
RowsOK ==
  /\ rowOf \in [Rows -> Handlers \cup {Nobody}]
  /\ \A r \in Rows : ~Free(r) =>
       /\ InTx(rowOf[r])
       /\ r = "agent" => rowOf[r] \in Spenders
       /\ r = "deliveries" => rowOf[r] = Worker

Inv ==
  /\ script = [p \in Handlers |-> script[p]]
  /\ at = [p \in Handlers |-> at[p]]
  /\ left \in 0..MaxBatch
  /\ \A p \in Handlers : HandlerOK(p)
  /\ PoolOK
  /\ RowsOK

LEMMA InitInv == Init => Inv
<1> SUFFICES ASSUME Init PROVE Inv
  OBVIOUS
<1>1. \A p \in Handlers : ~Running(p) /\ ~InTx(p) /\ HandlerOK(p)
  BY DEF Init, HandlerOK, Running, InTx
<1>2. PoolOK
  BY FS_EmptySet DEF Init, PoolOK
<1>3. RowsOK
  BY DEF Init, RowsOK, Free
<1>. QED
  BY <1>1, <1>2, <1>3 DEF Init, Inv

\* Where in a script a statement may be.
LEMMA Places ==
  ASSUME Inv, NEW p \in Handlers, Running(p)
  PROVE  /\ Doing(p, "begin") => (p = Worker /\ at[p] = 1) \/ (p \in Callers /\ at[p] = 2)
         /\ Doing(p, "read") => at[p] < Len(script[p])
         /\ Doing(p, "poll") => p = Worker /\ at[p] = 2
         /\ Doing(p, "post") => p = Worker /\ at[p] = 4
         /\ p = Worker => Len(script[p]) = 5 /\ (Doing(p, "read") => at[p] = 3)
         /\ Doing(p, "commit") => at[p] = Len(script[p])
         /\ p \in Callers => CallerScript(script[p])
         /\ \A r \in Rows : Doing(p, r) =>
              /\ p # Worker
              /\ p \in Callers => at[p] < Len(script[p])
              /\ p \notin Callers => at[p] = 1 /\ Len(script[p]) = 1
              /\ r = "agent" => p \in Spenders \cup Owners
              /\ r = "deliveries" => p \in Deleters
<1> DEFINE s == script[p]
<1>1. HandlerOK(p) /\ s \in Scripts(p) /\ at[p] \in 1..Len(s)
  BY DEF Inv, HandlerOK, Running
<1>2. CASE p \in Callers
  <2>1. s \in SpendScripts \cup DecideScripts /\ (p \in Deciders => s \in DecideScripts)
    BY <1>1, <1>2, OtherScripts DEF Callers
  <2>2. CallerScript(s) /\ (p \in Deciders => s[at[p]] # "agent")
    BY <1>1, <2>1, CallerScripts, DecidersSkipAgent
  <2>3. p # Worker
    BY <1>2, KindsApart DEF Callers
  <2> HIDE DEF s
  <2>4. /\ s[1] = "read" /\ s[2] = "begin" /\ s[Len(s)] = "commit" /\ Len(s) \in 5..7
        /\ \A i \in 3..(Len(s) - 1) : s[i] \in {"read", "agent", "user", "txn"}
    BY <2>2 DEF CallerScript
  <2>5. \/ at[p] = 1 /\ s[at[p]] = "read"
        \/ at[p] = 2 /\ s[at[p]] = "begin"
        \/ at[p] = Len(s) /\ s[at[p]] = "commit"
        \/ at[p] < Len(s) /\ at[p] > 2 /\ s[at[p]] \in {"read", "agent", "user", "txn"}
    BY <1>1, <2>4 DEF s
  <2>6. at[p] = 1 => at[p] < Len(s)
    BY <2>4
  <2>. QED
    BY <1>2, <2>2, <2>3, <2>5, <2>6 DEF Doing, Rows, Callers, s
<1>3. CASE p = Worker
  <2>1. s = <<"begin", "poll", "read", "post", "commit">> /\ p \notin Callers
    BY <1>1, <1>3, OtherScripts, KindsApart DEF Callers
  <2>2. at[p] \in 1..5 /\ Len(s) = 5
    BY <1>1, <2>1
  <2>3. /\ at[p] = 1 => s[at[p]] = "begin"
        /\ at[p] = 2 => s[at[p]] = "poll"
        /\ at[p] = 3 => s[at[p]] = "read"
        /\ at[p] = 4 => s[at[p]] = "post"
        /\ at[p] = 5 => s[at[p]] = "commit"
    BY <2>1
  <2> HIDE DEF s
  <2>. QED
    BY <1>3, <2>1, <2>2, <2>3 DEF Doing, Rows, s
<1>4. CASE p \in Owners \cup Deleters
  <2>1. /\ p \in Owners => s = <<"agent">>
        /\ p \in Deleters => s = <<"deliveries">>
        /\ p \notin Callers /\ p # Worker
    BY <1>1, <1>4, OtherScripts, KindsApart DEF Callers
  <2>2. Len(s) = 1 /\ at[p] = 1 /\ s[1] \in {"agent", "deliveries"}
    <3>1. CASE s = <<"agent">>
      BY <1>1, <3>1
    <3>2. CASE s = <<"deliveries">>
      BY <1>1, <3>2
    <3>. QED
      BY <1>4, <2>1, <3>1, <3>2
  <2>3. s[1] = "agent" => p \in Owners
    BY <1>4, <2>1, KindsApart
  <2>4. s[1] = "deliveries" => p \in Deleters
    BY <1>4, <2>1, KindsApart
  <2> HIDE DEF s
  <2>. QED
    BY <2>1, <2>2, <2>3, <2>4 DEF Doing, Rows, s
<1>. QED
  BY <1>2, <1>3, <1>4 DEF Handlers, Callers

\* The wanted connections of several handlers are as many as the handlers.
LEMMA WantsDiffer ==
  ASSUME NEW S \in SUBSET Handlers
  PROVE  /\ IsFiniteSet({Wants(q) : q \in S})
         /\ Cardinality({Wants(q) : q \in S}) = Cardinality(S)
         /\ {Wants(q) : q \in S} \subseteq Connections
<1> DEFINE T == {Wants(q) : q \in S}
           f == [q \in S |-> Wants(q)]
<1>1. IsFiniteSet(S)
  BY HandlersFinite, FS_Subset
<1>2. \A q : Wants(q) \in {<<q, "tx">>, <<q, "stmt">>}
  BY DEF Wants
<1>3. f \in [S -> T]
  OBVIOUS
<1>4. \A a, b \in S : f[a] = f[b] => a = b
  BY <1>2
<1>5. \A t \in T : \E q \in S : f[q] = t
  OBVIOUS
<1>6. f \in Bijection(S, T)
  BY <1>3, <1>4, <1>5 DEF Bijection, Injection, IsInjective, Surjection
<1>7. ExistsBijection(S, T)
  BY <1>6 DEF ExistsBijection
<1>8. T \subseteq Connections
  BY <1>2 DEF Connections
<1>. QED
  BY <1>1, <1>7, <1>8, FS_Bijection

\* What is given back goes to the queue, as far as it reaches: nothing is lost.
LEMMA GivenBack ==
  ASSUME Inv, NEW p \in Handlers, NEW conns \in SUBSET (inUse \cap {<<p, "tx">>, <<p, "stmt">>}),
         NEW queue \in SUBSET (waiting \ {p}), GiveBack(conns, queue)
  PROVE  /\ inUse' \subseteq Connections /\ IsFiniteSet(inUse')
         /\ Cardinality(inUse') <= MaxOpen
         /\ waiting' \subseteq queue
         /\ waiting' # {} => Cardinality(inUse') = MaxOpen
         /\ inUse' = (inUse \ conns) \cup {Wants(q) : q \in queue \ waiting'}
<1>1. PICK served \in SUBSET queue :
        /\ \/ served = queue /\ Cardinality(served) <= Cardinality(conns)
           \/ Cardinality(served) = Cardinality(conns)
        /\ inUse' = (inUse \ conns) \cup {Wants(q) : q \in served}
        /\ waiting' = queue \ served
  BY DEF GiveBack
<1> DEFINE T    == {Wants(q) : q \in served}
           kept == inUse \ conns
<1>2. /\ inUse \subseteq Connections /\ IsFiniteSet(inUse) /\ Cardinality(inUse) <= MaxOpen
      /\ queue \subseteq waiting /\ waiting \subseteq Handlers
      /\ waiting # {} => Cardinality(inUse) = MaxOpen
      /\ \A q \in waiting : NeedsConn(q)
  BY DEF Inv, PoolOK
<1>3. /\ IsFiniteSet(T) /\ Cardinality(T) = Cardinality(served) /\ T \subseteq Connections
  <2>1. served \in SUBSET Handlers
    BY <1>2
  <2>. QED
    BY <2>1, WantsDiffer
<1>4. T \cap kept = {}
  BY <1>2 DEF NeedsConn
<1>5. /\ IsFiniteSet(conns) /\ IsFiniteSet(kept)
      /\ Cardinality(kept) = Cardinality(inUse) - Cardinality(conns)
  <2>1. IsFiniteSet(conns) /\ IsFiniteSet(kept)
    BY <1>2, FS_Subset
  <2>2. kept \cup conns = inUse /\ kept \cap conns = {}
    OBVIOUS
  <2>3. Cardinality(inUse) = Cardinality(kept) + Cardinality(conns) - Cardinality(kept \cap conns)
    BY <2>1, <2>2, FS_Union
  <2>4. Cardinality(kept) \in Nat /\ Cardinality(conns) \in Nat /\ Cardinality(kept \cap conns) = 0
    BY <2>1, <2>2, FS_CardinalityType, FS_EmptySet
  <2> HIDE DEF kept
  <2>. QED
    BY <2>1, <2>3, <2>4
<1>6. /\ IsFiniteSet(inUse')
      /\ Cardinality(inUse') = Cardinality(inUse) - Cardinality(conns) + Cardinality(served)
  <2>1. inUse' = kept \cup T /\ kept \cap T = {}
    BY <1>1, <1>4
  <2>2. /\ IsFiniteSet(kept \cup T)
        /\ Cardinality(kept \cup T) = Cardinality(kept) + Cardinality(T) - Cardinality(kept \cap T)
    BY <1>3, <1>5, FS_Union
  <2>3. Cardinality(kept \cap T) = 0 /\ Cardinality(kept) \in Nat /\ Cardinality(T) \in Nat
    BY <1>3, <1>5, <2>1, FS_CardinalityType, FS_EmptySet
  <2> HIDE DEF kept, T
  <2>. QED
    BY <1>3, <1>5, <2>1, <2>2, <2>3
<1>7. /\ Cardinality(inUse) \in Nat /\ Cardinality(conns) \in Nat /\ Cardinality(served) \in Nat
  BY <1>2, <1>3, <1>5, FS_CardinalityType
<1>8. Cardinality(served) <= Cardinality(conns)
  BY <1>1, <1>7
<1>9. Cardinality(inUse') <= MaxOpen
  BY <1>2, <1>6, <1>7, <1>8
<1>10. ASSUME waiting' # {} PROVE Cardinality(inUse') = MaxOpen
  <2>1. served # queue /\ waiting # {}
    BY <1>1, <1>2, <1>10
  <2>. QED
    BY <1>1, <1>2, <1>6, <1>7, <2>1
<1>11. queue \ waiting' = served /\ waiting' \subseteq queue
  BY <1>1
<1>12. inUse' \subseteq Connections
  BY <1>1, <1>2, <1>3
<1>. QED
  BY <1>1, <1>6, <1>9, <1>10, <1>11, <1>12

\* A step of p serves the others at most what they queue for, and takes nothing of theirs.
Fair(p) ==
  /\ \A q \in Handlers \ {p} :
       /\ script'[q] = script[q] /\ at'[q] = at[q]
       /\ q \in waiting' => q \in waiting
       /\ \A k \in {"tx", "stmt"} : <<q, k>> \in inUse' <=>
            <<q, k>> \in inUse \/ (q \in waiting \ waiting' /\ Wants(q) = <<q, k>>)
  /\ p # Worker => left' = left

LEMMA OthersOK ==
  ASSUME Inv, NEW p \in Handlers, Fair(p), NEW q \in Handlers \ {p}
  PROVE  /\ HandlerOK(q)' /\ (q \in waiting' => NeedsConn(q)')
         /\ InTx(q) => InTx(q)'
<1>1. /\ script'[q] = script[q] /\ at'[q] = at[q] /\ (q = Worker => left' = left)
      /\ q \in waiting' => q \in waiting
      /\ <<q, "tx">> \in inUse' <=>
           <<q, "tx">> \in inUse \/ (q \in waiting \ waiting' /\ Wants(q) = <<q, "tx">>)
      /\ <<q, "stmt">> \in inUse' <=>
           <<q, "stmt">> \in inUse \/ (q \in waiting \ waiting' /\ Wants(q) = <<q, "stmt">>)
  BY DEF Fair
<1>2. /\ \A x : Doing(q, x)' <=> Doing(q, x)
      /\ Running(q)' <=> Running(q)
  BY <1>1 DEF Doing, Running
<1>3. HandlerOK(q) /\ (q \in waiting => NeedsConn(q))
  BY DEF Inv, PoolOK
<1>4. Wants(q) = <<q, "tx">> <=> Doing(q, "begin")
  BY DEF Wants
<1>5. Wants(q)' = Wants(q)
  BY <1>2 DEF Wants
<1>6. Doing(q, "begin") => (q = Worker /\ at[q] = 1) \/ (q \in Callers /\ at[q] = 2)
  BY Places DEF Doing
<1>7. Running(q) => at[q] \in 1..Len(script[q])
  BY <1>3 DEF HandlerOK
<1>8. /\ Doing(q, "begin") => ~Doing(q, "read") /\ \A r \in Rows : ~Doing(q, r)
      /\ Doing(q, "read") => \A r \in Rows : ~Doing(q, r)
      /\ \A x : Doing(q, x) => Running(q)
  BY DEF Doing, Rows
<1>9. InTx(q)' => InTx(q) \/ (q \in waiting \ waiting' /\ Doing(q, "begin"))
  BY <1>1, <1>4 DEF InTx
<1>10. InTx(q) => InTx(q)'
  BY <1>1 DEF InTx
<1>11. HandlerOK(q)'
  <2>1. InTx(q)' => Running(q) /\ (q = Worker \/ (q \in Callers /\ at[q] >= 2))
    BY <1>3, <1>6, <1>8, <1>9 DEF HandlerOK
  <2>2. ASSUME <<q, "stmt">> \in inUse'
        PROVE  \/ Doing(q, "read")
               \/ ~InTx(q)' /\ \E r \in Rows : Doing(q, r)
    <3>1. CASE <<q, "stmt">> \in inUse
      BY <1>3, <1>8, <1>9, <3>1 DEF HandlerOK
    <3>2. CASE q \in waiting \ waiting' /\ Wants(q) = <<q, "stmt">>
      <4>1. ~Doing(q, "begin") /\ NeedsConn(q)
        BY <1>3, <1>4, <3>2
      <4>2. Doing(q, "read") \/ (~InTx(q) /\ \E r \in Rows : Doing(q, r))
        BY <4>1 DEF NeedsConn, Doing
      <4>. QED
        BY <1>9, <4>1, <4>2
    <3>. QED
      BY <1>1, <2>2, <3>1, <3>2
  <2>3. /\ script'[q] \in Scripts(q) \cup {Idle, Over}
        /\ IF Running(q)' THEN at'[q] \in 1..Len(script'[q]) ELSE at'[q] = 1
        /\ q = Worker /\ at'[q] > 1 => InTx(q)'
        /\ q = Worker /\ at'[q] \in 3..4 => left' > 0
    BY <1>1, <1>2, <1>3, <1>10 DEF HandlerOK
  <2>. QED
    BY <1>1, <1>2, <2>1, <2>2, <2>3 DEF HandlerOK
<1>12. ASSUME q \in waiting' PROVE NeedsConn(q)'
  <2>1. NeedsConn(q) /\ Wants(q) \notin inUse'
    <3>1. Wants(q) = <<q, "tx">> \/ Wants(q) = <<q, "stmt">>
      BY DEF Wants
    <3>. QED
      BY <1>1, <1>3, <1>12, <3>1 DEF NeedsConn
  <2>2. InTx(q)' <=> InTx(q)
    BY <1>9, <1>10, <1>12
  <2>. QED
    BY <1>1, <1>2, <1>5, <2>1, <2>2 DEF NeedsConn
<1>. QED
  BY <1>10, <1>11, <1>12

\* The state of the pool, but for what the queued ones want.
Counts ==
  /\ inUse \subseteq Connections /\ IsFiniteSet(inUse) /\ Cardinality(inUse) <= MaxOpen
  /\ waiting \subseteq Handlers
  /\ waiting # {} => Cardinality(inUse) = MaxOpen

LEMMA StepOK ==
  ASSUME Inv, NEW p \in Handlers, Fair(p), Counts',
         script' = [q \in Handlers |-> script'[q]], at' = [q \in Handlers |-> at'[q]],
         left' \in 0..MaxBatch, HandlerOK(p)', p \in waiting' => NeedsConn(p)', RowsOK'
  PROVE  Inv'
<1>1. \A q \in Handlers : HandlerOK(q)' /\ (q \in waiting' => NeedsConn(q)')
  BY OthersOK
<1>2. PoolOK'
  BY <1>1 DEF Counts, PoolOK
<1>. QED
  BY <1>1, <1>2 DEF Inv

\* Locks that are kept are kept in a transaction that goes on.
LEMMA RowsKept ==
  ASSUME Inv, NEW p \in Handlers, Fair(p), rowOf' \in [Rows -> Handlers \cup {Nobody}],
         \A r \in Rows : rowOf'[r] \in {rowOf[r], Nobody},
         InTx(p)' \/ \A r \in Rows : rowOf'[r] # p
  PROVE  RowsOK'
<1> SUFFICES ASSUME NEW r \in Rows, rowOf'[r] # Nobody
             PROVE  /\ <<rowOf'[r], "tx">> \in inUse'
                    /\ r = "agent" => rowOf'[r] \in Spenders
                    /\ r = "deliveries" => rowOf'[r] = Worker
  BY DEF RowsOK, Free, InTx
<1> DEFINE q == rowOf[r]
<1>1. rowOf'[r] = q /\ q # Nobody
  OBVIOUS
<1>2. /\ q \in Handlers /\ InTx(q)
      /\ r = "agent" => q \in Spenders
      /\ r = "deliveries" => q = Worker
  BY <1>1 DEF Inv, RowsOK, Free
<1>3. <<q, "tx">> \in inUse'
  <2>1. CASE q = p
    BY <1>1, <2>1 DEF InTx
  <2>2. CASE q # p
    BY <1>2, <2>2, OthersOK DEF InTx
  <2>. QED
    BY <2>1, <2>2
<1>. QED
  BY <1>1, <1>2, <1>3 DEF InTx

\* A step that takes and gives no connection.
LEMMA SamePool ==
  ASSUME Inv, UNCHANGED <<inUse, waiting>>
  PROVE  Counts' /\ \A q : InTx(q)' <=> InTx(q)
BY DEF Inv, PoolOK, Counts, InTx

LEMMA GiveBackFair ==
  ASSUME Inv, NEW p \in Handlers, NEW conns \in SUBSET (inUse \cap {<<p, "tx">>, <<p, "stmt">>}),
         NEW queue, queue = waiting \ {p}, GiveBack(conns, queue),
         \A q \in Handlers \ {p} : script'[q] = script[q] /\ at'[q] = at[q],
         p # Worker => left' = left
  PROVE  /\ Fair(p) /\ Counts' /\ p \notin waiting'
         /\ \A k \in {"tx", "stmt"} : <<p, k>> \in inUse' <=> <<p, k>> \in inUse \ conns
<1>1. /\ inUse' \subseteq Connections /\ IsFiniteSet(inUse')
      /\ Cardinality(inUse') <= MaxOpen
      /\ waiting' \subseteq queue
      /\ waiting' # {} => Cardinality(inUse') = MaxOpen
      /\ inUse' = (inUse \ conns) \cup {Wants(q) : q \in queue \ waiting'}
  BY GivenBack
<1>2. waiting \subseteq Handlers
  BY DEF Inv, PoolOK
<1>3. \A q : Wants(q) \in {<<q, "tx">>, <<q, "stmt">>}
  BY DEF Wants
<1>4. Counts' /\ p \notin waiting'
  BY <1>1, <1>2 DEF Counts
<1>5. \A q \in Handlers \ {p}, k \in {"tx", "stmt"} : <<q, k>> \in inUse' <=>
            <<q, k>> \in inUse \/ (q \in waiting \ waiting' /\ Wants(q) = <<q, k>>)
  BY <1>1, <1>3
<1>6. \A k \in {"tx", "stmt"} : <<p, k>> \in inUse' <=> <<p, k>> \in inUse \ conns
  BY <1>1, <1>3
<1>7. Fair(p)
  BY <1>1, <1>5 DEF Fair
<1>. QED
  BY <1>4, <1>6, <1>7

\* Whoever has its statement's connection is not in the queue.
LEMMA NotQueued ==
  ASSUME Inv, NEW p \in Handlers,
         \/ ~Running(p)
         \/ <<p, "stmt">> \in inUse
         \/ Doing(p, "begin") /\ InTx(p)
         \/ Doing(p, "poll") \/ Doing(p, "post")
         \/ InTx(p) /\ \E r \in Rows : Doing(p, r)
  PROVE  p \notin waiting
<1> SUFFICES ASSUME NeedsConn(p) PROVE FALSE
  BY DEF Inv, PoolOK
<1>1. Running(p) /\ Wants(p) \notin inUse
  BY DEF NeedsConn
<1>2. Doing(p, "begin") \/ Doing(p, "read") \/ (~InTx(p) /\ \E r \in Rows : Doing(p, r))
  BY DEF NeedsConn, Doing
<1>3. Wants(p) = IF Doing(p, "begin") THEN <<p, "tx">> ELSE <<p, "stmt">>
  BY DEF Wants
<1>4. HandlerOK(p)
  BY DEF Inv
<1>. QED
  BY <1>1, <1>2, <1>3, <1>4 DEF Doing, Rows, InTx, HandlerOK

LEMMA StartInv == ASSUME Inv, NEW p \in Handlers, Start(p) PROVE Inv'
<1>1. PICK s \in Scripts(p) : script' = [script EXCEPT ![p] = s]
  BY DEF Start
<1>2. script[p] = Idle /\ UNCHANGED <<at, inUse, waiting, rowOf, left>> /\ HandlerOK(p)
  BY DEF Start, Inv
<1>3. ~Running(p) /\ at[p] = 1 /\ ~InTx(p) /\ <<p, "stmt">> \notin inUse
  BY <1>2 DEF HandlerOK, Running, Doing
<1>4. p \notin waiting
  BY <1>3, NotQueued
<1>5. /\ script' = [q \in Handlers |-> script'[q]] /\ script'[p] = s
      /\ \A q \in Handlers \ {p} : script'[q] = script[q]
  BY <1>1 DEF Inv
<1>6. Len(s) >= 1
  <2>1. CASE p \in Callers
    BY <2>1, OtherScripts, CallerScripts DEF Callers, CallerScript
  <2>2. CASE s = <<"agent">> \/ s = <<"deliveries">>
    BY <2>2
  <2>3. CASE s = <<"begin", "poll", "read", "post", "commit">>
    BY <2>3
  <2>. QED
    BY <2>1, <2>2, <2>3, OtherScripts DEF Handlers, Callers
<1>7. HandlerOK(p)'
  <2>1. Len(s) \in Nat
    <3>1. CASE p \in Callers
      BY <3>1, OtherScripts, CallerScripts DEF Callers, CallerScript
    <3>2. CASE s = <<"agent">> \/ s = <<"deliveries">>
      BY <3>2
    <3>3. CASE s = <<"begin", "poll", "read", "post", "commit">>
      BY <3>3
    <3>. QED
      BY <3>1, <3>2, <3>3, OtherScripts DEF Handlers, Callers
  <2>. QED
    BY <1>2, <1>3, <1>5, <1>6, <2>1 DEF HandlerOK, InTx
<1>8. Fair(p)
  BY <1>2, <1>5 DEF Fair
<1>9. Counts' /\ RowsOK' /\ at' = [q \in Handlers |-> at'[q]] /\ left' \in 0..MaxBatch
  BY <1>2, SamePool DEF Inv, RowsOK, Free, InTx
<1>. QED
  BY <1>2, <1>4, <1>5, <1>7, <1>8, <1>9, StepOK

LEMMA AskInv == ASSUME Inv, NEW p \in Handlers, Ask(p) PROVE Inv'
<1>1. /\ NeedsConn(p) /\ p \notin waiting /\ HandlerOK(p)
      /\ UNCHANGED <<script, at, rowOf, left>>
  BY DEF Ask, Inv
<1>2. /\ inUse \subseteq Connections /\ IsFiniteSet(inUse) /\ Cardinality(inUse) <= MaxOpen
      /\ waiting \subseteq Handlers /\ (waiting # {} => Cardinality(inUse) = MaxOpen)
      /\ Cardinality(inUse) \in Nat
  BY FS_CardinalityType DEF Inv, PoolOK
<1>3. /\ script' = [q \in Handlers |-> script'[q]] /\ at' = [q \in Handlers |-> at'[q]]
      /\ left' \in 0..MaxBatch
  BY <1>1 DEF Inv
<1>4. /\ Running(p) /\ Wants(p) \notin inUse
      /\ Doing(p, "begin") \/ Doing(p, "read") \/ (~InTx(p) /\ \E r \in Rows : Doing(p, r))
  BY <1>1 DEF NeedsConn, Doing
<1>5. \A x : Doing(p, x)' <=> Doing(p, x)
  BY <1>1 DEF Doing, Running
<1>6. CASE Cardinality(inUse) < MaxOpen
  <2>1. inUse' = inUse \cup {Wants(p)} /\ waiting' = waiting /\ waiting = {}
    BY <1>2, <1>6 DEF Ask
  <2>2. /\ IsFiniteSet(inUse') /\ Cardinality(inUse') = Cardinality(inUse) + 1
    BY <1>2, <1>4, <2>1, FS_AddElement
  <2>3. Wants(p) \in {<<p, "tx">>, <<p, "stmt">>} /\ inUse' \subseteq Connections
    BY <1>2, <2>1 DEF Wants, Connections
  <2>4. Counts'
    BY <1>2, <1>6, <2>1, <2>2, <2>3 DEF Counts
  <2>5. Fair(p)
    BY <1>1, <2>1, <2>3 DEF Fair
  <2>6. HandlerOK(p)'
    <3>1. CASE Doing(p, "begin")
      <4>1. inUse' = inUse \cup {<<p, "tx">>}
        BY <2>1, <3>1 DEF Wants
      <4>2. (p = Worker /\ at[p] = 1) \/ (p \in Callers /\ at[p] = 2)
        BY <1>4, <3>1, Places
      <4>3. <<p, "stmt">> \notin inUse'
        BY <1>1, <3>1, <4>1 DEF HandlerOK, Doing, Rows
      <4>. QED
        BY <1>1, <1>4, <4>1, <4>2, <4>3 DEF HandlerOK, InTx, Running
    <3>2. CASE ~Doing(p, "begin")
      <4>1. inUse' = inUse \cup {<<p, "stmt">>}
        BY <2>1, <3>2 DEF Wants
      <4>2. InTx(p)' <=> InTx(p)
        BY <4>1 DEF InTx
      <4>. QED
        BY <1>1, <1>4, <1>5, <3>2, <4>2 DEF HandlerOK, Running
    <3>. QED
      BY <3>1, <3>2
  <2>7. RowsOK'
    BY <1>1, <2>1 DEF Inv, RowsOK, Free, InTx
  <2>. QED
    BY <1>1, <1>3, <2>1, <2>4, <2>5, <2>6, <2>7, StepOK
<1>7. CASE ~(Cardinality(inUse) < MaxOpen)
  <2>1. waiting' = waiting \cup {p} /\ inUse' = inUse
    BY <1>7 DEF Ask
  <2>2. Cardinality(inUse) = MaxOpen
    BY <1>2, <1>7
  <2>3. Counts' /\ Fair(p) /\ RowsOK'
    BY <1>1, <1>2, <2>1, <2>2 DEF Counts, Fair, Inv, RowsOK, Free, InTx
  <2>4. HandlerOK(p)' /\ NeedsConn(p)'
    BY <1>1, <1>5, <2>1 DEF HandlerOK, NeedsConn, Running, Doing, InTx, Wants
  <2>. QED
    BY <1>3, <2>3, <2>4, StepOK
<1>. QED
  BY <1>6, <1>7

\* The next statement of a script, which is not the last.
LEMMA Advances ==
  ASSUME Inv, NEW p \in Handlers, Running(p), Advance(p), at[p] < Len(script[p])
  PROVE  /\ script' = script /\ at' = [at EXCEPT ![p] = at[p] + 1]
         /\ at'[p] = at[p] + 1 /\ Running(p)' /\ at'[p] \in 1..Len(script'[p])
         /\ at' = [q \in Handlers |-> at'[q]] /\ script' = [q \in Handlers |-> script'[q]]
         /\ \A q \in Handlers \ {p} : script'[q] = script[q] /\ at'[q] = at[q]
<1>1. at[p] \in 1..Len(script[p])
  BY DEF Inv, HandlerOK
<1>2. Len(script[p]) \in Nat
  <2>1. CASE p \in Callers
    BY <2>1, Places DEF CallerScript
  <2>2. CASE p \notin Callers
    <3>1. script[p] \in Scripts(p)
      BY DEF Inv, HandlerOK, Running
    <3>2. CASE script[p] = <<"agent">> \/ script[p] = <<"deliveries">>
      BY <3>2
    <3>3. CASE script[p] = <<"begin", "poll", "read", "post", "commit">>
      BY <3>3
    <3>. QED
      BY <2>2, <3>1, <3>2, <3>3, OtherScripts DEF Handlers, Callers
  <2>. QED
    BY <2>1, <2>2
<1>3. at[p] # Len(script[p])
  BY <1>1, <1>2
<1>4. script' = script /\ at' = [at EXCEPT ![p] = at[p] + 1]
  BY <1>3 DEF Advance
<1>5. /\ at'[p] = at[p] + 1 /\ at' = [q \in Handlers |-> at'[q]]
      /\ script' = [q \in Handlers |-> script'[q]]
      /\ \A q \in Handlers \ {p} : script'[q] = script[q] /\ at'[q] = at[q]
  BY <1>4 DEF Inv
<1>. QED
  BY <1>1, <1>2, <1>4, <1>5 DEF Running

\* At most one statement is next.
LEMMA OneStatement ==
  ASSUME NEW p, NEW x, NEW y, Doing(p, x), Doing(p, y)
  PROVE  x = y /\ Running(p)
BY DEF Doing

LEMMA BeginInv == ASSUME Inv, NEW p \in Handlers, Begin(p) PROVE Inv'
<1>1. /\ Doing(p, "begin") /\ InTx(p) /\ Advance(p) /\ Running(p) /\ HandlerOK(p)
      /\ UNCHANGED <<inUse, waiting, rowOf, left>>
  BY DEF Begin, Doing, Inv
<1>2. (p = Worker /\ at[p] = 1) \/ (p \in Callers /\ at[p] = 2)
  BY <1>1, Places
<1>3. at[p] < Len(script[p])
  <2>1. CASE p = Worker /\ at[p] = 1
    <3>1. Len(script[p]) = 5
      BY <1>1, <2>1, Places
    <3>. QED
      BY <2>1, <3>1
  <2>2. CASE p \in Callers /\ at[p] = 2
    <3>1. Len(script[p]) \in 5..7
      BY <1>1, <2>2, Places DEF CallerScript
    <3>. QED
      BY <2>2, <3>1
  <2>. QED
    BY <1>2, <2>1, <2>2
<1>4. /\ script' = script
      /\ at'[p] = at[p] + 1 /\ Running(p)' /\ at'[p] \in 1..Len(script'[p])
      /\ at' = [q \in Handlers |-> at'[q]] /\ script' = [q \in Handlers |-> script'[q]]
      /\ \A q \in Handlers \ {p} : script'[q] = script[q] /\ at'[q] = at[q]
  BY <1>1, <1>3, Advances
<1>5. <<p, "stmt">> \notin inUse /\ p \notin waiting
  BY <1>1, NotQueued DEF HandlerOK, Doing, Rows
<1>6. p = Worker => p \notin Callers
  BY KindsApart DEF Callers
<1>7. HandlerOK(p)'
  BY <1>1, <1>2, <1>4, <1>5, <1>6 DEF HandlerOK, InTx
<1>8. Fair(p) /\ Counts' /\ RowsOK' /\ left' \in 0..MaxBatch
  BY <1>1, <1>4, SamePool DEF Fair, Inv, RowsOK, Free, InTx
<1>. QED
  BY <1>1, <1>4, <1>5, <1>7, <1>8, StepOK

LEMMA LockRowInv ==
  ASSUME Inv, NEW p \in Handlers, NEW r \in Rows, LockRow(p, r) PROVE Inv'
<1>1. /\ Doing(p, r) /\ InTx(p) /\ Advance(p) /\ Running(p) /\ HandlerOK(p)
      /\ rowOf' = [rowOf EXCEPT ![r] = p] /\ UNCHANGED <<inUse, waiting, left>>
  BY DEF LockRow, Doing, Inv
<1>2. /\ p # Worker /\ p \in Callers /\ at[p] < Len(script[p])
      /\ r = "agent" => p \in Spenders
      /\ r # "deliveries"
  BY <1>1, Places, KindsApart DEF HandlerOK, Callers
<1>3. /\ script' = script
      /\ at'[p] = at[p] + 1 /\ Running(p)' /\ at'[p] \in 1..Len(script'[p])
      /\ at' = [q \in Handlers |-> at'[q]] /\ script' = [q \in Handlers |-> script'[q]]
      /\ \A q \in Handlers \ {p} : script'[q] = script[q] /\ at'[q] = at[q]
  BY <1>1, <1>2, Advances
<1>4. <<p, "stmt">> \notin inUse /\ p \notin waiting
  BY <1>1, NotQueued DEF HandlerOK, Doing, Rows
<1>5. at[p] >= 2 /\ at[p] \in 1..Len(script[p])
  BY <1>1, <1>2 DEF HandlerOK
<1>6. HandlerOK(p)'
  BY <1>1, <1>2, <1>3, <1>4, <1>5 DEF HandlerOK, InTx
<1>7. Fair(p) /\ Counts' /\ left' \in 0..MaxBatch
  BY <1>1, <1>3, SamePool DEF Fair, Inv
<1>8. RowsOK'
  BY <1>1, <1>2 DEF Inv, RowsOK, Free, InTx
<1>. QED
  BY <1>1, <1>3, <1>4, <1>6, <1>7, <1>8, StepOK

LEMMA PoolReadInv == ASSUME Inv, NEW p \in Handlers, PoolRead(p) PROVE Inv'
<1>1. /\ Doing(p, "read") /\ <<p, "stmt">> \in inUse /\ Advance(p) /\ Running(p) /\ HandlerOK(p)
      /\ GiveBack({<<p, "stmt">>}, waiting) /\ UNCHANGED <<rowOf, left>>
  BY DEF PoolRead, Doing, Inv
<1>2. at[p] < Len(script[p]) /\ (p = Worker => at[p] = 3)
  BY <1>1, Places
<1>3. /\ script' = script
      /\ at'[p] = at[p] + 1 /\ Running(p)' /\ at'[p] \in 1..Len(script'[p])
      /\ at' = [q \in Handlers |-> at'[q]] /\ script' = [q \in Handlers |-> script'[q]]
      /\ \A q \in Handlers \ {p} : script'[q] = script[q] /\ at'[q] = at[q]
  BY <1>1, <1>2, Advances
<1>4. p \notin waiting /\ waiting = waiting \ {p}
  BY <1>1, NotQueued
<1>5. /\ Fair(p) /\ Counts' /\ p \notin waiting'
      /\ \A k \in {"tx", "stmt"} :
           <<p, k>> \in inUse' <=> <<p, k>> \in inUse \ {<<p, "stmt">>}
  <2> DEFINE conns == {<<p, "stmt">>}
  <2>1. conns \in SUBSET (inUse \cap {<<p, "tx">>, <<p, "stmt">>})
    BY <1>1
  <2>. QED
    BY <1>1, <1>3, <1>4, <2>1, GiveBackFair
<1>6. (InTx(p)' <=> InTx(p)) /\ <<p, "stmt">> \notin inUse'
  BY <1>5 DEF InTx
<1>7. at[p] \in 1..Len(script[p])
  BY <1>1 DEF HandlerOK
<1>8. HandlerOK(p)'
  BY <1>1, <1>2, <1>3, <1>6, <1>7 DEF HandlerOK
<1>9. RowsOK'
  <2>1. InTx(p)' \/ \A r \in Rows : rowOf'[r] # p
    BY <1>1, <1>6, KindsApart DEF Inv, RowsOK, Free
  <2>2. rowOf' \in [Rows -> Handlers \cup {Nobody}] /\ \A r \in Rows : rowOf'[r] \in {rowOf[r], Nobody}
    BY <1>1 DEF Inv, RowsOK
  <2>. QED
    BY <1>5, <2>1, <2>2, RowsKept
<1>10. left' \in 0..MaxBatch
  BY <1>1 DEF Inv
<1>. QED
  BY <1>3, <1>5, <1>8, <1>9, <1>10, StepOK

\* The end of a call: p is back where it began, with nothing.
LEMMA EndedOK ==
  ASSUME Inv, NEW p \in Handlers, script' = Ended(p), at' = [at EXCEPT ![p] = 1],
         ~InTx(p)', <<p, "stmt">> \notin inUse'
  PROVE  /\ HandlerOK(p)'
         /\ at' = [q \in Handlers |-> at'[q]] /\ script' = [q \in Handlers |-> script'[q]]
         /\ \A q \in Handlers \ {p} : script'[q] = script[q] /\ at'[q] = at[q]
<1>1. script'[p] \in {Idle, Over} /\ at'[p] = 1
  BY DEF Inv, Ended
<1>2. ~Running(p)'
  BY <1>1 DEF Running
<1>3. HandlerOK(p)'
  BY <1>1, <1>2 DEF HandlerOK
<1>. QED
  BY <1>3 DEF Inv, Ended

LEMMA ReturnInv == ASSUME Inv, NEW p \in Handlers, Return(p) PROVE Inv'
<1> DEFINE own == inUse \cap {<<p, "tx">>, <<p, "stmt">>}
<1>1. /\ script' = Ended(p) /\ at' = [at EXCEPT ![p] = 1]
      /\ left' = IF p = Worker THEN 0 ELSE left
      /\ GiveBack(own, waiting \ {p})
      /\ rowOf' = [r \in Rows |-> IF rowOf[r] = p THEN Nobody ELSE rowOf[r]]
  BY DEF Return
<1>2. \A q \in Handlers \ {p} : script'[q] = script[q] /\ at'[q] = at[q]
  BY <1>1 DEF Inv, Ended
<1>3. own \in SUBSET (inUse \cap {<<p, "tx">>, <<p, "stmt">>})
  OBVIOUS
<1> HIDE DEF own
<1>4. /\ Fair(p) /\ Counts' /\ p \notin waiting'
      /\ \A k \in {"tx", "stmt"} : <<p, k>> \in inUse' <=> <<p, k>> \in inUse \ own
  BY <1>1, <1>2, <1>3, GiveBackFair
<1>5. ~InTx(p)' /\ <<p, "stmt">> \notin inUse'
  BY <1>4 DEF InTx, own
<1>6. /\ HandlerOK(p)'
      /\ at' = [q \in Handlers |-> at'[q]] /\ script' = [q \in Handlers |-> script'[q]]
  BY <1>1, <1>5, EndedOK
<1>7. RowsOK'
  <2>1. rowOf \in [Rows -> Handlers \cup {Nobody}] /\ p # Nobody
    BY KindsApart DEF Inv, RowsOK
  <2>2. /\ rowOf' \in [Rows -> Handlers \cup {Nobody}]
        /\ \A r \in Rows : rowOf'[r] \in {rowOf[r], Nobody} /\ rowOf'[r] # p
    BY <1>1, <2>1
  <2>. QED
    BY <1>4, <2>2, RowsKept
<1>8. left' \in 0..MaxBatch
  BY <1>1 DEF Inv
<1>. QED
  BY <1>4, <1>6, <1>7, <1>8, StepOK

LEMMA ChangeRowInv ==
  ASSUME Inv, NEW p \in Handlers, NEW r \in Rows, ChangeRow(p, r) PROVE Inv'
<1>1. /\ Doing(p, r) /\ <<p, "stmt">> \in inUse /\ Advance(p) /\ Running(p) /\ HandlerOK(p)
      /\ GiveBack({<<p, "stmt">>}, waiting) /\ UNCHANGED <<rowOf, left>>
  BY DEF ChangeRow, Doing, Inv
<1>2. /\ p # Worker /\ ~InTx(p)
      /\ p \in Callers => at[p] < Len(script[p])
      /\ p \notin Callers => at[p] = 1 /\ Len(script[p]) = 1
  BY <1>1, Places DEF HandlerOK, Doing, Rows
<1>3. p \notin waiting /\ waiting = waiting \ {p}
  BY <1>1, NotQueued
<1>4. {<<p, "stmt">>} \in SUBSET (inUse \cap {<<p, "tx">>, <<p, "stmt">>})
  BY <1>1
<1>5. ASSUME \A q \in Handlers \ {p} : script'[q] = script[q] /\ at'[q] = at[q]
      PROVE  /\ Fair(p) /\ Counts' /\ p \notin waiting'
             /\ ~InTx(p)' /\ <<p, "stmt">> \notin inUse'
  <2>1. /\ Fair(p) /\ Counts' /\ p \notin waiting'
        /\ \A k \in {"tx", "stmt"} :
             <<p, k>> \in inUse' <=> <<p, k>> \in inUse \ {<<p, "stmt">>}
    BY <1>1, <1>3, <1>4, <1>5, GiveBackFair
  <2>. QED
    BY <1>2, <2>1 DEF InTx
<1>6. /\ HandlerOK(p)'
      /\ at' = [q \in Handlers |-> at'[q]] /\ script' = [q \in Handlers |-> script'[q]]
      /\ \A q \in Handlers \ {p} : script'[q] = script[q] /\ at'[q] = at[q]
  <2>1. CASE p \in Callers
    <3>1. /\ script' = script
          /\ at'[p] = at[p] + 1 /\ Running(p)' /\ at'[p] \in 1..Len(script'[p])
          /\ at' = [q \in Handlers |-> at'[q]] /\ script' = [q \in Handlers |-> script'[q]]
          /\ \A q \in Handlers \ {p} : script'[q] = script[q] /\ at'[q] = at[q]
      BY <1>1, <1>2, <2>1, Advances
    <3>2. HandlerOK(p)'
      BY <1>1, <1>2, <1>5, <3>1 DEF HandlerOK
    <3>. QED
      BY <3>1, <3>2
  <2>2. CASE p \notin Callers
    <3>1. script' = Ended(p) /\ at' = [at EXCEPT ![p] = 1]
      BY <1>1, <1>2, <2>2 DEF Advance
    <3>2. \A q \in Handlers \ {p} : script'[q] = script[q] /\ at'[q] = at[q]
      BY <3>1 DEF Inv, Ended
    <3>. QED
      BY <1>5, <3>1, <3>2, EndedOK
  <2>. QED
    BY <2>1, <2>2
<1>7. RowsOK'
  <2>1. \A o \in Rows : rowOf'[o] # p
    BY <1>1, <1>2, KindsApart DEF Inv, RowsOK, Free
  <2>2. rowOf' \in [Rows -> Handlers \cup {Nobody}] /\ \A o \in Rows : rowOf'[o] \in {rowOf[o], Nobody}
    BY <1>1 DEF Inv, RowsOK
  <2>. QED
    BY <1>5, <1>6, <2>1, <2>2, RowsKept
<1>8. left' \in 0..MaxBatch
  BY <1>1 DEF Inv
<1>. QED
  BY <1>5, <1>6, <1>7, <1>8, StepOK

\* A step of the worker in its batch, which it leaves only for COMMIT.
LEMMA WorkerMoves ==
  ASSUME Inv, NEW p \in Handlers, p = Worker, Running(p), InTx(p)', <<p, "stmt">> \notin inUse',
         script' = script, NEW i \in {3, 5}, at' = [at EXCEPT ![p] = i], i = 3 => left' > 0
  PROVE  /\ HandlerOK(p)'
         /\ at' = [q \in Handlers |-> at'[q]] /\ script' = [q \in Handlers |-> script'[q]]
         /\ \A q \in Handlers \ {p} : script'[q] = script[q] /\ at'[q] = at[q]
<1>1. at'[p] = i /\ Running(p)' /\ Len(script'[p]) = 5
  BY Places DEF Inv, Running
<1>2. script[p] \in Scripts(p) \cup {Idle, Over}
  BY DEF Inv, HandlerOK
<1>3. HandlerOK(p)'
  BY <1>1, <1>2 DEF HandlerOK
<1>. QED
  BY <1>3 DEF Inv

LEMMA PollInv == ASSUME Inv, NEW p \in Handlers, Poll(p) PROVE Inv'
<1>1. /\ Doing(p, "poll") /\ Running(p) /\ HandlerOK(p) /\ UNCHANGED <<inUse, waiting>>
  BY DEF Poll, Doing, Inv
<1>2. p = Worker /\ at[p] = 2 /\ Len(script[p]) = 5
  BY <1>1, Places
<1>3. InTx(p) /\ <<p, "stmt">> \notin inUse /\ p \notin waiting
  BY <1>1, <1>2, NotQueued DEF HandlerOK, Doing, Rows
<1>4. InTx(p)' /\ <<p, "stmt">> \notin inUse' /\ p \notin waiting'
  BY <1>1, <1>3 DEF InTx
<1>5. CASE /\ Free("deliveries") /\ left' \in 1..MaxBatch
           /\ rowOf' = [rowOf EXCEPT !["deliveries"] = p] /\ Advance(p)
  <2>1. script' = script /\ at' = [at EXCEPT ![p] = at[p] + 1]
    <3>1. at[p] < Len(script[p])
      BY <1>2
    <3>. QED
      BY <1>1, <1>5, <3>1, Advances
  <2>2. at' = [at EXCEPT ![p] = 3]
    BY <1>2, <2>1
  <2>3. left' > 0 /\ left' \in 0..MaxBatch
    BY <1>5
  <2>4. /\ HandlerOK(p)'
        /\ at' = [q \in Handlers |-> at'[q]] /\ script' = [q \in Handlers |-> script'[q]]
        /\ \A q \in Handlers \ {p} : script'[q] = script[q] /\ at'[q] = at[q]
    BY <1>1, <1>2, <1>4, <2>1, <2>2, <2>3, WorkerMoves
  <2>5. Fair(p) /\ Counts'
    BY <1>1, <1>2, <2>4, SamePool DEF Fair
  <2>6. RowsOK'
    BY <1>1, <1>2, <1>3, <1>5 DEF Inv, RowsOK, Free, InTx, Rows
  <2>. QED
    BY <1>4, <2>3, <2>4, <2>5, <2>6, StepOK
<1>6. CASE /\ at' = [at EXCEPT ![p] = Len(script[p])]
           /\ UNCHANGED <<script, left, rowOf>>
  <2>1. script' = script /\ at' = [at EXCEPT ![p] = 5]
    BY <1>2, <1>6
  <2> DEFINE i == 5
  <2>2. /\ HandlerOK(p)'
        /\ at' = [q \in Handlers |-> at'[q]] /\ script' = [q \in Handlers |-> script'[q]]
        /\ \A q \in Handlers \ {p} : script'[q] = script[q] /\ at'[q] = at[q]
    <3>1. i \in {3, 5} /\ i # 3 /\ at' = [at EXCEPT ![p] = i]
      BY <2>1
    <3> HIDE DEF i
    <3>. QED
      BY <1>1, <1>2, <1>4, <2>1, <3>1, WorkerMoves
  <2>3. Fair(p) /\ Counts' /\ RowsOK' /\ left' \in 0..MaxBatch
    BY <1>1, <1>2, <1>6, <2>2, SamePool DEF Fair, Inv, RowsOK, Free, InTx
  <2>. QED
    BY <1>4, <2>2, <2>3, StepOK
<1>. QED
  BY <1>5, <1>6 DEF Poll

\* On to the next row: there is one, and afterwards one less.
LEMMA NextRowMoves ==
  ASSUME Inv, NEW p \in Handlers, p = Worker, Running(p), at[p] \in 3..4, NextRow(p)
  PROVE  /\ left' \in 0..MaxBatch
         /\ \E i \in {3, 5} : at' = [at EXCEPT ![p] = i] /\ (i = 3 => left' > 0)
<1>1. left > 0 /\ left \in 0..MaxBatch /\ Len(script[p]) = 5
  BY Places DEF Inv, HandlerOK
<1>2. left' = left - 1 /\ at' = [at EXCEPT ![p] = IF left > 1 THEN 3 ELSE 5]
  BY <1>1 DEF NextRow
<1>3. CASE left > 1
  <2>1. at' = [at EXCEPT ![p] = 3]
    BY <1>2, <1>3
  <2>2. left' > 0 /\ left' \in 0..MaxBatch
    BY <1>1, <1>2, <1>3
  <2>. QED
    BY <2>1, <2>2
<1>4. CASE ~(left > 1)
  <2>1. at' = [at EXCEPT ![p] = 5]
    BY <1>2, <1>4
  <2>2. left' \in 0..MaxBatch
    BY <1>1, <1>2
  <2>. QED
    BY <2>1, <2>2
<1>. QED
  BY <1>3, <1>4

LEMMA SkipRowInv == ASSUME Inv, NEW p \in Handlers, SkipRow(p) PROVE Inv'
<1>1. /\ p = Worker /\ Doing(p, "read") /\ <<p, "stmt">> \in inUse /\ NextRow(p)
      /\ Running(p) /\ HandlerOK(p)
      /\ GiveBack({<<p, "stmt">>}, waiting) /\ UNCHANGED <<script, rowOf>>
  BY DEF SkipRow, Doing, Inv
<1>2. at[p] = 3 /\ InTx(p)
  BY <1>1, Places DEF HandlerOK
<1>3. PICK i \in {3, 5} : at' = [at EXCEPT ![p] = i] /\ (i = 3 => left' > 0)
  BY <1>1, <1>2, NextRowMoves
<1>4. left' \in 0..MaxBatch
  BY <1>1, <1>2, NextRowMoves
<1>5. \A q \in Handlers \ {p} : script'[q] = script[q] /\ at'[q] = at[q]
  BY <1>1, <1>3 DEF Inv
<1>6. p \notin waiting /\ waiting = waiting \ {p}
  BY <1>1, NotQueued
<1>7. {<<p, "stmt">>} \in SUBSET (inUse \cap {<<p, "tx">>, <<p, "stmt">>})
  BY <1>1
<1>8. /\ Fair(p) /\ Counts' /\ p \notin waiting'
      /\ \A k \in {"tx", "stmt"} :
           <<p, k>> \in inUse' <=> <<p, k>> \in inUse \ {<<p, "stmt">>}
  BY <1>1, <1>5, <1>6, <1>7, GiveBackFair
<1>9. InTx(p)' /\ <<p, "stmt">> \notin inUse'
  BY <1>2, <1>8 DEF InTx
<1>10. /\ HandlerOK(p)'
       /\ at' = [q \in Handlers |-> at'[q]] /\ script' = [q \in Handlers |-> script'[q]]
  BY <1>1, <1>3, <1>9, WorkerMoves
<1>11. RowsOK'
  <2>1. rowOf' \in [Rows -> Handlers \cup {Nobody}] /\ \A r \in Rows : rowOf'[r] \in {rowOf[r], Nobody}
    BY <1>1 DEF Inv, RowsOK
  <2>. QED
    BY <1>8, <1>9, <2>1, RowsKept
<1>. QED
  BY <1>4, <1>8, <1>10, <1>11, StepOK

LEMMA PostInv == ASSUME Inv, NEW p \in Handlers, Post(p) PROVE Inv'
<1>1. /\ Doing(p, "post") /\ NextRow(p) /\ Running(p) /\ HandlerOK(p)
      /\ UNCHANGED <<script, inUse, waiting, rowOf>>
  BY DEF Post, Doing, Inv
<1>2. p = Worker /\ at[p] = 4
  BY <1>1, Places
<1>3. InTx(p) /\ <<p, "stmt">> \notin inUse /\ p \notin waiting
  BY <1>1, <1>2, NotQueued DEF HandlerOK, Doing, Rows
<1>4. PICK i \in {3, 5} : at' = [at EXCEPT ![p] = i] /\ (i = 3 => left' > 0)
  BY <1>1, <1>2, NextRowMoves
<1>5. left' \in 0..MaxBatch
  BY <1>1, <1>2, NextRowMoves
<1>6. InTx(p)' /\ <<p, "stmt">> \notin inUse' /\ p \notin waiting'
  BY <1>1, <1>3 DEF InTx
<1>7. /\ HandlerOK(p)'
      /\ at' = [q \in Handlers |-> at'[q]] /\ script' = [q \in Handlers |-> script'[q]]
      /\ \A q \in Handlers \ {p} : script'[q] = script[q] /\ at'[q] = at[q]
  BY <1>1, <1>2, <1>4, <1>6, WorkerMoves
<1>8. Fair(p) /\ Counts' /\ RowsOK'
  BY <1>1, <1>2, <1>7, SamePool DEF Fair, Inv, RowsOK, Free, InTx
<1>. QED
  BY <1>5, <1>6, <1>7, <1>8, StepOK

LEMMA NextInv == ASSUME Inv, [Next]_vars PROVE Inv'
<1>1. CASE UNCHANGED vars
  BY <1>1 DEF vars, Inv, HandlerOK, PoolOK, RowsOK, Running, Doing, InTx, NeedsConn, Wants, Free
<1>2. ASSUME NEW p \in Handlers, Start(p) \/ Step(p) \/ TimeOut(p) \/ Leave(p)
      PROVE  Inv'
  <2>1. CASE Start(p)
    BY <1>2, <2>1, StartInv
  <2>2. CASE Ask(p)
    BY <1>2, <2>2, AskInv
  <2>3. CASE Begin(p)
    BY <1>2, <2>3, BeginInv
  <2>4. CASE PoolRead(p)
    BY <1>2, <2>4, PoolReadInv
  <2>5. CASE Lock(p)
    BY <1>2, <2>5, LockRowInv DEF Lock
  <2>6. CASE Change(p)
    BY <1>2, <2>6, ChangeRowInv DEF Change
  <2>7. CASE Poll(p)
    BY <1>2, <2>7, PollInv
  <2>8. CASE SkipRow(p)
    BY <1>2, <2>8, SkipRowInv
  <2>9. CASE Post(p)
    BY <1>2, <2>9, PostInv
  <2>10. CASE Commit(p) \/ TimeOut(p) \/ Leave(p)
    BY <1>2, <2>10, ReturnInv DEF Commit, TimeOut, Leave
  <2>. QED
    BY <1>2, <2>1, <2>2, <2>3, <2>4, <2>5, <2>6, <2>7, <2>8, <2>9, <2>10 DEF Step
<1>. QED
  BY <1>1, <1>2 DEF Next

\* In every reachable state handlers hold what the place in their script says.
THEOREM Invariance == Spec => []Inv
<1>. QED
  BY InitInv, NextInv, PTL DEF Spec

LEMMA InvTypes == ASSUME Inv PROVE TypeOK
<1>1. ASSUME NEW p \in Handlers PROVE script[p] \in Scripts(p) \cup {Idle, Over} /\ at[p] \in 1..7
  <2>1. HandlerOK(p)
    BY DEF Inv
  <2>2. CASE Running(p)
    <3>1. at[p] \in 1..Len(script[p])
      BY <2>1, <2>2 DEF HandlerOK
    <3>2. CASE p \in Callers
      <4>1. Len(script[p]) \in 5..7
        BY <2>2, <3>2, Places DEF CallerScript
      <4>2. at[p] \in 1..7
        <5> DEFINE n == Len(script[p])
        <5>1. n \in 5..7 /\ at[p] \in 1..n
          BY <3>1, <4>1
        <5> HIDE DEF n
        <5>. QED
          BY <5>1
      <4>. QED
        BY <2>1, <4>2 DEF HandlerOK
    <3>3. CASE p = Worker
      <4>1. Len(script[p]) = 5
        BY <2>2, <3>3, Places
      <4>. QED
        BY <2>1, <3>1, <4>1 DEF HandlerOK
    <3>4. CASE p \in Owners \cup Deleters
      <4>1. script[p] = <<"agent">> \/ script[p] = <<"deliveries">>
        BY <2>1, <2>2, <3>4, OtherScripts DEF HandlerOK, Running
      <4>2. Len(script[p]) = 1
        BY <4>1
      <4>. QED
        BY <2>1, <3>1, <4>2 DEF HandlerOK
    <3>. QED
      BY <3>2, <3>3, <3>4 DEF Handlers, Callers
  <2>3. CASE ~Running(p)
    BY <2>1, <2>3 DEF HandlerOK
  <2>. QED
    BY <2>2, <2>3
<1>. QED
  BY <1>1 DEF TypeOK, Inv, PoolOK, RowsOK

\* Every variable of the pool and of its handlers keeps its type.
THEOREM TypeCorrect == Spec => []TypeOK
<1>. QED
  BY Invariance, InvTypes, PTL

LEMMA InvSound == ASSUME Inv PROVE PoolSound
<1>1. \A p \in Handlers : InTx(p) \/ <<p, "stmt">> \in inUse => Running(p)
  BY DEF Inv, HandlerOK, Doing
<1>. QED
  BY <1>1 DEF Inv, PoolOK, RowsOK, PoolSound, Holders

\* However handlers return, time out or hang up, each gives back what it held: the
\* pool never exceeds its limit and no row stays locked (PoolSound).
THEOREM Sound == Spec => []PoolSound
<1>. QED
  BY Invariance, InvSound, PTL

LEMMA NobodyTimed ==
  ASSUME Inv, Deadlocked, \A p \in Holders : ~Timed(p)
  PROVE  Stuck
<1>1. /\ inUse \subseteq Connections /\ IsFiniteSet(inUse) /\ Cardinality(inUse) = MaxOpen
      /\ \A p \in Holders : Blocked(p) /\ Running(p) /\ HandlerOK(p)
  BY InvSound DEF Inv, PoolOK, Deadlocked, PoolSound, Holders
<1>2. ASSUME NEW p \in Handlers, p \in Callers, InTx(p) PROVE FALSE
  <2>1. Running(p) /\ at[p] >= 2 /\ at[p] \in 1..Len(script[p]) /\ p \in Holders
    BY <1>1, <1>2, KindsApart DEF HandlerOK, Holders, Callers
  <2>2. script[p][2] = "begin" /\ 2 \in 1..at[p]
    BY <1>2, <2>1, Places DEF CallerScript
  <2>. QED
    BY <1>2, <2>1, <2>2 DEF Timed, Callers
<1>3. ASSUME NEW p \in Handlers, p # Worker, p \in Holders PROVE Doing(p, "deliveries")
  <2>1. ~InTx(p) /\ <<p, "stmt">> \in inUse
    BY <1>1, <1>2, <1>3 DEF Holders, HandlerOK
  <2>2. p \notin waiting
    BY <2>1, NotQueued
  <2>3. PICK r \in Rows : Doing(p, r) /\ ~Free(r)
    BY <1>1, <1>3, <2>2 DEF Blocked
  <2>4. InTx(rowOf[r]) /\ rowOf[r] \in Handlers /\ (r = "agent" => rowOf[r] \in Spenders)
    BY <2>3 DEF Inv, RowsOK, Free
  <2>5. r # "agent"
    BY <1>2, <2>4 DEF Callers
  <2>6. p \in Callers => Timed(p)
    <3> SUFFICES ASSUME p \in Callers PROVE Timed(p)
      OBVIOUS
    <3>1. /\ script[p][1] = "read" /\ script[p][2] = "begin" /\ Running(p)
          /\ at[p] \in 1..Len(script[p])
      BY <1>1, <1>3, Places DEF CallerScript, HandlerOK
    <3>2. at[p] # 1
      BY <2>3, <3>1 DEF Doing, Rows
    <3>3. 2 \in 1..at[p]
      BY <3>1, <3>2
    <3>. QED
      BY <3>1, <3>3 DEF Timed, Callers
  <2>7. p \notin Callers
    BY <1>3, <2>6
  <2>8. Running(p)
    BY <2>3 DEF Doing
  <2>9. script[p] = <<"agent">> \/ script[p] = <<"deliveries">>
    BY <1>1, <1>3, <2>7, <2>8, OtherScripts DEF HandlerOK, Running, Handlers, Callers
  <2>10. at[p] = 1
    BY <2>3, <2>7, <2>8, Places
  <2>11. Doing(p, "agent") \/ Doing(p, "deliveries")
    <3>1. CASE script[p] = <<"agent">>
      BY <2>8, <2>10, <3>1 DEF Doing
    <3>2. CASE script[p] = <<"deliveries">>
      BY <2>8, <2>10, <3>2 DEF Doing
    <3>. QED
      BY <2>9, <3>1, <3>2
  <2>. QED
    BY <2>3, <2>5, <2>11, OneStatement
<1>4. InTx(Worker)
  <2>1. inUse # {}
    BY <1>1, FS_EmptySet
  <2>2. PICK p \in Handlers : p \in Holders
    BY <1>1, <2>1 DEF Connections, Holders, InTx
  <2>3. CASE p = Worker
    <3>1. at[p] > 1 => InTx(p)
      BY <2>3 DEF Inv, HandlerOK
    <3>2. <<p, "stmt">> \in inUse => Doing(p, "read")
      BY <1>1, <2>2, <2>3, Places DEF HandlerOK
    <3>3. Doing(p, "read") => at[p] = 3
      BY <1>1, <2>2, <2>3, Places
    <3>. QED
      BY <2>2, <2>3, <3>1, <3>2, <3>3 DEF Holders
  <2>4. CASE p # Worker
    <3>1. Doing(p, "deliveries") /\ <<p, "stmt">> \in inUse
      BY <1>1, <1>2, <1>3, <2>2, <2>4 DEF Holders, HandlerOK
    <3>2. ~Free("deliveries")
      <4>1. p \notin waiting
        BY <3>1, NotQueued
      <4>. QED
        BY <1>1, <2>2, <3>1, <4>1, OneStatement DEF Blocked
    <3>. QED
      BY <3>2 DEF Inv, RowsOK, Rows
  <2>. QED
    BY <2>3, <2>4
<1>5. Worker \in Holders /\ Worker \in Handlers
  BY <1>4 DEF Holders, Handlers
<1>6. Worker \in waiting
  <2>1. \A r \in Rows : ~Doing(Worker, r)
    BY <1>1, <1>5, Places
  <2>. QED
    BY <1>1, <1>5, <2>1 DEF Blocked
<1>. QED
  BY <1>3, <1>4, <1>5, <1>6 DEF Stuck, Holders

\* When handlers that hold the whole pool each need what another has, one of them has
\* the five seconds of BeginTx, or DELETEs have the worker's last connection.
THEOREM StandstillsEnd == Spec => []DeadlocksHaveADeadline
<1>1. Inv => DeadlocksHaveADeadline
  BY NobodyTimed DEF DeadlocksHaveADeadline
<1>. QED
  BY Invariance, <1>1, PTL
=============================================================================
