--------------------------- MODULE DirectoryProofs ---------------------------
(***************************************************************************)
(* What Provisioning and Listing keep, for any users, agents, keys, calls, *)
(* transactions and limits.                                                *)
(***************************************************************************)
EXTENDS Listing, FiniteSetTheorems, TLAPS

(***************************************************************************)
(* Provisioning                                                            *)
(***************************************************************************)

AgentRow == [owner: Users, key: Keys, status: {"active", "frozen"}, created: 0..MaxTime, by: Calls]

\* ProvTypeOK, with the functions' domains and ranges.
ProvTypes ==
  /\ users \subseteq Users
  /\ agents \in [AgentIDs -> AgentRow \cup {NoAgent}]
  /\ policies \in [AgentIDs -> Nat]
  /\ now \in 0..MaxTime
  /\ pc \in [Calls -> {"idle", "generate", "insert", "upsert", "readBack", "done"}]
  /\ agentID \in [Calls -> AgentIDs \cup {None}]
  /\ userID \in [Calls -> Users \cup {None}]
  /\ key \in [Calls -> Keys \cup {None}]
  /\ tries \in [Calls -> 0..MaxTries]
  /\ wrote \in [Calls -> Nat]
  /\ answer \in [Calls -> Keys \cup {None} \cup Nat]

\* A row is that of a call that has drawn its id, and has its key alone.
RowOK(id) ==
  /\ agentID[agents[id].by] = id
  /\ pc[agents[id].by] # "idle"
  /\ \A x \in AgentIDs : Exists(x) /\ agents[x].key = agents[id].key => x = id

CreateOK(c) ==
  /\ pc[c] \in {"generate", "insert"} => userID[c] \in Users /\ agentID[c] \in AgentIDs
  /\ pc[c] = "generate" => tries[c] < MaxTries
  /\ pc[c] = "insert" => key[c] \in Keys
  /\ Creates(c) /\ answer[c] # None =>
       agentID[c] \in AgentIDs /\ Exists(agentID[c]) /\ agents[agentID[c]].key = answer[c]

UpsertOK(c) ==
  /\ pc[c] \in {"upsert", "readBack"} => ~Creates(c) /\ agentID[c] \in AgentIDs
  /\ pc[c] = "readBack" => wrote[c] > 0
  /\ wrote[c] > 0 => agentID[c] \in AgentIDs /\ wrote[c] <= policies[agentID[c]]
  /\ ~Creates(c) /\ answer[c] # None => answer[c] >= wrote[c] /\ wrote[c] > 0

CallOK(c) ==
  /\ pc[c] # "done" => answer[c] = None
  /\ pc[c] = "idle" => ~Creates(c) /\ wrote[c] = 0 /\ tries[c] = 0
  /\ CreateOK(c)
  /\ UpsertOK(c)

ProvInv ==
  /\ ProvTypes
  /\ \A id \in AgentIDs : Exists(id) => RowOK(id)
  /\ \A c \in Calls : CallOK(c)

\* An existing row is told from the absent one by its owner.
LEMMA Existing ==
  ASSUME ProvTypes, NEW id \in AgentIDs
  PROVE  Exists(id) <=> agents[id] \in AgentRow
  BY ProvisioningAssumption DEF ProvTypes, AgentRow, Exists, NoAgent

LEMMA ProvInvImplies ==
  ASSUME ProvInv
  PROVE  ProvTypeOK /\ OneAgentPerCall /\ AnsweredKeyIsOwn /\ AnswerNotStale
<1>1. ProvTypeOK
  BY Existing, Zenon DEF ProvInv, ProvTypes, ProvTypeOK, Provisioned, AgentRow
<1>2. OneAgentPerCall
  BY DEF ProvInv, OneAgentPerCall, Provisioned, RowOK
<1>3. AnsweredKeyIsOwn
  BY DEF ProvInv, AnsweredKeyIsOwn, Provisioned, RowOK, CallOK, CreateOK
<1>4. AnswerNotStale
  BY DEF ProvInv, AnswerNotStale, CallOK, UpsertOK
<1> QED  BY <1>1, <1>2, <1>3, <1>4

\* Nothing changes for the call d.
Same(d) ==
  /\ pc'[d] = pc[d] /\ agentID'[d] = agentID[d] /\ userID'[d] = userID[d]
  /\ key'[d] = key[d] /\ tries'[d] = tries[d] /\ wrote'[d] = wrote[d] /\ answer'[d] = answer[d]

\* Rows stay, with their keys and makers, and no write of a policy is undone.
Kept ==
  /\ \A id \in AgentIDs : Exists(id) =>
       Exists(id)' /\ agents'[id].key = agents[id].key /\ agents'[id].by = agents[id].by
  /\ \A id \in AgentIDs : policies[id] <= policies'[id]

LEMMA SameCall ==
  ASSUME ProvInv, ProvTypes', Kept, NEW d \in Calls, Same(d)
  PROVE  CallOK(d)'
<1>1. CallOK(d)  BY DEF ProvInv
<1>2. Creates(d)' <=> Creates(d)  BY DEF Same, Creates
<1>3. CreateOK(d)'  BY <1>1, <1>2 DEF CallOK, CreateOK, Same, Kept
<1>4. UpsertOK(d)'
  <2>1. wrote[d] > 0 => wrote[d] <= policies'[agentID[d]]
    BY <1>1 DEF CallOK, UpsertOK, Kept, ProvInv, ProvTypes
  <2> QED  BY <1>1, <1>2, <2>1 DEF CallOK, UpsertOK, Same
<1> QED  BY <1>1, <1>2, <1>3, <1>4 DEF CallOK, Same

\* A step that makes no row: the calls keep the ids they have drawn.
LEMMA SameRows ==
  ASSUME ProvInv, ProvTypes', Kept,
         \A id \in AgentIDs : Exists(id)' => Exists(id),
         \A c \in Calls : pc[c] # "idle" => pc'[c] # "idle" /\ agentID'[c] = agentID[c]
  PROVE  \A id \in AgentIDs : Exists(id)' => RowOK(id)'
<1> SUFFICES ASSUME NEW id \in AgentIDs, Exists(id)' PROVE RowOK(id)'
  OBVIOUS
<1>1. Exists(id) /\ RowOK(id)  BY DEF ProvInv
<1>2. agents[id].by \in Calls  BY <1>1, Existing DEF ProvInv, AgentRow
<1>3. agents'[id].by = agents[id].by /\ agents'[id].key = agents[id].key
  BY <1>1 DEF Kept
<1>4. \A x \in AgentIDs : Exists(x)' => Exists(x) /\ agents'[x].key = agents[x].key
  BY DEF Kept
<1> QED  BY <1>1, <1>2, <1>3, <1>4 DEF RowOK

\* A step of the call c that leaves the table of agents as it is.
LEMMA CallStepInv ==
  ASSUME ProvInv, ProvTypes', UNCHANGED agents,
         \A id \in AgentIDs : policies[id] <= policies'[id],
         NEW c \in Calls, \A d \in Calls \ {c} : Same(d),
         pc'[c] # "idle", pc[c] = "idle" \/ agentID'[c] = agentID[c],
         CallOK(c)'
  PROVE  ProvInv'
<1>1. Kept  BY DEF Kept, Exists
<1>2. \A id \in AgentIDs : Exists(id)' => Exists(id)  BY DEF Exists
<1>3. \A d \in Calls : pc[d] # "idle" => pc'[d] # "idle" /\ agentID'[d] = agentID[d]
  BY DEF Same
<1>4. \A d \in Calls : CallOK(d)'  BY <1>1, SameCall
<1> QED  BY <1>1, <1>2, <1>3, <1>4, SameRows DEF ProvInv

LEMMA ProvInitInv ==
  ASSUME ProvInit
  PROVE  ProvInv
<1>1. ProvTypes
  BY ProvisioningAssumption DEF ProvInit, ProvTypes
<1>2. \A id \in AgentIDs : ~Exists(id)
  BY DEF ProvInit, Exists
<1>3. \A c \in Calls : CallOK(c)
  BY DEF ProvInit, CallOK, CreateOK, UpsertOK, Creates
<1> QED  BY <1>1, <1>2, <1>3 DEF ProvInv

LEMMA CreateUserInv ==
  ASSUME ProvInv, CreateUser
  PROVE  ProvInv'
<1>1. ProvTypes'
  BY DEF ProvInv, ProvTypes, CreateUser, callVars
<1>2. Kept /\ \A id \in AgentIDs : Exists(id)' => Exists(id)
  BY DEF CreateUser, Kept, Exists, ProvInv, ProvTypes
<1>3. \A d \in Calls : Same(d)
  BY DEF CreateUser, callVars, Same
<1>4. \A d \in Calls : CallOK(d)'
  BY <1>1, <1>2, <1>3, SameCall
<1> QED  BY <1>1, <1>2, <1>3, <1>4, SameRows DEF ProvInv, Same

LEMMA CreateAgentInv ==
  ASSUME ProvInv, NEW c \in Calls, NEW u \in Users, CreateAgent(c, u)
  PROVE  ProvInv'
<1> USE DEF ProvInv, ProvTypes, CreateAgent, Goto, Reply, dbVars
<1>1. ProvTypes'
  BY ProvisioningAssumption
<1>2. \A d \in Calls \ {c} : Same(d)
  BY DEF Same
<1>3. pc[c] = "idle" /\ pc'[c] \in {"generate", "done"}
  OBVIOUS
<1>4. UNCHANGED agents /\ \A id \in AgentIDs : policies[id] <= policies'[id]
  OBVIOUS
<1>5. CallOK(c)'
  <2>1. CallOK(c) /\ answer'[c] = None /\ userID'[c] \in Users /\ wrote'[c] = 0
    BY DEF CallOK
  <2>2. pc'[c] = "generate" => agentID'[c] \in AgentIDs /\ tries'[c] = 0
    BY <2>1 DEF CallOK
  <2> QED  BY <1>3, <2>1, <2>2, ProvisioningAssumption DEF CallOK, CreateOK, UpsertOK, Creates
<1> QED  BY <1>1, <1>2, <1>3, <1>4, <1>5, CallStepInv

LEMMA GenerateInv ==
  ASSUME ProvInv, NEW c \in Calls, Generate(c)
  PROVE  ProvInv'
<1> USE DEF ProvInv, ProvTypes, Generate, Goto, dbVars
<1>1. ProvTypes'
  <2>1. tries[c] + 1 \in 0..MaxTries
    BY ProvisioningAssumption DEF CallOK, CreateOK
  <2> QED  BY <2>1
<1>2. \A d \in Calls \ {c} : Same(d)
  BY DEF Same
<1>3. CallOK(c)'
  BY DEF CallOK, CreateOK, UpsertOK, Creates, Exists
<1> QED  BY <1>1, <1>2, <1>3, CallStepInv

\* The row that is inserted, by Insert or InsertUnacked, is its call's first and
\* its key is new.
LEMMA InsertedInv ==
  ASSUME ProvInv, ProvTypes', NEW c \in Calls, pc[c] = "insert", Inserted(c),
         \A d \in Calls \ {c} : Same(d),
         pc'[c] # "idle", agentID'[c] = agentID[c], CallOK(c)'
  PROVE  ProvInv'
<1> DEFINE a == agentID[c]
<1>1. a \in AgentIDs /\ key[c] \in Keys /\ userID[c] \in Users
  BY DEF ProvInv, CallOK, CreateOK
<1>2. ~Exists(a) /\ \A id \in AgentIDs : agents[id].key # key[c]
  BY DEF Inserted, Duplicate
<1>3. /\ agents'[a].key = key[c] /\ agents'[a].by = c
      /\ \A id \in AgentIDs \ {a} : agents'[id] = agents[id]
  BY <1>1 DEF Inserted, ProvInv, ProvTypes
<1>4. Kept
  BY <1>2, <1>3 DEF Kept, Exists, Inserted, ProvInv, ProvTypes
<1>5. \A id \in AgentIDs : Exists(id)' => RowOK(id)'
  <2> SUFFICES ASSUME NEW id \in AgentIDs, Exists(id)' PROVE RowOK(id)'
    OBVIOUS
  <2>1. CASE id = a
    BY <1>1, <1>2, <1>3, <2>1 DEF RowOK
  <2>2. CASE id # a
    <3>1. Exists(id) /\ RowOK(id)
      BY <1>3, <2>2 DEF Exists, ProvInv
    <3>2. agents[id].by \in Calls
      BY <3>1, Existing DEF ProvInv, AgentRow
    <3>3. /\ agentID'[agents[id].by] = id
          /\ pc'[agents[id].by] # "idle"
      BY <3>1, <3>2 DEF RowOK, Same
    <3>4. \A x \in AgentIDs : Exists(x)' /\ agents'[x].key = agents[id].key => x = id
      BY <1>1, <1>2, <1>3, <3>1 DEF RowOK, Exists
    <3> QED  BY <1>3, <2>2, <3>3, <3>4 DEF RowOK
  <2> QED  BY <2>1, <2>2
<1>6. \A d \in Calls : CallOK(d)'
  BY <1>4, SameCall
<1> QED  BY <1>5, <1>6 DEF ProvInv

LEMMA InsertedTypes ==
  ASSUME ProvInv, NEW c \in Calls, pc[c] = "insert", Inserted(c)
  PROVE  /\ agents' \in [AgentIDs -> AgentRow \cup {NoAgent}]
         /\ agents'[agentID[c]] # NoAgent /\ agents'[agentID[c]].key = key[c]
         /\ key[c] # None /\ agentID[c] \in AgentIDs
<1>1. agentID[c] \in AgentIDs /\ key[c] \in Keys /\ userID[c] \in Users
  BY DEF ProvInv, CallOK, CreateOK
<1>2. PICK t \in 0..now :
        agents' = [agents EXCEPT ![agentID[c]] =
                     [owner |-> userID[c], key |-> key[c], status |-> "active",
                      created |-> t, by |-> c]]
  BY DEF Inserted
<1>3. t \in 0..MaxTime
  BY ProvisioningAssumption DEF ProvInv, ProvTypes
<1>4. agents'[agentID[c]] \in AgentRow
  BY <1>1, <1>2, <1>3 DEF AgentRow, ProvInv, ProvTypes
<1>5. agents' \in [AgentIDs -> AgentRow \cup {NoAgent}]
  BY <1>1, <1>2, <1>4 DEF ProvInv, ProvTypes
<1>6. agents'[agentID[c]] # NoAgent
  BY <1>4, ProvisioningAssumption DEF NoAgent, AgentRow
<1>7. agents'[agentID[c]].key = key[c]
  BY <1>1, <1>2 DEF ProvInv, ProvTypes
<1>8. key[c] # None
  BY <1>1, ProvisioningAssumption
<1> QED  BY <1>1, <1>5, <1>6, <1>7, <1>8, Zenon

LEMMA InsertInv ==
  ASSUME ProvInv, NEW c \in Calls, Insert(c)
  PROVE  ProvInv'
<1>1. pc[c] = "insert" /\ Inserted(c)  BY DEF Insert
<1> USE DEF Insert, Goto, Reply
<1>2. ProvTypes'
  <2>1. agents' \in [AgentIDs -> AgentRow \cup {NoAgent}]
    BY <1>1, InsertedTypes
  <2>2. UNCHANGED <<users, policies, now>>
    BY <1>1 DEF Inserted
  <2> QED  BY <2>1, <2>2, ProvisioningAssumption DEF ProvInv, ProvTypes
<1>3. \A d \in Calls \ {c} : Same(d)
  BY DEF Same, ProvInv, ProvTypes
<1>4. pc'[c] = "done" /\ answer'[c] = key[c] /\ agentID'[c] = agentID[c] /\ Creates(c)' /\ wrote'[c] = wrote[c]
  BY ProvisioningAssumption DEF ProvInv, ProvTypes, Creates, CallOK, CreateOK
<1>5. CallOK(c)'
  <2>1. CallOK(c) BY DEF ProvInv
  <2>2. policies' = policies  BY <1>1 DEF Inserted
  <2> QED  BY <1>1, <1>4, <2>1, <2>2, InsertedTypes DEF CallOK, CreateOK, UpsertOK, Exists
<1> QED  BY <1>1, <1>2, <1>3, <1>4, <1>5, InsertedInv

LEMMA InsertUnackedInv ==
  ASSUME ProvInv, NEW c \in Calls, InsertUnacked(c)
  PROVE  ProvInv'
<1>1. pc[c] = "insert" /\ Inserted(c) /\ UNCHANGED callVars  BY DEF InsertUnacked
<1>2. ProvTypes'
  BY <1>1, InsertedTypes DEF ProvInv, ProvTypes, Inserted, callVars
<1>3. \A d \in Calls : Same(d)
  BY <1>1 DEF Same, callVars
<1>4. CallOK(c)'
  <2>1. CallOK(c) BY DEF ProvInv
  <2>2. policies' = policies  BY <1>1 DEF Inserted
  <2> QED  BY <1>1, <2>1, <2>2 DEF CallOK, CreateOK, UpsertOK, Creates, callVars
<1> QED  BY <1>1, <1>2, <1>3, <1>4, InsertedInv DEF callVars

\* A call answers an error.
LEMMA ErrorInv ==
  ASSUME ProvInv, NEW c \in Calls, pc[c] # "idle", Reply(c, None),
         UNCHANGED <<dbVars, agentID, userID, wrote>>
  PROVE  ProvInv'
<1> USE DEF ProvInv, ProvTypes, Goto, Reply, dbVars
<1>1. ProvTypes'
  BY ProvisioningAssumption
<1>2. \A d \in Calls \ {c} : Same(d)
  BY DEF Same
<1>3. CallOK(c)'
  BY DEF CallOK, CreateOK, UpsertOK
<1> QED  BY <1>1, <1>2, <1>3, CallStepInv

LEMMA RetryInv ==
  ASSUME ProvInv, NEW c \in Calls, Retry(c)
  PROVE  ProvInv'
<1>1. CASE Reply(c, None)
  BY <1>1, ErrorInv DEF Retry
<1>2. CASE tries[c] < MaxTries /\ Goto(c, "generate") /\ UNCHANGED <<key, tries, answer>>
  <2> USE <1>2 DEF ProvInv, ProvTypes, Goto, dbVars, Retry
  <2>1. ProvTypes'
    OBVIOUS
  <2>2. \A d \in Calls \ {c} : Same(d)
    BY DEF Same
  <2>3. CallOK(c)'
    BY DEF CallOK, CreateOK, UpsertOK, Creates, Exists
  <2> QED  BY <2>1, <2>2, <2>3, CallStepInv
<1> QED  BY <1>1, <1>2 DEF Retry

LEMMA CheckAgentInv ==
  ASSUME ProvInv, NEW c \in Calls, NEW id \in AgentIDs, CheckAgent(c, id)
  PROVE  ProvInv'
<1> USE DEF ProvInv, ProvTypes, CheckAgent, Goto, Reply, dbVars
<1>1. ProvTypes'
  BY ProvisioningAssumption
<1>2. \A d \in Calls \ {c} : Same(d)
  BY DEF Same
<1>3. pc[c] = "idle" /\ pc'[c] \in {"upsert", "done"} /\ answer'[c] = None /\ agentID'[c] = id
  BY DEF CallOK
<1>4. CallOK(c)'
  BY <1>3 DEF CallOK, CreateOK, UpsertOK, Creates
<1> QED  BY <1>1, <1>2, <1>3, <1>4, CallStepInv

LEMMA WrittenFacts ==
  ASSUME ProvInv, NEW c \in Calls, pc[c] = "upsert", Written(c)
  PROVE  /\ policies' \in [AgentIDs -> Nat] /\ wrote' \in [Calls -> Nat]
         /\ \A id \in AgentIDs : policies[id] <= policies'[id]
         /\ wrote'[c] > 0 /\ wrote'[c] = policies'[agentID[c]]
         /\ \A d \in Calls \ {c} : wrote'[d] = wrote[d]
         /\ agentID[c] \in AgentIDs
<1>1. agentID[c] \in AgentIDs  BY DEF ProvInv, CallOK, UpsertOK
<1> QED  BY <1>1 DEF Written, ProvInv, ProvTypes

LEMMA UpsertInv ==
  ASSUME ProvInv, NEW c \in Calls, Upsert(c) \/ UpsertUnacked(c)
  PROVE  ProvInv'
<1>1. pc[c] = "upsert" /\ Written(c) /\ UNCHANGED <<users, agents, now, agentID, userID, key, tries, answer>>
  BY DEF Upsert, UpsertUnacked
<1>2. pc' \in [Calls -> {"idle", "generate", "insert", "upsert", "readBack", "done"}]
      /\ pc'[c] \in {"upsert", "readBack"} /\ \A d \in Calls \ {c} : pc'[d] = pc[d]
  BY <1>1 DEF Upsert, UpsertUnacked, Goto, ProvInv, ProvTypes
<1>3. ProvTypes'
  BY <1>1, <1>2, WrittenFacts DEF ProvInv, ProvTypes
<1>4. \A d \in Calls \ {c} : Same(d)
  BY <1>1, <1>2, WrittenFacts DEF Same
<1>5. CallOK(c)'
  <2>1. CallOK(c)  BY DEF ProvInv
  <2>2. wrote'[c] <= policies'[agentID[c]]  BY <1>1, <1>3, WrittenFacts DEF ProvTypes
  <2> QED  BY <1>1, <1>2, <2>1, <2>2, WrittenFacts DEF CallOK, CreateOK, UpsertOK, Creates
<1> QED  BY <1>1, <1>2, <1>3, <1>4, <1>5, WrittenFacts, CallStepInv

LEMMA ReadBackInv ==
  ASSUME ProvInv, NEW c \in Calls, ReadBack(c)
  PROVE  ProvInv'
<1> USE DEF ProvInv, ProvTypes, ReadBack, Goto, Reply, dbVars
<1>1. agentID[c] \in AgentIDs /\ policies[agentID[c]] \in Nat
  BY DEF CallOK, UpsertOK
<1>2. ProvTypes'
  BY <1>1, ProvisioningAssumption
<1>3. \A d \in Calls \ {c} : Same(d)
  BY DEF Same
<1>4. CallOK(c)'
  BY <1>1 DEF CallOK, CreateOK, UpsertOK, Creates
<1> QED  BY <1>2, <1>3, <1>4, CallStepInv

LEMMA SetStatusInv ==
  ASSUME ProvInv, NEW id \in AgentIDs, NEW s \in {"active", "frozen"}, SetStatus(id, s)
  PROVE  ProvInv'
<1>1. agents[id] \in AgentRow /\ agents' = [agents EXCEPT ![id].status = s]
  BY Existing DEF SetStatus, ProvInv
<1>2. agents'[id] \in AgentRow /\ agents'[id].key = agents[id].key /\ agents'[id].by = agents[id].by
  BY <1>1 DEF AgentRow, ProvInv, ProvTypes
<1>3. ProvTypes'
  BY <1>1, <1>2 DEF SetStatus, callVars, ProvInv, ProvTypes
<1>4. Exists(id)'
  BY <1>2, <1>3, ProvisioningAssumption DEF Exists, NoAgent, AgentRow
<1>5. Kept /\ \A x \in AgentIDs : Exists(x)' => Exists(x)
  BY <1>1, <1>2, <1>4 DEF Kept, Exists, SetStatus, ProvInv, ProvTypes
<1>6. \A d \in Calls : Same(d)
  BY DEF SetStatus, callVars, Same
<1>7. \A d \in Calls : CallOK(d)'
  BY <1>3, <1>5, <1>6, SameCall
<1> QED  BY <1>3, <1>5, <1>6, <1>7, SameRows DEF ProvInv, Same

LEMMA TickInv ==
  ASSUME ProvInv, Tick
  PROVE  ProvInv'
<1>1. ProvTypes'
  BY ProvisioningAssumption DEF Tick, callVars, ProvInv, ProvTypes
<1>2. Kept /\ \A x \in AgentIDs : Exists(x)' => Exists(x)
  BY DEF Kept, Exists, Tick, ProvInv, ProvTypes
<1>3. \A d \in Calls : Same(d)
  BY DEF Tick, callVars, Same
<1>4. \A d \in Calls : CallOK(d)'
  BY <1>1, <1>2, <1>3, SameCall
<1> QED  BY <1>1, <1>2, <1>3, <1>4, SameRows DEF ProvInv, Same

LEMMA ProvFrameInv ==
  ASSUME ProvInv, UNCHANGED provVars
  PROVE  ProvInv'
  BY DEF ProvInv, provVars, dbVars, callVars, ProvTypes, RowOK, Exists, CallOK, CreateOK, UpsertOK, Creates

LEMMA ProvNextInv ==
  ASSUME ProvInv, ProvNext
  PROVE  ProvInv'
<1>1. CASE CreateUser
  BY <1>1, CreateUserInv
<1>2. ASSUME NEW c \in Calls, CallStep(c) PROVE ProvInv'
  <2>1. ASSUME NEW u \in Users, CreateAgent(c, u) PROVE ProvInv'
    BY <2>1, CreateAgentInv
  <2>2. ASSUME NEW id \in AgentIDs, CheckAgent(c, id) PROVE ProvInv'
    BY <2>2, CheckAgentInv
  <2>3. CASE Generate(c)  BY <2>3, GenerateInv
  <2>4. CASE Insert(c)  BY <2>4, InsertInv
  <2>5. CASE InsertUnacked(c)  BY <2>5, InsertUnackedInv
  <2>6. CASE Retry(c)  BY <2>6, RetryInv
  <2>7. CASE InsertFails(c)  BY <2>7, ErrorInv DEF InsertFails
  <2>8. CASE Upsert(c) \/ UpsertUnacked(c)  BY <2>8, UpsertInv
  <2>9. CASE ReadBack(c)  BY <2>9, ReadBackInv
  <2>10. CASE PolicyFails(c)  BY <2>10, ErrorInv DEF PolicyFails
  <2> QED
    BY <1>2, <2>1, <2>2, <2>3, <2>4, <2>5, <2>6, <2>7, <2>8, <2>9, <2>10 DEF CallStep
<1>3. ASSUME NEW id \in AgentIDs, NEW s \in {"active", "frozen"}, SetStatus(id, s) PROVE ProvInv'
  BY <1>3, SetStatusInv
<1>4. CASE Tick
  BY <1>4, TickInv
<1> QED  BY <1>1, <1>2, <1>3, <1>4 DEF ProvNext

\* A row stays in its table, with its created_at.
LEMMA AgentsKept ==
  ASSUME ProvInv, ProvNext, NEW id \in AgentIDs, Exists(id)
  PROVE  Exists(id)' /\ agents'[id].created = agents[id].created
<1>1. ProvInv'  BY ProvNextInv
<1>2. CASE UNCHANGED agents
  BY <1>2 DEF Exists
<1>3. ASSUME NEW c \in Calls, pc[c] = "insert", Inserted(c)
      PROVE  Exists(id)' /\ agents'[id].created = agents[id].created
  <2>1. agentID[c] # id
    BY <1>3 DEF Inserted, Duplicate
  <2>2. agents'[id] = agents[id]
    BY <1>3, <2>1 DEF Inserted, ProvInv, ProvTypes
  <2> QED  BY <2>2 DEF Exists
<1>4. ASSUME NEW x \in AgentIDs, NEW s \in {"active", "frozen"}, SetStatus(x, s)
      PROVE  Exists(id)' /\ agents'[id].created = agents[id].created
  <2>1. agents[id] \in AgentRow /\ agents' = [agents EXCEPT ![x].status = s]
    BY <1>4, Existing DEF SetStatus, ProvInv
  <2>2. agents'[id] \in AgentRow /\ agents'[id].created = agents[id].created
    BY <1>4, <2>1 DEF AgentRow, ProvInv, ProvTypes
  <2> QED  BY <1>1, <2>2, ProvisioningAssumption DEF Exists, NoAgent, AgentRow
<1>5. ASSUME NEW c \in Calls, CallStep(c)
      PROVE  UNCHANGED agents \/ (pc[c] = "insert" /\ Inserted(c))
  BY <1>5 DEF CallStep, CreateAgent, CheckAgent, Generate, Insert, InsertUnacked, Retry, InsertFails,
              Upsert, UpsertUnacked, ReadBack, PolicyFails, dbVars
<1>6. CreateUser \/ Tick => UNCHANGED agents
  BY DEF CreateUser, Tick
<1> QED  BY <1>2, <1>3, <1>4, <1>5, <1>6 DEF ProvNext

(***************************************************************************)
(* Pages                                                                   *)
(***************************************************************************)

\* The rows before id in any order of ids by created_at, when nothing ties with it.
Newer(table, ids, id) == {x \in ids : Row(table, x).created > Row(table, id).created}
Tied(table, ids, id) == \E x \in ids \ {id} : Row(table, x).created = Row(table, id).created

\* What LIMIT l OFFSET o takes of an order s.
PageOf(s, o, l) == {s[i] : i \in DOMAIN s \cap (o + 1 .. o + l)}

\* An order of ids is a bijection.
LEMMA OrderFacts ==
  ASSUME NEW table, NEW ids, IsFiniteSet(ids), NEW s \in NewestFirst(table, ids)
  PROVE  /\ Cardinality(ids) \in Nat
         /\ s \in [1..Cardinality(ids) -> ids]
         /\ \A i, j \in 1..Cardinality(ids) : s[i] = s[j] => i = j
         /\ \A x \in ids : \E i \in 1..Cardinality(ids) : s[i] = x
<1> DEFINE n == Cardinality(ids)
<1>1. n \in Nat  BY FS_CardinalityType
<1>2. s \in [1..n -> ids]  BY DEF NewestFirst
<1>3. \A i, j \in 1..n : s[i] = s[j] => i = j
  BY <1>1, <1>2 DEF NewestFirst
<1>4. s \in Injection(1..n, ids)
  BY <1>2, <1>3 DEF Injection, IsInjective
<1>5. Cardinality(1..n) = n
  BY <1>1, FS_Interval
<1>6. s \in Surjection(1..n, ids)
  BY <1>4, <1>5, FS_Injection
<1> QED  BY <1>1, <1>2, <1>3, <1>6 DEF Surjection

\* A page has a row for each of its places, and never more than its limit.
LEMMA PageFacts ==
  ASSUME NEW table, NEW ids, IsFiniteSet(ids), NEW s \in NewestFirst(table, ids),
         NEW o \in Nat, NEW l \in Nat \ {0}
  PROVE  LET P == PageOf(s, o, l) IN
         /\ P \subseteq ids /\ Cardinality(P) \in Nat /\ Cardinality(P) <= l
         /\ P # {} => o + Cardinality(P) <= Cardinality(ids)
         /\ Cardinality(ids) >= o + l => Cardinality(P) = l
<1> DEFINE n == Cardinality(ids)
           P == PageOf(s, o, l)
           m == IF n < o + l THEN n ELSE o + l
           I == o + 1 .. m
           g == [i \in I |-> s[i]]
<1>1. n \in Nat /\ m \in Nat /\ m <= n /\ m <= o + l
  BY OrderFacts
<1>2. DOMAIN s = 1..n /\ s \in [1..n -> ids]
  BY OrderFacts
<1>3. I = DOMAIN s \cap (o + 1 .. o + l)
  BY <1>1, <1>2
<1>4. P = {s[i] : i \in I}
  BY <1>3 DEF PageOf
<1>5. I \subseteq 1..n
  BY <1>1
<1>6. P \subseteq ids
  BY <1>2, <1>4, <1>5
<1>7. IsFiniteSet(I) /\ Cardinality(I) = IF o + 1 > m THEN 0 ELSE m - o
  <2> HIDE DEF m
  <2>1. o + 1 \in Int /\ m \in Int /\ m - (o + 1) + 1 = m - o
    BY <1>1
  <2> QED  BY <2>1, FS_Interval
<1>8. g \in Surjection(I, P)
  BY <1>4 DEF Surjection
<1>9. g \in Injection(I, P)
  <2>1. \A i, j \in 1..n : s[i] = s[j] => i = j
    BY OrderFacts
  <2>2. \A i, j \in I : g[i] = g[j] => i = j
    <3> HIDE DEF I
    <3> QED  BY <1>5, <2>1
  <2>3. g \in [I -> P]
    <3> HIDE DEF I, P
    <3> QED  BY <1>4
  <2> QED  BY <2>2, <2>3 DEF Injection, IsInjective
<1>10. Cardinality(P) = Cardinality(I)
  BY <1>7, <1>8, <1>9, FS_Surjection
<1>11. P # {} => o + 1 <= m
  BY <1>1, <1>4
<1> HIDE DEF P, I, g
<1>12. /\ Cardinality(P) \in Nat /\ Cardinality(P) <= l
       /\ P # {} => o + Cardinality(P) <= n
       /\ n >= o + l => Cardinality(P) = l
  BY <1>1, <1>7, <1>10, <1>11
<1> QED  BY <1>6, <1>12 DEF P

\* Without ties a row's place is given by the rows newer than it.
LEMMA PlaceOf ==
  ASSUME NEW table, NEW ids, IsFiniteSet(ids), NEW s \in NewestFirst(table, ids),
         \A x \in ids : Row(table, x).created \in Int,
         NEW i \in 1..Cardinality(ids), ~Tied(table, ids, s[i])
  PROVE  Cardinality(Newer(table, ids, s[i])) = i - 1
<1> DEFINE n == Cardinality(ids)
           N == Newer(table, ids, s[i])
           g == [j \in 1 .. i - 1 |-> s[j]]
<1>1. n \in Nat /\ s \in [1..n -> ids] /\ i \in Nat /\ i <= n
  BY OrderFacts
<1>2. \A j, k \in 1..n : j < k => Row(table, s[j]).created >= Row(table, s[k]).created
  BY <1>1 DEF NewestFirst
<1>3. \A j \in 1 .. i - 1 : s[j] \in N
  <2> SUFFICES ASSUME NEW j \in 1 .. i - 1 PROVE s[j] \in N
    OBVIOUS
  <2>1. j \in 1..n /\ j < i /\ s[j] # s[i] /\ s[j] \in ids
    BY <1>1, OrderFacts
  <2>2. Row(table, s[j]).created >= Row(table, s[i]).created
    BY <1>2, <2>1
  <2>3. Row(table, s[j]).created # Row(table, s[i]).created
    BY <2>1 DEF Tied
  <2>4. Row(table, s[j]).created \in Int /\ Row(table, s[i]).created \in Int
    BY <1>1, <2>1
  <2> QED  BY <2>1, <2>2, <2>3, <2>4 DEF Newer
<1>4. \A x \in N : \E j \in 1 .. i - 1 : s[j] = x
  <2> SUFFICES ASSUME NEW x \in N PROVE \E j \in 1 .. i - 1 : s[j] = x
    OBVIOUS
  <2>1. x \in ids /\ Row(table, x).created > Row(table, s[i]).created
    BY DEF Newer
  <2>2. PICK j \in 1..n : s[j] = x
    BY <2>1, OrderFacts
  <2>3. Row(table, x).created \in Int /\ Row(table, s[i]).created \in Int
    BY <1>1, <2>1
  <2>4. ~(j = i) /\ ~(i < j)
    BY <1>1, <1>2, <2>1, <2>2, <2>3
  <2> QED  BY <1>1, <2>2, <2>4
<1>5. g \in Surjection(1 .. i - 1, N)
  BY <1>3, <1>4 DEF Surjection
<1>6. g \in Injection(1 .. i - 1, N)
  <2>1. \A j, k \in 1..n : s[j] = s[k] => j = k
    BY OrderFacts
  <2>2. \A j, k \in 1 .. i - 1 : g[j] = g[k] => j = k
    BY <1>1, <2>1
  <2> QED  BY <1>3, <2>2 DEF Injection, IsInjective
<1>7. IsFiniteSet(1 .. i - 1) /\ Cardinality(1 .. i - 1) = i - 1
  <2>1. i - 1 \in Int /\ 1 \in Int /\ (1 > i - 1 => i - 1 = 0) /\ (i - 1) - 1 + 1 = i - 1
    BY <1>1
  <2> QED  BY <2>1, FS_Interval
<1> QED  BY <1>5, <1>6, <1>7, FS_Surjection

(***************************************************************************)
(* The listing                                                             *)
(***************************************************************************)

Tables == {"agents", "transactions"}
IDs == AgentIDs \cup TxnIDs
TxnRow == [owner: AgentIDs, status: TxnStatuses, created: 0..MaxTime]
Filter == [owner: AgentIDs \cup Owners, status: Statuses, from: Nat, to: Nat]
Walk == [pc: {"list", "count", "answered", "ended"}, table: Tables, filter: Filter,
         limit: 1..MaxLimit, offset: Nat, page: SUBSET IDs, total: Nat,
         seen: SUBSET IDs, owed: SUBSET IDs, lost: BOOLEAN, shrunk: BOOLEAN]

TxnsOK ==
  /\ txns \in [TxnIDs -> TxnRow \cup {NoTxn}]
  /\ \A id \in TxnIDs : txns[id] # NoTxn => Exists(txns[id].owner)
  /\ toCome \subseteq TxnIDs
  /\ \A id \in toCome : txns[id] = NoTxn

ListTypes == TxnsOK /\ walk \in Walk \cup {Idle}

\* What a walk owes and has not shown yet lies behind the pages it has read.
Ahead(w, ids, id) ==
  \/ w.pc = "list" /\ w.offset <= Cardinality(Newer(w.table, ids, id))
  \/ /\ w.pc \in {"count", "answered"} /\ Cardinality(w.page) = w.limit
     /\ w.offset + w.limit <= Cardinality(Newer(w.table, ids, id))

WalkOK(w, ids) ==
  /\ w.page \subseteq w.seen
  /\ Cardinality(w.page) \in Nat /\ Cardinality(w.page) <= w.limit
  /\ w.pc = "count" /\ ~w.shrunk /\ w.page # {} => w.offset + Cardinality(w.page) <= Cardinality(ids)
  /\ w.pc = "answered" /\ ~w.shrunk /\ w.page # {} => w.offset + Cardinality(w.page) <= w.total
  /\ ~w.lost => \A id \in w.owed :
       id \in ids /\ (id \in w.seen \/ Tied(w.table, ids, id) \/ Ahead(w, ids, id))

WalkInv == walk # Idle => WalkOK(walk, Matching(walk.table, walk.filter))

ListInv ==
  /\ ProvInv
  /\ ListTypes
  /\ WalkInv

LEMMA RowFacts ==
  ASSUME ProvInv, ListTypes, NEW table \in Tables
  PROVE  /\ Rows(table) \subseteq IDs /\ IsFiniteSet(Rows(table))
         /\ \A id \in Rows(table) : Row(table, id).created \in Int
         /\ \A f : Matching(table, f) \subseteq Rows(table) /\ IsFiniteSet(Matching(table, f))
<1>1. Rows(table) \subseteq (IF table = "agents" THEN AgentIDs ELSE TxnIDs)
  BY DEF Rows, Provisioned
<1>2. IsFiniteSet(AgentIDs) /\ IsFiniteSet(TxnIDs)
  BY ProvisioningAssumption, ListingAssumption
<1>3. IsFiniteSet(Rows(table))
  BY <1>1, <1>2, FS_Subset
<1>4. \A id \in Rows(table) : Row(table, id).created \in Int
  <2>1. CASE table = "agents"
    <3>1. \A id \in Rows(table) : agents[id] \in AgentRow
      BY <2>1, Existing DEF Rows, Provisioned, ProvInv
    <3> QED  BY <2>1, <3>1, ProvisioningAssumption DEF Row, AgentRow
  <2>2. CASE table # "agents"
    <3>1. \A id \in Rows(table) : txns[id] \in TxnRow
      BY <2>2 DEF Rows, ListTypes, TxnsOK
    <3> QED  BY <2>2, <3>1, ProvisioningAssumption DEF Row, TxnRow
  <2> QED  BY <2>1, <2>2
<1>5. ASSUME NEW f PROVE Matching(table, f) \subseteq Rows(table) /\ IsFiniteSet(Matching(table, f))
  <2>1. Matching(table, f) \subseteq Rows(table)
    BY DEF Matching
  <2> QED  BY <1>3, <2>1, FS_Subset
<1> QED  BY <1>1, <1>3, <1>4, <1>5 DEF IDs

LEMMA ListInvImplies ==
  ASSUME ListInv
  PROVE  TypeOK /\ TotalCoversPage /\ NothingMissed
<1>1. ProvTypeOK
  BY ProvInvImplies DEF ListInv
<1>2. \A id \in Rows("transactions") :
        txns[id] \in [owner: Provisioned, status: TxnStatuses, created: 0..MaxTime]
  BY DEF ListInv, ListTypes, TxnsOK, Rows, TxnRow, Provisioned
<1>3. walk # Idle =>
        /\ walk.pc \in {"list", "count", "answered", "ended"}
        /\ walk.limit \in 1..MaxLimit /\ walk.offset \in Nat /\ walk.total \in Nat
        /\ walk.page \subseteq walk.seen /\ Cardinality(walk.page) <= walk.limit
  BY DEF ListInv, ListTypes, Walk, WalkInv, WalkOK
<1>4. TypeOK
  BY <1>1, <1>2, <1>3 DEF TypeOK
<1>5. TotalCoversPage
  BY DEF ListInv, WalkInv, WalkOK, TotalCoversPage
<1>6. NothingMissed
  BY DEF ListInv, WalkInv, WalkOK, Ahead, Tied, NothingMissed
<1> QED  BY <1>4, <1>5, <1>6

\* Rows stay and keep their times.
TablesKept ==
  \A table \in Tables : \A id \in Rows(table) :
    id \in Rows(table)' /\ Row(table, id)'.created = Row(table, id).created

LEMMA MatchingFiniteNext ==
  ASSUME NEW table, NEW f PROVE IsFiniteSet(Matching(table, f))'
<1>1. Matching(table, f)' \subseteq AgentIDs \cup TxnIDs
  BY DEF Matching, Rows, Provisioned
<1>2. IsFiniteSet(AgentIDs \cup TxnIDs)
  BY ProvisioningAssumption, ListingAssumption, FS_Union
<1> QED  BY <1>1, <1>2, FS_Subset

\* A walk cannot be taken for none: it is at some listing.
LEMMA WalkOrIdle ==
  ASSUME NEW w \in Walk PROVE w # Idle /\ w.table \in Tables
  BY DEF Walk, Idle

\* While rows come and their statuses change, a walk loses nothing but what it records.
LEMMA WatchedOK ==
  ASSUME ListInv, ProvInv', TxnsOK', TablesKept, Watched
  PROVE  ListInv'
<1>1. CASE walk = Idle
  <2>1. walk' = Idle
    BY <1>1 DEF Watched
  <2> QED  BY <2>1 DEF ListInv, ListTypes, WalkInv
<1>2. CASE walk # Idle
  <2>1. walk \in Walk /\ WalkOK(walk, Matching(walk.table, walk.filter))
    BY <1>2 DEF ListInv, ListTypes, WalkInv
  <2>2. PICK t \in {walk.table}, f \in {walk.filter} :
          LET left == ~(Matching(t, f) \subseteq Matching(t, f)')
          IN walk' = [walk EXCEPT !.lost = @ \/ left, !.shrunk = @ \/ left]
    BY <1>2 DEF Watched
  <2> DEFINE left == ~(Matching(t, f) \subseteq Matching(t, f)')
  <2>3. walk' = [walk EXCEPT !.lost = @ \/ left, !.shrunk = @ \/ left] /\ t \in Tables
    BY <2>1, <2>2, WalkOrIdle
  <2> HIDE DEF left
  <2>4. walk' \in Walk
    BY <2>1, <2>3 DEF Walk
  <2>5. ListTypes'
    BY <2>4 DEF ListTypes
  <2>6. /\ walk'.table = t /\ walk'.filter = f /\ walk'.pc = walk.pc /\ walk'.page = walk.page
        /\ walk'.seen = walk.seen /\ walk'.owed = walk.owed /\ walk'.limit = walk.limit
        /\ walk'.offset = walk.offset /\ walk'.total = walk.total
        /\ walk'.lost = (walk.lost \/ left) /\ walk'.shrunk = (walk.shrunk \/ left)
    BY <2>1, <2>3, <2>2 DEF Walk
  <2>7. ASSUME ~left PROVE Matching(t, f) \subseteq Matching(t, f)'
    BY <2>7 DEF left
  <2>8. /\ Cardinality(Matching(t, f)) \in Nat /\ Cardinality(Matching(t, f))' \in Nat
        /\ ~left => Cardinality(Matching(t, f)) <= Cardinality(Matching(t, f))'
    <3>1. IsFiniteSet(Matching(t, f))
      BY <2>3, RowFacts DEF ListInv
    <3>2. IsFiniteSet(Matching(t, f))'
      BY MatchingFiniteNext
    <3> QED  BY <2>7, <3>1, <3>2, FS_Subset, FS_CardinalityType
  <2>9. ASSUME ~left, NEW id \in Matching(t, f)
        PROVE  /\ Tied(t, Matching(t, f), id) => Tied(t, Matching(t, f), id)'
               /\ Cardinality(Newer(t, Matching(t, f), id)) \in Nat
               /\ Cardinality(Newer(t, Matching(t, f), id))' \in Nat
               /\ Cardinality(Newer(t, Matching(t, f), id)) <= Cardinality(Newer(t, Matching(t, f), id))'
    <3>1. Matching(t, f) \subseteq Rows(t) /\ IsFiniteSet(Matching(t, f))'
      <4>1. Matching(t, f) \subseteq Rows(t)
        BY <2>3, RowFacts DEF ListInv
      <4> QED  BY <4>1, MatchingFiniteNext
    <3>2. \A x \in Matching(t, f) : x \in Matching(t, f)' /\ Row(t, x)'.created = Row(t, x).created
      BY <2>3, <2>7, <2>9, <3>1 DEF TablesKept
    <3>3. Newer(t, Matching(t, f), id) \subseteq Newer(t, Matching(t, f), id)'
      BY <2>9, <3>2 DEF Newer
    <3>4. IsFiniteSet(Newer(t, Matching(t, f), id)')
      <4>1. Newer(t, Matching(t, f), id)' \subseteq Matching(t, f)'
        BY DEF Newer
      <4> QED  BY <3>1, <4>1, FS_Subset
    <3>5. Tied(t, Matching(t, f), id) => Tied(t, Matching(t, f), id)'
      BY <2>9, <3>2 DEF Tied
    <3> QED  BY <3>3, <3>4, <3>5, FS_Subset, FS_CardinalityType
  <2>10. WalkOK(walk, Matching(walk.table, walk.filter))'
    <3>1. WalkOK(walk, Matching(t, f))
      BY <2>1, <2>2
    <3>2. ASSUME ~walk'.lost, NEW id \in walk'.owed
          PROVE  /\ id \in Matching(t, f)'
                 /\ (id \in walk.seen \/ Tied(t, Matching(t, f), id)' \/ Ahead(walk, Matching(t, f), id)')
      <4>1. ~left /\ ~walk.lost /\ id \in walk.owed
        BY <2>6, <3>2
      <4>2. id \in Matching(t, f) /\ (id \in walk.seen \/ Tied(t, Matching(t, f), id) \/ Ahead(walk, Matching(t, f), id))
        BY <2>2, <3>1, <4>1 DEF WalkOK
      <4>3. Ahead(walk, Matching(t, f), id) => Ahead(walk, Matching(t, f), id)'
        <5> DEFINE c == Cardinality(Newer(t, Matching(t, f), id))
                   d == Cardinality(Newer(t, Matching(t, f), id))'
        <5>1. c \in Nat /\ d \in Nat /\ c <= d
          BY <2>9, <4>1, <4>2
        <5>2. walk.offset \in Nat /\ walk.limit \in Int
          BY <2>1 DEF Walk
        <5>3. walk.table = t
          BY <2>2
        <5> HIDE DEF c, d
        <5>4. (walk.offset <= c => walk.offset <= d) /\ (walk.offset + walk.limit <= c => walk.offset + walk.limit <= d)
          BY <5>1, <5>2
        <5> QED  BY <2>6, <5>3, <5>4 DEF Ahead, c, d
      <4> QED  BY <2>7, <2>9, <4>1, <4>2, <4>3
    <3>3. walk'.page # {} /\ ~walk'.shrunk /\ walk'.pc = "count" =>
            walk'.offset + Cardinality(walk'.page) <= Cardinality(Matching(t, f))'
      <4>1. walk.offset \in Nat /\ Cardinality(walk.page) \in Nat
        BY <2>1 DEF Walk, WalkOK
      <4>2. ~walk'.shrunk => ~left /\ ~walk.shrunk
        BY <2>6
      <4> QED  BY <2>6, <2>8, <3>1, <4>1, <4>2 DEF WalkOK
    <3> QED  BY <2>1, <2>6, <3>2, <3>3 DEF WalkOK
  <2> QED  BY <2>5, <2>10 DEF ListInv, WalkInv
<1> QED  BY <1>1, <1>2

LEMMA ProvTablesKept ==
  ASSUME ProvInv, ProvNext, UNCHANGED txns
  PROVE  TablesKept
<1>1. ASSUME NEW id \in Rows("agents")
      PROVE  id \in Rows("agents")' /\ Row("agents", id)'.created = Row("agents", id).created
  BY <1>1, AgentsKept DEF Rows, Row, Provisioned
<1>2. ASSUME NEW id \in Rows("transactions")
      PROVE  /\ id \in Rows("transactions")'
             /\ Row("transactions", id)'.created = Row("transactions", id).created
  BY <1>2 DEF Rows, Row
<1> QED  BY <1>1, <1>2 DEF TablesKept, Tables

LEMMA TxnTablesKept ==
  ASSUME UNCHANGED agents, \A id \in TxnIDs : txns[id] # NoTxn =>
           txns'[id] # NoTxn /\ txns'[id].created = txns[id].created
  PROVE  TablesKept
<1>1. ASSUME NEW id \in Rows("agents")
      PROVE  id \in Rows("agents")' /\ Row("agents", id)'.created = Row("agents", id).created
  BY <1>1 DEF Rows, Row, Provisioned, Exists
<1>2. ASSUME NEW id \in Rows("transactions")
      PROVE  /\ id \in Rows("transactions")'
             /\ Row("transactions", id)'.created = Row("transactions", id).created
  BY <1>2 DEF Rows, Row
<1> QED  BY <1>1, <1>2 DEF TablesKept, Tables

LEMMA InsertTxnInv ==
  ASSUME ListInv, NEW id \in TxnIDs, NEW owner \in Provisioned, NEW status \in TxnStatuses,
         NEW t \in 0..now, InsertTxn(id, owner, status, t)
  PROVE  ListInv'
<1>1. ProvInv'
  BY ProvFrameInv DEF InsertTxn, ListInv
<1>2. t \in 0..MaxTime
  BY ProvisioningAssumption DEF ListInv, ProvInv, ProvTypes
<1> DEFINE row == [owner |-> owner, status |-> status, created |-> t]
<1>3. row \in TxnRow /\ row # NoTxn /\ row.owner = owner /\ owner \in AgentIDs
  <2>1. owner \in AgentIDs
    BY DEF Provisioned
  <2> QED  BY <1>2, <2>1 DEF TxnRow, NoTxn, TxnStatuses
<1>4. /\ txns' = [txns EXCEPT ![id] = row] /\ id \in toCome /\ toCome' = toCome \ {id}
      /\ agents' = agents
  BY DEF InsertTxn, provVars, dbVars
<1>5. \A x \in AgentIDs : Exists(x) <=> Exists(x)'
  BY <1>4 DEF Exists
<1>6. Exists(owner)
  BY DEF Provisioned
<1> HIDE DEF row
<1>7. TxnsOK'
  BY <1>3, <1>4, <1>5, <1>6 DEF ListInv, ListTypes, TxnsOK, TxnRow
<1>8. TablesKept
  BY <1>4, TxnTablesKept DEF ListInv, ListTypes, TxnsOK
<1> QED  BY <1>1, <1>7, <1>8, WatchedOK DEF InsertTxn

LEMMA DecideTxnInv ==
  ASSUME ListInv, NEW id \in TxnIDs, NEW status \in {"APPROVED", "DENIED"}, DecideTxn(id, status)
  PROVE  ListInv'
<1>1. ProvInv'
  BY ProvFrameInv DEF DecideTxn, ListInv
<1>2. txns[id] \in TxnRow
  BY DEF ListInv, ListTypes, TxnsOK, DecideTxn, NoTxn
<1>3. txns' = [txns EXCEPT ![id].status = status] /\ toCome' = toCome /\ agents' = agents
  BY DEF DecideTxn, provVars, dbVars
<1>4. /\ txns' \in [TxnIDs -> TxnRow \cup {NoTxn}]
      /\ txns'[id] # NoTxn /\ txns[id] # NoTxn /\ txns'[id].created = txns[id].created
      /\ txns'[id].owner = txns[id].owner
      /\ \A x \in TxnIDs \ {id} : txns'[x] = txns[x]
  BY <1>2, <1>3 DEF ListInv, ListTypes, TxnsOK, TxnRow, NoTxn, TxnStatuses, DecideTxn
<1>5. \A x \in AgentIDs : Exists(x) <=> Exists(x)'
  BY <1>3 DEF Exists
<1>6. \A x \in TxnIDs : txns[x] # NoTxn => txns[x].owner \in AgentIDs
  BY DEF ListInv, ListTypes, TxnsOK, TxnRow
<1>7. TxnsOK'
  BY <1>3, <1>4, <1>5, <1>6 DEF ListInv, ListTypes, TxnsOK
<1>8. TablesKept
  BY <1>3, <1>4, TxnTablesKept
<1> QED  BY <1>1, <1>7, <1>8, WatchedOK DEF DecideTxn

LEMMA ProvStepInv ==
  ASSUME ListInv, ProvNext, UNCHANGED <<txns, toCome>>, Watched
  PROVE  ListInv'
<1>1. ProvInv'
  BY ProvNextInv DEF ListInv
<1>2. \A id \in AgentIDs : Exists(id) => Exists(id)'
  BY AgentsKept DEF ListInv
<1>3. TxnsOK'
  BY <1>2 DEF ListInv, ListTypes, TxnsOK, TxnRow
<1> QED  BY <1>1, <1>3, ProvTablesKept, WatchedOK DEF ListInv

\* A step of the walk leaves the tables alone.
WalkStep == UNCHANGED <<provVars, txns, toCome>>

LEMMA WalkStepFacts ==
  ASSUME ListInv, WalkStep
  PROVE  /\ ProvInv' /\ TxnsOK' /\ agents' = agents /\ txns' = txns
         /\ \A table, f : Matching(table, f)' = Matching(table, f)
         /\ \A table, ids, id : Newer(table, ids, id)' = Newer(table, ids, id)
         /\ \A table, ids, id : Tied(table, ids, id)' = Tied(table, ids, id)
<1>1. ProvInv'
  BY ProvFrameInv DEF ListInv, WalkStep
<1>2. agents' = agents /\ txns' = txns /\ toCome' = toCome
  BY DEF WalkStep, provVars, dbVars
<1>3. TxnsOK'
  BY <1>2 DEF ListInv, ListTypes, TxnsOK, Exists
<1>4. ASSUME NEW table, NEW f PROVE Matching(table, f)' = Matching(table, f)
  BY <1>2 DEF Matching, Rows, Row, Provisioned, Exists
<1>5. ASSUME NEW table, NEW ids, NEW id
      PROVE  Newer(table, ids, id)' = Newer(table, ids, id) /\ Tied(table, ids, id)' = Tied(table, ids, id)
  BY <1>2 DEF Newer, Tied, Row
<1> QED  BY <1>1, <1>2, <1>3, <1>4, <1>5

LEMMA WalkStepInv ==
  ASSUME ListInv, WalkStep, NEW w \in Walk, walk' = w,
         WalkOK(w, Matching(w.table, w.filter))
  PROVE  ListInv'
<1>1. ProvInv' /\ TxnsOK' /\ agents' = agents /\ txns' = txns
  BY WalkStepFacts
<1>2. WalkOK(walk, Matching(walk.table, walk.filter))'
  BY <1>1 DEF WalkOK, Ahead, Newer, Tied, Matching, Rows, Row, Provisioned, Exists
<1> QED  BY <1>1, <1>2 DEF ListInv, ListTypes, WalkInv

LEMMA NewerType ==
  ASSUME ListInv, NEW table \in Tables, NEW f, NEW id
  PROVE  /\ IsFiniteSet(Matching(table, f)) /\ Matching(table, f) \subseteq IDs
         /\ Cardinality(Matching(table, f)) \in Nat
         /\ Cardinality(Newer(table, Matching(table, f), id)) \in Nat
<1>1. IsFiniteSet(Matching(table, f)) /\ Matching(table, f) \subseteq IDs
  BY RowFacts DEF ListInv
<1>2. Newer(table, Matching(table, f), id) \subseteq Matching(table, f)
  BY DEF Newer
<1> QED  BY <1>1, <1>2, FS_Subset, FS_CardinalityType

LEMMA StartWalkInv ==
  ASSUME ListInv, NEW table \in Tables, NEW f \in Filter, NEW rawLimit \in Int, NEW rawOffset \in Int,
         StartWalk(table, f, rawLimit, rawOffset)
  PROVE  ListInv'
<1>1. Limit(rawLimit) \in 1..MaxLimit /\ Offset(rawOffset) \in Nat
  BY ListingAssumption DEF Limit, Offset
<1>2. WalkStep
  BY DEF StartWalk, WalkStep
<1> DEFINE owed == {id \in Matching(table, f) : Offset(rawOffset) = 0}
           w == [pc |-> "list", table |-> table, filter |-> f,
                 limit |-> Limit(rawLimit), offset |-> Offset(rawOffset),
                 page |-> {}, total |-> 0, seen |-> {}, owed |-> owed,
                 lost |-> FALSE, shrunk |-> FALSE]
<1>3. walk' = w
  BY DEF StartWalk
<1>4. owed \subseteq IDs
  BY NewerType
<1>5. \A id \in owed : /\ id \in Matching(table, f)
                       /\ Offset(rawOffset) <= Cardinality(Newer(table, Matching(table, f), id))
  BY NewerType
<1>6. Cardinality({}) = 0
  BY FS_EmptySet
<1> HIDE DEF owed
<1>7. w \in Walk
  BY <1>1, <1>4 DEF Walk
<1>8. WalkOK(w, Matching(w.table, w.filter))
  BY <1>1, <1>5, <1>6 DEF WalkOK, Ahead
<1> HIDE DEF w
<1> QED  BY <1>2, <1>3, <1>7, <1>8, WalkStepInv

LEMMA ReadPageInv ==
  ASSUME ListInv, NEW table \in Tables, walk # Idle, ReadPage(table)
  PROVE  ListInv'
<1>1. walk \in Walk /\ WalkOK(walk, Matching(walk.table, walk.filter)) /\ walk.table = table
  BY DEF ListInv, ListTypes, WalkInv, ReadPage
<1> DEFINE f == walk.filter
           ids == Matching(table, f)
           n == Cardinality(ids)
<1>2. /\ IsFiniteSet(ids) /\ ids \subseteq IDs /\ n \in Nat
      /\ \A x \in ids : Row(table, x).created \in Int
      /\ \A id : Cardinality(Newer(table, ids, id)) \in Nat
  <2>1. \A x \in ids : Row(table, x).created \in Int
    BY RowFacts DEF ListInv
  <2> QED  BY <2>1, NewerType
<1>3. PICK s \in NewestFirst(table, ids) :
        walk' = [walk EXCEPT !.pc = "count", !.page = Page(s), !.seen = @ \cup Page(s),
                             !.shrunk = FALSE]
  BY Zenon DEF ReadPage
<1> DEFINE P == PageOf(s, walk.offset, walk.limit)
           w == [walk EXCEPT !.pc = "count", !.page = P, !.seen = @ \cup P, !.shrunk = FALSE]
<1>4. walk' = w
  BY <1>3 DEF Page, PageOf
<1>5. walk.offset \in Nat /\ walk.limit \in Nat \ {0} /\ walk.pc = "list"
  BY <1>1 DEF Walk, ReadPage
<1>6. /\ P \subseteq ids /\ Cardinality(P) \in Nat /\ Cardinality(P) <= walk.limit
      /\ P # {} => walk.offset + Cardinality(P) <= n
      /\ n >= walk.offset + walk.limit => Cardinality(P) = walk.limit
  <2> HIDE DEF ids
  <2> QED  BY <1>2, <1>5, PageFacts
<1>7. w \in Walk
  <2> HIDE DEF P, ids
  <2> QED  BY <1>1, <1>2, <1>6 DEF Walk
<1>8. /\ w.table = table /\ w.filter = f /\ w.pc = "count" /\ w.page = P /\ w.seen = walk.seen \cup P
      /\ w.owed = walk.owed /\ w.limit = walk.limit /\ w.offset = walk.offset /\ w.lost = walk.lost
  BY <1>1 DEF Walk
<1>9. ASSUME ~walk.lost, NEW id \in walk.owed, id \notin walk.seen, id \notin P, ~Tied(table, ids, id)
      PROVE  /\ walk.offset + walk.limit <= Cardinality(Newer(table, ids, id))
             /\ Cardinality(P) = walk.limit
  <2>1. id \in ids /\ walk.offset <= Cardinality(Newer(table, ids, id))
    BY <1>1, <1>5, <1>9 DEF WalkOK, Ahead
  <2> HIDE DEF ids
  <2>2. PICK i \in 1..n : s[i] = id
    BY <1>2, <2>1, OrderFacts
  <2>3. Cardinality(Newer(table, ids, id)) = i - 1
    BY <1>2, <1>9, <2>2, PlaceOf
  <2>4. DOMAIN s = 1..n
    BY <1>2, OrderFacts
  <2>5. i \notin walk.offset + 1 .. walk.offset + walk.limit
    BY <1>9, <2>2, <2>4 DEF PageOf
  <2>6. i \in Nat /\ walk.offset + walk.limit <= i - 1 /\ i <= n
    BY <1>2, <1>5, <2>1, <2>2, <2>3, <2>5
  <2> QED  BY <1>2, <1>5, <1>6, <2>3, <2>6
<1> HIDE DEF P, w
<1>10. WalkOK(w, Matching(w.table, w.filter))
  <2>1. ASSUME ~w.lost, NEW id \in w.owed
        PROVE  id \in ids /\ (id \in w.seen \/ Tied(table, ids, id) \/ Ahead(w, ids, id))
    <3>1. id \in ids
      BY <1>1, <1>8, <2>1 DEF WalkOK
    <3> QED  BY <1>8, <1>9, <2>1, <3>1 DEF Ahead
  <2> QED  BY <1>6, <1>8, <2>1 DEF WalkOK
<1>11. WalkStep
  BY DEF ReadPage, WalkStep
<1> QED  BY <1>4, <1>7, <1>10, <1>11, WalkStepInv

LEMMA ReadTotalInv ==
  ASSUME ListInv, NEW table \in Tables, walk # Idle, ReadTotal(table)
  PROVE  ListInv'
<1>1. walk \in Walk /\ WalkOK(walk, Matching(walk.table, walk.filter)) /\ walk.table \in Tables
  BY WalkOrIdle DEF ListInv, ListTypes, WalkInv
<1> DEFINE ids == Matching(walk.table, walk.filter)
           w == [walk EXCEPT !.pc = "answered", !.total = Total(walk.table, walk.filter)]
<1>2. walk' = w /\ walk.pc = "count" /\ WalkStep
  BY DEF ReadTotal, WalkStep
<1>3. Total(walk.table, walk.filter) = Cardinality(ids) /\ Cardinality(ids) \in Nat
  BY <1>1, NewerType DEF Total
<1> HIDE DEF ids
<1>4. /\ w \in Walk /\ w.table = walk.table /\ w.filter = walk.filter /\ w.pc = "answered"
      /\ w.page = walk.page /\ w.seen = walk.seen /\ w.owed = walk.owed /\ w.limit = walk.limit
      /\ w.offset = walk.offset /\ w.lost = walk.lost /\ w.shrunk = walk.shrunk
      /\ w.total = Cardinality(ids)
  BY <1>1, <1>3 DEF Walk
<1> HIDE DEF w
<1>5. WalkOK(w, ids)
  <2>1. WalkOK(walk, ids)
    BY <1>1 DEF ids
  <2> QED  BY <1>2, <1>4, <2>1 DEF WalkOK, Ahead
<1> QED  BY <1>2, <1>4, <1>5, WalkStepInv DEF ids

LEMMA NextPageInv ==
  ASSUME ListInv, walk # Idle, NextPage
  PROVE  ListInv'
<1>1. walk \in Walk /\ WalkOK(walk, Matching(walk.table, walk.filter)) /\ walk.pc = "answered"
  BY DEF ListInv, ListTypes, WalkInv, NextPage
<1> DEFINE ids == Matching(walk.table, walk.filter)
           more == [walk EXCEPT !.pc = "list", !.offset = @ + walk.limit, !.page = {}, !.total = 0]
           last == [walk EXCEPT !.pc = "ended", !.page = {}, !.total = 0]
<1>2. WalkStep
  BY DEF NextPage, WalkStep
<1>3. Cardinality({}) = 0
  BY FS_EmptySet
<1> HIDE DEF ids
<1>4. CASE Cardinality(walk.page) = walk.limit
  <2>1. walk' = more
    BY <1>4 DEF NextPage
  <2>2. /\ more \in Walk /\ more.table = walk.table /\ more.filter = walk.filter /\ more.pc = "list"
        /\ more.page = {} /\ more.seen = walk.seen /\ more.owed = walk.owed
        /\ more.limit = walk.limit /\ more.limit \in Nat
        /\ more.offset = walk.offset + walk.limit /\ more.lost = walk.lost
    <3>1. /\ walk.limit \in Nat /\ walk.limit \in 1..MaxLimit /\ walk.offset \in Nat
          /\ {} \in SUBSET IDs /\ 0 \in Nat
      BY <1>1, ListingAssumption DEF Walk
    <3>2. walk.offset + walk.limit \in Nat
      BY <3>1
    <3>3. more \in Walk
      <4> HIDE DEF IDs, Tables, Filter
      <4> QED  BY <1>1, <3>1, <3>2 DEF Walk
    <3> QED  BY <1>1, <3>1, <3>3 DEF Walk
  <2> HIDE DEF more
  <2>3. WalkOK(more, ids)
    <3>1. WalkOK(walk, ids)
      BY <1>1 DEF ids
    <3> QED  BY <1>1, <1>3, <2>2, <3>1 DEF WalkOK, Ahead
  <2> QED  BY <1>2, <2>1, <2>2, <2>3, WalkStepInv DEF ids
<1>5. CASE Cardinality(walk.page) # walk.limit
  <2>1. walk' = last
    BY <1>5 DEF NextPage
  <2>2. /\ last \in Walk /\ last.table = walk.table /\ last.filter = walk.filter /\ last.pc = "ended"
        /\ last.page = {} /\ last.seen = walk.seen /\ last.owed = walk.owed
        /\ last.limit = walk.limit /\ last.limit \in Nat /\ last.lost = walk.lost
    <3>1. /\ walk.limit \in Nat /\ walk.limit \in 1..MaxLimit /\ walk.offset \in Nat
          /\ {} \in SUBSET IDs /\ 0 \in Nat
      BY <1>1, ListingAssumption DEF Walk
    <3>2. walk.offset + walk.limit \in Nat
      BY <3>1
    <3>3. last \in Walk
      <4> HIDE DEF IDs, Tables, Filter
      <4> QED  BY <1>1, <3>1, <3>2 DEF Walk
    <3> QED  BY <1>1, <3>1, <3>3 DEF Walk
  <2> HIDE DEF last
  <2>3. WalkOK(last, ids)
    <3>1. WalkOK(walk, ids)
      BY <1>1 DEF ids
    <3> QED  BY <1>1, <1>3, <1>5, <2>2, <3>1 DEF WalkOK, Ahead
  <2> QED  BY <1>2, <2>1, <2>2, <2>3, WalkStepInv DEF ids
<1> QED  BY <1>4, <1>5

LEMMA QuitInv ==
  ASSUME ListInv, Quit
  PROVE  ListInv'
<1>1. WalkStep /\ walk' = Idle
  BY DEF Quit, WalkStep
<1> QED  BY <1>1, WalkStepFacts DEF ListInv, ListTypes, WalkInv

LEMMA ListNextInv ==
  ASSUME ListInv, ListNext
  PROVE  ListInv'
<1>1. \A label : walk.pc = label /\ label # "idle" => walk # Idle
  BY DEF Idle
<1>2. CASE ListAgents \/ ListTransactions
  <2>1. PICK table \in Tables : ReadPage(table)
    BY <1>2 DEF ListAgents, ListTransactions, Tables
  <2>2. walk # Idle
    BY <1>1, <2>1 DEF ReadPage
  <2> QED  BY <2>1, <2>2, ReadPageInv
<1>3. CASE CountAgents \/ CountTransactions
  <2>1. PICK table \in Tables : ReadTotal(table)
    BY <1>3 DEF CountAgents, CountTransactions, Tables
  <2>2. walk # Idle
    BY <1>1, <2>1 DEF ReadTotal
  <2> QED  BY <2>1, <2>2, ReadTotalInv
<1>4. CASE NextPage
  <2>1. walk # Idle
    BY <1>1, <1>4 DEF NextPage
  <2> QED  BY <1>4, <2>1, NextPageInv
<1>5. CASE Quit
  BY <1>5, QuitInv
<1>6. ASSUME NEW l \in RawLimits, NEW o \in RawOffsets, NEW f \in AgentFilters,
             StartWalk("agents", f, l, o)
      PROVE  ListInv'
  <2>1. f \in Filter
    <3>1. MaxTime \in Nat /\ {0} \subseteq Nat
      BY ProvisioningAssumption
    <3> QED  BY <1>6, <3>1 DEF AgentFilters, Filter
  <2> QED  BY <1>6, <2>1, ListingAssumption, StartWalkInv DEF Tables
<1>7. ASSUME NEW l \in RawLimits, NEW o \in RawOffsets, NEW f \in TxnFilters,
             StartWalk("transactions", f, l, o)
      PROVE  ListInv'
  <2>1. f \in Filter
    <3>1. MaxTime \in Nat /\ {0, 1} \subseteq Nat /\ Provisioned \subseteq AgentIDs
      BY ProvisioningAssumption DEF Provisioned
    <3> QED  BY <1>7, <3>1 DEF TxnFilters, Filter
  <2> QED  BY <1>7, <2>1, ListingAssumption, StartWalkInv DEF Tables
<1>8. ASSUME NEW id \in TxnIDs, NEW status \in {"APPROVED", "DENIED"}, DecideTxn(id, status)
      PROVE  ListInv'
  BY <1>8, DecideTxnInv
<1>9. ASSUME NEW id \in TxnIDs, NEW owner \in Provisioned, NEW status \in TxnStatuses,
             NEW t \in 0..now, InsertTxn(id, owner, status, t)
      PROVE  ListInv'
  BY <1>9, InsertTxnInv
<1> QED  BY <1>2, <1>3, <1>4, <1>5, <1>6, <1>7, <1>8, <1>9 DEF ListNext

LEMMA OneAgentInv ==
  ASSUME OneAgent
  PROVE  ProvInv
<1>1. PICK u \in Users, id \in AgentIDs, k \in Keys, c \in Calls :
        /\ users = {u}
        /\ agents = [[x \in AgentIDs |-> NoAgent] EXCEPT ![id] =
                       [owner |-> u, key |-> k, status |-> "active", created |-> 0, by |-> c]]
        /\ policies = [x \in AgentIDs |-> 0]
        /\ now = 0
        /\ pc = [x \in Calls |-> "done"]
        /\ agentID = [x \in Calls |-> IF x = c THEN id ELSE None]
        /\ userID = [x \in Calls |-> IF x = c THEN u ELSE None]
        /\ key = [x \in Calls |-> None]
        /\ tries = [x \in Calls |-> 0]
        /\ wrote = [x \in Calls |-> 0]
        /\ answer = [x \in Calls |-> IF x = c THEN k ELSE None]
  BY Zenon DEF OneAgent
<1> DEFINE row == [owner |-> u, key |-> k, status |-> "active", created |-> 0, by |-> c]
<1>2. row \in AgentRow /\ row # NoAgent /\ row.by = c /\ row.key = k
  BY <1>1, ProvisioningAssumption DEF AgentRow, NoAgent
<1>3. agents = [x \in AgentIDs |-> IF x = id THEN row ELSE NoAgent]
  BY <1>1
<1> HIDE DEF row
<1>4. ProvTypes
  BY <1>1, <1>2, <1>3, ProvisioningAssumption DEF ProvTypes
<1>5. \A x \in AgentIDs : Exists(x) <=> x = id
  BY <1>2, <1>3 DEF Exists
<1>6. \A x \in AgentIDs : Exists(x) => RowOK(x)
  BY <1>1, <1>2, <1>3, <1>5 DEF RowOK
<1>7. \A d \in Calls : CallOK(d)
  BY <1>1, <1>2, <1>3, <1>5, ProvisioningAssumption DEF CallOK, CreateOK, UpsertOK, Creates
<1> QED  BY <1>4, <1>6, <1>7 DEF ProvInv

LEMMA InitInv == Init => ListInv
<1> SUFFICES ASSUME Init PROVE ListInv
  OBVIOUS
<1>1. ProvInv
  BY ProvInitInv, OneAgentInv DEF Init
<1>2. walk = Idle /\ TxnsOK
  BY DEF Init, TxnsOK
<1> QED  BY <1>1, <1>2 DEF ListInv, ListTypes, WalkInv

LEMMA NextInv == ListInv /\ [Next]_vars => ListInv'
<1>1. ASSUME ListInv, Next PROVE ListInv'
  BY <1>1, ListNextInv, ProvStepInv DEF Next
<1>2. ASSUME ListInv, UNCHANGED vars PROVE ListInv'
  <2>1. WalkStep /\ walk' = walk
    BY <1>2 DEF vars, walkVars, WalkStep
  <2>2. CASE walk = Idle
    BY <1>2, <2>1, <2>2, WalkStepFacts DEF ListInv, ListTypes, WalkInv
  <2>3. CASE walk # Idle
    <3>1. walk \in Walk /\ WalkOK(walk, Matching(walk.table, walk.filter))
      BY <1>2, <2>3 DEF ListInv, ListTypes, WalkInv
    <3> QED  BY <1>2, <2>1, <3>1, WalkStepInv
  <2> QED  BY <2>2, <2>3
<1> QED  BY <1>1, <1>2

LEMMA ListSpecInv == Spec => []ListInv
  BY InitInv, NextInv, PTL DEF Spec

(***************************************************************************)
(* The theorems                                                            *)
(***************************************************************************)

\* The tables, the calls and the walk keep their types: every transaction is one of an
\* agent that exists, and a page is never longer than its limit, however many ties and
\* inserts there are (List and Count of both repositories, ParsePagination).
THEOREM TypeCorrect == Spec => []TypeOK
<1>1. ListInv => TypeOK
  BY ListInvImplies
<1> QED  BY <1>1, ListSpecInv, PTL

\* One POST /agents makes one agent at most, whatever is retried (CreateAgent).
THEOREM AgentPerCall == Spec => []OneAgentPerCall
<1>1. ListInv => OneAgentPerCall
  BY ProvInvImplies DEF ListInv
<1> QED  BY <1>1, ListSpecInv, PTL

\* The key that POST /agents answers opens the agent it created and no other (CreateAgent).
THEOREM OwnKey == Spec => []AnsweredKeyIsOwn
<1>1. ListInv => AnsweredKeyIsOwn
  BY ProvInvImplies DEF ListInv
<1> QED  BY <1>1, ListSpecInv, PTL

\* POST /policies answers the policy it wrote or a later one (UpsertPolicy).
THEOREM FreshPolicy == Spec => []AnswerNotStale
<1>1. ListInv => AnswerNotStale
  BY ProvInvImplies DEF ListInv
<1> QED  BY <1>1, ListSpecInv, PTL

\* A walk from the first page to the last shows every row that was there when it began,
\* while rows come and shift the pages, unless a row left the filter or ties with it.
THEOREM WalkComplete == Spec => []NothingMissed
<1>1. ListInv => NothingMissed
  BY ListInvImplies
<1> QED  BY <1>1, ListSpecInv, PTL

\* The total answered covers the page it comes with, although it is counted later,
\* unless a row left the filter in between.
THEOREM CountCoversPage == Spec => []TotalCoversPage
<1>1. ListInv => TotalCoversPage
  BY ListInvImplies
<1> QED  BY <1>1, ListSpecInv, PTL
=============================================================================
