---------------------------- MODULE Provisioning ----------------------------
(***************************************************************************)
(* POST /users, POST /agents and POST /policies: single statements, each   *)
(* in a transaction of its own, which the driver may send twice and whose  *)
(* acknowledgement may be lost.                                            *)
(***************************************************************************)
EXTENDS Integers, FiniteSets

CONSTANTS
  Users, AgentIDs, Keys,   \* what may be drawn for users, agents and API keys
  Calls,                   \* handlers; each serves one call
  MaxTries,                \* keys tried by one call (3 in the code)
  MaxAgents,               \* bound on the rows of agents
  MaxTime,                 \* bound on the clock
  None

ASSUME ProvisioningAssumption ==
  /\ MaxTries \in Nat \ {0} /\ MaxAgents \in Nat /\ MaxTime \in Nat
  /\ IsFiniteSet(AgentIDs)
  /\ None \notin AgentIDs \cup Keys \cup Users

VARIABLES
  users,      \* the rows of users
  agents,     \* agents: owner, key (by its hash), status, created_at; history: by whom
  policies,   \* how many times the policy of an agent was written
  now,        \* the database's clock
  pc, agentID, userID, key, tries,   \* the state of a call
  wrote,      \* history: the version its upsert wrote
  answer      \* the key or the policy version answered, None for an error

dbVars    == <<users, agents, policies, now>>
callVars  == <<pc, agentID, userID, key, tries, wrote, answer>>
provVars  == <<dbVars, callVars>>

NoAgent == [owner |-> None, key |-> None, status |-> "none",
            created |-> 0, by |-> None]
Exists(id) == agents[id] # NoAgent
Provisioned == {id \in AgentIDs : Exists(id)}

ProvInit ==
  /\ users = {}
  /\ agents = [id \in AgentIDs |-> NoAgent]
  /\ policies = [id \in AgentIDs |-> 0]
  /\ now = 0
  /\ pc = [c \in Calls |-> "idle"]
  /\ agentID = [c \in Calls |-> None]
  /\ userID = [c \in Calls |-> None]
  /\ key = [c \in Calls |-> None]
  /\ tries = [c \in Calls |-> 0]
  /\ wrote = [c \in Calls |-> 0]
  /\ answer = [c \in Calls |-> None]

Goto(c, label) == pc' = [pc EXCEPT ![c] = label]
\* The call returns; its locals are gone.
Reply(c, a) ==
  /\ Goto(c, "done")
  /\ answer' = [answer EXCEPT ![c] = a]
  /\ key' = [key EXCEPT ![c] = None]
  /\ tries' = [tries EXCEPT ![c] = 0]

\* POST /users, with its INSERT ... RETURNING: the database draws the id.
CreateUser ==
  /\ \E u \in Users \ users : users' = users \cup {u}
  /\ UNCHANGED <<agents, policies, now, callVars>>

\* Ids are UUIDs: no two calls draw the same.
FreshID(id) == ~Exists(id) /\ \A c \in Calls : agentID[c] # id

\* POST /agents: the user must exist, and the id is drawn once, before the loop.
CreateAgent(c, u) ==
  /\ pc[c] = "idle"
  /\ userID' = [userID EXCEPT ![c] = u]
  /\ \/ /\ u \notin users
        /\ Reply(c, None)
        /\ UNCHANGED agentID
     \/ /\ u \in users
        /\ \E id \in AgentIDs : FreshID(id) /\ agentID' = [agentID EXCEPT ![c] = id]
        /\ Goto(c, "generate")
        /\ UNCHANGED <<key, tries, answer>>
  /\ UNCHANGED <<dbVars, wrote>>

\* Mutant: the id, too, is drawn for each try.
GenerateBoth(c) ==
  /\ pc[c] = "generate"
  /\ \E k \in Keys : key' = [key EXCEPT ![c] = k]
  /\ \E id \in AgentIDs : FreshID(id) /\ agentID' = [agentID EXCEPT ![c] = id]
  /\ tries' = [tries EXCEPT ![c] = @ + 1]
  /\ Goto(c, "insert")
  /\ UNCHANGED <<dbVars, userID, wrote, answer>>

Generate(c) ==
  /\ pc[c] = "generate"
  /\ \E k \in Keys : key' = [key EXCEPT ![c] = k]
  /\ tries' = [tries EXCEPT ![c] = @ + 1]
  /\ Goto(c, "insert")
  /\ UNCHANGED <<dbVars, agentID, userID, wrote, answer>>

\* 23505: the id or the key's hash is in the table.
Duplicate(c) == Exists(agentID[c]) \/ \E id \in AgentIDs : agents[id].key = key[c]

\* The row as it is committed; created_at is when its statement began.
Inserted(c) ==
  /\ ~Duplicate(c)
  /\ Cardinality(Provisioned) < MaxAgents
  /\ \E t \in 0..now :
       agents' = [agents EXCEPT ![agentID[c]] =
                    [owner |-> userID[c], key |-> key[c], status |-> "active",
                     created |-> t, by |-> c]]
  /\ UNCHANGED <<users, policies, now>>

Insert(c) ==
  /\ pc[c] = "insert"
  /\ Inserted(c)
  /\ Reply(c, key[c])
  /\ UNCHANGED <<agentID, userID, wrote>>

\* The connection ends after the row was committed: lib/pq reports a bad connection
\* and database/sql sends the statement again, or gives up (InsertFails).
InsertUnacked(c) ==
  /\ pc[c] = "insert"
  /\ Inserted(c)
  /\ UNCHANGED callVars

\* Mutant: a duplicate is taken for this call's own row.
RetryAccepts(c) ==
  /\ pc[c] = "insert" /\ Duplicate(c)
  /\ Reply(c, key[c])
  /\ UNCHANGED <<dbVars, agentID, userID, wrote>>

\* On 23505 another key is tried, whatever was the duplicate, three times in all.
Retry(c) ==
  /\ pc[c] = "insert" /\ Duplicate(c)
  /\ \/ tries[c] < MaxTries /\ Goto(c, "generate") /\ UNCHANGED <<key, tries, answer>>
     \/ tries[c] = MaxTries /\ Reply(c, None)
  /\ UNCHANGED <<dbVars, agentID, userID, wrote>>

\* Any other error ends the call.
InsertFails(c) ==
  /\ pc[c] = "insert"
  /\ Reply(c, None)
  /\ UNCHANGED <<dbVars, agentID, userID, wrote>>

\* POST /policies: the agent must exist.
CheckAgent(c, id) ==
  /\ pc[c] = "idle"
  /\ agentID' = [agentID EXCEPT ![c] = id]
  /\ IF Exists(id) THEN Goto(c, "upsert") /\ UNCHANGED <<key, tries, answer>>
                   ELSE Reply(c, None)
  /\ UNCHANGED <<dbVars, userID, wrote>>

Written(c) ==
  /\ policies' = [policies EXCEPT ![agentID[c]] = @ + 1]
  /\ wrote' = [wrote EXCEPT ![c] = policies[agentID[c]] + 1]

\* Mutant: the policy is read before it is written.
UpsertReadFirst(c) ==
  /\ pc[c] = "upsert"
  /\ Written(c)
  /\ Reply(c, policies[agentID[c]])
  /\ UNCHANGED <<users, agents, now, agentID, userID>>

\* INSERT ... ON CONFLICT DO UPDATE. (Its row locks are in Governor.)
Upsert(c) ==
  /\ pc[c] = "upsert"
  /\ Written(c)
  /\ Goto(c, "readBack")
  /\ UNCHANGED <<users, agents, now, agentID, userID, key, tries, answer>>

\* As InsertUnacked: written, and sent again or given up.
UpsertUnacked(c) ==
  /\ pc[c] = "upsert" /\ wrote[c] = 0
  /\ Written(c)
  /\ UNCHANGED <<users, agents, now, pc, agentID, userID, key, tries, answer>>

\* What is answered is read by a statement of its own.
ReadBack(c) ==
  /\ pc[c] = "readBack"
  /\ Reply(c, policies[agentID[c]])
  /\ UNCHANGED <<dbVars, agentID, userID, wrote>>

PolicyFails(c) ==
  /\ pc[c] \in {"upsert", "readBack"}
  /\ Reply(c, None)
  /\ UNCHANGED <<dbVars, agentID, userID, wrote>>

\* The operator freezes or unfreezes an agent.
SetStatus(id, s) ==
  /\ Exists(id) /\ agents[id].status # s
  /\ agents' = [agents EXCEPT ![id].status = s]
  /\ UNCHANGED <<users, policies, now, callVars>>

Tick ==
  /\ now < MaxTime
  /\ now' = now + 1
  /\ UNCHANGED <<users, agents, policies, callVars>>

CallStep(c) ==
  \/ \E u \in Users : CreateAgent(c, u)
  \/ \E id \in AgentIDs : CheckAgent(c, id)
  \/ Generate(c) \/ Insert(c) \/ InsertUnacked(c) \/ Retry(c) \/ InsertFails(c)
  \/ Upsert(c) \/ UpsertUnacked(c) \/ ReadBack(c) \/ PolicyFails(c)

ProvNext ==
  \/ CreateUser
  \/ \E c \in Calls : CallStep(c)
  \/ \E id \in AgentIDs, s \in {"active", "frozen"} : SetStatus(id, s)
  \/ Tick

(***************************************************************************)
(* Properties                                                              *)
(***************************************************************************)

Creates(c) == userID[c] # None

ProvTypeOK ==
  /\ users \subseteq Users
  /\ \A id \in Provisioned :
       agents[id] \in [owner: Users, key: Keys, status: {"active", "frozen"},
                       created: 0..MaxTime, by: Calls]
  /\ policies \in [AgentIDs -> Nat]
  /\ now \in 0..MaxTime
  /\ pc \in [Calls -> {"idle", "generate", "insert", "upsert", "readBack", "done"}]
  /\ \A c \in Calls : /\ agentID[c] \in AgentIDs \cup {None}
                      /\ key[c] \in Keys \cup {None}
                      /\ userID[c] \in Users \cup {None}
  /\ tries \in [Calls -> 0..MaxTries]

\* One POST /agents makes one agent at most, even when its INSERT is sent again
\* after it took effect and each try draws another key.
OneAgentPerCall ==
  \A x, y \in Provisioned : agents[x].by = agents[y].by => x = y

\* The key a call answers opens the agent it created and no other: its retries
\* never answer a key that was not stored, or that is somebody else's.
AnsweredKeyIsOwn ==
  \A c \in Calls :
    Creates(c) /\ answer[c] # None =>
      {id \in Provisioned : agents[id].key = answer[c]} = {agentID[c]}

\* The policy that POST /policies answers is the one it wrote or a later one,
\* although others write between its two statements.
AnswerNotStale ==
  \A c \in Calls : ~Creates(c) /\ answer[c] # None => answer[c] >= wrote[c] /\ wrote[c] > 0
=============================================================================
