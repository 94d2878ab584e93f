------------------------------ MODULE Listing ------------------------------
(***************************************************************************)
(* GET /agents and GET /transactions: a client walks through the pages of  *)
(* a listing while rows are inserted and their statuses change. A page and *)
(* its total are two statements.                                           *)
(***************************************************************************)
EXTENDS Provisioning

CONSTANTS
  TxnIDs,                  \* rows of transactions: bounds the inserts
  DefaultLimit, MaxLimit,  \* of a page (100 and 1000 in the code)
  RawLimits, RawOffsets,   \* what clients send
  Owners, Statuses,        \* the filters they use, All among them
  All                      \* no filter

ASSUME ListingAssumption ==
  /\ MaxLimit \in Nat /\ DefaultLimit \in 1..MaxLimit
  /\ IsFiniteSet(TxnIDs)
  /\ RawLimits \subseteq Int /\ RawOffsets \subseteq Int
  /\ Owners \subseteq Users \cup {All}

VARIABLES
  txns,   \* transactions: agent, status and created_at
  toCome, \* bound: the transactions still to come
  walk    \* the client's walk, and its handler's state
walkVars == <<txns, toCome, walk>>
vars == <<provVars, walkVars>>

NoTxn == [owner |-> None, status |-> "none", created |-> 0]

AgentStatuses == {"active", "frozen"}
TxnStatuses == {"APPROVED", "DENIED", "PENDING_APPROVAL"}

\* The rows of a listing's table.
Rows(table) == IF table = "agents" THEN Provisioned
                                   ELSE {id \in TxnIDs : txns[id] # NoTxn}
Row(table, id) == IF table = "agents" THEN agents[id] ELSE txns[id]

\* WHERE: owner is the user of an agent or the agent of a transaction.
Matches(row, f) ==
  /\ f.owner \in {All, row.owner}
  /\ f.status \in {All, row.status}
  /\ row.created \in f.from .. f.to
Matching(table, f) == {id \in Rows(table) : Matches(Row(table, id), f)}

\* Mutant: no upper bound.
LimitUnbounded(raw) == IF raw <= 0 THEN DefaultLimit ELSE raw

\* ParsePagination: the defaults, then Validate.
Limit(raw) == IF raw <= 0 THEN DefaultLimit ELSE IF raw > MaxLimit THEN MaxLimit ELSE raw
Offset(raw) == IF raw < 0 THEN 0 ELSE raw

\* Any user may list agents; an agent, authenticated by its key, lists its own
\* transactions. Only these have a date range.
AgentFilters == [owner: Owners, status: Statuses \ TxnStatuses, from: {0}, to: {MaxTime}]
TxnFilters == [owner: Provisioned, status: Statuses \ AgentStatuses, from: {0, 1}, to: {MaxTime}]
Admitted(table, f) == table = "transactions" => agents[f.owner].status # "frozen"

Idle == [pc |-> "idle"]

\* One agent is there, and its provisioning is over.
OneAgent ==
  \E u \in Users, id \in AgentIDs, k \in Keys, c \in Calls :
    /\ users = {u}
    /\ agents = [[x \in AgentIDs |-> NoAgent] EXCEPT ![id] =
                   [owner |-> u, key |-> k, status |-> "active", created |-> 0, by |-> c]]
    /\ policies = [x \in AgentIDs |-> 0]
    /\ now = 0
    /\ pc = [x \in Calls |-> "done"]
    /\ agentID = [x \in Calls |-> IF x = c THEN id ELSE None]
    /\ userID = [x \in Calls |-> IF x = c THEN u ELSE None]
    /\ key = [x \in Calls |-> None]
    /\ tries = [x \in Calls |-> 0]
    /\ wrote = [x \in Calls |-> 0]
    /\ answer = [x \in Calls |-> IF x = c THEN k ELSE None]

\* Either agents are provisioned while they are listed, or one agent's transactions
\* come while they are.
Init ==
  /\ \/ ProvInit /\ toCome = {}
     \/ OneAgent /\ toCome = TxnIDs
  /\ txns = [id \in TxnIDs |-> NoTxn]
  /\ walk = Idle

(***************************************************************************)
(* The table of transactions                                               *)
(***************************************************************************)

\* History of a walk: whether a row has left its filter since it began (lost), and
\* since its last page was read (shrunk).
Watched ==
  IF walk = Idle THEN UNCHANGED walk
  ELSE \E table \in {walk.table}, f \in {walk.filter} :
         LET left == ~(Matching(table, f) \subseteq Matching(table, f)')
         IN walk' = [walk EXCEPT !.lost = @ \/ left, !.shrunk = @ \/ left]

\* A spend commits; created_at is when its transaction began.
InsertTxn(id, owner, status, t) ==
  /\ id \in toCome
  /\ toCome' = toCome \ {id}
  /\ txns' = [txns EXCEPT ![id] = [owner |-> owner, status |-> status, created |-> t]]
  /\ UNCHANGED provVars
  /\ Watched

\* A person decides a pending transaction.
DecideTxn(id, status) ==
  /\ txns[id].status = "PENDING_APPROVAL"
  /\ txns' = [txns EXCEPT ![id].status = status]
  /\ UNCHANGED <<provVars, toCome>>
  /\ Watched

(***************************************************************************)
(* A listing                                                               *)
(***************************************************************************)

StartWalk(table, f, rawLimit, rawOffset) ==
  /\ walk = Idle
  /\ Admitted(table, f)
  /\ walk' = [pc |-> "list", table |-> table, filter |-> f,
              limit |-> Limit(rawLimit), offset |-> Offset(rawOffset),
              page |-> {}, total |-> 0,
              seen |-> {}, owed |-> {id \in Matching(table, f) : Offset(rawOffset) = 0},
              lost |-> FALSE, shrunk |-> FALSE]
  /\ UNCHANGED <<provVars, txns, toCome>>

\* Mutant: no ORDER BY.
InNoOrder(table, ids) ==
  {s \in [1..Cardinality(ids) -> ids] : \A i, j \in DOMAIN s : i < j => s[i] # s[j]}

\* ORDER BY created_at DESC: the order of rows of one time may be another each time.
NewestFirst(table, ids) ==
  {s \in [1..Cardinality(ids) -> ids] :
     \A i, j \in DOMAIN s :
       i < j => s[i] # s[j] /\ Row(table, s[i]).created >= Row(table, s[j]).created}

\* LIMIT and OFFSET
Page(s) == {s[i] : i \in DOMAIN s \cap (walk.offset + 1 .. walk.offset + walk.limit)}

ReadPage(table) ==
  /\ walk.pc = "list" /\ walk.table = table
  /\ \E s \in NewestFirst(table, Matching(table, walk.filter)) :
       walk' = [walk EXCEPT !.pc = "count", !.page = Page(s), !.seen = @ \cup Page(s),
                            !.shrunk = FALSE]
  /\ UNCHANGED <<provVars, txns, toCome>>

\* Mutant: the end of the date range is left out.
TotalOpen(table, f) == Cardinality({id \in Matching(table, f) : Row(table, id).created < f.to})

Total(table, f) == Cardinality(Matching(table, f))

ReadTotal(table) ==
  /\ walk.pc = "count" /\ walk.table = table
  /\ walk' = [walk EXCEPT !.pc = "answered", !.total = Total(table, walk.filter)]
  /\ UNCHANGED <<provVars, txns, toCome>>

ListAgents        == ReadPage("agents")
CountAgents       == ReadTotal("agents")
ListTransactions  == ReadPage("transactions")
CountTransactions == ReadTotal("transactions")

\* The client asks for what follows a full page, by the limit it was answered;
\* a shorter page is the last. It may also give up, and is turned away if frozen.
NextPage ==
  /\ walk.pc = "answered"
  /\ IF Cardinality(walk.page) = walk.limit
       THEN /\ Admitted(walk.table, walk.filter)
            /\ walk' = [walk EXCEPT !.pc = "list", !.offset = @ + walk.limit,
                                     !.page = {}, !.total = 0]
       ELSE walk' = [walk EXCEPT !.pc = "ended", !.page = {}, !.total = 0]
  /\ UNCHANGED <<provVars, txns, toCome>>

Quit ==
  /\ walk # Idle
  /\ walk' = Idle
  /\ UNCHANGED <<provVars, txns, toCome>>

ListNext ==
  \/ \E id \in TxnIDs :
       \/ \E owner \in Provisioned, status \in TxnStatuses, t \in 0..now :
            InsertTxn(id, owner, status, t)
       \/ \E status \in {"APPROVED", "DENIED"} : DecideTxn(id, status)
  \/ \E l \in RawLimits, o \in RawOffsets :
       \/ \E f \in AgentFilters : StartWalk("agents", f, l, o)
       \/ \E f \in TxnFilters : StartWalk("transactions", f, l, o)
  \/ ListAgents \/ CountAgents \/ ListTransactions \/ CountTransactions
  \/ NextPage \/ Quit

Next == \/ ListNext
        \/ ProvNext /\ UNCHANGED <<txns, toCome>> /\ Watched

Spec == Init /\ [][Next]_vars

(***************************************************************************)
(* Properties                                                              *)
(***************************************************************************)

TypeOK ==
  /\ ProvTypeOK
  /\ \A id \in Rows("transactions") :
       txns[id] \in [owner: Provisioned, status: TxnStatuses, created: 0..MaxTime]
  /\ walk # Idle =>
       /\ walk.pc \in {"list", "count", "answered", "ended"}
       /\ walk.limit \in 1..MaxLimit /\ walk.offset \in Nat /\ walk.total \in Nat
       /\ walk.page \subseteq walk.seen /\ Cardinality(walk.page) <= walk.limit

\* A walk from the first page to the last shows every row that was there from its
\* start, although rows are inserted, even behind newer ones, and shift the pages:
\* unless a row left the filter meanwhile, or rows of one time change places.
NothingMissed ==
  walk # Idle /\ walk.pc = "ended" /\ ~walk.lost =>
    \A id \in walk.owed :
      \/ id \in walk.seen
      \/ \E other \in Matching(walk.table, walk.filter) \ {id} :
           Row(walk.table, other).created = Row(walk.table, id).created

\* The total is at least what was shown up to the end of the page, although it is
\* counted after the page was read: unless a row left the filter in between.
TotalCoversPage ==
  walk # Idle /\ walk.pc = "answered" /\ ~walk.shrunk /\ walk.page # {} =>
    walk.offset + Cardinality(walk.page) <= walk.total
=============================================================================
