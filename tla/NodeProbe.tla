----------------------------- MODULE NodeProbe -----------------------------
(***************************************************************************)
(* coordinate.go: ESM instances ping the external nodes assigned to them,  *)
(* keep each node's externalNodeHealth check and the KV entry that says    *)
(* since when the node is critical, and deregister nodes that were         *)
(* critical for node_reconnect_timeout.                                    *)
(*                                                                         *)
(* A ping is a goroutine that reads the KV entry, pings, asks the debounce *)
(* cache whether there is something to write and runs one transaction;     *)
(* pings of one or several agents interleave at each of these steps, with  *)
(* changes of the node lists, and with operators. While the fault budget   *)
(* lasts a request may fail, or take effect and lose its answer.           *)
(*                                                                         *)
(* Abstractions. A KV entry is "recent" or, once node_reconnect_timeout    *)
(* has passed, "overdue". A cached status past its ttl is the same as no   *)
(* cached status. The index a check-and-set compares is the set of pings   *)
(* that read the entry since it was last written. Coordinates themselves   *)
(* are not modelled: they touch nothing that is.                           *)
(***************************************************************************)
EXTENDS Naturals, FiniteSets

CONSTANTS
  Agents, Nodes,
  Pings,        \* bound: pings that are in flight at once
  MaxFlips,     \* bound: how often nodes go down or come back
  MaxFaults,    \* bound: requests to Consul that fail
  MaxLists,     \* bound: changes of the agents' node lists
  MaxOperator   \* bound: registrations and deregistrations by an operator

ASSUME BoundsAssumption ==
  /\ IsFiniteSet(Pings)
  /\ MaxFlips \in Nat /\ MaxFaults \in Nat /\ MaxLists \in Nat /\ MaxOperator \in Nat

VARIABLES
  up,          \* the nodes that answer pings
  registered,  \* Consul: the nodes in the catalog
  check,       \* Consul: status of each node's externalNodeHealth check
  kv,          \* Consul: the entry probes/<node>
  kvFresh,     \* the pings that read the present KV entry of each node
  nodeFresh,   \* the pings that read the present catalog entry of each node
  known,       \* knownNodeStatuses of each agent, "none" when absent or expired
  inflight,    \* inflightPings of each agent
  list,        \* the nodes updateCoords cycles through
  oldNodes,    \* what checkNodeTracking remembers as the list before
  outCh,       \* the list checkNodeTracking is handing over, if any
  ping,        \* the goroutines of runNodePing
  flips, faults, lists, operator

consulVars == <<registered, check, kv, kvFresh, nodeFresh>>
listVars   == <<list, oldNodes, outCh>>
budgetVars == <<flips, lists, operator>>
vars == <<up, registered, check, kv, kvFresh, nodeFresh, known, inflight, list,
          oldNodes, outCh, ping, flips, faults, lists, operator>>

NoPing == [pc |-> "idle", agent |-> "", node |-> "", seen |-> "none",
           does |-> "nothing"]

Init ==
  /\ up = Nodes /\ registered = Nodes
  /\ check = [n \in Nodes |-> "none"]
  /\ kv = [n \in Nodes |-> "none"]
  /\ kvFresh = [n \in Nodes |-> {}] /\ nodeFresh = [n \in Nodes |-> {}]
  /\ known = [a \in Agents |-> [n \in Nodes |-> "none"]]
  /\ inflight = [a \in Agents |-> {}]
  /\ \E first \in Agents :
       list = [a \in Agents |-> IF a = first THEN Nodes ELSE {}]
  /\ oldNodes = list
  /\ outCh = [a \in Agents |-> {}]
  /\ ping = [p \in Pings |-> NoPing]
  /\ flips = 0 /\ faults = 0 /\ lists = 0 /\ operator = 0

-----------------------------------------------------------------------------
(***************************************************************************)
(* The environment                                                         *)
(***************************************************************************)

Flip(n) ==
  /\ flips < MaxFlips
  /\ flips' = flips + 1
  /\ up' = IF n \in up THEN up \ {n} ELSE up \cup {n}
  /\ UNCHANGED <<consulVars, known, inflight, listVars, ping, faults, lists, operator>>

\* An operator removes a node, or registers it (again): the KV entry stays.
Operator(n) ==
  /\ operator < MaxOperator
  /\ operator' = operator + 1
  /\ registered' = IF n \in registered THEN registered \ {n} ELSE registered \cup {n}
  /\ check' = [check EXCEPT ![n] = "none"]
  /\ nodeFresh' = [nodeFresh EXCEPT ![n] = {}]
  /\ UNCHANGED <<up, kv, kvFresh, known, inflight, listVars, ping, flips, faults, lists>>

\* node_reconnect_timeout passes for the present entry of n, and so for every
\* earlier one a ping may still hold (time.Since at the end of updateFailedNode).
Age(n) ==
  /\ kv[n] = "recent"
  /\ kv' = [kv EXCEPT ![n] = "overdue"]
  /\ ping' = [p \in Pings |->
               IF ping[p].node = n /\ ping[p].seen = "recent"
               THEN [ping[p] EXCEPT !.seen = "overdue"] ELSE ping[p]]
  /\ UNCHANGED <<up, registered, check, kvFresh, nodeFresh, known, inflight,
                 listVars, budgetVars, faults>>

\* It passes for an entry that p read and somebody has replaced or deleted since.
AgeStale(p) ==
  /\ ping[p].seen = "recent" /\ p \notin kvFresh[ping[p].node]
  /\ ping' = [ping EXCEPT ![p].seen = "overdue"]
  /\ UNCHANGED <<up, consulVars, known, inflight, listVars, budgetVars, faults>>

NeverExpire(a, n) == FALSE /\ UNCHANGED vars

\* isExpired: NodeHealthRefreshInterval passes for a cached status.
Expire(a, n) ==
  /\ known[a][n] # "none"
  /\ known' = [known EXCEPT ![a][n] = "none"]
  /\ UNCHANGED <<up, consulVars, inflight, listVars, ping, budgetVars, faults>>

Fault == faults < MaxFaults /\ faults' = faults + 1

-----------------------------------------------------------------------------
(***************************************************************************)
(* Node lists: checkNodeTracking and updateCoords                          *)
(***************************************************************************)

\* checkNodeTracking receives a list from watchNodeList: of the cached statuses
\* and in-flight marks, those of nodes on the PREVIOUS list are kept.
TrackNodes(a) ==
  /\ lists < MaxLists
  /\ lists' = lists + 1
  /\ outCh[a] = {}
  /\ known' = [known EXCEPT ![a] = [n \in Nodes |->
                 IF n \in oldNodes[a] THEN known[a][n] ELSE "none"]]
  /\ inflight' = [inflight EXCEPT ![a] = @ \cap oldNodes[a]]
  /\ \E nodes \in SUBSET registered :
       /\ oldNodes' = [oldNodes EXCEPT ![a] = nodes]
       /\ outCh' = [outCh EXCEPT ![a] = {nodes}]
  /\ UNCHANGED <<up, consulVars, list, ping, flips, faults, operator>>

\* updateCoords takes the list over.
TakeNodes(a) ==
  /\ \E nodes \in outCh[a] : list' = [list EXCEPT ![a] = nodes]
  /\ outCh' = [outCh EXCEPT ![a] = {}]
  /\ UNCHANGED <<up, consulVars, known, inflight, oldNodes, ping, budgetVars, faults>>

\* The ticker comes to node n: a new ping, unless one is marked as in flight.
StartPing(a, n) ==
  /\ n \in list[a]
  /\ n \notin inflight[a]
  /\ \E p \in Pings : ping[p] = NoPing
  /\ LET p == CHOOSE q \in Pings : ping[q] = NoPing
     IN  ping' = [ping EXCEPT ![p] =
                    [NoPing EXCEPT !.pc = "get", !.agent = a, !.node = n]]
  /\ inflight' = [inflight EXCEPT ![a] = @ \cup {n}]
  /\ UNCHANGED <<up, consulVars, known, listVars, budgetVars, faults>>

-----------------------------------------------------------------------------
(***************************************************************************)
(* runNodePing                                                             *)
(***************************************************************************)

EntryUnknown == "unknown"

\* What the ping takes for the entry it could not read: kvPair is nil.
EntryAfterError == "none"

\* The KV entry is read; after an error the ping goes on as if there were none.
GetEntry(p) ==
  LET n == ping[p].node
  IN  /\ ping[p].pc = "get"
      /\ \/ /\ ping' = [ping EXCEPT ![p].pc = "ping", ![p].seen = kv[n]]
            /\ kvFresh' = [kvFresh EXCEPT ![n] = IF kv[n] = "none" THEN @ ELSE @ \cup {p}]
            /\ UNCHANGED faults
         \/ /\ Fault
            /\ ping' = [ping EXCEPT ![p].pc = "ping", ![p].seen = EntryAfterError]
            /\ UNCHANGED kvFresh
      /\ UNCHANGED <<up, registered, check, kv, nodeFresh, known, inflight, listVars,
                     budgetVars>>

\* shouldUpdateNodeStatus
ShouldUpdate(a, n, status) == known[a][n] # status

\* pingNode answers whether the node is alive. A pinger that cannot be made is a
\* failed ping of a node that may be up; one that cannot run reports no error, and
\* the node counts as alive.
PingAnswer(n, alive) ==
  \/ alive = (n \in up) /\ UNCHANGED faults
  \/ alive # (n \in up) /\ Fault

\* What the ping r does next: nothing when debounced, else heal ...
UpdateHealthyNode(r) ==
  IF ShouldUpdate(r.agent, r.node, "passing")
  THEN [r EXCEPT !.pc = "txn", !.does = "heal"]
  ELSE [r EXCEPT !.pc = "finish"]

\* ... or fail, or reap when the entry is overdue.
UpdateFailedNode(r) ==
  IF ShouldUpdate(r.agent, r.node, "critical")
  THEN IF r.seen = "overdue" THEN [r EXCEPT !.pc = "lookup", !.does = "reap"]
                             ELSE [r EXCEPT !.pc = "txn", !.does = "fail"]
  ELSE [r EXCEPT !.pc = "finish"]

\* The node is pinged.
PingNode(p) ==
  LET r == ping[p]
  IN  /\ r.pc = "ping"
      /\ \/ PingAnswer(r.node, TRUE) /\ ping' = [ping EXCEPT ![p] = UpdateHealthyNode(r)]
         \/ PingAnswer(r.node, FALSE) /\ ping' = [ping EXCEPT ![p] = UpdateFailedNode(r)]
      /\ UNCHANGED <<up, consulVars, known, inflight, listVars, budgetVars>>

\* It fails, and the time in the entry cannot be decoded: updateFailedNodeTxn gives
\* up. (One entry that never decodes is not modelled: only that function writes it.)
DecodeFails(p) ==
  LET r == ping[p]
  IN  /\ r.pc = "ping" /\ r.node \notin up
      /\ ShouldUpdate(r.agent, r.node, "critical") /\ r.seen # "none"
      /\ Fault
      /\ ping' = [ping EXCEPT ![p].pc = "finish"]
      /\ UNCHANGED <<up, consulVars, known, inflight, listVars, budgetVars>>

\* A reaping ping looks for the node in the catalog.
LookupNode(p) ==
  LET n == ping[p].node
  IN  /\ ping[p].pc = "lookup"
      /\ \/ /\ n \in registered
            /\ ping' = [ping EXCEPT ![p].pc = "txn"]
            /\ nodeFresh' = [nodeFresh EXCEPT ![n] = @ \cup {p}]
            /\ UNCHANGED faults
         \/ /\ n \notin registered
            /\ ping' = [ping EXCEPT ![p].pc = "txn", ![p].does = "clear"]
            /\ UNCHANGED <<nodeFresh, faults>>
         \/ /\ Fault
            /\ ping' = [ping EXCEPT ![p].pc = "finish"]
            /\ UNCHANGED nodeFresh
      /\ UNCHANGED <<up, registered, check, kv, kvFresh, known, inflight, listVars,
                     budgetVars>>

KVDeleteAny(p, n) == TRUE

\* Consul's answer to KVDeleteCAS: nothing to delete, or the entry that was read.
KVDeleteOK(p, n) == kv[n] = "none" \/ p \in kvFresh[n]

ClearsNothing(p) == FALSE

\* updateHealthyNodeTxn: the entry goes when one was read.
ClearsEntry(p) == ping[p].seen # "none"

\* Whether Consul accepts the operations of ping p: a check needs its node, and
\* every check-and-set the entry that was read.
TxnOK(p) ==
  LET r == ping[p]  n == ping[p].node
  IN  CASE r.does = "heal"  -> n \in registered /\ (ClearsEntry(p) => KVDeleteOK(p, n))
        [] r.does = "fail"  -> n \in registered
        [] r.does = "reap"  -> KVDeleteOK(p, n) /\ n \in registered /\ p \in nodeFresh[n]
        [] r.does = "clear" -> KVDeleteOK(p, n)

\* What an accepted transaction does, all of it at once.
TxnEffect(p) ==
  LET r == ping[p]  n == ping[p].node
      Entry(e) == /\ kv' = [kv EXCEPT ![n] = e]
                  /\ kvFresh' = [kvFresh EXCEPT ![n] = {}]
      Check(s) == check' = [check EXCEPT ![n] = s]
      SameNode == UNCHANGED <<registered, nodeFresh>>
  IN  CASE r.does = "heal" ->
             /\ Check("passing") /\ SameNode
             /\ IF ClearsEntry(p) THEN Entry("none") ELSE UNCHANGED <<kv, kvFresh>>
        [] r.does = "fail" ->
             /\ Check("critical") /\ SameNode
             /\ IF r.seen = "none" THEN Entry("recent") ELSE UNCHANGED <<kv, kvFresh>>
        [] r.does = "reap" ->
             /\ Entry("none") /\ Check("none")
             /\ registered' = registered \ {n}
             /\ nodeFresh' = [nodeFresh EXCEPT ![n] = {}]
        [] r.does = "clear" ->
             Entry("none") /\ SameNode /\ UNCHANGED check

\* runClientTxn and, when it succeeds, updateLastKnownNodeStatus.
RunTxn(p) ==
  LET r == ping[p]
      status == IF r.does = "heal" THEN "passing" ELSE "critical"
  IN  /\ r.pc = "txn"
      /\ ping' = [ping EXCEPT ![p].pc = "finish"]
      /\ \/ /\ TxnOK(p) /\ TxnEffect(p)                  \* done
            /\ known' = [known EXCEPT ![r.agent][r.node] = status]
            /\ UNCHANGED faults
         \/ /\ TxnOK(p) /\ TxnEffect(p) /\ Fault         \* done, answer lost
            /\ UNCHANGED known
         \/ /\ (~TxnOK(p) /\ UNCHANGED faults) \/ Fault  \* refused, or not sent
            /\ UNCHANGED <<consulVars, known>>
      /\ UNCHANGED <<up, inflight, listVars, budgetVars>>

\* The coordinate update is over or was not due: the ping is not in flight.
FinishPing(p) ==
  LET r == ping[p]
  IN  /\ r.pc = "finish"
      /\ ping' = [ping EXCEPT ![p] = NoPing]
      /\ inflight' = [inflight EXCEPT ![r.agent] = @ \ {r.node}]
      /\ kvFresh' = [kvFresh EXCEPT ![r.node] = @ \ {p}]
      /\ nodeFresh' = [nodeFresh EXCEPT ![r.node] = @ \ {p}]
      /\ UNCHANGED <<up, registered, check, kv, known, listVars, budgetVars, faults>>

RunNodePing(p) ==
  \/ GetEntry(p) \/ PingNode(p) \/ DecodeFails(p) \/ LookupNode(p)
  \/ RunTxn(p) \/ FinishPing(p)

-----------------------------------------------------------------------------

Next ==
  \/ \E n \in Nodes : Flip(n) \/ Operator(n) \/ Age(n)
  \/ \E a \in Agents : TrackNodes(a) \/ TakeNodes(a)
  \/ \E a \in Agents, n \in Nodes : StartPing(a, n) \/ Expire(a, n)
  \/ \E p \in Pings : RunNodePing(p) \/ AgeStale(p)

\* Tickers tick, pings and requests return, time passes. Nodes, operators, the
\* leader and faults are not obliged to do anything.
Fairness ==
  /\ \A n \in Nodes : WF_vars(Age(n))
  /\ \A a \in Agents : WF_vars(TakeNodes(a))
  /\ \A a \in Agents, n \in Nodes : SF_vars(StartPing(a, n)) /\ WF_vars(Expire(a, n))
  /\ \A p \in Pings : WF_vars(RunNodePing(p))

Spec == Init /\ [][Next]_vars /\ Fairness

-----------------------------------------------------------------------------
(***************************************************************************)
(* Properties                                                              *)
(***************************************************************************)

Entries == {"none", "recent", "overdue"}

PingRecords ==
  [pc : {"idle", "get", "ping", "lookup", "txn", "finish"},
   agent : Agents \cup {""}, node : Nodes \cup {""}, seen : Entries,
   does : {"nothing", "heal", "fail", "reap", "clear"}]

StateTypes ==
  /\ up \subseteq Nodes /\ registered \subseteq Nodes
  /\ check \in [Nodes -> {"none", "passing", "critical"}]
  /\ kv \in [Nodes -> Entries]
  /\ kvFresh \in [Nodes -> SUBSET Pings] /\ nodeFresh \in [Nodes -> SUBSET Pings]
  /\ known \in [Agents -> [Nodes -> {"none", "passing", "critical"}]]
  /\ inflight \in [Agents -> SUBSET Nodes]
  /\ list \in [Agents -> SUBSET Nodes] /\ oldNodes \in [Agents -> SUBSET Nodes]
  /\ outCh \in [Agents -> SUBSET SUBSET Nodes]
  /\ ping \in [Pings -> PingRecords]

BudgetTypes ==
  /\ flips \in 0..MaxFlips /\ faults \in 0..MaxFaults
  /\ lists \in 0..MaxLists /\ operator \in 0..MaxOperator

\* The types of the state; a ping holds an entry that was there, or none.
TypeOK == StateTypes /\ BudgetTypes

Reaped(n) == n \in registered /\ n \notin registered' /\ operator' = operator

\* A node whose critical time started anew is not reaped on the strength of the
\* old time: the deletion of the entry that was read and the deletion of the node
\* stand or fall together, however pings of several agents interleave.
NotReapedOnOldTime == [][\A n \in Nodes : Reaped(n) => kv[n] # "recent"]_vars

Probed(n) == \E a \in Agents : n \in list[a]

\* A node that stays down is deregistered in the end, although its status is
\* debounced, answers get lost and lists change.
DeadNodeReaped ==
  \A n \in Nodes : []<>(n \in up \/ n \notin registered \/ ~Probed(n))

\* Once nodes, operators and Consul are quiet, a node that answers is passing and
\* nothing is left of its critical time: the periodic refresh makes good for late
\* writes of another agent and for statuses remembered from before.
NodeStatusConverges ==
  <>[](\A n \in up \cap registered :
         Probed(n) => check[n] = "passing" /\ kv[n] = "none")

\* "Check if the node has been critical for too long and needs to be reaped"
\* (updateFailedNodeTxn): a node is reaped only while its check is critical.
ReapedOnlyWhileCritical ==
  [][\A n \in Nodes : Reaped(n) => check[n] = "critical"]_vars
=============================================================================
