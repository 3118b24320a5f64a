--------------------------- MODULE NodeAssignment ---------------------------
(***************************************************************************)
(* leader.go and watchNodeList of agent.go: ESM instances elect a leader,  *)
(* the leader deals the external nodes out to the healthy instances and    *)
(* writes one list per instance into the KV store, and every instance      *)
(* follows its own list.                                                   *)
(*                                                                         *)
(* Each time an instance obtains the lock a new term begins, with          *)
(* goroutines of its own (computeWatchedNodes and its two watches). They   *)
(* stop only after the instance has noticed that the lock is gone, and     *)
(* nothing ties their transactions to the lock, so several terms may write *)
(* at a time. Instances crash and restart, miss their TTL, and requests    *)
(* fail or lose their answer while the fault budget lasts.                 *)
(*                                                                         *)
(* Abstractions. Names are naturals, in the order the code sorts them. A   *)
(* channel, or a KV entry that may be missing, is a set with at most one   *)
(* element. A blocking query returns when what it asks for has changed, or *)
(* at the end of Consul's wait time; by then, minutes later, the leader's  *)
(* loop is taken to be waiting at its select. Of watchNodeList there is    *)
(* what the assignment needs, its way from the KV entry to the two lists   *)
(* it sends; the goroutines behind them, and the shutdown, are in module   *)
(* NodeListWatch. What an instance does with its list is of no consequence *)
(* to the leader or to another instance, so it is enough to follow some of *)
(* them at a time. The limit of a transaction does not change; it is a     *)
(* variable so that one instance has rounds that fit one and rounds that   *)
(* do not.                                                                 *)
(***************************************************************************)
EXTENDS Naturals, FiniteSets

CONSTANTS
  Nodes, Agents,  \* the names, as naturals
  Probes,         \* the nodes with external-probe = "true"
  Followers,      \* bound: the instances whose watchNodeList is modelled
  TxnLimits,      \* bound: the limits a transaction may have
  MaxTerms,       \* bound: how often the lock is obtained
  MaxChanges,     \* bound: changes of the catalog and of the instances
  MaxFaults       \* bound: requests to Consul that fail

ASSUME NamesAssumption ==
  /\ Nodes \subseteq Nat /\ IsFiniteSet(Nodes) /\ Probes \subseteq Nodes
  /\ Agents \subseteq Nat /\ IsFiniteSet(Agents) /\ Followers \subseteq Agents
ASSUME LimitAssumption == TxnLimits \subseteq Nat \ {0, 1}
ASSUME BoundsAssumption ==
  MaxTerms \in Nat /\ MaxChanges \in Nat /\ MaxFaults \in Nat

VARIABLES
  maxTxnOps,   \* the limit of a transaction
  registered,  \* Consul: the external nodes in the catalog
  healthy,     \* Consul: the ESM instances whose checks pass
  holder,      \* Consul: the term whose session holds the leader key, or 0
  kv,          \* Consul: the entry agents/<id> of each instance
  unread,      \* the instances whose entry changed after their WaitIndex
  running,     \* the instances that run
  loop,        \* runLeaderLoop of each instance: the term it leads, or 0
  comp,        \* computeWatchedNodes of each term
  fetched,     \* watchNodeList: the list read, before the catalog is read
  ourNodes,    \* the last list sent to watchHealthChecks
  pinging,     \* the last list sent to updateCoords
  term, changes, faults

consulVars == <<maxTxnOps, registered, healthy, holder, kv, unread>>
localVars  == <<fetched, ourNodes, pinging>>
vars == <<maxTxnOps, registered, healthy, holder, kv, unread, running, loop, comp,
          fetched, ourNodes, pinging, term, changes, faults>>

Terms == 1..MaxTerms

NoComp == [pc |-> "none", stop |-> FALSE, nodes |-> {}, insts |-> {},
           nodeCh |-> {}, instanceCh |-> {}, retry |-> FALSE, done |-> 0]

NoNodes == [a \in Followers |-> {}]

Init ==
  /\ maxTxnOps \in TxnLimits
  /\ registered = Nodes /\ healthy = Agents /\ running = Agents
  /\ holder = 0 /\ term = 0
  /\ kv = [a \in Agents |-> {}] /\ unread = Followers
  /\ loop = [a \in Agents |-> 0]
  /\ comp = [t \in Terms |-> NoComp]
  /\ fetched = NoNodes /\ ourNodes = NoNodes /\ pinging = NoNodes
  /\ changes = 0 /\ faults = 0

-----------------------------------------------------------------------------
(***************************************************************************)
(* The environment                                                         *)
(***************************************************************************)

Change == changes < MaxChanges /\ changes' = changes + 1
Fault  == faults < MaxFaults /\ faults' = faults + 1

\* An operator registers or removes an external node.
ChangeNode(n) ==
  /\ Change
  /\ registered' = IF n \in registered THEN registered \ {n} ELSE registered \cup {n}
  /\ UNCHANGED <<maxTxnOps, healthy, holder, kv, unread, running, loop, comp,
                 localVars, term, faults>>

\* An instance dies, between any two of its steps. A bound on terms must leave one
\* for its successor.
Crash(a) ==
  /\ Change
  /\ a \in running
  /\ loop[a] # 0 => term < MaxTerms
  /\ running' = running \ {a}
  /\ comp' = [t \in Terms |-> IF t = loop[a] THEN [NoComp EXCEPT !.pc = "dead"]
                                            ELSE comp[t]]
  /\ loop' = [loop EXCEPT ![a] = 0]
  /\ LET Forget(f) == [b \in Followers |-> IF b = a THEN {} ELSE f[b]]
     IN  /\ fetched' = Forget(fetched) /\ ourNodes' = Forget(ourNodes)
         /\ pinging' = Forget(pinging)
  /\ UNCHANGED <<consulVars, term, faults>>

\* It is started again, or it is not.
Restart(a) ==
  /\ a \notin running
  /\ running' = running \cup {a}
  /\ unread' = unread \cup ({a} \cap Followers)
  /\ UNCHANGED <<maxTxnOps, registered, healthy, holder, kv, loop, comp, localVars,
                 term, changes, faults>>

\* The TTL check of a running instance expires all the same.
MissTTL(a) ==
  /\ Change
  /\ a \in running /\ a \in healthy
  /\ healthy' = healthy \ {a}
  /\ UNCHANGED <<maxTxnOps, registered, holder, kv, unread, running, loop, comp,
                 localVars, term, faults>>

\* runTTL and the expiry of the TTL: in time, the instances that run are healthy.
SettleHealth(a) ==
  /\ (a \in healthy) # (a \in running)
  /\ healthy' = IF a \in running THEN healthy \cup {a} ELSE healthy \ {a}
  /\ UNCHANGED <<maxTxnOps, registered, holder, kv, unread, running, loop, comp,
                 localVars, term, changes, faults>>

-----------------------------------------------------------------------------
(***************************************************************************)
(* runLeaderLoop                                                           *)
(***************************************************************************)

\* Lock returns and computeWatchedNodes is started.
ObtainLeadership(a) ==
  /\ a \in running /\ loop[a] = 0
  /\ holder = 0 /\ term < MaxTerms
  /\ term' = term + 1 /\ holder' = term + 1
  /\ loop' = [loop EXCEPT ![a] = term + 1]
  /\ comp' = [comp EXCEPT ![term + 1].pc = "first"]
  /\ UNCHANGED <<maxTxnOps, registered, healthy, kv, unread, running, localVars,
                 changes, faults>>

\* Consul invalidates the session of a leader that runs ...
LoseSession ==
  /\ holder # 0 /\ term < MaxTerms
  /\ \E a \in Agents : loop[a] = holder
  /\ holder' = 0
  /\ UNCHANGED <<maxTxnOps, registered, healthy, kv, unread, running, loop, comp,
                 localVars, term, changes, faults>>

\* ... and in time that of one that does not.
SessionExpires ==
  /\ holder # 0 /\ \A a \in Agents : loop[a] # holder
  /\ holder' = 0
  /\ UNCHANGED <<maxTxnOps, registered, healthy, kv, unread, running, loop, comp,
                 localVars, term, changes, faults>>

\* leaderCh is closed: the loop gives the lock up, and computeWatchedNodes and
\* its watches will see their stopCh.
LostLeadership(a) ==
  /\ loop[a] # 0 /\ holder # loop[a]
  /\ comp' = [comp EXCEPT ![loop[a]].stop = TRUE]
  /\ loop' = [loop EXCEPT ![a] = 0]
  /\ UNCHANGED <<consulVars, running, localVars, term, changes, faults>>

-----------------------------------------------------------------------------
(***************************************************************************)
(* computeWatchedNodes                                                     *)
(***************************************************************************)

Alive(t) == comp[t].pc \in {"first", "select", "commit"}

\* watchExternalNodes: the query returns and its answer waits in nodeCh.
WatchExternalNodes(t) ==
  /\ Alive(t) /\ ~comp[t].stop
  /\ comp[t].nodeCh = {}
  /\ comp[t].pc = "first" \/ comp[t].nodes # registered
  /\ comp' = [comp EXCEPT ![t].nodeCh = {registered}]
  /\ UNCHANGED <<consulVars, running, loop, localVars, term, changes, faults>>

\* watchServiceInstances and getServiceInstances, likewise.
WatchServiceInstances(t) ==
  /\ Alive(t) /\ ~comp[t].stop
  /\ comp[t].instanceCh = {}
  /\ comp[t].pc = "first" \/ comp[t].insts # healthy
  /\ comp' = [comp EXCEPT ![t].instanceCh = {healthy}]
  /\ UNCHANGED <<consulVars, running, loop, localVars, term, changes, faults>>

\* The first nodes and instances; the first pass does not block.
FirstLists(t) ==
  /\ comp[t].pc = "first"
  /\ \E nodes \in comp[t].nodeCh, insts \in comp[t].instanceCh :
       comp' = [comp EXCEPT ![t] =
                  [@ EXCEPT !.pc = "select", !.nodes = nodes, !.insts = insts,
                            !.nodeCh = {}, !.instanceCh = {}, !.retry = TRUE]]
  /\ UNCHANGED <<consulVars, running, loop, localVars, term, changes, faults>>

\* Without instances there is nothing to do but to try again later.
Decide(c) ==
  IF c.insts = {} THEN [c EXCEPT !.retry = TRUE]
                  ELSE [c EXCEPT !.retry = FALSE, !.pc = "commit"]

\* One pass of the select.
SelectStop(t) ==
  /\ comp[t].pc = "select" /\ comp[t].stop
  /\ comp' = [comp EXCEPT ![t] = [NoComp EXCEPT !.pc = "dead"]]
  /\ UNCHANGED <<consulVars, running, loop, localVars, term, changes, faults>>

SelectUpdate(t) ==
  /\ comp[t].pc = "select"
  /\ \/ \E nodes \in comp[t].nodeCh :
          comp' = [comp EXCEPT ![t] =
                     Decide([@ EXCEPT !.nodes = nodes, !.nodeCh = {}])]
     \/ \E insts \in comp[t].instanceCh :
          comp' = [comp EXCEPT ![t] =
                     Decide([@ EXCEPT !.insts = insts, !.instanceCh = {}])]
     \/ /\ comp[t].retry
        /\ comp' = [comp EXCEPT ![t] = Decide(@)]
  /\ UNCHANGED <<consulVars, running, loop, localVars, term, changes, faults>>

SkipUnchanged(t) == comp[t].pc = "select" /\ UNCHANGED vars

\* The wait time of a query ends, and its answer starts a round although nothing
\* has changed.
WaitTimeEnds(t) ==
  /\ comp[t].pc = "select" /\ ~comp[t].stop /\ ~comp[t].retry
  /\ comp[t].nodeCh = {} /\ comp[t].instanceCh = {}
  /\ comp[t].nodes = registered /\ comp[t].insts = healthy
  /\ comp' = [comp EXCEPT ![t] = Decide(@)]
  /\ UNCHANGED <<consulVars, running, loop, localVars, term, changes, faults>>

\* The place of x in the sorted list of S, counting from 0.
Rank(x, S) == Cardinality({y \in S : y < x})

\* nodeLists: node number i belongs to instance number i % len(insts).
Owner(n, nodes, insts) ==
  CHOOSE a \in insts : Rank(a, insts) = Rank(n, nodes) % Cardinality(insts)

\* The NodeWatchList of instance a.
NodeList(a, nodes, insts) ==
  LET mine == {n \in nodes : Owner(n, nodes, insts) = a}
  IN  [nodes |-> mine \ Probes, probes |-> mine \cap Probes]

\* The operations of a round: number 0 is KVDeleteTree, number i sets the list of
\* the i-th instance. A transaction takes the next maxTxnOps of them, fewer (or
\* none) the last time.
Chunk(c) == {i \in 0..Cardinality(c.insts) : c.done <= i /\ i < c.done + maxTxnOps}

WrittenWithoutDelete(c, ops) ==
  [a \in Agents |->
     IF a \in c.insts /\ Rank(a, c.insts) + 1 \in ops
     THEN {NodeList(a, c.nodes, c.insts)} ELSE kv[a]]

\* What a transaction with these operations leaves in the KV store.
Written(c, ops) ==
  [a \in Agents |->
     IF a \in c.insts /\ Rank(a, c.insts) + 1 \in ops
     THEN {NodeList(a, c.nodes, c.insts)}
     ELSE IF 0 \in ops THEN {} ELSE kv[a]]

AfterCommitEndless(c) == [c EXCEPT !.done = @ + maxTxnOps]

\* Whether the round goes on: only a full transaction is followed by another.
AfterCommit(c) ==
  IF Cardinality(Chunk(c)) = maxTxnOps
  THEN [c EXCEPT !.done = @ + maxTxnOps] ELSE [c EXCEPT !.pc = "select", !.done = 0]

\* A failed commit ends the round, and another follows after retryTime.
RetryRound(c) == [c EXCEPT !.pc = "select", !.done = 0, !.retry = TRUE]

Apply(c, ops) ==
  /\ kv' = Written(c, ops)
  /\ unread' = unread \cup {a \in Followers :
                              \/ 0 \in ops /\ kv[a] # {}
                              \/ a \in c.insts /\ Rank(a, c.insts) + 1 \in ops}

\* commitOps, whoever holds the lock by now.
CommitOps(t) ==
  /\ comp[t].pc = "commit"
  /\ \/ /\ Apply(comp[t], Chunk(comp[t]))                   \* done
        /\ comp' = [comp EXCEPT ![t] = AfterCommit(@)]
        /\ UNCHANGED faults
     \/ /\ Apply(comp[t], Chunk(comp[t])) /\ Fault          \* done, answer lost
        /\ comp' = [comp EXCEPT ![t] = RetryRound(@)]
     \/ /\ Fault                                            \* not done
        /\ comp' = [comp EXCEPT ![t] = RetryRound(@)]
        /\ UNCHANGED <<kv, unread>>
  /\ UNCHANGED <<maxTxnOps, registered, healthy, holder, running, loop, localVars,
                 term, changes>>

ComputeWatchedNodes(t) == FirstLists(t) \/ SelectUpdate(t) \/ CommitOps(t)

-----------------------------------------------------------------------------
(***************************************************************************)
(* watchNodeList, as the leader sees it                                    *)
(***************************************************************************)

\* The entry of this instance has changed and is read; when it is missing, the
\* instance goes on with its old list.
GetNodeList(a) ==
  /\ a \in running /\ a \in unread /\ fetched[a] = {}
  /\ unread' = unread \ {a}
  /\ fetched' = [fetched EXCEPT ![a] = kv[a]]
  /\ UNCHANGED <<maxTxnOps, registered, healthy, holder, kv, running, loop, comp,
                 ourNodes, pinging, term, changes, faults>>

\* The catalog is read and both lists are sent; after an error they are not, and
\* WaitIndex stays behind, so that the list is read again.
SendNodeLists(a) ==
  /\ a \in running
  /\ \E l \in fetched[a] :
       \/ /\ ourNodes' = [ourNodes EXCEPT ![a] = l.nodes \cup l.probes]
          /\ pinging' = [pinging EXCEPT ![a] = l.probes \cap registered]
          /\ UNCHANGED <<unread, faults>>
       \/ /\ Fault
          /\ unread' = unread \cup {a}
          /\ UNCHANGED <<ourNodes, pinging>>
  /\ fetched' = [fetched EXCEPT ![a] = {}]
  /\ UNCHANGED <<maxTxnOps, registered, healthy, holder, kv, running, loop, comp,
                 term, changes>>

-----------------------------------------------------------------------------

Next ==
  \/ \E n \in Nodes : ChangeNode(n)
  \/ \E a \in Agents :
       \/ Crash(a) \/ Restart(a) \/ MissTTL(a) \/ SettleHealth(a)
       \/ ObtainLeadership(a) \/ LostLeadership(a)
  \/ \E a \in Followers : GetNodeList(a) \/ SendNodeLists(a)
  \/ LoseSession \/ SessionExpires
  \/ \E t \in Terms :
       \/ WatchExternalNodes(t) \/ WatchServiceInstances(t)
       \/ SelectStop(t) \/ WaitTimeEnds(t) \/ ComputeWatchedNodes(t)

\* Goroutines run, blocking queries return (at the latest after Consul's maximum
\* wait), dead sessions and TTLs expire. An instance does not always read in the
\* moment between two transactions in which its entry is missing: it reads within
\* seconds of a change, and the rounds are minutes apart.
Fairness ==
  /\ WF_vars(SessionExpires)
  /\ \A a \in Agents :
       /\ WF_vars(SettleHealth(a))
       /\ WF_vars(LostLeadership(a))
  /\ \A a \in Followers :
       /\ WF_vars(GetNodeList(a)) /\ SF_vars(kv[a] # {} /\ GetNodeList(a))
       /\ WF_vars(SendNodeLists(a))
  /\ WF_vars(\E a \in Agents : ObtainLeadership(a))
  /\ \A t \in Terms :
       /\ WF_vars(WatchExternalNodes(t)) /\ WF_vars(WatchServiceInstances(t))
       /\ WF_vars(SelectStop(t)) /\ WF_vars(WaitTimeEnds(t))
       /\ WF_vars(ComputeWatchedNodes(t))

Spec == Init /\ [][Next]_vars /\ Fairness

-----------------------------------------------------------------------------
(***************************************************************************)
(* Properties                                                              *)
(***************************************************************************)

Maybe(S) == {{}} \cup {{x} : x \in S}

Lists == [nodes : SUBSET Nodes, probes : SUBSET Nodes]

\* The types of the state; a round makes no more operations than it has instances
\* and the deletion, however its transactions divide them.
TypeOK ==
  /\ maxTxnOps \in TxnLimits
  /\ registered \subseteq Nodes /\ healthy \subseteq Agents /\ running \subseteq Agents
  /\ holder \in 0..MaxTerms /\ term \in 0..MaxTerms
  /\ unread \subseteq Followers
  /\ kv \in [Agents -> Maybe(Lists)] /\ fetched \in [Followers -> Maybe(Lists)]
  /\ loop \in [Agents -> 0..MaxTerms]
  /\ comp \in [Terms ->
       [pc : {"none", "first", "select", "commit", "dead"}, stop : BOOLEAN,
        nodes : SUBSET Nodes, insts : SUBSET Agents,
        nodeCh : Maybe(SUBSET Nodes), instanceCh : Maybe(SUBSET Agents),
        retry : BOOLEAN, done : 0..(Cardinality(Agents) + 1)]]
  /\ ourNodes \in [Followers -> SUBSET Nodes] /\ pinging \in [Followers -> SUBSET Nodes]
  /\ changes \in 0..MaxChanges /\ faults \in 0..MaxFaults

All(a) == UNION {l.nodes \cup l.probes : l \in kv[a]}

\* "will have the work divided evenly amongst themselves" (README, consul_service):
\* while one transaction holds a whole round, the lists in the KV store are always
\* those of one round, whichever terms write: no node is on two lists, and no
\* instance has two nodes more than another.
DividedEvenly ==
  maxTxnOps > Cardinality(Agents) =>
    \A a, b \in {x \in Agents : kv[x] # {}} :
      a # b => /\ All(a) \cap All(b) = {}
               /\ Cardinality(All(a)) <= Cardinality(All(b)) + 1

Share(a) == {n \in registered : Owner(n, registered, running) = a}

\* When changes and faults have ended, every instance looks after its share of the
\* nodes and of no other: its two watches have them, and those of them that are to
\* be probed, as their last list, in spite of deposed leaders that write late, of
\* rounds cut short between two transactions, and of entries that are deleted and
\* come back. (The shares are disjoint and leave no node out; that the checks on
\* these nodes are run in the end is EventuallyInSync of module NodeListWatch.)
EventuallyAssigned ==
  <>[](\A a \in Followers \cap running :
         /\ ourNodes[a] = Share(a)
         /\ pinging[a] = Share(a) \cap Probes)
=============================================================================
