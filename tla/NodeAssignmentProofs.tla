------------------------ MODULE NodeAssignmentProofs ------------------------
(***************************************************************************)
(* Proofs about NodeAssignment, for any nodes, instances, transaction      *)
(* limits and budgets.                                                     *)
(***************************************************************************)
EXTENDS NodeListsProofs

CompRecords ==
  [pc : {"none", "first", "select", "commit", "dead"}, stop : BOOLEAN,
   nodes : SUBSET Nodes, insts : SUBSET Agents,
   nodeCh : Maybe(SUBSET Nodes), instanceCh : Maybe(SUBSET Agents),
   retry : BOOLEAN, done : 0..(Cardinality(Agents) + 1)]

\* The parts of TypeOK.
StateTypes ==
  /\ maxTxnOps \in TxnLimits
  /\ registered \subseteq Nodes /\ healthy \subseteq Agents /\ running \subseteq Agents
  /\ unread \subseteq Followers
  /\ kv \in [Agents -> Maybe(Lists)] /\ fetched \in [Followers -> Maybe(Lists)]
  /\ ourNodes \in [Followers -> SUBSET Nodes] /\ pinging \in [Followers -> SUBSET Nodes]

CountTypes ==
  /\ holder \in 0..MaxTerms /\ term \in 0..MaxTerms
  /\ loop \in [Agents -> 0..MaxTerms]
  /\ changes \in 0..MaxChanges /\ faults \in 0..MaxFaults

CompTypes == comp \in [Terms -> CompRecords]

\* Whether one transaction holds every round.
RoundsFit == maxTxnOps > Cardinality(Agents)

\* A round has operations behind it only while it is being committed; when rounds
\* fit, it has then done all of them.
Progress(c) ==
  /\ c.pc # "commit" => c.done = 0
  /\ RoundsFit => c.done = 0 \/ c.done > Cardinality(c.insts)

ProgressInv == \A t \in Terms : Progress(comp[t])

\* The KV store as a whole round leaves it.
Round(nodes, insts) ==
  [a \in Agents |-> IF a \in insts THEN {NodeList(a, nodes, insts)} ELSE {}]

\* When rounds fit, the lists in the KV store are those of one round, of whatever
\* term.
OneRound ==
  RoundsFit => \E nodes \in SUBSET Nodes, insts \in SUBSET Agents : kv = Round(nodes, insts)

\* Nothing happens in a term before it begins.
TermInv ==
  /\ \A a \in Agents : loop[a] <= term
  /\ \A t \in Terms : t > term => comp[t] = NoComp

AssignmentInv ==
  StateTypes /\ CountTypes /\ CompTypes /\ ProgressInv /\ TermInv /\ OneRound

-----------------------------------------------------------------------------
(***************************************************************************)
(* Finite sets and rounds                                                  *)
(***************************************************************************)

\* Any nodes and any instances can be counted.
LEMMA FiniteSubsets ==
  /\ \A S \in SUBSET Nodes : S \in FiniteNames
  /\ \A S \in SUBSET Agents : /\ S \in FiniteNames /\ Cardinality(S) \in Nat
                              /\ Cardinality(S) <= Cardinality(Agents)
<1>1. \A S \in SUBSET Nodes : S \in FiniteNames
  BY NamesAssumption, FS_Subset DEF FiniteNames
<1>2. \A S \in SUBSET Agents : /\ IsFiniteSet(S) /\ S \in FiniteNames
                               /\ Cardinality(S) <= Cardinality(Agents)
  BY NamesAssumption, FS_Subset DEF FiniteNames
<1> QED BY <1>1, <1>2, FS_CardinalityType

\* A transaction has room for the deletion and at least one list.
LEMMA LimitType == StateTypes => maxTxnOps \in Nat /\ 1 < maxTxnOps
  BY LimitAssumption DEF StateTypes

\* nodeLists writes lists of nodes.
LEMMA NodeListType ==
  ASSUME NEW a, NEW nodes \in SUBSET Nodes, NEW insts
  PROVE  NodeList(a, nodes, insts) \in Lists
  BY DEF NodeList, Lists

\* A transaction is full only when the round has that many operations left.
LEMMA ChunkBound ==
  ASSUME StateTypes, NEW c \in CompRecords, Cardinality(Chunk(c)) = maxTxnOps
  PROVE  c.done + maxTxnOps <= Cardinality(c.insts) + 1
<1> DEFINE k == Cardinality(c.insts)
<1>1. k \in Nat /\ c.done \in Nat
  <2>1. Cardinality(Agents) \in Nat
    BY FiniteSubsets
  <2> QED BY <2>1, FiniteSubsets DEF CompRecords
<1>2. Chunk(c) \in SUBSET (c.done..k)
  <2>1. \A i \in 0..k : c.done <= i => i \in c.done..k
    BY <1>1
  <2> QED BY <2>1 DEF Chunk
<1>3. /\ IsFiniteSet(c.done..k)
      /\ Cardinality(c.done..k) = IF c.done > k THEN 0 ELSE k - c.done + 1
  <2>1. c.done \in Int /\ k \in Int
    BY <1>1
  <2> HIDE DEF k
  <2> QED BY <2>1, FS_Interval
<1>4. maxTxnOps <= Cardinality(c.done..k)
  BY <1>2, <1>3, FS_Subset
<1> QED BY <1>1, <1>3, <1>4, LimitType

\* When rounds fit, the first transaction of a round has all of its operations, and
\* one that follows has none.
LEMMA WholeRound ==
  ASSUME StateTypes, RoundsFit, NEW c \in CompRecords
  PROVE  /\ c.done = 0 => Chunk(c) = 0..Cardinality(c.insts)
         /\ c.done > Cardinality(c.insts) => Chunk(c) = {}
<1>1. Cardinality(c.insts) \in Nat /\ Cardinality(c.insts) < maxTxnOps
  BY FiniteSubsets, LimitType DEF CompRecords, RoundsFit
<1>2. c.done \in Nat
  BY FiniteSubsets DEF CompRecords
<1> QED BY <1>1, <1>2, LimitType DEF Chunk

\* The transaction of a whole round writes that round, whatever was there; one
\* without operations writes nothing.
LEMMA WritesRound ==
  ASSUME StateTypes, RoundsFit, NEW c \in CompRecords
  PROVE  /\ c.done = 0 => Written(c, Chunk(c)) = Round(c.nodes, c.insts)
         /\ c.done > Cardinality(c.insts) => Written(c, Chunk(c)) = kv
<1>1. c.insts \in FiniteNames /\ Cardinality(c.insts) \in Nat
  BY FiniteSubsets DEF CompRecords
<1>2. \A a \in c.insts : Rank(a, c.insts) + 1 \in 0..Cardinality(c.insts)
  BY <1>1, RankBelow
<1>3. c.done = 0 => Written(c, Chunk(c)) = Round(c.nodes, c.insts)
  BY <1>1, <1>2, WholeRound DEF Written, Round
<1>4. c.done > Cardinality(c.insts) => Written(c, Chunk(c)) = kv
  BY WholeRound DEF Written, StateTypes
<1> QED BY <1>3, <1>4

\* The lists of one round divide the nodes evenly.
LEMMA RoundDivided ==
  ASSUME NEW nodes \in SUBSET Nodes, NEW insts \in SUBSET Agents,
         kv = Round(nodes, insts)
  PROVE  \A a, b \in {x \in Agents : kv[x] # {}} :
           a # b => /\ All(a) \cap All(b) = {}
                    /\ Cardinality(All(a)) <= Cardinality(All(b)) + 1
<1>1. \A a \in Agents : kv[a] # {} => a \in insts /\ kv[a] = {NodeList(a, nodes, insts)}
  BY DEF Round
<1>2. \A a \in Agents : kv[a] # {} => All(a) = Dealt(a, nodes, insts)
  <2> SUFFICES ASSUME NEW a \in Agents, kv[a] # {}
               PROVE  All(a) = Dealt(a, nodes, insts)
    OBVIOUS
  <2> DEFINE l == NodeList(a, nodes, insts)
  <2>1. l.nodes \cup l.probes = Dealt(a, nodes, insts)
    BY DEF NodeList, Dealt
  <2>2. All(a) = l.nodes \cup l.probes
    BY <1>1 DEF All
  <2> QED BY <2>1, <2>2
<1>3. nodes \in FiniteNames /\ insts \in FiniteNames
  BY FiniteSubsets
<1>4. ASSUME NEW a \in Agents, NEW b \in Agents, kv[a] # {}, kv[b] # {}, a # b
      PROVE  /\ All(a) \cap All(b) = {}
             /\ Cardinality(All(a)) <= Cardinality(All(b)) + 1
  <2>1. a \in insts /\ b \in insts
    BY <1>1, <1>4
  <2>2. Dealt(a, nodes, insts) \cap Dealt(b, nodes, insts) = {}
    BY <1>4 DEF Dealt
  <2>3. Cardinality(Dealt(a, nodes, insts)) <= Cardinality(Dealt(b, nodes, insts)) + 1
    BY <1>3, <2>1, DealtEvenly
  <2> QED BY <1>2, <1>4, <2>2, <2>3
<1> QED BY <1>4

-----------------------------------------------------------------------------
(***************************************************************************)
(* The steps                                                               *)
(***************************************************************************)

\* A term that has not begun, that begins, or that has ended.
LEMMA EmptyComp ==
  ASSUME NEW pc \in {"none", "first", "dead"}
  PROVE  [NoComp EXCEPT !.pc = pc] \in CompRecords /\ Progress([NoComp EXCEPT !.pc = pc])
<1>1. 0 \in 0..(Cardinality(Agents) + 1)
  BY FiniteSubsets
<1>2. NoComp \in CompRecords /\ NoComp.done = 0
  BY <1>1 DEF NoComp, CompRecords, Maybe
<1>3. [NoComp EXCEPT !.pc = pc] \in CompRecords
  BY <1>2 DEF CompRecords
<1>4. [NoComp EXCEPT !.pc = pc].done = 0 /\ [NoComp EXCEPT !.pc = pc].pc = pc
  BY <1>2 DEF CompRecords
<1> QED BY <1>3, <1>4 DEF Progress

\* The invariant holds before there is a leader.
LEMMA AssignmentInit == Init => AssignmentInv
<1> SUFFICES ASSUME Init PROVE AssignmentInv
  OBVIOUS
<1>1. Cardinality(Agents) \in Nat
  BY FiniteSubsets
<1>2. StateTypes
  BY NamesAssumption DEF Init, StateTypes, NoNodes, Maybe
<1>3. CountTypes
  BY BoundsAssumption DEF Init, CountTypes
<1>4. NoComp \in CompRecords /\ Progress(NoComp)
  BY <1>1 DEF NoComp, CompRecords, Maybe, Progress
<1>5. CompTypes /\ ProgressInv
  BY <1>4 DEF Init, CompTypes, ProgressInv
<1>6. kv = Round({}, {})
  BY DEF Init, Round
<1>7. TermInv
  BY BoundsAssumption DEF Init, TermInv
<1> QED BY <1>2, <1>3, <1>5, <1>6, <1>7 DEF AssignmentInv, OneRound

\* Terms and budgets are counted within their bounds.
LEMMA CountsKept == CountTypes /\ [Next]_vars => CountTypes'
<1> SUFFICES ASSUME CountTypes, [Next]_vars PROVE CountTypes'
  OBVIOUS
<1> USE BoundsAssumption DEF CountTypes
<1>1. (UNCHANGED changes \/ Change) /\ (UNCHANGED faults \/ Fault)
  BY DEF Next, vars, consulVars, localVars, ChangeNode, Crash, Restart, MissTTL,
         SettleHealth, ObtainLeadership, LostLeadership, GetNodeList, SendNodeLists,
         LoseSession, SessionExpires, WatchExternalNodes, WatchServiceInstances,
         SelectStop, WaitTimeEnds, ComputeWatchedNodes, FirstLists, SelectUpdate,
         CommitOps
<1>2. (changes \in 0..MaxChanges /\ faults \in 0..MaxFaults)'
  BY <1>1 DEF Change, Fault
<1>3. ASSUME NEW a \in Agents, Crash(a) \/ LostLeadership(a) PROVE CountTypes'
  BY <1>2, <1>3 DEF Crash, LostLeadership, consulVars
<1>4. ASSUME NEW a \in Agents, ObtainLeadership(a) PROVE CountTypes'
  BY <1>2, <1>4 DEF ObtainLeadership
<1>5. CASE LoseSession \/ SessionExpires
  BY <1>2, <1>5 DEF LoseSession, SessionExpires
<1>6. CASE UNCHANGED <<holder, term, loop>>
  BY <1>2, <1>6
<1> QED BY <1>3, <1>4, <1>5, <1>6
        DEF Next, vars, consulVars, localVars, ChangeNode, Restart, MissTTL,
            SettleHealth, GetNodeList, SendNodeLists, WatchExternalNodes,
            WatchServiceInstances, SelectStop, WaitTimeEnds, ComputeWatchedNodes,
            FirstLists, SelectUpdate, CommitOps

\* Steps that change neither the terms nor the KV store.
LEMMA OthersKeepTypes ==
  ASSUME StateTypes,
         \/ \E n \in Nodes : ChangeNode(n)
         \/ \E a \in Agents : Restart(a) \/ MissTTL(a) \/ SettleHealth(a)
         \/ \E a \in Followers : GetNodeList(a) \/ SendNodeLists(a)
         \/ LoseSession \/ SessionExpires
         \/ UNCHANGED vars
  PROVE  StateTypes' /\ UNCHANGED <<maxTxnOps, kv, comp>>
<1> USE DEF consulVars, localVars
<1>1. UNCHANGED <<maxTxnOps, kv, comp>>
  BY DEF ChangeNode, Restart, MissTTL, SettleHealth, GetNodeList, SendNodeLists,
         LoseSession, SessionExpires, vars
<1>2. ASSUME NEW n \in Nodes, ChangeNode(n) PROVE StateTypes'
  BY <1>2 DEF ChangeNode, StateTypes
<1>3. ASSUME NEW a \in Agents, Restart(a) \/ MissTTL(a) \/ SettleHealth(a)
      PROVE  StateTypes'
  BY <1>3 DEF Restart, MissTTL, SettleHealth, StateTypes
<1>4. ASSUME NEW a \in Followers, GetNodeList(a) PROVE StateTypes'
  BY <1>4, NamesAssumption DEF GetNodeList, StateTypes
<1>5. ASSUME NEW a \in Followers, SendNodeLists(a) PROVE StateTypes'
  <2>1. \A l \in fetched[a] : l \in Lists
    BY DEF StateTypes, Maybe
  <2> QED BY <1>5, <2>1 DEF SendNodeLists, StateTypes, Lists, Maybe
<1>6. CASE LoseSession \/ SessionExpires \/ UNCHANGED vars
  BY <1>6 DEF LoseSession, SessionExpires, StateTypes, vars
<1> QED BY <1>1, <1>2, <1>3, <1>4, <1>5, <1>6

\* Terms that begin, are told to stop, or end with their instance.
LEMMA LeadershipKeepsInv ==
  ASSUME AssignmentInv, NEW a \in Agents,
         Crash(a) \/ ObtainLeadership(a) \/ LostLeadership(a)
  PROVE  (StateTypes /\ CompTypes /\ ProgressInv /\ TermInv)' /\ UNCHANGED <<maxTxnOps, kv>>
<1> USE DEF AssignmentInv, consulVars, localVars
<1>1. UNCHANGED <<maxTxnOps, kv>>
  BY DEF Crash, ObtainLeadership, LostLeadership
<1>2. StateTypes'
  <2>1. CASE Crash(a)
    BY <2>1 DEF Crash, StateTypes, Maybe
  <2>2. CASE ObtainLeadership(a) \/ LostLeadership(a)
    BY <2>2 DEF ObtainLeadership, LostLeadership, StateTypes
  <2> QED BY <2>1, <2>2
<1>3. ProgressInv' <=> \A t \in Terms : Progress(comp'[t])
  BY <1>1 DEF ProgressInv, Progress, RoundsFit
<1>4. /\ Cardinality(Agents) \in Nat /\ term \in Nat /\ Terms \subseteq Nat
      /\ loop \in [Agents -> Nat]
  BY FiniteSubsets, BoundsAssumption DEF CountTypes, Terms
<1>5. \A pc \in {"first", "dead"} : /\ [NoComp EXCEPT !.pc = pc] \in CompRecords
                                    /\ Progress([NoComp EXCEPT !.pc = pc])
  BY EmptyComp
<1>6. CASE Crash(a)
  <2>1. CompTypes' /\ ProgressInv'
    BY <1>3, <1>5, <1>6 DEF Crash, CompTypes, ProgressInv
  <2>2. TermInv'
    BY <1>4, <1>6 DEF Crash, TermInv
  <2> QED BY <1>1, <1>2, <2>1, <2>2
<1>7. CASE ObtainLeadership(a)
  <2>1. term + 1 \in Terms /\ comp[term + 1] = NoComp
    BY <1>4, <1>7, BoundsAssumption DEF ObtainLeadership, TermInv, Terms
  <2>2. comp' = [comp EXCEPT ![term + 1] = [NoComp EXCEPT !.pc = "first"]]
    BY <1>7, <2>1 DEF ObtainLeadership
  <2>3. CompTypes' /\ ProgressInv'
    BY <1>3, <1>5, <2>1, <2>2 DEF CompTypes, ProgressInv
  <2>4. TermInv'
    BY <1>4, <1>7, <2>2 DEF ObtainLeadership, TermInv, CompTypes
  <2> QED BY <1>1, <1>2, <2>3, <2>4
<1>8. CASE LostLeadership(a)
  <2> DEFINE t == loop[a]
  <2>1. t \in Terms /\ comp[t] \in CompRecords /\ Progress(comp[t])
    BY <1>8 DEF LostLeadership, CountTypes, Terms, CompTypes, ProgressInv
  <2>2. [comp[t] EXCEPT !.stop = TRUE] \in CompRecords
        /\ Progress([comp[t] EXCEPT !.stop = TRUE])
    BY <2>1 DEF CompRecords, Progress
  <2>3. comp' = [comp EXCEPT ![t] = [comp[t] EXCEPT !.stop = TRUE]]
    BY <1>8 DEF LostLeadership
  <2>4. CompTypes' /\ ProgressInv'
    BY <1>3, <2>1, <2>2, <2>3 DEF CompTypes, ProgressInv
  <2>5. TermInv'
    BY <1>4, <1>8, <2>3 DEF LostLeadership, TermInv, CompTypes
  <2> QED BY <1>1, <1>2, <2>4, <2>5
<1> QED BY <1>6, <1>7, <1>8

\* The record of a term in the select after a pass of its loop, and in the other
\* steps that do not write.
LEMMA DecideType ==
  ASSUME NEW c \in CompRecords, c.done = 0
  PROVE  Decide(c) \in CompRecords /\ Progress(Decide(c))
  BY FiniteSubsets DEF Decide, CompRecords, Progress

\* What computeWatchedNodes and its watches do without the KV store.
LEMMA QuietTermKeepsInv ==
  ASSUME AssignmentInv, NEW t \in Terms,
         \/ WatchExternalNodes(t) \/ WatchServiceInstances(t) \/ FirstLists(t)
         \/ SelectStop(t) \/ SelectUpdate(t) \/ WaitTimeEnds(t)
  PROVE  \E r \in CompRecords : Progress(r) /\ comp' = [comp EXCEPT ![t] = r]
<1> DEFINE c == comp[t]
<1>1. c \in CompRecords /\ Progress(c)
  BY DEF AssignmentInv, CompTypes, ProgressInv
<1>2. registered \in SUBSET Nodes /\ healthy \in SUBSET Agents
  BY DEF AssignmentInv, StateTypes
<1>3. Cardinality(Agents) \in Nat
  BY FiniteSubsets
<1>4. /\ \A nodes \in c.nodeCh : nodes \in SUBSET Nodes
      /\ \A insts \in c.instanceCh : insts \in SUBSET Agents
  BY <1>1 DEF CompRecords, Maybe
<1>5. CASE WatchExternalNodes(t)
  <2> DEFINE r == [c EXCEPT !.nodeCh = {registered}]
  <2>1. r \in CompRecords /\ Progress(r)
    BY <1>1, <1>2 DEF CompRecords, Progress, Maybe
  <2> QED BY <1>5, <2>1 DEF WatchExternalNodes
<1>6. CASE WatchServiceInstances(t)
  <2> DEFINE r == [c EXCEPT !.instanceCh = {healthy}]
  <2>1. r \in CompRecords /\ Progress(r)
    BY <1>1, <1>2 DEF CompRecords, Progress, Maybe
  <2> QED BY <1>6, <2>1 DEF WatchServiceInstances
<1>7. CASE FirstLists(t)
  <2>1. PICK nodes \in c.nodeCh, insts \in c.instanceCh :
          comp' = [comp EXCEPT ![t] =
                     [c EXCEPT !.pc = "select", !.nodes = nodes, !.insts = insts,
                               !.nodeCh = {}, !.instanceCh = {}, !.retry = TRUE]]
    BY <1>7 DEF FirstLists
  <2> DEFINE r == [c EXCEPT !.pc = "select", !.nodes = nodes, !.insts = insts,
                            !.nodeCh = {}, !.instanceCh = {}, !.retry = TRUE]
  <2>2. c.done = 0
    BY <1>1, <1>7 DEF FirstLists, Progress
  <2>3. r \in CompRecords /\ Progress(r)
    BY <1>1, <1>4, <2>2 DEF CompRecords, Progress, Maybe
  <2> QED BY <2>1, <2>3
<1>8. CASE SelectStop(t)
  <2> DEFINE r == [NoComp EXCEPT !.pc = "dead"]
  <2>1. r \in CompRecords /\ Progress(r)
    BY EmptyComp
  <2> QED BY <1>8, <2>1 DEF SelectStop
<1>9. CASE SelectUpdate(t) \/ WaitTimeEnds(t)
  <2>1. c.done = 0
    BY <1>1, <1>9 DEF SelectUpdate, WaitTimeEnds, Progress
  <2>2. \A nodes \in c.nodeCh :
          LET r == [c EXCEPT !.nodes = nodes, !.nodeCh = {}]
          IN  r \in CompRecords /\ r.done = 0
    BY <1>1, <1>4, <2>1 DEF CompRecords, Maybe
  <2>3. \A insts \in c.instanceCh :
          LET r == [c EXCEPT !.insts = insts, !.instanceCh = {}]
          IN  r \in CompRecords /\ r.done = 0
    BY <1>1, <1>4, <2>1 DEF CompRecords, Maybe
  <2>4. \E d \in CompRecords : d.done = 0 /\ comp' = [comp EXCEPT ![t] = Decide(d)]
    BY <1>1, <1>9, <2>1, <2>2, <2>3 DEF SelectUpdate, WaitTimeEnds
  <2> QED BY <2>4, DecideType
<1> QED BY <1>5, <1>6, <1>7, <1>8, <1>9

\* A step that puts a record of the right kind in the place of a term that has
\* begun.
LEMMA TermStepKeepsInv ==
  ASSUME CompTypes, ProgressInv, TermInv, CountTypes, NEW t \in Terms,
         comp[t].pc # "none", UNCHANGED <<maxTxnOps, loop, term>>,
         NEW r \in CompRecords, Progress(r), comp' = [comp EXCEPT ![t] = r]
  PROVE  (CompTypes /\ ProgressInv /\ TermInv)'
<1>1. ProgressInv' <=> \A u \in Terms : Progress(comp'[u])
  BY DEF ProgressInv, Progress, RoundsFit
<1>2. CompTypes' /\ ProgressInv'
  BY <1>1 DEF CompTypes, ProgressInv
<1>3. comp[t] # NoComp
  BY DEF NoComp
<1>4. TermInv'
  BY <1>3 DEF TermInv, CompTypes
<1> QED BY <1>2, <1>4

\* A transaction, answered or not, or one that fails.
LEMMA CommitKeepsInv ==
  ASSUME AssignmentInv, NEW t \in Terms, CommitOps(t)
  PROVE  /\ (StateTypes /\ OneRound)'
         /\ \E r \in CompRecords : Progress(r) /\ comp' = [comp EXCEPT ![t] = r]
<1> DEFINE c == comp[t]
           W == Written(c, Chunk(c))
<1>1. c \in CompRecords /\ Progress(c) /\ c.pc = "commit"
  BY DEF AssignmentInv, CompTypes, ProgressInv, CommitOps
<1>2. \/ kv' = W /\ unread' \subseteq unread \cup Followers
      \/ kv' = kv /\ unread' = unread
  BY DEF CommitOps, Apply
<1>3. comp' = [comp EXCEPT ![t] = AfterCommit(c)] \/ comp' = [comp EXCEPT ![t] = RetryRound(c)]
  BY DEF CommitOps
<1>4. UNCHANGED <<maxTxnOps, registered, healthy, running, fetched, ourNodes, pinging>>
  BY DEF CommitOps, localVars
<1>5. StateTypes'
  <2>1. W \in [Agents -> Maybe(Lists)]
    <3>1. c.nodes \in SUBSET Nodes
      BY <1>1 DEF CompRecords
    <3>2. \A a \in Agents : NodeList(a, c.nodes, c.insts) \in Lists
      BY <3>1, NodeListType
    <3> QED BY <3>2 DEF AssignmentInv, StateTypes, Written, Maybe
  <2> HIDE DEF W
  <2> QED BY <1>2, <1>4, <2>1 DEF AssignmentInv, StateTypes
<1>6. OneRound'
  <2>1. RoundsFit' <=> RoundsFit
    BY <1>4 DEF RoundsFit
  <2>2. SUFFICES ASSUME RoundsFit
                 PROVE  \E nodes \in SUBSET Nodes, insts \in SUBSET Agents :
                          kv' = Round(nodes, insts)
    BY <2>1 DEF OneRound, Round
  <2>3. W = Round(c.nodes, c.insts) \/ W = kv
    BY <1>1, <2>2, WritesRound DEF AssignmentInv, Progress
  <2>4. c.nodes \in SUBSET Nodes /\ c.insts \in SUBSET Agents
    BY <1>1 DEF CompRecords
  <2>5. \E nodes \in SUBSET Nodes, insts \in SUBSET Agents : kv = Round(nodes, insts)
    BY <2>2 DEF AssignmentInv, OneRound
  <2> HIDE DEF W
  <2> QED BY <1>2, <2>3, <2>4, <2>5
<1>7. Cardinality(Agents) \in Nat /\ Cardinality(c.insts) \in Nat
      /\ Cardinality(c.insts) <= Cardinality(Agents)
  BY <1>1, FiniteSubsets DEF CompRecords
<1>0. 0 \in 0..(Cardinality(Agents) + 1)
  BY <1>7
<1>8. RetryRound(c) \in CompRecords /\ Progress(RetryRound(c))
  <2>1. RetryRound(c) \in CompRecords
    BY <1>1, <1>0 DEF RetryRound, CompRecords
  <2>2. RetryRound(c).done = 0
    BY <1>1 DEF RetryRound, CompRecords
  <2> QED BY <2>1, <2>2 DEF Progress
<1>9. AfterCommit(c) \in CompRecords /\ Progress(AfterCommit(c))
  <2>1. CASE Cardinality(Chunk(c)) = maxTxnOps
    <3> DEFINE d == c.done + maxTxnOps
    <3>1. c.done \in Nat /\ maxTxnOps \in Nat
      BY <1>1, <1>7, LimitType DEF AssignmentInv, CompRecords
    <3>2. d <= Cardinality(c.insts) + 1
      BY <1>1, <2>1, ChunkBound DEF AssignmentInv
    <3>3. d \in 0..(Cardinality(Agents) + 1)
      BY <1>7, <3>1, <3>2
    <3>4. RoundsFit => d > Cardinality(c.insts)
      BY <1>7, <3>1 DEF RoundsFit
    <3>5. AfterCommit(c) = [c EXCEPT !.done = d]
      BY <2>1 DEF AfterCommit
    <3> HIDE DEF d
    <3> QED BY <1>1, <3>3, <3>4, <3>5 DEF CompRecords, Progress
  <2>2. CASE Cardinality(Chunk(c)) # maxTxnOps
    <3>1. AfterCommit(c) \in CompRecords
      BY <1>1, <1>0, <2>2 DEF AfterCommit, CompRecords
    <3>2. AfterCommit(c).done = 0
      BY <1>1, <2>2 DEF AfterCommit, CompRecords
    <3> QED BY <3>1, <3>2 DEF Progress
  <2> QED BY <2>1, <2>2
<1> QED BY <1>3, <1>5, <1>6, <1>8, <1>9

-----------------------------------------------------------------------------
(***************************************************************************)
(* The theorems                                                            *)
(***************************************************************************)

\* The steps of leaders, instances and Consul together.
LEMMA AssignmentStep == AssignmentInv /\ [Next]_vars => AssignmentInv'
<1> SUFFICES ASSUME AssignmentInv, [Next]_vars PROVE AssignmentInv'
  OBVIOUS
<1>1. CountTypes'
  BY CountsKept DEF AssignmentInv
<1>2. ASSUME UNCHANGED <<maxTxnOps, kv>> PROVE OneRound'
  BY <1>2 DEF AssignmentInv, OneRound, RoundsFit, Round
<1>3. CASE \/ \E n \in Nodes : ChangeNode(n)
           \/ \E a \in Agents : Restart(a) \/ MissTTL(a) \/ SettleHealth(a)
           \/ \E a \in Followers : GetNodeList(a) \/ SendNodeLists(a)
           \/ LoseSession \/ SessionExpires
           \/ UNCHANGED vars
  <2>1. StateTypes' /\ UNCHANGED <<maxTxnOps, kv, comp>>
    BY <1>3, OthersKeepTypes DEF AssignmentInv
  <2>2. UNCHANGED <<loop, term>>
    BY <1>3 DEF ChangeNode, Restart, MissTTL, SettleHealth, GetNodeList, SendNodeLists,
                LoseSession, SessionExpires, vars
  <2>3. (CompTypes /\ ProgressInv /\ TermInv)'
    BY <2>1, <2>2 DEF AssignmentInv, CompTypes, ProgressInv, Progress, RoundsFit, TermInv
  <2> QED BY <1>1, <1>2, <2>1, <2>3 DEF AssignmentInv
<1>4. ASSUME NEW a \in Agents, Crash(a) \/ ObtainLeadership(a) \/ LostLeadership(a)
      PROVE  AssignmentInv'
  BY <1>1, <1>2, <1>4, LeadershipKeepsInv DEF AssignmentInv
<1>5. ASSUME NEW t \in Terms,
             \/ WatchExternalNodes(t) \/ WatchServiceInstances(t) \/ FirstLists(t)
             \/ SelectStop(t) \/ SelectUpdate(t) \/ WaitTimeEnds(t)
      PROVE  AssignmentInv'
  <2>1. PICK r \in CompRecords : Progress(r) /\ comp' = [comp EXCEPT ![t] = r]
    BY <1>5, QuietTermKeepsInv
  <2>2. comp[t].pc # "none"
    BY <1>5 DEF WatchExternalNodes, WatchServiceInstances, FirstLists, SelectStop,
                SelectUpdate, WaitTimeEnds, Alive
  <2>3. UNCHANGED <<consulVars, running, loop, localVars, term>>
    BY <1>5 DEF WatchExternalNodes, WatchServiceInstances, FirstLists, SelectStop,
                SelectUpdate, WaitTimeEnds
  <2>4. UNCHANGED <<maxTxnOps, kv, loop, term>> /\ StateTypes'
    BY <2>3 DEF consulVars, localVars, AssignmentInv, StateTypes
  <2>5. (CompTypes /\ ProgressInv /\ TermInv)'
    BY <2>1, <2>2, <2>4, TermStepKeepsInv DEF AssignmentInv
  <2> QED BY <1>1, <1>2, <2>4, <2>5 DEF AssignmentInv
<1>6. ASSUME NEW t \in Terms, CommitOps(t) PROVE AssignmentInv'
  <2>1. (StateTypes /\ OneRound)'
    BY <1>6, CommitKeepsInv
  <2>2. PICK r \in CompRecords : Progress(r) /\ comp' = [comp EXCEPT ![t] = r]
    BY <1>6, CommitKeepsInv
  <2>3. comp[t].pc # "none" /\ UNCHANGED <<maxTxnOps, loop, term>>
    BY <1>6 DEF CommitOps
  <2>4. (CompTypes /\ ProgressInv /\ TermInv)'
    BY <2>2, <2>3, TermStepKeepsInv DEF AssignmentInv
  <2> QED BY <1>1, <2>1, <2>4 DEF AssignmentInv
<1> QED BY <1>3, <1>4, <1>5, <1>6 DEF Next, ComputeWatchedNodes

\* The types of the state, how far a round has come, and, when rounds fit, whose
\* lists the KV store holds, hold in every state of every instance.
THEOREM AssignmentInvariant == Spec => []AssignmentInv
<1>1. Init => AssignmentInv
  BY AssignmentInit
<1>2. AssignmentInv /\ [Next]_vars => AssignmentInv'
  BY AssignmentStep
<1> QED BY <1>1, <1>2, PTL DEF Spec

\* TypeOK for any nodes, instances and limits; in particular the rounds of
\* commitOps never count more operations than there are instances, and the deletion.
THEOREM AssignmentTypeCorrect == Spec => []TypeOK
<1>1. AssignmentInv => TypeOK
  BY DEF AssignmentInv, TypeOK, StateTypes, CountTypes, CompTypes, CompRecords
<1> QED BY <1>1, AssignmentInvariant, PTL

\* While a transaction holds a whole round, the lists in the KV store are always
\* disjoint and no instance has two nodes more than another: however many deposed
\* leaders still write, whatever crashes, fails or loses its answer.
THEOREM AssignmentDividedEvenly == Spec => []DividedEvenly
<1>1. AssignmentInv => DividedEvenly
  <2> SUFFICES ASSUME AssignmentInv, RoundsFit
               PROVE  \A a, b \in {x \in Agents : kv[x] # {}} :
                        a # b => /\ All(a) \cap All(b) = {}
                                 /\ Cardinality(All(a)) <= Cardinality(All(b)) + 1
    BY DEF DividedEvenly, RoundsFit
  <2>1. PICK nodes \in SUBSET Nodes, insts \in SUBSET Agents : kv = Round(nodes, insts)
    BY DEF AssignmentInv, OneRound
  <2> QED BY <2>1, RoundDivided
<1> QED BY <1>1, AssignmentInvariant, PTL
=============================================================================
