--------------------------- MODULE NodeProbeProofs ---------------------------
(***************************************************************************)
(* Proofs about NodeProbe, for any agents, nodes, pings and budgets.       *)
(***************************************************************************)
EXTENDS NodeProbe, TLAPS

\* What a ping knows of itself: who it is for once it runs, that it has decided
\* on something when it comes to its transaction and on nothing before it has
\* pinged, and that it only ever reaps on the strength of an overdue entry.
PingInv ==
  \A p \in Pings :
    /\ ping[p].pc # "idle" => ping[p].agent \in Agents /\ ping[p].node \in Nodes
    /\ ping[p].pc \in {"get", "ping"} => ping[p].does = "nothing"
    /\ ping[p].pc = "lookup" => ping[p].does = "reap"
    /\ ping[p].pc = "txn" => ping[p].does # "nothing"
    /\ ping[p].does \in {"reap", "clear"} => ping[p].seen = "overdue"

\* A ping whose check-and-set would succeed holds the present entry: what it read
\* is what the KV store has, aged alike.
FreshInv ==
  \A n \in Nodes : \A p \in kvFresh[n] :
    /\ ping[p].pc \notin {"idle", "get"}
    /\ ping[p].node = n
    /\ ping[p].seen = kv[n]

ProbeInv == StateTypes /\ PingInv /\ FreshInv

-----------------------------------------------------------------------------
(***************************************************************************)
(* The budgets, which need arithmetic and nothing else.                    *)
(***************************************************************************)

\* The budgets are numbers.
LEMMA BudgetBounds ==
  MaxFlips \in Nat /\ MaxFaults \in Nat /\ MaxLists \in Nat /\ MaxOperator \in Nat
  BY BoundsAssumption

\* No step spends more than the budgets.
LEMMA BudgetsKept == BudgetTypes /\ [Next]_vars => BudgetTypes'
<1> SUFFICES ASSUME BudgetTypes, [Next]_vars PROVE BudgetTypes'
  OBVIOUS
<1> USE BudgetBounds DEF BudgetTypes
<1>1. ASSUME NEW n \in Nodes, Flip(n) \/ Operator(n) \/ Age(n) PROVE BudgetTypes'
  BY <1>1 DEF Flip, Operator, Age, budgetVars
<1>2. ASSUME NEW a \in Agents, TrackNodes(a) \/ TakeNodes(a) PROVE BudgetTypes'
  BY <1>2 DEF TrackNodes, TakeNodes, budgetVars
<1>3. ASSUME NEW a \in Agents, NEW n \in Nodes, StartPing(a, n) \/ Expire(a, n)
      PROVE  BudgetTypes'
  BY <1>3 DEF StartPing, Expire, budgetVars
<1>4. ASSUME NEW p \in Pings, RunNodePing(p) \/ AgeStale(p) PROVE BudgetTypes'
  <2>1. UNCHANGED <<flips, lists, operator>>
    BY <1>4 DEF RunNodePing, GetEntry, PingNode, DecodeFails, LookupNode, RunTxn,
                FinishPing, AgeStale, budgetVars
  <2>2. UNCHANGED faults \/ Fault
    BY <1>4 DEF RunNodePing, GetEntry, PingNode, PingAnswer, DecodeFails, LookupNode,
                RunTxn, FinishPing, AgeStale
  <2> QED BY <2>1, <2>2 DEF Fault
<1>5. CASE UNCHANGED vars
  BY <1>5 DEF vars
<1> QED BY <1>1, <1>2, <1>3, <1>4, <1>5 DEF Next

-----------------------------------------------------------------------------
(***************************************************************************)
(* The state.                                                              *)
(***************************************************************************)

\* The invariant holds before the first ping.
LEMMA ProbeInit == Init => ProbeInv /\ BudgetTypes
<1> SUFFICES ASSUME Init PROVE ProbeInv /\ BudgetTypes
  OBVIOUS
<1>1. NoPing \in PingRecords
  BY DEF NoPing, PingRecords, Entries
<1>2. StateTypes
  BY <1>1 DEF Init, StateTypes, Entries
<1>3. PingInv
  BY DEF Init, PingInv, NoPing
<1>4. FreshInv
  BY DEF Init, FreshInv
<1>5. BudgetTypes
  BY BudgetBounds DEF Init, BudgetTypes
<1> QED BY <1>2, <1>3, <1>4, <1>5 DEF ProbeInv

\* A record of a ping with some of its fields replaced is a record of a ping.
LEMMA PingFields ==
  ASSUME NEW r \in PingRecords
  PROVE  /\ \A pc \in {"idle", "get", "ping", "lookup", "txn", "finish"} :
               [r EXCEPT !.pc = pc] \in PingRecords
         /\ \A e \in Entries : [r EXCEPT !.seen = e] \in PingRecords
         /\ \A pc \in {"ping"}, e \in Entries :
               [r EXCEPT !.pc = pc, !.seen = e] \in PingRecords
         /\ \A pc \in {"lookup", "txn"}, d \in {"heal", "fail", "reap", "clear"} :
               [r EXCEPT !.pc = pc, !.does = d] \in PingRecords
  BY DEF PingRecords

\* Steps of the environment and of the node lists.
LEMMA EnvironmentKeepsInv ==
  ASSUME ProbeInv,
         \/ \E n \in Nodes : Flip(n) \/ Operator(n) \/ Age(n)
         \/ \E a \in Agents : TrackNodes(a) \/ TakeNodes(a)
         \/ \E a \in Agents, n \in Nodes : Expire(a, n)
         \/ \E p \in Pings : AgeStale(p)
  PROVE  ProbeInv'
<1> USE DEF ProbeInv
<1>1. CASE \E n \in Nodes : Flip(n)
  BY <1>1 DEF Flip, StateTypes, PingInv, FreshInv, consulVars, listVars
<1>2. CASE \E n \in Nodes : Operator(n)
  BY <1>2 DEF Operator, StateTypes, PingInv, FreshInv, listVars
<1>3. ASSUME NEW n \in Nodes, Age(n)
      PROVE  ProbeInv'
  <2>1. \A p \in Pings : [ping[p] EXCEPT !.seen = "overdue"] \in PingRecords
    BY PingFields DEF StateTypes, Entries
  <2>2. StateTypes'
    BY <1>3, <2>1 DEF Age, StateTypes, Entries, listVars
  <2>3. \A p \in Pings :
          /\ ping'[p].pc = ping[p].pc /\ ping'[p].agent = ping[p].agent
          /\ ping'[p].node = ping[p].node /\ ping'[p].does = ping[p].does
          /\ ping'[p].seen = IF ping[p].node = n /\ ping[p].seen = "recent"
                             THEN "overdue" ELSE ping[p].seen
    <3>1. ping \in [Pings -> PingRecords]
      BY DEF StateTypes
    <3>2. ping' = [p \in Pings |->
                     IF ping[p].node = n /\ ping[p].seen = "recent"
                     THEN [ping[p] EXCEPT !.seen = "overdue"] ELSE ping[p]]
      BY <1>3 DEF Age
    <3> QED BY <3>1, <3>2 DEF PingRecords
  <2>4. PingInv'
    BY <2>3 DEF PingInv
  <2>5. FreshInv'
    BY <1>3, <2>3 DEF Age, StateTypes, FreshInv
  <2> QED BY <2>2, <2>4, <2>5
<1>4. CASE \E a \in Agents : TrackNodes(a)
  BY <1>4 DEF TrackNodes, StateTypes, PingInv, FreshInv, consulVars
<1>5. CASE \E a \in Agents : TakeNodes(a)
  BY <1>5 DEF TakeNodes, StateTypes, PingInv, FreshInv, consulVars
<1>6. CASE \E a \in Agents, n \in Nodes : Expire(a, n)
  BY <1>6 DEF Expire, StateTypes, PingInv, FreshInv, consulVars, listVars
<1>7. ASSUME NEW p \in Pings, AgeStale(p)
      PROVE  ProbeInv'
  <2>1. [ping[p] EXCEPT !.seen = "overdue"] \in PingRecords
    BY PingFields DEF StateTypes, Entries
  <2>2. StateTypes'
    BY <1>7, <2>1 DEF AgeStale, StateTypes, consulVars, listVars
  <2>3. /\ \A q \in Pings \ {p} : ping'[q] = ping[q]
        /\ ping'[p].pc = ping[p].pc /\ ping'[p].agent = ping[p].agent
        /\ ping'[p].node = ping[p].node /\ ping'[p].does = ping[p].does
        /\ ping'[p].seen = "overdue"
    <3>1. ping \in [Pings -> PingRecords]
      BY DEF StateTypes
    <3>2. ping' = [ping EXCEPT ![p] = [ping[p] EXCEPT !.seen = "overdue"]]
      BY <1>7 DEF AgeStale
    <3> QED BY <3>1, <3>2 DEF PingRecords
  <2>4. PingInv'
    BY <2>3 DEF PingInv
  <2>5. FreshInv'
    BY <1>7, <2>3 DEF AgeStale, StateTypes, FreshInv, consulVars
  <2> QED BY <2>2, <2>4, <2>5
<1> QED BY <1>1, <1>2, <1>3, <1>4, <1>5, <1>6, <1>7

\* A ping starts.
LEMMA StartPingKeepsInv ==
  ASSUME ProbeInv, NEW a \in Agents, NEW n \in Nodes, StartPing(a, n)
  PROVE  ProbeInv'
<1> USE DEF ProbeInv
<1> DEFINE new == [NoPing EXCEPT !.pc = "get", !.agent = a, !.node = n]
<1>1. PICK p \in Pings : ping[p] = NoPing /\ ping' = [ping EXCEPT ![p] = new]
  BY DEF StartPing
<1>2. new \in PingRecords
  BY DEF NoPing, PingRecords, Entries
<1>3. new.pc = "get" /\ new.agent = a /\ new.node = n /\ new.does = "nothing"
  BY DEF NoPing
<1> HIDE DEF new
<1>4. ping'[p] = new /\ \A q \in Pings \ {p} : ping'[q] = ping[q]
  BY <1>1 DEF StateTypes
<1>5. StateTypes'
  <2>1. inflight' = [inflight EXCEPT ![a] = @ \cup {n}]
        /\ UNCHANGED <<up, registered, check, kv, kvFresh, nodeFresh, known, list,
                       oldNodes, outCh>>
    BY DEF StartPing, consulVars, listVars
  <2>2. inflight' \in [Agents -> SUBSET Nodes]
    BY <2>1, Zenon DEF StateTypes
  <2>3. ping' \in [Pings -> PingRecords]
    BY <1>1, <1>2 DEF StateTypes
  <2> QED BY <2>1, <2>2, <2>3 DEF StateTypes
<1>6. PingInv'
  BY <1>3, <1>4 DEF PingInv
<1>7. FreshInv'
  <2>0. NoPing.pc = "idle"
    BY DEF NoPing
  <2>1. ping[p].pc = "idle"
    BY <1>1, <2>0
  <2>2. \A m \in Nodes : p \notin kvFresh[m] /\ kvFresh[m] \subseteq Pings
    BY <2>1 DEF FreshInv, StateTypes
  <2>3. UNCHANGED <<kv, kvFresh>>
    BY DEF StartPing, consulVars
  <2> QED BY <1>4, <2>2, <2>3 DEF FreshInv
<1> QED BY <1>5, <1>6, <1>7

\* What the steps after the KV entry is read have in common: the ping keeps what
\* it read, and entries of the KV store that change are held by nobody.
LEMMA PingStep ==
  ASSUME ProbeInv, NEW p \in Pings, NEW r \in PingRecords,
         ping' = [ping EXCEPT ![p] = r],
         \A m \in Nodes : /\ kvFresh'[m] \subseteq kvFresh[m]
                          /\ kvFresh'[m] # {} => kv'[m] = kv[m],
         ping[p].pc # "idle", r.pc \in {"lookup", "txn", "finish"},
         r.agent = ping[p].agent, r.node = ping[p].node, r.seen = ping[p].seen,
         r.pc = "lookup" => r.does = "reap",
         r.pc = "txn" => r.does # "nothing",
         r.does \in {"reap", "clear"} => r.seen = "overdue"
  PROVE  ping' \in [Pings -> PingRecords] /\ PingInv' /\ FreshInv'
<1>1. ping \in [Pings -> PingRecords] /\ \A m \in Nodes : kvFresh[m] \subseteq Pings
  BY DEF ProbeInv, StateTypes
<1>2. ping' \in [Pings -> PingRecords]
  BY <1>1
<1>3. ping'[p] = r /\ \A q \in Pings \ {p} : ping'[q] = ping[q]
  BY <1>1
<1>4. PingInv'
  BY <1>3 DEF ProbeInv, PingInv
<1>5. FreshInv'
  BY <1>1, <1>3 DEF ProbeInv, FreshInv
<1> QED BY <1>2, <1>4, <1>5

\* The steps of one ping.
LEMMA RunNodePingKeepsInv ==
  ASSUME ProbeInv, NEW p \in Pings, RunNodePing(p)
  PROVE  ProbeInv'
<1> USE DEF ProbeInv
<1> DEFINE n == ping[p].node
<1>0. ping[p] \in PingRecords
  BY DEF StateTypes
<1>1. CASE GetEntry(p)
  <2>1. ping[p].pc = "get" /\ n \in Nodes
    BY <1>1 DEF GetEntry, PingInv
  <2>2. PICK e \in Entries :
          /\ ping' = [ping EXCEPT ![p] = [ping[p] EXCEPT !.pc = "ping", !.seen = e]]
          /\ \/ kvFresh' = kvFresh
             \/ e = kv[n] /\ kvFresh' = [kvFresh EXCEPT ![n] = @ \cup {p}]
    <3>1. kv[n] \in Entries /\ "none" \in Entries
      BY <2>1 DEF StateTypes, Entries
    <3>2. CASE /\ ping' = [ping EXCEPT ![p].pc = "ping", ![p].seen = kv[n]]
               /\ kvFresh' = [kvFresh EXCEPT ![n] = IF kv[n] = "none" THEN @ ELSE @ \cup {p}]
      <4>1. kvFresh' = kvFresh \/ kvFresh' = [kvFresh EXCEPT ![n] = @ \cup {p}]
        BY <2>1, <3>2 DEF StateTypes
      <4>2. ping' = [ping EXCEPT ![p] = [ping[p] EXCEPT !.pc = "ping", !.seen = kv[n]]]
        BY <3>2 DEF StateTypes
      <4> QED BY <3>1, <4>1, <4>2
    <3>3. CASE /\ ping' = [ping EXCEPT ![p].pc = "ping", ![p].seen = "none"]
               /\ kvFresh' = kvFresh
      <4>1. ping' = [ping EXCEPT ![p] = [ping[p] EXCEPT !.pc = "ping", !.seen = "none"]]
        BY <3>3 DEF StateTypes
      <4> QED BY <3>1, <3>3, <4>1
    <3> QED BY <1>1, <3>2, <3>3 DEF GetEntry, EntryAfterError
  <2>3. [ping[p] EXCEPT !.pc = "ping", !.seen = e] \in PingRecords
    BY <1>0, PingFields
  <2>4. /\ \A q \in Pings \ {p} : ping'[q] = ping[q]
        /\ ping'[p].pc = "ping" /\ ping'[p].agent = ping[p].agent
        /\ ping'[p].node = n /\ ping'[p].seen = e /\ ping'[p].does = ping[p].does
    <3>1. ping \in [Pings -> PingRecords]
      BY DEF StateTypes
    <3> QED BY <1>0, <2>2, <3>1 DEF PingRecords
  <2>5. StateTypes'
    <3>1. UNCHANGED <<up, registered, check, kv, nodeFresh, known, inflight, list,
                      oldNodes, outCh>>
      BY <1>1 DEF GetEntry, listVars
    <3>2. kvFresh' \in [Nodes -> SUBSET Pings]
      BY <2>1, <2>2 DEF StateTypes
    <3>3. ping' \in [Pings -> PingRecords]
      BY <2>2, <2>3 DEF StateTypes
    <3> QED BY <3>1, <3>2, <3>3 DEF StateTypes
  <2>6. PingInv'
    BY <2>1, <2>4 DEF PingInv
  <2>7. FreshInv'
    <3>1. kv' = kv
      BY <1>1 DEF GetEntry
    <3>2. \A m \in Nodes : /\ kvFresh'[m] \subseteq kvFresh[m] \cup {p}
                           /\ p \notin kvFresh[m]
                           /\ p \in kvFresh'[m] => m = n /\ e = kv[n]
      BY <2>1, <2>2 DEF StateTypes, FreshInv
    <3>3. \A m \in Nodes : kvFresh[m] \subseteq Pings
      BY DEF StateTypes
    <3> QED BY <2>4, <3>1, <3>2, <3>3 DEF FreshInv
  <2> QED BY <2>5, <2>6, <2>7
<1>2. CASE PingNode(p) \/ DecodeFails(p)
  <2>1. ping[p].pc = "ping" /\ UNCHANGED <<kv, kvFresh>>
    BY <1>2 DEF PingNode, DecodeFails, consulVars
  <2>2. \A m \in Nodes : kvFresh'[m] \subseteq kvFresh[m] /\ kv'[m] = kv[m]
    BY <2>1
  <2>3. \/ ping' = [ping EXCEPT ![p] = [ping[p] EXCEPT !.pc = "finish"]]
        \/ \E pc \in {"lookup", "txn"}, d \in {"heal", "fail", "reap"} :
             /\ pc = IF d = "reap" THEN "lookup" ELSE "txn"
             /\ d = "reap" => ping[p].seen = "overdue"
             /\ ping' = [ping EXCEPT ![p] = [ping[p] EXCEPT !.pc = pc, !.does = d]]
    <3>1. \/ ping' = [ping EXCEPT ![p] = UpdateHealthyNode(ping[p])]
          \/ ping' = [ping EXCEPT ![p] = UpdateFailedNode(ping[p])]
          \/ ping' = [ping EXCEPT ![p] = [ping[p] EXCEPT !.pc = "finish"]]
      BY <1>2 DEF PingNode, DecodeFails
    <3>2. UpdateHealthyNode(ping[p]) \in {[ping[p] EXCEPT !.pc = "finish"],
                                          [ping[p] EXCEPT !.pc = "txn", !.does = "heal"]}
      BY DEF UpdateHealthyNode
    <3>3. \/ UpdateFailedNode(ping[p]) \in {[ping[p] EXCEPT !.pc = "finish"],
                                            [ping[p] EXCEPT !.pc = "txn", !.does = "fail"]}
          \/ /\ UpdateFailedNode(ping[p]) = [ping[p] EXCEPT !.pc = "lookup", !.does = "reap"]
             /\ ping[p].seen = "overdue"
      BY DEF UpdateFailedNode
    <3> QED BY <3>1, <3>2, <3>3, Zenon
  <2>4. ping' \in [Pings -> PingRecords] /\ PingInv' /\ FreshInv'
    <3>1. CASE ping' = [ping EXCEPT ![p] = [ping[p] EXCEPT !.pc = "finish"]]
      <4> DEFINE r == [ping[p] EXCEPT !.pc = "finish"]
      <4>1. /\ r \in PingRecords /\ r.pc = "finish" /\ r.does = ping[p].does
            /\ r.agent = ping[p].agent /\ r.node = n /\ r.seen = ping[p].seen
        BY <1>0 DEF PingRecords
      <4>2. r.does \in {"reap", "clear"} => r.seen = "overdue"
        BY <4>1 DEF PingInv
      <4> HIDE DEF r
      <4> QED BY <2>1, <2>2, <3>1, <4>1, <4>2, PingStep DEF r
    <3>2. ASSUME NEW pc \in {"lookup", "txn"}, NEW d \in {"heal", "fail", "reap"},
                 pc = IF d = "reap" THEN "lookup" ELSE "txn",
                 d = "reap" => ping[p].seen = "overdue",
                 ping' = [ping EXCEPT ![p] = [ping[p] EXCEPT !.pc = pc, !.does = d]]
          PROVE  ping' \in [Pings -> PingRecords] /\ PingInv' /\ FreshInv'
      <4> DEFINE r == [ping[p] EXCEPT !.pc = pc, !.does = d]
      <4>1. /\ r \in PingRecords /\ r.pc = pc /\ r.does = d
            /\ r.agent = ping[p].agent /\ r.node = n /\ r.seen = ping[p].seen
        BY <1>0 DEF PingRecords
      <4>2. ping' = [ping EXCEPT ![p] = r]
        BY <3>2
      <4> HIDE DEF r
      <4>3. /\ r.pc \in {"lookup", "txn", "finish"}
            /\ r.pc = "lookup" => r.does = "reap"
            /\ r.does # "nothing"
            /\ r.does \in {"reap", "clear"} => r.seen = "overdue"
        BY <3>2, <4>1
      <4> QED BY <2>1, <2>2, <4>1, <4>2, <4>3, PingStep
    <3> QED BY <2>3, <3>1, <3>2
  <2>5. StateTypes'
    BY <1>2, <2>4 DEF PingNode, DecodeFails, StateTypes, consulVars, listVars
  <2> QED BY <2>4, <2>5
<1>3. CASE LookupNode(p)
  <2>1. /\ ping[p].pc = "lookup" /\ ping[p].does = "reap" /\ ping[p].seen = "overdue"
        /\ n \in Nodes /\ UNCHANGED <<kv, kvFresh>>
    BY <1>3 DEF LookupNode, PingInv
  <2>2. \A m \in Nodes : kvFresh'[m] \subseteq kvFresh[m] /\ kv'[m] = kv[m]
    BY <2>1
  <2>3. \/ ping' = [ping EXCEPT ![p] = [ping[p] EXCEPT !.pc = "txn"]]
        \/ ping' = [ping EXCEPT ![p] = [ping[p] EXCEPT !.pc = "finish"]]
        \/ ping' = [ping EXCEPT ![p] = [ping[p] EXCEPT !.pc = "txn", !.does = "clear"]]
    BY <1>3 DEF LookupNode
  <2>4. ping' \in [Pings -> PingRecords] /\ PingInv' /\ FreshInv'
    <3>1. ASSUME NEW pc \in {"txn", "finish"},
                 ping' = [ping EXCEPT ![p] = [ping[p] EXCEPT !.pc = pc]]
          PROVE  ping' \in [Pings -> PingRecords] /\ PingInv' /\ FreshInv'
      <4> DEFINE r == [ping[p] EXCEPT !.pc = pc]
      <4>1. /\ r \in PingRecords /\ r.pc = pc /\ r.does = "reap"
            /\ r.agent = ping[p].agent /\ r.node = n /\ r.seen = ping[p].seen
        BY <1>0, <2>1 DEF PingRecords
      <4>2. ping' = [ping EXCEPT ![p] = r]
        BY <3>1
      <4> HIDE DEF r
      <4> QED BY <2>1, <2>2, <4>1, <4>2, PingStep
    <3>2. CASE ping' = [ping EXCEPT ![p] =
                          [ping[p] EXCEPT !.pc = "txn", !.does = "clear"]]
      <4> DEFINE r == [ping[p] EXCEPT !.pc = "txn", !.does = "clear"]
      <4>1. /\ r \in PingRecords /\ r.pc = "txn" /\ r.does = "clear"
            /\ r.agent = ping[p].agent /\ r.node = n /\ r.seen = ping[p].seen
        BY <1>0 DEF PingRecords
      <4>2. ping' = [ping EXCEPT ![p] = r]
        BY <3>2
      <4> HIDE DEF r
      <4> QED BY <2>1, <2>2, <4>1, <4>2, PingStep
    <3> QED BY <2>3, <3>1, <3>2
  <2>5. /\ nodeFresh' \in [Nodes -> SUBSET Pings]
        /\ UNCHANGED <<up, registered, check, kv, kvFresh, known, inflight, list,
                       oldNodes, outCh>>
    BY <1>3, <2>1 DEF LookupNode, StateTypes, listVars
  <2>6. StateTypes'
    BY <2>4, <2>5 DEF StateTypes
  <2> QED BY <2>4, <2>6
<1>4. CASE RunTxn(p)
  <2>1. /\ ping[p].pc = "txn"
        /\ ping[p].agent \in Agents /\ n \in Nodes
        /\ ping[p].does \in {"heal", "fail", "reap", "clear"}
    BY <1>0, <1>4 DEF RunTxn, PingRecords, PingInv
  <2>2. /\ registered' \in SUBSET registered
        /\ \/ nodeFresh' = nodeFresh
           \/ nodeFresh' = [nodeFresh EXCEPT ![n] = {}]
        /\ \/ check' = check
           \/ \E s \in {"none", "passing", "critical"} : check' = [check EXCEPT ![n] = s]
        /\ \/ kv' = kv /\ kvFresh' = kvFresh
           \/ /\ \E e \in {"none", "recent"} : kv' = [kv EXCEPT ![n] = e]
              /\ kvFresh' = [kvFresh EXCEPT ![n] = {}]
    <3>1. CASE TxnEffect(p)
      BY <2>1, <3>1 DEF TxnEffect
    <3>2. CASE UNCHANGED consulVars
      BY <3>2 DEF consulVars
    <3> QED BY <1>4, <3>1, <3>2 DEF RunTxn
  <2>3. /\ registered' \subseteq Nodes
        /\ nodeFresh' \in [Nodes -> SUBSET Pings]
        /\ check' \in [Nodes -> {"none", "passing", "critical"}]
        /\ kv' \in [Nodes -> Entries]
        /\ kvFresh' \in [Nodes -> SUBSET Pings]
    <3>1. /\ registered \subseteq Nodes
          /\ nodeFresh \in [Nodes -> SUBSET Pings]
          /\ check \in [Nodes -> {"none", "passing", "critical"}]
          /\ kv \in [Nodes -> Entries]
          /\ kvFresh \in [Nodes -> SUBSET Pings]
      BY DEF StateTypes
    <3>2. registered' \subseteq Nodes /\ nodeFresh' \in [Nodes -> SUBSET Pings]
      BY <2>1, <2>2, <3>1
    <3>3. check' \in [Nodes -> {"none", "passing", "critical"}]
      BY <2>1, <2>2, <3>1
    <3>4. kv' \in [Nodes -> Entries] /\ kvFresh' \in [Nodes -> SUBSET Pings]
      BY <2>1, <2>2, <3>1 DEF Entries
    <3> QED BY <3>2, <3>3, <3>4
  <2>4. known' \in [Agents -> [Nodes -> {"none", "passing", "critical"}]]
    <3>1. \/ known' = known
          \/ \E s \in {"passing", "critical"} : known' = [known EXCEPT ![ping[p].agent][n] = s]
      BY <1>4, Zenon DEF RunTxn
    <3>2. known \in [Agents -> [Nodes -> {"none", "passing", "critical"}]]
      BY DEF StateTypes
    <3> QED BY <2>1, <3>1, <3>2
  <2>5. \A m \in Nodes :
          /\ kvFresh'[m] \subseteq kvFresh[m]
          /\ kvFresh'[m] # {} => kv'[m] = kv[m]
    BY <2>1, <2>2 DEF StateTypes
  <2>6. ping' \in [Pings -> PingRecords] /\ PingInv' /\ FreshInv'
    <3> DEFINE r == [ping[p] EXCEPT !.pc = "finish"]
    <3>1. /\ r \in PingRecords /\ r.pc = "finish" /\ r.does = ping[p].does
          /\ r.agent = ping[p].agent /\ r.node = n /\ r.seen = ping[p].seen
      BY <1>0 DEF PingRecords
    <3>2. ping' = [ping EXCEPT ![p] = r]
      BY <1>4 DEF RunTxn
    <3>3. r.does \in {"reap", "clear"} => r.seen = "overdue"
      BY <3>1 DEF PingInv
    <3> HIDE DEF r
    <3> QED BY <2>1, <2>5, <3>1, <3>2, <3>3, PingStep
  <2>7. UNCHANGED <<up, inflight, list, oldNodes, outCh>>
    BY <1>4 DEF RunTxn, listVars
  <2>8. StateTypes'
    BY <2>3, <2>4, <2>6, <2>7 DEF StateTypes
  <2> QED BY <2>6, <2>8
<1>5. CASE FinishPing(p)
  <2>1. ping' = [ping EXCEPT ![p] = NoPing] /\ NoPing \in PingRecords
    BY <1>5 DEF FinishPing, NoPing, PingRecords, Entries
  <2>2. /\ inflight' = [inflight EXCEPT ![ping[p].agent] = @ \ {n}]
        /\ kvFresh' = [kvFresh EXCEPT ![n] = @ \ {p}]
        /\ nodeFresh' = [nodeFresh EXCEPT ![n] = @ \ {p}]
        /\ UNCHANGED <<up, registered, check, kv, known, list, oldNodes, outCh>>
    BY <1>5 DEF FinishPing, listVars
  <2>3. inflight' \in [Agents -> SUBSET Nodes]
    BY <2>2, Zenon DEF StateTypes
  <2>4. kvFresh' \in [Nodes -> SUBSET Pings] /\ nodeFresh' \in [Nodes -> SUBSET Pings]
    BY <2>2, Zenon DEF StateTypes
  <2>5. ping' \in [Pings -> PingRecords]
    BY <2>1 DEF StateTypes
  <2>6. StateTypes'
    BY <2>2, <2>3, <2>4, <2>5 DEF StateTypes
  <2>7. ping'[p] = NoPing /\ \A q \in Pings \ {p} : ping'[q] = ping[q]
    BY <2>1 DEF StateTypes
  <2>8. NoPing.pc = "idle" /\ NoPing.does = "nothing"
    BY DEF NoPing
  <2>9. PingInv'
    BY <2>7, <2>8 DEF PingInv
  <2>10. \A m \in Nodes : p \in kvFresh[m] => m = n
    BY DEF FreshInv
  <2>11. \A m \in Nodes : p \notin kvFresh'[m] /\ kvFresh'[m] \subseteq kvFresh[m]
    BY <2>2, <2>10 DEF StateTypes
  <2>12. FreshInv'
    BY <2>2, <2>7, <2>11 DEF StateTypes, FreshInv
  <2> QED BY <2>6, <2>9, <2>12
<1> QED BY <1>1, <1>2, <1>3, <1>4, <1>5 DEF RunNodePing

\* The steps of all agents together.
LEMMA ProbeNext == ProbeInv /\ [Next]_vars => ProbeInv'
<1> SUFFICES ASSUME ProbeInv, [Next]_vars PROVE ProbeInv'
  OBVIOUS
<1>1. CASE Next
  BY <1>1, EnvironmentKeepsInv, StartPingKeepsInv, RunNodePingKeepsInv DEF Next
<1>2. CASE UNCHANGED vars
  BY <1>2 DEF vars, ProbeInv, StateTypes, PingInv, FreshInv
<1> QED BY <1>1, <1>2

\* The inductive invariant holds in every reachable state of coordinate.go's pings.
THEOREM ProbeInvariant == Spec => [](ProbeInv /\ BudgetTypes)
  BY ProbeInit, ProbeNext, BudgetsKept, PTL DEF Spec

\* Type correctness of the node probing.
THEOREM ProbeTypeCorrect == Spec => []TypeOK
<1>1. ProbeInv /\ BudgetTypes => TypeOK
  BY DEF ProbeInv, TypeOK
<1> QED BY <1>1, ProbeInvariant, PTL

\* No node is reaped while its critical time is recent (updateFailedNodeTxn), for
\* any number of agents and pings that race: the transaction that deletes the node
\* also deletes, by check-and-set, the entry the decision was based on.
THEOREM NodeNotReapedOnOldTime == Spec => NotReapedOnOldTime
<1>1. ASSUME ProbeInv, BudgetTypes, [Next]_vars
      PROVE  [\A n \in Nodes : Reaped(n) => kv[n] # "recent"]_vars
  <2> SUFFICES ASSUME Next, NEW n \in Nodes, Reaped(n) PROVE kv[n] # "recent"
    BY <1>1
  <2>1. PICK p \in Pings : RunTxn(p)
    <3>1. registered' # registered /\ operator' = operator
      BY DEF Reaped
    <3>2. \A m \in Nodes : ~(Flip(m) \/ Age(m))
      BY <3>1 DEF Flip, Age, consulVars
    <3>3. \A m \in Nodes : ~Operator(m)
      <4>1. operator \in Nat
        BY <1>1, BudgetBounds DEF BudgetTypes
      <4> QED BY <3>1, <4>1 DEF Operator
    <3>4. \A a \in Agents : ~(TrackNodes(a) \/ TakeNodes(a))
      BY <3>1 DEF TrackNodes, TakeNodes, consulVars
    <3>5. \A a \in Agents, m \in Nodes : ~(StartPing(a, m) \/ Expire(a, m))
      BY <3>1 DEF StartPing, Expire, consulVars
    <3>6. \A p \in Pings : ~(GetEntry(p) \/ PingNode(p) \/ DecodeFails(p)
                             \/ LookupNode(p) \/ FinishPing(p) \/ AgeStale(p))
      BY <3>1 DEF GetEntry, PingNode, DecodeFails, LookupNode, FinishPing, AgeStale, consulVars
    <3> QED BY <3>2, <3>3, <3>4, <3>5, <3>6 DEF Next, RunNodePing
  <2>2. /\ ping[p].pc = "txn" /\ ping[p].node \in Nodes
        /\ ping[p].does \in {"heal", "fail", "reap", "clear"}
    BY <1>1, <2>1 DEF RunTxn, ProbeInv, StateTypes, PingRecords, PingInv
  <2>3. TxnOK(p) /\ TxnEffect(p)
    BY <2>1 DEF RunTxn, Reaped, consulVars
  <2>4. ping[p].does = "reap" /\ ping[p].node = n
    BY <2>2, <2>3 DEF TxnEffect, Reaped
  <2>5. KVDeleteOK(p, n)
    BY <2>3, <2>4 DEF TxnOK
  <2> QED BY <1>1, <2>4, <2>5 DEF KVDeleteOK, ProbeInv, PingInv, FreshInv
<1> QED BY <1>1, ProbeInvariant, PTL DEF Spec, NotReapedOnOldTime
=============================================================================
