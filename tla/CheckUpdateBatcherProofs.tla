---------------------- MODULE CheckUpdateBatcherProofs ----------------------
(***************************************************************************)
(* Theorems about the batcher for every set of checks, batch size and      *)
(* flush interval.                                                         *)
(***************************************************************************)
EXTENDS CheckUpdateBatcher, FiniteSetTheorems, TLAPS

\* What the timer and the waits have to do with one another: a check waits only
\* while its update does, and the time left on the timer makes up the rest.
WaitInv ==
  \A c \in Checks :
    /\ pendingUpdates[c] = NoUpdate => waited[c] = 0
    /\ pendingUpdates[c] # NoUpdate => waited[c] + flushTimer <= FlushInterval

\* The inductive invariant behind the safety theorems.
BatcherInv ==
  /\ TypeOK
  /\ NoUpdateStranded
  /\ WaitInv
  /\ BatchSizeBounded

-----------------------------------------------------------------------------

\* The configured batch size is positive once the default is filled in.
LEMMA MaxBatchSizePositive == MaxBatchSize \in Nat \ {0}
  BY BatchSizeAssumption DEF MaxBatchSize

\* The keys of a map are a finite set, so its size is a number.
LEMMA KeysFinite ==
  ASSUME NEW m
  PROVE  IsFiniteSet(Keys(m)) /\ Cardinality(Keys(m)) \in Nat
<1>1. Keys(m) \subseteq Checks
  BY DEF Keys
<1>2. IsFiniteSet(Keys(m))
  BY <1>1, ChecksAssumption, FS_Subset
<1> QED
  BY <1>2, FS_CardinalityType

\* The cleared map has no keys.
LEMMA EmptyBatchKeys ==
  Keys(EmptyBatch) = {} /\ Cardinality(Keys(EmptyBatch)) = 0
<1>1. Keys(EmptyBatch) = {}
  BY DEF Keys, EmptyBatch
<1> QED
  BY <1>1, FS_EmptySet

\* Storing one update adds at most one key.
LEMMA StoreKeys ==
  ASSUME NEW m \in [Checks -> 0..MaxUpdates], NEW c \in Checks,
         NEW u \in 1..MaxUpdates
  PROVE  /\ Keys([m EXCEPT ![c] = u]) = Keys(m) \cup {c}
         /\ Cardinality(Keys([m EXCEPT ![c] = u])) \in 1..(Cardinality(Keys(m)) + 1)
<1> DEFINE n == [m EXCEPT ![c] = u]
<1>1. Keys(n) = Keys(m) \cup {c}
  BY DEF Keys, NoUpdate
<1>2. Cardinality(Keys(m) \cup {c}) =
        IF c \in Keys(m) THEN Cardinality(Keys(m)) ELSE Cardinality(Keys(m)) + 1
  BY KeysFinite, FS_AddElement
<1>3. Keys(n) # {}
  BY <1>1
<1>4. Cardinality(Keys(n)) # 0
  BY <1>3, KeysFinite, FS_EmptySet
<1>5. Cardinality(Keys(n)) \in Nat /\ Cardinality(Keys(m)) \in Nat
  BY KeysFinite
<1>6. \/ Cardinality(Keys(n)) = Cardinality(Keys(m))
      \/ Cardinality(Keys(n)) = Cardinality(Keys(m)) + 1
  BY <1>1, <1>2
<1>7. Cardinality(Keys(n)) \in 1..(Cardinality(Keys(m)) + 1)
  <2> HIDE DEF n
  <2> QED
    BY <1>4, <1>5, <1>6
<1> QED
  BY <1>1, <1>7

-----------------------------------------------------------------------------

\* The empty batcher satisfies the invariant.
LEMMA BatcherInit == Init => BatcherInv
<1> SUFFICES ASSUME Init PROVE BatcherInv
  OBVIOUS
<1> USE DEF Init
<1>1. TypeOK
  BY MaxUpdatesAssumption, FlushIntervalAssumption
  DEF TypeOK, EmptyBatch, NoUpdate, NilTimer
<1>2. NoUpdateStranded
  BY EmptyBatchKeys, FlushIntervalAssumption DEF NoUpdateStranded, NilTimer
<1>3. WaitInv
  BY DEF WaitInv, EmptyBatch, NoUpdate
<1>4. BatchSizeBounded
  BY EmptyBatchKeys, MaxBatchSizePositive DEF BatchSizeBounded
<1> QED
  BY <1>1, <1>2, <1>3, <1>4 DEF BatcherInv

\* A drain, by whichever caller, reestablishes the invariant when the map it
\* drains is no larger than a batch may be.
LEMMA DrainPreserves ==
  ASSUME BatcherInv,
         NEW m \in [Checks -> 0..MaxUpdates],
         Cardinality(Keys(m)) <= MaxBatchSize,
         DrainLocked(m),
         flushCalls' \in Nat,
         processed' = processed, latest' \in [Checks -> 0..MaxUpdates],
         issued' \in 0..MaxUpdates
  PROVE  BatcherInv'
<1> USE DEF DrainLocked, DrainTo
<1>0. EmptyBatch \in [Checks -> 0..MaxUpdates] /\ EmptyBatch \in [Checks -> Nat]
  BY MaxUpdatesAssumption DEF EmptyBatch, NoUpdate
<1>1. TypeOK'
  <2>1. batches' \subseteq [Checks -> 0..MaxUpdates] \ {EmptyBatch}
    <3>1. m = EmptyBatch => Keys(m) = {}
      BY EmptyBatchKeys
    <3> HIDE DEF EmptyBatch
    <3> QED BY <3>1 DEF BatcherInv, TypeOK
  <2> QED BY <1>0, <2>1, FlushIntervalAssumption DEF BatcherInv, TypeOK, NilTimer
<1>2. NoUpdateStranded'
  BY EmptyBatchKeys, FlushIntervalAssumption DEF NoUpdateStranded, NilTimer, Keys
<1>3. WaitInv'
  BY DEF WaitInv, EmptyBatch, NoUpdate
<1>4. BatchSizeBounded'
  <2>1. Cardinality(Keys(pendingUpdates')) < MaxBatchSize
    BY EmptyBatchKeys, MaxBatchSizePositive
  <2>2. ASSUME NEW b \in batches'
        PROVE  Cardinality(Keys(b)) \in 1..MaxBatchSize
    <3>1. CASE b \in batches
      BY <3>1 DEF BatcherInv, BatchSizeBounded
    <3>2. CASE b = m /\ Keys(m) # {}
      <4>1. Cardinality(Keys(m)) \in Nat /\ Cardinality(Keys(m)) # 0
        BY <3>2, KeysFinite, FS_EmptySet
      <4> QED
        BY <3>2, <4>1, MaxBatchSizePositive
    <3> QED
      BY <2>2, <3>1, <3>2
  <2> QED
    BY <2>1, <2>2 DEF BatchSizeBounded, Keys
<1> QED
  BY <1>1, <1>2, <1>3, <1>4 DEF BatcherInv

\* Every step preserves the invariant.
LEMMA BatcherStep == BatcherInv /\ [Next]_vars => BatcherInv'
<1> SUFFICES ASSUME BatcherInv, [Next]_vars PROVE BatcherInv'
  OBVIOUS
<1>t. TypeOK /\ NoUpdateStranded /\ WaitInv /\ BatchSizeBounded
  BY DEF BatcherInv
<1>1. ASSUME NEW c \in Checks, Add(c) PROVE BatcherInv'
  <2> DEFINE m == [pendingUpdates EXCEPT ![c] = issued + 1]
  <2>1. issued + 1 \in 1..MaxUpdates
    BY <1>1, <1>t, MaxUpdatesAssumption DEF Add, TypeOK
  <2>2. m \in [Checks -> 0..MaxUpdates]
    BY <2>1, <1>t DEF TypeOK
  <2>3. Keys(m) = Keys(pendingUpdates) \cup {c}
        /\ Cardinality(Keys(m)) \in 1..(Cardinality(Keys(pendingUpdates)) + 1)
    BY <2>1, <1>t, StoreKeys DEF TypeOK
  <2>4. issued' \in 0..MaxUpdates /\ latest' \in [Checks -> 0..MaxUpdates]
        /\ flushCalls' = flushCalls /\ processed' = processed /\ flushCalls \in Nat
    BY <1>1, <1>t, <2>1 DEF Add, TypeOK
  <2>5. Cardinality(Keys(m)) <= MaxBatchSize
    <3> HIDE DEF m
    <3>1. Cardinality(Keys(pendingUpdates)) \in Nat
      BY KeysFinite
    <3>2. Cardinality(Keys(pendingUpdates)) < MaxBatchSize
      BY <1>t DEF BatchSizeBounded
    <3> QED
      BY <2>3, <3>1, <3>2, MaxBatchSizePositive
  <2>6. CASE AtLimit(m)
    <3>1. DrainLocked(m)
      BY <1>1, <2>6 DEF Add
    <3> HIDE DEF m
    <3> QED
      BY <3>1, <2>2, <2>4, <2>5, DrainPreserves
  <2>7. CASE ~AtLimit(m)
    <3>1. StartTimer /\ pendingUpdates' = m /\ batches' = batches /\ waited' = waited
      BY <1>1, <2>7 DEF Add
    <3>2. flushTimer' \in 0..FlushInterval
          /\ (flushTimer # NilTimer => flushTimer' = flushTimer)
          /\ (flushTimer = NilTimer => flushTimer' = FlushInterval)
      BY <3>1, <1>t, FlushIntervalAssumption DEF StartTimer, TypeOK, NilTimer
    <3>3. TypeOK'
      BY <3>1, <3>2, <2>2, <2>4, <1>t, FlushIntervalAssumption DEF TypeOK, NilTimer
    <3>4. NoUpdateStranded'
      BY <3>2, <2>4, <1>t, FlushIntervalAssumption DEF NoUpdateStranded, NilTimer
    <3>5. WaitInv'
      <4> SUFFICES ASSUME NEW d \in Checks
                   PROVE  /\ m[d] = NoUpdate => waited[d] = 0
                          /\ m[d] # NoUpdate => waited[d] + flushTimer' <= FlushInterval
        BY <3>1 DEF WaitInv
      <4>1. m[d] = NoUpdate => pendingUpdates[d] = NoUpdate
        BY <2>1, <1>t DEF TypeOK, NoUpdate
      <4>2. waited[d] \in Nat /\ flushTimer \in 0..NilTimer
        BY <1>t DEF TypeOK
      <4>3. CASE flushTimer = NilTimer
        <5>1. Keys(pendingUpdates) = {}
          BY <4>3, <1>t DEF NoUpdateStranded
        <5>2. pendingUpdates[d] = NoUpdate
          BY <5>1 DEF Keys
        <5>3. waited[d] = 0
          BY <5>2, <1>t DEF WaitInv
        <5> QED
          BY <5>3, <4>3, <3>2, FlushIntervalAssumption
      <4>4. CASE flushTimer # NilTimer
        BY <4>1, <4>2, <4>4, <3>2, <1>t, FlushIntervalAssumption DEF WaitInv
      <4> QED
        BY <4>3, <4>4
    <3>6. BatchSizeBounded'
      <4>1. Cardinality(Keys(m)) < MaxBatchSize
        <5>1. Cardinality(Keys(m)) \in Nat
          BY KeysFinite
        <5> QED
          BY <5>1, <2>7, MaxBatchSizePositive DEF AtLimit
      <4> QED
        BY <4>1, <3>1, <1>t DEF BatchSizeBounded, Keys
    <3> QED
      BY <3>3, <3>4, <3>5, <3>6 DEF BatcherInv
  <2> QED
    BY <2>6, <2>7
<1>2. ASSUME Tick PROVE BatcherInv'
  <2>0. flushTimer \in 1..FlushInterval /\ flushTimer' = flushTimer - 1
        /\ pendingUpdates' = pendingUpdates /\ batches' = batches
    BY <1>2 DEF Tick
  <2>1. TypeOK'
    BY <1>2, <1>t, FlushIntervalAssumption DEF Tick, TypeOK, NilTimer
  <2>2. NoUpdateStranded'
    BY <1>2, <2>0, <1>t, FlushIntervalAssumption
    DEF Tick, TypeOK, NoUpdateStranded, NilTimer, Keys
  <2>3. WaitInv'
    <3> SUFFICES ASSUME NEW d \in Checks
                 PROVE  /\ pendingUpdates[d] = NoUpdate => waited'[d] = 0
                        /\ pendingUpdates[d] # NoUpdate =>
                             waited'[d] + flushTimer' <= FlushInterval
      BY <2>0 DEF WaitInv
    <3>1. waited[d] \in Nat /\ flushTimer \in 0..NilTimer
      BY <1>t DEF TypeOK
    <3>2. waited'[d] = IF pendingUpdates[d] # NoUpdate /\ flushCalls = 0
                       THEN waited[d] + 1 ELSE waited[d]
      BY <1>2 DEF Tick
    <3> QED
      BY <3>1, <3>2, <2>0, <1>t, FlushIntervalAssumption DEF WaitInv
  <2>4. BatchSizeBounded'
    BY <2>0, <1>t DEF BatchSizeBounded, Keys
  <2> QED
    BY <2>1, <2>2, <2>3, <2>4 DEF BatcherInv
<1>3. Cardinality(Keys(pendingUpdates)) <= MaxBatchSize
      /\ pendingUpdates \in [Checks -> 0..MaxUpdates]
  <2>1. Cardinality(Keys(pendingUpdates)) \in Nat
    BY KeysFinite
  <2> QED
    BY <2>1, <1>t, MaxBatchSizePositive DEF TypeOK, BatchSizeBounded
<1>4. ASSUME Flush PROVE BatcherInv'
  <2>1. DrainLocked(pendingUpdates) /\ flushCalls' \in Nat /\ processed' = processed
        /\ latest' \in [Checks -> 0..MaxUpdates] /\ issued' \in 0..MaxUpdates
    BY <1>4, <1>t DEF Flush, TypeOK
  <2> QED
    BY <2>1, <1>3, DrainPreserves
<1>5. ASSUME Stop PROVE BatcherInv'
  <2>1. DrainLocked(pendingUpdates) /\ flushCalls' \in Nat /\ processed' = processed
        /\ latest' \in [Checks -> 0..MaxUpdates] /\ issued' \in 0..MaxUpdates
    BY <1>5, <1>t DEF Stop, TypeOK
  <2> QED
    BY <2>1, <1>3, DrainPreserves
<1>6. ASSUME NEW b \in batches, ProcessUpdates(b) PROVE BatcherInv'
  <2>0. b \in [Checks -> 0..MaxUpdates]
    BY <1>6, <1>t DEF TypeOK
  <2>3. {b[c] : c \in Checks} \ {NoUpdate} \subseteq Updates
    BY <2>0 DEF Updates, NoUpdate
  <2>1. TypeOK'
    BY <1>6, <2>3, <1>t DEF ProcessUpdates, TypeOK
  <2>2. NoUpdateStranded' /\ WaitInv' /\ BatchSizeBounded'
    BY <1>6, <1>t
    DEF ProcessUpdates, NoUpdateStranded, WaitInv, BatchSizeBounded, Keys
  <2> QED
    BY <2>1, <2>2 DEF BatcherInv
<1>7. CASE UNCHANGED vars
  BY <1>7, <1>t DEF vars, BatcherInv, TypeOK, NoUpdateStranded, WaitInv,
                    BatchSizeBounded, Keys
<1> QED
  BY <1>1, <1>2, <1>4, <1>5, <1>6, <1>7 DEF Next

\* The invariant holds throughout every behaviour of the batcher.
LEMMA BatcherInvariant == Spec => []BatcherInv
  BY BatcherInit, BatcherStep, PTL DEF Spec

-----------------------------------------------------------------------------

\* Type correctness, for all parameters.
THEOREM BatcherTypeCorrect == Spec => []TypeOK
<1>1. BatcherInv => TypeOK
  BY DEF BatcherInv
<1> QED
  BY <1>1, BatcherInvariant, PTL

\* No update is stranded in the map without a timer or a Flush call to come
\* (Add, drainLocked), for all parameters.
THEOREM BatcherNeverStrands == Spec => []NoUpdateStranded
<1>1. BatcherInv => NoUpdateStranded
  BY DEF BatcherInv
<1> QED
  BY <1>1, BatcherInvariant, PTL

\* No check waits longer than flushInterval for its flush to start, however
\* often Add is called, for all parameters.
THEOREM BatcherWaitBounded == Spec => []WaitBounded
<1>1. BatcherInv => WaitBounded
  <2> SUFFICES ASSUME BatcherInv, NEW c \in Checks
               PROVE  waited[c] <= FlushInterval
    BY DEF WaitBounded
  <2>1. waited[c] \in Nat /\ flushTimer \in Nat
    BY FlushIntervalAssumption DEF BatcherInv, TypeOK, NilTimer
  <2> QED
    BY <2>1, FlushIntervalAssumption DEF BatcherInv, WaitInv
<1> QED
  BY <1>1, BatcherInvariant, PTL

\* The map stays below the limit and no batch is larger than a transaction may
\* be, for all parameters.
THEOREM BatcherSizeBounded == Spec => []BatchSizeBounded
<1>1. BatcherInv => BatchSizeBounded
  BY DEF BatcherInv
<1> QED
  BY <1>1, BatcherInvariant, PTL

-----------------------------------------------------------------------------

\* Serial numbers tell updates of different checks apart, and what waits is the
\* last update of its check.
HistoryInv ==
  /\ processed \subseteq 1..issued
  /\ \A c \in Checks : latest[c] <= issued
  /\ \A c \in Checks : pendingUpdates[c] # NoUpdate => pendingUpdates[c] = latest[c]
  /\ \A c, d \in Checks : latest[c] = latest[d] /\ latest[c] # NoUpdate => c = d
  /\ \A b \in batches, c \in Checks : b[c] <= issued
  /\ \A b \in batches, c, d \in Checks : b[c] = latest[d] /\ b[c] # NoUpdate => c = d

\* The inductive invariant that shows that updates are kept.
KeptInv == TypeOK /\ HistoryInv /\ LatestKept

\* A drain of m hands on every update of m: what waited is now in one batch.
LEMMA DrainKeeps ==
  ASSUME KeptInv,
         NEW m \in [Checks -> 0..MaxUpdates],
         \* what the caller stored in the map and noted in the history
         latest' \in [Checks -> 0..MaxUpdates],
         issued' \in 0..MaxUpdates, issued <= issued',
         processed' = processed,
         \A c \in Checks : m[c] # NoUpdate => m[c] = latest'[c],
         \A c \in Checks : (m[c] = pendingUpdates[c] /\ latest'[c] = latest[c])
                           \/ (m[c] = issued' /\ latest'[c] = issued' /\ issued' > issued),
         \A c, d \in Checks : latest'[c] = latest'[d] /\ latest'[c] # NoUpdate => c = d,
         DrainLocked(m)
  PROVE  HistoryInv' /\ LatestKept'
<1> USE DEF DrainLocked, DrainTo, NoUpdate
<1>t. TypeOK /\ HistoryInv /\ LatestKept
  BY DEF KeptInv
<1>0. issued \in Nat /\ issued' \in Nat /\ MaxUpdates \in Nat
      /\ pendingUpdates' = EmptyBatch
      /\ (\A c \in Checks : /\ latest[c] \in Nat /\ latest'[c] \in Nat
                            /\ m[c] \in Nat /\ pendingUpdates'[c] = 0)
      /\ \A b \in batches, c \in Checks : b[c] \in Nat
  BY <1>t, MaxUpdatesAssumption DEF TypeOK, EmptyBatch
<1>1. batches' = batches \cup (IF Keys(m) = {} THEN {} ELSE {m})
  OBVIOUS
<1>2. \A c \in Checks : latest'[c] <= issued'
  BY <1>0, <1>t DEF HistoryInv
<1>3. \A b \in batches', c \in Checks : b[c] <= issued'
  BY <1>0, <1>1, <1>2, <1>t DEF HistoryInv
<1>4. \A b \in batches', c, d \in Checks : b[c] = latest'[d] /\ b[c] # NoUpdate => c = d
  <2> SUFFICES ASSUME NEW b \in batches', NEW c \in Checks, NEW d \in Checks,
                      b[c] = latest'[d], b[c] # NoUpdate
               PROVE  c = d
    OBVIOUS
  <2>1. CASE b \in batches
    <3>1. b[c] <= issued
      BY <2>1, <1>t DEF HistoryInv
    <3>2. latest'[d] = latest[d]
      BY <3>1, <1>0
    <3> QED
      BY <2>1, <3>2, <1>t DEF HistoryInv
  <2>2. CASE b = m
    BY <2>2
  <2> QED
    BY <2>1, <2>2, <1>1
<1>5. HistoryInv'
  <2>1. processed' \subseteq 1..issued'
    BY <1>0, <1>t DEF HistoryInv
  <2> QED
    BY <2>1, <1>0, <1>2, <1>3, <1>4 DEF HistoryInv
<1>6. LatestKept'
  <2> SUFFICES ASSUME NEW c \in Checks, latest'[c] # NoUpdate
               PROVE  /\ \/ \E b \in batches' : b[c] = latest'[c]
                         \/ latest'[c] \in processed
                      /\ ~(/\ \E b \in batches' : b[c] = latest'[c]
                           /\ latest'[c] \in processed)
                      /\ \A b1, b2 \in batches' :
                           b1[c] = latest'[c] /\ b2[c] = latest'[c] => b1 = b2
    BY <1>0 DEF LatestKept
  <2>1. CASE m[c] = issued' /\ latest'[c] = issued' /\ issued' > issued
    <3>1. m \in batches'
      BY <2>1, <1>0, <1>1 DEF Keys
    <3>2. latest'[c] \notin processed
      BY <2>1, <1>0, <1>t DEF HistoryInv
    <3>3. \A b \in batches : b[c] # latest'[c]
      BY <2>1, <1>0, <1>t DEF HistoryInv
    <3> QED
      BY <3>1, <3>2, <3>3, <2>1, <1>1
  <2>2. CASE m[c] = pendingUpdates[c] /\ latest'[c] = latest[c]
    <3>1. CASE pendingUpdates[c] = latest[c]
      <4>1. m \in batches' /\ m[c] = latest'[c]
        BY <2>2, <3>1, <1>0, <1>1 DEF Keys
      <4>2. latest'[c] \notin processed /\ \A b \in batches : b[c] # latest'[c]
        BY <2>2, <3>1, <1>t DEF LatestKept
      <4> QED
        BY <4>1, <4>2, <1>1
    <3>2. CASE pendingUpdates[c] # latest[c]
      <4>1. m[c] # latest'[c]
        BY <2>2, <3>2
      <4> QED
        BY <4>1, <2>2, <3>2, <1>1, <1>t DEF LatestKept
    <3> QED
      BY <3>1, <3>2
  <2> QED
    BY <2>1, <2>2
<1> QED
  BY <1>5, <1>6

\* Every step preserves the history invariant and keeps the latest updates.
LEMMA KeptStep == KeptInv /\ TypeOK' /\ [Next]_vars => KeptInv'
<1> SUFFICES ASSUME KeptInv, TypeOK', [Next]_vars PROVE HistoryInv' /\ LatestKept'
  BY DEF KeptInv
<1> USE DEF NoUpdate
<1>t. TypeOK /\ HistoryInv /\ LatestKept
  BY DEF KeptInv
<1>n. issued \in Nat /\ MaxUpdates \in Nat
      /\ (\A c \in Checks : latest[c] \in Nat /\ pendingUpdates[c] \in Nat)
      /\ (\A b \in batches, c \in Checks : b[c] \in Nat)
  BY <1>t, MaxUpdatesAssumption DEF TypeOK
<1>1. ASSUME NEW c \in Checks, Add(c) PROVE HistoryInv' /\ LatestKept'
  <2> DEFINE m == [pendingUpdates EXCEPT ![c] = issued + 1]
  <2>1. /\ issued' = issued + 1 /\ processed' = processed
        /\ latest' = [latest EXCEPT ![c] = issued + 1]
        /\ issued + 1 \in 1..MaxUpdates
        /\ m \in [Checks -> 0..MaxUpdates]
    BY <1>1, <1>t, <1>n DEF Add, TypeOK
  <2>2. \A d \in Checks :
          \/ d # c /\ m[d] = pendingUpdates[d] /\ latest'[d] = latest[d]
          \/ d = c /\ m[d] = issued' /\ latest'[d] = issued' /\ issued' > issued
    BY <2>1, <1>t, <1>n DEF TypeOK
  <2>3. \A d \in Checks : m[d] # NoUpdate => m[d] = latest'[d]
    BY <2>2, <1>t DEF HistoryInv
  <2>4. \A d, e \in Checks : latest'[d] = latest'[e] /\ latest'[d] # NoUpdate => d = e
    BY <2>2, <1>t, <1>n DEF HistoryInv
  <2>5. latest' \in [Checks -> 0..MaxUpdates] /\ issued' \in 0..MaxUpdates
        /\ issued <= issued'
    BY <2>1, <1>n DEF TypeOK
  <2>6. CASE AtLimit(m)
    <3>1. DrainLocked(m)
      BY <1>1, <2>6 DEF Add
    <3>2. \A d \in Checks : (m[d] = pendingUpdates[d] /\ latest'[d] = latest[d])
                            \/ (m[d] = issued' /\ latest'[d] = issued' /\ issued' > issued)
      <4> SUFFICES ASSUME NEW d \in Checks
                   PROVE  (m[d] = pendingUpdates[d] /\ latest'[d] = latest[d])
                          \/ (m[d] = issued' /\ latest'[d] = issued' /\ issued' > issued)
        OBVIOUS
      <4>1. CASE d = c
        BY <4>1, <2>1, <1>t, <1>n DEF TypeOK
      <4>2. CASE d # c
        BY <4>2, <2>1, <1>t DEF TypeOK
      <4> QED
        BY <4>1, <4>2
    <3> HIDE DEF m
    <3> QED
      BY <3>1, <3>2, <2>1, <2>3, <2>4, <2>5, DrainKeeps
  <2>7. CASE ~AtLimit(m)
    <3>1. pendingUpdates' = m /\ batches' = batches
      BY <1>1, <2>7 DEF Add
    <3> HIDE DEF m
    <3>2. \A b \in batches, d, e \in Checks : b[d] = latest'[e] /\ b[d] # NoUpdate => d = e
      <4> SUFFICES ASSUME NEW b \in batches, NEW d \in Checks, NEW e \in Checks,
                          b[d] = latest'[e], b[d] # NoUpdate
                   PROVE  d = e
        OBVIOUS
      <4>1. b[d] <= issued
        BY <1>t DEF HistoryInv
      <4>2. latest'[e] = latest[e]
        BY <4>1, <2>2, <1>n
      <4> QED
        BY <4>2, <1>t DEF HistoryInv
    <3>3. \A b \in batches, d \in Checks : b[d] <= issued'
      <4> SUFFICES ASSUME NEW b \in batches, NEW d \in Checks PROVE b[d] <= issued'
        OBVIOUS
      <4>1. b[d] <= issued /\ b[d] \in Nat
        BY <1>t, <1>n DEF HistoryInv
      <4> QED
        BY <4>1, <2>1, <1>n
    <3>4. processed' \subseteq 1..issued' /\ \A d \in Checks : latest'[d] <= issued'
      BY <2>1, <2>2, <1>t, <1>n DEF HistoryInv
    <3>5. HistoryInv'
      BY <3>1, <3>2, <3>3, <3>4, <2>3, <2>4 DEF HistoryInv
    <3>6. LatestKept'
      <4> SUFFICES ASSUME NEW d \in Checks, latest'[d] # NoUpdate
                   PROVE  LET waits == m[d] = latest'[d]
                              held  == \E b \in batches : b[d] = latest'[d]
                              done  == latest'[d] \in processed
                          IN  /\ waits \/ held \/ done
                              /\ ~(waits /\ held) /\ ~(waits /\ done) /\ ~(held /\ done)
                              /\ \A b1, b2 \in batches :
                                   b1[d] = latest'[d] /\ b2[d] = latest'[d] => b1 = b2
        BY <3>1, <2>1 DEF LatestKept
      <4>1. CASE d = c
        <5>1. m[d] = latest'[d]
          BY <4>1, <2>2
        <5>2. latest'[d] = issued + 1
          BY <4>1, <2>1, <1>t DEF TypeOK
        <5>3. latest'[d] \notin processed
          BY <5>2, <1>t, <1>n DEF HistoryInv
        <5>4. \A b \in batches : b[d] # latest'[d]
          BY <5>2, <1>t, <1>n DEF HistoryInv
        <5> QED
          BY <5>1, <5>3, <5>4
      <4>2. CASE d # c
        BY <4>2, <2>2, <1>t DEF LatestKept
      <4> QED
        BY <4>1, <4>2
    <3> QED
      BY <3>5, <3>6
  <2> QED
    BY <2>6, <2>7
<1>2. ASSUME Tick PROVE HistoryInv' /\ LatestKept'
  BY <1>2, <1>t DEF Tick, HistoryInv, LatestKept
<1>3. ASSUME Flush \/ Stop PROVE HistoryInv' /\ LatestKept'
  <2>1. DrainLocked(pendingUpdates) /\ UNCHANGED <<processed, latest, issued>>
    BY <1>3 DEF Flush, Stop
  <2>2. pendingUpdates \in [Checks -> 0..MaxUpdates]
        /\ latest' \in [Checks -> 0..MaxUpdates]
        /\ issued' \in 0..MaxUpdates /\ issued <= issued' /\ processed' = processed
        /\ latest' = latest
    BY <2>1, <1>t, <1>n DEF TypeOK
  <2>3. (\A c \in Checks : pendingUpdates[c] # NoUpdate => pendingUpdates[c] = latest'[c])
        /\ (\A c, d \in Checks : latest'[c] = latest'[d] /\ latest'[c] # NoUpdate => c = d)
    BY <2>2, <1>t DEF HistoryInv
  <2>4. \A c \in Checks :
          (pendingUpdates[c] = pendingUpdates[c] /\ latest'[c] = latest[c])
          \/ (pendingUpdates[c] = issued' /\ latest'[c] = issued' /\ issued' > issued)
    BY <2>2
  <2> QED
    BY <2>1, <2>2, <2>3, <2>4, DrainKeeps
<1>4. ASSUME NEW b \in batches, ProcessUpdates(b) PROVE HistoryInv' /\ LatestKept'
  <2> DEFINE news == {b[c] : c \in Checks} \ {NoUpdate}
  <2>1. batches' = batches \ {b} /\ processed' = processed \cup news
        /\ pendingUpdates' = pendingUpdates /\ latest' = latest /\ issued' = issued
    BY <1>4 DEF ProcessUpdates
  <2>2. news \subseteq 1..issued
    <3> SUFFICES ASSUME NEW c \in Checks, b[c] # NoUpdate PROVE b[c] \in 1..issued
      OBVIOUS
    <3>1. b[c] \in Nat /\ b[c] <= issued
      BY <1>n, <1>t DEF HistoryInv
    <3> QED
      BY <3>1, <1>n
  <2>3. HistoryInv'
    <3>1. processed' \subseteq 1..issued'
      BY <2>1, <2>2, <1>t DEF HistoryInv
    <3> HIDE DEF news
    <3> QED BY <2>1, <3>1, <1>t DEF HistoryInv
  <2>4. \A c \in Checks : latest[c] # NoUpdate =>
          (latest[c] \in news <=> b[c] = latest[c])
    BY <1>t DEF HistoryInv
  <2>5. LatestKept'
    <3> HIDE DEF news
    <3> QED
      BY <2>1, <2>4, <1>t DEF LatestKept
  <2> QED
    BY <2>3, <2>5
<1>5. CASE UNCHANGED vars
  BY <1>5, <1>t DEF vars, HistoryInv, LatestKept
<1> QED
  BY <1>1, <1>2, <1>3, <1>4, <1>5 DEF Next

\* The last update added for a check is never lost and never processed twice,
\* for all parameters.
THEOREM BatcherKeepsLatest == Spec => []LatestKept
<1>1. Init => KeptInv
  <2> SUFFICES ASSUME Init PROVE KeptInv
    OBVIOUS
  <2>1. TypeOK
    BY BatcherInit DEF BatcherInv
  <2> QED
    BY <2>1 DEF Init, KeptInv, HistoryInv, LatestKept, EmptyBatch, NoUpdate
<1>2. KeptInv => LatestKept
  BY DEF KeptInv
<1> QED
  BY <1>1, <1>2, KeptStep, BatcherTypeCorrect, PTL DEF Spec

-----------------------------------------------------------------------------

\* A map with no keys is the cleared map.
LEMMA NoKeysMeansEmpty ==
  ASSUME NEW m \in [Checks -> 0..MaxUpdates]
  PROVE  Keys(m) = {} <=> m = EmptyBatch
  BY DEF Keys, EmptyBatch, NoUpdate

\* Add, Flush, Stop and the callback implement the steps of the abstract buffer
\* and the clock is invisible to it, for all parameters.
THEOREM BatcherImplementsBuffer ==
  Spec => Buffer!Init /\ [][Buffer!Next]_(Buffer!vars)
<1>1. Init => Buffer!Init
  BY DEF Init, Buffer!Init, EmptyBatch, Buffer!EmptyBatch, NoUpdate, Buffer!NoUpdate
<1>2. TypeOK /\ [Next]_vars => [Buffer!Next]_(Buffer!vars)
  <2> SUFFICES ASSUME TypeOK, [Next]_vars PROVE [Buffer!Next]_(Buffer!vars)
    OBVIOUS
  <2> USE DEF Buffer!vars
  <2>e. EmptyBatch = Buffer!EmptyBatch
    BY DEF EmptyBatch, Buffer!EmptyBatch, NoUpdate, Buffer!NoUpdate
  <2>1. ASSUME NEW c \in Checks, Add(c) PROVE Buffer!Put(c) \/ Buffer!PutAndTake(c)
    <3> DEFINE m == [pendingUpdates EXCEPT ![c] = issued + 1]
    <3>1. Buffer!Issue(c)
      BY <2>1 DEF Add, Buffer!Issue
    <3>2. CASE AtLimit(m)
      <4>1. DrainLocked(m)
        BY <2>1, <3>2 DEF Add
      <4>2. Keys(m) # {}
        BY <2>1, MaxUpdatesAssumption DEF TypeOK, Keys, NoUpdate, Add
      <4> QED
        BY <3>1, <4>1, <4>2, <2>e DEF DrainLocked, DrainTo, Buffer!PutAndTake
    <3>3. CASE ~AtLimit(m)
      BY <2>1, <3>1, <3>3 DEF Add, Buffer!Put
    <3> QED
      BY <3>2, <3>3
  <2>2. ASSUME Tick PROVE UNCHANGED Buffer!vars
    BY <2>2 DEF Tick
  <2>3. ASSUME Flush \/ Stop PROVE Buffer!Take \/ UNCHANGED Buffer!vars
    <3>1. DrainLocked(pendingUpdates) /\ UNCHANGED <<processed, latest, issued>>
      BY <2>3 DEF Flush, Stop
    <3>2. Keys(pendingUpdates) = {} <=> pendingUpdates = EmptyBatch
      BY NoKeysMeansEmpty DEF TypeOK
    <3> QED
      BY <3>1, <3>2, <2>e DEF DrainLocked, DrainTo, Buffer!Take
  <2>4. ASSUME NEW b \in batches, ProcessUpdates(b) PROVE Buffer!Process(b)
    BY <2>4 DEF ProcessUpdates, Buffer!Process, NoUpdate, Buffer!NoUpdate
  <2>5. CASE UNCHANGED vars
    BY <2>5 DEF vars
  <2> QED
    BY <2>1, <2>2, <2>3, <2>4, <2>5 DEF Next, Buffer!Next
<1> QED
  BY <1>1, <1>2, BatcherTypeCorrect, PTL DEF Spec
=============================================================================
